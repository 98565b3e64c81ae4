----------------------------- MODULE HttpClients -----------------------------
(* The HTTP clients: 05 sends a request, 06 and https_client.c send one and *)
(* read the response, 07 follows redirections and reads several pages into  *)
(* one buffer.  SetupPaths has what they acquire, call by call; here         *)
(* everything up to connect() is one step, and then one action per call.     *)
(* A unit is the least that a send() or recv() moves.                        *)
EXTENDS Integers, Sequences, FiniteSets

CONSTANTS
  Programs,        \* those looked at: send05, receive06, redirect07, https
  RequestLen,      \* units of a request
  BufferSize,      \* MESSAGE_SIZE, or RESPONSE_SIZE
  ResponseLen,     \* bound: units of the longest response
  MaxRedirection,  \* MAX_REDIRECTION
  Pages            \* requests main() makes in 07

ASSUME HttpClientsAssumption ==
  /\ Programs \subseteq {"send05", "receive06", "redirect07", "https"}
  /\ RequestLen \in Nat \ {0} /\ BufferSize \in Nat \ {0}
  /\ ResponseLen \in Nat /\ MaxRedirection \in Nat
  /\ Pages \in Nat \ {0}

VARIABLES
  prog,            \* the program that runs
  pc,              \* the call it is about to make, or how it ended
  page,            \* the request of main() it is at
  redirect_count,
  conn,            \* number of the current connection (history)
  peer,            \* the server's end of it
  moved,           \* the server answers "301 Moved Permanently"
  given,           \* units of the response the server has sent
  sent_bytes,
  wire,            \* what send() has put on the connection
  received_bytes,
  http_response,   \* the local buffer
  response,        \* the buffer of main()
  result,          \* what perform_http_request() returned
  open             \* connections whose socket and address list are not released

netVars  == <<conn, peer, moved, given>>
sendVars == <<sent_bytes, wire>>
recvVars == <<received_bytes, http_response>>
mainVars == <<page, redirect_count, response, result>>
vars == <<prog, pc, open, netVars, sendVars, recvVars, mainVars>>

Request == [n \in 1..RequestLen |-> n]

\* A unit of a response: the connection it came on, and its place there.  A
\* zero byte is <<0, 0>>.
Units == (0..(Pages * (MaxRedirection + 1))) \X (0..ResponseLen)
Zeros == [n \in 1..BufferSize |-> <<0, 0>>]

HttpResult == {"UNKNOWN", "SUCCESSFUL", "NOT_FOUND"}

TypeOK ==
  /\ pc \in {"connect", "send", "recv", "returned", "done", "killed"}
  /\ page \in 1..Pages /\ redirect_count \in 0..(MaxRedirection + 1)
  /\ conn \in 0..(Pages * (MaxRedirection + 1))
  /\ peer \in {"none", "up", "fin", "rst", "broken"}
  /\ moved \in BOOLEAN /\ given \in 0..ResponseLen
  /\ sent_bytes \in -1..(2 * RequestLen)
  /\ wire \in Seq(1..RequestLen)
  /\ received_bytes \in 0..BufferSize
  /\ http_response \in [1..BufferSize -> Units]
  /\ response \in [1..BufferSize -> Units]
  /\ result \in HttpResult
  /\ open \subseteq 1..conn

AtStart ==
  /\ page = 1 /\ redirect_count = 0
  /\ conn = 0 /\ peer = "none" /\ moved = FALSE /\ given = 0
  /\ sent_bytes = 0 /\ wire = <<>>
  /\ received_bytes = 0 /\ http_response = Zeros
  /\ response = Zeros /\ result = "UNKNOWN"
  /\ open = {}

Init ==
  /\ prog \in Programs
  /\ pc = "connect"
  /\ AtStart

---------------------------------------------------------------------------
\* A way out that releases: back to main() with a result in 07, the end of the
\* program elsewhere.
LeaveWith(r) ==
  /\ open' = open \ {conn}
  /\ IF prog = "redirect07"
     THEN pc' = "returned" /\ result' = r
     ELSE pc' = "done" /\ UNCHANGED result

TooManyRedirections ==
  /\ pc = "connect"
  /\ redirect_count > MaxRedirection
  /\ pc' = "returned"
  /\ result' = "NOT_FOUND"
  /\ UNCHANGED <<prog, open, netVars, sendVars, recvVars, page, redirect_count, response>>

\* getaddrinfo(), socket() and connect() succeed.
Connect ==
  /\ pc = "connect"
  /\ redirect_count <= MaxRedirection
  /\ conn' = conn + 1 /\ peer' = "up" /\ given' = 0 /\ moved' \in BOOLEAN
  /\ open' = open \cup {conn + 1}
  /\ sent_bytes' = 0 /\ wire' = <<>>
  /\ pc' = "send"
  /\ UNCHANGED <<prog, recvVars, mainVars>>

ConnectFails ==
  /\ pc = "connect"
  /\ redirect_count <= MaxRedirection
  /\ IF prog = "redirect07"
     THEN pc' = "returned" /\ result' = "UNKNOWN"
     ELSE pc' = "done" /\ UNCHANGED result
  /\ UNCHANGED <<prog, open, netVars, sendVars, recvVars, page, redirect_count, response>>

\* A server that closed answers what it is sent with a RST, which may or may
\* not have arrived when the next call is made.
Transmitted ==
  \/ peer = "up" /\ UNCHANGED peer
  \/ peer = "fin" /\ peer' \in {"fin", "broken"}

\* Variant: the rest is sent from the start of the request again.
SendRestart ==
  /\ pc = "send" /\ prog /= "send05"
  /\ Transmitted
  /\ \E k \in 1..(RequestLen - sent_bytes) :
       /\ prog = "https" => k = RequestLen
       /\ wire' = wire \o SubSeq(Request, 1, k)
       /\ sent_bytes' = sent_bytes + k
  /\ IF sent_bytes' = RequestLen
     THEN pc' = "recv" /\ received_bytes' = 0 /\ http_response' = Zeros
     ELSE UNCHANGED <<pc, recvVars>>
  /\ UNCHANGED <<prog, open, conn, moved, given, mainVars>>

\* send() takes a part, SSL_write() all of it; the rest is sent from where the
\* last call left off, and then the buffer for the response is cleared.
Send ==
  /\ pc = "send" /\ prog /= "send05"
  /\ Transmitted
  /\ \E k \in 1..(RequestLen - sent_bytes) :
       /\ prog = "https" => k = RequestLen
       /\ wire' = wire \o SubSeq(Request, sent_bytes + 1, sent_bytes + k)
       /\ sent_bytes' = sent_bytes + k
  /\ IF sent_bytes' = RequestLen
     THEN pc' = "recv" /\ received_bytes' = 0 /\ http_response' = Zeros
     ELSE UNCHANGED <<pc, recvVars>>
  /\ UNCHANGED <<prog, open, conn, moved, given, mainVars>>

SendFails ==
  /\ pc = "send" /\ prog /= "send05"
  /\ peer = "rst"
  /\ peer' = "broken"
  /\ LeaveWith("UNKNOWN")
  /\ UNCHANGED <<prog, conn, moved, given, sendVars, recvVars,
                 page, redirect_count, response>>

\* 05 sends the whole request until as many bytes have gone out as it has.
SendWhole ==
  /\ pc = "send" /\ prog = "send05"
  /\ Transmitted
  /\ \E k \in 1..RequestLen :
       /\ wire' = wire \o SubSeq(Request, 1, k)
       /\ sent_bytes' = sent_bytes + k
  /\ IF sent_bytes' >= RequestLen
     THEN pc' = "done" /\ open' = open \ {conn}
     ELSE UNCHANGED <<pc, open>>
  /\ UNCHANGED <<prog, conn, moved, given, recvVars, mainVars>>

\* Its test looks at the result of connect(): -1 is added up as a count.
SendWholeFails ==
  /\ pc = "send" /\ prog = "send05"
  /\ peer = "rst"
  /\ peer' = "broken"
  /\ sent_bytes' = sent_bytes - 1
  /\ UNCHANGED <<prog, pc, open, conn, moved, given, wire, recvVars, mainVars>>

KilledBySigpipe ==
  /\ pc = "send"
  /\ peer = "broken"
  /\ pc' = "killed"
  /\ open' = {}
  /\ UNCHANGED <<prog, netVars, sendVars, recvVars, mainVars>>

---------------------------------------------------------------------------
\* Variant: every recv() stores at the start of the buffer.
RecvAtStart ==
  /\ pc = "recv"
  /\ \E k \in 1..(given - received_bytes) :
       /\ received_bytes + k <= BufferSize
       /\ http_response' =
            [n \in 1..BufferSize |->
               IF n \in 1..k THEN <<conn, received_bytes + n>> ELSE http_response[n]]
       /\ received_bytes' = received_bytes + k
  /\ UNCHANGED <<prog, pc, open, netVars, sendVars, mainVars>>

\* recv() or SSL_read(): what fits behind what is there.
Recv ==
  /\ pc = "recv"
  /\ \E k \in 1..(given - received_bytes) :
       /\ received_bytes + k <= BufferSize
       /\ http_response' =
            [n \in 1..BufferSize |->
               IF n \in (received_bytes + 1)..(received_bytes + k)
               THEN <<conn, n>> ELSE http_response[n]]
       /\ received_bytes' = received_bytes + k
  /\ UNCHANGED <<prog, pc, open, netVars, sendVars, mainVars>>

\* Variant: the end of the stream is taken for "nothing yet".
RecvEndsOnError ==
  /\ pc = "recv"
  /\ received_bytes = given \/ received_bytes = BufferSize
  /\ peer = "rst"

\* The loop ends at the end of the stream or an error - or, with a full buffer,
\* at a call for 0 bytes, which returns 0 once anything more has arrived.
RecvEnds ==
  /\ pc = "recv"
  /\ received_bytes = given \/ received_bytes = BufferSize
  /\ received_bytes < given \/ peer /= "up"

\* 06 and HTTPS print what they have; an empty response is a failure in 06.
EndResponse ==
  /\ prog \in {"receive06", "https"}
  /\ RecvEnds
  /\ LeaveWith("SUCCESSFUL")
  /\ UNCHANGED <<prog, netVars, sendVars, recvVars, page, redirect_count, response>>

\* memcpy() into the buffer of main(): what is behind it stays.
CopyResponse ==
  response' = [n \in 1..BufferSize |->
                 IF n <= received_bytes THEN http_response[n] ELSE response[n]]

\* strstr(): the status line is in the first unit, the location in the second.
Redirected == moved /\ received_bytes >= 2

\* Variant: the request for the new location starts with the same count.
RedirectUncounted ==
  /\ prog = "redirect07"
  /\ RecvEnds
  /\ Redirected
  /\ CopyResponse
  /\ pc' = "connect"
  /\ UNCHANGED <<prog, open, netVars, sendVars, recvVars, page, redirect_count, result>>

\* The recursive call; the socket and the address list of this one stay.
Redirect ==
  /\ prog = "redirect07"
  /\ RecvEnds
  /\ Redirected
  /\ CopyResponse
  /\ redirect_count' = redirect_count + 1
  /\ pc' = "connect"
  /\ UNCHANGED <<prog, open, netVars, sendVars, recvVars, page, result>>

ReturnResponse ==
  /\ prog = "redirect07"
  /\ RecvEnds
  /\ ~Redirected
  /\ CopyResponse
  /\ LeaveWith("SUCCESSFUL")
  /\ UNCHANGED <<prog, netVars, sendVars, recvVars, page, redirect_count>>

\* main() prints its buffer, whatever was returned, and asks for the next page.
NextPage ==
  /\ pc = "returned"
  /\ page < Pages
  /\ page' = page + 1
  /\ redirect_count' = 0
  /\ pc' = "connect"
  /\ UNCHANGED <<prog, open, netVars, sendVars, recvVars, response, result>>

LastPage ==
  /\ pc = "returned"
  /\ page = Pages
  /\ pc' = "done"
  /\ open' = {}
  /\ UNCHANGED <<prog, netVars, sendVars, recvVars, mainVars>>

ClientStep ==
  \/ TooManyRedirections \/ Connect \/ ConnectFails
  \/ Send \/ SendFails \/ SendWhole \/ SendWholeFails \/ KilledBySigpipe
  \/ Recv \/ EndResponse \/ Redirect \/ ReturnResponse
  \/ NextPage \/ LastPage

---------------------------------------------------------------------------
\* The server sends its response piece by piece, and closes or resets the
\* connection at any moment.
InExchange == pc \in {"send", "recv"}

ServerSends ==
  /\ InExchange
  /\ peer = "up"
  /\ given < ResponseLen
  /\ given' = given + 1
  /\ UNCHANGED <<prog, pc, open, conn, peer, moved, sendVars, recvVars, mainVars>>

ServerEnds(how) ==
  /\ InExchange
  /\ \/ how = "fin" /\ peer = "up"
     \/ how = "rst" /\ peer \in {"up", "fin"}
  /\ peer' = how
  /\ UNCHANGED <<prog, pc, open, conn, moved, given, sendVars, recvVars, mainVars>>

Next ==
  \/ ClientStep
  \/ ServerSends
  \/ \E how \in {"fin", "rst"} : ServerEnds(how)

Spec == Init /\ [][Next]_vars

\* The client runs while it is not blocked, and the server, which is asked for
\* "Connection: close", does close.
Fairness == WF_vars(ClientStep) /\ WF_vars(ServerEnds("fin"))

FairSpec == Spec /\ Fairness

---------------------------------------------------------------------------
\* 06, 07 and https_client.c keep the promise of HttpExchange.  05 does not,
\* and is left out.
Asks == prog /= "send05"
Exchange == INSTANCE HttpExchange WITH
  id    <- IF Asks THEN conn ELSE 0,
  phase <- IF Asks /\ pc = "send" THEN "asking"
           ELSE IF Asks /\ pc = "recv" THEN "reading" ELSE "idle",
  asked <- IF Asks /\ InExchange THEN wire ELSE <<>>,
  got   <- IF pc = "recv" THEN SubSeq(http_response, 1, received_bytes) ELSE <<>>

ImplementsExchange == Exchange!Spec

\* A request that ends in success leaves in main()'s buffer all that the last
\* connection brought and that fits; what stands behind it is older.
LastHopIsReturned ==
  /\ TypeOK
  /\ prog = "redirect07" /\ pc = "returned" /\ result = "SUCCESSFUL" =>
       \A n \in 1..BufferSize :
         IF n <= given THEN response[n] = <<conn, n>>
         ELSE response[n][1] < conn

\* A chain of redirections is cut: at no time are more than
\* MAX_REDIRECTION + 1 connections per request of main() left open.
ConnectionsBounded == Cardinality(open) <= page * (MaxRedirection + 1)

\* Every program comes to its end, whatever the servers answer and whenever
\* they close or reset the connection.
ClientsEnd == <>(pc \in {"done", "killed"})

\* What goes out is a part of the request, from its start.
RequestOnce == \E n \in 0..RequestLen : wire = SubSeq(Request, 1, n)

\* What main() prints came from the last connection it made.
PrintedIsFresh ==
  pc = "returned" => \A n \in 1..BufferSize : response[n][1] \in {0, conn}
=============================================================================
