---------------------------- MODULE ExchangeProofs ----------------------------
(* Proofs about the programs that fetch pages, those that talk in datagrams,*)
(* and the set-up of all programs.  HttpClients: for any lengths of request, buffer and response *)
(* and any number of redirections and pages, its invariants, and that it    *)
(* implements HttpExchange.  Curl: for any urls and any length of pages, its*)
(* invariants.  UdpExchange: for any number of clients and lines, that      *)
(* answers match, and that what a client asked stays under way; Broadcast:  *)
(* its types.  SetupPaths: that programs whose lists of releases are        *)
(* balanced give back what they acquired, once.                             *)
EXTENDS MCExchanges, SequenceTheorems, FiniteSetTheorems, TLAPS

USE HttpClientsAssumption

---------------------------------------------------------------------------
\* The parts of the invariant of HttpClients.

\* Connections made for one page.
PerPage == MaxRedirection + 1

\* Each page and each redirection accounts for one connection.
HopsSound ==
  /\ conn <= page * PerPage
  /\ pc = "connect" => conn <= (page - 1) * PerPage + redirect_count
  /\ InExchange =>
       /\ conn \in 1..((page - 1) * PerPage + redirect_count + 1)
       /\ redirect_count <= MaxRedirection

\* What has gone out is the request as far as sent_bytes says; in 05 the count
\* is below zero only when nothing more can be sent.
RequestSound ==
  /\ pc = "recv" => prog /= "send05"
  /\ pc = "send" =>
       /\ sent_bytes < RequestLen
       /\ peer /= "broken" => sent_bytes >= 0
  /\ InExchange /\ Asks =>
       /\ sent_bytes \in 0..RequestLen
       /\ sent_bytes = RequestLen => pc = "recv"
       /\ wire = [n \in 1..sent_bytes |-> n]

\* The local buffer has what this connection brought and zeros behind it, and
\* the buffer of main() only what earlier connections brought.
ResponseSound ==
  /\ \A n \in 1..BufferSize : response[n][1] <= conn
  /\ InExchange => \A n \in 1..BufferSize : response[n][1] < conn
  /\ pc = "recv" =>
       /\ received_bytes <= given
       /\ http_response =
            [n \in 1..BufferSize |->
               IF n <= received_bytes THEN <<conn, n>> ELSE <<0, 0>>]

IInv ==
  /\ prog \in Programs
  /\ HopsSound /\ RequestSound /\ ResponseSound /\ LastHopIsReturned

---------------------------------------------------------------------------
\* Counting by pages.
LEMMA PageCount ==
  /\ PerPage \in Nat \ {0}
  /\ \A p \in 1..Pages :
       /\ (p - 1) * PerPage \in Nat /\ p * PerPage \in Nat
       /\ p * PerPage = (p - 1) * PerPage + PerPage
       /\ p * PerPage <= Pages * PerPage
<1>1. PerPage \in Nat \ {0}
  BY DEF PerPage
<1>2. \A p \in Nat, k \in Nat : p * k \in Nat
  OBVIOUS
<1>3. \A p \in Nat, k \in Nat : p >= 1 => p * k = (p - 1) * k + k
  OBVIOUS
<1>4. \A p \in Nat, q \in Nat, k \in Nat : p <= q => p * k <= q * k
  OBVIOUS
<1> QED
  BY <1>1, <1>2, <1>3, <1>4

\* The start of a sequence.
LEMMA FirstPart ==
  ASSUME NEW S, NEW s \in Seq(S), NEW k \in 0..Len(s)
  PROVE  /\ SubSeq(s, 1, k) = [n \in 1..k |-> s[n]]
         /\ Len(SubSeq(s, 1, k)) = k
OBVIOUS

\* The request and its parts.
LEMMA RequestParts ==
  /\ Request \in Seq(1..RequestLen) /\ Len(Request) = RequestLen
  /\ \A s, k \in Int :
       s >= 0 /\ k >= 1 /\ s + k <= RequestLen =>
         /\ SubSeq(Request, s + 1, s + k) \in Seq(1..RequestLen)
         /\ [n \in 1..s |-> n] \o SubSeq(Request, s + 1, s + k) = [n \in 1..(s + k) |-> n]
  /\ \A k \in 1..RequestLen : SubSeq(Request, 1, k) = [n \in 1..k |-> n]
<1>1. Request \in Seq(1..RequestLen) /\ Len(Request) = RequestLen
  BY DEF Request
<1>2. ASSUME NEW s \in Int, NEW k \in Int, s >= 0, k >= 1, s + k <= RequestLen
      PROVE  /\ SubSeq(Request, s + 1, s + k) \in Seq(1..RequestLen)
             /\ Len(SubSeq(Request, s + 1, s + k)) = k
             /\ \A n \in 1..k : SubSeq(Request, s + 1, s + k)[n] = s + n
  BY <1>1, <1>2 DEF Request
<1>3. ASSUME NEW s \in Int, NEW k \in Int, s >= 0, k >= 1, s + k <= RequestLen
      PROVE  [n \in 1..s |-> n] \o SubSeq(Request, s + 1, s + k) = [n \in 1..(s + k) |-> n]
  <2> DEFINE a == [n \in 1..s |-> n]
             b == SubSeq(Request, s + 1, s + k)
             c == [n \in 1..(s + k) |-> n]
  <2>1. a \in Seq(1..RequestLen) /\ Len(a) = s /\ \A n \in 1..s : a[n] = n
    BY <1>3
  <2>2. b \in Seq(1..RequestLen) /\ Len(b) = k /\ \A n \in 1..k : b[n] = s + n
    BY <1>2, <1>3
  <2>3. c \in Seq(1..RequestLen) /\ Len(c) = s + k /\ \A n \in 1..(s + k) : c[n] = n
    BY <1>3
  <2> HIDE DEF a, b, c
  <2>4. /\ a \o b \in Seq(1..RequestLen) /\ Len(a \o b) = s + k
        /\ \A n \in 1..(s + k) : (a \o b)[n] = IF n <= s THEN a[n] ELSE b[n - s]
    BY <1>3, <2>1, <2>2, ConcatProperties
  <2>5. \A n \in 1..(s + k) : (IF n <= s THEN a[n] ELSE b[n - s]) = n
    BY <1>3, <2>1, <2>2
  <2>6. a \o b = c
    BY <2>3, <2>4, <2>5, SeqEqual
  <2> QED
    BY <2>6 DEF a, b, c
<1>4. ASSUME NEW k \in 1..RequestLen
      PROVE  SubSeq(Request, 1, k) = [n \in 1..k |-> n]
  BY <1>1, <1>4 DEF Request
<1> QED
  BY <1>1, <1>2, <1>3, <1>4

\* The programs start in IInv.
LEMMA InitIInv == Init => IInv
<1> SUFFICES ASSUME Init PROVE IInv
  OBVIOUS
<1>1. prog \in Programs /\ pc = "connect" /\ AtStart
  BY DEF Init
<1>2. /\ Zeros \in [1..BufferSize -> Units] /\ 0 \in 0..(Pages * (MaxRedirection + 1))
      /\ \A n \in 1..BufferSize : Zeros[n] = <<0, 0>> /\ Zeros[n][1] = 0
  BY PageCount DEF Zeros, Units, PerPage
<1>3. TypeOK
  <2>1. conn \in 0..(Pages * (MaxRedirection + 1)) /\ page \in 1..Pages
    BY <1>1, <1>2 DEF AtStart
  <2>2. sent_bytes \in -1..(2 * RequestLen) /\ wire \in Seq(1..RequestLen)
    BY <1>1, EmptySeq DEF AtStart
  <2>3. response \in [1..BufferSize -> Units] /\ http_response \in [1..BufferSize -> Units]
    BY <1>1, <1>2 DEF AtStart
  <2>4. /\ redirect_count \in 0..(MaxRedirection + 1) /\ given \in 0..ResponseLen
        /\ received_bytes \in 0..BufferSize
    BY <1>1 DEF AtStart
  <2> QED
    BY <1>1, <2>1, <2>2, <2>3, <2>4 DEF AtStart, TypeOK, HttpResult
<1>4. HopsSound
  <2>1. (1 - 1) * PerPage = 0 /\ 1 * PerPage >= 0
    BY PageCount
  <2> QED
    BY <1>1, <2>1 DEF AtStart, HopsSound, InExchange
<1> QED
  BY <1>1, <1>2, <1>3, <1>4
  DEF AtStart, IInv, RequestSound, ResponseSound, LastHopIsReturned, InExchange

---------------------------------------------------------------------------
\* The steps of HttpClients by what they do to the connections: the steps in an
\* exchange change none of what is counted.
Counted == <<prog, page, redirect_count, conn>>

\* Sending, receiving and what the server does count no connection.
LEMMA ExchangeSteps ==
  ASSUME Send \/ SendWhole \/ SendWholeFails \/ Recv \/ ServerSends
           \/ \E how \in {"fin", "rst"} : ServerEnds(how)
  PROVE  UNCHANGED Counted /\ InExchange /\ (pc' = pc \/ pc' \in {"recv", "done"})
BY DEF Send, SendWhole, SendWholeFails, Recv, ServerSends, ServerEnds, Counted, InExchange,
       recvVars, mainVars, netVars, sendVars

\* Nor do the ways out of a request.
LEMMA LeavingSteps ==
  ASSUME SendFails \/ KilledBySigpipe \/ EndResponse \/ ReturnResponse \/ LastPage
           \/ ConnectFails \/ TooManyRedirections
  PROVE  UNCHANGED Counted /\ pc' \in {"returned", "done", "killed"}
BY DEF SendFails, KilledBySigpipe, EndResponse, ReturnResponse, LastPage, ConnectFails,
       TooManyRedirections, LeaveWith, Counted, recvVars, mainVars, netVars, sendVars

\* The count of connections, step by step.
LEMMA NextHops ==
  ASSUME IInv, [Next]_vars
  PROVE  /\ HopsSound'
         /\ page' \in 1..Pages /\ redirect_count' \in 0..(MaxRedirection + 1)
         /\ conn' \in 0..(Pages * (MaxRedirection + 1))
         /\ prog' \in Programs
<1> DEFINE Before(n) == (n - 1) * PerPage
           Through(n) == n * PerPage
           Types == /\ page' \in 1..Pages /\ redirect_count' \in 0..PerPage
                    /\ conn' \in Nat /\ prog' \in Programs
<1>1. /\ page \in 1..Pages /\ redirect_count \in 0..PerPage /\ conn \in Nat
      /\ prog \in Programs /\ PerPage = MaxRedirection + 1
  BY PageCount DEF IInv, LastHopIsReturned, TypeOK, PerPage
<1>2. \A p \in 1..Pages : /\ Before(p) \in Nat /\ Through(p) = Before(p) + PerPage
                          /\ Through(p) <= Through(Pages)
  BY PageCount
<1>3. \A p \in Nat : Before(p + 1) = Through(p)
  OBVIOUS
<1>4. /\ conn <= Through(page)
      /\ pc = "connect" => conn <= Before(page) + redirect_count
      /\ InExchange => /\ conn \in 1..(Before(page) + redirect_count + 1)
                        /\ redirect_count <= MaxRedirection
  BY DEF IInv, HopsSound
<1> HIDE DEF Before, Through
<1>5. ASSUME Types,
             conn' <= Through(page'),
             pc' = "connect" => conn' <= Before(page') + redirect_count',
             InExchange' => /\ conn' \in 1..(Before(page') + redirect_count' + 1)
                            /\ redirect_count' <= MaxRedirection
      PROVE  /\ HopsSound' /\ Types
             /\ conn' \in 0..(Pages * (MaxRedirection + 1))
  <2>1. conn' <= Through(Pages) /\ Through(Pages) \in Nat
    <3>1. Pages \in 1..Pages /\ Through(page') \in Nat
      BY <1>1, <1>2, <1>5
    <3> QED
      BY <1>1, <1>2, <1>5, <3>1
  <2>2. HopsSound'
    BY <1>5 DEF HopsSound, Before, Through, InExchange
  <2>3. Through(Pages) = Pages * (MaxRedirection + 1)
    BY DEF Through, PerPage
  <2> QED
    BY <1>5, <2>1, <2>2, <2>3
<1>6. CASE Send \/ SendWhole \/ SendWholeFails \/ Recv \/ ServerSends
             \/ \E how \in {"fin", "rst"} : ServerEnds(how)
  BY <1>1, <1>2, <1>4, <1>5, <1>6, ExchangeSteps DEF Counted, InExchange
<1>7. CASE SendFails \/ KilledBySigpipe \/ EndResponse \/ ReturnResponse \/ LastPage
             \/ ConnectFails \/ TooManyRedirections
  BY <1>1, <1>2, <1>4, <1>5, <1>7, LeavingSteps DEF Counted, InExchange
<1>8. CASE Connect
  BY <1>1, <1>2, <1>4, <1>5, <1>8 DEF Connect, mainVars, InExchange
<1>9. CASE Redirect
  <2>1. /\ pc = "recv" /\ pc' = "connect" /\ redirect_count' = redirect_count + 1
        /\ UNCHANGED <<prog, page, conn>>
    BY <1>9 DEF Redirect, RecvEnds, netVars
  <2> QED
    BY <1>1, <1>2, <1>4, <1>5, <2>1 DEF InExchange
<1>10. CASE NextPage
  <2>1. /\ page < Pages /\ page' = page + 1 /\ redirect_count' = 0 /\ pc' = "connect"
        /\ UNCHANGED <<prog, conn>>
    BY <1>10 DEF NextPage, netVars
  <2>2. page' \in 1..Pages /\ Before(page') = Through(page)
    BY <1>1, <1>3, <2>1
  <2> QED
    BY <1>1, <1>2, <1>4, <1>5, <2>1, <2>2 DEF InExchange
<1>11. CASE UNCHANGED vars
  BY <1>1, <1>4, <1>5, <1>11 DEF vars, netVars, mainVars, InExchange
<1>12. Types => redirect_count' \in 0..(MaxRedirection + 1)
  BY <1>1
<1> QED
  BY <1>6, <1>7, <1>8, <1>9, <1>10, <1>11, <1>12 DEF Next, ClientStep

---------------------------------------------------------------------------
\* What has gone out, step by step.
LEMMA OutsideSending ==
  ASSUME SendFails \/ KilledBySigpipe \/ EndResponse \/ ReturnResponse \/ LastPage
           \/ ConnectFails \/ TooManyRedirections \/ Redirect \/ NextPage
  PROVE  UNCHANGED sendVars /\ pc' \in {"returned", "done", "killed", "connect"}
BY DEF SendFails, KilledBySigpipe, EndResponse, ReturnResponse, LastPage, ConnectFails,
       TooManyRedirections, Redirect, NextPage, LeaveWith

\* What has gone out is a part of the request from its start, after every step.
LEMMA NextRequest ==
  ASSUME IInv, [Next]_vars
  PROVE  /\ RequestSound'
         /\ sent_bytes' \in -1..(2 * RequestLen) /\ wire' \in Seq(1..RequestLen)
<1>1. /\ sent_bytes \in -1..(2 * RequestLen) /\ wire \in Seq(1..RequestLen)
      /\ RequestSound
  BY DEF IInv, LastHopIsReturned, TypeOK
<1>2. CASE SendFails \/ KilledBySigpipe \/ EndResponse \/ ReturnResponse \/ LastPage
             \/ ConnectFails \/ TooManyRedirections \/ Redirect \/ NextPage
  BY <1>1, <1>2, OutsideSending DEF sendVars, RequestSound, InExchange
<1>3. CASE Connect
  <2>1. sent_bytes' = 0 /\ wire' = <<>> /\ pc' = "send"
    BY <1>3 DEF Connect
  <2>2. <<>> = [n \in 1..0 |-> n] /\ <<>> \in Seq(1..RequestLen)
    BY EmptySeq
  <2> QED
    BY <2>1, <2>2 DEF RequestSound
<1>4. CASE Send
  <2>1. PICK k \in 1..(RequestLen - sent_bytes) :
          /\ wire' = wire \o SubSeq(Request, sent_bytes + 1, sent_bytes + k)
          /\ sent_bytes' = sent_bytes + k
    BY <1>4 DEF Send
  <2>2. /\ pc = "send" /\ prog /= "send05" /\ prog' = prog
        /\ pc' = IF sent_bytes' = RequestLen THEN "recv" ELSE "send"
    BY <1>4 DEF Send
  <2>3. sent_bytes \in 0..RequestLen /\ wire = [n \in 1..sent_bytes |-> n]
    BY <1>1, <2>2 DEF RequestSound, InExchange, Asks
  <2>4. /\ sent_bytes' \in 1..RequestLen /\ wire' = [n \in 1..sent_bytes' |-> n]
        /\ wire' \in Seq(1..RequestLen)
    <3>1. sent_bytes >= 0 /\ k >= 1 /\ sent_bytes + k <= RequestLen /\ k \in Int /\ sent_bytes \in Int
      BY <2>1, <2>3
    <3>2. /\ SubSeq(Request, sent_bytes + 1, sent_bytes + k) \in Seq(1..RequestLen)
          /\ wire' = [n \in 1..(sent_bytes + k) |-> n]
      BY <2>1, <2>3, <3>1, RequestParts
    <3>3. wire' \in Seq(1..RequestLen)
      BY <1>1, <2>1, <3>2, ConcatProperties
    <3>4. sent_bytes' = sent_bytes + k
      BY <2>1
    <3>5. sent_bytes' \in 1..RequestLen
      BY <3>1, <3>4
    <3>6. wire' = [n \in 1..sent_bytes' |-> n]
      BY <3>2, <3>4
    <3> QED
      BY <3>3, <3>5, <3>6
  <2> QED
    BY <2>2, <2>4 DEF RequestSound, InExchange, Asks
<1>5. CASE SendWhole
  <2>1. PICK k \in 1..RequestLen :
          /\ wire' = wire \o SubSeq(Request, 1, k)
          /\ sent_bytes' = sent_bytes + k
    BY <1>5 DEF SendWhole
  <2>2. /\ pc = "send" /\ prog = "send05" /\ prog' = prog
        /\ pc' = IF sent_bytes' >= RequestLen THEN "done" ELSE "send"
        /\ peer \in {"up", "fin"}
    BY <1>5 DEF SendWhole, Transmitted
  <2>3. sent_bytes >= 0 /\ sent_bytes < RequestLen
    BY <1>1, <2>2 DEF RequestSound
  <2>4. SubSeq(Request, 0 + 1, 0 + k) \in Seq(1..RequestLen)
    BY <2>1, RequestParts
  <2>5. wire' \in Seq(1..RequestLen)
    BY <1>1, <2>1, <2>4, ConcatProperties
  <2> QED
    BY <1>1, <2>1, <2>2, <2>3, <2>5 DEF RequestSound, InExchange, Asks
<1>6. CASE SendWholeFails
  <2>1. /\ pc = "send" /\ prog = "send05" /\ prog' = prog /\ pc' = pc /\ wire' = wire
        /\ peer = "rst" /\ peer' = "broken" /\ sent_bytes' = sent_bytes - 1
    BY <1>6 DEF SendWholeFails
  <2> QED
    BY <1>1, <2>1 DEF RequestSound, InExchange, Asks
<1>7. CASE Recv \/ ServerSends \/ \E how \in {"fin", "rst"} : ServerEnds(how)
  <2>1. /\ UNCHANGED sendVars /\ UNCHANGED <<prog, pc>>
        /\ peer' = peer \/ peer \in {"up", "fin"}
    BY <1>7 DEF Recv, ServerSends, ServerEnds, netVars
  <2> QED
    BY <1>1, <2>1 DEF RequestSound, InExchange, Asks, sendVars
<1>8. CASE UNCHANGED vars
  BY <1>1, <1>8 DEF vars, netVars, sendVars, RequestSound, InExchange, Asks
<1> QED
  BY <1>2, <1>3, <1>4, <1>5, <1>6, <1>7, <1>8 DEF Next, ClientStep

---------------------------------------------------------------------------
\* What is in the buffers, step by step.
LastHop ==
  prog = "redirect07" /\ pc = "returned" /\ result = "SUCCESSFUL" =>
    \A n \in 1..BufferSize :
      IF n <= given THEN response[n] = <<conn, n>> ELSE response[n][1] < conn

Bytes == <<received_bytes, http_response, response, conn, given>>

\* A failed or finished call leaves the buffers as they are, and reports no
\* success in 07.
LEMMA BytesKept ==
  ASSUME SendWhole \/ SendWholeFails \/ SendFails \/ KilledBySigpipe \/ ConnectFails
           \/ TooManyRedirections \/ EndResponse \/ LastPage \/ NextPage
  PROVE  /\ UNCHANGED Bytes
         /\ \/ InExchange /\ pc' = pc /\ prog' = prog
            \/ ~InExchange' /\ (pc' = "returned" => prog /= "redirect07" \/ result' /= "SUCCESSFUL")
         /\ prog' = prog
<1>1. CASE SendWhole \/ SendWholeFails
  BY <1>1 DEF SendWhole, SendWholeFails, InExchange, Bytes, recvVars, mainVars
<1>2. CASE SendFails \/ KilledBySigpipe \/ EndResponse
  BY <1>2 DEF SendFails, KilledBySigpipe, EndResponse, LeaveWith, InExchange, Bytes,
              recvVars, mainVars, netVars
<1>3. CASE ConnectFails \/ TooManyRedirections \/ LastPage \/ NextPage
  BY <1>3 DEF ConnectFails, TooManyRedirections, LastPage, NextPage, InExchange, Bytes,
              recvVars, mainVars, netVars
<1> QED
  BY <1>1, <1>2, <1>3

\* The buffers hold what the connections brought, in order, after every step.
LEMMA NextResponse ==
  ASSUME IInv, [Next]_vars
  PROVE  /\ ResponseSound' /\ LastHop'
         /\ received_bytes' \in 0..BufferSize
         /\ http_response' \in [1..BufferSize -> Units]
         /\ response' \in [1..BufferSize -> Units]
<1> DEFINE TypesOf(r, h, p) == /\ r \in 0..BufferSize
                               /\ h \in [1..BufferSize -> Units]
                               /\ p \in [1..BufferSize -> Units]
           Types == TypesOf(received_bytes, http_response, response)
<1>1. /\ Types /\ ResponseSound /\ LastHop
      /\ conn \in Int /\ given \in 0..ResponseLen
      /\ conn \in 0..(Pages * (MaxRedirection + 1))
  <2>1. TypeOK
    BY DEF IInv, LastHopIsReturned
  <2>2. Pages * (MaxRedirection + 1) \in Int
    BY PageCount DEF PerPage
  <2>3. LastHop
    BY DEF IInv, LastHopIsReturned, LastHop
  <2> QED
    BY <2>1, <2>2, <2>3 DEF IInv, TypeOK
<1>2. \A n \in 1..BufferSize : response[n] \in Units /\ response[n][1] \in Int
  <2>1. Pages * (MaxRedirection + 1) \in Int
    BY PageCount DEF PerPage
  <2>2. \A u \in Units : u[1] \in Int
    BY <2>1 DEF Units
  <2> QED
    BY <1>1, <2>2
<1>3. \A n \in 0..ResponseLen : <<conn, n>> \in Units /\ <<conn, n>>[1] = conn
  BY <1>1 DEF Units
<1>4. <<0, 0>> \in Units
  BY PageCount DEF Units, PerPage
<1> USE <1>1
<1>5. CASE SendWhole \/ SendWholeFails \/ SendFails \/ KilledBySigpipe \/ ConnectFails
             \/ TooManyRedirections \/ EndResponse \/ LastPage \/ NextPage
  BY <1>5, BytesKept DEF Bytes, ResponseSound, LastHop, InExchange
<1>6. CASE Connect
  <2>1. /\ conn' = conn + 1 /\ pc' = "send" /\ given' = 0
        /\ UNCHANGED <<received_bytes, http_response, response>>
    BY <1>6 DEF Connect, recvVars, mainVars
  <2> QED
    BY <1>2, <2>1 DEF ResponseSound, LastHop, InExchange
<1>7. CASE Send
  <2>1. /\ pc = "send" /\ UNCHANGED <<conn, given, response>>
        /\ \/ pc' = "recv" /\ received_bytes' = 0 /\ http_response' = Zeros
           \/ pc' = "send" /\ UNCHANGED <<received_bytes, http_response>>
    BY <1>7 DEF Send, mainVars, recvVars
  <2>2. /\ Zeros \in [1..BufferSize -> Units]
        /\ Zeros = [n \in 1..BufferSize |-> IF n <= 0 THEN <<conn, n>> ELSE <<0, 0>>]
    BY <1>4 DEF Zeros
  <2>3. CASE pc' = "recv" /\ received_bytes' = 0 /\ http_response' = Zeros
    BY <2>1, <2>2, <2>3 DEF ResponseSound, LastHop, InExchange
  <2>4. CASE pc' = "send" /\ UNCHANGED <<received_bytes, http_response>>
    BY <2>1, <2>4 DEF ResponseSound, LastHop, InExchange
  <2> QED
    BY <2>1, <2>3, <2>4
<1>8. CASE Recv
  <2>1. PICK k \in 1..(given - received_bytes) :
          /\ received_bytes + k <= BufferSize
          /\ http_response' =
               [n \in 1..BufferSize |->
                  IF n \in (received_bytes + 1)..(received_bytes + k)
                  THEN <<conn, n>> ELSE http_response[n]]
          /\ received_bytes' = received_bytes + k
    BY <1>8 DEF Recv
  <2>2. pc = "recv" /\ pc' = "recv" /\ UNCHANGED <<conn, given, response>>
    BY <1>8 DEF Recv, netVars, mainVars
  <2>3. /\ received_bytes' \in 0..BufferSize /\ received_bytes' <= given
        /\ received_bytes' = received_bytes + k /\ k >= 1
    BY <2>1
  <2>4. http_response' = [n \in 1..BufferSize |->
                            IF n <= received_bytes' THEN <<conn, n>> ELSE <<0, 0>>]
    <3>1. \A n \in 1..BufferSize :
            http_response[n] = IF n <= received_bytes THEN <<conn, n>> ELSE <<0, 0>>
      BY <2>2 DEF ResponseSound
    <3>2. \A n \in 1..BufferSize :
            (IF n \in (received_bytes + 1)..(received_bytes + k)
             THEN <<conn, n>> ELSE http_response[n])
              = IF n <= received_bytes' THEN <<conn, n>> ELSE <<0, 0>>
      BY <2>3, <3>1
    <3> QED
      BY <2>1, <3>2, Zenon
  <2>5. http_response' \in [1..BufferSize -> Units]
    <3>1. \A n \in 1..BufferSize :
            (IF n <= received_bytes' THEN <<conn, n>> ELSE <<0, 0>>) \in Units
      BY <1>3, <1>4, <2>3
    <3> QED
      BY <2>4, <3>1
  <2> QED
    BY <2>2, <2>3, <2>4, <2>5 DEF ResponseSound, LastHop, InExchange
<1>9. CASE Redirect \/ ReturnResponse
  <2>1. /\ pc = "recv" /\ pc' \in {"connect", "returned"} /\ CopyResponse
        /\ received_bytes = given \/ received_bytes = BufferSize
        /\ UNCHANGED <<conn, given, received_bytes, http_response>>
    BY <1>9 DEF Redirect, ReturnResponse, LeaveWith, RecvEnds, netVars, recvVars
  <2>2. /\ received_bytes <= given
        /\ \A n \in 1..BufferSize :
             /\ n <= received_bytes => http_response[n] = <<conn, n>>
             /\ response[n][1] < conn
    BY <2>1 DEF ResponseSound, InExchange
  <2>3. response' \in [1..BufferSize -> Units]
    <3>1. \A n \in 1..BufferSize : http_response[n] \in Units
      OBVIOUS
    <3> QED
      BY <1>2, <2>1, <3>1 DEF CopyResponse
  <2>4. \A n \in 1..BufferSize :
          /\ n <= given => response'[n] = <<conn, n>>
          /\ ~(n <= given) => response'[n] = response[n]
    BY <2>1, <2>2 DEF CopyResponse
  <2>5. \A n \in 1..BufferSize :
          /\ response'[n][1] <= conn
          /\ ~(n <= given) => response'[n][1] < conn
    BY <1>2, <1>3, <2>2, <2>4
  <2> QED
    BY <2>1, <2>3, <2>4, <2>5 DEF ResponseSound, LastHop, InExchange
<1>10. CASE ServerSends \/ \E how \in {"fin", "rst"} : ServerEnds(how)
  <2>1. /\ InExchange /\ pc' = pc /\ given' \in {given, given + 1}
        /\ UNCHANGED <<conn, response, received_bytes, http_response>>
    BY <1>10 DEF ServerSends, ServerEnds, recvVars, mainVars
  <2> QED
    BY <2>1 DEF ResponseSound, LastHop, InExchange
<1>11. CASE UNCHANGED vars
  BY <1>11 DEF vars, netVars, recvVars, mainVars, ResponseSound, LastHop, InExchange
<1> QED
  BY <1>5, <1>6, <1>7, <1>8, <1>9, <1>10, <1>11 DEF Next, ClientStep

---------------------------------------------------------------------------
\* The rest of the type invariant: the peer's side, and what is open.
Places == {"connect", "send", "recv", "returned", "done", "killed"}

\* The places of the programs and the peer keep their types.
LEMMA NextPeer ==
  ASSUME IInv, [Next]_vars
  PROVE  /\ pc' \in Places /\ result' \in HttpResult
         /\ peer' \in {"none", "up", "fin", "rst", "broken"}
         /\ moved' \in BOOLEAN /\ given' \in 0..ResponseLen
<1>1. /\ pc \in Places /\ result \in HttpResult
      /\ peer \in {"none", "up", "fin", "rst", "broken"}
      /\ moved \in BOOLEAN /\ given \in 0..ResponseLen
  BY DEF IInv, LastHopIsReturned, TypeOK, Places
<1> USE <1>1
<1>1a. ASSUME NEW r \in HttpResult, LeaveWith(r)
       PROVE  pc' \in Places /\ result' \in HttpResult
  BY <1>1a DEF LeaveWith, Places
<1>1b. "UNKNOWN" \in HttpResult /\ "SUCCESSFUL" \in HttpResult /\ "NOT_FOUND" \in HttpResult
  BY DEF HttpResult
<1>2. CASE TooManyRedirections \/ ConnectFails \/ KilledBySigpipe \/ NextPage \/ LastPage
             \/ Recv \/ Redirect
  BY <1>1b, <1>2 DEF TooManyRedirections, ConnectFails, KilledBySigpipe, NextPage, LastPage,
                Recv, Redirect, netVars, mainVars, Places
<1>3. CASE Connect
  BY <1>3 DEF Connect, mainVars, Places
<1>4. CASE Send \/ SendWhole \/ SendWholeFails
  BY <1>4 DEF Send, SendWhole, SendWholeFails, Transmitted, mainVars, Places
<1>5. CASE SendFails \/ EndResponse \/ ReturnResponse
  BY <1>1a, <1>1b, <1>5 DEF SendFails, EndResponse, ReturnResponse, netVars
<1>6. CASE ServerSends \/ \E how \in {"fin", "rst"} : ServerEnds(how)
  BY <1>6 DEF ServerSends, ServerEnds, mainVars
<1>7. CASE UNCHANGED vars
  BY <1>7 DEF vars, netVars, mainVars
<1> QED
  BY <1>2, <1>3, <1>4, <1>5, <1>6, <1>7 DEF Next, ClientStep

\* Only connections that were made are left open.
LEMMA NextOpen ==
  ASSUME IInv, [Next]_vars
  PROVE  open' \subseteq 1..conn'
<1>1. open \subseteq 1..conn /\ conn \in Nat
  <2>1. Pages * (MaxRedirection + 1) \in Int
    BY PageCount DEF PerPage
  <2> QED
    BY <2>1 DEF IInv, LastHopIsReturned, TypeOK
<1>2. CASE Connect
  BY <1>1, <1>2 DEF Connect
<1>3. ASSUME ~Connect PROVE open' \subseteq open /\ conn' = conn
  <2>1. CASE TooManyRedirections \/ ConnectFails \/ KilledBySigpipe \/ NextPage \/ LastPage
               \/ Recv \/ Redirect \/ Send \/ SendWhole \/ SendWholeFails
    BY <2>1 DEF TooManyRedirections, ConnectFails, KilledBySigpipe, NextPage, LastPage,
                Recv, Redirect, Send, SendWhole, SendWholeFails, netVars
  <2>2. CASE SendFails \/ EndResponse \/ ReturnResponse
    BY <2>2 DEF SendFails, EndResponse, ReturnResponse, LeaveWith, netVars
  <2>3. CASE ServerSends \/ \E how \in {"fin", "rst"} : ServerEnds(how)
    BY <2>3 DEF ServerSends, ServerEnds
  <2>4. CASE UNCHANGED vars
    BY <2>4 DEF vars, netVars
  <2> QED
    BY <1>3, <2>1, <2>2, <2>3, <2>4 DEF Next, ClientStep
<1> QED
  BY <1>1, <1>2, <1>3

\* The invariant is kept by every step.
LEMMA NextIInv == IInv /\ [Next]_vars => IInv'
<1> SUFFICES ASSUME IInv, [Next]_vars PROVE IInv'
  OBVIOUS
<1>1. TypeOK'
  BY NextHops, NextRequest, NextResponse, NextPeer, NextOpen DEF TypeOK, Places
<1>2. LastHopIsReturned'
  BY <1>1, NextResponse DEF LastHop, LastHopIsReturned
<1> QED
  BY <1>2, NextHops, NextRequest, NextResponse DEF IInv

---------------------------------------------------------------------------
\* IInv is inductive, so it holds in every state of the HTTP clients, whatever
\* the lengths, the number of pages and the limit on redirections.
THEOREM Invariance == Spec => []IInv
  BY InitIInv, NextIInv, PTL DEF Spec

\* A request of 07 that ends in success leaves in main()'s buffer all that the
\* last connection brought, and behind it nothing of that connection.
THEOREM LastHopAlwaysReturned == Spec => []LastHopIsReturned
<1>1. IInv => LastHopIsReturned
  BY DEF IInv
<1> QED
  BY Invariance, <1>1, PTL

\* Redirections never leave more than MAX_REDIRECTION + 1 connections open for
\* each request of main().
THEOREM ConnectionsAreBounded == Spec => []ConnectionsBounded
<1>1. IInv => ConnectionsBounded
  <2> SUFFICES ASSUME IInv PROVE ConnectionsBounded
    OBVIOUS
  <2>1. open \subseteq 1..conn /\ conn <= page * PerPage /\ page \in 1..Pages
    BY DEF IInv, LastHopIsReturned, TypeOK, HopsSound
  <2>2. conn \in Nat
    <3>1. Pages * (MaxRedirection + 1) \in Int
      BY PageCount DEF PerPage
    <3> QED
      BY <3>1 DEF IInv, LastHopIsReturned, TypeOK
  <2>3. IsFiniteSet(1..conn) /\ Cardinality(1..conn) = conn
    BY <2>2, FS_Interval
  <2>4. Cardinality(open) <= conn /\ Cardinality(open) \in Nat
    BY <2>1, <2>3, FS_Subset, FS_CardinalityType
  <2>5. page * PerPage \in Nat
    BY <2>1, PageCount
  <2>6. Cardinality(open) <= page * PerPage
    BY <2>1, <2>2, <2>4, <2>5
  <2> QED
    BY <2>6 DEF ConnectionsBounded, PerPage
<1> QED
  BY Invariance, <1>1, PTL

---------------------------------------------------------------------------
\* The refinement of HttpExchange.  What its variables stand for:
Id    == IF Asks THEN conn ELSE 0
Phase == IF Asks /\ pc = "send" THEN "asking"
         ELSE IF Asks /\ pc = "recv" THEN "reading" ELSE "idle"
Asked == IF Asks /\ InExchange THEN wire ELSE <<>>
Got   == IF pc = "recv" THEN SubSeq(http_response, 1, received_bytes) ELSE <<>>

\* The part of the buffer that has been received.
LEMMA GotSoFar ==
  ASSUME IInv, pc = "recv"
  PROVE  /\ Got = [n \in 1..received_bytes |-> <<conn, n>>]
         /\ Len(Got) = received_bytes /\ received_bytes \in 0..BufferSize
<1>1. /\ received_bytes \in 0..BufferSize /\ http_response \in Seq(Units)
      /\ Len(http_response) = BufferSize
      /\ \A n \in 1..received_bytes : http_response[n] = <<conn, n>>
  BY DEF IInv, ResponseSound, LastHopIsReturned, TypeOK
<1>2. /\ SubSeq(http_response, 1, received_bytes) = [n \in 1..received_bytes |-> http_response[n]]
      /\ Len(SubSeq(http_response, 1, received_bytes)) = received_bytes
  BY <1>1, FirstPart
<1> QED
  BY <1>1, <1>2 DEF Got

\* A way out of an exchange ends it, and outside of exchanges there is nothing
\* to see.
LEMMA LeavingEnds ==
  ASSUME InExchange, ~InExchange', Asks, IInv, UNCHANGED <<prog, conn>>
  PROVE  Exchange!End
<1>1. /\ Phase \in {"asking", "reading"} /\ Phase' = "idle"
      /\ Asked' = <<>> /\ Got' = <<>> /\ UNCHANGED Id
  BY DEF Phase, Asked, Got, Id, InExchange, Asks
<1> QED
  BY <1>1 DEF Exchange!End, Phase, Asked, Got, Id

\* A step outside of an exchange shows nothing to HttpExchange.
LEMMA OutsideStutters ==
  ASSUME ~InExchange \/ ~Asks, ~InExchange' \/ ~Asks, pc /= "recv", pc' /= "recv",
         UNCHANGED prog, Asks => UNCHANGED conn
  PROVE  UNCHANGED Exchange!evars
<1>1. UNCHANGED <<Id, Phase, Asked, Got>>
  BY DEF Phase, Asked, Got, Id, InExchange, Asks
<1> QED
  BY <1>1 DEF Exchange!evars, Phase, Asked, Got, Id

\* A successful send() of 06, 07 and the HTTPS client is a step Ask.
LEMMA SendAsks ==
  ASSUME IInv, IInv', Send
  PROVE  Exchange!Ask
<1>1. PICK k \in 1..(RequestLen - sent_bytes) : sent_bytes' = sent_bytes + k
  BY DEF Send
<1>2. /\ pc = "send" /\ prog /= "send05" /\ UNCHANGED <<prog, conn>>
      /\ \/ sent_bytes' = RequestLen /\ pc' = "recv" /\ received_bytes' = 0
         \/ sent_bytes' /= RequestLen /\ pc' = "send"
  BY DEF Send
<1>3. Asks /\ Asks' /\ InExchange /\ InExchange'
  BY <1>2 DEF Asks, InExchange
<1>4. /\ sent_bytes \in 0..RequestLen /\ wire = [n \in 1..sent_bytes |-> n]
      /\ sent_bytes' \in 0..RequestLen /\ wire' = [n \in 1..sent_bytes' |-> n]
  BY <1>3 DEF IInv, RequestSound
<1>5. Len(wire) = sent_bytes /\ Len(Request) = RequestLen
  BY <1>4, RequestParts
<1>6. sent_bytes' \in (Len(wire) + 1)..Len(Request)
  BY <1>1, <1>4, <1>5
<1>7. wire' = SubSeq(Request, 1, sent_bytes')
  <2>1. SubSeq(Request, 1, sent_bytes') = [n \in 1..sent_bytes' |-> n]
    <3>1. sent_bytes' \in 1..RequestLen
      BY <1>1, <1>4
    <3> QED
      BY <3>1, RequestParts
  <2> QED
    BY <1>4, <2>1
<1>8. Got' = Got
  <2>1. Got = <<>>
    BY <1>2 DEF Got
  <2>2. CASE pc' = "recv" /\ received_bytes' = 0
    <3>1. http_response' \in Seq(Units)
      BY DEF IInv, LastHopIsReturned, TypeOK
    <3>2. Got' = SubSeq(http_response', 1, 0)
      BY <2>2 DEF Got
    <3> QED
      BY <2>1, <3>1, <3>2
  <2>3. CASE pc' = "send"
    BY <2>1, <2>3 DEF Got
  <2> QED
    BY <1>2, <2>2, <2>3
<1>9. /\ Phase = "asking" /\ Id' = Id /\ Asked = wire /\ Asked' = wire'
      /\ Phase' = IF sent_bytes' = Len(Request) THEN "reading" ELSE "asking"
  BY <1>2, <1>3, <1>5 DEF Phase, Id, Asked, Asks
<1>10. \E n \in (Len(Asked) + 1)..Len(Request) :
         /\ Asked' = SubSeq(Request, 1, n)
         /\ Phase' = IF n = Len(Request) THEN "reading" ELSE "asking"
  BY <1>6, <1>7, <1>9
<1> QED
  BY <1>8, <1>9, <1>10, Zenon DEF Exchange!Ask, Phase, Asked, Got, Id

\* A recv() that brings something is a step Get.
LEMMA RecvGets ==
  ASSUME IInv, IInv', Recv
  PROVE  Exchange!Get
<1>1. /\ pc = "recv" /\ pc' = "recv" /\ UNCHANGED <<prog, conn, wire>>
      /\ \E k \in 1..(given - received_bytes) : received_bytes' = received_bytes + k
  BY DEF Recv, netVars, sendVars
<1>2. Asks /\ Asks'
  BY <1>1 DEF IInv, RequestSound, Asks
<1>3. /\ Got = [n \in 1..received_bytes |-> <<conn, n>>]
      /\ Len(Got) = received_bytes /\ received_bytes \in 0..BufferSize
  BY <1>1, GotSoFar
<1>4. /\ Got' = [n \in 1..received_bytes' |-> <<conn, n>>]
      /\ Len(Got') = received_bytes'
  <2>1. Got' = SubSeq(http_response', 1, received_bytes')
    BY <1>1 DEF Got
  <2>2. /\ received_bytes' \in 0..BufferSize /\ http_response' \in Seq(Units)
        /\ Len(http_response') = BufferSize
        /\ \A n \in 1..received_bytes' : http_response'[n] = <<conn, n>>
    BY <1>1 DEF IInv, ResponseSound, LastHopIsReturned, TypeOK
  <2>3. /\ SubSeq(http_response', 1, received_bytes')
             = [n \in 1..received_bytes' |-> http_response'[n]]
        /\ Len(SubSeq(http_response', 1, received_bytes')) = received_bytes'
    BY <2>2, FirstPart
  <2> QED
    BY <2>1, <2>2, <2>3
<1>5. received_bytes' > received_bytes
  BY <1>1, <1>3
<1>6. /\ Phase = "reading" /\ Phase' = Phase /\ Id = conn /\ Id' = Id /\ Asked' = Asked
  BY <1>1, <1>2 DEF Phase, Id, Asked, InExchange
<1>7. Len(Got') > Len(Got) /\ Got' = [n \in 1..Len(Got') |-> <<Id, n>>]
  BY <1>3, <1>4, <1>5, <1>6
<1> QED
  BY <1>6, <1>7, Zenon DEF Exchange!Get, Phase, Asked, Got, Id

\* A connection is a step Connect, in 05 a stutter.
LEMMA ConnectConnects ==
  ASSUME Connect
  PROVE  Exchange!Connect \/ UNCHANGED Exchange!evars
<1>1. /\ pc = "connect" /\ pc' = "send" /\ conn' = conn + 1 /\ wire' = <<>> /\ prog' = prog
  BY DEF Connect
<1>2. CASE Asks
  <2>1. /\ Phase = "idle" /\ Phase' = "asking" /\ Id' = Id + 1
        /\ UNCHANGED <<Asked, Got>>
    BY <1>1, <1>2 DEF Phase, Asked, Got, Id, InExchange, Asks
  <2> QED
    BY <2>1 DEF Exchange!Connect, Phase, Asked, Got, Id
<1>3. CASE ~Asks
  BY <1>1, <1>3, OutsideStutters
<1> QED
  BY <1>2, <1>3

\* Each step of the HTTP clients is a step of HttpExchange or changes nothing
\* that it sees.
LEMMA NextImplements ==
  IInv /\ IInv' /\ [Next]_vars => [Exchange!Next]_(Exchange!evars)
<1> SUFFICES ASSUME IInv, IInv', [Next]_vars
             PROVE  Exchange!Next \/ UNCHANGED Exchange!evars
  OBVIOUS
<1>1. CASE Connect
  BY <1>1, ConnectConnects DEF Exchange!Next
<1>2. CASE Send
  BY <1>2, SendAsks DEF Exchange!Next
<1>3. CASE Recv
  BY <1>3, RecvGets DEF Exchange!Next
<1>4. CASE SendFails \/ KilledBySigpipe \/ EndResponse \/ Redirect \/ ReturnResponse
  <2>1. InExchange /\ ~InExchange' /\ UNCHANGED <<prog, conn>>
    BY <1>4 DEF SendFails, KilledBySigpipe, EndResponse, Redirect, ReturnResponse, RecvEnds,
                LeaveWith, InExchange, netVars
  <2>2. CASE Asks
    BY <2>1, <2>2, LeavingEnds DEF Exchange!Next
  <2>3. CASE ~Asks
    <3>1. pc /= "recv" /\ pc' /= "recv"
      BY <2>1, <2>3 DEF IInv, RequestSound, Asks, InExchange
    <3> QED
      BY <2>1, <2>3, <3>1, OutsideStutters
  <2> QED
    BY <2>2, <2>3
<1>5. CASE TooManyRedirections \/ ConnectFails \/ NextPage \/ LastPage
  <2>1. ~InExchange /\ ~InExchange' /\ UNCHANGED <<prog, conn>>
    BY <1>5 DEF TooManyRedirections, ConnectFails, NextPage, LastPage, InExchange, netVars
  <2> QED
    BY <2>1, OutsideStutters DEF InExchange
<1>6. CASE SendWhole \/ SendWholeFails
  <2>1. ~Asks /\ prog' = prog /\ pc = "send" /\ pc' \in {"send", "done"}
    BY <1>6 DEF SendWhole, SendWholeFails, Asks
  <2> QED
    BY <2>1, OutsideStutters
<1>7. CASE \/ ServerSends \/ \E how \in {"fin", "rst"} : ServerEnds(how)
           \/ UNCHANGED vars
  <2>1. UNCHANGED <<prog, pc, conn, wire, http_response, received_bytes>>
    BY <1>7 DEF ServerSends, ServerEnds, sendVars, recvVars, vars, netVars
  <2>2. UNCHANGED <<Id, Phase, Asked, Got>>
    BY <2>1 DEF Phase, Asked, Got, Id, InExchange, Asks
  <2> QED
    BY <2>2 DEF Exchange!evars, Phase, Asked, Got, Id
<1> QED
  BY <1>1, <1>2, <1>3, <1>4, <1>5, <1>6, <1>7 DEF Next, ClientStep

\* 06, 07 and the HTTPS client send their request once and in order on one
\* connection at a time, and take nothing from an earlier one.
THEOREM ImplementsHttpExchange == Spec => ImplementsExchange
<1>1. Init => Exchange!Init
  <2> SUFFICES ASSUME Init PROVE Exchange!Init
    OBVIOUS
  <2>1. pc = "connect" /\ conn = 0
    BY DEF Init, AtStart
  <2> QED
    BY <2>1 DEF Exchange!Init, InExchange
<1>2. IInv /\ IInv' /\ [Next]_vars => [Exchange!Next]_(Exchange!evars)
  BY NextImplements
<1> QED
  BY <1>1, <1>2, Invariance, PTL DEF Spec, ImplementsExchange, Exchange!Spec

---------------------------------------------------------------------------
\* The invariant of the libcurl examples.

\* The places of main() in each example.
Stages ==
  [easy    |-> {"init", "inline", "done"},
   multi   |-> {"init", "handles", "first", "perform", "wait", "files", "cleanup", "done"},
   threads |-> {"init", "launch", "join", "cleanup", "done", "aborted"}]

\* Which example has which places and threads.
StagesSound ==
  /\ prog \in C!Examples
  /\ main \in Stages[prog]
  /\ prog = "easy" => \A u \in Urls \ {Basic} : worker[u] = "none"
  /\ prog = "multi" => \A u \in Urls : worker[u] = "none"

\* Who holds handles, and when the library is up: what main() does last it does
\* when nobody holds any.
HandlesSound ==
  /\ prog /= "multi" => added = {}
  /\ prog = "easy" /\ main /= "init" => library
  /\ prog = "threads" /\ main \in {"cleanup", "done"} => \A u \in Urls : worker[u] = "ended"
  /\ main = "files" => easy \subseteq next
  /\ prog = "multi" /\ main \in {"cleanup", "done"} => easy = {}

\* The loop of the multi example has ended without an error, or is about to.
NoneRunning ==
  \/ main = "wait" /\ running_status = 0
  \/ main \in {"files", "cleanup", "done"} /\ rc = "ok"

\* A transfer that ended well has brought the whole page, a thread writes only
\* then, and the multi example writes when no transfer runs or a call failed.
TransfersSound ==
  /\ \A u \in Urls :
       /\ transfer[u] = "ok" => data[u] = page_at[u]
       /\ worker[u] = "output" => transfer[u] = "ok"
  /\ prog = "multi" /\ main \in {"init", "handles", "first", "perform", "wait"} =>
       \A u \in Urls : file[u] = -1 /\ (transfer[u] = "running" => u \in added)
  /\ prog = "multi" /\ NoneRunning =>
       \A u \in Urls : transfer[u] /= "running"

CurlInv == StagesSound /\ HandlesSound /\ TransfersSound /\ C!FilesAreWhole

\* Curl has FiniteSets by EXTENDS, and so its Cardinality by INSTANCE.
LEMMA SameCardinality == \A S : C!Cardinality(S) = Cardinality(S)
BY DEF C!Cardinality, Cardinality

\* The libcurl examples start in CurlInv.
LEMMA CurlInitInv == C!Init => CurlInv
<1> SUFFICES ASSUME C!Init PROVE CurlInv
  OBVIOUS
<1>1. /\ prog \in C!Examples /\ main = "init" /\ page_at \in [Urls -> 0..Size]
      /\ next = Urls /\ library = FALSE /\ multi = "none" /\ rc = "ok"
      /\ running_status = 0 /\ easy = {} /\ added = {}
      /\ worker = [u \in Urls |-> "none"] /\ transfer = [u \in Urls |-> "none"]
      /\ data = [u \in Urls |-> 0] /\ file = [u \in Urls |-> -1]
  BY DEF C!Init, C!CurlAtStart
<1>2. StagesSound /\ HandlesSound /\ TransfersSound
  BY <1>1 DEF StagesSound, Stages, C!Examples, HandlesSound, TransfersSound, NoneRunning
<1>3. Cardinality(Urls) \in Nat
  BY FetchersAssumption, FS_CardinalityType
<1>4. C!CurlTypeOK
  <2>1. running_status \in 0..C!Cardinality(Urls)
    BY <1>1, <1>3, SameCardinality
  <2>2. data \in [Urls -> 0..Size] /\ file \in [Urls -> -1..Size]
    BY <1>1, FetchersAssumption
  <2>3. /\ worker \in [Urls -> {"none", "start", "perform", "output", "ended"}]
        /\ transfer \in [Urls -> {"none", "running", "ok", "failed"}]
    BY <1>1
  <2> QED
    BY <1>1, <2>1, <2>2, <2>3 DEF C!CurlTypeOK
<1>5. C!FilesAreWhole
  BY <1>1, <1>4 DEF C!FilesAreWhole
<1> QED
  BY <1>2, <1>5 DEF CurlInv

\* Each example stays in its own stages.
LEMMA CurlNextStages ==
  ASSUME CurlInv, [C!Next]_(C!vars)
  PROVE  StagesSound'
<1>1. /\ prog \in {"easy", "multi", "threads"} /\ main \in Stages[prog]
      /\ worker \in [Urls -> {"none", "start", "perform", "output", "ended"}]
      /\ prog = "easy" => \A u \in Urls \ {Basic} : worker[u] = "none"
      /\ prog = "multi" => \A u \in Urls : worker[u] = "none"
  BY DEF CurlInv, StagesSound, C!Examples, C!FilesAreWhole, C!CurlTypeOK
<1>2. CASE C!GlobalInit
  BY <1>1, <1>2 DEF C!GlobalInit, StagesSound, Stages, C!Examples
<1>3. CASE C!BasicEnds \/ C!JoinAll
  BY <1>1, <1>3 DEF C!BasicEnds, C!JoinAll, C!transferVars, C!libraryVars, StagesSound, Stages, C!Examples
<1>4. CASE C!PerformReturns \/ C!Wait \/ C!GlobalCleanup
  BY <1>1, <1>4 DEF C!PerformReturns, C!Wait, C!GlobalCleanup, C!transferVars, StagesSound, Stages, C!Examples
<1>5. ASSUME NEW u \in Urls, C!StartThread(u) PROVE StagesSound'
  BY <1>1, <1>5 DEF C!StartThread, StagesSound, Stages, C!Examples
<1>6. ASSUME NEW u \in Urls, C!AddHandle(u) \/ C!WriteFile(u) PROVE StagesSound'
  BY <1>1, <1>6 DEF C!AddHandle, C!WriteFile, C!libraryVars, StagesSound, Stages, C!Examples
<1>7. ASSUME NEW u \in Urls, C!WorkerStep(u) PROVE StagesSound'
  <2>1. /\ worker[u] /= "none" /\ \A v \in Urls \ {u} : worker'[v] = worker[v]
        /\ UNCHANGED <<prog, main>>
    BY <1>1, <1>7 DEF C!WorkerStep, C!EasyInit, C!EasyPerformed, C!EasyOutput, C!mainVars
  <2> QED
    BY <1>1, <2>1 DEF StagesSound, C!Examples
<1>8. ASSUME NEW u \in Urls, C!LibraryStep(u) PROVE StagesSound'
  BY <1>1, <1>8 DEF C!LibraryStep, C!Callback, C!TransferEnds, C!mainVars, StagesSound, C!Examples
<1>9. CASE UNCHANGED C!vars
  BY <1>1, <1>9 DEF C!vars, C!mainVars, C!transferVars, StagesSound, C!Examples
<1> QED
  BY <1>2, <1>3, <1>4, <1>5, <1>6, <1>7, <1>8, <1>9 DEF C!Next, C!MainStep

\* The state of the handles and of the library, step by step.
LEMMA CurlNextHandles ==
  ASSUME CurlInv, [C!Next]_(C!vars)
  PROVE  HandlesSound'
<1>1. /\ prog \in {"easy", "multi", "threads"} /\ main \in Stages[prog]
      /\ worker \in [Urls -> {"none", "start", "perform", "output", "ended"}]
      /\ next \subseteq Urls /\ easy \subseteq Urls /\ added \subseteq easy
      /\ prog = "multi" => \A u \in Urls : worker[u] = "none"
      /\ HandlesSound
  BY DEF CurlInv, StagesSound, C!Examples, C!FilesAreWhole, C!CurlTypeOK
<1> USE <1>1
<1>2. CASE C!GlobalInit
  BY <1>2 DEF C!GlobalInit, HandlesSound, Stages
<1>3. CASE C!BasicEnds \/ C!JoinAll
  BY <1>3 DEF C!BasicEnds, C!JoinAll, C!transferVars, C!libraryVars, HandlesSound, Stages
<1>4. CASE C!PerformReturns \/ C!Wait
  BY <1>4 DEF C!PerformReturns, C!Wait, C!transferVars, HandlesSound, Stages
<1>5. CASE C!GlobalCleanup
  BY <1>5 DEF C!GlobalCleanup, C!transferVars, HandlesSound, Stages
<1>6. ASSUME NEW u \in Urls, C!StartThread(u) PROVE HandlesSound'
  BY <1>6 DEF C!StartThread, C!libraryVars, HandlesSound, Stages
<1>7. ASSUME NEW u \in Urls, C!AddHandle(u) PROVE HandlesSound'
  BY <1>7 DEF C!AddHandle, C!libraryVars, HandlesSound, Stages
<1>8. ASSUME NEW u \in Urls, C!WriteFile(u) PROVE HandlesSound'
  BY <1>8 DEF C!WriteFile, C!libraryVars, HandlesSound, Stages
<1>9. ASSUME NEW u \in Urls, C!WorkerStep(u) PROVE HandlesSound'
  <2>1. /\ worker[u] \notin {"none", "ended"}
        /\ \A v \in Urls \ {u} : worker'[v] = worker[v]
        /\ UNCHANGED <<prog, main, next, library, added>>
    BY <1>9 DEF C!WorkerStep, C!EasyInit, C!EasyPerformed, C!EasyOutput, C!mainVars, C!libraryVars
  <2>2. prog /= "multi" /\ main /= "files"
    BY <2>1 DEF Stages
  <2> QED
    BY <2>1, <2>2 DEF HandlesSound
<1>10. ASSUME NEW u \in Urls, C!LibraryStep(u) PROVE HandlesSound'
  BY <1>10 DEF C!LibraryStep, C!Callback, C!TransferEnds, C!mainVars, C!libraryVars, HandlesSound
<1>11. CASE UNCHANGED C!vars
  BY <1>11 DEF C!vars, C!mainVars, C!libraryVars, C!transferVars, HandlesSound
<1> QED
  BY <1>2, <1>3, <1>4, <1>5, <1>6, <1>7, <1>8, <1>9, <1>10, <1>11 DEF C!Next, C!MainStep

\* The transfers, step by step.
LEMMA CurlNextTransfers ==
  ASSUME CurlInv, [C!Next]_(C!vars)
  PROVE  TransfersSound'
<1>1. /\ prog \in {"easy", "multi", "threads"} /\ main \in Stages[prog]
      /\ worker \in [Urls -> {"none", "start", "perform", "output", "ended"}]
      /\ transfer \in [Urls -> {"none", "running", "ok", "failed"}]
      /\ page_at \in [Urls -> 0..Size] /\ data \in [Urls -> 0..Size]
      /\ file \in [Urls -> -1..Size]
      /\ added \subseteq Urls /\ rc \in {"ok", "failed"}
      /\ prog = "multi" => \A u \in Urls : worker[u] = "none"
      /\ TransfersSound
  BY DEF CurlInv, StagesSound, C!Examples, C!FilesAreWhole, C!CurlTypeOK
<1> USE <1>1
<1>2. CASE C!GlobalInit
  BY <1>2 DEF C!GlobalInit, TransfersSound, NoneRunning, Stages
<1>3. CASE C!BasicEnds \/ C!JoinAll
  BY <1>3 DEF C!BasicEnds, C!JoinAll, C!transferVars, C!libraryVars, TransfersSound, NoneRunning, Stages
<1>4. CASE C!PerformReturns
  <2>1. /\ prog = "multi" /\ prog' = prog /\ UNCHANGED C!transferVars
        /\ main \in {"first", "perform"}
    BY <1>4 DEF C!PerformReturns, Stages
  <2>2. ASSUME main' = "wait" /\ running_status' = 0
        PROVE  \A u \in Urls : transfer[u] /= "running"
    <3> DEFINE running == {u \in added : transfer[u] = "running"}
    <3>1. running_status' = Cardinality(running)
      BY <1>4, <2>2, SameCardinality DEF C!PerformReturns
    <3>2. IsFiniteSet(running)
      BY FetchersAssumption, FS_Subset
    <3>3. running = {}
      BY <2>2, <3>1, <3>2, FS_EmptySet
    <3> QED
      BY <2>1, <3>3 DEF TransfersSound
  <2>3. \/ main' \in {"perform", "wait"}
        \/ main' = "files" /\ rc' = "failed"
    BY <1>4 DEF C!PerformReturns
  <2> QED
    BY <2>1, <2>2, <2>3 DEF TransfersSound, NoneRunning, C!transferVars
<1>5. CASE C!Wait \/ C!GlobalCleanup
  BY <1>5 DEF C!Wait, C!GlobalCleanup, C!transferVars, TransfersSound, NoneRunning, Stages
<1>6. ASSUME NEW u \in Urls, C!StartThread(u) PROVE TransfersSound'
  BY <1>6 DEF C!StartThread, C!libraryVars, TransfersSound, NoneRunning, Stages
<1>7. ASSUME NEW u \in Urls, C!AddHandle(u) PROVE TransfersSound'
  <2>1. /\ prog = "multi" /\ main = "handles" /\ main' \in {"handles", "first"}
        /\ UNCHANGED <<prog, worker, data, file, page_at>>
        /\ \/ transfer' = [transfer EXCEPT ![u] = "running"] /\ added' = added \cup {u}
           \/ UNCHANGED <<transfer, added>>
    BY <1>7 DEF C!AddHandle, Stages
  <2> QED
    BY <2>1 DEF TransfersSound, NoneRunning
<1>8. ASSUME NEW u \in Urls, C!WriteFile(u) PROVE TransfersSound'
  <2>1. /\ prog = "multi" /\ main = "files" /\ main' \in {"files", "cleanup"}
        /\ UNCHANGED <<prog, worker, data, transfer, page_at, rc>>
    BY <1>8 DEF C!WriteFile, C!libraryVars, Stages
  <2> QED
    BY <2>1 DEF TransfersSound, NoneRunning
<1>9. ASSUME NEW u \in Urls, C!WorkerStep(u) PROVE TransfersSound'
  <2>1. prog /= "multi" /\ UNCHANGED <<prog, data, page_at>>
    BY <1>9 DEF C!WorkerStep, C!EasyInit, C!EasyPerformed, C!EasyOutput, C!mainVars
  <2>2. \A v \in Urls : /\ transfer'[v] = "ok" => transfer[v] = "ok"
                        /\ worker'[v] = "output" => transfer'[v] = "ok"
    BY <1>9 DEF C!WorkerStep, C!EasyInit, C!EasyPerformed, C!EasyOutput, TransfersSound
  <2> QED
    BY <2>1, <2>2 DEF TransfersSound
<1>10. ASSUME NEW u \in Urls, C!LibraryStep(u) PROVE TransfersSound'
  <2>1. /\ C!InPerform(u) /\ transfer[u] = "running"
        /\ UNCHANGED <<C!mainVars, C!libraryVars, worker, added, file, page_at>>
        /\ \/ UNCHANGED transfer /\ data' = [data EXCEPT ![u] = @ + 1]
           \/ UNCHANGED data /\ \E how \in {"ok", "failed"} :
                                  /\ how = "ok" => data[u] = page_at[u]
                                  /\ transfer' = [transfer EXCEPT ![u] = how]
    BY <1>10 DEF C!LibraryStep, C!Callback, C!TransferEnds
  <2>2. \A v \in Urls : /\ transfer'[v] = "ok" => data'[v] = page_at[v]
                        /\ worker[v] = "output" => transfer'[v] = "ok"
                        /\ transfer'[v] = "running" => transfer[v] = "running"
    BY <2>1 DEF TransfersSound
  <2>3. prog = "multi" => ~NoneRunning'
    BY <2>1 DEF C!InPerform, NoneRunning, C!mainVars
  <2> QED
    BY <2>1, <2>2, <2>3 DEF TransfersSound, C!mainVars
<1>11. CASE UNCHANGED C!vars
  BY <1>11 DEF C!vars, C!mainVars, C!libraryVars, C!transferVars, TransfersSound, NoneRunning
<1> QED
  BY <1>2, <1>3, <1>4, <1>5, <1>6, <1>7, <1>8, <1>9, <1>10, <1>11 DEF C!Next, C!MainStep

\* The types, step by step.
LEMMA CurlNextType ==
  ASSUME CurlInv, [C!Next]_(C!vars)
  PROVE  C!CurlTypeOK'
<1>1. C!CurlTypeOK
  BY DEF CurlInv, C!FilesAreWhole
<1>2. prog /= "multi" => added = {}
  BY DEF CurlInv, HandlesSound
<1>3. prog = "multi" => \A u \in Urls : worker[u] = "none"
  BY DEF CurlInv, StagesSound
<1> USE <1>1, FetchersAssumption DEF C!CurlTypeOK
<1>4. CASE C!GlobalInit
  BY <1>4 DEF C!GlobalInit
<1>5. CASE C!BasicEnds \/ C!JoinAll \/ C!GlobalCleanup
  BY <1>5 DEF C!BasicEnds, C!JoinAll, C!GlobalCleanup, C!transferVars, C!libraryVars
<1>6. CASE C!PerformReturns
  <2>1. running_status' \in 0..C!Cardinality(Urls)
    <3> DEFINE running == {u \in added : transfer[u] = "running"}
    <3>1. running \subseteq Urls /\ Cardinality(running) \in 0..Cardinality(Urls)
      BY FS_Subset, FS_CardinalityType
    <3>2. running_status' \in {running_status, Cardinality(running)}
      BY <1>6, SameCardinality DEF C!PerformReturns
    <3> QED
      BY <3>1, <3>2, SameCardinality
  <2> QED
    BY <1>6, <2>1 DEF C!PerformReturns, C!transferVars
<1>7. CASE C!Wait
  BY <1>7 DEF C!Wait, C!transferVars
<1>8. ASSUME NEW u \in Urls, C!StartThread(u) \/ C!AddHandle(u) PROVE C!CurlTypeOK'
  <2>1. CASE C!StartThread(u)
    BY <2>1 DEF C!StartThread, C!libraryVars
  <2>2. CASE C!AddHandle(u)
    BY <2>2 DEF C!AddHandle, C!libraryVars
  <2> QED
    BY <1>8, <2>1, <2>2
<1>9. ASSUME NEW u \in Urls, C!WriteFile(u) PROVE C!CurlTypeOK'
  BY <1>9 DEF C!WriteFile, C!libraryVars
<1>10. ASSUME NEW u \in Urls, C!WorkerStep(u) PROVE C!CurlTypeOK'
  <2>1. CASE C!EasyInit(u)
    BY <2>1 DEF C!EasyInit, C!mainVars, C!libraryVars
  <2>2. added = {}
    BY <1>2, <1>3, <1>10 DEF C!WorkerStep, C!EasyInit, C!EasyPerformed, C!EasyOutput
  <2>3. CASE C!EasyPerformed(u)
    BY <2>2, <2>3 DEF C!EasyPerformed, C!mainVars, C!libraryVars
  <2>4. CASE C!EasyOutput(u)
    BY <2>2, <2>4 DEF C!EasyOutput, C!mainVars, C!libraryVars
  <2> QED
    BY <1>10, <2>1, <2>3, <2>4 DEF C!WorkerStep
<1>11. ASSUME NEW u \in Urls, C!LibraryStep(u) PROVE C!CurlTypeOK'
  <2>1. CASE C!Callback(u)
    <3>1. data'[u] = data[u] + 1 /\ data[u] < page_at[u] /\ data[u] + 1 \in 0..Size
      BY <2>1 DEF C!Callback
    <3> QED
      BY <2>1, <3>1 DEF C!Callback, C!mainVars, C!libraryVars
  <2>2. CASE C!TransferEnds(u)
    BY <2>2 DEF C!TransferEnds, C!mainVars, C!libraryVars
  <2> QED
    BY <1>11, <2>1, <2>2 DEF C!LibraryStep
<1>12. CASE UNCHANGED C!vars
  BY <1>12 DEF C!vars, C!mainVars, C!libraryVars, C!transferVars
<1> QED
  BY <1>4, <1>5, <1>6, <1>7, <1>8, <1>9, <1>10, <1>11, <1>12 DEF C!Next, C!MainStep

\* The files, step by step.
LEMMA CurlNextFiles ==
  ASSUME CurlInv, [C!Next]_(C!vars)
  PROVE  C!FilesAreWhole'
<1>1. /\ C!CurlTypeOK /\ C!CurlTypeOK' /\ prog \in {"easy", "multi", "threads"}
      /\ main \in Stages[prog] /\ TransfersSound
      /\ prog = "multi" => \A u \in Urls : worker[u] = "none"
  BY CurlNextType DEF CurlInv, StagesSound, C!Examples, C!FilesAreWhole
<1> DEFINE Whole(u) == \/ file[u] = page_at[u]
                       \/ prog = "multi" /\ (transfer[u] \in {"none", "failed"} \/ rc = "failed")
<1>2. \A u \in Urls : file[u] >= 0 => Whole(u)
  BY DEF CurlInv, C!FilesAreWhole
<1>3. SUFFICES ASSUME NEW u \in Urls, file'[u] >= 0
               PROVE  Whole(u)'
  BY <1>1, Zenon DEF C!FilesAreWhole
<1>4. CASE UNCHANGED <<prog, file, page_at, rc>> /\ (prog = "multi" => UNCHANGED transfer)
  BY <1>2, <1>3, <1>4
<1>5. CASE prog = "multi" /\ main \in {"init", "handles", "first", "perform", "wait"}
           /\ UNCHANGED file
  BY <1>1, <1>3, <1>5 DEF TransfersSound
<1>6. CASE C!GlobalInit \/ C!BasicEnds \/ C!JoinAll \/ C!GlobalCleanup
             \/ (\E v \in Urls : C!StartThread(v)) \/ UNCHANGED C!vars
  BY <1>4, <1>6 DEF C!GlobalInit, C!BasicEnds, C!JoinAll, C!GlobalCleanup, C!StartThread,
                    C!vars, C!mainVars, C!libraryVars, C!transferVars
<1>7. CASE C!PerformReturns \/ C!Wait \/ \E v \in Urls : C!AddHandle(v)
  <2>1. main \in {"handles", "first", "perform", "wait"} /\ UNCHANGED file
    BY <1>7 DEF C!PerformReturns, C!Wait, C!AddHandle, C!transferVars
  <2> QED
    BY <1>1, <1>5, <2>1 DEF Stages
<1>8. ASSUME NEW v \in Urls, C!WriteFile(v) PROVE Whole(u)'
  <2>1. /\ main = "files" /\ prog = "multi"
        /\ UNCHANGED <<prog, transfer, data, page_at, rc>>
        /\ file' \in {file, [file EXCEPT ![v] = data[v]]}
    BY <1>1, <1>8 DEF C!WriteFile, C!libraryVars, Stages
  <2>2. CASE file'[u] = file[u]
    BY <1>2, <1>3, <2>1, <2>2
  <2>3. CASE file'[u] = data[u]
    <3>1. transfer[u] = "ok" => data[u] = page_at[u]
      BY <1>1 DEF TransfersSound
    <3>2. transfer[u] = "running" => rc = "failed"
      BY <1>1, <2>1 DEF TransfersSound, NoneRunning, C!CurlTypeOK
    <3>3. transfer[u] \in {"none", "running", "ok", "failed"}
      BY <1>1 DEF C!CurlTypeOK
    <3> QED
      BY <2>1, <2>3, <3>1, <3>2, <3>3
  <2>4. file'[u] = file[u] \/ file'[u] = data[u]
    BY <1>1, <2>1 DEF C!CurlTypeOK
  <2> QED
    BY <2>2, <2>3, <2>4
<1>9. ASSUME NEW v \in Urls, C!WorkerStep(v) PROVE Whole(u)'
  <2>1. prog /= "multi" /\ UNCHANGED <<prog, page_at, data>>
    BY <1>1, <1>9 DEF C!WorkerStep, C!EasyInit, C!EasyPerformed, C!EasyOutput, C!mainVars
  <2>2. file[u] >= 0 => file[u] = page_at[u]
    BY <1>2, <2>1
  <2>3. \/ UNCHANGED file
        \/ worker[v] = "output" /\ file' = [file EXCEPT ![v] = data[v]]
    BY <1>9 DEF C!WorkerStep, C!EasyInit, C!EasyPerformed, C!EasyOutput
  <2>4. worker[v] = "output" => data[v] = page_at[v]
    BY <1>1 DEF TransfersSound
  <2>5. file'[u] = page_at[u]
    BY <1>1, <1>3, <2>2, <2>3, <2>4 DEF C!CurlTypeOK
  <2> QED
    BY <2>1, <2>5
<1>10. ASSUME NEW v \in Urls, C!LibraryStep(v) PROVE Whole(u)'
  <2>1. /\ UNCHANGED <<prog, main, file, page_at, rc>> /\ C!InPerform(v)
    BY <1>10 DEF C!LibraryStep, C!Callback, C!TransferEnds, C!mainVars, C!libraryVars
  <2>2. CASE prog = "multi"
    BY <1>5, <2>1, <2>2 DEF C!InPerform
  <2> QED
    BY <1>4, <2>1, <2>2
<1> QED
  BY <1>6, <1>7, <1>8, <1>9, <1>10 DEF C!Next, C!MainStep

---------------------------------------------------------------------------
\* CurlInv is inductive, so it holds in every state of the libcurl examples,
\* with any number of urls and any length of pages.
THEOREM CurlInvariance == C!Spec => []CurlInv
<1>1. CurlInv /\ [C!Next]_(C!vars) => CurlInv'
  BY CurlNextStages, CurlNextHandles, CurlNextTransfers, CurlNextFiles DEF CurlInv
<1> QED
  BY CurlInitInv, <1>1, PTL DEF C!Spec

\* What is written to a file or printed is a whole page, with the exceptions of
\* the multi example, whichever transfers fail and whenever.
THEOREM FilesAreAlwaysWhole == C!Spec => []FilesAreWhole
<1>1. CurlInv => FilesAreWhole
  BY DEF CurlInv, FilesAreWhole
<1> QED
  BY CurlInvariance, <1>1, PTL

\* curl_global_cleanup() comes after the last use of the library.
THEOREM LibraryAlwaysOutlives == C!Spec => []LibraryOutlivesTransfers
<1>1. CurlInv => LibraryOutlivesTransfers
  <2> SUFFICES ASSUME CurlInv, main = "done", ~library
               PROVE  /\ \A u \in Urls : worker[u] \in {"none", "ended"}
                      /\ added = {}
                      /\ \A u \in Urls : prog = "multi" => u \notin easy
    BY DEF LibraryOutlivesTransfers, C!LibraryOutlivesTransfers
  <2>1. prog \in {"multi", "threads"} /\ added \subseteq easy
    BY DEF CurlInv, StagesSound, HandlesSound, C!Examples, C!FilesAreWhole, C!CurlTypeOK
  <2> QED
    BY <2>1 DEF CurlInv, StagesSound, HandlesSound
<1> QED
  BY CurlInvariance, <1>1, PTL
---------------------------------------------------------------------------
(* The programs that talk in datagrams: UdpExchange (10), for any number of *)
(* clients and of lines, and the types of Broadcast (14).                   *)
HIDE HttpClientsAssumption

\* There is a first round.
LEMMA MaxRoundsType == MaxRounds \in Nat \ {0}
BY UdpAssumption

USE MaxRoundsType

\* A datagram under way is at one of three places.
AtServer(d) == server = "sendto" /\ current = d
InFlight(d) == d \in requests \/ AtServer(d) \/ d \in replies
InOnePlace(d) ==
  /\ d \in requests => ~AtServer(d) /\ d \notin replies
  /\ d \in replies => ~AtServer(d)

\* What a client sent last.
LastSent(c) == [client |-> c, round |-> round[c], line |-> line[c]]

\* A client that prompts has nothing under way, and one that waits at most the
\* line it sent last or the answer to it, in one place: unless a datagram of its
\* came twice, or its recvfrom() failed.
ExchangeSound(c) ==
  c \notin astray =>
  /\ client[c] = "ready" => \A d \in U!Datagram : InFlight(d) => d.client /= c
  /\ client[c] = "waiting" =>
       /\ \A d \in U!Datagram : InFlight(d) /\ d.client = c => d = LastSent(c)
       /\ InOnePlace(LastSent(c))

DatagramInv ==
  /\ U!TypeOK /\ B!BroadcastTypeOK
  /\ \A c \in Clients : ExchangeSound(c)

\* In either program all starts without a datagram.
LEMMA DatagramInit ==
  ASSUME MCInit
  PROVE  DatagramInv
<1>1. U!TypeOK /\ \A c \in Clients : ExchangeSound(c)
  <2>1. /\ client \in [Clients -> {"ready", "done"}] /\ round = [c \in Clients |-> 0]
        /\ line = [c \in Clients |-> ""] /\ requests = {} /\ replies = {}
        /\ lost = {} /\ astray = {} /\ server = "recvfrom" /\ current = U!Cleared
    BY DEF MCInit, U!Init, NoClient
  <2>2. U!TypeOK
    <3>1. /\ client \in [Clients -> {"ready", "waiting", "done"}]
          /\ round \in [Clients -> 0..MaxRounds]
      <4>1. 0 \in 0..MaxRounds
        OBVIOUS
      <4>2. round \in [Clients -> 0..MaxRounds]
        BY <2>1, <4>1
      <4>3. client \in [Clients -> {"ready", "waiting", "done"}]
        BY <2>1
      <4> QED
        BY <4>2, <4>3
    <3>2. line \in [Clients -> Lines \cup {""}]
      BY <2>1
    <3>3. IF server = "sendto" THEN current \in U!Datagram ELSE current = U!Cleared
      BY <2>1
    <3> QED
      BY <2>1, <3>1, <3>2, <3>3 DEF U!TypeOK
  <2>3. ASSUME NEW c \in Clients PROVE ExchangeSound(c)
    BY <2>1 DEF ExchangeSound, InFlight, AtServer
  <2> QED
    BY <2>2, <2>3
<1>2. B!BroadcastTypeOK
  BY DEF MCInit, B!Init, NoHost, B!BroadcastTypeOK
<1> QED
  BY <1>1, <1>2 DEF DatagramInv

\* Steps of 10 keep its types.
LEMMA UdpTypes ==
  ASSUME U!TypeOK, U!Next
  PROVE  U!TypeOK'
<1>1. ASSUME NEW c \in Clients, NEW l \in Lines, U!SendTo(c, l) PROVE U!TypeOK'
  <2>1. /\ round[c] + 1 \in 0..MaxRounds /\ round[c] + 1 \in 1..MaxRounds
        /\ client \in [Clients -> {"ready", "waiting", "done"}]
        /\ round \in [Clients -> 0..MaxRounds] /\ line \in [Clients -> Lines \cup {""}]
    <3>1. round[c] < MaxRounds
      BY <1>1 DEF U!SendTo
    <3>2. /\ client \in [Clients -> {"ready", "waiting", "done"}]
          /\ round \in [Clients -> 0..MaxRounds] /\ line \in [Clients -> Lines \cup {""}]
      BY DEF U!TypeOK
    <3>3. round[c] \in Nat /\ round[c] + 1 <= MaxRounds
      <4>1. round[c] \in 0..MaxRounds
        BY <3>2
      <4> QED
        BY <3>1, <4>1
    <3>4. round[c] + 1 \in 0..MaxRounds /\ round[c] + 1 \in 1..MaxRounds
      BY <3>3
    <3> QED
      BY <3>2, <3>4
  <2>2. [client |-> c, round |-> round[c] + 1, line |-> l] \in U!Datagram
    BY <1>1, <2>1 DEF U!Datagram
  <2>3. requests' \subseteq U!Datagram /\ UNCHANGED <<replies, server, current, lost, astray>>
    BY <1>1, <2>2 DEF U!SendTo, U!TypeOK
  <2>4. /\ client' \in [Clients -> {"ready", "waiting", "done"}]
        /\ round' \in [Clients -> 0..MaxRounds]
        /\ line' \in [Clients -> Lines \cup {""}]
    <3>1. /\ client' = [client EXCEPT ![c] = "waiting"]
          /\ round' = [round EXCEPT ![c] = round[c] + 1]
          /\ line' = [line EXCEPT ![c] = l]
      BY <1>1 DEF U!SendTo
    <3>2. client' \in [Clients -> {"ready", "waiting", "done"}]
      BY <2>1, <3>1
    <3>3. round' \in [Clients -> 0..MaxRounds]
      BY <2>1, <3>1
    <3>4. line' \in [Clients -> Lines \cup {""}]
      BY <2>1, <3>1
    <3> QED
      BY <3>2, <3>3, <3>4
  <2> QED
    BY <2>3, <2>4 DEF U!TypeOK
<1>2. ASSUME NEW c \in Clients, U!RecvFrom(c) \/ U!RecvFromFails(c) \/ U!Kill(c)
      PROVE  U!TypeOK'
  <2>1. /\ client' \in [Clients -> {"ready", "waiting", "done"}]
        /\ line' \in [Clients -> Lines \cup {""}]
        /\ UNCHANGED <<round, requests, server, current, lost>>
    BY <1>2 DEF U!RecvFrom, U!RecvFromFails, U!Kill, U!Goes, U!TypeOK
  <2>2. replies' \subseteq replies /\ astray' \subseteq Clients
    BY <1>2 DEF U!RecvFrom, U!RecvFromFails, U!Kill, U!Delivered, U!TypeOK, U!Datagram
  <2> QED
    BY <2>1, <2>2 DEF U!TypeOK
<1>3. CASE U!ServerRecvFrom
  BY <1>3 DEF U!ServerRecvFrom, U!ServerTakes, U!Delivered, U!TypeOK, U!Datagram
<1>4. CASE U!ServerSendTo
  BY <1>4 DEF U!ServerSendTo, U!TypeOK, U!Datagram
<1>5. CASE U!Lose
  BY <1>5 DEF U!Lose, U!TypeOK, U!Datagram
<1> QED
  BY <1>1, <1>2, <1>3, <1>4, <1>5 DEF U!Next

\* A line goes out when nothing of its client is under way.  Everything else
\* only moves datagrams on or takes them away.
LEMMA UdpStep ==
  ASSUME DatagramInv, U!Next, NEW c \in Clients
  PROVE  ExchangeSound(c)'
<1> USE DEF AtServer, InFlight, InOnePlace, LastSent
<1> SUFFICES ASSUME c \notin astray' PROVE ExchangeSound(c)'
  BY DEF ExchangeSound
<1>1. U!TypeOK /\ ExchangeSound(c) /\ U!TypeOK'
  BY UdpTypes DEF DatagramInv
<1>2. ASSUME NEW b \in Clients, NEW l \in Lines, U!SendTo(b, l) PROVE ExchangeSound(c)'
  <2> DEFINE new == [client |-> b, round |-> round[b] + 1, line |-> l]
  <2>1. /\ requests' = requests \cup {new} /\ UNCHANGED <<replies, server, current, astray>>
        /\ \A d \in Clients \ {b} : client'[d] = client[d] /\ LastSent(d)' = LastSent(d)
        /\ client[b] = "ready" /\ client'[b] = "waiting" /\ LastSent(b)' = new
    BY <1>1, <1>2 DEF U!SendTo, U!TypeOK
  <2>2. new.client = b /\ new \in U!Datagram
    BY <1>1, <2>1 DEF U!TypeOK, U!Datagram
  <2> HIDE DEF new, LastSent
  <2>3. CASE b = c
    BY <1>1, <2>1, <2>2, <2>3 DEF ExchangeSound
  <2>4. CASE b /= c
    <3>1. new /= LastSent(c)
      BY <2>2, <2>4 DEF LastSent
    <3> QED
      BY <1>1, <2>1, <2>2, <2>4, <3>1 DEF ExchangeSound
  <2> QED
    BY <2>3, <2>4
<1>3. ASSUME NEW b \in Clients, U!RecvFrom(b) PROVE ExchangeSound(c)'
  <2>1. PICK d \in replies :
          /\ d.client = b /\ replies' \subseteq replies
          /\ b = c => replies' = replies \ {d}
          /\ client[b] = "waiting" /\ client'[b] \in {"ready", "done"}
          /\ \A a \in Clients \ {b} : client'[a] = client[a] /\ line'[a] = line[a]
          /\ c \notin astray /\ UNCHANGED <<requests, server, current, round>>
    <3>1. PICK d \in replies : d.client = b /\ U!Delivered(d, replies)
      BY <1>3 DEF U!RecvFrom
    <3>2. /\ replies' \subseteq replies /\ c \notin astray
          /\ b = c => replies' = replies \ {d}
      BY <3>1 DEF U!Delivered
    <3>3. /\ client[b] = "waiting" /\ client'[b] \in {"ready", "done"}
          /\ \A a \in Clients \ {b} : client'[a] = client[a] /\ line'[a] = line[a]
          /\ UNCHANGED <<requests, server, current, round>>
      BY <1>1, <1>3 DEF U!RecvFrom, U!Goes, U!TypeOK
    <3> QED
      BY <3>1, <3>2, <3>3
  <2>2. d \in U!Datagram
    BY <1>1 DEF U!TypeOK
  <2>3. CASE b = c
    <3> HIDE DEF LastSent
    <3>1. d = LastSent(c)
      BY <1>1, <2>1, <2>2, <2>3 DEF ExchangeSound
    <3>2. d \notin requests /\ ~(server = "sendto" /\ current = d)
      BY <1>1, <2>1, <2>3, <3>1 DEF ExchangeSound
    <3> QED
      BY <1>1, <2>1, <2>3, <3>1, <3>2 DEF ExchangeSound
  <2>4. CASE b /= c
    <3>1. LastSent(c)' = LastSent(c)
      BY <2>1, <2>4
    <3> HIDE DEF LastSent
    <3> QED
      BY <1>1, <2>1, <2>4, <3>1 DEF ExchangeSound
  <2> QED
    BY <2>3, <2>4
<1>4. ASSUME NEW b \in Clients, U!RecvFromFails(b) \/ U!Kill(b) PROVE ExchangeSound(c)'
  <2>1. /\ client'[b] = "done" \/ b \in astray'
        /\ \A a \in Clients \ {b} : client'[a] = client[a] /\ line'[a] = line[a]
        /\ c \notin astray /\ UNCHANGED <<requests, replies, server, current, round>>
    BY <1>1, <1>4 DEF U!RecvFromFails, U!Kill, U!Goes, U!TypeOK
  <2>2. CASE b = c
    BY <2>1, <2>2 DEF ExchangeSound
  <2>3. CASE b /= c
    <3>1. LastSent(c)' = LastSent(c)
      BY <2>1, <2>3
    <3> HIDE DEF LastSent
    <3> QED
      BY <1>1, <2>1, <2>3, <3>1 DEF ExchangeSound
  <2> QED
    BY <2>2, <2>3
<1>5. CASE U!ServerRecvFrom
  <2>1. PICK d \in requests :
          /\ requests' \subseteq requests
          /\ d.client = c => requests' = requests \ {d}
          /\ server = "recvfrom"
          /\ \/ UNCHANGED <<server, current>>
             \/ server' = "sendto" /\ current' = d
          /\ c \notin astray /\ UNCHANGED <<client, round, line, replies>>
    BY <1>5 DEF U!ServerRecvFrom, U!Delivered, U!ServerTakes
  <2>2. LastSent(c)' = LastSent(c) /\ LastSent(c).client = c
    BY <2>1
  <2> HIDE DEF LastSent
  <2> QED
    BY <1>1, <2>1, <2>2 DEF ExchangeSound
<1>6. CASE U!ServerSendTo
  <2>1. /\ replies' \subseteq replies \cup {current} /\ server = "sendto" /\ server' = "recvfrom"
        /\ UNCHANGED <<client, round, line, requests, astray>>
    BY <1>6 DEF U!ServerSendTo
  <2>2. LastSent(c)' = LastSent(c)
    BY <2>1
  <2> HIDE DEF LastSent
  <2> QED
    BY <1>1, <2>1, <2>2 DEF ExchangeSound
<1>7. CASE U!Lose
  <2>1. /\ requests' \subseteq requests /\ replies' \subseteq replies
        /\ UNCHANGED <<client, round, line, server, current, astray>>
    BY <1>7 DEF U!Lose
  <2>2. LastSent(c)' = LastSent(c)
    BY <2>1
  <2> HIDE DEF LastSent
  <2> QED
    BY <1>1, <2>1, <2>2 DEF ExchangeSound
<1> QED
  BY <1>2, <1>3, <1>4, <1>5, <1>6, <1>7 DEF U!Next

\* Steps of 14 keep its types.
LEMMA BroadcastTypes ==
  ASSUME B!BroadcastTypeOK, B!Next
  PROVE  B!BroadcastTypeOK'
<1>1. ASSUME NEW h \in Hosts, NEW how \in {"ended", "crashed"}, B!ProcessEnds(h, how),
             UNCHANGED typed
      PROVE  B!BroadcastTypeOK'
  BY <1>1 DEF B!ProcessEnds, B!BroadcastTypeOK
<1>2. ASSUME NEW h \in Hosts, B!MainStep(h) \/ B!SetUpReceiver(h) \/ B!SetUpSender(h)
      PROVE  B!BroadcastTypeOK'
  <2>1. CASE B!CreateReceiver(h)
    BY <1>1, <2>1 DEF B!CreateReceiver, B!BroadcastTypeOK
  <2>2. CASE B!CreateSender(h)
    BY <1>1, <2>2 DEF B!CreateSender, B!BroadcastTypeOK
  <2>3. CASE B!Prompt(h)
    BY <1>1, <2>3 DEF B!Prompt, B!hostVars, B!BroadcastTypeOK
  <2>4. CASE B!SetUpReceiver(h)
    BY <1>1, <2>4 DEF B!SetUpReceiver, B!BroadcastTypeOK
  <2>5. CASE B!SetUpSender(h)
    BY <1>1, <2>5 DEF B!SetUpSender, B!BroadcastTypeOK
  <2> QED
    BY <1>2, <2>1, <2>2, <2>3, <2>4, <2>5 DEF B!MainStep
<1>3. ASSUME NEW h \in Hosts, B!SendTo(h) \/ B!Type(h) PROVE B!BroadcastTypeOK'
  BY <1>3 DEF B!SendTo, B!Type, B!Alive, B!Listening, B!hostVars, B!BroadcastTypeOK
<1>4. ASSUME NEW a \in Hosts, NEW b \in Hosts, B!RecvFrom(a, b) \/ B!Lose(<<a, b>>)
      PROVE  B!BroadcastTypeOK'
  BY <1>4 DEF B!RecvFrom, B!Lose, B!hostVars, B!BroadcastTypeOK
<1> QED
  BY <1>2, <1>3, <1>4 DEF B!Next

\* DatagramInv is inductive, so it holds in every state of either program, with
\* any number of clients, lines and hosts and whatever is lost.
THEOREM DatagramInvariance ==
  MCSpec => []DatagramInv
<1>1. DatagramInv /\ [MCNext]_<<vars, curlVars, udpVars, broadcastVars, setupVars>> => DatagramInv'
  <2>1. ASSUME DatagramInv, U!Next, UNCHANGED broadcastVars PROVE DatagramInv'
    <3>1. U!TypeOK' /\ \A c \in Clients : ExchangeSound(c)'
      BY <2>1, UdpTypes, UdpStep DEF DatagramInv
    <3>2. B!BroadcastTypeOK'
      BY <2>1 DEF DatagramInv, broadcastVars, B!BroadcastTypeOK
    <3> QED
      BY <3>1, <3>2 DEF DatagramInv
  <2>2. ASSUME DatagramInv, UNCHANGED udpVars, B!BroadcastTypeOK' PROVE DatagramInv'
    BY <2>2 DEF DatagramInv, udpVars, U!TypeOK, U!Datagram, ExchangeSound, InFlight, AtServer,
       InOnePlace, LastSent
  <2>3. ASSUME B!BroadcastTypeOK, UNCHANGED broadcastVars PROVE B!BroadcastTypeOK'
    BY <2>3 DEF broadcastVars, B!BroadcastTypeOK
  <2> QED
    BY <2>1, <2>2, <2>3, BroadcastTypes DEF MCNext, DatagramInv
<1> QED
  BY DatagramInit, <1>1, PTL DEF MCSpec

\* A client takes the answer to its last line for it, although nothing in a
\* datagram says which line it answers; and 14 keeps to its types.
THEOREM AnswersAlwaysMatch ==
  MCSpec => []DatagramsSound
<1>1. DatagramInv => DatagramsSound
  <2> SUFFICES ASSUME DatagramInv, NEW d \in replies, client[d.client] = "waiting",
                      d.client \notin astray
               PROVE  d.round = round[d.client] /\ d.line = line[d.client]
    BY DEF DatagramInv, DatagramsSound, U!AnswersMatch
  <2>1. d \in U!Datagram /\ d.client \in Clients
    BY DEF DatagramInv, U!TypeOK, U!Datagram
  <2>2. d = LastSent(d.client)
    BY <2>1 DEF DatagramInv, ExchangeSound, InFlight
  <2> QED
    BY <2>2 DEF LastSent
<1> QED
  BY DatagramInvariance, <1>1, PTL

\* Nothing is asked in vain: while a client waits for the answer to a line, and
\* no datagram of its was lost, the line or the answer is under way or with the
\* server.  Only the empty line is received and not answered.
AskedUnderWay(c) ==
  client[c] = "waiting" /\ line[c] /= "" /\ c \notin lost => InFlight(LastSent(c))

\* A step takes a datagram from one place only to put it at the next, to give it
\* to its client, or to lose it.
LEMMA UnderWayStep ==
  ASSUME DatagramInv, U!Next, NEW c \in Clients, AskedUnderWay(c)
  PROVE  AskedUnderWay(c)'
<1> USE DEF AtServer, InFlight, AskedUnderWay
<1>1. U!TypeOK
  BY DEF DatagramInv
<1>2. ASSUME NEW b \in Clients, NEW l \in Lines, U!SendTo(b, l) PROVE AskedUnderWay(c)'
  <2>1. CASE b = c
    <3>1. LastSent(c)' \in requests'
      BY <1>1, <1>2, <2>1 DEF U!SendTo, U!TypeOK, LastSent
    <3> QED
      BY <3>1
  <2>2. CASE b /= c
    <3>1. LastSent(c)' = LastSent(c) /\ client'[c] = client[c] /\ line'[c] = line[c]
      BY <1>1, <1>2, <2>2 DEF U!SendTo, U!TypeOK, LastSent
    <3>2. requests \subseteq requests' /\ UNCHANGED <<replies, server, current, lost>>
      BY <1>2 DEF U!SendTo
    <3> QED
      BY <3>1, <3>2
  <2> QED
    BY <2>1, <2>2
<1>3. ASSUME NEW b \in Clients, U!RecvFrom(b) PROVE AskedUnderWay(c)'
  <2>1. PICK d \in replies :
          /\ d.client = b /\ replies \ {d} \subseteq replies'
          /\ client'[b] \in {"ready", "done"}
          /\ \A a \in Clients \ {b} : client'[a] = client[a] /\ line'[a] = line[a]
          /\ UNCHANGED <<requests, server, current, round, lost>>
    BY <1>1, <1>3 DEF U!RecvFrom, U!Goes, U!Delivered, U!TypeOK
  <2>2. b /= c => LastSent(c)' = LastSent(c) /\ LastSent(c).client = c
    BY <2>1 DEF LastSent
  <2> QED
    BY <2>1, <2>2
<1>4. ASSUME NEW b \in Clients, U!RecvFromFails(b) \/ U!Kill(b) PROVE AskedUnderWay(c)'
  <2>1. /\ client'[b] \in {"ready", "done"}
        /\ \A a \in Clients \ {b} : client'[a] = client[a] /\ line'[a] = line[a]
        /\ UNCHANGED <<requests, replies, server, current, round, lost>>
    BY <1>1, <1>4 DEF U!RecvFromFails, U!Kill, U!Goes, U!TypeOK
  <2>2. b /= c => LastSent(c)' = LastSent(c)
    BY <2>1 DEF LastSent
  <2> QED
    BY <2>1, <2>2
<1>5. CASE U!ServerRecvFrom
  <2>1. PICK d \in requests :
          /\ requests \ {d} \subseteq requests' /\ server = "recvfrom"
          /\ d.line /= "" => server' = "sendto" /\ current' = d
          /\ UNCHANGED <<client, round, line, replies, lost>>
    BY <1>5 DEF U!ServerRecvFrom, U!Delivered, U!ServerTakes
  <2>2. LastSent(c)' = LastSent(c) /\ LastSent(c).line = line[c]
    BY <2>1 DEF LastSent
  <2> QED
    BY <2>1, <2>2
<1>6. CASE U!ServerSendTo
  <2>1. /\ current \in replies' \/ current.client \in lost'
        /\ replies \subseteq replies' /\ lost \subseteq lost'
        /\ UNCHANGED <<client, round, line, requests>>
    BY <1>6 DEF U!ServerSendTo
  <2>2. LastSent(c)' = LastSent(c) /\ LastSent(c).client = c
    BY <2>1 DEF LastSent
  <2> QED
    BY <2>1, <2>2
<1>7. CASE U!Lose
  <2>1. PICK d \in requests \cup replies :
          /\ lost' = lost \cup {d.client}
          /\ requests \ {d} \subseteq requests' /\ replies \ {d} \subseteq replies'
          /\ UNCHANGED <<client, round, line, server, current>>
    BY <1>7 DEF U!Lose
  <2>2. LastSent(c)' = LastSent(c) /\ LastSent(c).client = c
    BY <2>1 DEF LastSent
  <2> QED
    BY <2>1, <2>2
<1> QED
  BY <1>2, <1>3, <1>4, <1>5, <1>6, <1>7 DEF U!Next

\* Whatever is lost of others, what a client asked stays under way until it is
\* answered or lost; by DatagramInvariance it is then in one place only, if
\* nothing came twice and no recvfrom() failed.
THEOREM AskedStaysUnderWay ==
  MCSpec => [](\A c \in Clients : AskedUnderWay(c))
<1> DEFINE Kept == \A c \in Clients : AskedUnderWay(c)
<1>1. MCInit => Kept
  BY DEF MCInit, U!Init, NoClient, AskedUnderWay
<1>2. DatagramInv /\ Kept /\ [MCNext]_<<vars, curlVars, udpVars, broadcastVars, setupVars>>
        => Kept'
  <2>1. ASSUME DatagramInv, Kept, U!Next PROVE Kept'
    BY <2>1, UnderWayStep
  <2>2. ASSUME Kept, UNCHANGED udpVars PROVE Kept'
    BY <2>2 DEF udpVars, AskedUnderWay, InFlight, AtServer, LastSent
  <2> QED
    BY <2>1, <2>2 DEF MCNext
<1> QED
  BY DatagramInvariance, <1>1, <1>2, PTL DEF MCSpec
---------------------------------------------------------------------------
\* SetupPaths.  What the calls of program p before call n have acquired.
CallsOf(p)     == P!Paths[p].calls
EndsOf(p)      == P!Paths[p].ends
Acquired(p, n) == UNION {CallsOf(p)[m].gets : m \in 1..(n - 1)}

\* s names the members of S, each once.
ListsOnce(s, S) ==
  /\ s \in Seq(S)
  /\ \A r \in S : \E m \in 1..Len(s) : s[m] = r
  /\ \A m, n \in 1..Len(s) : s[m] = s[n] => m = n

\* A call that fails gives back what the calls before it acquired, each once,
\* and the end of the work gives back all that it does not keep.
Balanced(p) ==
  /\ Len(CallsOf(p)) \in Nat \ {0}
  /\ \A n \in 1..Len(CallsOf(p)) :
       /\ CallsOf(p)[n].gets \subseteq P!Resources
       /\ ListsOnce(CallsOf(p)[n].undo, Acquired(p, n))
  /\ \A e \in EndsOf(p) :
       /\ e.keeps \subseteq Acquired(p, Len(CallsOf(p)) + 1)
       /\ ListsOnce(e.releases, Acquired(p, Len(CallsOf(p)) + 1) \ e.keeps)

\* The programs of which the run SetupPaths checks that they are.
Tidy ==
  {"main01", "main02", "server08", "client08", "server09", "client09", "server10", "client10",
   "server11", "client11", "server12", "client12", "server13", "client13", "setup_socket"}

\* What is owned is what was acquired; on the way out, what is owned and not
\* kept is still listed, once.
SetupInv ==
  /\ program \in SetupPrograms
  /\ phase \in {"acquiring", "working", "leaving"}
  /\ at \in 1..(Len(CallsOf(program)) + 1)
  /\ phase = "acquiring" => at <= Len(CallsOf(program))
  /\ phase = "working" => at = Len(CallsOf(program)) + 1
  /\ phase /= "leaving" => owned = Acquired(program, at) /\ todo = <<>> /\ kept = {}
  /\ phase = "leaving" =>
       /\ owned \subseteq Acquired(program, at) /\ kept \subseteq owned
       /\ ListsOnce(todo, owned \ kept)
  /\ faults = {}

---------------------------------------------------------------------------
\* The next call adds what it gets.
LEMMA AcquiredNext ==
  ASSUME NEW p
  PROVE  /\ Acquired(p, 1) = {}
         /\ \A n \in Nat :
              n > 1 => Acquired(p, n) = Acquired(p, n - 1) \cup CallsOf(p)[n - 1].gets
<1>1. 1..(1 - 1) = {}
  OBVIOUS
<1>2. Acquired(p, 1) = {}
  BY <1>1 DEF Acquired
<1>3. ASSUME NEW n \in Nat, n > 1
      PROVE  Acquired(p, n) = Acquired(p, n - 1) \cup CallsOf(p)[n - 1].gets
  <2>1. 1..(n - 1) = 1..((n - 1) - 1) \cup {n - 1}
    BY <1>3
  <2> QED
    BY <2>1 DEF Acquired
<1> QED
  BY <1>2, <1>3

\* What is acquired is a resource.
LEMMA AcquiredResources ==
  ASSUME NEW p, Balanced(p), NEW n \in 1..(Len(CallsOf(p)) + 1)
  PROVE  Acquired(p, n) \subseteq P!Resources
<1>1. \A m \in 1..(n - 1) : m \in 1..Len(CallsOf(p))
  BY DEF Balanced
<1>2. \A m \in 1..(n - 1) : CallsOf(p)[m].gets \subseteq P!Resources
  BY <1>1 DEF Balanced
<1> QED
  BY <1>2 DEF Acquired

\* Giving back the first of a list.
LEMMA ListsTail ==
  ASSUME NEW S, NEW s, ListsOnce(s, S), s /= <<>>
  PROVE  Head(s) \in S /\ ListsOnce(Tail(s), S \ {Head(s)})
<1>1. /\ s \in Seq(S) /\ Len(s) \in Nat \ {0} /\ Head(s) = s[1] /\ s[1] \in S
      /\ Tail(s) \in Seq(S) /\ Len(Tail(s)) = Len(s) - 1
      /\ \A m \in 1..(Len(s) - 1) : Tail(s)[m] = s[m + 1]
  BY DEF ListsOnce
<1>2. \A m \in 1..Len(Tail(s)) : Tail(s)[m] \in S \ {Head(s)}
  BY <1>1 DEF ListsOnce
<1>3. Tail(s) \in Seq(S \ {Head(s)})
  <2>1. \A i \in 2..Len(s) : s[i] \in S \ {Head(s)}
    BY <1>1 DEF ListsOnce
  <2>2. SubSeq(s, 2, Len(s)) \in Seq(S \ {Head(s)})
    BY <1>1, <2>1, SubSeqProperties
  <2> QED
    BY <1>1, <2>2, TailIsSubSeq
<1>4. ASSUME NEW r \in S \ {Head(s)} PROVE \E m \in 1..Len(Tail(s)) : Tail(s)[m] = r
  <2>1. PICK m \in 1..Len(s) : s[m] = r
    BY <1>4 DEF ListsOnce
  <2>2. m - 1 \in 1..Len(Tail(s)) /\ Tail(s)[m - 1] = s[m]
    BY <1>1, <1>4, <2>1
  <2> QED
    BY <2>1, <2>2
<1>5. ASSUME NEW m \in 1..Len(Tail(s)), NEW n \in 1..Len(Tail(s)), Tail(s)[m] = Tail(s)[n]
      PROVE  m = n
  <2>1. m + 1 \in 1..Len(s) /\ n + 1 \in 1..Len(s) /\ s[m + 1] = s[n + 1]
    BY <1>1, <1>5
  <2> QED
    BY <2>1 DEF ListsOnce
<1> QED
  BY <1>1, <1>3, <1>4, <1>5 DEF ListsOnce

\* The empty list is that of the empty set.
LEMMA ListsNone ==
  /\ ListsOnce(<<>>, {})
  /\ \A S : ListsOnce(<<>>, S) => S = {}
BY DEF ListsOnce

---------------------------------------------------------------------------
\* A balanced program owns what it acquired and gives it back, step by step.
LEMMA SetupStep ==
  ASSUME \A p \in SetupPrograms : Balanced(p), SetupInv, [P!Next]_(P!vars)
  PROVE  SetupInv'
<1>1. Balanced(program) /\ program \in SetupPrograms
  BY DEF SetupInv
<1>2. Len(CallsOf(program)) \in Nat \ {0} /\ at \in Nat \ {0}
  BY <1>1 DEF Balanced, SetupInv
<1>3. CASE P!Succeeds
  <2>1. /\ phase = "acquiring" /\ UNCHANGED <<program, todo, kept, faults>>
        /\ owned' = owned \cup CallsOf(program)[at].gets /\ at' = at + 1
        /\ phase' = IF at = Len(CallsOf(program)) THEN "working" ELSE "acquiring"
    BY <1>3 DEF P!Succeeds, P!Calls, CallsOf
  <2>2. owned' = Acquired(program', at')
    <3>1. at + 1 \in Nat /\ at + 1 > 1 /\ (at + 1) - 1 = at
      BY <1>2
    <3>2. Acquired(program, at + 1) = Acquired(program, at) \cup CallsOf(program)[at].gets
      <4> DEFINE upto == at + 1
      <4>1. Acquired(program, upto) = Acquired(program, upto - 1) \cup CallsOf(program)[upto - 1].gets
        <5> HIDE DEF upto
        <5>1. upto \in Nat /\ upto > 1
          BY <3>1 DEF upto
        <5> QED
          BY <5>1, AcquiredNext
      <4> QED
        BY <3>1, <4>1
    <3>3. owned = Acquired(program, at)
      BY <2>1 DEF SetupInv
    <3>4. Acquired(program', at') = Acquired(program, at + 1)
      BY <2>1
    <3> QED
      BY <2>1, <3>2, <3>3, <3>4
  <2>3. at \in 1..Len(CallsOf(program))
    BY <1>2, <2>1 DEF SetupInv
  <2>4. /\ at' \in 1..(Len(CallsOf(program')) + 1)
        /\ phase' = "acquiring" => at' <= Len(CallsOf(program'))
        /\ phase' = "working" => at' = Len(CallsOf(program')) + 1
        /\ phase' \in {"acquiring", "working"}
    BY <1>2, <2>1, <2>3
  <2>5. todo' = <<>> /\ kept' = {} /\ faults' = {} /\ program' \in SetupPrograms
    BY <2>1 DEF SetupInv
  <2> QED
    BY <2>2, <2>4, <2>5 DEF SetupInv
<1>4. CASE P!Fails
  <2>1. /\ phase = "acquiring" /\ phase' = "leaving" /\ todo' = CallsOf(program)[at].undo
        /\ UNCHANGED <<program, at, owned, kept, faults>>
    BY <1>4 DEF P!Fails, P!Calls, CallsOf
  <2>2. owned = Acquired(program, at) /\ kept = {} /\ owned \ kept = owned
    BY <2>1 DEF SetupInv
  <2>3. ListsOnce(todo', owned)
    BY <1>1, <1>2, <2>1, <2>2 DEF Balanced, SetupInv
  <2> QED
    BY <2>1, <2>2, <2>3 DEF SetupInv
<1>5. CASE P!Ends
  <2>1. PICK e \in EndsOf(program) : todo' = e.releases /\ kept' = e.keeps
    BY <1>5 DEF P!Ends, EndsOf
  <2>2. phase = "working" /\ phase' = "leaving" /\ UNCHANGED <<program, at, owned, faults>>
    BY <1>5 DEF P!Ends
  <2>3. owned = Acquired(program, Len(CallsOf(program)) + 1)
    BY <2>2 DEF SetupInv
  <2>4. kept' \subseteq owned /\ ListsOnce(todo', owned \ kept')
    BY <1>1, <2>1, <2>3 DEF Balanced
  <2> QED
    BY <2>2, <2>4 DEF SetupInv
<1>6. CASE P!GivesBack
  <2>1. /\ phase = "leaving" /\ todo /= <<>> /\ todo' = Tail(todo)
        /\ owned' = owned \ {Head(todo)} /\ UNCHANGED <<program, phase, at, kept>>
        /\ Head(todo) /= "shutdown" /\ Head(todo) \in owned => faults' = faults
    BY <1>6 DEF P!GivesBack
  <2>2. owned \subseteq Acquired(program, at) /\ kept \subseteq owned /\ ListsOnce(todo, owned \ kept)
    BY <2>1 DEF SetupInv
  <2>3. Head(todo) \in owned /\ Head(todo) \notin kept /\ ListsOnce(Tail(todo), (owned \ kept) \ {Head(todo)})
    <3> DEFINE left == owned \ kept
    <3>1. Head(todo) \in left /\ ListsOnce(Tail(todo), left \ {Head(todo)})
      <4> HIDE DEF left
      <4>1. ListsOnce(todo, left) /\ todo /= <<>>
        BY <2>1, <2>2 DEF left
      <4> QED
        BY <4>1, ListsTail
    <3> QED
      BY <3>1
  <2>4. Head(todo) /= "shutdown"
    <3>1. at \in 1..(Len(CallsOf(program)) + 1)
      BY DEF SetupInv
    <3>2. Acquired(program, at) \subseteq P!Resources
      BY <1>1, <3>1, AcquiredResources
    <3>3. Head(todo) \in P!Resources
      BY <2>2, <2>3, <3>2
    <3> QED
      BY <3>3 DEF P!Resources
  <2>5. (owned \ kept) \ {Head(todo)} = owned' \ kept'
    BY <2>1
  <2> QED
    BY <2>1, <2>2, <2>3, <2>4, <2>5 DEF SetupInv
<1>7. CASE UNCHANGED P!vars
  BY <1>7 DEF P!vars, SetupInv
<1> QED
  BY <1>3, <1>4, <1>5, <1>6, <1>7 DEF P!Next

\* The set-up starts with nothing.
LEMMA SetupInit ==
  ASSUME \A p \in SetupPrograms : Balanced(p), P!Init
  PROVE  SetupInv
<1>1. program \in SetupPrograms /\ phase = "acquiring" /\ at = 1 /\ todo = <<>> /\ owned = {}
      /\ kept = {} /\ faults = {}
  BY DEF P!Init
<1>2. Len(CallsOf(program)) \in Nat \ {0}
  BY <1>1 DEF Balanced
<1>3. Acquired(program, 1) = {}
  BY AcquiredNext
<1> QED
  BY <1>1, <1>2, <1>3 DEF SetupInv

---------------------------------------------------------------------------
\* The lists that most programs give back.
Both == {<<"addr", "sock">>, <<"sock", "addr">>}

LEMMA BothList ==
  /\ \A u \in Both : ListsOnce(u, {"addr", "sock"})
  /\ ListsOnce(<<"addr">>, {"addr"}) /\ ListsOnce(<<"sock">>, {"sock"})
BY DEF Both, ListsOnce

\* calls are getaddrinfo(), socket(), and those up to the n-th, bind() and
\* listen(), bind(), connect() or none, with u given back when one of these fails.
CallsFrom(calls, u, n) ==
  /\ Len(calls) = n
  /\ calls[1] = P!Call({"addr"}, <<>>) /\ calls[2] = P!Call({"sock"}, <<"addr">>)
  /\ \A m \in 3..n : calls[m] = P!Call({}, u)

\* Each end gives both back, or the addresses and keeps the socket.
GiveBoth(ends) ==
  \A e \in ends : \/ e.keeps = {} /\ e.releases \in Both
                  \/ e.keeps = {"sock"} /\ e.releases = <<"addr">>

\* Such a program is balanced.
LEMMA SocketSetup ==
  ASSUME NEW p, NEW u \in Both, NEW n \in 2..4,
         CallsFrom(CallsOf(p), u, n), GiveBoth(EndsOf(p))
  PROVE  Balanced(p)
<1> USE DEF CallsFrom, GiveBoth
<1>1. Acquired(p, 1) = {}
  BY AcquiredNext
<1>2. Acquired(p, 2) = {"addr"}
  BY <1>1, AcquiredNext DEF P!Call
<1>3. Acquired(p, 3) = {"addr", "sock"}
  BY <1>2, AcquiredNext DEF P!Call
<1>4. \A m \in 3..n : CallsOf(p)[m].gets = {} /\ CallsOf(p)[m].undo = u
  BY DEF P!Call
<1>5. n \in {2, 3, 4}
  OBVIOUS
<1>6. n >= 3 => Acquired(p, 4) = {"addr", "sock"}
  <2>1. n >= 3 => CallsOf(p)[3].gets = {}
    BY <1>4, <1>5
  <2>2. Acquired(p, 4) = Acquired(p, 3) \cup CallsOf(p)[3].gets
    BY AcquiredNext
  <2> QED
    BY <1>3, <2>1, <2>2
<1>7. n = 4 => Acquired(p, 5) = {"addr", "sock"}
  <2>1. n = 4 => CallsOf(p)[4].gets = {}
    BY <1>4
  <2>2. Acquired(p, 5) = Acquired(p, 4) \cup CallsOf(p)[4].gets
    BY AcquiredNext
  <2> QED
    BY <1>6, <2>1, <2>2
<1>8. \A m \in 3..(n + 1) : Acquired(p, m) = {"addr", "sock"}
  BY <1>3, <1>5, <1>6, <1>7
<1>9. ASSUME NEW m \in 1..n
      PROVE  CallsOf(p)[m].gets \subseteq P!Resources /\ ListsOnce(CallsOf(p)[m].undo, Acquired(p, m))
  <2>1. CASE m = 1
    <3>1. CallsOf(p)[m].gets = {"addr"} /\ CallsOf(p)[m].undo = <<>>
      BY <2>1 DEF P!Call
    <3>2. ListsOnce(<<>>, {}) /\ Acquired(p, m) = {}
      BY <1>1, <2>1, ListsNone
    <3> QED
      BY <3>1, <3>2 DEF P!Resources
  <2>2. CASE m = 2
    <3>1. CallsOf(p)[m].gets = {"sock"} /\ CallsOf(p)[m].undo = <<"addr">>
      BY <2>2 DEF P!Call
    <3>2. ListsOnce(<<"addr">>, {"addr"}) /\ Acquired(p, m) = {"addr"}
      BY <1>2, <2>2, BothList
    <3> QED
      BY <3>1, <3>2 DEF P!Resources
  <2>3. CASE m \in 3..n
    <3>1. CallsOf(p)[m].gets = {} /\ CallsOf(p)[m].undo = u
      BY <1>4, <2>3
    <3>2. Acquired(p, m) = {"addr", "sock"}
      BY <1>8, <2>3
    <3> QED
      BY <3>1, <3>2, BothList
  <2> QED
    BY <2>1, <2>2, <2>3
<1>10. Acquired(p, n + 1) = {"addr", "sock"}
  BY <1>5, <1>8
<1>11. ASSUME NEW e \in EndsOf(p)
       PROVE  /\ e.keeps \subseteq Acquired(p, n + 1)
              /\ ListsOnce(e.releases, Acquired(p, n + 1) \ e.keeps)
  <2>1. CASE e.keeps = {} /\ e.releases \in Both
    <3>1. {"addr", "sock"} \ e.keeps = {"addr", "sock"}
      BY <2>1
    <3> QED
      BY <1>10, <2>1, <3>1, BothList
  <2>2. CASE e.keeps = {"sock"} /\ e.releases = <<"addr">>
    <3>1. {"addr", "sock"} \ {"sock"} = {"addr"}
      OBVIOUS
    <3> QED
      BY <1>10, <2>2, <3>1, BothList
  <2> QED
    BY <2>1, <2>2
<1>12. Len(CallsOf(p)) \in Nat \ {0}
  OBVIOUS
<1> QED
  BY <1>9, <1>11, <1>12 DEF Balanced

\* 01 and 02 make one call that acquires something.
LEMMA OneCall ==
  ASSUME NEW p, NEW r \in {"addr", "sock"}, CallsOf(p) = << P!Call({r}, <<>>) >>,
         EndsOf(p) = {P!Gives(<<r>>)}
  PROVE  Balanced(p)
<1>1. Len(CallsOf(p)) = 1 /\ CallsOf(p)[1].gets = {r} /\ CallsOf(p)[1].undo = <<>>
  BY DEF P!Call
<1>2. Acquired(p, 1) = {} /\ Acquired(p, 2) = Acquired(p, 1) \cup CallsOf(p)[1].gets
  BY AcquiredNext
<1>3. Acquired(p, 2) = {r}
  <2>1. Acquired(p, 2) = {} \cup {r}
    BY <1>1, <1>2
  <2> QED
    BY <2>1
<1>4. {r} \subseteq P!Resources /\ {r} \ {} = {r} /\ ListsOnce(<<r>>, {r})
  BY BothList DEF P!Resources
<1>5. \A e \in EndsOf(p) : e.keeps = {} /\ e.releases = <<r>>
  BY DEF P!Gives
<1>6. ListsOnce(CallsOf(p)[1].undo, Acquired(p, 1))
  BY <1>1, <1>2, ListsNone
<1>7. \A n \in 1..Len(CallsOf(p)) : /\ CallsOf(p)[n].gets \subseteq P!Resources
                                     /\ ListsOnce(CallsOf(p)[n].undo, Acquired(p, n))
  <2>1. \A n \in 1..1 : n = 1
    OBVIOUS
  <2>2. 1..Len(CallsOf(p)) = 1..1
    BY <1>1
  <2> QED
    BY <1>1, <1>4, <1>6, <2>1, <2>2
<1>8. Acquired(p, Len(CallsOf(p)) + 1) = {r}
  BY <1>1, <1>3
<1>9. \A e \in EndsOf(p) : /\ e.keeps \subseteq {r}
                           /\ ListsOnce(e.releases, {r} \ e.keeps)
  BY <1>4, <1>5
<1>10. Len(CallsOf(p)) \in Nat \ {0}
  BY <1>1
<1> QED
  BY <1>7, <1>8, <1>9, <1>10 DEF Balanced

\* Each of the tidy programs is balanced.
LEMMA TidyBalanced == \A p \in Tidy : Balanced(p)
<1>1. \A u \in Both : /\ CallsFrom(P!ListenSetup(u), u, 4)
                      /\ CallsFrom(P!BindSetup(u), u, 3) /\ CallsFrom(P!ConnectSetup(u), u, 3)
  BY DEF CallsFrom, P!ListenSetup, P!BindSetup, P!ConnectSetup
<1>2. GiveBoth({}) /\ (\A u \in Both : GiveBoth({P!Gives(u)})) /\ GiveBoth({P!GivesBut(<<"addr">>, {"sock"})})
  BY DEF GiveBoth, P!Gives, P!GivesBut
<1>3. <<"addr", "sock">> \in Both /\ <<"sock", "addr">> \in Both
  BY DEF Both
<1>4. Balanced("main01") /\ Balanced("main02")
  BY OneCall DEF CallsOf, EndsOf, P!Paths, P!Socket01, P!Resolve02, P!Program
<1> USE DEF CallsOf, EndsOf, P!Paths, P!Program
<1>5. Balanced("server08")
  <2>1. /\ CallsOf("server08") = P!ListenSetup(<<"sock", "addr">>)
        /\ EndsOf("server08") = {}
    BY DEF P!Server08
  <2> QED
    BY <1>1, <1>2, <1>3, <2>1, SocketSetup
<1>6. Balanced("server09")
  <2>1. /\ CallsOf("server09") = P!ListenSetup(<<"addr", "sock">>)
        /\ EndsOf("server09") = {}
    BY DEF P!Server09
  <2> QED
    BY <1>1, <1>2, <1>3, <2>1, SocketSetup
<1>7. Balanced("server10")
  <2>1. /\ CallsOf("server10") = P!BindSetup(<<"addr", "sock">>)
        /\ EndsOf("server10") = {}
    BY DEF P!Server10
  <2> QED
    BY <1>1, <1>2, <1>3, <2>1, SocketSetup
<1>8. Balanced("server11")
  <2>1. /\ CallsOf("server11") = P!ListenSetup(<<"addr", "sock">>)
        /\ EndsOf("server11") = {P!Gives(<<"sock", "addr">>)}
    BY DEF P!Server11
  <2> QED
    BY <1>1, <1>2, <1>3, <2>1, SocketSetup
<1>9. Balanced("server12")
  <2>1. /\ CallsOf("server12") = P!ListenSetup(<<"addr", "sock">>)
        /\ EndsOf("server12") = {}
    BY DEF P!Server12
  <2> QED
    BY <1>1, <1>2, <1>3, <2>1, SocketSetup
<1>10. Balanced("server13")
  <2>1. /\ CallsOf("server13") = P!ListenSetup(<<"addr", "sock">>)
        /\ EndsOf("server13") = {P!Gives(<<"addr", "sock">>)}
    BY DEF P!Server13
  <2> QED
    BY <1>1, <1>2, <1>3, <2>1, SocketSetup
<1>11. Balanced("client08")
  <2>1. /\ CallsOf("client08") = P!ConnectSetup(<<"sock", "addr">>)
        /\ EndsOf("client08") = {P!Gives(<<"sock", "addr">>)}
    BY DEF P!Client08
  <2> QED
    BY <1>1, <1>2, <1>3, <2>1, SocketSetup
<1>12. Balanced("client09")
  <2>1. /\ CallsOf("client09") = P!ConnectSetup(<<"addr", "sock">>)
        /\ EndsOf("client09") = {P!Gives(<<"addr", "sock">>)}
    BY DEF P!Client09
  <2> QED
    BY <1>1, <1>2, <1>3, <2>1, SocketSetup
<1>13. Balanced("client11")
  <2>1. /\ CallsOf("client11") = P!ConnectSetup(<<"addr", "sock">>)
        /\ EndsOf("client11") = {P!Gives(<<"addr", "sock">>)}
    BY DEF P!Client11
  <2> QED
    BY <1>1, <1>2, <1>3, <2>1, SocketSetup
<1>14. Balanced("client12")
  <2>1. /\ CallsOf("client12") = P!ConnectSetup(<<"addr", "sock">>)
        /\ EndsOf("client12") = {P!Gives(<<"addr", "sock">>)}
    BY DEF P!Client12
  <2> QED
    BY <1>1, <1>2, <1>3, <2>1, SocketSetup
<1>15. Balanced("client13")
  <2>1. /\ CallsOf("client13") = P!ConnectSetup(<<"addr", "sock">>)
        /\ EndsOf("client13") = {P!Gives(<<"addr", "sock">>)}
    BY DEF P!Client13
  <2> QED
    BY <1>1, <1>2, <1>3, <2>1, SocketSetup
<1>16. Balanced("client10")
  <2>1. /\ CallsOf("client10") = << P!Call({"addr"}, <<>>), P!Call({"sock"}, <<"addr">>) >>
        /\ EndsOf("client10") = {P!Gives(<<"addr", "sock">>)}
    BY DEF P!Client10
  <2>2. CallsFrom(CallsOf("client10"), <<"addr", "sock">>, 2)
    BY <2>1 DEF CallsFrom
  <2> QED
    BY <1>2, <1>3, <2>1, <2>2, SocketSetup
<1>17. Balanced("setup_socket")
  <2>1. /\ CallsOf("setup_socket") = P!ListenSetup(<<"addr", "sock">>)
        /\ EndsOf("setup_socket") = {P!GivesBut(<<"addr">>, {"sock"})}
    BY DEF P!SetupSocket
  <2> QED
    BY <1>1, <1>2, <1>3, <2>1, SocketSetup
<1> QED
  BY <1>4, <1>5, <1>6, <1>7, <1>8, <1>9, <1>10, <1>11, <1>12, <1>13, <1>14, <1>15, <1>16, <1>17 DEF Tidy

---------------------------------------------------------------------------
\* SetupInv is inductive for programs that are balanced, and the programs of
\* the other kinds stand at the end of a set-up.
THEOREM SetupInvariance ==
  ASSUME \A p \in SetupPrograms : Balanced(p)
  PROVE  MCSpec => []SetupInv
<1>1. MCInit => SetupInv
  <2>1. ASSUME NoSetup PROVE SetupInv
    <3>1. program \in SetupPrograms /\ phase = "leaving" /\ at = 1 /\ todo = <<>>
          /\ owned = {} /\ kept = {} /\ faults = {}
      BY <2>1 DEF NoSetup
    <3>2. Len(CallsOf(program)) \in Nat \ {0}
      BY <3>1 DEF Balanced
    <3>3. ListsOnce(todo, owned \ kept)
      BY <3>1, ListsNone
    <3> QED
      BY <3>1, <3>2, <3>3 DEF SetupInv
  <2> QED
    BY <2>1, SetupInit DEF MCInit
<1>2. SetupInv /\ [MCNext]_<<vars, curlVars, udpVars, broadcastVars, setupVars>> => SetupInv'
  <2>1. UNCHANGED setupVars => UNCHANGED P!vars
    BY DEF setupVars, P!vars
  <2> QED
    BY <2>1, SetupStep DEF MCNext
<1> QED
  BY <1>1, <1>2, PTL DEF MCSpec

\* Whichever of the calls of a tidy program fails, and whenever its work ends,
\* it has given back everything but what it keeps on purpose; this needs the
\* list of each way out to name exactly what the calls before it acquired.
THEOREM SetupsReturnClean ==
  ASSUME SetupPrograms \subseteq Tidy
  PROVE  MCSpec => []ReturnsClean
<1>1. \A p \in SetupPrograms : Balanced(p)
  BY TidyBalanced
<1>2. SetupInv => ReturnsClean
  <2> SUFFICES ASSUME SetupInv PROVE P!ReturnsClean
    BY DEF ReturnsClean
  <2>1. Balanced(program)
    BY <1>1 DEF SetupInv
  <2>2. owned \subseteq Acquired(program, at) /\ Acquired(program, at) \subseteq P!Resources
    BY <2>1, AcquiredResources DEF SetupInv
  <2>3. \A n \in DOMAIN todo : todo[n] \in P!Resources \cup {"shutdown"}
    <3>1. CASE phase = "leaving"
      BY <2>2, <3>1 DEF SetupInv, ListsOnce
    <3>2. CASE phase /= "leaving"
      BY <3>2 DEF SetupInv
    <3> QED
      BY <3>1, <3>2
  <2>4. P!TypeOK
    BY <2>2, <2>3 DEF SetupInv, P!TypeOK, CallsOf, Acquired
  <2>5. ASSUME phase = "leaving", todo = <<>> PROVE owned = kept
    <3>1. owned \ kept = {} /\ kept \subseteq owned
      BY <2>5, ListsNone DEF SetupInv
    <3> QED
      BY <3>1
  <2> QED
    BY <2>4, <2>5 DEF P!ReturnsClean
<1> QED
  BY <1>1, <1>2, SetupInvariance, PTL

\* On no way out does a tidy program close a socket or free addresses a second
\* time, or before it has them.
THEOREM SetupsReleaseOnce ==
  ASSUME SetupPrograms \subseteq Tidy
  PROVE  MCSpec => []ReleasedOnce
<1>1. \A p \in SetupPrograms : Balanced(p)
  BY TidyBalanced
<1>2. SetupInv => ReleasedOnce
  BY DEF SetupInv, ReleasedOnce, P!ReleasedOnce
<1> QED
  BY <1>1, <1>2, SetupInvariance, PTL
=============================================================================
