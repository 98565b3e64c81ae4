----------------------------- MODULE HttpServer -----------------------------
(* my_http_server: HTTPServer::start() with its connection handler, parser *)
(* and router, and the HTTP clients that talk to it.  main() has built the *)
(* server with a listening socket.  One action per system call.  Messages  *)
(* are requests of HttpMessages.                                           *)
EXTENDS TcpSockets, HttpMessages

CONSTANTS
  MaxConnection,  \* MAX_CONNECTION
  MayFail         \* TRUE: poll(), accept() for want of memory, and fs::exists() may also
                  \* fail

ASSUME HttpAssumption ==
  /\ \A m \in Messages : IsRequest(m)
  /\ MaxConnection \in Nat /\ MaxConnection >= 2
  /\ MayFail \in BOOLEAN

VARIABLES
  pc,        \* the call the server is about to make, or how it ended
  fds,       \* fds[i].fd
  revents,   \* fds[i].revents & POLLIN
  nfds,
  i,
  response,  \* s_server_response, and whether the path of the request had come;
             \* NoReply when the handler has returned
  client,    \* where each client is
  asked,     \* the request each client has sent (history)
  reply      \* the response each client was sent (history)

clientVars == <<client, asked, reply>>
serverVars == <<pc, fds, revents, nfds, i, response>>
vars == <<netVars, clientVars, serverVars>>

Slots == 0..(MaxConnection - 1)
NoRequest == Request("none", <<>>)
NoReply   == [status |-> 0, body |-> "none", lengths |-> 0, complete |-> FALSE]

\* "complete": recv() had brought the whole path.
Replies ==
  [status : {0, 200, 404}, body : {"none", "page", "other"}, lengths : 0..2,
   complete : BOOLEAN]

TypeOK ==
  /\ NetTypeOK
  /\ pc \in {"poll", "scan", "respond", "exited"}
  /\ fds \in [Slots -> Fd \cup {0}]
  /\ revents \in [Slots -> BOOLEAN]
  /\ nfds \in 1..MaxConnection
  /\ i \in 0..MaxConnection
  /\ response \in Replies
  /\ client \in [Clients -> {"off", "ready", "waiting", "done"}]
  /\ asked \in [Clients -> Messages \cup {NoRequest}]
  /\ reply \in [Clients -> Replies]

\* fds is a local array without an initializer: revents starts as anything.
Init ==
  /\ NetInit
  /\ pc = "poll"
  /\ fds = [s \in Slots |-> IF s = 0 THEN SockServer ELSE 0]
  /\ revents \in [Slots -> BOOLEAN]
  /\ nfds = 1
  /\ i = 0
  /\ response = NoReply
  /\ client = [c \in Clients |-> "off"]
  /\ asked = [c \in Clients |-> NoRequest]
  /\ reply = [c \in Clients |-> NoReply]

Monitored == 0..(nfds - 1)
Conn(s)   == files[fds[s]]

---------------------------------------------------------------------------
\* The HTTP clients.
Connect(c) ==
  /\ client[c] = "off"
  /\ Listening
  /\ client'  = [client EXCEPT ![c] = "ready"]
  /\ acceptQ' = acceptQ \cup {c}
  /\ peer'    = [peer EXCEPT ![c] = "up"]
  /\ UNCHANGED <<files, inbox, outbox, asked, reply, serverVars>>

SendRequest(c, m) ==
  /\ client[c] = "ready"
  /\ client' = [client EXCEPT ![c] = "waiting"]
  /\ asked'  = [asked EXCEPT ![c] = m]
  /\ inbox'  = IF Attached(c) THEN [inbox EXCEPT ![c] = Append(@, m)] ELSE inbox
  /\ UNCHANGED <<files, acceptQ, peer, outbox, reply, serverVars>>

\* A client that has ended is of no more interest.
Forget(c) ==
  /\ asked' = [asked EXCEPT ![c] = NoRequest]
  /\ reply' = [reply EXCEPT ![c] = NoReply]

\* The client reads until the server closes, and closes its own end.
RecvResponse(c) ==
  /\ client[c] = "waiting"
  /\ ~Attached(c)
  /\ client' = [client EXCEPT ![c] = "done"]
  /\ outbox' = [outbox EXCEPT ![c] = 0]
  /\ Forget(c)
  /\ UNCHANGED <<files, acceptQ, peer, inbox, serverVars>>

\* A client closes or resets its connection at any moment.
Leave(c) ==
  /\ client[c] \in {"ready", "waiting"}
  /\ client' = [client EXCEPT ![c] = "done"]
  /\ \E s \in {"fin", "rst"} : peer' = [peer EXCEPT ![c] = s]
  /\ Forget(c)
  /\ UNCHANGED <<files, acceptQ, inbox, outbox, serverVars>>

---------------------------------------------------------------------------
Poll ==
  /\ pc = "poll"
  /\ \E s \in Monitored : Readable(fds[s])
  /\ revents' = [s \in Slots |-> IF s < nfds THEN Readable(fds[s]) ELSE revents[s]]
  /\ pc' = "scan"
  /\ i'  = 0
  /\ UNCHANGED <<netVars, clientVars, fds, nfds, response>>

PollFails ==
  /\ pc = "poll"
  /\ MayFail
  /\ pc' = "exited"
  /\ CloseAll
  /\ UNCHANGED <<peer, outbox, clientVars, fds, revents, nfds, i, response>>

EndScan ==
  /\ pc = "scan"
  /\ i >= nfds
  /\ pc' = "poll"
  /\ UNCHANGED <<netVars, clientVars, fds, revents, nfds, i, response>>

\* A new entry gets fd and events; without room the descriptor is lost.
StoreConnection(fd) ==
  IF nfds < MaxConnection
  THEN /\ fds'  = [fds EXCEPT ![nfds] = fd]
       /\ nfds' = nfds + 1
  ELSE UNCHANGED <<fds, nfds>>

AtListener == pc = "scan" /\ i < nfds /\ revents[i] /\ fds[i] = SockServer

Accept ==
  /\ AtListener
  /\ \E c \in acceptQ, fd \in Fd :
       /\ LowestFree(fd)
       /\ files'   = [files EXCEPT ![fd] = c]
       /\ acceptQ' = acceptQ \ {c}
       /\ StoreConnection(fd)
  /\ i' = i + 1
  /\ UNCHANGED <<peer, inbox, outbox, clientVars, pc, revents, response>>

AcceptFails ==
  /\ AtListener
  /\ NoFreeFd \/ MayFail
  /\ i' = i + 1
  /\ UNCHANGED <<netVars, clientVars, pc, fds, revents, nfds, response>>

\* POLLIN on a client's entry: the inner "if" has no "else".
IgnoreReadable ==
  /\ pc = "scan"
  /\ i < nfds
  /\ revents[i]
  /\ fds[i] /= SockServer
  /\ i' = i + 1
  /\ UNCHANGED <<netVars, clientVars, pc, fds, revents, nfds, response>>

\* The "else" belongs to the test of POLLIN: entries without it are handled.
AtHandler == pc = "scan" /\ i < nfds /\ ~revents[i]

\* Variants: the last entry is not moved into the gap; nfds is decremented
\* before the move.
DropWithoutMove ==
  /\ files' = [files EXCEPT ![fds[i]] = "free"]
  /\ nfds'  = nfds - 1
  /\ i'     = i + 1
  /\ pc'    = "scan"
  /\ UNCHANGED fds
DropDecrementFirst ==
  /\ files' = [files EXCEPT ![fds[i]] = "free"]
  /\ fds'   = [fds EXCEPT ![i] = fds[IF nfds > 1 THEN nfds - 2 ELSE 0]]
  /\ nfds'  = nfds - 1
  /\ i'     = i + 1
  /\ pc'    = "scan"

\* close(); the last entry moves into slot i; i++ passes over it.
Drop ==
  /\ files' = [files EXCEPT ![fds[i]] = "free"]
  /\ fds'   = [fds EXCEPT ![i] = fds[nfds - 1]]
  /\ nfds'  = nfds - 1
  /\ i'     = i + 1
  /\ pc'    = "scan"

\* recv() on the listening socket fails with ENOTCONN; close() ends the
\* listening, and the kernel resets the connections that wait in its queue.
HandleListener ==
  /\ AtHandler
  /\ Conn(i) = "listener"
  /\ Drop
  /\ acceptQ' = {}
  /\ inbox' = [c \in Clients |-> IF c \in acceptQ THEN <<>> ELSE inbox[c]]
  /\ UNCHANGED <<peer, outbox, clientVars, revents, response>>

HandleEnd ==
  /\ AtHandler
  /\ Conn(i) \in Clients
  /\ inbox[Conn(i)] = <<>>
  /\ peer[Conn(i)] /= "up"
  /\ Drop
  /\ UNCHANGED <<acceptQ, peer, inbox, outbox, clientVars, revents, response>>

\* What goes out, with whether recv() had brought the path it answers.
Answer(text, cut) ==
  [status |-> text.status, body |-> text.body, lengths |-> text.lengths,
   complete |-> cut /= "path"]

\* recv() may bring less than the request; parse() and route() look at that.
HandleRequest ==
  /\ AtHandler
  /\ Conn(i) \in Clients
  /\ inbox[Conn(i)] /= <<>>
  /\ \E cut \in Cuts :
       LET parsed == Parse(Head(inbox[Conn(i)]), cut)
       IN  /\ ~Throws(parsed)
           /\ \E r \in Route(parsed) :
                response' = Answer(to_string(r), cut)
  /\ inbox' = [inbox EXCEPT ![Conn(i)] = Tail(@)]
  /\ pc' = "respond"
  /\ UNCHANGED <<files, acceptQ, peer, outbox, clientVars, fds, revents, nfds, i>>

\* parse() throws; or route() does, when the file system refuses to say what is
\* there.  The exception leaves start(); main() catches it and returns.
HandleThrows ==
  /\ AtHandler
  /\ Conn(i) \in Clients
  /\ inbox[Conn(i)] /= <<>>
  /\ MayFail \/ \E cut \in Cuts : Throws(Parse(Head(inbox[Conn(i)]), cut))
  /\ pc' = "exited"
  /\ CloseAll
  /\ UNCHANGED <<peer, outbox, clientVars, fds, revents, nfds, i, response>>

Record(c) == reply' = [reply EXCEPT ![c] = IF client[c] = "waiting" THEN response ELSE @]

\* Variant: only DISCONNECT closes the connection.
RespondKeepsOpen ==
  /\ pc = "respond"
  /\ \/ /\ SendOk(Conn(i)) /\ Record(Conn(i))
        /\ pc' = "scan" /\ i' = i + 1
        /\ UNCHANGED <<files, fds, nfds, inbox>>
     \/ /\ SendFails(Conn(i)) /\ UNCHANGED reply
        /\ Drop
        /\ inbox' = [inbox EXCEPT ![Conn(i)] = <<>>]
  /\ response' = NoReply
  /\ UNCHANGED <<acceptQ, client, asked, revents>>

\* COMPLETED and DISCONNECT alike close the connection.
Respond ==
  /\ pc = "respond"
  /\ \/ SendOk(Conn(i)) /\ Record(Conn(i))
     \/ SendFails(Conn(i)) /\ UNCHANGED reply
  /\ Drop
  /\ inbox' = [inbox EXCEPT ![Conn(i)] = <<>>]
  /\ response' = NoReply
  /\ UNCHANGED <<acceptQ, client, asked, revents>>

ServerStep ==
  \/ Poll \/ PollFails \/ EndScan
  \/ Accept \/ AcceptFails
  \/ IgnoreReadable
  \/ HandleListener \/ HandleEnd \/ HandleRequest \/ HandleThrows
  \/ Respond

ClientStep ==
  \E c \in Clients :
    \/ Connect(c)
    \/ \E m \in Messages : SendRequest(c, m)
    \/ RecvResponse(c)
    \/ Leave(c)

Next == ServerStep \/ ClientStep

Spec == Init /\ [][Next]_vars

\* The server runs while it is not blocked, and no client is idle: each one
\* sends its request and reads the response.
FairSpec ==
  /\ Spec
  /\ WF_vars(ServerStep /\ ~PollFails)
  /\ \A c \in Clients : WF_vars(RecvResponse(c))
  /\ \A c \in Clients : WF_vars(\E m \in Messages : SendRequest(c, m))

---------------------------------------------------------------------------
Alive == pc \in {"poll", "scan", "respond"}

\* poll() is never handed a closed descriptor, nor one descriptor twice, even
\* after the entry of the listening socket was dropped and reused.
SlotsOpen ==
  /\ TypeOK
  /\ Alive =>
       /\ \A s \in Monitored : fds[s] \in Fd /\ Conn(s) /= "free"
       /\ \A s, t \in Monitored : s /= t => fds[s] /= fds[t]

\* A connection leaves the entries by being closed only: dropping an entry,
\* that of the listening socket included, loses no other client.  And what
\* accept() returns has an entry, unless there is no room.
Tracked(c) == \E s \in Monitored : Conn(s) = c
NeverForgets ==
  [][\A c \in Clients :
       /\ Tracked(c) => pc' = "exited" \/ Tracked(c)' \/ ~Held(c)'
       /\ ~Held(c) /\ Held(c)' => Tracked(c)' \/ nfds = MaxConnection]_vars

\* A client is answered once: the reply closes its connection, whatever of
\* its request is still unread and whichever entry is reused.
OneReplyThenClosed ==
  \A c \in Clients :
    /\ outbox[c] <= 1
    /\ reply[c] /= NoReply => ~Attached(c)

\* The response a client is sent answers its own request, whatever entries were
\* closed and moved meanwhile - if recv() had brought the whole path.  A page
\* that could not be read is the only reason for an empty body.
Fits(answer, request) ==
  answer.complete =>
    /\ answer.status = IF request.path = "page" THEN 200 ELSE 404
    /\ answer.body \in {"none", IF request.path = "page" THEN "page" ELSE "other"}
ReplyFitsRequest == \A c \in Clients : Fits(reply[c], asked[c])

\* Whether or not recv() had brought the whole path.
EveryReplyFits ==
  \A c \in Clients :
    reply[c].status = 200 => asked[c].path = "page"

\* A response says once how long it is.
OneContentLength == \A c \in Clients : reply[c].lengths <= 1

\* "It listens for incoming connections": it does, as long as it runs.
KeepsListening == Alive => files[SockServer] = "listener"

\* "processes the requests, and sends back an appropriate response": a client
\* that waits gets its answer, or its connection is closed.
RequestsAnswered ==
  \A c \in Clients : client[c] = "waiting" ~> client[c] /= "waiting"
=============================================================================
