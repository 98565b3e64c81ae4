-------------------------- MODULE HttpServerProofs --------------------------
(* Proofs about HttpServer for any number of clients, descriptors, entries  *)
(* and requests: IInv is inductive, and what it says of the answers.        *)
EXTENDS HttpServer, TcpSocketsProofs

USE SocketsAssumption, HttpAssumption

\* What the proofs need besides the properties: the entry that is answered is
\* a monitored connection,
ServedEntry == pc = "respond" => i \in Monitored /\ Conn(i) \in Clients

\* a scan starts with an entry that poll() reported, so that it never drops the
\* last one,
ScanSound ==
  /\ pc = "scan" /\ i = 0 => \E s \in Monitored : revents[s]
  /\ pc = "respond" => nfds > 1

\* and a connection brings one request, which is waiting at the server, in
\* its hands, or done with.
Serving(c) == pc = "respond" /\ Conn(i) = c
ExchangesSound ==
  \A c \in Clients :
    /\ client[c] = "off" => ~Attached(c) /\ outbox[c] = 0
    /\ client[c] \in {"off", "ready"} => inbox[c] = <<>> /\ ~Serving(c)
    /\ client[c] /= "waiting" => reply[c] = NoReply
    /\ Attached(c) => outbox[c] = 0
    /\ inbox[c] /= <<>> => Attached(c) /\ Len(inbox[c]) = 1 /\ ~Serving(c)
    /\ inbox[c] /= <<>> /\ client[c] = "waiting" => Head(inbox[c]) = asked[c]
    /\ Serving(c) /\ client[c] = "waiting" => Fits(response, asked[c])

IInv ==
  /\ SlotsOpen
  /\ ServedEntry
  /\ ScanSound
  /\ OneServerEnd
  /\ OneReplyThenClosed
  /\ ReplyFitsRequest
  /\ ExchangesSound
---------------------------------------------------------------------------
\* The server starts in IInv, whatever revents holds.
LEMMA InitIInv == Init => IInv
<1> SUFFICES ASSUME Init PROVE IInv
  OBVIOUS
<1>1. /\ NetInit /\ pc = "poll" /\ nfds = 1 /\ i = 0
      /\ fds = [s \in Slots |-> IF s = 0 THEN SockServer ELSE 0]
      /\ revents \in [Slots -> BOOLEAN]
      /\ response = NoReply
      /\ client = [c \in Clients |-> "off"]
      /\ asked = [c \in Clients |-> NoRequest]
      /\ reply = [c \in Clients |-> NoReply]
  BY Zenon DEF Init
<1>2. SockServer \in Fd /\ 0 \in Slots /\ \A s \in Slots : s \in Int /\ (s < 1 <=> s = 0)
  BY DEF Fd, SockServer, Slots
<1>3. /\ files = [fd \in Fd |-> IF fd = SockServer THEN "listener" ELSE "free"]
      /\ \A c \in Clients : inbox[c] = <<>> /\ outbox[c] = 0 /\ reply[c] = NoReply /\ client[c] = "off"
      /\ acceptQ = {}
  BY <1>1 DEF NetInit
<1>4. NetTypeOK
  BY <1>1, EmptySeq DEF NetInit, NetTypeOK, PeerState
<1>5. NoReply \in Replies /\ NoReply.complete = FALSE
  BY DEF NoReply, Replies
<1>6. TypeOK
  <2>1. fds \in [Slots -> Fd \cup {0}]
    BY <1>1, <1>2
  <2>2. 1 \in 1..MaxConnection /\ 0 \in 0..MaxConnection
    OBVIOUS
  <2>3. reply \in [Clients -> Replies] /\ asked \in [Clients -> Messages \cup {NoRequest}]
    BY <1>1, <1>5
  <2> QED
    BY <1>1, <1>4, <1>5, <2>1, <2>2, <2>3 DEF TypeOK
<1>7. SlotsOpen
  <2>1. Monitored = {0}
    BY <1>1 DEF Monitored
  <2>2. fds[0] = SockServer /\ files[SockServer] = "listener"
    BY <1>1, <1>2, <1>3
  <2> QED
    BY <1>2, <1>6, <2>1, <2>2 DEF SlotsOpen, Conn
<1>8. ServedEntry /\ ScanSound /\ \A c \in Clients : ~Serving(c)
  BY <1>1 DEF ServedEntry, ScanSound, Serving
<1>9. \A c \in Clients : ~Held(c) /\ ~Attached(c)
  BY <1>3 DEF Held, Attached
<1>10. OneServerEnd /\ OneReplyThenClosed
  BY <1>3, <1>9 DEF OneServerEnd, OneReplyThenClosed
<1>11. ReplyFitsRequest
  BY <1>3, <1>5 DEF ReplyFitsRequest, Fits
<1>12. ExchangesSound
  BY <1>3, <1>8, <1>9 DEF ExchangesSound
<1> QED
  BY <1>7, <1>8, <1>10, <1>11, <1>12 DEF IInv

---------------------------------------------------------------------------
\* What a monitored entry refers to.
LEMMA EntryFacts ==
  ASSUME IInv, Alive, NEW s \in Monitored
  PROVE  /\ s \in Slots /\ s \in Nat /\ s < nfds /\ fds[s] \in Fd
         /\ Conn(s) \in Clients \cup {"listener"}
         /\ Conn(s) \in Clients => Held(Conn(s))
         /\ \A t \in Monitored : t /= s => fds[t] /= fds[s] /\ (Conn(s) \in Clients => Conn(t) /= Conn(s))
<1>1. TypeOK /\ OneServerEnd
  BY DEF IInv, SlotsOpen
<1>2. s \in Slots /\ s \in Nat /\ s < nfds
  BY <1>1 DEF Monitored, Slots, TypeOK
<1>3. /\ \A t \in Monitored : fds[t] \in Fd /\ Conn(t) /= "free"
      /\ \A t \in Monitored : t /= s => fds[t] /= fds[s]
  BY DEF IInv, SlotsOpen
<1>4. Conn(s) \in Clients \cup {"listener"}
  BY <1>1, <1>3 DEF Conn, TypeOK, NetTypeOK
<1>5. Conn(s) \in Clients => Held(Conn(s))
  BY <1>3 DEF Conn, Held
<1>6. \A t \in Monitored : t /= s => (Conn(s) \in Clients => Conn(t) /= Conn(s))
  BY <1>1, <1>3 DEF OneServerEnd, Conn
<1> QED
  BY <1>2, <1>3, <1>4, <1>5, <1>6

\* The entry that the handler works on.
LEMMA HandledEntry ==
  ASSUME IInv, AtHandler \/ pc = "respond"
  PROVE  /\ Alive /\ i \in Monitored /\ i \in Slots /\ i \in Nat /\ i < nfds /\ fds[i] \in Fd
         /\ pc = "respond" => Conn(i) \in Clients
         /\ nfds > 1
<1>1. Alive /\ TypeOK
  BY DEF AtHandler, Alive, IInv, SlotsOpen
<1>2. i \in Monitored
  BY <1>1 DEF AtHandler, Monitored, TypeOK, IInv, ServedEntry
<1>3. nfds > 1
  <2>1. CASE nfds = 1 /\ AtHandler
    <3>1. i = 0 /\ Monitored = {0}
      BY <1>1, <2>1 DEF AtHandler, TypeOK, Monitored
    <3> QED
      BY <2>1, <3>1 DEF AtHandler, IInv, ScanSound
  <2> QED
    BY <1>1, <2>1 DEF TypeOK, IInv, ScanSound
<1> QED
  BY <1>1, <1>2, <1>3, EntryFacts DEF IInv, ServedEntry

\* close() of a connection whose records were read leaves them read.
LEMMA HandleEndCloses ==
  ASSUME IInv, HandleEnd
  PROVE  CloseFd(fds[i]) /\ UNCHANGED <<acceptQ, peer, outbox>> /\ Conn(i) \in Clients
<1>1. inbox \in [Clients -> Seq(Messages)] /\ Conn(i) \in Clients /\ inbox[Conn(i)] = <<>> /\ inbox' = inbox
  BY DEF HandleEnd, IInv, SlotsOpen, TypeOK, NetTypeOK
<1>2. inbox' = [inbox EXCEPT ![Conn(i)] = <<>>]
  BY <1>1
<1> QED
  BY <1>1, <1>2 DEF HandleEnd, Drop, CloseFd, Conn

\* A step of the server is one of the steps that any server makes, unless it
\* closes the listening socket.
LEMMA ServerStepSockets ==
  ASSUME IInv, ServerStep, ~HandleListener
  PROVE  SocketStep
<1>1. CASE Poll
  BY <1>1, Zenon DEF Poll, SocketStep
<1>2. CASE PollFails \/ HandleThrows
  BY <1>2 DEF PollFails, HandleThrows, SocketStep, SockEnd
<1>3. CASE EndScan \/ AcceptFails \/ IgnoreReadable
  BY <1>3 DEF EndScan, AcceptFails, IgnoreReadable, SocketStep
<1>4. CASE Accept
  BY <1>4 DEF Accept, LowestFree, SocketStep, SockAccept
<1>5. CASE HandleEnd
  BY <1>5, HandleEndCloses, HandledEntry DEF HandleEnd, SocketStep, SockClose, Conn
<1>6. CASE HandleRequest
  BY <1>6 DEF HandleRequest, SocketStep, SockRecv
<1>7. CASE Respond
  BY <1>7, HandledEntry DEF Respond, Drop, SocketStep, SockSendClose, CloseFd, Conn
<1> QED
  BY <1>1, <1>2, <1>3, <1>4, <1>5, <1>6, <1>7 DEF ServerStep

\* Closing the listening socket resets the connections in its queue, and no
\* other.
LEMMA ListenerCloses ==
  ASSUME IInv, HandleListener
  PROVE  /\ NetTypeOK' /\ OneServerEnd' /\ acceptQ' = {}
         /\ \A d \in Clients : (Held(d)' <=> Held(d)) /\ (Attached(d)' <=> Held(d))
         /\ \A d \in Clients : inbox'[d] = IF d \in acceptQ THEN <<>> ELSE inbox[d]
<1>1. PICK fd \in Fd : fd = fds[i]
  BY HandledEntry DEF HandleListener
<1>2. /\ NetTypeOK /\ OneServerEnd /\ files[fd] = "listener" /\ files' = [files EXCEPT ![fd] = "free"]
      /\ acceptQ' = {} /\ UNCHANGED <<peer, outbox>>
      /\ inbox' = [c \in Clients |-> IF c \in acceptQ THEN <<>> ELSE inbox[c]]
  BY <1>1 DEF HandleListener, Drop, IInv, SlotsOpen, TypeOK, Conn
<1>3. files'[fd] = "free" /\ \A g \in Fd : g /= fd => files'[g] = files[g]
  BY <1>2 DEF NetTypeOK
<1>4. \A d \in Clients : Held(d)' <=> Held(d)
  BY <1>2, <1>3 DEF Held
<1>5. NetTypeOK'
  BY <1>2, EmptySeq DEF NetTypeOK
<1>6. OneServerEnd'
  BY <1>2, <1>3, EndsShrink DEF NetTypeOK
<1> QED
  BY <1>2, <1>4, <1>5, <1>6 DEF Attached

---------------------------------------------------------------------------
\* An answer is a record of its four fields, and if the path had come it is
\* the answer to the request at the head of the queue.
LEMMA AnswerFits ==
  ASSUME IInv, HandleRequest, NEW c \in Clients, c = Conn(i)
  PROVE  response' \in Replies /\ Fits(response', Head(inbox[c]))
<1>1. PICK cut \in Cuts : \E r \in Route(Parse(Head(inbox[c]), cut)) :
        response' = Answer(to_string(r), cut)
  BY DEF HandleRequest
<1>2. PICK r \in Route(Parse(Head(inbox[c]), cut)) :
        response' = Answer(to_string(r), cut)
  BY <1>1
<1>3. PICK path : path = Parse(Head(inbox[c]), cut).path
  OBVIOUS
<1>4. cut /= "path" => path = Head(inbox[c]).path
  BY <1>3 DEF Parse
<1>5. /\ r = [status |-> r.status, body |-> r.body]
      /\ r.status \in {200, 404} /\ r.body \in {"none", "page", "other"}
      /\ path /= "cut" => /\ r.status = IF path = "page" THEN 200 ELSE 404
                          /\ r.body \in {"none", IF path = "page" THEN "page" ELSE "other"}
  <2>1. PICK f \in BOOLEAN, b \in {"none", IF path = "page" THEN "page" ELSE "other"} :
          /\ r = [status |-> IF f THEN 200 ELSE 404, body |-> b]
          /\ path /= "cut" => (f <=> path = "page")
    <3>1. PICK parsed : parsed = Parse(Head(inbox[c]), cut)
      OBVIOUS
    <3>2. path = parsed.path /\ r \in Route(parsed)
      BY <1>2, <1>3, <3>1
    <3>3. PICK f \in IF path = "cut" THEN BOOLEAN ELSE {path = "page"},
               b \in {"none", IF path = "page" THEN "page" ELSE "other"} :
            r = Response(IF f THEN 200 ELSE 404, b)
      BY <3>2 DEF Route
    <3>4. f \in BOOLEAN /\ (path /= "cut" => (f <=> path = "page"))
      BY <3>3
    <3> QED
      BY <3>3, <3>4 DEF Response
  <2>2. r.status = (IF f THEN 200 ELSE 404) /\ r.body = b /\ r = [status |-> r.status, body |-> r.body]
    BY <2>1
  <2>3. b \in {"none", "page", "other"}
    BY <2>1
  <2>4. path /= "cut" => r.status = IF path = "page" THEN 200 ELSE 404
    BY <2>1, <2>2
  <2>5. r.status \in {200, 404}
    BY <2>2
  <2> QED
    BY <2>1, <2>2, <2>3, <2>4, <2>5
<1>6. PICK l \in 0..2 : to_string(r) = [status |-> r.status, body |-> r.body, lengths |-> l]
  BY DEF to_string
<1>7. response' = [status |-> r.status, body |-> r.body, lengths |-> l, complete |-> cut /= "path"]
  BY <1>2, <1>6 DEF Answer
<1>8. Head(inbox[c]).path /= "cut"
  <2>1. Head(inbox[c]) \in Messages
    BY TailQueue DEF HandleRequest, IInv, SlotsOpen, TypeOK
  <2> QED
    BY <2>1 DEF IsRequest, Paths
<1> QED
  BY <1>4, <1>5, <1>7, <1>8 DEF Replies, Fits

---------------------------------------------------------------------------
\* Type correctness is kept by every step: the sockets and the clients,
LEMMA ServerStepType ==
  ASSUME IInv, ServerStep
  PROVE  NetTypeOK' /\ OneServerEnd' /\ UNCHANGED <<client, asked>>
<1>1. NetTypeOK' /\ OneServerEnd'
  BY ServerStepSockets, SocketStepSound, ListenerCloses DEF IInv, SlotsOpen, TypeOK
<1>2. CASE Poll
  BY <1>1, <1>2, Zenon DEF Poll, clientVars
<1> QED
  BY <1>1, <1>2 DEF ServerStep, PollFails, EndScan, Accept, AcceptFails, IgnoreReadable,
     HandleListener, HandleEnd, HandleRequest, HandleThrows, Respond, clientVars

\* A step of a client keeps the types and leaves the server alone.
LEMMA ClientStepType ==
  ASSUME IInv, ClientStep
  PROVE  TypeOK' /\ OneServerEnd' /\ files' = files /\ UNCHANGED serverVars
<1>1. /\ TypeOK /\ NetTypeOK /\ OneServerEnd /\ NoReply \in Replies
  BY DEF IInv, SlotsOpen, TypeOK, NoReply, Replies
<1>2. PICK c \in Clients : \/ Connect(c) \/ RecvResponse(c) \/ Leave(c)
                          \/ \E m \in Messages : SendRequest(c, m)
  BY DEF ClientStep
<1>3. files' = files /\ UNCHANGED serverVars
  BY <1>2 DEF Connect, RecvResponse, Leave, SendRequest
<1>4. acceptQ' = acceptQ \/ (client[c] = "off" /\ acceptQ' = acceptQ \cup {c})
  BY <1>2 DEF Connect, RecvResponse, Leave, SendRequest
<1>5. client' \in [Clients -> {"off", "ready", "waiting", "done"}]
  BY <1>1, <1>2 DEF TypeOK, Connect, RecvResponse, Leave, SendRequest
<1>6. asked' \in [Clients -> Messages \cup {NoRequest}] /\ reply' \in [Clients -> Replies]
  BY <1>1, <1>2 DEF TypeOK, Connect, RecvResponse, Leave, SendRequest, Forget
<1>7. peer' \in [Clients -> PeerState] /\ outbox' \in [Clients -> Nat]
  <2>1. CASE RecvResponse(c)
    BY <1>1, <2>1 DEF NetTypeOK, RecvResponse
  <2>2. CASE \E m \in Messages : SendRequest(c, m)
    <3>1. UNCHANGED <<peer, outbox>>
      BY <2>2 DEF SendRequest
    <3> QED
      BY <1>1, <3>1 DEF NetTypeOK
  <2>3. CASE Connect(c)
    BY <1>1, <2>3 DEF NetTypeOK, PeerState, Connect
  <2>4. CASE Leave(c)
    BY <1>1, <2>4 DEF NetTypeOK, PeerState, Leave
  <2> QED
    BY <1>2, <2>1, <2>3, <2>4, <2>2
<1>8. inbox' \in [Clients -> Seq(Messages)]
  <2>1. ASSUME NEW m \in Messages, SendRequest(c, m) PROVE inbox' \in [Clients -> Seq(Messages)]
    BY <1>1, <2>1, AppendedQueue DEF SendRequest, NetTypeOK
  <2> QED
    BY <1>1, <1>2, <2>1 DEF NetTypeOK, Connect, RecvResponse, Leave
<1>9. NetTypeOK'
  BY <1>1, <1>3, <1>4, <1>7, <1>8 DEF NetTypeOK
<1>10. OneServerEnd'
  BY <1>1, <1>3, <1>4 DEF OneServerEnd, Held, IInv, ExchangesSound, Attached
<1> QED
  BY <1>1, <1>3, <1>5, <1>6, <1>9, <1>10 DEF TypeOK, serverVars

\* the entries,
LEMMA DropType ==
  ASSUME IInv, AtHandler \/ pc = "respond", Drop
  PROVE  /\ fds' \in [Slots -> Fd \cup {0}] /\ nfds' \in 1..MaxConnection
         /\ i' \in 0..MaxConnection /\ pc' = "scan" /\ i' = i + 1 /\ i' /= 0 /\ nfds' = nfds - 1
<1>1. /\ i \in Slots /\ i \in Nat /\ i < nfds /\ nfds > 1 /\ TypeOK
  BY HandledEntry DEF IInv, SlotsOpen
<1>2. nfds - 1 \in Slots /\ nfds - 1 \in 1..MaxConnection /\ i + 1 \in 0..MaxConnection /\ i + 1 /= 0
  BY <1>1 DEF TypeOK, Slots
<1> QED
  BY <1>1, <1>2 DEF Drop, TypeOK

\* and all of it.
LEMMA NextType ==
  ASSUME IInv, [Next]_vars
  PROVE  TypeOK' /\ OneServerEnd'
<1>1. TypeOK /\ OneServerEnd
  BY DEF IInv, SlotsOpen
<1>2. ASSUME ServerStep PROVE /\ NetTypeOK' /\ OneServerEnd'
                              /\ client' = client /\ asked' = asked
  BY <1>2, ServerStepType
<1>3. CASE Poll
  <2>1. /\ revents' = [s \in Slots |-> IF s < nfds THEN Readable(fds[s]) ELSE revents[s]]
        /\ pc' = "scan" /\ i' = 0 /\ UNCHANGED <<fds, nfds, response, reply>>
    BY <1>3, Zenon DEF Poll, clientVars
  <2>2. \A s \in Slots : Readable(fds[s]) \in BOOLEAN /\ revents[s] \in BOOLEAN
    BY <1>1, Zenon DEF Readable, TypeOK
  <2>3. revents' \in [Slots -> BOOLEAN]
    BY <2>1, <2>2, Zenon
  <2> QED
    BY <1>1, <1>2, <1>3, <2>1, <2>3 DEF ServerStep, TypeOK
<1>4. CASE PollFails \/ EndScan \/ HandleThrows
  BY <1>1, <1>2, <1>4 DEF ServerStep, PollFails, EndScan, HandleThrows, TypeOK, clientVars
<1>5. CASE AcceptFails \/ IgnoreReadable
  BY <1>1, <1>2, <1>5 DEF ServerStep, AcceptFails, IgnoreReadable, AtListener, TypeOK, clientVars
<1>6. CASE Accept
  <2>1. PICK fd \in Fd : StoreConnection(fd)
    BY <1>6 DEF Accept
  <2>2. fds' \in [Slots -> Fd \cup {0}] /\ nfds' \in 1..MaxConnection
    BY <1>1, <2>1 DEF StoreConnection, TypeOK
  <2>3. i' \in 0..MaxConnection /\ UNCHANGED <<pc, revents, response, reply>>
    BY <1>1, <1>6 DEF Accept, AtListener, TypeOK, clientVars
  <2> QED
    BY <1>1, <1>2, <1>6, <2>2, <2>3 DEF ServerStep, TypeOK
<1>7. CASE HandleListener \/ HandleEnd
  <2>1. AtHandler /\ Drop /\ UNCHANGED <<revents, response, reply>>
    BY <1>7 DEF HandleListener, HandleEnd, clientVars
  <2> QED
    BY <1>1, <1>2, <1>7, <2>1, DropType DEF ServerStep, TypeOK
<1>8. CASE HandleRequest
  <2>1. response' \in Replies
    BY <1>8, AnswerFits DEF HandleRequest
  <2> QED
    BY <1>1, <1>2, <1>8, <2>1 DEF ServerStep, HandleRequest, TypeOK, clientVars
<1>9. CASE Respond
  <2>1. /\ pc = "respond" /\ Drop /\ revents' = revents /\ response' = NoReply
        /\ reply' = reply \/ Record(Conn(i))
    BY <1>9 DEF Respond
  <2>2. reply' \in [Clients -> Replies] /\ NoReply \in Replies
    BY <1>1, <2>1 DEF TypeOK, Record, NoReply, Replies
  <2> QED
    BY <1>1, <1>2, <1>9, <2>1, <2>2, DropType DEF ServerStep, TypeOK
<1>10. CASE ClientStep
  BY <1>10, ClientStepType
<1>11. CASE UNCHANGED vars
  BY <1>1, <1>11 DEF vars, netVars, clientVars, serverVars, TypeOK, NetTypeOK, OneServerEnd, Held
<1> QED
  BY <1>2, <1>3, <1>4, <1>5, <1>6, <1>7, <1>8, <1>9, <1>10, <1>11 DEF Next, ServerStep

---------------------------------------------------------------------------
\* Dropping entry i frees its descriptor only, and leaves each of the others in
\* one entry.
LEMMA DropEntries ==
  ASSUME IInv, AtHandler \/ pc = "respond", Drop
  PROVE  /\ \A t \in Monitored' : fds'[t] \in Fd /\ files'[fds'[t]] /= "free"
         /\ \A s, t \in Monitored' : s /= t => fds'[s] /= fds'[t]
         /\ \A s \in Monitored : s /= i =>
              \E t \in Monitored' : fds'[t] = fds[s] /\ files'[fds[s]] = files[fds[s]]
<1>1. /\ Alive /\ i \in Monitored /\ i \in Slots /\ i \in Nat /\ i < nfds /\ fds[i] \in Fd
      /\ nfds \in Nat /\ nfds <= MaxConnection /\ nfds > 1
      /\ fds \in [Slots -> Fd \cup {0}] /\ files \in [Fd -> Clients \cup {"free", "listener"}]
  BY HandledEntry DEF IInv, SlotsOpen, TypeOK, NetTypeOK
<1>2. PICK n : n = nfds - 1
  OBVIOUS
<1>3. n \in Nat /\ n \in Slots /\ i <= n /\ nfds' = n
  BY <1>1, <1>2 DEF Slots, Drop
<1>4. Monitored = 0..n /\ Monitored' = 0..(n - 1)
  BY <1>1, <1>2, <1>3 DEF Monitored
<1>5. n \in Monitored /\ Monitored' = Monitored \ {n} /\ Monitored \subseteq Slots
  BY <1>1, <1>2, <1>3, <1>4 DEF Slots
<1>6. fds'[i] = fds[n] /\ \A s \in Slots : s /= i => fds'[s] = fds[s]
  BY <1>1, <1>2 DEF Drop
<1>7. files'[fds[i]] = "free" /\ \A g \in Fd : g /= fds[i] => files'[g] = files[g]
  BY <1>1 DEF Drop
<1>8. /\ \A s \in Monitored : fds[s] \in Fd /\ files[fds[s]] /= "free"
      /\ \A s, t \in Monitored : s /= t => fds[s] /= fds[t]
  BY <1>1 DEF IInv, SlotsOpen, Conn
<1>9. \A s \in Monitored : s /= i => files'[fds[s]] = files[fds[s]]
  BY <1>1, <1>7, <1>8
<1>10. \A t \in Monitored' : t /= i => fds'[t] = fds[t]
  BY <1>5, <1>6
<1>11. \A t \in Monitored' : fds'[t] \in Fd /\ files'[fds'[t]] /= "free"
  BY <1>5, <1>6, <1>8, <1>9, <1>10
<1>12. \A s, t \in Monitored' : s /= t => fds'[s] /= fds'[t]
  BY <1>5, <1>6, <1>8, <1>10
<1>13. ASSUME NEW s \in Monitored, s /= i
       PROVE  \E t \in Monitored' : fds'[t] = fds[s] /\ files'[fds[s]] = files[fds[s]]
  <2>1. CASE s = n
    BY <1>1, <1>5, <1>6, <1>9, <1>13, <2>1
  <2>2. CASE s /= n
    BY <1>5, <1>9, <1>10, <1>13, <2>2
  <2> QED
    BY <2>1, <2>2
<1> QED
  BY <1>11, <1>12, <1>13

\* accept() appends an entry for a descriptor that no other entry has.
LEMMA AcceptEntries ==
  ASSUME IInv, Accept
  PROVE  /\ \A t \in Monitored' : fds'[t] \in Fd /\ files'[fds'[t]] /= "free"
         /\ \A s, t \in Monitored' : s /= t => fds'[s] /= fds'[t]
         /\ \A s \in Monitored : s \in Monitored' /\ fds'[s] = fds[s] /\ files'[fds[s]] = files[fds[s]]
         /\ \A c \in Clients : ~Held(c) /\ Held(c)' =>
              nfds = MaxConnection \/ \E t \in Monitored' : files'[fds'[t]] = c
         /\ \A c \in Clients : Attached(c)' <=> Attached(c)
<1>1. PICK c \in acceptQ, fd \in Fd :
        /\ files[fd] = "free" /\ files' = [files EXCEPT ![fd] = c] /\ acceptQ' = acceptQ \ {c}
        /\ StoreConnection(fd)
  BY DEF Accept, LowestFree
<1>2. /\ Alive /\ NetTypeOK /\ OneServerEnd /\ c \in Clients /\ nfds \in Nat /\ nfds >= 1 /\ nfds <= MaxConnection
      /\ fds \in [Slots -> Fd \cup {0}] /\ files \in [Fd -> Clients \cup {"free", "listener"}]
  BY DEF Accept, AtListener, Alive, IInv, SlotsOpen, TypeOK, NetTypeOK
<1>3. /\ \A s \in Monitored : fds[s] \in Fd /\ files[fds[s]] /= "free"
      /\ \A s, t \in Monitored : s /= t => fds[s] /= fds[t]
  BY <1>2 DEF IInv, SlotsOpen, Conn
<1>4. files'[fd] = c /\ \A g \in Fd : g /= fd => files'[g] = files[g]
  BY <1>1, <1>2
<1>5. \A s \in Monitored : fds[s] /= fd /\ files'[fds[s]] = files[fds[s]]
  BY <1>1, <1>3, <1>4
<1>6. /\ \A d \in Clients : Attached(d)' <=> Attached(d)
      /\ \A d \in Clients : Held(d)' <=> (Held(d) \/ d = c)
  BY <1>1, <1>2, AcceptEnds
<1>7. CASE nfds = MaxConnection
  <2>1. UNCHANGED <<fds, nfds>> /\ Monitored' = Monitored
    BY <1>1, <1>2, <1>7 DEF StoreConnection, Monitored
  <2> QED
    BY <1>3, <1>5, <1>6, <1>7, <2>1
<1>8. CASE nfds < MaxConnection
  <2>1. fds' = [fds EXCEPT ![nfds] = fd] /\ nfds' = nfds + 1 /\ nfds \in Slots
    BY <1>1, <1>2, <1>8 DEF StoreConnection, Slots
  <2>2. Monitored' = Monitored \cup {nfds} /\ nfds \notin Monitored /\ Monitored \subseteq Slots
    BY <1>2, <2>1 DEF Monitored, Slots
  <2>3. fds'[nfds] = fd /\ \A s \in Monitored : fds'[s] = fds[s]
    BY <1>2, <2>1, <2>2
  <2>4. \A t \in Monitored' : fds'[t] \in Fd /\ files'[fds'[t]] /= "free"
    BY <1>2, <1>3, <1>4, <1>5, <2>2, <2>3
  <2>5. \A s, t \in Monitored' : s /= t => fds'[s] /= fds'[t]
    BY <1>3, <1>5, <2>2, <2>3
  <2> QED
    BY <1>4, <1>5, <1>6, <2>2, <2>3, <2>4, <2>5
<1> QED
  BY <1>2, <1>7, <1>8

\* The entries are open, and the one that is answered is among them, after
\* every step.
LEMMA NextSlots ==
  ASSUME IInv, [Next]_vars
  PROVE  SlotsOpen' /\ ServedEntry' /\ ScanSound'
<1> DEFINE Goal == SlotsOpen' /\ ServedEntry' /\ ScanSound'
<1>1. TypeOK' /\ TypeOK /\ SlotsOpen /\ ServedEntry /\ ScanSound
  BY NextType DEF IInv, SlotsOpen
<1>2. ASSUME \A t \in Monitored' : fds'[t] \in Fd /\ files'[fds'[t]] /= "free",
             \A s, t \in Monitored' : s /= t => fds'[s] /= fds'[t],
             pc' /= "respond", pc' = "scan" => i' /= 0
      PROVE  Goal
  BY <1>1, <1>2 DEF SlotsOpen, ServedEntry, ScanSound, Conn
<1>3. ASSUME Alive, UNCHANGED <<files, fds, nfds>>,
             pc' = "respond" => i' \in Monitored /\ Conn(i)' \in Clients /\ nfds > 1,
             pc' = "scan" /\ i' = 0 => \E s \in Monitored : revents'[s]
      PROVE  Goal
  <2>1. Monitored' = Monitored /\ \A s \in Monitored : Conn(s)' = Conn(s)
    BY <1>3 DEF Monitored, Conn
  <2>2. SlotsOpen'
    BY <1>1, <1>3, <2>1 DEF SlotsOpen
  <2>3. ServedEntry'
    BY <1>3, <2>1 DEF ServedEntry
  <2>4. ScanSound'
    BY <1>3, <2>1 DEF ScanSound
  <2> QED
    BY <2>2, <2>3, <2>4
<1>4. ASSUME UNCHANGED serverVars, files' = files PROVE Goal
  <2>1. Monitored' = Monitored /\ UNCHANGED <<pc, i, files, fds, nfds, revents>>
    BY <1>4 DEF serverVars, Monitored
  <2>2. SlotsOpen'
    BY <1>1, <2>1 DEF SlotsOpen, Alive, Conn
  <2>3. ServedEntry' /\ ScanSound'
    BY <1>1, <2>1 DEF ServedEntry, ScanSound, Conn
  <2> QED
    BY <2>2, <2>3
<1>5. CASE Poll
  <2>1. /\ revents' = [s \in Slots |-> IF s < nfds THEN Readable(fds[s]) ELSE revents[s]]
        /\ \E s \in Monitored : Readable(fds[s])
        /\ pc = "poll" /\ pc' = "scan" /\ UNCHANGED <<files, fds, nfds>>
    BY <1>5, Zenon DEF Poll, netVars
  <2>2. \A s \in Monitored : s \in Slots /\ s < nfds
    BY <1>1 DEF TypeOK, Monitored, Slots
  <2>3. \E s \in Monitored : revents'[s]
    BY <2>1, <2>2, Zenon
  <2> QED
    BY <1>3, <2>1, <2>3 DEF Alive
<1>6. CASE PollFails \/ HandleThrows
  BY <1>1, <1>6 DEF PollFails, HandleThrows, SlotsOpen, Alive, ServedEntry, ScanSound
<1>7. CASE EndScan
  BY <1>3, <1>7 DEF EndScan, Alive, netVars
<1>8. CASE AcceptFails \/ IgnoreReadable
  <2>1. i + 1 /= 0
    BY <1>1 DEF TypeOK
  <2> QED
    BY <1>3, <1>8, <2>1 DEF AcceptFails, IgnoreReadable, AtListener, Alive, netVars
<1>9. CASE Accept
  <2>1. pc' = "scan" /\ i' = i + 1 /\ i + 1 /= 0
    BY <1>1, <1>9 DEF Accept, AtListener, TypeOK
  <2> QED
    BY <1>2, <1>9, <2>1, AcceptEntries
<1>10. CASE HandleListener \/ HandleEnd \/ Respond
  <2>1. (AtHandler \/ pc = "respond") /\ Drop
    BY <1>10 DEF HandleListener, HandleEnd, Respond
  <2> QED
    BY <1>2, <2>1, DropEntries, DropType
<1>11. CASE HandleRequest
  <2>1. /\ AtHandler /\ pc = "scan" /\ pc' = "respond" /\ Conn(i) \in Clients
        /\ UNCHANGED <<files, fds, nfds, i>>
    BY <1>11 DEF HandleRequest, AtHandler
  <2>2. i \in Monitored /\ nfds > 1 /\ Conn(i)' \in Clients
    BY <2>1, HandledEntry DEF Conn
  <2> QED
    BY <1>3, <2>1, <2>2 DEF Alive
<1>12. CASE ClientStep
  BY <1>4, <1>12, ClientStepType
<1>13. CASE UNCHANGED vars
  BY <1>4, <1>13 DEF vars, netVars
<1> QED
  BY <1>5, <1>6, <1>7, <1>8, <1>9, <1>10, <1>11, <1>12, <1>13 DEF Next, ServerStep

---------------------------------------------------------------------------
\* What IInv says of the exchange on one connection.
Exchange(c) ==
  /\ client[c] = "off" => ~Attached(c) /\ outbox[c] = 0
  /\ client[c] \in {"off", "ready"} => inbox[c] = <<>> /\ ~Serving(c)
  /\ client[c] /= "waiting" => reply[c] = NoReply
  /\ Attached(c) => outbox[c] = 0
  /\ inbox[c] /= <<>> => Attached(c) /\ Len(inbox[c]) = 1 /\ ~Serving(c)
  /\ inbox[c] /= <<>> /\ client[c] = "waiting" => Head(inbox[c]) = asked[c]
  /\ Serving(c) /\ client[c] = "waiting" => Fits(response, asked[c])
  /\ outbox[c] <= 1
  /\ reply[c] /= NoReply => ~Attached(c)
  /\ Fits(reply[c], asked[c])

\* What the invariant says of the exchange of one client.
LEMMA ExchangeNow ==
  ASSUME IInv, NEW c \in Clients
  PROVE  /\ Exchange(c) /\ NetTypeOK /\ outbox[c] \in Nat
         /\ client \in [Clients -> {"off", "ready", "waiting", "done"}]
         /\ asked \in [Clients -> Messages \cup {NoRequest}] /\ reply \in [Clients -> Replies]
         /\ peer \in [Clients -> PeerState] /\ outbox \in [Clients -> Nat]
         /\ inbox \in [Clients -> Seq(Messages)]
BY DEF IInv, SlotsOpen, TypeOK, NetTypeOK, ExchangesSound, OneReplyThenClosed, ReplyFitsRequest, Exchange

\* A step that is about other connections,
LEMMA ExchangeKept ==
  ASSUME NEW c \in Clients, Exchange(c),
         client'[c] = client[c], asked'[c] = asked[c], reply'[c] = reply[c],
         outbox'[c] = outbox[c], inbox'[c] = inbox[c], Attached(c)' <=> Attached(c),
         Serving(c)' => Serving(c) /\ response' = response
  PROVE  Exchange(c)'
BY DEF Exchange, Fits

\* and one that closes this one.
LEMMA ExchangeClosed ==
  ASSUME NEW c \in Clients, Exchange(c),
         client'[c] = client[c], asked'[c] = asked[c], reply'[c] = reply[c],
         outbox'[c] = outbox[c], inbox'[c] = <<>>, ~Attached(c)', ~Serving(c)'
  PROVE  Exchange(c)'
BY DEF Exchange, Fits

\* Reading the request takes it into the server's hands.
LEMMA RequestExchange ==
  ASSUME IInv, HandleRequest, NEW c \in Clients
  PROVE  Exchange(c)'
<1>1. PICK d : d = Conn(i)
  OBVIOUS
<1>2. /\ d \in Clients /\ inbox[d] /= <<>> /\ inbox' = [inbox EXCEPT ![d] = Tail(@)]
      /\ pc = "scan" /\ pc' = "respond" /\ UNCHANGED <<files, fds, i, client, asked, reply, outbox, acceptQ>>
  BY <1>1 DEF HandleRequest, AtHandler, clientVars
<1>3. Serving(c)' <=> c = d
  BY <1>1, <1>2 DEF Serving, Conn
<1>4. Attached(c)' <=> Attached(c)
  BY <1>2 DEF Attached, Held
<1>5. CASE c /= d
  BY <1>2, <1>3, <1>4, <1>5, ExchangeNow, ExchangeKept
<1>6. CASE c = d
  <2>1. Exchange(c) /\ NetTypeOK
    BY ExchangeNow
  <2>2. Len(inbox[c]) = 1 /\ Attached(c) /\ client[c] \notin {"off", "ready"} /\ outbox[c] <= 1
    BY <1>2, <1>6, <2>1 DEF Exchange
  <2>3. inbox'[c] = <<>>
    <3>1. Tail(inbox[c]) \in Seq(Messages) /\ Len(Tail(inbox[c])) = 0
      BY <1>2, <1>6, <2>1, <2>2, TailQueue
    <3> QED
      BY <1>2, <1>6, <2>1, <3>1, EmptySeq DEF NetTypeOK
  <2>4. Fits(response', Head(inbox[c]))
    BY <1>1, <1>6, AnswerFits
  <2>5. client[c] = "waiting" => Fits(response', asked[c])
    BY <1>2, <1>6, <2>1, <2>4 DEF Exchange
  <2> QED
    BY <1>2, <1>4, <2>1, <2>2, <2>3, <2>5 DEF Exchange, Fits
<1> QED
  BY <1>5, <1>6

\* The answer closes the connection, and the client keeps it if it waits.
LEMMA RespondExchange ==
  ASSUME IInv, Respond, NEW c \in Clients
  PROVE  Exchange(c)'
<1>1. PICK d : d = Conn(i)
  OBVIOUS
<1>2. PICK fd \in Fd : fd = fds[i]
  BY HandledEntry DEF Respond
<1>3. /\ pc = "respond" /\ pc' = "scan" /\ files[fd] = d /\ d \in Clients /\ CloseFd(fd)
      /\ UNCHANGED <<client, asked, acceptQ>>
  BY <1>1, <1>2, HandledEntry DEF Respond, Drop, CloseFd, Conn
<1>4. /\ SendOk(d) \/ SendFails(d)
      /\ Record(d) \/ UNCHANGED reply
  BY <1>1 DEF Respond
<1>5. ~Serving(c)'
  BY <1>3 DEF Serving
<1>6. NetTypeOK /\ OneServerEnd /\ Exchange(c)
  BY ExchangeNow DEF IInv
<1>7. /\ inbox'[d] = <<>> /\ ~Attached(d)'
      /\ \A e \in Clients : e /= d => inbox'[e] = inbox[e] /\ (Attached(e)' <=> Attached(e))
  BY <1>3, <1>6, CloseFdEnds
<1>8. /\ outbox'[d] \in {outbox[d], outbox[d] + 1}
      /\ \A e \in Clients : e /= d => outbox'[e] = outbox[e]
  BY <1>3, <1>4, <1>6, SendStreams
<1>9. CASE c /= d
  <2>1. reply'[c] = reply[c]
    BY <1>3, <1>4, <1>9, ExchangeNow DEF Record
  <2> QED
    BY <1>3, <1>5, <1>6, <1>7, <1>8, <1>9, <2>1, ExchangeKept
<1>10. CASE c = d
  <2>1. Serving(c) /\ Attached(c)
    BY <1>1, <1>2, <1>3, <1>10 DEF Serving, Attached, Held
  <2>2. outbox[c] = 0 /\ client[c] \notin {"off", "ready"} /\ reply[c] = NoReply
    BY <1>6, <2>1 DEF Exchange
  <2>3. outbox'[c] \in {0, 1}
    BY <1>8, <1>10, <2>2
  <2>4. reply'[c] = NoReply \/ (client[c] = "waiting" /\ reply'[c] = response)
    BY <1>3, <1>4, <1>10, <2>2, ExchangeNow DEF Record
  <2>5. Fits(NoReply, asked[c])
    BY <1>6, <2>2 DEF Exchange
  <2>6. client[c] = "waiting" => Fits(response, asked[c])
    BY <1>6, <2>1 DEF Exchange
  <2> QED
    BY <1>3, <1>5, <1>7, <1>10, <2>2, <2>3, <2>4, <2>5, <2>6 DEF Exchange, Fits
<1> QED
  BY <1>9, <1>10

\* The exchange on a connection is sound after every step of the server
LEMMA ServerExchange ==
  ASSUME IInv, ServerStep, NEW c \in Clients
  PROVE  Exchange(c)'
<1>1. UNCHANGED <<client, asked>> /\ Exchange(c)
  BY ServerStepType, ExchangeNow
<1>2. CASE Poll \/ EndScan \/ AcceptFails \/ IgnoreReadable
  <2>1. UNCHANGED <<netVars, clientVars>> /\ pc' /= "respond"
    <3>1. CASE Poll
      BY <3>1, Zenon DEF Poll
    <3> QED
      BY <1>2, <3>1 DEF EndScan, AcceptFails, IgnoreReadable, AtListener
  <2>2. Attached(c)' <=> Attached(c)
    BY <2>1 DEF netVars, Attached, Held
  <2> QED
    BY <1>1, <2>1, <2>2, ExchangeKept DEF netVars, clientVars, Serving
<1>3. CASE Accept
  <2>1. UNCHANGED <<inbox, outbox, reply>> /\ pc' /= "respond" /\ (Attached(c)' <=> Attached(c))
    BY <1>3, AcceptEntries DEF Accept, AtListener, clientVars
  <2> QED
    BY <1>1, <2>1, ExchangeKept DEF Serving
<1>4. CASE PollFails \/ HandleThrows
  <2>1. CloseAll /\ UNCHANGED <<outbox, reply>> /\ pc' = "exited"
    BY <1>4 DEF PollFails, HandleThrows, clientVars
  <2>2. inbox'[c] = <<>> /\ ~Attached(c)'
    BY <2>1, CloseAllEnds
  <2> QED
    BY <1>1, <2>1, <2>2, ExchangeClosed DEF Serving
<1>5. CASE HandleListener
  <2>1. UNCHANGED <<outbox, reply>> /\ pc' = "scan"
    BY <1>5 DEF HandleListener, Drop, clientVars
  <2>2. /\ Attached(c)' <=> Held(c)
        /\ inbox'[c] = IF c \in acceptQ THEN <<>> ELSE inbox[c]
        /\ c \in acceptQ => ~Held(c)
    BY <1>5, ListenerCloses DEF IInv, OneServerEnd
  <2>3. CASE c \in acceptQ
    BY <1>1, <2>1, <2>2, <2>3, ExchangeClosed DEF Serving
  <2>4. CASE c \notin acceptQ
    BY <1>1, <2>1, <2>2, <2>4, ExchangeKept DEF Serving, Attached
  <2> QED
    BY <2>3, <2>4
<1>6. CASE HandleEnd
  <2>1. PICK fd \in Fd : fd = fds[i]
    BY <1>6, HandledEntry DEF HandleEnd
  <2>2. /\ CloseFd(fd) /\ UNCHANGED <<acceptQ, outbox, reply>> /\ pc' = "scan" /\ files[fd] \in Clients
    BY <1>6, <2>1, HandleEndCloses DEF HandleEnd, Drop, Conn, clientVars
  <2>3. NetTypeOK /\ OneServerEnd
    BY ExchangeNow DEF IInv
  <2>4. PICK d \in Clients : d = files[fd]
    BY <2>2
  <2>5. /\ inbox'[d] = <<>> /\ ~Attached(d)'
        /\ \A e \in Clients : e /= d => inbox'[e] = inbox[e] /\ (Attached(e)' <=> Attached(e))
    BY <2>2, <2>3, <2>4, CloseFdEnds
  <2>6. CASE c = d
    BY <1>1, <2>2, <2>5, <2>6, ExchangeClosed DEF Serving
  <2>7. CASE c /= d
    BY <1>1, <2>2, <2>5, <2>7, ExchangeKept DEF Serving
  <2> QED
    BY <2>6, <2>7
<1>7. CASE HandleRequest
  BY <1>7, RequestExchange
<1>8. CASE Respond
  BY <1>8, RespondExchange
<1> QED
  BY <1>2, <1>3, <1>4, <1>5, <1>6, <1>7, <1>8 DEF ServerStep

\* and of the clients.
LEMMA ClientExchange ==
  ASSUME IInv, ClientStep, NEW c \in Clients
  PROVE  Exchange(c)'
<1>1. /\ Exchange(c) /\ NetTypeOK /\ outbox[c] \in Nat
      /\ client \in [Clients -> {"off", "ready", "waiting", "done"}]
      /\ asked \in [Clients -> Messages \cup {NoRequest}] /\ reply \in [Clients -> Replies]
      /\ peer \in [Clients -> PeerState] /\ outbox \in [Clients -> Nat]
      /\ inbox \in [Clients -> Seq(Messages)]
  BY ExchangeNow
<1>2. PICK d \in Clients : \/ Connect(d) \/ RecvResponse(d) \/ Leave(d)
                          \/ \E m \in Messages : SendRequest(d, m)
  BY DEF ClientStep
<1>3. files' = files /\ UNCHANGED <<pc, i, fds, response>> /\ (Held(c)' <=> Held(c))
  BY ClientStepType DEF serverVars, Held
<1>4. (Serving(c)' <=> Serving(c)) /\ response' = response
  BY <1>3 DEF Serving, Conn
<1>5. CASE c /= d
  <2>1. /\ client'[c] = client[c] /\ asked'[c] = asked[c] /\ reply'[c] = reply[c]
        /\ outbox'[c] = outbox[c] /\ inbox'[c] = inbox[c] /\ (c \in acceptQ' <=> c \in acceptQ)
    BY <1>1, <1>2, <1>5 DEF Connect, RecvResponse, Leave, SendRequest, Forget
  <2> QED
    BY <1>1, <1>3, <1>4, <2>1, ExchangeKept DEF Attached
<1>6. Fits(NoReply, NoRequest)
  BY DEF Fits, NoReply
<1>7. CASE Connect(c)
  <2>1. client[c] = "off" /\ client'[c] = "ready" /\ UNCHANGED <<inbox, outbox, asked, reply>>
    BY <1>1, <1>7 DEF Connect
  <2> QED
    BY <1>1, <1>4, <2>1 DEF Exchange
<1>8. CASE RecvResponse(c)
  <2>1. /\ ~Attached(c) /\ client'[c] = "done" /\ outbox'[c] = 0 /\ reply'[c] = NoReply /\ asked'[c] = NoRequest
        /\ UNCHANGED <<inbox, acceptQ>>
    BY <1>1, <1>8 DEF RecvResponse, Forget
  <2>2. ~Attached(c)'
    BY <1>3, <2>1 DEF Attached
  <2> QED
    BY <1>1, <1>4, <1>6, <2>1, <2>2 DEF Exchange
<1>9. CASE Leave(c)
  <2>1. /\ client'[c] = "done" /\ client[c] /= "off" /\ reply'[c] = NoReply /\ asked'[c] = NoRequest
        /\ UNCHANGED <<inbox, acceptQ, outbox>>
    BY <1>1, <1>9 DEF Leave, Forget
  <2>2. Attached(c)' <=> Attached(c)
    BY <1>3, <2>1 DEF Attached
  <2> QED
    BY <1>1, <1>4, <1>6, <2>1, <2>2 DEF Exchange
<1>10. ASSUME NEW m \in Messages, SendRequest(c, m) PROVE Exchange(c)'
  <2>1. /\ client[c] = "ready" /\ client'[c] = "waiting" /\ asked'[c] = m
        /\ UNCHANGED <<acceptQ, outbox, reply>>
        /\ inbox'[c] = IF Attached(c) THEN Append(inbox[c], m) ELSE inbox[c]
    BY <1>1, <1>10 DEF SendRequest
  <2>2. Attached(c)' <=> Attached(c)
    BY <1>3, <2>1 DEF Attached
  <2>3. inbox[c] = <<>> /\ ~Serving(c) /\ reply[c] = NoReply /\ outbox[c] <= 1 /\ (Attached(c) => outbox[c] = 0)
    BY <1>1, <2>1 DEF Exchange
  <2>4. Len(Append(inbox[c], m)) = 1 /\ Head(Append(inbox[c], m)) = m
    BY <2>3
  <2>5. Fits(NoReply, m)
    BY DEF Fits, NoReply
  <2>6. inbox'[c] /= <<>> => Attached(c) /\ Len(inbox'[c]) = 1 /\ Head(inbox'[c]) = m
    BY <2>1, <2>3, <2>4
  <2> QED
    BY <1>4, <2>1, <2>2, <2>3, <2>5, <2>6 DEF Exchange
<1> QED
  BY <1>2, <1>5, <1>7, <1>8, <1>9, <1>10

\* The order of an exchange, and that its answer fits, are kept by every step.
LEMMA NextExchanges ==
  ASSUME IInv, [Next]_vars
  PROVE  OneReplyThenClosed' /\ ReplyFitsRequest' /\ ExchangesSound'
<1>1. ASSUME NEW c \in Clients PROVE Exchange(c)'
  <2>1. CASE UNCHANGED vars
    <3>1. Exchange(c)
      BY ExchangeNow
    <3>2. UNCHANGED <<client, asked, reply, outbox, inbox, files, acceptQ, pc, i, fds, response>>
      BY <2>1 DEF vars, netVars, clientVars, serverVars
    <3>3. (Attached(c)' <=> Attached(c)) /\ (Serving(c)' <=> Serving(c))
      BY <3>2 DEF Attached, Held, Serving, Conn
    <3> QED
      BY <3>1, <3>2, <3>3, ExchangeKept
  <2> QED
    BY <2>1, ServerExchange, ClientExchange DEF Next
<1> QED
  BY <1>1 DEF Exchange, OneReplyThenClosed, ReplyFitsRequest, ExchangesSound

---------------------------------------------------------------------------
\* A connection that an entry refers to stays in the entries until it is
\* closed, and accept() adds one for it while there is room.
Forgets(c) == Tracked(c) /\ pc' /= "exited" /\ ~Tracked(c)' /\ Held(c)'
Arrives(c) == ~Held(c) /\ Held(c)'

\* Drop closes the connection that it takes out, and moves the others.
LEMMA DropForgets ==
  ASSUME IInv, AtHandler \/ pc = "respond", Drop, NEW c \in Clients
  PROVE  ~Forgets(c) /\ ~Arrives(c)
<1>1. PICK fd \in Fd : fd = fds[i]
  BY HandledEntry
<1>2. /\ files' = [files EXCEPT ![fd] = "free"] /\ NetTypeOK /\ OneServerEnd /\ Alive
  BY <1>1, HandledEntry DEF Drop, IInv, SlotsOpen, TypeOK
<1>3. files'[fd] = "free" /\ \A g \in Fd : g /= fd => files'[g] = files[g]
  BY <1>2 DEF NetTypeOK
<1>4. ~Arrives(c)
  BY <1>3 DEF Arrives, Held
<1>5. CASE files[fd] = c
  <2>1. ~Held(c)'
    BY <1>2, <1>3, <1>5 DEF Held, OneServerEnd
  <2> QED
    BY <1>4, <2>1 DEF Forgets
<1>6. ASSUME files[fd] /= c, Tracked(c) PROVE Tracked(c)'
  <2>1. PICK s \in Monitored : Conn(s) = c /\ s /= i
    BY <1>1, <1>6 DEF Tracked, Conn
  <2>2. \E t \in Monitored' : files'[fds'[t]] = c
    BY <2>1, DropEntries DEF Conn
  <2> QED
    BY <2>2 DEF Tracked, Conn
<1> QED
  BY <1>4, <1>5, <1>6 DEF Forgets

\* No step takes a connection out of the entries without closing it.
LEMMA StepForgets ==
  ASSUME IInv, [Next]_vars, NEW c \in Clients
  PROVE  ~Forgets(c) /\ (Arrives(c) => Tracked(c)' \/ nfds = MaxConnection)
<1>1. ASSUME UNCHANGED <<files, fds, nfds>> PROVE ~Forgets(c) /\ ~Arrives(c)
  BY <1>1 DEF Forgets, Arrives, Tracked, Monitored, Conn, Held
<1>2. CASE Poll \/ EndScan \/ AcceptFails \/ IgnoreReadable \/ HandleRequest
  <2>1. UNCHANGED <<files, fds, nfds>>
    <3>1. CASE Poll
      BY <3>1, Zenon DEF Poll, netVars
    <3> QED
      BY <1>2, <3>1 DEF EndScan, AcceptFails, IgnoreReadable, HandleRequest, netVars
  <2> QED
    BY <1>1, <2>1
<1>3. CASE PollFails \/ HandleThrows
  <2>1. CloseAll /\ pc' = "exited"
    BY <1>3 DEF PollFails, HandleThrows
  <2> QED
    BY <2>1, CloseAllEnds DEF Forgets, Arrives
<1>4. CASE Accept
  BY <1>4, AcceptEntries DEF Forgets, Arrives, Tracked, Conn
<1>5. CASE HandleListener \/ HandleEnd \/ Respond
  <2>1. (AtHandler \/ pc = "respond") /\ Drop
    BY <1>5 DEF HandleListener, HandleEnd, Respond
  <2> QED
    BY <2>1, DropForgets
<1>6. CASE ClientStep
  BY <1>1, <1>6, ClientStepType DEF serverVars
<1>7. CASE UNCHANGED vars
  BY <1>1, <1>7 DEF vars, netVars, serverVars
<1> QED
  BY <1>2, <1>3, <1>4, <1>5, <1>6, <1>7 DEF Next, ServerStep

---------------------------------------------------------------------------
\* IInv is inductive, so it holds in every state of my_http_server, with any
\* number of clients, entries, descriptors and requests.
THEOREM Invariance == Spec => []IInv
<1>1. IInv /\ [Next]_vars => IInv'
  BY NextType, NextSlots, NextExchanges DEF IInv
<1> QED
  BY InitIInv, <1>1, PTL DEF Spec

\* poll() is never handed a closed descriptor nor one descriptor twice, and
\* never an empty array.
THEOREM SlotsAlwaysOpen == Spec => []SlotsOpen
<1>1. IInv => SlotsOpen
  BY DEF IInv
<1> QED
  BY Invariance, <1>1, PTL

\* A client is answered at most once, and the answer closes its connection.
THEOREM AnsweredOnce == Spec => []OneReplyThenClosed
<1>1. IInv => OneReplyThenClosed
  BY DEF IInv
<1> QED
  BY Invariance, <1>1, PTL

\* No client gets the page another one asked for, however the entries move
\* between the recv() of its request and the send() of the response.
THEOREM RepliesAlwaysFit == Spec => []ReplyFitsRequest
<1>1. IInv => ReplyFitsRequest
  BY DEF IInv
<1> QED
  BY Invariance, <1>1, PTL

\* No connection is forgotten: it leaves the entries by being closed, and what
\* accept() returns has an entry unless there is no room.
THEOREM NobodyIsForgotten == Spec => NeverForgets
<1>1. IInv /\ [Next]_vars =>
        [\A c \in Clients :
           /\ Tracked(c) => pc' = "exited" \/ Tracked(c)' \/ ~Held(c)'
           /\ ~Held(c) /\ Held(c)' => Tracked(c)' \/ nfds = MaxConnection]_vars
  BY StepForgets DEF Forgets, Arrives
<1> QED
  BY Invariance, <1>1, PTL DEF Spec, NeverForgets
=============================================================================
