-------------------------- MODULE PollServerProofs --------------------------
(* Proofs about PollServer for any number of clients, descriptors and      *)
(* entries of fds.  IInv is inductive; each of its parts has a lemma with  *)
(* one step per action.                                                    *)
EXTENDS PollServer, CommandClientProofs

USE SocketsAssumption, ClientAssumption, PollAssumption

\* What the proofs add to SlotsSound and OneExchange to make them inductive.

\* The slot in service is a monitored one.
ServiceInRange == pc = "reply" => i < nfds

\* The exchanges of the clients that are run_client.
ExchangesSound == \A c \in Clients \ Eager : ExchangeOf(c, Serving(c))

\* What is due to any client.
AnswersDue == \A c \in Clients : AnswerDue(c, Serving(c))

IInv ==
  /\ TypeOK
  /\ EntriesSound
  /\ ServiceInRange
  /\ OneServerEnd
  /\ StreamsSound
  /\ ExchangesSound
  /\ AnswersDue
  /\ SurvivesItsClients
---------------------------------------------------------------------------
\* Everything a case of a proof needs to know of the state before the step.
LEMMA SlotFacts ==
  ASSUME TypeOK, EntriesSound, pc \in {"poll", "accept", "scan", "reply"},
         NEW s \in Monitored
  PROVE  s \in Slots /\ fds[s] \in Fd /\ Conn(s) \in Clients
BY DEF TypeOK, EntriesSound, Monitored, Slots

\* The server starts in IInv.
LEMMA InitIInv == Init => IInv
<1> SUFFICES ASSUME Init PROVE IInv
  OBVIOUS
<1>1. /\ NetInit /\ ClientInit
      /\ pc = "poll" /\ nfds = 1 /\ i = 1 /\ request = ""
      /\ fds = [s \in Slots |-> IF s = 0 THEN SockServer ELSE 0]
  BY Zenon DEF Init
<1>2. revents \in [Slots -> BOOLEAN]
  BY Zenon DEF Init
<1>3. 0 \in Slots /\ SockServer \in Fd
  BY DEF Slots, Fd, SockServer
<1>4. TypeOK
  <2>1. NetTypeOK /\ ClientTypeOK
    BY <1>1, ClientInitSound
  <2>2. fds \in [Slots -> Fd \cup {0}]
    BY <1>1, <1>3
  <2>3. 1 \in 1..MaxConnection
    BY PollAssumption
  <2>4. request \in Commands
    BY <1>1 DEF Commands
  <2> QED
    BY <1>1, <1>2, <2>1, <2>2, <2>3, <2>4 DEF TypeOK
<1>5. EntriesSound
  <2>1. nfds = 1
    BY <1>1
  <2>2. Monitored = 1..0
    BY <2>1 DEF Monitored
  <2>3. fds[0] = SockServer /\ files[SockServer] = "listener"
    BY <1>1, <1>3 DEF NetInit
  <2>4. \A s \in 1..0 : FALSE
    OBVIOUS
  <2> QED
    BY <2>2, <2>3, <2>4 DEF EntriesSound
<1>6. OneServerEnd /\ StreamsSound
  BY <1>1, ClientInitSound
<1>7. ServiceInRange /\ SurvivesItsClients
  BY <1>1 DEF ServiceInRange, SurvivesItsClients
<1>8. ExchangesSound
  <2>1. \A c \in Clients : Serving(c) = FALSE
    BY <1>1 DEF Serving
  <2> QED
    BY <1>1, <2>1, ClientInitSound DEF ExchangesSound
<1>9. AnswersDue
  BY <1>1 DEF AnswersDue, AnswerDue, ClientInit
<1> QED
  BY <1>4, <1>5, <1>6, <1>7, <1>8, <1>9 DEF IInv

---------------------------------------------------------------------------
\* The two ways in which a client's entry goes away.
LEMMA DropType ==
  ASSUME TypeOK, EntriesSound, pc \in {"scan", "reply"}, i < nfds, Drop(i)
  PROVE  /\ files' \in [Fd -> Clients \cup {"free", "listener"}]
         /\ inbox' \in [Clients -> Seq(Messages)]
         /\ fds' \in [Slots -> Fd \cup {0}]
         /\ nfds' \in 1..MaxConnection
         /\ i' = i
<1>1. i \in Monitored /\ nfds >= 2
  BY DEF TypeOK, Monitored
<1>2. fds[i] \in Fd /\ Conn(i) \in Clients
  BY <1>1, SlotFacts
<1> QED
  BY <1>1, <1>2, EmptySeq DEF Drop, CloseFd, TypeOK, NetTypeOK, Slots, Conn

\* Type correctness is kept by every step.
LEMMA NextType ==
  ASSUME IInv, [Next]_vars
  PROVE  TypeOK'
<1> USE DEF IInv
<1> DEFINE Goal == TypeOK'
<1>1. CASE Poll
  <2>1. revents' = [s \in Slots |-> IF s < nfds THEN Readable(fds[s]) ELSE revents[s]]
    BY <1>1 DEF Poll
  <2>2. \A s \in Slots : (IF s < nfds THEN Readable(fds[s]) ELSE revents[s]) \in BOOLEAN
    BY Zenon DEF Readable, TypeOK
  <2>3. revents' \in [Slots -> BOOLEAN]
    BY <2>1, <2>2, Zenon
  <2> QED
    BY <1>1, <2>3 DEF Poll, TypeOK, NetTypeOK, ClientTypeOK, netVars, clientVars
<1>2. CASE PollFails
  BY <1>2, CloseAllEnds DEF PollFails, TypeOK, NetTypeOK, ClientTypeOK, clientVars
<1>3. CASE Accept
  <2>1. PICK c \in acceptQ, fd \in Fd :
          /\ LowestFree(fd)
          /\ files'   = [files EXCEPT ![fd] = c]
          /\ acceptQ' = acceptQ \ {c}
          /\ StoreConnection(fd)
    BY <1>3 DEF Accept
  <2>2. fds' \in [Slots -> Fd \cup {0}] /\ nfds' \in 1..MaxConnection
    BY <2>1 DEF StoreConnection, TypeOK, Slots
  <2> QED
    BY <1>3, <2>1, <2>2 DEF Accept, TypeOK, NetTypeOK, ClientTypeOK, clientVars
<1>4. CASE AcceptFails
  BY <1>4 DEF AcceptFails, TypeOK, NetTypeOK, ClientTypeOK, netVars, clientVars
<1>5. CASE Skip
  BY <1>5 DEF Skip, TypeOK, NetTypeOK, ClientTypeOK, netVars, clientVars
<1>6. CASE EndScan
  BY <1>6 DEF EndScan, TypeOK, NetTypeOK, ClientTypeOK, netVars, clientVars
<1>7. CASE RecvData
  <2>1. Conn(i) \in Clients
    BY <1>7, SlotFacts DEF RecvData, AtRecv, TypeOK, Monitored
  <2>2. PICK k \in 1..Len(inbox[Conn(i)]) :
          /\ request' = Received(Conn(i), k)
          /\ inbox'   = [inbox EXCEPT ![Conn(i)] = Remaining(Conn(i), k)]
    BY <1>7 DEF RecvData
  <2>3. request' \in Commands /\ inbox' \in [Clients -> Seq(Messages)]
    BY <2>1, <2>2, RemainingProperties DEF TypeOK, NetTypeOK
  <2> QED
    BY <1>7, <2>3 DEF RecvData, TypeOK, NetTypeOK, ClientTypeOK, clientVars
<1>8. CASE RecvEnd
  BY <1>8, DropType DEF RecvEnd, AtRecv, TypeOK, NetTypeOK, ClientTypeOK, clientVars
<1>9. CASE Reply
  <2>1. pc = "reply" /\ i < nfds
    BY <1>9 DEF Reply, ServiceInRange
  <2>2. Conn(i) \in Clients
    BY <2>1, SlotFacts DEF TypeOK, Monitored
  <2>3. peer' \in [Clients -> PeerState] /\ outbox' \in [Clients -> Nat]
    <3> DEFINE c == Conn(i)
    <3>1. outbox[c] + 1 \in Nat
      BY <2>2 DEF TypeOK, NetTypeOK
    <3>2. peer \in [Clients -> PeerState] /\ outbox \in [Clients -> Nat]
      BY DEF TypeOK, NetTypeOK
    <3>3. CASE SendOk(c)
      BY <2>2, <3>1, <3>2, <3>3 DEF SendOk, PeerState
    <3>4. CASE SendFails(c)
      BY <2>2, <3>2, <3>4 DEF SendFails, PeerState
    <3> QED
      BY <1>9, <3>3, <3>4 DEF Reply
  <2>4. CASE Drop(i)
    BY <1>9, <2>1, <2>3, <2>4, DropType
    DEF Reply, TypeOK, NetTypeOK, ClientTypeOK, clientVars
  <2>5. CASE i' = i + 1 /\ UNCHANGED <<files, inbox, fds, nfds>>
    BY <1>9, <2>1, <2>3, <2>5
    DEF Reply, TypeOK, NetTypeOK, ClientTypeOK, clientVars
  <2> QED
    BY <1>9, <2>4, <2>5 DEF Reply, KeepOrDrop
<1>10. CASE KilledBySigpipe
  BY <1>10, CloseAllEnds
  DEF KilledBySigpipe, TypeOK, NetTypeOK, ClientTypeOK, clientVars
<1>11. ASSUME NEW c \in Clients, ClientStep(c), UNCHANGED serverVars
       PROVE  Goal
  BY <1>11, ClientStepType DEF TypeOK, serverVars
<1>12. CASE UNCHANGED vars
  BY <1>12 DEF vars, netVars, clientVars, serverVars, TypeOK, NetTypeOK, ClientTypeOK
<1> QED
  BY <1>1, <1>2, <1>3, <1>4, <1>5, <1>6, <1>7, <1>8, <1>9, <1>10, <1>11, <1>12
  DEF Next, ServerStep
---------------------------------------------------------------------------
\* A step that leaves the entries and the descriptor table alone keeps them
\* sound.
LEMMA SlotsFrame ==
  ASSUME EntriesSound, pc \in {"poll", "accept", "scan", "reply"},
         UNCHANGED <<files, fds, nfds>>
  PROVE  EntriesSound'
BY DEF EntriesSound, Monitored, Conn

\* Removing an entry: the last one takes its place, and its descriptor is
\* none of the remaining ones.
LEMMA DropSlots ==
  ASSUME TypeOK, EntriesSound, pc \in {"scan", "reply"}, i < nfds, Drop(i)
  PROVE  EntriesSound'
<1> DEFINE from(s) == IF s = i THEN nfds - 1 ELSE s
<1>1. i \in Monitored /\ nfds \in Nat /\ nfds >= 2 /\ i \in Nat /\ i >= 1
  BY DEF TypeOK, Monitored
<1>2. i \in Slots /\ 0 \in Slots /\ fds[i] \in Fd /\ Conn(i) \in Clients
  BY <1>1, SlotFacts DEF Slots
<1>3. /\ fds' = [fds EXCEPT ![i] = fds[nfds - 1]]
      /\ nfds' = nfds - 1
      /\ files' = [files EXCEPT ![fds[i]] = "free"]
  BY DEF Drop, CloseFd
<1>4. fds \in [Slots -> Fd \cup {0}] /\ files \in [Fd -> Clients \cup {"free", "listener"}]
  BY DEF TypeOK, NetTypeOK
<1>5. /\ fds[0] = SockServer /\ files[SockServer] = "listener"
      /\ \A s, t \in Monitored : s /= t => fds[s] /= fds[t]
  BY DEF EntriesSound
<1>6. fds'[0] = SockServer /\ files'[SockServer] = "listener"
  <2>1. SockServer \in Fd /\ SockServer /= fds[i]
    BY <1>2, <1>5 DEF Fd, SockServer, Conn
  <2> QED
    BY <1>1, <1>2, <1>3, <1>4, <1>5, <2>1
<1>7. \A s \in Monitored' : /\ s \in Slots
                             /\ from(s) \in Monitored /\ from(s) /= i
                             /\ fds'[s] = fds[from(s)]
  BY <1>1, <1>3, <1>4 DEF Monitored, Slots, TypeOK
<1>8. \A s \in Monitored' : fds'[s] \in Fd /\ Conn(s)' \in Clients
  <2> TAKE s \in Monitored'
  <2>1. fds[from(s)] \in Fd /\ Conn(from(s)) \in Clients /\ fds[from(s)] /= fds[i]
    BY <1>1, <1>5, <1>7, SlotFacts
  <2> QED
    BY <1>2, <1>3, <1>4, <1>7, <2>1 DEF Conn
<1>9. \A s, t \in Monitored' : s /= t => from(s) /= from(t)
  BY <1>1, <1>3 DEF Monitored
<1>10. \A s, t \in Monitored' : s /= t => fds'[s] /= fds'[t]
  BY <1>5, <1>7, <1>9
<1> QED
  BY <1>6, <1>8, <1>10 DEF EntriesSound

\* Accepting a connection: its descriptor was unused, so no entry has it.
LEMMA AcceptSlots ==
  ASSUME TypeOK, EntriesSound, Accept
  PROVE  EntriesSound'
<1>1. PICK c \in acceptQ, fd \in Fd :
        /\ LowestFree(fd)
        /\ files' = [files EXCEPT ![fd] = c]
        /\ StoreConnection(fd)
  BY DEF Accept
<1>2. pc = "accept" /\ files[fd] = "free" /\ c \in Clients
  BY <1>1 DEF Accept, LowestFree, TypeOK, NetTypeOK
<1>3. /\ fds \in [Slots -> Fd \cup {0}]
      /\ files \in [Fd -> Clients \cup {"free", "listener"}]
      /\ nfds \in 1..MaxConnection /\ 0 \in Slots
  BY DEF TypeOK, NetTypeOK, Slots
<1>4. /\ fds[0] = SockServer /\ files[SockServer] = "listener"
      /\ \A s \in Monitored : fds[s] \in Fd /\ Conn(s) \in Clients
      /\ \A s, t \in Monitored : s /= t => fds[s] /= fds[t]
  BY <1>2 DEF EntriesSound
<1>5. fd /= SockServer /\ \A s \in Monitored : fds[s] /= fd
  BY <1>2, <1>4 DEF Conn
<1>6. files'[SockServer] = "listener" /\ files'[fd] = c
  BY <1>1, <1>3, <1>4, <1>5 DEF Fd, SockServer
<1>7. \A s \in Monitored : files'[fds[s]] \in Clients
  BY <1>1, <1>3, <1>4, <1>5 DEF Conn
<1>8. CASE nfds < MaxConnection
  <2>1. fds' = [fds EXCEPT ![nfds] = fd] /\ nfds' = nfds + 1
    BY <1>1, <1>8 DEF StoreConnection
  <2>2. nfds \in Slots /\ nfds /= 0
    BY <1>3, <1>8 DEF Slots
  <2>3. \A s \in Monitored' : s = nfds \/ (s \in Monitored /\ s /= nfds)
    BY <1>3, <2>1 DEF Monitored, Slots
  <2>4. fds'[nfds] = fd /\ \A s \in Monitored : s \in Slots /\ fds'[s] = fds[s]
    BY <1>3, <2>1, <2>2 DEF Monitored, Slots
  <2>5. fds'[0] = SockServer
    BY <1>3, <1>4, <2>1, <2>2
  <2>6. \A s \in Monitored' : fds'[s] \in Fd /\ Conn(s)' \in Clients
    BY <1>2, <1>4, <1>6, <1>7, <2>3, <2>4 DEF Conn
  <2>7. \A s, t \in Monitored' : s /= t => fds'[s] /= fds'[t]
    BY <1>4, <1>5, <2>3, <2>4
  <2> QED
    BY <1>6, <2>5, <2>6, <2>7 DEF EntriesSound
<1>9. CASE ~(nfds < MaxConnection)
  <2>1. UNCHANGED <<fds, nfds>>
    BY <1>1, <1>9 DEF StoreConnection
  <2> QED
    BY <1>4, <1>6, <1>7, <2>1 DEF EntriesSound, Monitored, Conn
<1> QED
  BY <1>8, <1>9

\* The monitored entries stay pairwise different, open connections.
LEMMA NextSlots ==
  ASSUME IInv, [Next]_vars
  PROVE  EntriesSound'
<1> USE DEF IInv
<1>1. CASE Poll
  <2>1. pc = "poll" /\ UNCHANGED <<files, fds, nfds>>
    BY <1>1, Zenon DEF Poll, netVars
  <2> QED
    BY <2>1, SlotsFrame
<1>2. CASE PollFails \/ KilledBySigpipe
  BY <1>2 DEF PollFails, KilledBySigpipe, EntriesSound
<1>3. CASE Accept
  BY <1>3, AcceptSlots
<1>4. CASE AcceptFails \/ EndScan
  BY <1>4, SlotsFrame DEF AcceptFails, EndScan, netVars
<1>5. CASE Skip
  BY <1>5, SlotsFrame DEF Skip, netVars
<1>6. CASE RecvData
  BY <1>6, SlotsFrame DEF RecvData, AtRecv
<1>7. CASE RecvEnd
  BY <1>7, DropSlots DEF RecvEnd, AtRecv
<1>8. CASE Reply
  <2>1. pc = "reply" /\ i < nfds
    BY <1>8 DEF Reply, ServiceInRange
  <2>2. Drop(i) \/ UNCHANGED <<files, fds, nfds>>
    BY <1>8 DEF Reply, KeepOrDrop
  <2> QED
    BY <2>1, <2>2, DropSlots, SlotsFrame
<1>9. ASSUME NEW c \in Clients, ClientStep(c), UNCHANGED serverVars
      PROVE  EntriesSound'
  BY <1>9, ClientStepFiles DEF serverVars, EntriesSound, Monitored, Conn
<1>10. CASE UNCHANGED vars
  BY <1>10 DEF vars, netVars, serverVars, EntriesSound, Monitored, Conn
<1> QED
  BY <1>1, <1>2, <1>3, <1>4, <1>5, <1>6, <1>7, <1>8, <1>9, <1>10
  DEF Next, ServerStep

---------------------------------------------------------------------------
\* The slot in service stays a monitored one.
LEMMA NextServiceInRange ==
  ASSUME IInv, [Next]_vars
  PROVE  ServiceInRange'
<1> USE DEF IInv
<1>1. CASE Poll
  BY <1>1, Zenon DEF Poll, ServiceInRange
<1>2. CASE RecvData
  BY <1>2 DEF RecvData, AtRecv, ServiceInRange
<1>3. CASE PollFails \/ Accept \/ AcceptFails \/ Skip \/ EndScan \/ RecvEnd
           \/ Reply \/ KilledBySigpipe
  BY <1>3 DEF PollFails, Accept, AcceptFails, Skip, EndScan, RecvEnd, AtRecv,
     Reply, KilledBySigpipe, ServiceInRange
<1>4. ASSUME NEW c \in Clients, ClientStep(c), UNCHANGED serverVars
      PROVE  ServiceInRange'
  BY <1>4 DEF serverVars, ServiceInRange
<1>5. CASE UNCHANGED vars
  BY <1>5 DEF vars, serverVars, ServiceInRange
<1> QED
  BY <1>1, <1>2, <1>3, <1>4, <1>5 DEF Next, ServerStep

---------------------------------------------------------------------------
\* The connection in service, when there is one, is open.
LEMMA ServedConn ==
  ASSUME IInv, pc \in {"scan", "reply"}, i < nfds
  PROVE  fds[i] \in Fd /\ Conn(i) \in Clients /\ Held(Conn(i))
<1>1. i \in Monitored
  BY DEF IInv, TypeOK, Monitored
<1> QED
  BY <1>1, SlotFacts DEF IInv, Held, Conn

\* What becomes of the connections when an entry is dropped.
LEMMA DropEnds ==
  ASSUME IInv, pc \in {"scan", "reply"}, i < nfds, Drop(i), acceptQ' = acceptQ
  PROVE  /\ OneServerEnd'
         /\ \A d \in Clients : /\ inbox'[d] \in {inbox[d], <<>>}
                               /\ d = Conn(i) => inbox'[d] = <<>> /\ ~Held(d)'
                               /\ d /= Conn(i) => (Held(d)' <=> Held(d))
                               /\ d /= Conn(i) => (Attached(d)' <=> Attached(d))
                               /\ d = Conn(i) => ~Attached(d)'
<1>1. fds[i] \in Fd /\ files[fds[i]] \in Clients
  BY ServedConn DEF Conn
<1> QED
  BY <1>1, CloseFdEnds DEF IInv, TypeOK, Drop, Conn

\* Dropping an entry leaves the streams of other connections alone.
LEMMA DropKeepsOthers ==
  ASSUME IInv, pc \in {"scan", "reply"}, i < nfds, Drop(i),
         NEW d \in Clients, d /= Conn(i)
  PROVE  inbox'[d] = inbox[d]
BY DEF Drop, CloseFd, Conn, IInv, TypeOK, NetTypeOK

\* A connection keeps one server end at most, and none before connect().
LEMMA NextServerEnd ==
  ASSUME IInv, [Next]_vars
  PROVE  OneServerEnd'
<1> USE DEF IInv
<1>1. CASE UNCHANGED <<files, acceptQ>>
  BY <1>1 DEF OneServerEnd, Held
<1>2. CASE Poll
  BY <1>1, <1>2, Zenon DEF Poll, netVars
<1>3. CASE PollFails \/ KilledBySigpipe
  BY <1>3, CloseAllEnds DEF PollFails, KilledBySigpipe
<1>4. CASE Accept
  BY <1>4, AcceptEnds DEF Accept, LowestFree, TypeOK
<1>5. CASE AcceptFails \/ Skip \/ EndScan \/ RecvData
  BY <1>1, <1>5 DEF AcceptFails, Skip, EndScan, RecvData, netVars
<1>6. CASE RecvEnd
  BY <1>6, DropEnds DEF RecvEnd, AtRecv
<1>7. CASE Reply
  BY <1>1, <1>7, DropEnds DEF Reply, KeepOrDrop, ServiceInRange
<1>8. ASSUME NEW c \in Clients, ClientStep(c)
      PROVE  OneServerEnd'
  BY <1>8, ClientEnds DEF TypeOK
<1>9. CASE UNCHANGED vars
  BY <1>1, <1>9 DEF vars, netVars
<1> QED
  BY <1>2, <1>3, <1>4, <1>5, <1>6, <1>7, <1>8, <1>9 DEF Next, ServerStep

---------------------------------------------------------------------------
\* recv() takes something from the connection in slot i.
LEMMA RecvDataStreams ==
  ASSUME IInv, RecvData
  PROVE  /\ Conn(i) \in Clients
         /\ \E k \in 1..Len(inbox[Conn(i)]) :
              inbox' = [inbox EXCEPT ![Conn(i)] = Remaining(Conn(i), k)]
         /\ inbox[Conn(i)] /= <<>>
         /\ \A d \in Clients : d /= Conn(i) => inbox'[d] = inbox[d]
<1>1. Conn(i) \in Clients
  BY ServedConn DEF RecvData, AtRecv
<1>2. NetTypeOK /\ inbox \in [Clients -> Seq(Messages)]
  BY DEF IInv, TypeOK, NetTypeOK
<1>3. PICK k \in 1..Len(inbox[Conn(i)]) :
        inbox' = [inbox EXCEPT ![Conn(i)] = Remaining(Conn(i), k)]
  BY DEF RecvData
<1>4. inbox[Conn(i)] /= <<>>
  BY <1>1, <1>2, RemainingQueue
<1> QED
  BY <1>1, <1>2, <1>3, <1>4

\* Commands wait on attached connections only, and peers close when their
\* client is done.
LEMMA NextStreams ==
  ASSUME IInv, [Next]_vars
  PROVE  StreamsSound'
<1> USE DEF IInv
<1>1. CASE UNCHANGED <<files, acceptQ, inbox, peer, client>>
  BY <1>1 DEF StreamsSound, Attached, Held
<1>2. CASE Poll
  BY <1>1, <1>2, Zenon DEF Poll, netVars, clientVars
<1>3. CASE PollFails \/ KilledBySigpipe
  <2>1. UNCHANGED <<peer, client>> /\ CloseAll
    BY <1>3 DEF PollFails, KilledBySigpipe, clientVars
  <2> QED
    BY <2>1, CloseAllEnds, StreamsFrame
<1>4. CASE Accept
  <2>1. UNCHANGED <<inbox, peer, client>>
    BY <1>4 DEF Accept, clientVars
  <2>2. \A d \in Clients : Attached(d)' <=> Attached(d)
    BY <1>4, AcceptEnds DEF Accept, LowestFree, TypeOK
  <2> QED
    BY <2>1, <2>2, StreamsFrame
<1>5. CASE AcceptFails \/ Skip \/ EndScan
  BY <1>1, <1>5 DEF AcceptFails, Skip, EndScan, netVars, clientVars
<1>6. CASE RecvData
  <2>1. UNCHANGED <<files, acceptQ, peer, client>>
    BY <1>6 DEF RecvData, clientVars
  <2>2. \A d \in Clients : Attached(d)' <=> Attached(d)
    BY <2>1 DEF Attached, Held
  <2> QED
    BY <1>6, <2>1, <2>2, RecvDataStreams, StreamsFrame
<1>7. CASE RecvEnd
  <2>1. Drop(i) /\ UNCHANGED <<acceptQ, peer, client>>
    BY <1>7 DEF RecvEnd, clientVars
  <2> QED
    BY <1>7, <2>1, DropEnds, StreamsFrame DEF RecvEnd, AtRecv
<1>8. CASE Reply
  <2>1. pc = "reply" /\ i < nfds /\ UNCHANGED <<acceptQ, client>>
    BY <1>8 DEF Reply, clientVars, ServiceInRange
  <2>2. \A d \in Clients : peer'[d] \in {"fin", "rst", "broken"} =>
          peer[d] \in {"fin", "rst", "broken"}
    BY <1>8, <2>1, ServedConn, SendStreams DEF Reply, TypeOK
  <2>3. CASE Drop(i)
    BY <2>1, <2>2, <2>3, DropEnds, StreamsFrame
  <2>4. CASE UNCHANGED <<files, inbox>>
    <3>1. \A d \in Clients : Attached(d)' <=> Attached(d)
      BY <2>1, <2>4 DEF Attached, Held
    <3> QED
      BY <2>1, <2>2, <2>4, <3>1, StreamsFrame
  <2> QED
    BY <1>8, <2>3, <2>4 DEF Reply, KeepOrDrop
<1>9. ASSUME NEW c \in Clients, ClientStep(c)
      PROVE  StreamsSound'
  BY <1>9, ClientStreams DEF TypeOK
<1>10. CASE UNCHANGED vars
  BY <1>1, <1>10 DEF vars, netVars, clientVars
<1> QED
  BY <1>2, <1>3, <1>4, <1>5, <1>6, <1>7, <1>8, <1>9, <1>10 DEF Next, ServerStep

---------------------------------------------------------------------------
\* The exchange of every run_client goes through its stages in order.
LEMMA NextExchanges ==
  ASSUME IInv, [Next]_vars
  PROVE  ExchangesSound'
<1> USE DEF IInv
<1> SUFFICES ASSUME NEW d \in Clients, d \notin Eager
             PROVE  ExchangeOf(d, Serving(d))'
  BY DEF ExchangesSound
<1>1. ExchangeOf(d, Serving(d)) /\ Serving(d) \in BOOLEAN /\ Serving(d)' \in BOOLEAN
  BY DEF ExchangesSound, Serving
<1>2. NetTypeOK /\ ClientTypeOK
  BY DEF TypeOK
<1>3. ASSUME UNCHANGED <<outbox, peer, client>>, inbox'[d] \in {inbox[d], <<>>},
             Serving(d)' => Serving(d)
      PROVE  ExchangeOf(d, Serving(d))'
  BY <1>1, <1>3 DEF ExchangeOf
<1>4. CASE Poll
  <2>1. pc' /= "reply" /\ UNCHANGED <<inbox, outbox, peer, client>>
    BY <1>4, Zenon DEF Poll, netVars, clientVars
  <2> QED
    BY <1>3, <2>1 DEF Serving
<1>5. CASE PollFails \/ KilledBySigpipe
  BY <1>3, <1>5, CloseAllEnds DEF PollFails, KilledBySigpipe, clientVars, Serving
<1>6. CASE Accept \/ AcceptFails \/ Skip \/ EndScan
  BY <1>3, <1>6 DEF Accept, AcceptFails, Skip, EndScan, netVars, clientVars, Serving
<1>7. CASE RecvData
  <2>1. pc = "scan" /\ pc' = "reply" /\ UNCHANGED <<files, fds, i, outbox, peer, client>>
    BY <1>7 DEF RecvData, AtRecv, clientVars
  <2>2. CASE d = Conn(i)
    <3>1. ExchangeOf(d, TRUE)'
      BY <1>1, <1>2, <1>7, <2>1, <2>2, RecvDataStreams, RecvExchange
    <3>2. Serving(d)' = TRUE
      BY <2>1, <2>2 DEF Serving, Conn
    <3> QED
      BY <3>1, <3>2 DEF ExchangeOf
  <2>3. CASE d /= Conn(i)
    BY <1>3, <1>7, <2>1, <2>3, RecvDataStreams DEF Serving, Conn
  <2> QED
    BY <2>2, <2>3
<1>8. CASE RecvEnd
  <2>1. /\ pc' /= "reply" /\ Drop(i) /\ pc = "scan" /\ i < nfds
        /\ UNCHANGED <<acceptQ, outbox, peer, client>>
    BY <1>8 DEF RecvEnd, AtRecv, clientVars
  <2> QED
    BY <1>3, <2>1, DropEnds DEF Serving
<1>9. CASE Reply
  <2>1. /\ pc = "reply" /\ pc' = "scan" /\ i < nfds /\ Conn(i) \in Clients
        /\ UNCHANGED <<acceptQ, client>>
        /\ SendOk(Conn(i)) \/ SendFails(Conn(i))
    BY <1>9, ServedConn DEF Reply, clientVars, ServiceInRange
  <2>2. inbox'[d] \in {inbox[d], <<>>} /\ Serving(d)' = FALSE
    BY <1>9, <2>1, DropEnds DEF Reply, KeepOrDrop, Serving
  <2>3. CASE d = Conn(i)
    <3>1. ExchangeOf(d, TRUE)
      BY <1>1, <2>1, <2>3 DEF Serving, ExchangeOf
    <3>2. ExchangeOf(d, FALSE)'
      BY <1>2, <2>1, <2>2, <2>3, <3>1, SendExchange
    <3> QED
      BY <2>2, <3>2 DEF ExchangeOf
  <2>4. CASE d /= Conn(i)
    <3>1. outbox'[d] = outbox[d] /\ peer'[d] = peer[d] /\ client'[d] = client[d]
      BY <1>2, <2>1, <2>4, SendStreams
    <3> QED
      BY <1>1, <2>2, <3>1 DEF ExchangeOf
  <2> QED
    BY <2>3, <2>4
<1>10. ASSUME NEW c \in Clients, ClientStep(c), UNCHANGED serverVars
       PROVE  ExchangeOf(d, Serving(d))'
  <2>1. Serving(d)' = Serving(d)
    BY <1>10, ClientStepFiles DEF Serving, Conn, serverVars
  <2>2. Serving(d) => Attached(d)
    BY ServedConn DEF Serving, ServiceInRange, Attached
  <2>3. ASSUME NEW s \in BOOLEAN, s = Serving(d) PROVE ExchangeOf(d, s)'
    BY <1>1, <1>2, <1>10, <2>2, <2>3, ClientExchange
  <2> QED
    BY <1>1, <2>1, <2>3 DEF ExchangeOf
<1>11. CASE UNCHANGED vars
  BY <1>3, <1>11 DEF vars, netVars, clientVars, serverVars, Serving, Conn
<1> QED
  BY <1>4, <1>5, <1>6, <1>7, <1>8, <1>9, <1>10, <1>11 DEF Next, ServerStep

\* What a client waits for stays in one of its three places.
LEMMA NextAnswers ==
  ASSUME IInv, [Next]_vars
  PROVE  AnswersDue'
<1> USE DEF IInv
<1> SUFFICES ASSUME NEW d \in Clients PROVE AnswerDue(d, Serving(d))'
  BY DEF AnswersDue
<1>1. AnswerDue(d, Serving(d)) /\ Serving(d) \in BOOLEAN /\ Serving(d)' \in BOOLEAN
  BY DEF AnswersDue, Serving
<1>2. NetTypeOK /\ ClientTypeOK
  BY DEF TypeOK
<1>3. ASSUME client'[d] = client[d], last'[d] = last[d],
             Attached(d)' => Attached(d) /\ inbox'[d] = inbox[d] /\ outbox'[d] = outbox[d],
             Attached(d)' /\ Serving(d) => Serving(d)'
      PROVE  AnswerDue(d, Serving(d))'
  BY <1>1, <1>3 DEF AnswerDue
<1>4. CASE Poll \/ AcceptFails \/ Skip \/ EndScan
  <2>1. UNCHANGED <<netVars, clientVars>> /\ pc /= "reply"
    BY <1>4, Zenon DEF Poll, AcceptFails, Skip, EndScan
  <2> QED
    BY <1>3, <2>1 DEF netVars, clientVars, Serving, Attached, Held
<1>5. CASE PollFails \/ KilledBySigpipe
  BY <1>5, CloseAllEnds DEF PollFails, KilledBySigpipe, AnswerDue
<1>6. CASE Accept
  <2>1. UNCHANGED <<inbox, outbox, client, last>> /\ pc /= "reply"
    BY <1>6 DEF Accept, clientVars
  <2>2. Attached(d)' <=> Attached(d)
    BY <1>6, AcceptEnds DEF Accept, LowestFree, TypeOK
  <2> QED
    BY <1>3, <2>1, <2>2 DEF Serving
<1>7. CASE RecvData
  <2>1. /\ pc' = "reply" /\ pc = "scan"
        /\ UNCHANGED <<files, acceptQ, fds, i, outbox, client, last>>
    BY <1>7 DEF RecvData, AtRecv, clientVars
  <2>2. CASE d = Conn(i)
    BY <2>1, <2>2 DEF AnswerDue, Serving, Conn
  <2>3. CASE d /= Conn(i)
    BY <1>3, <1>7, <2>1, <2>3, RecvDataStreams DEF Serving, Attached, Held
  <2> QED
    BY <2>2, <2>3
<1>8. CASE RecvEnd
  <2>1. /\ pc = "scan" /\ Drop(i) /\ i < nfds /\ UNCHANGED <<acceptQ, outbox, client, last>>
    BY <1>8 DEF RecvEnd, AtRecv, clientVars
  <2>2. CASE d = Conn(i)
    BY <2>1, <2>2, DropEnds DEF AnswerDue
  <2>3. CASE d /= Conn(i)
    BY <1>3, <2>1, <2>3, DropKeepsOthers, DropEnds DEF Serving
  <2> QED
    BY <2>2, <2>3
<1>9. CASE Reply
  <2>1. /\ pc = "reply" /\ pc' = "scan" /\ i < nfds /\ Conn(i) \in Clients
        /\ UNCHANGED <<acceptQ, client, last>>
        /\ SendOk(Conn(i)) \/ SendFails(Conn(i))
        /\ Drop(i) \/ UNCHANGED <<files, inbox>>
    BY <1>9, ServedConn DEF Reply, KeepOrDrop, clientVars, ServiceInRange
  <2>2. CASE d = Conn(i)
    <3>1. AnswerDue(d, FALSE)'
      BY <1>2, <2>1, <2>2, SendDue
    <3> QED
      BY <3>1 DEF AnswerDue
  <2>3. CASE d /= Conn(i)
    <3>1. outbox'[d] = outbox[d] /\ ~Serving(d)
      BY <1>2, <2>1, <2>3, SendStreams DEF Serving
    <3>2. inbox'[d] = inbox[d] /\ (Attached(d)' <=> Attached(d))
      BY <2>1, <2>3, DropKeepsOthers, DropEnds DEF Attached, Held
    <3> QED
      BY <1>3, <2>1, <3>1, <3>2
  <2> QED
    BY <2>2, <2>3
<1>10. ASSUME NEW c \in Clients, ClientStep(c), UNCHANGED serverVars
       PROVE  AnswerDue(d, Serving(d))'
  <2>1. Serving(d)' = Serving(d)
    BY <1>10, ClientStepFiles DEF Serving, Conn, serverVars
  <2>2. ASSUME NEW s \in BOOLEAN, s = Serving(d) PROVE AnswerDue(d, s)'
    BY <1>1, <1>2, <1>10, <2>2, ClientDue
  <2> QED
    BY <1>1, <2>1, <2>2 DEF AnswerDue
<1>11. CASE UNCHANGED vars
  BY <1>3, <1>11 DEF vars, netVars, clientVars, serverVars, Serving, Conn, Attached, Held
<1> QED
  BY <1>4, <1>5, <1>6, <1>7, <1>8, <1>9, <1>10, <1>11 DEF Next, ServerStep

\* A client that is run_client is never sent a reply it has already refused.
LEMMA NextSurvives ==
  ASSUME IInv, [Next]_vars
  PROVE  SurvivesItsClients'
<1> USE DEF IInv
<1> SUFFICES ASSUME Eager = {} PROVE pc' /= "killed"
  BY DEF SurvivesItsClients
<1>1. pc /= "killed"
  BY DEF SurvivesItsClients
<1>2. ~KilledBySigpipe
  <2> SUFFICES ASSUME KilledBySigpipe PROVE FALSE
    OBVIOUS
  <2>1. pc = "reply" /\ peer[Conn(i)] = "broken" /\ Serving(Conn(i))
    BY DEF KilledBySigpipe, SendRaisesSigpipe, Serving
  <2>2. Conn(i) \in Clients
    BY <2>1, SlotFacts DEF ServiceInRange, TypeOK, Monitored
  <2> QED
    BY <2>1, <2>2, Serving(Conn(i)) = TRUE DEF ExchangesSound, ExchangeOf
<1>3. CASE Poll
  BY <1>3, Zenon DEF Poll
<1>4. CASE PollFails \/ Accept \/ AcceptFails \/ Skip \/ EndScan \/ RecvData
           \/ RecvEnd \/ Reply
  BY <1>1, <1>4 DEF PollFails, Accept, AcceptFails, Skip, EndScan, RecvData,
     RecvEnd, Reply
<1>5. ASSUME NEW c \in Clients, ClientStep(c), UNCHANGED serverVars
      PROVE  pc' /= "killed"
  BY <1>1, <1>5 DEF serverVars
<1>6. CASE UNCHANGED vars
  BY <1>1, <1>6 DEF vars, serverVars
<1> QED
  BY <1>2, <1>3, <1>4, <1>5, <1>6 DEF Next, ServerStep

---------------------------------------------------------------------------
\* The moved entry takes its client along, and the closed descriptor was the
\* only server end of the client that is dropped.
LEMMA DropForgetsNobody ==
  ASSUME IInv, pc \in {"scan", "reply"}, i < nfds, Drop(i),
         NEW c \in Clients, NEW s \in Monitored, Conn(s) = c
  PROVE  (\E t \in Monitored' : Conn(t)' = c) \/ ~Held(c)'
<1>1. /\ i \in Monitored /\ nfds \in Nat /\ i \in Nat /\ i \in Slots
      /\ fds \in [Slots -> Fd \cup {0}] /\ s \in Slots
      /\ files \in [Fd -> Clients \cup {"free", "listener"}]
  BY DEF IInv, TypeOK, NetTypeOK, Monitored, Slots
<1>2. /\ fds' = [fds EXCEPT ![i] = fds[nfds - 1]] /\ nfds' = nfds - 1
      /\ files' = [files EXCEPT ![fds[i]] = "free"]
  BY DEF Drop, CloseFd
<1>3. fds[s] \in Fd /\ fds[i] \in Fd
  BY <1>1, SlotFacts DEF IInv
<1>4. CASE s = i
  <2> SUFFICES ASSUME NEW fd \in Fd, files'[fd] = c PROVE FALSE
    BY DEF Held
  <2>1. fd /= fds[i]
    BY <1>1, <1>2, <1>3
  <2>2. files[fd] = c
    BY <1>1, <1>2, <2>1
  <2> QED
    BY <1>3, <1>4, <2>1, <2>2 DEF IInv, OneServerEnd, Conn
<1>5. CASE s /= i
  <2>1. fds[s] /= fds[i] /\ files'[fds[s]] = c
    BY <1>1, <1>2, <1>3, <1>5 DEF IInv, EntriesSound, Conn
  <2>2. CASE s = nfds - 1
    <3>1. i \in Monitored' /\ fds'[i] = fds[s]
      BY <1>1, <1>2, <1>5, <2>2 DEF Monitored
    <3> QED
      BY <2>1, <3>1 DEF Conn
  <2>3. CASE s /= nfds - 1
    <3>1. s \in Monitored' /\ fds'[s] = fds[s]
      BY <1>1, <1>2, <1>5, <2>3 DEF Monitored
    <3> QED
      BY <2>1, <3>1 DEF Conn
  <2> QED
    BY <2>2, <2>3
<1> QED
  BY <1>4, <1>5

\* Storing a new connection overwrites no other entry and no other descriptor.
LEMMA AcceptForgetsNobody ==
  ASSUME IInv, Accept, NEW c \in Clients, NEW s \in Monitored, Conn(s) = c
  PROVE  \E t \in Monitored' : Conn(t)' = c
<1>1. PICK d \in acceptQ, fd \in Fd :
        /\ files[fd] = "free"
        /\ files' = [files EXCEPT ![fd] = d]
        /\ StoreConnection(fd)
  BY DEF Accept, LowestFree
<1>2. /\ fds \in [Slots -> Fd \cup {0}] /\ nfds \in Nat /\ s \in Slots
      /\ files \in [Fd -> Clients \cup {"free", "listener"}]
  BY DEF IInv, TypeOK, NetTypeOK, Monitored, Slots
<1>3. fds[s] \in Fd /\ fds[s] /= fd
  BY <1>1, SlotFacts DEF IInv, Accept, Conn
<1>4. s \in Monitored' /\ fds'[s] = fds[s]
  BY <1>1, <1>2 DEF StoreConnection, Monitored
<1> QED
  BY <1>1, <1>2, <1>3, <1>4 DEF Conn

\* No step takes a connection out of the entries without closing it.
LEMMA NextForgetsNobody ==
  ASSUME IInv, [Next]_vars
  PROVE  NobodyForgotten
<1> SUFFICES ASSUME NEW c \in Clients, NEW s \in Monitored, Conn(s) = c
             PROVE  \/ pc' \in {"exited", "killed"}
                    \/ \E t \in Monitored' : Conn(t)' = c
                    \/ ~Held(c)'
  BY DEF NobodyForgotten
<1> DEFINE Goal == \/ pc' \in {"exited", "killed"}
                   \/ \E t \in Monitored' : Conn(t)' = c
                   \/ ~Held(c)'
<1>1. ASSUME UNCHANGED <<files, fds, nfds>> PROVE Goal
  BY <1>1 DEF Monitored, Conn
<1>2. CASE Poll
  <2>1. UNCHANGED <<files, fds, nfds>>
    BY <1>2, Zenon DEF Poll, netVars
  <2> QED
    BY <1>1, <2>1
<1>3. CASE PollFails \/ KilledBySigpipe
  BY <1>3 DEF PollFails, KilledBySigpipe
<1>4. CASE Accept
  BY <1>4, AcceptForgetsNobody
<1>5. CASE AcceptFails \/ Skip \/ EndScan \/ RecvData
  BY <1>1, <1>5 DEF AcceptFails, Skip, EndScan, RecvData, netVars
<1>6. CASE RecvEnd
  BY <1>6, DropForgetsNobody DEF RecvEnd, AtRecv
<1>7. CASE Reply
  <2>1. pc = "reply" /\ i < nfds
    BY <1>7 DEF Reply, IInv, ServiceInRange
  <2>2. Drop(i) \/ UNCHANGED <<files, fds, nfds>>
    BY <1>7 DEF Reply, KeepOrDrop
  <2> QED
    BY <1>1, <2>1, <2>2, DropForgetsNobody
<1>8. ASSUME NEW d \in Clients, ClientStep(d), UNCHANGED serverVars
      PROVE  Goal
  BY <1>1, <1>8, ClientStepFiles DEF serverVars
<1>9. CASE UNCHANGED vars
  BY <1>1, <1>9 DEF vars, netVars, serverVars
<1> QED
  BY <1>2, <1>3, <1>4, <1>5, <1>6, <1>7, <1>8, <1>9 DEF Next, ServerStep

\* A connection is given a server end by accept() only, which stores it.
LEMMA NextMonitorsNew ==
  ASSUME IInv, [Next]_vars
  PROVE  NewIsMonitored
<1> SUFFICES ASSUME NEW c \in Clients, ~Held(c), Held(c)'
             PROVE  nfds = MaxConnection \/ \E s \in Monitored' : Conn(s)' = c
  BY DEF NewIsMonitored
<1> USE DEF IInv
<1>1. ASSUME files' = files PROVE FALSE
  BY <1>1 DEF Held
<1>2. CASE Poll
  BY <1>1, <1>2, Zenon DEF Poll, netVars
<1>3. CASE PollFails \/ KilledBySigpipe
  BY <1>3, CloseAllEnds DEF PollFails, KilledBySigpipe
<1>4. CASE Accept
  <2>1. PICK d \in acceptQ, fd \in Fd :
          /\ files' = [files EXCEPT ![fd] = d]
          /\ StoreConnection(fd)
    BY <1>4 DEF Accept
  <2>2. /\ fds \in [Slots -> Fd \cup {0}] /\ nfds \in 1..MaxConnection
        /\ files \in [Fd -> Clients \cup {"free", "listener"}]
    BY DEF TypeOK, NetTypeOK
  <2>3. files'[fd] = c
    <3>1. PICK g \in Fd : files'[g] = c
      BY DEF Held
    <3>2. files[g] /= c
      BY <3>1 DEF Held
    <3> QED
      BY <2>1, <2>2, <3>1, <3>2
  <2>4. CASE nfds < MaxConnection
    <3>1. nfds \in Slots /\ fds'[nfds] = fd /\ nfds' = nfds + 1
      BY <2>1, <2>2, <2>4, SlotFacts DEF StoreConnection, Slots
    <3>2. nfds \in Monitored'
      BY <2>2, <3>1 DEF Monitored
    <3> QED
      BY <2>3, <3>1, <3>2 DEF Conn
  <2>5. CASE nfds = MaxConnection
    BY <2>5
  <2> QED
    BY <2>2, <2>4, <2>5, SlotFacts
<1>5. CASE AcceptFails \/ Skip \/ EndScan \/ RecvData
  BY <1>1, <1>5 DEF AcceptFails, Skip, EndScan, RecvData, netVars
<1>6. CASE RecvEnd \/ Reply
  <2>1. /\ pc \in {"scan", "reply"} /\ i < nfds /\ acceptQ' = acceptQ
        /\ Drop(i) \/ UNCHANGED files
    BY <1>6 DEF RecvEnd, AtRecv, Reply, KeepOrDrop, ServiceInRange
  <2> QED
    BY <1>1, <2>1, DropEnds
<1>7. ASSUME NEW d \in Clients, ClientStep(d) PROVE FALSE
  BY <1>1, <1>7, ClientStepFiles
<1>8. CASE UNCHANGED vars
  BY <1>1, <1>8 DEF vars, netVars
<1> QED
  BY <1>2, <1>3, <1>4, <1>5, <1>6, <1>7, <1>8 DEF Next, ServerStep

---------------------------------------------------------------------------
\* IInv implies what the properties of PollServer say.
LEMMA IInvOneExchange == IInv => OneExchange
<1> SUFFICES ASSUME IInv, NEW c \in Clients
             PROVE  LET underWay == Len(inbox[c]) + outbox[c] + (IF Serving(c) THEN 1 ELSE 0)
                    IN  /\ c \notin Eager => underWay <= 1
                        /\ c \notin Eager /\ underWay = 1 => client[c] \in {"waiting", "done"}
                        /\ client[c] = "waiting" /\ last[c] /= "" /\ Attached(c)
                             => underWay >= 1
  BY DEF OneExchange
<1>1. /\ c \notin Eager => ExchangeOf(c, Serving(c))
      /\ AnswerDue(c, Serving(c)) /\ Serving(c) \in BOOLEAN
      /\ NetTypeOK /\ ClientTypeOK
  BY DEF IInv, ExchangesSound, AnswersDue, Serving, TypeOK
<1> QED
  BY <1>1, ExchangeCount

\* The invariant holds in every reachable state, for every number of clients,
\* descriptors and entries.
THEOREM Invariance == Spec => []IInv
<1>1. Init => IInv
  BY InitIInv
<1>2. IInv /\ [Next]_vars => IInv'
  <2> SUFFICES ASSUME IInv, [Next]_vars PROVE IInv'
    OBVIOUS
  <2>1. TypeOK' /\ EntriesSound'
    BY NextType, NextSlots
  <2>2. ServiceInRange' /\ OneServerEnd' /\ StreamsSound'
    BY NextServiceInRange, NextServerEnd, NextStreams
  <2>3. ExchangesSound' /\ AnswersDue' /\ SurvivesItsClients'
    BY NextExchanges, NextAnswers, NextSurvives
  <2> QED
    BY <2>1, <2>2, <2>3 DEF IInv
<1> QED
  BY <1>1, <1>2, PTL DEF Spec

\* The state of the poll server, of its sockets and of its clients is always
\* well typed: in particular nfds and i never leave the bounds of fds.
THEOREM TypeCorrectness == Spec => []TypeOK
<1>1. IInv => TypeOK
  BY DEF IInv
<1> QED
  BY <1>1, Invariance, PTL

\* Every close(), move and recv() of the poll loop finds the listening socket
\* in slot 0 and pairwise different, open connections in the others.
THEOREM SlotsAlwaysSound == Spec => []SlotsSound
<1>1. IInv => SlotsSound
  BY DEF IInv, SlotsSound
<1> QED
  BY <1>1, Invariance, PTL

\* On a connection of run_client there is at most one command or reply under
\* way, whatever the other clients are and do, and there is one while a client
\* waits: whatever stops this loop, nothing that was asked is lost in it.
THEOREM ExchangesOneAtATime == Spec => []OneExchange
BY IInvOneExchange, Invariance, PTL

\* If every client is run_client, no client can end the poll server by
\* leaving: SIGPIPE is never raised.
THEOREM ServerSurvives == Spec => []SurvivesItsClients
<1>1. IInv => SurvivesItsClients
  BY DEF IInv
<1> QED
  BY <1>1, Invariance, PTL

\* No step loses a monitored connection other than by closing it, and what
\* accept() returns is monitored unless fds is full.
THEOREM NobodyIsForgotten == Spec => NeverForgets
<1>1. IInv /\ [Next]_vars => NobodyForgotten /\ NewIsMonitored
  BY NextForgetsNobody, NextMonitorsNew
<1> QED
  BY <1>1, Invariance, PTL DEF Spec, NeverForgets
=============================================================================
