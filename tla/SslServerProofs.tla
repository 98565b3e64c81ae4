--------------------------- MODULE SslServerProofs ---------------------------
(* Proofs about SslServer for any number of clients, descriptors and        *)
(* entries: IInv is inductive, no connection is lost or judged by what      *)
(* another one sent, nothing a client waits for disappears, and the server  *)
(* implements EventLoop.                                                    *)
EXTENDS SslServer, TcpSocketsProofs

USE SocketsAssumption, SslAssumption

\* What the proofs need besides TablesAgree.

\* The entries in use, the one whose handshake is under way included.
Used == {s \in Slots : s > 0 /\ (s < nfds \/ (s = nfds /\ pc = "handshake"))}

\* The entries in use are pairwise different connections; accept() is called
\* at entry 0 only, and read or write for an entry in use.
SlotsSound ==
  Alive =>
    /\ \A s \in Used : Conn(s) \in Clients
    /\ \A s, t \in Used : s /= t => fds[s] /= fds[t]
    /\ pc = "handshake" => i = 0 /\ nfds \in Used
    /\ pc = "reply" => i \in Used

\* A revents that the scan has not reached is still true, and an entry that
\* accept() can fill has none.
ReventsSound ==
  /\ pc \in {"scan", "handshake", "reply"} =>
       \A s \in Monitored :
         revents[s] /\ (s > i \/ (s = i /\ pc = "scan")) => StreamReadable(Conn(s))
  /\ pc = "handshake" \/ (pc = "scan" /\ i = 0) =>
       \A s \in Slots : s >= nfds => ~revents[s]

\* Records wait on connections that have a server end only, only a client that
\* is done has closed its end, and none is attached before connect().
StreamsSound ==
  \A c \in Clients :
    /\ inbox[c] /= <<>> => Attached(c)
    /\ peer[c] \in {"fin", "rst", "broken"} => client[c] = "done"
    /\ client[c] = "off" => ~Attached(c)

\* A run_client has one record or one answer under way.
ExchangeOf(c, serving) ==
  /\ client[c] \in {"off", "connected", "ready"}
       => inbox[c] = <<>> /\ outbox[c] = 0 /\ ~serving
  /\ Len(inbox[c]) <= 1 /\ outbox[c] <= 1
  /\ inbox[c] /= <<>> => outbox[c] = 0 /\ ~serving
  /\ outbox[c] = 1 => ~serving
  /\ peer[c] = "broken" => inbox[c] = <<>> /\ ~serving
Serving(c) == pc = "reply" /\ Reading = c
ExchangesSound == \A c \in Clients \ Eager : ExchangeOf(c, Serving(c))

IInv ==
  /\ TablesAgree
  /\ SlotsSound
  /\ ReventsSound
  /\ OneServerEnd
  /\ StreamsSound
  /\ ExchangesSound
---------------------------------------------------------------------------
\* The server starts in IInv.
LEMMA InitIInv == Init => IInv
<1> SUFFICES ASSUME Init PROVE IInv
  OBVIOUS
<1>1. /\ NetInit /\ pc = "poll" /\ nfds = 1 /\ i = 0
      /\ fds = [s \in Slots |-> IF s = 0 THEN SockServer ELSE -1]
      /\ arr_ssl = [s \in Slots |-> IF s = 0 THEN SockServer ELSE 0]
      /\ revents = [s \in Slots |-> FALSE]
      /\ client = [c \in Clients |-> "off"]
  BY Zenon DEF Init
<1>2. SockServer \in Fd /\ 0 \in Slots /\ \A s \in Slots : s \in Int /\ (s < 1 <=> s = 0)
  BY DEF Fd, SockServer, Slots
<1>3. /\ files = [fd \in Fd |-> IF fd = SockServer THEN "listener" ELSE "free"]
      /\ \A c \in Clients : inbox[c] = <<>> /\ outbox[c] = 0 /\ peer[c] = "none" /\ client[c] = "off"
      /\ acceptQ = {}
  BY <1>1 DEF NetInit
<1>4. NetTypeOK
  BY <1>1, EmptySeq DEF NetInit, NetTypeOK, PeerState
<1>5. TypeOK
  <2>1. fds \in [Slots -> Fd \cup {-1}] /\ arr_ssl \in [Slots -> Fd \cup {0}]
    BY <1>1, <1>2
  <2>2. revents \in [Slots -> BOOLEAN]
    BY <1>1, Zenon
  <2>3. 1 \in 1..MaxConnection /\ 0 \in 0..MaxConnection
    OBVIOUS
  <2> QED
    BY <1>1, <1>4, <2>1, <2>2, <2>3 DEF TypeOK
<1>6. files[SockServer] = "listener" /\ fds[0] = SockServer /\ arr_ssl[0] = SockServer
  BY <1>1, <1>2, <1>3
<1>7. \A s \in Slots : s /= 0 => fds[s] = -1 /\ arr_ssl[s] = 0
  BY <1>1
<1>8. TablesAgree
  <2>1. \A s \in Slots : s = nfds /\ pc = "handshake" => FALSE
    BY <1>1
  <2>2. Monitored = 1..0
    BY <1>1 DEF Monitored
  <2> QED
    BY <1>1, <1>2, <1>5, <1>6, <1>7, <2>1, <2>2 DEF TablesAgree, Conn
<1>9. Used = {}
  BY <1>1, <1>2 DEF Used
<1>10. SlotsSound /\ ReventsSound
  BY <1>1, <1>9 DEF SlotsSound, ReventsSound
<1>11. \A c \in Clients : ~Held(c)
  BY <1>3 DEF Held
<1>12. OneServerEnd /\ StreamsSound
  BY <1>3, <1>11 DEF OneServerEnd, StreamsSound, Attached
<1>13. ExchangesSound
  <2>1. \A c \in Clients : Serving(c) = FALSE
    BY <1>1 DEF Serving
  <2>2. \A c \in Clients : Len(inbox[c]) = 0
    BY <1>3, EmptySeq
  <2> QED
    BY <1>3, <2>1, <2>2 DEF ExchangesSound, ExchangeOf
<1> QED
  BY <1>8, <1>10, <1>12, <1>13 DEF IInv

---------------------------------------------------------------------------
\* What an entry in use refers to.
LEMMA UsedFacts ==
  ASSUME TablesAgree, SlotsSound, Alive, NEW s \in Used
  PROVE  /\ s \in Slots /\ s \in Nat /\ s >= 1 /\ s <= nfds
         /\ fds[s] \in Fd /\ arr_ssl[s] = fds[s] /\ Conn(s) \in Clients
         /\ fds[s] /= SockServer /\ fds[s] /= -1 /\ Held(Conn(s))
<1>1. s \in Slots /\ s > 0 /\ (s < nfds \/ (s = nfds /\ pc = "handshake"))
  BY DEF Used
<1>2. fds[s] \in Fd /\ arr_ssl[s] = fds[s] /\ Conn(s) \in Clients /\ files[SockServer] = "listener"
  BY <1>1 DEF TablesAgree, SlotsSound
<1>3. s \in Nat /\ s >= 1 /\ s <= nfds
  BY <1>1 DEF Slots, TablesAgree, TypeOK
<1>4. fds[s] /= SockServer /\ fds[s] /= -1
  BY <1>2 DEF Conn, Fd
<1> QED
  BY <1>1, <1>2, <1>3, <1>4 DEF Held, Conn

\* The monitored entries are those in use while no handshake is under way.
LEMMA MonitoredUsed ==
  ASSUME TypeOK
  PROVE  /\ \A s \in Monitored : s \in Used /\ s \in Slots /\ s < nfds
         /\ \A s \in Used : s \in Monitored \/ (s = nfds /\ pc = "handshake")
BY DEF Monitored, Used, TypeOK, Slots

\* SSL_read() and SSL_write() work on a monitored entry and its connection.
LEMMA ServedConn ==
  ASSUME IInv, AtRead \/ pc = "reply"
  PROVE  /\ Alive /\ i \in Used /\ i \in Monitored /\ i \in Slots /\ i \in Nat /\ i < nfds
         /\ fds[i] \in Fd /\ Conn(i) \in Clients /\ Reading = Conn(i) /\ Held(Conn(i))
<1>1. Alive /\ TablesAgree /\ SlotsSound /\ TypeOK
  BY DEF IInv, AtRead, Alive, TablesAgree
<1>2. AtRead => i \in Used
  BY <1>1 DEF AtRead, Used, Slots, TypeOK, TablesAgree
<1>3. i \in Used /\ pc /= "handshake"
  BY <1>1, <1>2 DEF SlotsSound, AtRead
<1>4. i \in Monitored /\ i < nfds
  BY <1>1, <1>3, MonitoredUsed
<1> QED
  BY <1>1, <1>3, <1>4, UsedFacts DEF Reading, Conn

\* The entry whose handshake is under way.
LEMMA NewEntry ==
  ASSUME IInv, pc = "handshake"
  PROVE  /\ Alive /\ i = 0 /\ nfds \in Used /\ nfds \in Slots /\ nfds < MaxConnection
         /\ fds[nfds] \in Fd /\ Conn(nfds) \in Clients /\ Held(Conn(nfds))
<1>1. Alive /\ TablesAgree /\ SlotsSound
  BY DEF IInv, Alive
<1>2. i = 0 /\ nfds \in Used
  BY <1>1 DEF SlotsSound
<1> QED
  BY <1>1, <1>2, UsedFacts DEF Slots, TablesAgree, TypeOK

\* A step of the server is one of the steps that any server makes.
LEMMA ServerStepSockets ==
  ASSUME IInv, ServerStep
  PROVE  SocketStep /\ client' = client
<1>1. CASE Poll
  BY <1>1, Zenon DEF Poll, SocketStep
<1>2. CASE PollFails \/ KilledBySigpipe
  BY <1>2 DEF PollFails, KilledBySigpipe, SocketStep, SockEnd
<1>3. CASE EndScan \/ Skip \/ AcceptFails
  BY <1>3 DEF EndScan, Skip, AcceptFails, SocketStep
<1>4. CASE Accept
  BY <1>4 DEF Accept, LowestFree, SocketStep, SockAccept
<1>5. CASE HandshakeDone
  BY <1>5, NewEntry DEF HandshakeDone, SocketStep, SockRecvSend
<1>6. CASE HandshakeFails
  BY <1>6, NewEntry DEF HandshakeFails, SocketStep, SockClose, Conn
<1>7. CASE ReadLine
  BY <1>7, ServedConn DEF ReadLine, SocketStep, SockRecv
<1>8. CASE Disconnect
  BY <1>8, ServedConn DEF Disconnect, Drop, SocketStep, SockClose, Conn
<1>9. CASE Reply
  BY <1>9, ServedConn DEF Reply, SocketStep, SockSend, netVars
<1> QED
  BY <1>1, <1>2, <1>3, <1>4, <1>5, <1>6, <1>7, <1>8, <1>9 DEF ServerStep

---------------------------------------------------------------------------
\* What a step of a client does to the sockets: it attaches its own connection
\* only, by connect(), and leaves the descriptor table alone.
LEMMA ClientSockets ==
  ASSUME TypeOK, NEW c \in Clients, ClientStep(c)
  PROVE  /\ files' = files /\ client' \in [Clients -> {"off", "connected", "hello", "ready",
                                                       "sending", "waiting", "done"}]
         /\ acceptQ' = acceptQ \/ (Connect(c) /\ acceptQ' = acceptQ \cup {c})
         /\ client'[c] /= "off" /\ \A d \in Clients : d /= c => client'[d] = client[d]
BY DEF TypeOK, ClientStep, Connect, Hello, HelloDone, HelloFails, Write, RestArrives,
   EagerWrite, Read, ReadFails, Leave, Goes, netVars

\* What a client sends: one record more, or the rest of the one it began.
LEMMA TransmitQueue ==
  ASSUME TypeOK, NEW c \in Clients, NEW r \in Records, Transmit(c, r)
  PROVE  /\ inbox' \in [Clients -> Seq(Messages)]
         /\ \A d \in Clients : inbox[d] /= <<>> => inbox'[d] /= <<>>
         /\ \A d \in Clients : inbox'[d] /= inbox[d] => d = c /\ Attached(d) /\ Len(inbox'[d]) = Len(inbox[d]) + 1
BY AppendedQueue DEF Transmit, TypeOK, NetTypeOK

\* A step of a client adds to its own stream only, if it is attached.
LEMMA ClientQueue ==
  ASSUME TypeOK, NEW c \in Clients, ClientStep(c)
  PROVE  /\ inbox' \in [Clients -> Seq(Messages)]
         /\ \A d \in Clients : inbox[d] /= <<>> => inbox'[d] /= <<>>
         /\ \A d \in Clients : inbox'[d] /= inbox[d] => d = c /\ (Attached(d) \/ inbox[d] /= <<>>)
<1> DEFINE Goal ==
      /\ inbox' \in [Clients -> Seq(Messages)]
      /\ \A d \in Clients : inbox[d] /= <<>> => inbox'[d] /= <<>>
      /\ \A d \in Clients : inbox'[d] /= inbox[d] => d = c /\ (Attached(d) \/ inbox[d] /= <<>>)
<1>1. inbox \in [Clients -> Seq(Messages)] /\ {"hello", "junk", "line", "part", "quit"} \subseteq Records
  BY DEF TypeOK, NetTypeOK, Records
<1>2. CASE inbox' = inbox
  BY <1>1, <1>2
<1>3. ASSUME NEW r \in Records, Transmit(c, r) PROVE Goal
  BY <1>3, TransmitQueue
<1>4. CASE RestArrives(c)
  <2>1. CASE inbox[c] = <<"part">>
    <3>1. inbox' = [inbox EXCEPT ![c] = <<"line">>]
      BY <1>4, <2>1 DEF RestArrives
    <3>2. <<"line">> \in Seq(Messages) /\ <<"line">> /= <<>> /\ inbox[c] /= <<>>
      BY <1>1, <2>1
    <3> QED
      BY <1>1, <3>1, <3>2
  <2> QED
    BY <1>2, <1>4, <2>1 DEF RestArrives
<1>5. CASE Hello(c) \/ Write(c) \/ EagerWrite(c)
  BY <1>1, <1>3, <1>5 DEF Hello, Write, EagerWrite
<1>6. CASE Connect(c) \/ HelloDone(c) \/ HelloFails(c) \/ Read(c) \/ ReadFails(c) \/ Leave(c)
  BY <1>2, <1>6 DEF Connect, HelloDone, HelloFails, Read, ReadFails, Leave, netVars
<1> QED
  BY <1>4, <1>5, <1>6 DEF ClientStep

\* A step of a client keeps the types of the network.
LEMMA ClientType ==
  ASSUME TypeOK, NEW c \in Clients, ClientStep(c)
  PROVE  NetTypeOK'
<1>1. NetTypeOK
  BY DEF TypeOK
<1>2. /\ files' = files /\ inbox' \in [Clients -> Seq(Messages)]
      /\ acceptQ' = acceptQ \/ acceptQ' = acceptQ \cup {c}
  BY ClientSockets, ClientQueue
<1>3. ASSUME HelloDone(c) \/ Read(c)
      PROVE  peer' \in [Clients -> PeerState] /\ outbox' \in [Clients -> Nat]
  <2>1. outbox[c] > 0 /\ outbox' = [outbox EXCEPT ![c] = @ - 1] /\ peer' = peer
    BY <1>3 DEF HelloDone, Read
  <2>2. outbox[c] - 1 \in Nat
    BY <1>1, <2>1 DEF NetTypeOK
  <2> QED
    BY <1>1, <2>1, <2>2 DEF NetTypeOK
<1>4. ASSUME UNCHANGED <<peer, outbox>>
      PROVE  peer' \in [Clients -> PeerState] /\ outbox' \in [Clients -> Nat]
  BY <1>1, <1>4 DEF NetTypeOK
<1>5. peer' \in [Clients -> PeerState] /\ outbox' \in [Clients -> Nat]
  <2>1. CASE Hello(c) \/ Write(c) \/ RestArrives(c) \/ EagerWrite(c)
    BY <1>4, <2>1 DEF Hello, Write, RestArrives, EagerWrite
  <2>2. CASE HelloFails(c) \/ ReadFails(c)
    BY <1>4, <2>2 DEF HelloFails, ReadFails, netVars
  <2>3. CASE Connect(c) \/ Leave(c)
    BY <1>1, <2>3 DEF NetTypeOK, PeerState, Connect, Leave, PeerCloses
  <2>4. CASE HelloDone(c) \/ Read(c)
    BY <1>3, <2>4
  <2> QED
    BY <2>1, <2>2, <2>3, <2>4 DEF ClientStep
<1> QED
  BY <1>1, <1>2, <1>5 DEF NetTypeOK

\* How peers and attachments change.
LEMMA ClientPeers ==
  ASSUME TypeOK, StreamsSound, NEW c \in Clients, ClientStep(c), NEW d \in Clients
  PROVE  /\ Held(d)' <=> Held(d)
         /\ Attached(d) => Attached(d)'
         /\ Attached(d)' => Attached(d) \/ (d = c /\ client[c] = "off")
         /\ d /= c => peer'[d] = peer[d] /\ outbox'[d] = outbox[d]
         /\ peer'[d] \in {"fin", "rst", "broken"} => client'[d] = "done"
         /\ peer'[d] = "broken" => peer[d] = "broken"
         /\ Attached(d) /\ StreamReadable(d) => StreamReadable(d)'
<1>1. /\ files' = files
      /\ acceptQ' = acceptQ \/ (client[c] = "off" /\ acceptQ' = acceptQ \cup {c})
  BY ClientSockets DEF Connect, Goes
<1>2. Held(d)' <=> Held(d)
  BY <1>1 DEF Held
<1>3. /\ Attached(d) => Attached(d)'
      /\ Attached(d)' => Attached(d) \/ (d = c /\ client[c] = "off")
  BY <1>1, <1>2 DEF Attached
<1>4. /\ d /= c => peer'[d] = peer[d] /\ outbox'[d] = outbox[d]
      /\ peer'[d] \in {"fin", "rst", "broken"} => client'[d] = "done"
      /\ peer'[d] = "broken" => peer[d] = "broken"
      /\ Attached(d) /\ peer[d] /= "up" => peer'[d] /= "up"
  BY DEF TypeOK, NetTypeOK, StreamsSound, ClientStep, Connect, Hello, HelloDone, HelloFails, Write,
     RestArrives, EagerWrite, Read, ReadFails, Leave, Goes, PeerCloses, netVars
<1>5. Attached(d) /\ StreamReadable(d) => StreamReadable(d)'
  BY <1>4, ClientQueue DEF StreamReadable
<1> QED
  BY <1>2, <1>3, <1>4, <1>5

---------------------------------------------------------------------------
\* Type correctness is kept by every step.
LEMMA NextType ==
  ASSUME IInv, [Next]_vars
  PROVE  TypeOK'
<1>1. TypeOK
  BY DEF IInv, TablesAgree
<1>2. ASSUME ServerStep PROVE NetTypeOK' /\ client' = client
  BY <1>1, <1>2, ServerStepSockets, SocketStepSound DEF IInv, TypeOK
<1>3. CASE Poll
  <2>1. revents' = [s \in Slots |-> fds[s] /= -1 /\ Readable(fds[s])]
    BY <1>3, Zenon DEF Poll
  <2>2. \A s \in Slots : (fds[s] /= -1 /\ Readable(fds[s])) \in BOOLEAN
    BY Zenon
  <2>3. revents' \in [Slots -> BOOLEAN]
    BY <2>1, <2>2, Zenon
  <2> QED
    BY <1>1, <1>2, <1>3, <2>3 DEF ServerStep, Poll, TypeOK
<1>4. CASE PollFails \/ EndScan \/ Skip \/ AcceptFails \/ KilledBySigpipe
  BY <1>1, <1>2, <1>4 DEF ServerStep, PollFails, EndScan, Skip, AcceptFails, KilledBySigpipe,
     AtListener, TypeOK
<1>5. CASE Accept
  <2>1. i < nfds /\ i + 1 \in 0..MaxConnection
    BY <1>1, <1>5 DEF Accept, AtListener, TypeOK
  <2>2. PICK fd \in Fd :
          \/ /\ nfds < MaxConnection /\ i' = i /\ pc' = "handshake"
             /\ fds' = [fds EXCEPT ![nfds] = fd] /\ arr_ssl' = [arr_ssl EXCEPT ![nfds] = fd]
          \/ i' = i + 1 /\ UNCHANGED <<pc, fds, arr_ssl>>
    BY <1>5 DEF Accept
  <2>3. fds' \in [Slots -> Fd \cup {-1}] /\ arr_ssl' \in [Slots -> Fd \cup {0}]
    BY <1>1, <2>2 DEF TypeOK
  <2>4. revents' = revents /\ nfds' = nfds
    BY <1>5 DEF Accept
  <2> QED
    BY <1>1, <1>2, <1>5, <2>1, <2>2, <2>3, <2>4 DEF ServerStep, TypeOK
<1>6. CASE HandshakeDone
  <2>1. i = 0 /\ nfds < MaxConnection
    BY <1>6, NewEntry DEF HandshakeDone
  <2>2. nfds + 1 \in 1..MaxConnection /\ i + 1 \in 0..MaxConnection
    BY <1>1, <2>1 DEF TypeOK
  <2> QED
    BY <1>1, <1>2, <1>6, <2>2 DEF ServerStep, HandshakeDone, TypeOK
<1>7. CASE HandshakeFails
  <2>1. i = 0 /\ nfds \in Slots
    BY <1>7, NewEntry DEF HandshakeFails
  <2>2. i + 1 \in 0..MaxConnection
    BY <2>1
  <2>3. fds' \in [Slots -> Fd \cup {-1}] /\ arr_ssl' \in [Slots -> Fd \cup {0}]
    BY <1>1, <1>7 DEF HandshakeFails, TypeOK
  <2> QED
    BY <1>1, <1>2, <1>7, <2>2, <2>3 DEF ServerStep, HandshakeFails, TypeOK
<1>8. CASE ReadLine
  BY <1>1, <1>2, <1>8 DEF ServerStep, ReadLine, TypeOK
<1>9. CASE Reply
  BY <1>1, <1>2, <1>9, ServedConn DEF ServerStep, Reply, TypeOK
<1>10. CASE Disconnect
  <2>1. /\ i \in Slots /\ i \in Nat /\ i < nfds /\ i >= 1 /\ nfds - 1 \in Slots
    BY <1>1, <1>10, ServedConn DEF Disconnect, Monitored, TypeOK, Slots
  <2>2. /\ fds' = [fds EXCEPT ![i] = fds[nfds - 1], ![nfds - 1] = -1]
        /\ arr_ssl' = [arr_ssl EXCEPT ![i] = arr_ssl[nfds - 1], ![nfds - 1] = 0]
        /\ nfds' = nfds - 1 /\ i' = i + 1 /\ pc' = "scan" /\ revents' = revents
    BY <1>10 DEF Disconnect, Drop
  <2>3. fds[nfds - 1] \in Fd \cup {-1} /\ arr_ssl[nfds - 1] \in Fd \cup {0}
    BY <1>1, <2>1 DEF TypeOK
  <2>4. fds' \in [Slots -> Fd \cup {-1}] /\ arr_ssl' \in [Slots -> Fd \cup {0}]
    BY <1>1, <2>2, <2>3 DEF TypeOK
  <2>5. nfds' \in 1..MaxConnection /\ i' \in 0..MaxConnection
    BY <1>1, <2>1, <2>2 DEF TypeOK, Slots
  <2> QED
    BY <1>1, <1>2, <1>10, <2>2, <2>4, <2>5 DEF ServerStep, TypeOK
<1>11. ASSUME NEW c \in Clients, ClientStep(c), UNCHANGED serverVars PROVE TypeOK'
  BY <1>1, <1>11, ClientType, ClientSockets DEF TypeOK, serverVars
<1>12. CASE UNCHANGED vars
  BY <1>1, <1>12 DEF vars, netVars, serverVars, TypeOK, NetTypeOK
<1> QED
  BY <1>3, <1>4, <1>5, <1>6, <1>8, <1>9, <1>10, <1>11, <1>12, <1>7 DEF Next, ServerStep

\* The server ends and the streams stay sound.
LEMMA NextEnds ==
  ASSUME IInv, [Next]_vars
  PROVE  OneServerEnd' /\ StreamsSound'
<1>1. TypeOK /\ NetTypeOK /\ OneServerEnd /\ StreamsSound
  BY DEF IInv, TablesAgree, TypeOK
<1>2. CASE ServerStep
  BY <1>1, <1>2, ServerStepSockets, SocketStepSound DEF StreamsSound
<1>3. ASSUME NEW c \in Clients, ClientStep(c) PROVE OneServerEnd' /\ StreamsSound'
  <2>1. files' = files /\ acceptQ' \subseteq acceptQ \cup {c}
        /\ client'[c] /= "off" /\ \A d \in Clients : d /= c => client'[d] = client[d]
    BY <1>1, <1>3, ClientSockets
  <2>2. \A d \in Clients : /\ Held(d)' <=> Held(d)
                           /\ Attached(d) => Attached(d)'
                           /\ Attached(d)' => Attached(d) \/ (d = c /\ client[c] = "off")
                           /\ peer'[d] \in {"fin", "rst", "broken"} => client'[d] = "done"
    BY <1>1, <1>3, ClientPeers
  <2>3. \A d \in Clients : inbox'[d] /= <<>> => inbox[d] /= <<>> \/ Attached(d)
    BY <1>1, <1>3, ClientQueue
  <2>4. StreamsSound'
    BY <1>1, <2>1, <2>2, <2>3 DEF StreamsSound
  <2>5. ASSUME NEW d \in acceptQ' PROVE ~Held(d)'
    <3>1. d \in Clients /\ Attached(d)'
      BY <1>1, <2>1, <2>5 DEF NetTypeOK, Attached
    <3>2. CASE d \in acceptQ
      BY <1>1, <2>2, <3>1, <3>2 DEF OneServerEnd
    <3>3. CASE d \notin acceptQ
      <4>1. client[d] = "off"
        BY <1>1, <1>3, <2>1, <2>5, <3>3, ClientSockets DEF Connect, Goes
      <4> QED
        BY <1>1, <2>2, <3>1, <4>1 DEF StreamsSound, Attached
    <3> QED
      BY <3>2, <3>3
  <2> QED
    BY <1>1, <2>1, <2>4, <2>5 DEF OneServerEnd
<1>4. CASE UNCHANGED vars
  BY <1>1, <1>4 DEF vars, netVars, OneServerEnd, StreamsSound, Attached, Held
<1> QED
  BY <1>2, <1>3, <1>4 DEF Next
---------------------------------------------------------------------------
\* The entries as IInv describes them, one at a time.
LEMMA EntriesNow ==
  ASSUME IInv, Alive
  PROVE  /\ fds[0] = SockServer /\ arr_ssl[0] = SockServer /\ files[SockServer] = "listener"
         /\ \A s \in Used : arr_ssl[s] = fds[s] /\ fds[s] \in Fd /\ files[fds[s]] \in Clients
         /\ \A s \in Slots : s > 0 /\ s \notin Used => arr_ssl[s] = 0 /\ fds[s] = -1
         /\ \A s, t \in Used : s /= t => fds[s] /= fds[t] /\ files[fds[s]] /= files[fds[t]]
<1>1. TablesAgree /\ SlotsSound /\ TypeOK /\ OneServerEnd
  BY DEF IInv, TablesAgree
<1>2. 0 \in Slots /\ 0 < nfds
  BY <1>1 DEF Slots, TypeOK
<1>3. \A s \in Used : arr_ssl[s] = fds[s] /\ fds[s] \in Fd /\ files[fds[s]] \in Clients
  BY <1>1, UsedFacts DEF Conn
<1>4. \A s \in Slots : s > 0 /\ s \notin Used => arr_ssl[s] = 0 /\ fds[s] = -1
  BY <1>1 DEF TablesAgree, Used
<1>5. \A s, t \in Used : s /= t => fds[s] /= fds[t]
  BY <1>1 DEF SlotsSound
<1>6. \A s, t \in Used : s /= t => files[fds[s]] /= files[fds[t]]
  BY <1>1, <1>3, <1>5 DEF OneServerEnd
<1> QED
  BY <1>1, <1>2, <1>3, <1>4, <1>5, <1>6 DEF TablesAgree

\* The same description, after a step, is what IInv asks of the entries.
LEMMA EntriesNext ==
  ASSUME TypeOK',
         Alive' =>
           /\ fds'[0] = SockServer /\ arr_ssl'[0] = SockServer /\ files'[SockServer] = "listener"
           /\ \A s \in Used' : arr_ssl'[s] = fds'[s] /\ fds'[s] \in Fd /\ files'[fds'[s]] \in Clients
           /\ \A s \in Slots : s > 0 /\ s \notin Used' => arr_ssl'[s] = 0 /\ fds'[s] = -1
           /\ \A s, t \in Used' : s /= t => fds'[s] /= fds'[t]
           /\ pc' = "handshake" => i' = 0 /\ nfds' \in Used'
           /\ pc' = "reply" => i' \in Used'
  PROVE  TablesAgree' /\ SlotsSound'
<1>1. SlotsSound'
  BY DEF SlotsSound, Conn
<1>2. ASSUME Alive' PROVE TablesAgree'
  <2>1. \A s \in Slots : s = 0 \/ s > 0
    BY DEF Slots
  <2>2. SockServer \in Fd /\ 0 < nfds' /\ SockServer /= -1
    BY DEF SockServer, Fd, TypeOK
  <2>3. \A s \in Slots : (s < nfds' \/ (s = nfds' /\ pc' = "handshake")) => s = 0 \/ s \in Used'
    BY <2>1 DEF Used
  <2>4. \A s \in Slots : s = 0 \/ s \in Used' => s < nfds' \/ (s = nfds' /\ pc' = "handshake")
    BY <2>2 DEF Used
  <2>5. \A s \in Used' : s \in Slots /\ s > 0 /\ files'[fds'[s]] /= "free"
    BY <1>2, SocketsAssumption DEF Used
  <2>6. \A s \in Slots :
          IF s < nfds' \/ (s = nfds' /\ pc' = "handshake")
          THEN arr_ssl'[s] = fds'[s] /\ fds'[s] \in Fd /\ files'[fds'[s]] /= "free"
          ELSE arr_ssl'[s] = 0 /\ fds'[s] = -1
    BY <1>2, <2>1, <2>2, <2>3, <2>4, <2>5
  <2>7. PICK n \in 1..MaxConnection : n = nfds'
    BY DEF TypeOK
  <2>8. \A s \in 1..(n - 1) : s \in Slots /\ s > 0 /\ s < n
    BY DEF Slots
  <2>9. \A s \in Monitored' : s \in Used'
    BY <2>7, <2>8 DEF Monitored, Used
  <2> QED
    BY <1>2, <2>6, <2>9 DEF TablesAgree, Conn
<1> QED
  BY <1>1, <1>2 DEF TablesAgree

\* Steps that leave the entries and what they refer to.
LEMMA EntriesFrame ==
  ASSUME IInv, Alive => Alive', Alive' => Alive, TypeOK', UNCHANGED <<files, fds, arr_ssl>>,
         Used' = Used,
         pc' = "handshake" => i' = 0 /\ nfds' \in Used,
         pc' = "reply" => i' \in Used
  PROVE  TablesAgree' /\ SlotsSound'
BY EntriesNow, EntriesNext

\* The listening socket is at entry 0 only.
LEMMA AtEntry0 ==
  ASSUME IInv, AtListener
  PROVE  i = 0 /\ Alive
<1>1. Alive /\ TablesAgree /\ SlotsSound /\ TypeOK
  BY DEF IInv, AtListener, Alive, TablesAgree
<1>2. i /= 0 => i \in Used
  BY <1>1 DEF AtListener, Used, TypeOK, Slots
<1> QED
  BY <1>1, <1>2, UsedFacts DEF AtListener

\* accept() leaves the entries in use as they are, and adds at most one.
LEMMA AcceptEntries ==
  ASSUME IInv, Accept, TypeOK'
  PROVE  /\ TablesAgree' /\ SlotsSound'
         /\ \A s \in Used : s \in Used' /\ s /= nfds /\ fds'[s] = fds[s] /\ files'[fds[s]] = files[fds[s]]
         /\ \A c \in Clients : ~Held(c) /\ Held(c)' =>
              \/ nfds = MaxConnection
              \/ pc' = "handshake" /\ files'[fds'[nfds]] = c
<1>1. PICK c \in acceptQ, fd \in Fd :
        /\ files[fd] = "free" /\ files' = [files EXCEPT ![fd] = c]
        /\ \/ /\ nfds < MaxConnection /\ i' = i /\ pc' = "handshake"
              /\ fds' = [fds EXCEPT ![nfds] = fd] /\ arr_ssl' = [arr_ssl EXCEPT ![nfds] = fd]
           \/ nfds = MaxConnection /\ UNCHANGED <<pc, fds, arr_ssl>>
  BY DEF Accept, LowestFree
<1>2. /\ i = 0 /\ Alive /\ pc = "scan" /\ nfds' = nfds /\ TypeOK
      /\ c \in Clients /\ files \in [Fd -> Clients \cup {"free", "listener"}]
      /\ fds \in [Slots -> Fd \cup {-1}] /\ arr_ssl \in [Slots -> Fd \cup {0}]
      /\ nfds \in Nat /\ nfds >= 1
  BY AtEntry0 DEF Accept, AtListener, IInv, TablesAgree, TypeOK, NetTypeOK
<1>3. files'[fd] = c /\ \A g \in Fd : g /= fd => files'[g] = files[g]
  BY <1>1, <1>2
<1>4. /\ fds[0] = SockServer /\ arr_ssl[0] = SockServer /\ files[SockServer] = "listener"
      /\ \A s \in Used : arr_ssl[s] = fds[s] /\ fds[s] \in Fd /\ files[fds[s]] \in Clients
      /\ \A s \in Slots : s > 0 /\ s \notin Used => arr_ssl[s] = 0 /\ fds[s] = -1
      /\ \A s, t \in Used : s /= t => fds[s] /= fds[t]
  BY <1>2, EntriesNow
<1>5. \A s \in Used : s \in Slots /\ s > 0 /\ s < nfds /\ fds[s] /= fd /\ files'[fds[s]] = files[fds[s]]
  <2>1. \A s \in Used : s \in Slots /\ s > 0 /\ s < nfds
    BY <1>2 DEF Used
  <2>2. \A s \in Used : fds[s] /= fd
    BY <1>1, <1>4, SocketsAssumption
  <2> QED
    BY <1>3, <1>4, <2>1, <2>2
<1>6. SockServer \in Fd /\ files'[SockServer] = "listener"
  BY <1>1, <1>3, <1>4 DEF SockServer, Fd
<1>7. \A d \in Clients : ~Held(d) /\ Held(d)' => d = c
  BY <1>3 DEF Held
<1>8. CASE nfds = MaxConnection
  <2>1. pc' = pc /\ UNCHANGED <<fds, arr_ssl>>
    BY <1>1, <1>2, <1>8
  <2>2. Used' = Used
    BY <1>2, <2>1 DEF Used
  <2>3. TablesAgree' /\ SlotsSound'
    BY <1>2, <1>4, <1>5, <1>6, <2>1, <2>2, EntriesNext
  <2> QED
    BY <1>5, <1>8, <2>1, <2>2, <2>3
<1>9. CASE nfds < MaxConnection
  <2>1. /\ i' = i /\ pc' = "handshake"
        /\ fds' = [fds EXCEPT ![nfds] = fd] /\ arr_ssl' = [arr_ssl EXCEPT ![nfds] = fd]
    BY <1>1, <1>2, <1>9
  <2>2. nfds \in Slots /\ nfds /= 0 /\ 0 \in Slots
    BY <1>2, <1>9 DEF Slots
  <2>3. Used' = Used \cup {nfds}
    BY <1>2, <2>1, <2>2 DEF Used
  <2>4. /\ fds'[nfds] = fd /\ arr_ssl'[nfds] = fd
        /\ \A s \in Slots : s /= nfds => fds'[s] = fds[s] /\ arr_ssl'[s] = arr_ssl[s]
    BY <1>2, <2>1, <2>2
  <2>5. \A s \in Used : s \in Used' /\ s /= nfds /\ fds'[s] = fds[s] /\ arr_ssl'[s] = fds[s]
    BY <1>2, <1>4, <1>5, <2>3, <2>4
  <2>6. \A s \in Used' : arr_ssl'[s] = fds'[s] /\ fds'[s] \in Fd /\ files'[fds'[s]] \in Clients
    BY <1>2, <1>3, <1>4, <1>5, <2>3, <2>4, <2>5
  <2>7. \A s \in Slots : s > 0 /\ s \notin Used' => arr_ssl'[s] = 0 /\ fds'[s] = -1
    BY <1>4, <2>3, <2>4
  <2>8. \A s, t \in Used' : s /= t => fds'[s] /= fds'[t]
    BY <1>4, <1>5, <2>3, <2>4, <2>5
  <2>9. fds'[0] = SockServer /\ arr_ssl'[0] = SockServer
    BY <1>4, <2>2, <2>4
  <2>10. TablesAgree' /\ SlotsSound'
    BY <1>2, <1>6, <2>1, <2>3, <2>6, <2>7, <2>8, <2>9, EntriesNext
  <2> QED
    BY <1>3, <1>5, <1>7, <2>1, <2>4, <2>5, <2>10
<1> QED
  BY <1>1, <1>8, <1>9

\* Closing the connection of an entry leaves the other entries in use alone.
LEMMA CloseEntry ==
  ASSUME IInv, Alive, NEW e \in Used, NEW c, c = Conn(e), CloseFd(fds[e]), acceptQ' = acceptQ
  PROVE  /\ files'[SockServer] = "listener"
         /\ c \in Clients /\ ~Held(c)' /\ inbox'[c] = <<>>
         /\ \A d \in Clients : d /= c => inbox'[d] = inbox[d]
         /\ \A d \in Clients : Held(d)' => Held(d)
         /\ \A s \in Used : s /= e => files'[fds[s]] = files[fds[s]] /\ inbox'[Conn(s)] = inbox[Conn(s)]
<1>1. PICK fd \in Fd : fd = fds[e]
  BY UsedFacts DEF IInv
<1>2. /\ c \in Clients /\ files[fd] = c /\ fd /= SockServer /\ NetTypeOK /\ OneServerEnd /\ CloseFd(fd)
  BY <1>1, UsedFacts DEF IInv, TablesAgree, TypeOK, Conn
<1>3. /\ files'[fd] = "free" /\ \A g \in Fd : g /= fd => files'[g] = files[g]
      /\ inbox'[c] = <<>> /\ ~Held(c)'
      /\ \A d \in Clients : d /= c => inbox'[d] = inbox[d] /\ (Held(d)' <=> Held(d))
  BY <1>2, CloseFdEnds
<1>4. SockServer \in Fd /\ files[SockServer] = "listener"
  BY EntriesNow DEF SockServer, Fd
<1>5. \A s \in Used : s /= e => fds[s] \in Fd /\ fds[s] /= fd /\ Conn(s) \in Clients /\ Conn(s) /= c
  BY <1>1, EntriesNow DEF Conn
<1> QED
  BY <1>2, <1>3, <1>4, <1>5

\* A handshake that fails empties the entry that accept() had filled.
LEMMA HandshakeFailsEntries ==
  ASSUME IInv, HandshakeFails, TypeOK'
  PROVE  /\ TablesAgree' /\ SlotsSound'
         /\ \A s \in Used : s /= nfds => s \in Used' /\ fds'[s] = fds[s] /\ files'[fds[s]] = files[fds[s]]
<1>1. /\ pc = "handshake" /\ pc' = "scan" /\ nfds' = nfds /\ acceptQ' = acceptQ
      /\ CloseFd(fds[nfds])
      /\ fds' = [fds EXCEPT ![nfds] = -1] /\ arr_ssl' = [arr_ssl EXCEPT ![nfds] = 0]
  BY DEF HandshakeFails
<1>2. /\ Alive /\ nfds \in Used /\ nfds \in Slots /\ nfds \in Nat /\ nfds >= 1
      /\ fds \in [Slots -> Fd \cup {-1}] /\ arr_ssl \in [Slots -> Fd \cup {0}] /\ 0 \in Slots
  BY <1>1, NewEntry DEF IInv, TablesAgree, TypeOK, Slots
<1>3. /\ fds'[nfds] = -1 /\ arr_ssl'[nfds] = 0
      /\ \A s \in Slots : s /= nfds => fds'[s] = fds[s] /\ arr_ssl'[s] = arr_ssl[s]
  BY <1>1, <1>2
<1>4. Used' = Used \ {nfds} /\ Used \subseteq Slots /\ \A s \in Used : s > 0
  BY <1>1, <1>2 DEF Used, Slots
<1>5. /\ fds[0] = SockServer /\ arr_ssl[0] = SockServer
      /\ \A s \in Used : arr_ssl[s] = fds[s] /\ fds[s] \in Fd /\ files[fds[s]] \in Clients
      /\ \A s \in Slots : s > 0 /\ s \notin Used => arr_ssl[s] = 0 /\ fds[s] = -1
      /\ \A s, t \in Used : s /= t => fds[s] /= fds[t]
  BY <1>2, EntriesNow
<1>6. /\ files'[SockServer] = "listener"
      /\ \A s \in Used : s /= nfds => files'[fds[s]] = files[fds[s]]
  BY <1>1, <1>2, CloseEntry DEF Conn
<1>7. \A s \in Used' : s \in Used /\ s /= nfds /\ fds'[s] = fds[s] /\ arr_ssl'[s] = fds[s] /\ files'[fds[s]] \in Clients
  BY <1>3, <1>4, <1>5, <1>6
<1>8. \A s \in Slots : s > 0 /\ s \notin Used' => arr_ssl'[s] = 0 /\ fds'[s] = -1
  BY <1>3, <1>4, <1>5
<1>9. fds'[0] = SockServer /\ arr_ssl'[0] = SockServer
  BY <1>2, <1>3, <1>5
<1>10. TablesAgree' /\ SlotsSound'
  BY <1>1, <1>5, <1>6, <1>7, <1>8, <1>9, EntriesNext
<1> QED
  BY <1>3, <1>4, <1>6, <1>10

\* The last entry moves into the place of the one that is closed.
LEMMA DisconnectEntries ==
  ASSUME IInv, Disconnect, TypeOK'
  PROVE  /\ TablesAgree' /\ SlotsSound'
         /\ \A s \in Used' : s \in Used /\ s < nfds - 1
         /\ \A s \in Used' : s /= i => fds'[s] = fds[s] /\ files'[fds[s]] = files[fds[s]]
         /\ \A s \in Used : s /= i =>
              \E t \in Used' : fds'[t] = fds[s] /\ files'[fds[s]] = files[fds[s]]
         /\ \A t \in Used' :
              \E s \in Used : s /= i /\ fds'[t] = fds[s] /\ files'[fds[s]] = files[fds[s]]
<1>1. /\ pc = "scan" /\ pc' = "scan" /\ nfds' = nfds - 1 /\ acceptQ' = acceptQ
      /\ CloseFd(fds[i]) /\ AtRead
      /\ fds' = [fds EXCEPT ![i] = fds[nfds - 1], ![nfds - 1] = -1]
      /\ arr_ssl' = [arr_ssl EXCEPT ![i] = arr_ssl[nfds - 1], ![nfds - 1] = 0]
  BY DEF Disconnect, Drop, AtRead
<1>2. PICK n : n = nfds - 1
  OBVIOUS
<1>3. /\ Alive /\ i \in Used /\ i \in Slots /\ i \in Nat /\ i < nfds /\ i >= 1
      /\ nfds \in Nat /\ nfds <= MaxConnection
      /\ fds \in [Slots -> Fd \cup {-1}] /\ arr_ssl \in [Slots -> Fd \cup {0}] /\ 0 \in Slots
  BY <1>1, ServedConn, UsedFacts DEF IInv, TablesAgree, TypeOK, Slots
<1>4. n \in Used /\ n \in Slots /\ n \in Nat /\ n >= 1 /\ i <= n
  BY <1>2, <1>3 DEF Used, Slots
<1>5. Used \subseteq Slots /\ \A s \in Used : s > 0 /\ s \in Nat /\ s <= n
  BY <1>1, <1>2, <1>3 DEF Used, Slots
<1>6. Used' = Used \ {n}
  BY <1>1, <1>2, <1>3, <1>4 DEF Used, Slots
<1>7. /\ fds'[n] = -1 /\ arr_ssl'[n] = 0
      /\ i /= n => fds'[i] = fds[n] /\ arr_ssl'[i] = arr_ssl[n]
      /\ \A s \in Slots : s /= n /\ s /= i => fds'[s] = fds[s] /\ arr_ssl'[s] = arr_ssl[s]
  BY <1>1, <1>2, <1>3, <1>4
<1>8. /\ fds[0] = SockServer /\ arr_ssl[0] = SockServer
      /\ \A s \in Used : arr_ssl[s] = fds[s] /\ fds[s] \in Fd /\ files[fds[s]] \in Clients
      /\ \A s \in Slots : s > 0 /\ s \notin Used => arr_ssl[s] = 0 /\ fds[s] = -1
      /\ \A s, t \in Used : s /= t => fds[s] /= fds[t]
  BY <1>3, EntriesNow
<1>9. /\ files'[SockServer] = "listener"
      /\ \A s \in Used : s /= i => files'[fds[s]] = files[fds[s]]
  BY <1>1, <1>3, CloseEntry DEF Conn
<1>10. \A s \in Used' : s /= i => fds'[s] = fds[s] /\ files'[fds[s]] = files[fds[s]] /\ arr_ssl'[s] = fds[s]
  BY <1>5, <1>6, <1>7, <1>8, <1>9
<1>11. i /= n => fds'[i] = fds[n] /\ arr_ssl'[i] = fds[n] /\ files'[fds[n]] = files[fds[n]]
  BY <1>4, <1>7, <1>8, <1>9
<1>12. \A s \in Used' : arr_ssl'[s] = fds'[s] /\ fds'[s] \in Fd /\ files'[fds'[s]] \in Clients
  BY <1>4, <1>6, <1>8, <1>10, <1>11
<1>13. \A s \in Slots : s > 0 /\ s \notin Used' => arr_ssl'[s] = 0 /\ fds'[s] = -1
  BY <1>3, <1>6, <1>7, <1>8
<1>14. \A s, t \in Used' : s /= t => fds'[s] /= fds'[t]
  BY <1>4, <1>6, <1>8, <1>10, <1>11
<1>15. fds'[0] = SockServer /\ arr_ssl'[0] = SockServer
  BY <1>3, <1>4, <1>7, <1>8
<1>16. TablesAgree' /\ SlotsSound'
  BY <1>1, <1>9, <1>12, <1>13, <1>14, <1>15, EntriesNext
<1>17. ASSUME NEW s \in Used, s /= i
       PROVE  \E t \in Used' : fds'[t] = fds[s] /\ files'[fds[s]] = files[fds[s]]
  <2>1. CASE s = n
    BY <1>3, <1>6, <1>11, <1>17, <2>1
  <2>2. CASE s /= n
    BY <1>6, <1>10, <1>17, <2>2
  <2> QED
    BY <2>1, <2>2
<1>18. \A s \in Used' : s \in Used /\ s < nfds - 1
  BY <1>2, <1>4, <1>5, <1>6
<1>19. ASSUME NEW t \in Used'
       PROVE  \E s \in Used : s /= i /\ fds'[t] = fds[s] /\ files'[fds[s]] = files[fds[s]]
  <2>1. CASE t = i
    BY <1>4, <1>6, <1>9, <1>11, <1>19, <2>1
  <2>2. CASE t /= i
    BY <1>6, <1>10, <1>19, <2>2
  <2> QED
    BY <2>1, <2>2
<1> QED
  BY <1>10, <1>16, <1>17, <1>18, <1>19

\* The entries agree with each other and with the descriptor table after every
\* step.
LEMMA NextEntries ==
  ASSUME IInv, [Next]_vars
  PROVE  TablesAgree' /\ SlotsSound'
<1>1. TypeOK' /\ TypeOK /\ SlotsSound
  BY NextType DEF IInv, TablesAgree
<1>2. CASE Poll \/ EndScan \/ Skip \/ AcceptFails \/ Reply
  <2>1. /\ UNCHANGED <<files, fds, arr_ssl, nfds>> /\ pc \in {"poll", "scan", "reply"}
        /\ pc' \in {"poll", "scan"}
    <3>1. CASE Poll
      BY <3>1, Zenon DEF Poll, netVars
    <3> QED
      BY <1>2, <3>1 DEF EndScan, Skip, AcceptFails, AtListener, Reply, netVars
  <2>2. Used' = Used
    BY <2>1 DEF Used
  <2> QED
    BY <1>1, <2>1, <2>2, EntriesFrame DEF Alive
<1>3. CASE PollFails \/ KilledBySigpipe
  BY <1>1, <1>3, EntriesNext DEF PollFails, KilledBySigpipe, Alive
<1>4. CASE Accept
  BY <1>1, <1>4, AcceptEntries
<1>5. CASE HandshakeDone
  <2>1. /\ UNCHANGED <<files, fds, arr_ssl>> /\ pc = "handshake" /\ pc' = "scan" /\ nfds' = nfds + 1
    BY <1>5 DEF HandshakeDone
  <2>2. Used' = Used
    BY <1>1, <2>1 DEF Used, TypeOK, Slots
  <2> QED
    BY <1>1, <2>1, <2>2, EntriesFrame DEF Alive
<1>6. CASE HandshakeFails
  BY <1>1, <1>6, HandshakeFailsEntries
<1>7. CASE ReadLine
  <2>1. /\ UNCHANGED <<files, fds, arr_ssl, nfds, i>> /\ pc = "scan" /\ pc' = "reply" /\ AtRead
    BY <1>7 DEF ReadLine, AtRead
  <2>2. Used' = Used /\ i \in Used
    BY <2>1, ServedConn DEF Used
  <2> QED
    BY <1>1, <2>1, <2>2, EntriesFrame DEF Alive
<1>8. CASE Disconnect
  BY <1>1, <1>8, DisconnectEntries
<1>9. ASSUME files' = files, UNCHANGED serverVars PROVE TablesAgree' /\ SlotsSound'
  <2>1. Used' = Used /\ UNCHANGED <<files, fds, arr_ssl, nfds, i, pc>>
    BY <1>9 DEF Used, serverVars
  <2>2. (Alive => Alive') /\ (Alive' => Alive)
    BY <2>1 DEF Alive
  <2>3. CASE Alive
    BY <1>1, <2>1, <2>2, <2>3, EntriesFrame DEF SlotsSound
  <2>4. CASE ~Alive
    BY <1>1, <2>2, <2>4, EntriesNext
  <2> QED
    BY <2>3, <2>4
<1>10. CASE \E c \in Clients : ClientStep(c) /\ UNCHANGED serverVars
  BY <1>1, <1>9, <1>10, ClientSockets
<1>11. CASE UNCHANGED vars
  BY <1>9, <1>11 DEF vars, netVars
<1> QED
  BY <1>2, <1>3, <1>4, <1>5, <1>6, <1>7, <1>8, <1>10, <1>11 DEF Next, ServerStep

---------------------------------------------------------------------------
\* What a read or a write of connection c leaves of the others.
LEMMA OtherEntries ==
  ASSUME IInv, Alive, NEW e \in Used, NEW s \in Used, s /= e
  PROVE  Conn(s) \in Clients /\ Conn(s) /= Conn(e)
BY EntriesNow DEF Conn

\* A step of the server that leaves the records of a connection leaves it as
\* readable as it was.
LEMMA StaysReadable ==
  ASSUME IInv, ServerStep, NEW c \in Clients, inbox'[c] = inbox[c], StreamReadable(c)
  PROVE  StreamReadable(c)'
<1>1. peer'[c] = "up" <=> peer[c] = "up"
  BY ServerStepSockets, SocketStepSound DEF IInv, TablesAgree, TypeOK
<1> QED
  BY <1>1 DEF StreamReadable

\* The scan is never misled by an old revents, whatever the step.
LEMMA NextRevents ==
  ASSUME IInv, [Next]_vars
  PROVE  ReventsSound'
<1>1. TypeOK /\ NetTypeOK /\ ReventsSound /\ StreamsSound
  BY DEF IInv, TablesAgree, TypeOK
<1>2. /\ nfds \in Nat /\ nfds >= 1 /\ nfds <= MaxConnection /\ i \in Nat
      /\ revents \in [Slots -> BOOLEAN] /\ Slots \subseteq Nat
  BY <1>1 DEF TypeOK, Slots
<1>3. /\ \A s \in Monitored : s \in Used /\ s \in Slots /\ s < nfds
      /\ \A s \in Used : s \in Monitored \/ (s = nfds /\ pc = "handshake")
  BY <1>1, MonitoredUsed
<1>4. CASE Poll
  <2>1. /\ pc = "poll" /\ pc' = "scan" /\ UNCHANGED <<netVars, fds, nfds>>
        /\ revents' = [s \in Slots |-> fds[s] /= -1 /\ Readable(fds[s])]
    BY <1>4, Zenon DEF Poll
  <2>2. \A s \in Slots : revents'[s] => fds[s] /= -1 /\ Readable(fds[s])
    BY <2>1, Zenon
  <2>3. Alive /\ \A s \in Slots : s > 0 /\ s \notin Used => fds[s] = -1
    BY <2>1, EntriesNow DEF Alive
  <2>4. \A s \in Slots : s >= nfds => ~revents'[s]
    BY <1>2, <2>1, <2>2, <2>3 DEF Used
  <2>5. \A s \in Monitored : revents'[s] => StreamReadable(Conn(s))
    BY <1>3, <2>2, <2>3, UsedFacts, EntriesNow DEF Readable, Conn, IInv
  <2>6. Monitored' = Monitored /\ \A s \in Monitored : StreamReadable(Conn(s)) => StreamReadable(Conn(s))'
    BY <2>1 DEF Monitored, StreamReadable, Conn, netVars
  <2> QED
    BY <2>1, <2>4, <2>5, <2>6 DEF ReventsSound
<1>5. CASE EndScan \/ PollFails \/ KilledBySigpipe
  BY <1>5 DEF EndScan, PollFails, KilledBySigpipe, ReventsSound
<1>6. CASE Skip \/ AcceptFails \/ Reply
  <2>1. /\ pc \in {"scan", "reply"} /\ pc' = "scan" /\ i' = i + 1
        /\ UNCHANGED <<files, inbox, fds, revents, nfds>>
    BY <1>6 DEF Skip, AcceptFails, AtListener, Reply, netVars
  <2>2. Monitored' = Monitored /\ i' /= 0 /\ \A s \in Monitored : s > i' \/ s = i' => s > i
    BY <1>2, <1>3, <2>1 DEF Monitored
  <2>3. ASSUME NEW s \in Monitored, StreamReadable(Conn(s)) PROVE StreamReadable(Conn(s))'
    <3>1. Conn(s) \in Clients
      BY <1>3, <2>1, UsedFacts DEF IInv, Alive
    <3>2. PICK c \in Clients : c = Conn(s) /\ c = Conn(s)'
      BY <2>1, <3>1 DEF Conn
    <3> QED
      BY <1>6, <2>1, <2>3, <3>2, StaysReadable DEF ServerStep
  <2> QED
    BY <1>1, <2>1, <2>2, <2>3 DEF ReventsSound
<1>7. CASE Accept
  <2>1. /\ pc = "scan" /\ pc' \in {"scan", "handshake"} /\ i = 0 /\ Alive
        /\ i' \in {i, i + 1} /\ (pc' = "scan" => i' = i + 1)
        /\ UNCHANGED <<inbox, peer, revents, nfds>>
    BY <1>7, AtEntry0 DEF Accept, AtListener
  <2>2. \A s \in Used : fds'[s] = fds[s] /\ files'[fds[s]] = files[fds[s]]
    BY <1>7, NextType, AcceptEntries DEF Next, ServerStep
  <2>3. Monitored' = Monitored /\ \A s \in Monitored : StreamReadable(Conn(s)) => StreamReadable(Conn(s))'
    BY <1>3, <2>1, <2>2 DEF Monitored, StreamReadable, Conn
  <2>4. \A s \in Monitored : s > i' \/ (s = i' /\ pc' = "scan") => s > i
    BY <1>2, <1>3, <2>1 DEF Monitored
  <2>5. \A s \in Slots : s >= nfds => ~revents[s]
    BY <1>1, <2>1 DEF ReventsSound
  <2> QED
    BY <1>1, <2>1, <2>3, <2>4, <2>5 DEF ReventsSound
<1>8. CASE HandshakeDone
  <2>1. /\ pc = "handshake" /\ pc' = "scan" /\ i' = i + 1 /\ nfds' = nfds + 1
        /\ UNCHANGED <<files, fds, revents>>
        /\ inbox' = [inbox EXCEPT ![Conn(nfds)] = Tail(@)]
    BY <1>8 DEF HandshakeDone
  <2>2. i = 0 /\ nfds \in Used /\ Alive /\ nfds \in Slots
    BY <2>1, NewEntry
  <2>3. ~revents[nfds]
    BY <1>1, <1>2, <2>1, <2>2 DEF ReventsSound
  <2>4. \A s \in Monitored' : s = nfds \/ (s \in Monitored /\ s > i)
    BY <1>2, <2>1, <2>2 DEF Monitored
  <2>5. ASSUME NEW s \in Monitored, StreamReadable(Conn(s)) PROVE StreamReadable(Conn(s))'
    <3>1. s \in Used /\ s /= nfds
      BY <1>2, <1>3
    <3>2. Conn(s) \in Clients /\ Conn(s) /= Conn(nfds)
      BY <2>2, <3>1, OtherEntries
    <3>3. PICK c \in Clients : c = Conn(s) /\ c = Conn(s)' /\ c /= Conn(nfds)
      BY <2>1, <3>2 DEF Conn
    <3>4. inbox'[c] = inbox[c]
      BY <1>1, <2>1, <3>3 DEF NetTypeOK
    <3> QED
      BY <1>8, <2>5, <3>3, <3>4, StaysReadable DEF ServerStep
  <2>6. pc' /= "handshake" /\ i' /= 0
    BY <1>2, <2>1
  <2> QED
    BY <1>1, <2>1, <2>3, <2>4, <2>5, <2>6 DEF ReventsSound
<1>9. CASE HandshakeFails
  <2>1. /\ pc = "handshake" /\ pc' = "scan" /\ i' = i + 1 /\ nfds' = nfds
        /\ CloseFd(fds[nfds]) /\ acceptQ' = acceptQ /\ revents' = revents
    BY <1>9 DEF HandshakeFails
  <2>2. i = 0 /\ nfds \in Used /\ Alive
    BY <2>1, NewEntry
  <2>3. \A s \in Used : s /= nfds => fds'[s] = fds[s] /\ files'[fds[s]] = files[fds[s]]
    BY <1>9, NextType, HandshakeFailsEntries DEF Next, ServerStep
  <2>4. Monitored' = Monitored /\ \A s \in Monitored : s > i /\ s /= nfds
    BY <1>2, <1>3, <2>1, <2>2 DEF Monitored
  <2>5. ASSUME NEW s \in Monitored, StreamReadable(Conn(s)) PROVE StreamReadable(Conn(s))'
    <3>1. PICK c \in Clients : c = Conn(s) /\ c = Conn(s)' /\ inbox'[c] = inbox[c]
      BY <1>3, <2>1, <2>2, <2>3, <2>4, OtherEntries, CloseEntry DEF Conn
    <3> QED
      BY <1>9, <2>5, <3>1, StaysReadable DEF ServerStep
  <2>6. pc' /= "handshake" /\ i' /= 0
    BY <1>2, <2>1
  <2> QED
    BY <1>1, <2>1, <2>4, <2>5, <2>6 DEF ReventsSound
<1>10. CASE ReadLine
  <2>1. /\ AtRead /\ pc = "scan" /\ pc' = "reply" /\ UNCHANGED <<files, fds, revents, nfds, i>>
        /\ inbox' = [inbox EXCEPT ![Reading] = Tail(@)]
    BY <1>10 DEF ReadLine, AtRead
  <2>2. i \in Used /\ Alive /\ Reading = Conn(i)
    BY <2>1, ServedConn
  <2>3. Monitored' = Monitored
    BY <2>1 DEF Monitored
  <2>4. ASSUME NEW s \in Monitored, s > i, StreamReadable(Conn(s)) PROVE StreamReadable(Conn(s))'
    <3>1. s \in Used /\ s /= i
      BY <1>2, <1>3, <2>4
    <3>2. Conn(s) \in Clients /\ Conn(s) /= Conn(i)
      BY <2>2, <3>1, OtherEntries
    <3>3. PICK c \in Clients : c = Conn(s) /\ c = Conn(s)' /\ c /= Reading
      BY <2>1, <2>2, <3>2 DEF Conn
    <3>4. inbox'[c] = inbox[c]
      BY <1>1, <2>1, <3>3 DEF NetTypeOK
    <3> QED
      BY <1>10, <2>4, <3>3, <3>4, StaysReadable DEF ServerStep
  <2> QED
    BY <1>1, <2>1, <2>3, <2>4 DEF ReventsSound
<1>11. CASE Disconnect
  <2>1. /\ AtRead /\ pc = "scan" /\ pc' = "scan" /\ i' = i + 1 /\ nfds' = nfds - 1
        /\ CloseFd(fds[i]) /\ acceptQ' = acceptQ /\ revents' = revents
    BY <1>11 DEF Disconnect, Drop, AtRead
  <2>2. i \in Used /\ Alive
    BY <2>1, ServedConn
  <2>3. TypeOK' /\ \A s \in Used' : s /= i => s \in Used /\ fds'[s] = fds[s] /\ files'[fds[s]] = files[fds[s]]
    BY <1>11, NextType, DisconnectEntries DEF Next, ServerStep
  <2>4. \A s \in Monitored' : s \in Monitored /\ s \in Used'
    BY <1>2, <2>1, <2>3 DEF Monitored, Used, Slots, TypeOK
  <2>5. ASSUME NEW s \in Monitored', s > i, StreamReadable(Conn(s)) PROVE StreamReadable(Conn(s))'
    <3>1. s \in Used' /\ s \in Used /\ s /= i
      BY <1>2, <1>3, <2>4, <2>5
    <3>2. PICK c \in Clients : c = Conn(s) /\ c = Conn(s)' /\ inbox'[c] = inbox[c]
      BY <2>1, <2>2, <2>3, <3>1, OtherEntries, CloseEntry DEF Conn
    <3> QED
      BY <1>11, <2>5, <3>2, StaysReadable DEF ServerStep
  <2>6. ASSUME NEW s \in Monitored', s > i' \/ s = i' PROVE s > i
    <3>1. s \in Nat /\ i' = i + 1
      BY <1>2, <1>3, <2>1, <2>4
    <3> QED
      BY <1>2, <2>6, <3>1
  <2>7. pc' /= "handshake" /\ i' /= 0
    BY <1>2, <2>1
  <2> QED
    BY <1>1, <2>1, <2>4, <2>5, <2>6, <2>7 DEF ReventsSound
<1>12. ASSUME NEW c \in Clients, ClientStep(c), UNCHANGED serverVars PROVE ReventsSound'
  <2>1. UNCHANGED <<files, pc, fds, revents, nfds, i>> /\ Monitored' = Monitored
    BY <1>1, <1>12, ClientSockets DEF serverVars, Monitored
  <2>2. ASSUME NEW s \in Monitored, pc \in {"scan", "handshake", "reply"}, StreamReadable(Conn(s))
        PROVE  StreamReadable(Conn(s))'
    <3>1. Conn(s) \in Clients /\ Held(Conn(s))
      BY <1>3, <2>2, UsedFacts DEF IInv, Alive
    <3>2. PICK d \in Clients : d = Conn(s) /\ d = Conn(s)' /\ Attached(d)
      BY <2>1, <3>1 DEF Conn, Attached
    <3> QED
      BY <1>1, <1>12, <2>2, <3>2, ClientPeers
  <2> QED
    BY <1>1, <2>1, <2>2 DEF ReventsSound
<1>13. CASE UNCHANGED vars
  BY <1>1, <1>13 DEF vars, netVars, serverVars, ReventsSound, Monitored, StreamReadable, Conn
<1> QED
  BY <1>4, <1>5, <1>6, <1>7, <1>8, <1>9, <1>10, <1>11, <1>12, <1>13 DEF Next, ServerStep

---------------------------------------------------------------------------
\* A connection whose records and peer a step leaves alone or clears keeps to
\* one exchange.
LEMMA ExchangeKept ==
  ASSUME NEW c \in Clients, ExchangeOf(c, Serving(c)), client' = client,
         inbox'[c] = inbox[c] \/ inbox'[c] = <<>>, peer'[c] = peer[c], outbox'[c] = outbox[c],
         Serving(c)' => Serving(c)
  PROVE  ExchangeOf(c, Serving(c))'
<1>1. Len(<<>>) = 0
  BY EmptySeq
<1> QED
  BY <1>1 DEF ExchangeOf

\* The exchanges that a step of the server continues.
LEMMA ServerExchanges ==
  ASSUME IInv, ServerStep
  PROVE  ExchangesSound'
<1>1. TypeOK /\ NetTypeOK /\ ExchangesSound /\ client' = client
  BY ServerStepSockets DEF IInv, TablesAgree, TypeOK
<1> SUFFICES ASSUME NEW c \in Clients \ Eager PROVE ExchangeOf(c, Serving(c))'
  BY DEF ExchangesSound
<1>2. ExchangeOf(c, Serving(c)) /\ c \in Clients
  BY <1>1 DEF ExchangesSound
<1>3. ASSUME inbox'[c] = inbox[c] \/ inbox'[c] = <<>>, peer'[c] = peer[c], outbox'[c] = outbox[c],
             Serving(c)' => Serving(c)
      PROVE  ExchangeOf(c, Serving(c))'
  BY <1>1, <1>2, <1>3, ExchangeKept
<1>4. CASE Poll \/ EndScan \/ Skip \/ AcceptFails \/ Accept
  <2>1. UNCHANGED <<inbox, peer, outbox>> /\ pc' /= "reply"
    <3>1. CASE Poll
      BY <3>1, Zenon DEF Poll, netVars
    <3> QED
      BY <1>4, <3>1 DEF EndScan, Skip, AcceptFails, Accept, AtListener, netVars
  <2> QED
    BY <1>3, <2>1 DEF Serving
<1>5. CASE PollFails \/ KilledBySigpipe
  <2>1. inbox'[c] = <<>> /\ UNCHANGED <<peer, outbox>> /\ pc' /= "reply"
    BY <1>2, <1>5 DEF PollFails, KilledBySigpipe, CloseAll
  <2> QED
    BY <1>3, <2>1 DEF Serving
<1>6. CASE HandshakeDone
  <2>1. PICK d : d = Conn(nfds)
    OBVIOUS
  <2>2. /\ inbox[d] /= <<>> /\ inbox' = [inbox EXCEPT ![d] = Tail(@)] /\ SendOk(d) /\ pc' = "scan" /\ pc = "handshake"
    BY <1>6, <2>1 DEF HandshakeDone
  <2>3. d \in Clients
    BY <2>1, <2>2, NewEntry
  <2>4. ~Serving(c)'
    BY <2>2 DEF Serving
  <2>5. CASE c /= d
    BY <1>1, <1>2, <1>3, <2>2, <2>3, <2>4, <2>5, SendStreams DEF NetTypeOK
  <2>6. CASE c = d
    <3>1. Len(inbox[c]) \in Nat /\ Len(inbox[c]) /= 0 /\ Len(inbox[c]) <= 1 /\ outbox[c] = 0
      BY <1>1, <1>2, <2>2, <2>6, QueueLength DEF ExchangeOf
    <3>2. Tail(inbox[c]) \in Seq(Messages) /\ Len(Tail(inbox[c])) = 0
      <4>1. inbox[c] /= <<>>
        BY <2>2, <2>6
      <4>2. Tail(inbox[c]) \in Seq(Messages) /\ Len(Tail(inbox[c])) = Len(inbox[c]) - 1
        BY <1>1, <1>2, <4>1, TailQueue
      <4>3. \A n \in Nat : n /= 0 /\ n <= 1 => n = 1
        OBVIOUS
      <4>4. Len(inbox[c]) = 1
        BY <3>1, <4>3, Zenon
      <4> QED
        BY <4>2, <4>4
    <3>3. inbox'[c] = <<>> /\ Len(inbox'[c]) = 0
      BY <1>1, <2>2, <2>6, <3>2, EmptySeq DEF NetTypeOK
    <3>4. outbox'[c] \in {0, 1}
      BY <1>1, <2>2, <2>3, <2>6, <3>1, SendStreams
    <3>5. client'[c] \notin {"off", "connected", "ready"}
      BY <1>1, <1>2, <2>2, <2>6 DEF ExchangeOf
    <3> QED
      BY <2>4, <3>3, <3>4, <3>5 DEF ExchangeOf
  <2> QED
    BY <2>5, <2>6
<1>7. ASSUME NEW e \in Used, Alive, CloseFd(fds[e]), acceptQ' = acceptQ, UNCHANGED <<peer, outbox>>,
             pc' /= "reply"
      PROVE  ExchangeOf(c, Serving(c))'
  <2>1. inbox'[c] = <<>> \/ inbox'[c] = inbox[c]
    BY <1>2, <1>7, CloseEntry
  <2> QED
    BY <1>3, <1>7, <2>1 DEF Serving
<1>8. CASE HandshakeFails
  BY <1>7, <1>8, NewEntry DEF HandshakeFails
<1>9. CASE Disconnect
  BY <1>7, <1>9, ServedConn DEF Disconnect, Drop
<1>10. CASE ReadLine
  <2>1. PICK d : d = Reading
    OBVIOUS
  <2>2. /\ AtRead /\ inbox[d] /= <<>> /\ inbox' = [inbox EXCEPT ![d] = Tail(@)]
        /\ UNCHANGED <<files, arr_ssl, i, peer, outbox>> /\ pc = "scan"
    BY <1>10, <2>1 DEF ReadLine, AtRead
  <2>3. d \in Clients /\ Reading' = d
    BY <2>1, <2>2, ServedConn DEF Reading
  <2>4. CASE c /= d
    BY <1>1, <1>2, <1>3, <2>2, <2>3, <2>4 DEF NetTypeOK, Serving
  <2>5. CASE c = d
    <3>1. Len(inbox[c]) \in Nat /\ Len(inbox[c]) /= 0 /\ Len(inbox[c]) <= 1 /\ outbox[c] = 0
      BY <1>1, <1>2, <2>2, <2>5, QueueLength DEF ExchangeOf
    <3>2. Tail(inbox[c]) \in Seq(Messages) /\ Len(Tail(inbox[c])) = 0
      <4>1. inbox[c] /= <<>>
        BY <2>2, <2>5
      <4>2. Tail(inbox[c]) \in Seq(Messages) /\ Len(Tail(inbox[c])) = Len(inbox[c]) - 1
        BY <1>1, <1>2, <4>1, TailQueue
      <4>3. \A n \in Nat : n /= 0 /\ n <= 1 => n = 1
        OBVIOUS
      <4>4. Len(inbox[c]) = 1
        BY <3>1, <4>3, Zenon
      <4> QED
        BY <4>2, <4>4
    <3>3. inbox'[c] = <<>> /\ Len(inbox'[c]) = 0
      BY <1>1, <2>2, <2>5, <3>2, EmptySeq DEF NetTypeOK
    <3>4. outbox'[c] = 0 /\ peer'[c] /= "broken" /\ client'[c] \notin {"off", "connected", "ready"}
      BY <1>1, <1>2, <2>2, <2>5, <3>1 DEF ExchangeOf
    <3> QED
      BY <3>3, <3>4 DEF ExchangeOf
  <2> QED
    BY <2>4, <2>5
<1>11. CASE Reply
  <2>1. PICK d : d = Reading
    OBVIOUS
  <2>2. /\ pc = "reply" /\ pc' = "scan" /\ inbox' = inbox
        /\ SendOk(d) \/ SendFails(d) \/ UNCHANGED <<peer, outbox>>
    BY <1>11, <2>1 DEF Reply
  <2>3. d \in Clients /\ ~Serving(c)'
    BY <2>1, <2>2, ServedConn DEF Serving
  <2>4. CASE c /= d \/ UNCHANGED <<peer, outbox>>
    BY <1>1, <1>2, <1>3, <2>2, <2>3, <2>4, SendStreams
  <2>5. CASE c = d /\ (SendOk(d) \/ SendFails(d))
    <3>1. Serving(c) /\ outbox[c] \in Nat
      BY <1>1, <1>2, <2>1, <2>2, <2>5 DEF Serving, NetTypeOK
    <3>2. inbox[c] = <<>> /\ outbox[c] <= 1 /\ outbox[c] /= 1 /\ client[c] \notin {"off", "connected", "ready"}
      BY <1>2, <3>1 DEF ExchangeOf
    <3>3. outbox'[c] \in {0, 1}
      BY <1>1, <2>3, <2>5, <3>1, <3>2, SendStreams
    <3> QED
      BY <1>1, <2>2, <2>3, <3>2, <3>3, EmptySeq DEF ExchangeOf
  <2> QED
    BY <2>2, <2>4, <2>5
<1> QED
  BY <1>4, <1>5, <1>6, <1>8, <1>9, <1>10, <1>11 DEF ServerStep

\* The exchange that a step of its own client continues.
LEMMA ClientExchange ==
  ASSUME IInv, NEW c \in Clients \ Eager, ClientStep(c), Serving(c)' <=> Serving(c)
  PROVE  ExchangeOf(c, Serving(c))'
<1>1. /\ TypeOK /\ NetTypeOK /\ StreamsSound /\ c \in Clients /\ c \notin Eager
      /\ ExchangeOf(c, Serving(c))
      /\ client \in [Clients -> {"off", "connected", "hello", "ready", "sending", "waiting", "done"}]
      /\ outbox \in [Clients -> Nat] /\ peer \in [Clients -> PeerState] /\ inbox \in [Clients -> Seq(Messages)]
  BY DEF IInv, TablesAgree, TypeOK, NetTypeOK, ExchangesSound
<1>2. Len(inbox[c]) \in Nat /\ (Len(inbox[c]) = 0 <=> inbox[c] = <<>>) /\ outbox[c] \in Nat
  BY <1>1, QueueLength
<1>3. CASE Connect(c)
  <2>1. client[c] = "off" /\ client'[c] = "connected" /\ peer'[c] = "up" /\ UNCHANGED <<inbox, outbox>>
    BY <1>1, <1>3 DEF Connect, Goes
  <2> QED
    BY <1>1, <2>1 DEF ExchangeOf
<1>4. ASSUME NEW r \in Records, Transmit(c, r), client[c] \in {"connected", "ready"},
             client'[c] \in {"hello", "waiting", "sending"}, UNCHANGED <<peer, outbox>>
      PROVE  ExchangeOf(c, Serving(c))'
  <2>1. inbox[c] = <<>> /\ Len(inbox[c]) = 0 /\ outbox[c] = 0 /\ ~Serving(c)
    BY <1>1, <1>2, <1>4 DEF ExchangeOf
  <2>2. peer[c] /= "broken"
    BY <1>1, <1>4 DEF StreamsSound
  <2>3. Len(inbox'[c]) <= 1
    <3>1. inbox'[c] = inbox[c] \/ inbox'[c] = Append(inbox[c], r)
      BY <1>1, <1>4 DEF Transmit
    <3>2. r \in Messages
      BY SslAssumption
    <3>3. Len(Append(inbox[c], r)) = 1
      BY <1>1, <2>1, <3>2, AppendedQueue
    <3>4. CASE inbox'[c] = inbox[c]
      BY <2>1, <3>4
    <3>5. CASE inbox'[c] = Append(inbox[c], r)
      BY <3>3, <3>5
    <3> QED
      BY <3>1, <3>4, <3>5
  <2> QED
    BY <1>4, <2>1, <2>2, <2>3 DEF ExchangeOf
<1>5. CASE Hello(c)
  <2>1. client[c] = "connected" /\ client'[c] = "hello" /\ UNCHANGED <<peer, outbox>> /\ Transmit(c, "hello")
    BY <1>1, <1>5 DEF Hello, Goes
  <2> QED
    BY <1>4, <2>1 DEF Records
<1>6. CASE Write(c)
  <2>1. /\ client[c] = "ready" /\ client'[c] \in {"waiting", "sending"} /\ UNCHANGED <<peer, outbox>>
        /\ Transmit(c, "line") \/ Transmit(c, "part")
    BY <1>1, <1>6 DEF Write, Goes
  <2> QED
    BY <1>4, <2>1 DEF Records
<1>7. CASE HelloDone(c) \/ Read(c)
  <2>1. /\ outbox[c] > 0 /\ outbox' = [outbox EXCEPT ![c] = @ - 1] /\ UNCHANGED <<peer, inbox>>
    BY <1>7 DEF HelloDone, Read
  <2>2. outbox[c] = 1
    BY <1>1, <1>2, <2>1 DEF ExchangeOf
  <2>3. inbox[c] = <<>> /\ ~Serving(c)
    BY <1>1, <2>2 DEF ExchangeOf
  <2>4. outbox'[c] = 0
    BY <1>1, <2>1, <2>2
  <2> QED
    BY <1>2, <2>1, <2>3, <2>4 DEF ExchangeOf
<1>8. CASE HelloFails(c)
  <2>1. client'[c] = "done" /\ UNCHANGED <<inbox, outbox, peer>>
    BY <1>1, <1>8 DEF HelloFails, Goes, netVars
  <2> QED
    BY <1>1, <2>1 DEF ExchangeOf
<1>9. CASE RestArrives(c)
  <2>1. /\ client'[c] = "waiting" /\ UNCHANGED <<outbox, peer>>
        /\ inbox' = IF inbox[c] = <<"part">> THEN [inbox EXCEPT ![c] = <<"line">>] ELSE inbox
    BY <1>1, <1>9 DEF RestArrives, Goes
  <2>2. CASE inbox[c] = <<"part">>
    <3>1. inbox'[c] = <<"line">> /\ inbox[c] /= <<>>
      BY <1>1, <2>1, <2>2
    <3>2. Len(inbox'[c]) = 1
      BY <3>1
    <3>3. outbox[c] = 0 /\ ~Serving(c) /\ peer[c] /= "broken"
      BY <1>1, <3>1 DEF ExchangeOf
    <3>4. outbox'[c] = 0 /\ ~Serving(c)' /\ peer'[c] /= "broken" /\ client'[c] = "waiting"
      BY <2>1, <3>3
    <3> QED
      BY <3>2, <3>4 DEF ExchangeOf
  <2>3. CASE inbox[c] /= <<"part">>
    BY <1>1, <2>1, <2>3 DEF ExchangeOf
  <2> QED
    BY <2>2, <2>3
<1>10. CASE ReadFails(c)
  <2>1. outbox[c] = 0 /\ ~Attached(c) /\ client'[c] = "ready" /\ UNCHANGED <<inbox, outbox, peer>>
    BY <1>1, <1>10 DEF ReadFails, Goes, netVars
  <2>2. inbox[c] = <<>>
    BY <1>1, <2>1 DEF StreamsSound
  <2>3. ~Serving(c)
    BY <2>1, ServedConn DEF Serving, Attached
  <2> QED
    BY <1>2, <2>1, <2>2, <2>3 DEF ExchangeOf
<1>11. CASE Leave(c)
  <2>1. client'[c] = "done" /\ peer'[c] /= "broken" /\ UNCHANGED <<inbox, outbox>>
    BY <1>1, <1>11 DEF Leave, PeerCloses
  <2> QED
    BY <1>1, <2>1 DEF ExchangeOf
<1> QED
  BY <1>1, <1>3, <1>5, <1>6, <1>7, <1>8, <1>9, <1>10, <1>11 DEF ClientStep, EagerWrite

\* The order of an exchange is kept by every step.
LEMMA NextExchanges ==
  ASSUME IInv, [Next]_vars
  PROVE  ExchangesSound'
<1>1. TypeOK /\ StreamsSound /\ ExchangesSound
  BY DEF IInv, TablesAgree
<1>2. ASSUME NEW d \in Clients, ClientStep(d), UNCHANGED serverVars, NEW c \in Clients \ Eager
      PROVE  ExchangeOf(c, Serving(c))'
  <2>1. files' = files /\ UNCHANGED serverVars
    BY <1>1, <1>2, ClientSockets
  <2>2. Serving(c)' <=> Serving(c)
    BY <2>1 DEF serverVars, Serving, Reading
  <2>3. CASE c = d
    BY <1>2, <2>2, <2>3, ClientExchange
  <2>4. CASE c /= d
    <3>1. inbox'[c] = inbox[c] /\ peer'[c] = peer[c] /\ outbox'[c] = outbox[c] /\ client'[c] = client[c]
      BY <1>1, <1>2, <2>4, ClientSockets, ClientQueue, ClientPeers
    <3>2. ExchangeOf(c, Serving(c))
      BY <1>1 DEF ExchangesSound
    <3> QED
      BY <2>2, <3>1, <3>2 DEF ExchangeOf
  <2> QED
    BY <2>3, <2>4
<1>3. CASE UNCHANGED vars
  BY <1>1, <1>3 DEF vars, netVars, serverVars, ExchangesSound, ExchangeOf, Serving, Reading
<1> QED
  BY <1>2, <1>3, ServerExchanges DEF Next, ExchangesSound

---------------------------------------------------------------------------
\* A connection is tracked exactly when an entry in use refers to it, before
LEMMA TrackedUsed ==
  ASSUME IInv, Alive, NEW c \in Clients, Tracked(c)
  PROVE  \E s \in Used : Conn(s) = c
BY MonitoredUsed, NewEntry DEF Tracked, IInv, TablesAgree

\* and after a step.
LEMMA UsedTracked ==
  ASSUME TypeOK', NEW c \in Clients, NEW s \in Used', files'[fds'[s]] = c
  PROVE  Tracked(c)'
<1>1. PICK n \in 1..MaxConnection : n = nfds'
  BY DEF TypeOK
<1>2. s \in Nat /\ s > 0 /\ (s < n \/ (s = n /\ pc' = "handshake"))
  BY <1>1 DEF Used, Slots
<1>3. s < n => s \in 1..(n - 1)
  BY <1>2
<1> QED
  BY <1>1, <1>2, <1>3 DEF Tracked, Monitored, Conn

\* What may happen to a connection in one step of the server.
Forgets(c) == pc' \notin {"exited", "killed"} /\ Tracked(c) /\ ~Tracked(c)'
Earned(c) ==
  /\ ~Held(c)'
  /\ \/ peer[c] /= "up"
     \/ inbox[c] /= <<>> /\ Head(inbox[c]) \in {"part", "quit", "junk"}
Arrives(c) == ~Held(c) /\ Held(c)'

\* Every step of the server keeps what it tracks, or closes it with reason.
LEMMA StepForgets ==
  ASSUME IInv, [Next]_vars, NEW c \in Clients
  PROVE  /\ Forgets(c) => Earned(c)
         /\ Arrives(c) => Tracked(c)' \/ nfds = MaxConnection
<1> DEFINE Goal == /\ Forgets(c) => Earned(c)
                   /\ Arrives(c) => Tracked(c)' \/ nfds = MaxConnection
<1>1. TypeOK /\ TypeOK' /\ ReventsSound
  BY NextType DEF IInv, TablesAgree
<1>2. ASSUME files' = files PROVE ~Arrives(c)
  BY <1>2 DEF Arrives, Held
<1>3. ASSUME files' = files, Used' = Used, fds' = fds, Alive \/ pc' = pc PROVE Goal
  <2>1. CASE Alive
    <3>1. ASSUME Tracked(c) PROVE Tracked(c)'
      <4>1. PICK s \in Used : Conn(s) = c
        BY <2>1, <3>1, TrackedUsed
      <4>2. s \in Used' /\ files'[fds'[s]] = c
        BY <1>3, <4>1 DEF Conn
      <4> QED
        BY <1>1, <4>2, UsedTracked
    <3> QED
      BY <1>2, <1>3, <3>1 DEF Forgets
  <2>2. CASE ~Alive
    BY <1>1, <1>2, <1>3, <2>2 DEF Forgets, Alive, TypeOK
  <2> QED
    BY <2>1, <2>2
<1>4. CASE Poll \/ EndScan \/ Skip \/ AcceptFails \/ ReadLine \/ Reply
  <2>1. /\ UNCHANGED <<files, fds, nfds>> /\ pc \in {"poll", "scan", "reply"}
        /\ pc' \in {"poll", "scan", "reply"}
    <3>1. CASE Poll
      BY <3>1, Zenon DEF Poll, netVars
    <3> QED
      BY <1>4, <3>1 DEF EndScan, Skip, AcceptFails, AtListener, ReadLine, AtRead, Reply, netVars
  <2>2. Used' = Used
    BY <2>1 DEF Used
  <2> QED
    BY <1>3, <2>1, <2>2 DEF Alive
<1>5. CASE PollFails \/ KilledBySigpipe
  <2>1. CloseAll /\ pc' \in {"exited", "killed"}
    BY <1>5 DEF PollFails, KilledBySigpipe
  <2> QED
    BY <2>1, CloseAllEnds DEF Forgets, Arrives
<1>6. CASE HandshakeDone
  <2>1. /\ UNCHANGED <<files, fds>> /\ pc = "handshake" /\ pc' = "scan" /\ nfds' = nfds + 1
    BY <1>6 DEF HandshakeDone
  <2>2. Used' = Used
    BY <1>1, <2>1 DEF Used, TypeOK, Slots
  <2> QED
    BY <1>3, <2>1, <2>2 DEF Alive
<1>7. CASE Accept
  <2>1. Alive
    BY <1>7, AtEntry0 DEF Accept
  <2>2. /\ \A s \in Used : s \in Used' /\ fds'[s] = fds[s] /\ files'[fds[s]] = files[fds[s]]
        /\ Arrives(c) => nfds = MaxConnection \/ (pc' = "handshake" /\ files'[fds'[nfds]] = c)
    BY <1>1, <1>7, AcceptEntries DEF Arrives
  <2>3. Tracked(c) => Tracked(c)'
    <3>1. ASSUME Tracked(c) PROVE \E s \in Used' : files'[fds'[s]] = c
      BY <2>1, <2>2, <3>1, TrackedUsed DEF Conn
    <3> QED
      BY <1>1, <3>1, UsedTracked
  <2>4. nfds' = nfds
    BY <1>7 DEF Accept
  <2>5. Arrives(c) => Tracked(c)' \/ nfds = MaxConnection
    BY <2>2, <2>4 DEF Tracked, Conn
  <2> QED
    BY <2>3, <2>5 DEF Forgets
<1>8. CASE HandshakeFails
  <2>1. /\ Alive /\ nfds \in Used /\ CloseFd(fds[nfds]) /\ acceptQ' = acceptQ
        /\ NoHandshake(Conn(nfds))
    BY <1>8, NewEntry DEF HandshakeFails
  <2>2. \A s \in Used : s /= nfds => s \in Used' /\ fds'[s] = fds[s] /\ files'[fds[s]] = files[fds[s]]
    BY <1>1, <1>8, HandshakeFailsEntries
  <2>3. ~Arrives(c)
    BY <2>1, CloseEntry DEF Arrives
  <2>4. CASE c = Conn(nfds)
    BY <2>1, <2>3, <2>4, CloseEntry DEF Earned, NoHandshake
  <2>5. ASSUME c /= Conn(nfds), Tracked(c) PROVE Tracked(c)'
    <3>1. \E s \in Used' : files'[fds'[s]] = c
      BY <2>1, <2>2, <2>5, TrackedUsed DEF Conn
    <3> QED
      BY <1>1, <3>1, UsedTracked
  <2> QED
    BY <2>3, <2>4, <2>5 DEF Forgets
<1>9. CASE Disconnect
  <2>1. /\ AtRead /\ CloseFd(fds[i]) /\ acceptQ' = acceptQ
        /\ inbox[Reading] /= <<>> => Head(inbox[Reading]) \in {"part", "quit", "junk"}
    BY <1>9 DEF Disconnect, Drop
  <2>2. Alive /\ i \in Used /\ i \in Monitored /\ Reading = Conn(i)
    BY <2>1, ServedConn
  <2>3. StreamReadable(Conn(i))
    BY <1>1, <2>1, <2>2 DEF ReventsSound, AtRead
  <2>4. \A s \in Used : s /= i => \E t \in Used' : fds'[t] = fds[s] /\ files'[fds[s]] = files[fds[s]]
    BY <1>1, <1>9, DisconnectEntries
  <2>5. ~Arrives(c)
    BY <2>1, <2>2, CloseEntry DEF Arrives
  <2>6. CASE c = Conn(i)
    <3>1. ~Held(c)'
      BY <2>1, <2>2, <2>6, CloseEntry
    <3> QED
      BY <2>1, <2>2, <2>3, <2>5, <2>6, <3>1 DEF Earned, StreamReadable
  <2>7. ASSUME c /= Conn(i), Tracked(c) PROVE Tracked(c)'
    <3>1. PICK s \in Used : Conn(s) = c /\ s /= i
      BY <2>2, <2>7, TrackedUsed
    <3>2. \E t \in Used' : files'[fds'[t]] = c
      BY <2>4, <3>1 DEF Conn
    <3> QED
      BY <1>1, <3>2, UsedTracked
  <2> QED
    BY <2>5, <2>6, <2>7 DEF Forgets
<1>10. ASSUME files' = files, UNCHANGED serverVars PROVE Goal
  <2>1. Used' = Used /\ fds' = fds /\ pc' = pc
    BY <1>10 DEF Used, serverVars
  <2> QED
    BY <1>3, <1>10, <2>1
<1>11. CASE \E d \in Clients : ClientStep(d) /\ UNCHANGED serverVars
  BY <1>1, <1>10, <1>11, ClientSockets
<1>12. CASE UNCHANGED vars
  BY <1>10, <1>12 DEF vars, netVars
<1> QED
  BY <1>4, <1>5, <1>6, <1>7, <1>8, <1>9, <1>11, <1>12 DEF Next, ServerStep

---------------------------------------------------------------------------
\* IInv is inductive, so it holds in every state of the TLS server, with any
\* number of clients, entries and descriptors.
THEOREM Invariance == Spec => []IInv
<1>1. IInv /\ [Next]_vars => IInv'
  BY NextEntries, NextRevents, NextEnds, NextExchanges DEF IInv
<1> QED
  BY InitIInv, <1>1, PTL DEF Spec

\* fds and arr_ssl always move together: accept, a failed handshake and a
\* disconnect never leave an entry with the SSL object of another.
THEOREM TablesAlwaysAgree == Spec => []TablesAgree
<1>1. IInv => TablesAgree
  BY DEF IInv
<1> QED
  BY Invariance, <1>1, PTL

\* SSL_read() is never called for the silent: not for an entry that was moved
\* over a closed one, and not for one that accept() filled in this scan.
THEOREM NoReadIsStale == Spec => []NoStaleRead
<1>1. ASSUME IInv, AtRead PROVE StreamReadable(Conn(i))
  <2>1. i \in Monitored
    BY <1>1, ServedConn
  <2> QED
    BY <1>1, <2>1 DEF IInv, ReventsSound, AtRead
<1>2. IInv => NoStaleRead
  BY <1>1 DEF NoStaleRead
<1> QED
  BY Invariance, <1>2, PTL

\* However and whenever a run_client dies, the write of a reply to it does not
\* take the server down.
THEOREM ServerSurvives == Spec => []SurvivesItsClients
<1>1. IInv => SurvivesItsClients
  BY DEF IInv, SurvivesItsClients, ExchangesSound, ExchangeOf, Serving, SendRaisesSigpipe
<1> QED
  BY Invariance, <1>1, PTL

\* No connection is forgotten: it leaves the entries by being closed, for a
\* reason, and what accept() returns is monitored unless there is no room.
THEOREM NobodyIsForgotten == Spec => NeverForgets
<1>1. IInv /\ [Next]_vars =>
        [\A c \in Clients :
           /\ Tracked(c)
                => \/ pc' \in {"exited", "killed"}
                   \/ Tracked(c)'
                   \/ /\ ~Held(c)'
                      /\ \/ peer[c] /= "up"
                         \/ inbox[c] /= <<>> /\ Head(inbox[c]) \in {"part", "quit", "junk"}
           /\ ~Held(c) /\ Held(c)' => Tracked(c)' \/ nfds = MaxConnection]_vars
  BY StepForgets DEF Forgets, Earned, Arrives
<1> QED
  BY Invariance, <1>1, PTL DEF Spec, NeverForgets
---------------------------------------------------------------------------
\* What a client in the middle of a handshake or an exchange waits for is
\* there, unless its server end is gone: what it sent, or the first part of it,
\* the server that has the record in hand, or the reply.
RecordDue(c) ==
  client[c] \in {"hello", "sending", "waiting"} /\ Attached(c)
    => inbox[c] /= <<>> \/ outbox[c] > 0 \/ Serving(c)
RecordsDue == \A c \in Clients : RecordDue(c)

\* The steps of the server: what it takes it answers, or it closes.
LEMMA ServerDue ==
  ASSUME IInv, RecordsDue, ServerStep
  PROVE  RecordsDue'
<1> SUFFICES ASSUME NEW d \in Clients PROVE RecordDue(d)'
  BY DEF RecordsDue
<1>1. /\ TypeOK /\ NetTypeOK /\ OneServerEnd /\ StreamsSound /\ client' = client
      /\ RecordDue(d)
  BY ServerStepSockets DEF IInv, TablesAgree, TypeOK, RecordsDue
<1>2. ASSUME UNCHANGED <<inbox, outbox>>, Attached(d)' => Attached(d), pc /= "reply"
      PROVE  RecordDue(d)'
  BY <1>1, <1>2 DEF RecordDue, Serving
<1>3. CASE Poll \/ EndScan \/ Skip \/ AcceptFails
  <2>1. UNCHANGED netVars /\ pc /= "reply"
    <3>1. CASE Poll
      BY <3>1, Zenon DEF Poll
    <3> QED
      BY <1>3, <3>1 DEF EndScan, Skip, AcceptFails, AtListener
  <2> QED
    BY <1>2, <2>1 DEF netVars, Attached, Held
<1>4. CASE Accept
  BY <1>1, <1>2, <1>4, AcceptEnds DEF Accept, AtListener, LowestFree
<1>5. CASE PollFails \/ KilledBySigpipe
  BY <1>5, CloseAllEnds DEF PollFails, KilledBySigpipe, RecordDue
<1>6. ASSUME NEW b \in Clients, SendOk(b) \/ SendFails(b), client[b] /= "done"
      PROVE  outbox'[b] > 0
  <2>1. peer[b] \notin {"fin", "rst"}
    BY <1>1, <1>6 DEF StreamsSound
  <2>2. outbox \in [Clients -> Nat] /\ outbox' = [outbox EXCEPT ![b] = @ + 1]
    BY <1>1, <1>6, <2>1 DEF SendOk, SendFails, NetTypeOK
  <2> QED
    BY <2>2
<1>7. CASE HandshakeDone
  <2>1. PICK b \in Clients : b = Conn(nfds)
    BY <1>7, NewEntry DEF HandshakeDone
  <2>2. /\ pc = "handshake" /\ inbox' = [inbox EXCEPT ![b] = Tail(@)] /\ SendOk(b)
        /\ UNCHANGED <<files, acceptQ>>
    BY <1>7, <2>1 DEF HandshakeDone
  <2>3. CASE d = b
    BY <1>1, <1>6, <2>2, <2>3 DEF RecordDue
  <2>4. CASE d /= b
    <3>1. inbox'[d] = inbox[d] /\ outbox'[d] = outbox[d] /\ (Attached(d)' => Attached(d))
      BY <1>1, <2>2, <2>4, SendStreams DEF NetTypeOK, Attached, Held
    <3> QED
      BY <1>1, <2>2, <3>1 DEF RecordDue, Serving
  <2> QED
    BY <2>3, <2>4
<1>8. ASSUME NEW e \in Used, Alive, CloseFd(fds[e]), acceptQ' = acceptQ, outbox' = outbox,
             pc /= "reply"
      PROVE  RecordDue(d)'
  <2>1. PICK b \in Clients, fd \in Fd : b = Conn(e) /\ fd = fds[e]
    BY <1>1, <1>8, UsedFacts DEF IInv
  <2>2. /\ ~Attached(b)'
        /\ d /= b => inbox'[d] = inbox[d] /\ (Attached(d)' => Attached(d))
    BY <1>1, <1>8, <2>1, CloseFdEnds DEF Conn
  <2> QED
    BY <1>1, <1>8, <2>2 DEF RecordDue, Serving
<1>9. CASE HandshakeFails
  BY <1>8, <1>9, NewEntry DEF HandshakeFails
<1>10. CASE Disconnect
  BY <1>8, <1>10, ServedConn DEF Disconnect, Drop, AtRead
<1>11. CASE ReadLine
  <2>1. PICK b \in Clients : b = Reading
    BY <1>11, ServedConn DEF ReadLine
  <2>2. /\ inbox' = [inbox EXCEPT ![b] = Tail(@)] /\ pc = "scan" /\ pc' = "reply"
        /\ UNCHANGED <<files, acceptQ, outbox, arr_ssl, i>>
    BY <1>11, <2>1 DEF ReadLine, AtRead
  <2>3. CASE d = b
    BY <2>1, <2>2, <2>3 DEF RecordDue, Serving, Reading
  <2>4. CASE d /= b
    <3>1. inbox'[d] = inbox[d]
      BY <1>1, <2>2, <2>4 DEF NetTypeOK
    <3> QED
      BY <1>1, <2>2, <3>1 DEF RecordDue, Serving, Attached, Held
  <2> QED
    BY <2>3, <2>4
<1>12. CASE Reply
  <2>1. PICK b \in Clients : b = Reading
    BY <1>12, ServedConn DEF Reply
  <2>2. /\ pc = "reply" /\ UNCHANGED <<files, acceptQ, inbox>>
        /\ \/ SendOk(b) \/ SendFails(b)
           \/ outbox[b] = SendBuf /\ UNCHANGED outbox
    BY <1>12, <2>1 DEF Reply
  <2>3. CASE d = b
    <3>1. client[b] /= "done" => outbox'[b] > 0
      BY <1>6, <2>2
    <3> QED
      BY <1>1, <2>3, <3>1 DEF RecordDue
  <2>4. CASE d /= b
    <3>1. outbox'[d] = outbox[d] /\ ~Serving(d)
      BY <1>1, <2>1, <2>2, <2>4, SendStreams DEF Serving
    <3> QED
      BY <1>1, <2>2, <3>1 DEF RecordDue, Attached, Held
  <2> QED
    BY <2>3, <2>4
<1> QED
  BY <1>3, <1>4, <1>5, <1>7, <1>9, <1>10, <1>11, <1>12 DEF ServerStep

\* The steps of a client: it waits only after it has sent something.
LEMMA ClientDue ==
  ASSUME IInv, NEW c \in Clients, ClientStep(c), UNCHANGED serverVars,
         NEW d \in Clients, RecordDue(d)
  PROVE  RecordDue(d)'
<1>1. /\ TypeOK /\ NetTypeOK /\ StreamsSound /\ files' = files
      /\ client \in [Clients -> {"off", "connected", "hello", "ready", "sending", "waiting", "done"}]
  BY ClientSockets DEF IInv, TablesAgree, TypeOK
<1>2. Serving(d)' <=> Serving(d)
  BY <1>1 DEF serverVars, Serving, Reading
<1>3. CASE d /= c
  <2>1. /\ inbox'[d] = inbox[d] /\ outbox'[d] = outbox[d] /\ client'[d] = client[d]
        /\ Attached(d)' => Attached(d)
    BY <1>1, <1>3, ClientSockets, ClientQueue, ClientPeers
  <2> QED
    BY <1>2, <2>1 DEF RecordDue
<1>4. CASE d = c
  <2>1. CASE Connect(c) \/ HelloDone(c) \/ HelloFails(c) \/ Read(c) \/ ReadFails(c) \/ Leave(c)
    <3>1. client'[d] \notin {"hello", "sending", "waiting"}
      BY <1>1, <1>4, <2>1 DEF Connect, HelloDone, HelloFails, Read, ReadFails, Leave, Goes
    <3> QED
      BY <3>1 DEF RecordDue
  <2>2. ASSUME NEW r \in Records, Transmit(c, r), UNCHANGED <<files, acceptQ>> PROVE RecordDue(d)'
    <3>1. /\ r \in Messages /\ inbox \in [Clients -> Seq(Messages)]
          /\ Attached(d)' <=> Attached(d)
      BY <1>1, <2>2, SslAssumption DEF NetTypeOK, Attached, Held
    <3>2. Attached(d) => inbox'[d] /= <<>>
      BY <1>1, <1>4, <2>2, <3>1, AppendedQueue DEF Transmit
    <3> QED
      BY <3>1, <3>2 DEF RecordDue
  <2>3. CASE Hello(c) \/ Write(c) \/ EagerWrite(c)
    BY <2>2, <2>3 DEF Hello, Write, EagerWrite, Records
  <2>4. CASE RestArrives(c)
    <3>1. /\ client[d] = "sending" /\ UNCHANGED <<outbox, acceptQ>>
          /\ Attached(d)' <=> Attached(d)
      BY <1>1, <1>4, <2>4 DEF RestArrives, Goes, Attached, Held
    <3>2. inbox[d] /= <<>> => inbox'[d] /= <<>>
      BY <1>1, ClientQueue
    <3> QED
      BY <1>2, <3>1, <3>2 DEF RecordDue
  <2> QED
    BY <2>1, <2>3, <2>4 DEF ClientStep
<1> QED
  BY <1>3, <1>4

\* While a TLS client waits for the end of its handshake or for an answer, and
\* its connection is open, something is under way or in service that will end
\* the wait: a record, also one that has come in part, is read and answered, or
\* the connection is closed.
THEOREM NothingAskedIsLost == Spec => []RecordsDue
<1>1. Init => RecordsDue
  BY DEF Init, RecordsDue, RecordDue
<1>2. IInv /\ RecordsDue /\ [Next]_vars => RecordsDue'
  <2> SUFFICES ASSUME IInv, RecordsDue, [Next]_vars PROVE RecordsDue'
    OBVIOUS
  <2>1. ASSUME NEW c \in Clients, ClientStep(c), UNCHANGED serverVars PROVE RecordsDue'
    BY <2>1, ClientDue DEF RecordsDue
  <2>2. CASE UNCHANGED vars
    BY <2>2 DEF vars, netVars, serverVars, RecordsDue, RecordDue, Serving, Reading, Attached, Held
  <2> QED
    BY <2>1, <2>2, ServerDue DEF Next
<1> QED
  BY <1>1, <1>2, Invariance, PTL DEF Spec
---------------------------------------------------------------------------
\* The refinement.  The monitored connections are those of the entries in use,
\* except the one whose handshake is under way.
LEMMA MonitoredConns ==
  TypeOK /\ Alive =>
    \A c \in Clients : c \in monitored <=> \E s \in Used : s < nfds /\ Conn(s) = c
<1> SUFFICES ASSUME TypeOK, Alive, NEW c \in Clients
             PROVE  c \in monitored <=> \E s \in Used : s < nfds /\ Conn(s) = c
  OBVIOUS
<1>1. \A s \in Monitored : s \in Used /\ s < nfds
  BY MonitoredUsed
<1>2. \A s \in Used : s < nfds => s \in Monitored
  BY DEF Used, Monitored, Slots, TypeOK
<1> QED
  BY <1>1, <1>2 DEF monitored

\* The same after a step.
LEMMA MonitoredConnsNext ==
  TypeOK' /\ Alive' =>
    \A c \in Clients : c \in monitored' <=> \E s \in Used' : s < nfds' /\ files'[fds'[s]] = c
<1>1. (TypeOK /\ Alive =>
         \A c \in Clients : c \in monitored <=> \E s \in Used : s < nfds /\ Conn(s) = c)'
  BY MonitoredConns, PTL
<1> QED
  BY <1>1 DEF Conn

\* What the server takes up next is monitored and ready.
LEMMA TakenUp ==
  IInv /\ pc /= "reply" => busy = "listener" \/ (busy \in monitored /\ busy \in ready)
<1> SUFFICES ASSUME IInv, AtRead PROVE busy \in monitored /\ busy \in ready
  BY DEF busy
<1>1. /\ Alive /\ i \in Monitored /\ Conn(i) \in Clients /\ Held(Conn(i)) /\ busy = Conn(i)
  BY ServedConn DEF busy
<1>2. StreamReadable(Conn(i))
  BY <1>1 DEF IInv, ReventsSound, AtRead
<1> QED
  BY <1>1, <1>2 DEF monitored, ready, Attached

\* The same after a step.
LEMMA TakesUpNext == IInv' /\ pc' /= "reply" => Loop!TakesUp
<1>1. (IInv /\ pc /= "reply" => busy = "listener" \/ (busy \in monitored /\ busy \in ready))'
  BY TakenUp, PTL
<1> QED
  BY <1>1 DEF Loop!TakesUp

\* Steps that leave the entries alone leave the same connections monitored.
LEMMA MonitoredFrame ==
  ASSUME UNCHANGED <<files, fds, nfds>>, Alive, Alive'
  PROVE  monitored' = monitored
BY DEF monitored, Monitored, Conn

\* Nothing is in service, and nothing waits for a handshake, in these states.
LEMMA BetweenServices ==
  /\ pc /= "reply" /\ ~AtRead => busy = "listener"
  /\ pc /= "handshake" => pending = acceptQ
BY DEF busy, pending

\* What accept() returns is pending while its handshake lasts, or turned away.
LEMMA AcceptImplements ==
  ASSUME IInv, IInv', Accept
  PROVE  [Loop!Next]_(Loop!evars)
<1>1. PICK c \in acceptQ, fd \in Fd :
        /\ files[fd] = "free" /\ files' = [files EXCEPT ![fd] = c]
        /\ acceptQ' = acceptQ \ {c}
        /\ \/ /\ nfds < MaxConnection /\ pc' = "handshake"
              /\ fds' = [fds EXCEPT ![nfds] = fd]
           \/ nfds = MaxConnection /\ pc' = pc
  BY DEF Accept, LowestFree
<1>2. /\ pc = "scan" /\ nfds' = nfds /\ UNCHANGED <<peer, inbox>> /\ ~AtRead
      /\ c \in Clients /\ NetTypeOK /\ TypeOK' /\ TypeOK /\ Alive /\ Alive'
  BY <1>1 DEF Accept, AtListener, AtRead, IInv, TablesAgree, TypeOK, NetTypeOK, Alive
<1>3. ready' = ready
  <2>1. \A d \in Clients : Attached(d)' <=> Attached(d)
    BY <1>1, <1>2, AcceptEnds DEF IInv
  <2> QED
    BY <1>2, <2>1 DEF ready, StreamReadable
<1>4. monitored' = monitored
  <2>1. \A s \in Used : s \in Used' /\ s /= nfds /\ files'[fds'[s]] = Conn(s)
    BY <1>2, AcceptEntries DEF Conn
  <2>2. \A s \in Monitored : files'[fds'[s]] = Conn(s)
    BY <1>2, <2>1, MonitoredUsed
  <2> QED
    BY <1>2, <2>2 DEF monitored, Monitored, Conn
<1>5. busy = "listener" /\ pending = acceptQ
  BY <1>2, BetweenServices
<1>6. CASE pc' = "handshake"
  <2>1. nfds \in Slots /\ files'[fds'[nfds]] = c
    <3>1. nfds < MaxConnection /\ fds' = [fds EXCEPT ![nfds] = fd]
      BY <1>1, <1>2, <1>6
    <3>2. nfds \in Slots
      BY <1>2, <3>1 DEF TypeOK, Slots
    <3> QED
      BY <1>1, <1>2, <3>1, <3>2 DEF TypeOK, NetTypeOK
  <2>2. pending' = acceptQ' \cup {c}
    BY <1>2, <1>6, <2>1 DEF pending, Conn
  <2>3. busy' = "listener"
    BY <1>6 DEF busy, AtRead
  <2> QED
    BY <1>1, <1>3, <1>4, <1>5, <2>2, <2>3 DEF Loop!evars
<1>7. CASE pc' = pc
  <2>1. pending' = acceptQ'
    BY <1>2, <1>7 DEF pending
  <2>2. Loop!Admit(c)
    BY <1>1, <1>2, <1>3, <1>4, <1>5, <1>7, <2>1, TakesUpNext DEF Loop!Admit
  <2> QED
    BY <1>2, <2>2 DEF Loop!Next
<1> QED
  BY <1>1, <1>6, <1>7

\* The connection of a handshake is admitted when it is done, and turned away
\* when it fails.
LEMMA HandshakeImplements ==
  ASSUME IInv, IInv', HandshakeDone \/ HandshakeFails
  PROVE  \E c \in Clients : Loop!Admit(c)
<1>1. /\ pc = "handshake" /\ pc' = "scan" /\ acceptQ' = acceptQ /\ ~AtRead
      /\ HandshakeDone \/ HandshakeFails
  BY DEF HandshakeDone, HandshakeFails, AtRead
<1>2. PICK c \in Clients : c = Conn(nfds)
  BY <1>1, NewEntry
<1>3. /\ Alive /\ Alive' /\ nfds \in Used /\ nfds \in Slots /\ Held(c) /\ NetTypeOK /\ OneServerEnd
      /\ TypeOK /\ TypeOK' /\ nfds \in Nat /\ nfds >= 1 /\ fds[nfds] \in Fd
  BY <1>1, <1>2, NewEntry DEF IInv, TablesAgree, TypeOK, Alive
<1>4. /\ busy = "listener" /\ pending = acceptQ \cup {c} /\ c \notin acceptQ /\ pending' = acceptQ
  BY <1>1, <1>2, <1>3 DEF pending, busy, OneServerEnd
<1>5. CASE HandshakeDone
  <2>1. /\ UNCHANGED <<files, fds>> /\ nfds' = nfds + 1
        /\ inbox' = [inbox EXCEPT ![c] = Tail(@)] /\ SendOk(c)
        /\ inbox[c] /= <<>>
    BY <1>2, <1>5 DEF HandshakeDone
  <2>2. monitored' = monitored \cup {c}
    <3>1. Monitored' = Monitored \cup {nfds}
      BY <1>3, <2>1 DEF Monitored
    <3> QED
      BY <1>2, <1>3, <2>1, <3>1 DEF monitored, Conn
  <2>3. /\ \A d \in Clients : peer'[d] = "up" <=> peer[d] = "up"
        /\ \A d \in Clients : d /= c => inbox'[d] = inbox[d]
        /\ \A d \in Clients : Attached(d)' <=> Attached(d)
        /\ StreamReadable(c)
    BY <1>1, <1>3, <2>1, SendStreams DEF NetTypeOK, Attached, Held, StreamReadable
  <2>4. ready' \in {ready, ready \ {c}}
    <3>1. \A d \in Clients : d /= c => (d \in ready' <=> d \in ready)
      BY <2>3 DEF ready, StreamReadable
    <3>2. c \in ready /\ ready' \subseteq Clients /\ ready \subseteq Clients
      BY <1>3, <2>3 DEF ready, Attached
    <3> QED
      BY <3>1, <3>2
  <2>5. Loop!Admit(c)
    BY <1>1, <1>4, <2>2, <2>4, TakesUpNext DEF Loop!Admit
  <2> QED
    BY <2>5
<1>6. CASE HandshakeFails
  <2>1. nfds' = nfds /\ CloseFd(fds[nfds]) /\ peer' = peer
    BY <1>6 DEF HandshakeFails
  <2>2. monitored' = monitored
    <3>1. \A s \in Used : s /= nfds => s \in Used' /\ files'[fds'[s]] = Conn(s)
      BY <1>3, <1>6, HandshakeFailsEntries DEF Conn
    <3>2. \A s \in Monitored : s \in Used /\ s /= nfds
      BY <1>3, MonitoredUsed DEF Monitored
    <3>3. \A s \in Monitored : files'[fds'[s]] = Conn(s)
      BY <3>1, <3>2
    <3> QED
      BY <1>3, <2>1, <3>3 DEF monitored, Monitored, Conn
  <2>3. /\ ~Attached(c)'
        /\ \A d \in Clients : d /= c => inbox'[d] = inbox[d] /\ (Attached(d)' <=> Attached(d))
    BY <1>1, <1>2, <1>3, <2>1, CloseFdEnds DEF Conn
  <2>4. ready' = ready \ {c}
    BY <2>1, <2>3 DEF ready, StreamReadable
  <2>5. Loop!Admit(c)
    BY <1>1, <1>4, <2>2, <2>4, TakesUpNext DEF Loop!Admit
  <2> QED
    BY <2>5
<1> QED
  BY <1>1, <1>5, <1>6

\* A connection that is closed, and no other, leaves the monitored ones.
LEMMA DisconnectImplements ==
  ASSUME IInv, IInv', Disconnect
  PROVE  Loop!Finish
<1>1. /\ AtRead /\ pc = "scan" /\ pc' = "scan" /\ nfds' = nfds - 1
      /\ CloseFd(fds[i]) /\ UNCHANGED <<acceptQ, peer>>
  BY DEF Disconnect, Drop, AtRead
<1>2. PICK b \in Clients : b = Conn(i)
  BY <1>1, ServedConn
<1>3. /\ Alive /\ Alive' /\ i \in Used /\ fds[i] \in Fd /\ TypeOK /\ TypeOK' /\ NetTypeOK /\ OneServerEnd
      /\ nfds \in Nat
  BY <1>1, ServedConn DEF IInv, TablesAgree, TypeOK, Alive
<1>4. busy = b /\ b /= "listener" /\ pending' = pending
  BY <1>1, <1>2 DEF busy, pending
<1>5. /\ ~Attached(b)'
      /\ \A d \in Clients : d /= b => inbox'[d] = inbox[d] /\ (Attached(d)' <=> Attached(d))
  BY <1>1, <1>2, <1>3, CloseFdEnds DEF Conn
<1>6. ready' = ready \ {b}
  BY <1>1, <1>5 DEF ready, StreamReadable
<1>7. /\ \A s \in Used' : s < nfds'
      /\ \A s \in Used : s < nfds
      /\ \A s \in Used : s /= i => \E t \in Used' : files'[fds'[t]] = Conn(s)
      /\ \A t \in Used' : \E s \in Used : s /= i /\ files'[fds'[t]] = Conn(s)
  BY <1>1, <1>3, DisconnectEntries DEF Conn, Used
<1>8. \A d \in Clients : d \in monitored' <=> d \in monitored /\ d /= b
  <2>1. ASSUME NEW d \in Clients, d \in monitored' PROVE d \in monitored /\ d /= b
    <3>1. PICK t \in Used' : files'[fds'[t]] = d
      BY <1>3, <2>1, MonitoredConnsNext
    <3>2. PICK s \in Used : s /= i /\ Conn(s) = d
      BY <1>7, <3>1
    <3> QED
      BY <1>2, <1>3, <1>7, <3>2, MonitoredConns, OtherEntries
  <2>2. ASSUME NEW d \in Clients, d \in monitored, d /= b PROVE d \in monitored'
    <3>1. PICK s \in Used : Conn(s) = d /\ s /= i
      BY <1>2, <1>3, <2>2, MonitoredConns
    <3>2. PICK t \in Used' : files'[fds'[t]] = d
      BY <1>7, <3>1
    <3> QED
      BY <1>3, <1>7, <3>2, MonitoredConnsNext
  <2> QED
    BY <2>1, <2>2
<1>9. monitored' = monitored \ {b}
  BY <1>8 DEF monitored
<1> QED
  BY <1>1, <1>4, <1>6, <1>9, TakesUpNext DEF Loop!Finish

\* Receiving a command, and the reply to it.
LEMMA ServiceImplements ==
  ASSUME IInv, IInv', ReadLine \/ Reply
  PROVE  Loop!Consume \/ Loop!Finish
<1>1. /\ AtRead \/ pc = "reply"
      /\ pc' \in {"scan", "reply"}
      /\ UNCHANGED <<files, acceptQ, fds, nfds>>
  BY DEF ReadLine, Reply, AtRead
<1>2. PICK b \in Clients : b = Conn(i) /\ Reading = b
  BY <1>1, ServedConn
<1>3. /\ Alive /\ Alive' /\ Held(b) /\ NetTypeOK /\ pc /= "handshake" /\ pc' \in {"scan", "reply"}
      /\ ReadLine \/ Reply
  BY <1>1, <1>2, ServedConn DEF IInv, TablesAgree, TypeOK, Alive, AtRead, ReadLine, Reply
<1>4. /\ busy = b /\ b /= "listener" /\ UNCHANGED <<pending, monitored>>
      /\ \A d \in Clients : Attached(d)' <=> Attached(d)
  BY <1>1, <1>2, <1>3, MonitoredFrame DEF busy, pending, Attached, Held
<1>5. CASE ReadLine
  <2>1. /\ pc' = "reply" /\ i' = i /\ peer' = peer /\ inbox[b] /= <<>>
        /\ inbox' = [inbox EXCEPT ![b] = Tail(@)]
    BY <1>2, <1>5 DEF ReadLine
  <2>2. busy' = b
    BY <1>1, <1>2, <2>1 DEF busy, Conn
  <2>3. ready' \in {ready, ready \ {b}}
    <3>1. \A d \in Clients : d /= b => inbox'[d] = inbox[d]
      BY <1>3, <2>1 DEF NetTypeOK
    <3>2. \A d \in Clients : d /= b => (d \in ready' <=> d \in ready)
      BY <1>4, <2>1, <3>1 DEF ready, StreamReadable
    <3>3. b \in ready /\ ready' \subseteq Clients /\ ready \subseteq Clients
      BY <1>3, <2>1 DEF ready, Attached, StreamReadable
    <3> QED
      BY <3>2, <3>3
  <2> QED
    BY <1>4, <2>2, <2>3 DEF Loop!Consume
<1>6. CASE Reply
  <2>1. pc' = "scan" /\ inbox' = inbox /\ (SendOk(b) \/ SendFails(b) \/ peer' = peer)
    BY <1>2, <1>6 DEF Reply
  <2>2. \A d \in Clients : peer'[d] = "up" <=> peer[d] = "up"
    BY <1>3, <2>1, SendStreams
  <2>3. ready' = ready
    BY <1>4, <2>1, <2>2 DEF ready, StreamReadable
  <2> QED
    BY <1>4, <2>1, <2>3, TakesUpNext DEF Loop!Finish
<1> QED
  BY <1>3, <1>5, <1>6

\* Every step of the server or of a client is a step of the event loop.
LEMMA NextImplements ==
  ASSUME IInv, IInv', [Next]_vars
  PROVE  [Loop!Next]_(Loop!evars)
<1>1. TypeOK /\ NetTypeOK /\ StreamsSound
  BY DEF IInv, TablesAgree, TypeOK
<1>2. ASSUME UNCHANGED netVars PROVE ready' = ready
  BY <1>2 DEF netVars, ready, Attached, Held, StreamReadable
<1>3. CASE Poll \/ EndScan \/ Skip \/ AcceptFails
  <2>1. /\ UNCHANGED <<netVars, fds, nfds>> /\ ~AtRead /\ pc \in {"poll", "scan"} /\ pc' \in {"poll", "scan"}
    <3>1. CASE Poll
      BY <3>1, Zenon DEF Poll, AtRead
    <3>2. CASE EndScan \/ Skip \/ AcceptFails
      BY <1>1, <3>2 DEF EndScan, Skip, AcceptFails, AtListener, AtRead, TypeOK
    <3> QED
      BY <1>3, <3>1, <3>2
  <2>2. UNCHANGED <<pending, monitored, ready>> /\ busy = "listener"
    BY <1>2, <2>1, MonitoredFrame, BetweenServices DEF netVars, Alive, pending
  <2>3. Loop!Choose
    BY <2>1, <2>2, TakesUpNext DEF Loop!Choose
  <2> QED
    BY <2>3 DEF Loop!Next
<1>4. CASE Accept
  BY <1>4, AcceptImplements
<1>5. CASE HandshakeDone \/ HandshakeFails
  BY <1>5, HandshakeImplements DEF Loop!Next
<1>6. CASE ReadLine \/ Reply
  BY <1>6, ServiceImplements DEF Loop!Next
<1>7. CASE Disconnect
  BY <1>7, DisconnectImplements DEF Loop!Next
<1>8. CASE PollFails \/ KilledBySigpipe
  <2>1. pc' \in {"exited", "killed"} /\ CloseAll
    BY <1>8 DEF PollFails, KilledBySigpipe
  <2>2. pending' = {} /\ monitored' = {} /\ busy' = "listener" /\ ready' \subseteq ready
    BY <2>1, CloseAllEnds DEF CloseAll, pending, monitored, Alive, busy, AtRead, ready
  <2> QED
    BY <2>2 DEF Loop!Next, Loop!Stop
<1>9. ASSUME NEW c \in Clients, ClientStep(c), UNCHANGED serverVars
      PROVE  Loop!Environment
  <2>1. files' = files /\ acceptQ \subseteq acceptQ' /\ UNCHANGED <<pc, fds, revents, nfds, i>>
    BY <1>1, <1>9, ClientSockets DEF serverVars
  <2>2. pending \subseteq pending' /\ UNCHANGED <<monitored, busy>>
    BY <2>1 DEF pending, monitored, Monitored, Alive, Conn, busy, AtRead
  <2>3. ready \subseteq ready'
    BY <1>1, <1>9, ClientPeers DEF ready
  <2> QED
    BY <2>2, <2>3 DEF Loop!Environment
<1>10. CASE UNCHANGED vars
  BY <1>2, <1>10 DEF vars, netVars, serverVars, Loop!evars, pending, monitored, Monitored, Alive,
     Conn, busy, AtRead
<1> QED
  BY <1>3, <1>4, <1>5, <1>6, <1>7, <1>8, <1>9, <1>10 DEF Next, ServerStep, Loop!Next

\* The TLS server is an event loop: while no handshake is under way it works on
\* one monitored connection at a time, and takes one up only when it is ready.
THEOREM ImplementsLoop == Spec => ImplementsEventLoop
<1>1. Init => Loop!Init
  <2> SUFFICES ASSUME Init PROVE Loop!Init
    OBVIOUS
  <2>1. NetInit /\ pc = "poll" /\ nfds = 1
    BY Zenon DEF Init
  <2>2. \A c \in Clients : ~Attached(c)
    BY <2>1 DEF NetInit, Attached, Held, SockServer
  <2>3. acceptQ = {} /\ Monitored = {}
    BY <2>1 DEF NetInit, Monitored
  <2> QED
    BY <2>1, <2>2, <2>3 DEF Loop!Init, pending, monitored, ready, busy, AtRead
<1>2. IInv /\ IInv' /\ [Next]_vars => [Loop!Next]_(Loop!evars)
  BY NextImplements
<1> QED
  BY <1>1, <1>2, Invariance, PTL DEF Spec, ImplementsEventLoop, Loop!Spec
=============================================================================
