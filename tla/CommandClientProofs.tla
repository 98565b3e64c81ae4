------------------------ MODULE CommandClientProofs ------------------------
(* What every server of run_client can rely on: a step of a client leaves  *)
(* the descriptor table alone and keeps the types, the streams and the     *)
(* order of an exchange; and what a step of the server does to them.       *)
EXTENDS CommandClient, TcpSocketsProofs

\* The assumptions that the lemmas need.
USE SocketsAssumption, ClientAssumption

\* What the proofs about every server of run_client need.

\* Commands wait on connections that have a server end only, only a client
\* that is done has closed its end, and none is attached before connect().
StreamsSound ==
  \A c \in Clients :
    /\ inbox[c] /= <<>> => Attached(c)
    /\ peer[c] \in {"fin", "rst", "broken"} => client[c] = "done"
    /\ client[c] = "off" => ~Attached(c)

\* What is under way on a connection of run_client at each point of its loop;
\* serving says whether the server has a command of it in hand.
ExchangeOf(c, serving) ==
  /\ client[c] \in {"off", "ready"}
       => inbox[c] = <<>> /\ outbox[c] = 0 /\ ~serving
  /\ outbox[c] <= 1
  /\ outbox[c] = 1 => inbox[c] = <<>> /\ ~serving
  /\ inbox[c] /= <<>> => Len(inbox[c]) = 1 /\ ~serving
  /\ peer[c] = "broken" => inbox[c] = <<>> /\ ~serving

\* What a client that sent a line waits for is there, unless its server end is
\* gone: the line, the server that has it in hand, or the reply.
AnswerDue(c, serving) ==
  client[c] = "waiting" /\ last[c] /= "" /\ Attached(c)
    => inbox[c] /= <<>> \/ outbox[c] > 0 \/ serving
---------------------------------------------------------------------------
\* At the start everything has its type, and nothing is under way.
LEMMA ClientInitSound ==
  ASSUME NetInit, ClientInit
  PROVE  /\ NetTypeOK /\ ClientTypeOK
         /\ OneServerEnd /\ StreamsSound
         /\ \A c \in Clients, s \in BOOLEAN : ~s => ExchangeOf(c, s)
         /\ \A c \in Clients : ~Attached(c)
<1>1. SockServer \in Fd /\ \A c \in Clients : inbox[c] = <<>> /\ outbox[c] = 0
  BY DEF NetInit, Fd, SockServer
<1>2. NetTypeOK /\ ClientTypeOK
  BY <1>1, EmptySeq
  DEF NetInit, ClientInit, NetTypeOK, ClientTypeOK, PeerState, ClientState, Commands
<1>3. \A c \in Clients : ~Held(c)
  BY DEF NetInit, Held
<1>4. OneServerEnd /\ StreamsSound
  BY <1>3 DEF OneServerEnd, StreamsSound, NetInit, ClientInit, Attached
<1>5. \A c \in Clients, s \in BOOLEAN : ~s => ExchangeOf(c, s)
  BY <1>1 DEF ExchangeOf, NetInit
<1> QED
  BY <1>2, <1>3, <1>4, <1>5 DEF Attached, NetInit

\* A recognised command is one of Commands.
LEMMA RemainingProperties ==
  ASSUME NetTypeOK, NEW c \in Clients, NEW k \in 1..Len(inbox[c])
  PROVE  /\ Remaining(c, k) \in Seq(Messages)
         /\ Len(Remaining(c, k)) = Len(inbox[c]) - k
         /\ Received(c, k) \in Commands
BY RemainingQueue DEF Received, Commands

\* What a client sends leaves the queues well typed.
LEMMA TransmitType ==
  ASSUME NetTypeOK, NEW c \in Clients, NEW m \in Messages, Transmit(c, m)
  PROVE  inbox' \in [Clients -> Seq(Messages)]
BY AppendedQueue DEF Transmit, NetTypeOK

\* No step of a client touches the server's descriptor table.
LEMMA ClientStepFiles ==
  ASSUME NEW c \in Clients, ClientStep(c)
  PROVE  files' = files
BY DEF ClientStep, Connect, ConnectRefused, SendCommand, RecvReply, RecvClosed,
       Kill, EagerSend, netVars

\* Every step of a client keeps the types of the sockets and of the clients.
LEMMA ClientStepType ==
  ASSUME NetTypeOK, ClientTypeOK, NEW c \in Clients, ClientStep(c)
  PROVE  NetTypeOK' /\ ClientTypeOK'
<1> USE DEF NetTypeOK, ClientTypeOK, ClientState, PeerState
<1>1. CASE Connect(c)
  BY <1>1 DEF Connect
<1>2. CASE ConnectRefused(c)
  BY <1>2 DEF ConnectRefused, netVars
<1>3. ASSUME NEW m \in Messages, SendCommand(c, m)
      PROVE  NetTypeOK' /\ ClientTypeOK'
  BY <1>3, TransmitType DEF SendCommand, Commands
<1>4. CASE RecvReply(c)
  BY <1>4 DEF RecvReply, EndIteration
<1>5. CASE RecvClosed(c)
  BY <1>5 DEF RecvClosed, EndIteration, netVars
<1>6. CASE Kill(c)
  BY <1>6 DEF Kill, PeerCloses
<1>7. ASSUME NEW m \in Messages, EagerSend(c, m)
      PROVE  NetTypeOK' /\ ClientTypeOK'
  BY <1>7, TransmitType DEF EagerSend, clientVars
<1> QED
  BY <1>1, <1>2, <1>3, <1>4, <1>5, <1>6, <1>7 DEF ClientStep

\* Only connect() attaches a connection, and no step of a client detaches one.
LEMMA ClientAttaches ==
  ASSUME ClientTypeOK, NEW c \in Clients, ClientStep(c), NEW d \in Clients
  PROVE  /\ Held(d)' <=> Held(d)
         /\ Attached(d) => Attached(d)'
         /\ Attached(d)' => Attached(d) \/ (d = c /\ client[c] = "off")
         /\ acceptQ' = acceptQ \/ (client[c] = "off" /\ acceptQ' = acceptQ \cup {c})
         /\ d /= c => client'[d] = client[d]
         /\ client'[c] /= "off"
<1>1. files' = files
  BY ClientStepFiles
<1>2. Held(d)' <=> Held(d)
  BY <1>1 DEF Held
<1>3. acceptQ' = acceptQ \/ (client[c] = "off" /\ acceptQ' = acceptQ \cup {c})
  BY DEF ClientStep, Connect, ConnectRefused, SendCommand, RecvReply, RecvClosed,
     Kill, EagerSend, netVars
<1>4. client'[c] /= "off" /\ (d /= c => client'[d] = client[d])
  BY DEF ClientTypeOK, ClientStep, Connect, ConnectRefused, SendCommand, RecvReply,
     RecvClosed, EndIteration, Kill, EagerSend, Running, clientVars
<1>5. Attached(d) => Attached(d)'
  BY <1>2, <1>3 DEF Attached
<1>6. Attached(d)' => Attached(d) \/ (d = c /\ client[c] = "off")
  BY <1>2, <1>3 DEF Attached
<1> QED
  BY <1>2, <1>3, <1>4, <1>5, <1>6

\* What waits on an attached connection stays readable, and each step of a
\* client changes the stream of that client only.
LEMMA ClientReadable ==
  ASSUME NetTypeOK, ClientTypeOK, StreamsSound,
         NEW c \in Clients, ClientStep(c), NEW d \in Clients
  PROVE  /\ d /= c => /\ inbox'[d] = inbox[d] /\ outbox'[d] = outbox[d]
                      /\ peer'[d] = peer[d] /\ client'[d] = client[d]
         /\ Attached(d) /\ StreamReadable(d) => StreamReadable(d)'
         /\ inbox[d] /= <<>> => inbox'[d] /= <<>>
<1>1. /\ inbox \in [Clients -> Seq(Messages)] /\ outbox \in [Clients -> Nat]
      /\ peer \in [Clients -> PeerState] /\ client \in [Clients -> ClientState]
  BY DEF NetTypeOK, ClientTypeOK
<1>2. d /= c => /\ inbox'[d] = inbox[d] /\ outbox'[d] = outbox[d]
                /\ peer'[d] = peer[d] /\ client'[d] = client[d]
  BY <1>1 DEF ClientStep, Connect, ConnectRefused, SendCommand, RecvReply,
     RecvClosed, EndIteration, Kill, PeerCloses, EagerSend, Transmit, netVars, clientVars
<1>3. ASSUME d = c, NEW m \in Messages, Transmit(c, m), inbox[d] /= <<>>
      PROVE  inbox'[d] /= <<>>
  BY <1>1, <1>3, AppendedQueue DEF Transmit
<1>4. inbox[d] /= <<>> => inbox'[d] /= <<>>
  BY <1>1, <1>2, <1>3 DEF ClientStep, Connect, ConnectRefused, SendCommand, RecvReply,
     RecvClosed, Kill, EagerSend, netVars
<1>5. Attached(d) /\ peer[d] /= "up" => peer'[d] /= "up"
  BY <1>1 DEF StreamsSound, ClientStep, Connect, ConnectRefused, SendCommand, RecvReply,
     RecvClosed, Kill, PeerCloses, EagerSend, netVars
<1> QED
  BY <1>2, <1>4, <1>5 DEF StreamReadable

\* A client that is done never changes its stream again.
LEMMA DoneClient ==
  ASSUME NetTypeOK, ClientTypeOK, StreamsSound,
         NEW c \in Clients, ClientStep(c), NEW d \in Clients, client[d] = "done"
  PROVE  inbox'[d] = inbox[d] /\ peer'[d] = peer[d] /\ client'[d] = "done"
<1>1. CASE d /= c
  BY <1>1, ClientReadable
<1>2. CASE d = c
  BY <1>2 DEF ClientStep, Connect, ConnectRefused, SendCommand, RecvReply, RecvClosed,
     Kill, EagerSend, Running
<1> QED
  BY <1>1, <1>2

\* An attached connection has been opened.
LEMMA ClientOpens ==
  ASSUME NetTypeOK, ClientTypeOK, NEW c \in Clients, ClientStep(c),
         \A d \in Clients : Attached(d) => peer[d] /= "none"
  PROVE  \A d \in Clients : Attached(d)' => peer'[d] /= "none"
<1> SUFFICES ASSUME NEW d \in Clients, Attached(d)' PROVE peer'[d] /= "none"
  OBVIOUS
<1>1. CASE Connect(c) /\ d = c
  BY <1>1 DEF Connect, NetTypeOK
<1>2. CASE ~(Connect(c) /\ d = c)
  <2>1. Attached(d) \/ (d = c /\ client[c] = "off")
    BY ClientAttaches
  <2>2. d = c /\ client[c] = "off" => Attached(d)
    BY <1>2, ClientStepFiles DEF ClientStep, Connect, ConnectRefused, SendCommand,
       RecvReply, RecvClosed, Kill, EagerSend, Running, netVars, Attached, Held
  <2>3. peer'[d] \in {peer[d], "up", "fin", "rst"}
    BY DEF NetTypeOK, ClientStep, Connect, ConnectRefused, SendCommand, RecvReply,
       RecvClosed, Kill, PeerCloses, EagerSend, netVars
  <2> QED
    BY <2>1, <2>2, <2>3
<1> QED
  BY <1>1, <1>2

---------------------------------------------------------------------------
\* A client's step keeps the one server end of each connection.
LEMMA ClientEnds ==
  ASSUME NetTypeOK, ClientTypeOK, OneServerEnd, StreamsSound,
         NEW c \in Clients, ClientStep(c)
  PROVE  OneServerEnd'
<1>1. \A fd, g \in Fd : files'[fd] \in Clients /\ files'[fd] = files'[g] => fd = g
  BY ClientStepFiles DEF OneServerEnd
<1>2. ASSUME NEW d \in acceptQ' PROVE ~Held(d)'
  <2>1. d \in acceptQ \/ (d = c /\ client[c] = "off")
    BY ClientAttaches
  <2>2. d \in Clients /\ ~Held(d)
    BY <2>1 DEF NetTypeOK, OneServerEnd, StreamsSound, Attached
  <2> QED
    BY <2>2, ClientAttaches
<1> QED
  BY <1>1, <1>2 DEF OneServerEnd

\* A client's step keeps the streams sound.
LEMMA ClientStreams ==
  ASSUME NetTypeOK, ClientTypeOK, StreamsSound, NEW c \in Clients, ClientStep(c)
  PROVE  StreamsSound'
<1>1. ASSUME NEW d \in Clients PROVE inbox'[d] /= <<>> => Attached(d)'
  <2>1. inbox'[d] = inbox[d] \/ Attached(d)
    BY DEF NetTypeOK, ClientStep, Connect, ConnectRefused, SendCommand,
       RecvReply, RecvClosed, Kill, EagerSend, Transmit, netVars
  <2> QED
    BY <2>1, ClientAttaches DEF StreamsSound
<1>2. ASSUME NEW d \in Clients, peer'[d] \in {"fin", "rst", "broken"}
      PROVE  client'[d] = "done"
  BY <1>2
  DEF NetTypeOK, ClientTypeOK, StreamsSound, ClientStep, Connect, ConnectRefused,
      SendCommand, RecvReply, RecvClosed, EndIteration, Kill, PeerCloses, Running,
      EagerSend, netVars, clientVars
<1>3. ASSUME NEW d \in Clients, client'[d] = "off" PROVE ~Attached(d)'
  BY <1>3, ClientAttaches DEF StreamsSound
<1> QED
  BY <1>1, <1>2, <1>3 DEF StreamsSound

\* Why a step of a server keeps them: queues only shrink or belong to
\* connections still attached, and no open peer is closed.
LEMMA StreamsFrame ==
  ASSUME StreamsSound, client' = client,
         \A d \in Clients : inbox'[d] /= <<>> =>
            inbox[d] /= <<>> /\ (Attached(d) => Attached(d)'),
         \A d \in Clients : Attached(d)' => Attached(d),
         \A d \in Clients : peer'[d] \in {"fin", "rst", "broken"} =>
            peer[d] \in {"fin", "rst", "broken"}
  PROVE  StreamsSound'
BY DEF StreamsSound

\* Every step of a server keeps the streams sound.
LEMMA SocketStepStreams ==
  ASSUME NetTypeOK, OneServerEnd, StreamsSound, SocketStep, client' = client
  PROVE  StreamsSound'
BY SocketStepSound, StreamsFrame

---------------------------------------------------------------------------
\* A connection that a step does not touch, or only empties the queue of,
\* keeps its exchange; what the server had in hand may be gone.
LEMMA ExchangeFrame ==
  ASSUME NEW d, NEW s \in BOOLEAN, NEW t \in BOOLEAN, ExchangeOf(d, s),
         inbox'[d] \in {inbox[d], <<>>},
         outbox'[d] = outbox[d], peer'[d] = peer[d], client'[d] = client[d],
         t => s
  PROVE  ExchangeOf(d, t)'
BY DEF ExchangeOf

\* What is known of a connection of run_client while it is served.
LEMMA ServedExchange ==
  ASSUME NetTypeOK, NEW d \in Clients, ExchangeOf(d, TRUE)
  PROVE  /\ inbox[d] = <<>> /\ outbox[d] = 0
         /\ client[d] \notin {"off", "ready"} /\ peer[d] /= "broken"
BY DEF ExchangeOf, NetTypeOK

\* recv() takes the one command that waits, and the server has it in hand.
LEMMA RecvExchange ==
  ASSUME NetTypeOK, NEW d \in Clients, NEW s \in BOOLEAN, ExchangeOf(d, s),
         NEW k \in 1..Len(inbox[d]),
         inbox' = [inbox EXCEPT ![d] = Remaining(d, k)],
         UNCHANGED <<outbox, peer, client>>
  PROVE  ~s /\ ExchangeOf(d, TRUE)'
<1>1. /\ Remaining(d, k) \in Seq(Messages) /\ Len(inbox[d]) \in Nat
      /\ Len(Remaining(d, k)) = Len(inbox[d]) - k /\ inbox[d] /= <<>>
      /\ inbox \in [Clients -> Seq(Messages)] /\ outbox \in [Clients -> Nat]
  BY RemainingQueue, QueueLength DEF NetTypeOK
<1>2. Len(inbox[d]) = 1 /\ ~s /\ client[d] \notin {"off", "ready"}
      /\ outbox[d] /= 1 /\ outbox[d] <= 1 /\ peer[d] /= "broken"
  BY <1>1 DEF ExchangeOf
<1>3. k = 1
  BY <1>2
<1>4. Len(Remaining(d, k)) = 0
  BY <1>1, <1>2, <1>3
<1>5. inbox'[d] = <<>>
  BY <1>1, <1>4, EmptySeq
<1> QED
  BY <1>1, <1>2, <1>5 DEF ExchangeOf

\* send() puts the one reply under way, or finds the client gone.
LEMMA SendExchange ==
  ASSUME NetTypeOK, NEW d \in Clients, ExchangeOf(d, TRUE),
         SendOk(d) \/ SendFails(d),
         inbox'[d] \in {inbox[d], <<>>}, client' = client
  PROVE  ExchangeOf(d, FALSE)'
<1>1. inbox'[d] = <<>> /\ outbox[d] = 0 /\ client'[d] \notin {"off", "ready"}
  BY ServedExchange
<1>2. outbox'[d] \in {0, 1}
  BY <1>1, SendStreams
<1> QED
  BY <1>1, <1>2 DEF ExchangeOf

\* A step of client c, seen from a connection of run_client.
LEMMA ClientExchange ==
  ASSUME NetTypeOK, ClientTypeOK, StreamsSound, NEW c \in Clients, ClientStep(c),
         NEW d \in Clients, d \notin Eager,
         NEW s \in BOOLEAN, ExchangeOf(d, s), s => Attached(d)
  PROVE  ExchangeOf(d, s)'
<1>1. /\ inbox \in [Clients -> Seq(Messages)] /\ outbox \in [Clients -> Nat]
      /\ peer \in [Clients -> PeerState] /\ client \in [Clients -> ClientState]
  BY DEF NetTypeOK, ClientTypeOK
<1>2. CASE d /= c
  BY <1>2, ClientReadable, ExchangeFrame
<1>3. CASE d = c
  <2>1. CASE Connect(c)
    BY <1>1, <1>3, <2>1 DEF Connect, ExchangeOf
  <2>2. CASE ConnectRefused(c)
    BY <1>1, <1>3, <2>2 DEF ConnectRefused, ExchangeOf, netVars
  <2>3. ASSUME NEW m \in Messages, SendCommand(c, m)
        PROVE  ExchangeOf(d, s)'
    <3>1. /\ client[d] = "ready" /\ client'[d] = "waiting"
          /\ UNCHANGED <<outbox, peer>>
      BY <1>1, <1>3, <2>3 DEF SendCommand
    <3>2. inbox[d] = <<>> /\ outbox[d] = 0 /\ ~s
      BY <3>1 DEF ExchangeOf
    <3>3. peer[d] /= "broken"
      BY <3>1 DEF StreamsSound
    <3>4. Len(inbox[d]) = 0
      BY <1>1, <3>2, QueueLength
    <3>5. inbox'[d] \in {inbox[d], Append(inbox[d], m)}
      BY <1>1, <1>3, <2>3 DEF SendCommand, Transmit
    <3>6. Len(Append(inbox[d], m)) = 1
      BY <1>1, <3>4, AppendedQueue
    <3> QED
      BY <3>1, <3>2, <3>3, <3>5, <3>6 DEF ExchangeOf
  <2>4. CASE RecvReply(c)
    <3>1. outbox[d] = 1 /\ outbox'[d] = 0 /\ UNCHANGED inbox
      BY <1>1, <1>3, <2>4 DEF RecvReply, ExchangeOf
    <3>2. inbox[d] = <<>> /\ ~s
      BY <3>1 DEF ExchangeOf
    <3> QED
      BY <3>1, <3>2 DEF ExchangeOf
  <2>5. CASE RecvClosed(c)
    <3>1. outbox[d] = 0 /\ ~Attached(d) /\ UNCHANGED netVars
      BY <1>3, <2>5 DEF RecvClosed
    <3>2. inbox[d] = <<>>
      BY <3>1 DEF StreamsSound
    <3> QED
      BY <3>1, <3>2 DEF ExchangeOf, netVars
  <2>6. CASE Kill(c)
    <3>1. /\ client'[d] = "done" /\ UNCHANGED <<inbox, outbox>>
          /\ peer'[d] /= "broken"
      BY <1>1, <1>3, <2>6 DEF Kill, PeerCloses
    <3> QED
      BY <3>1 DEF ExchangeOf
  <2>7. ASSUME NEW m \in Messages, EagerSend(c, m)
        PROVE  ExchangeOf(d, s)'
    BY <1>3, <2>7 DEF EagerSend
  <2> QED
    BY <2>1, <2>2, <2>3, <2>4, <2>5, <2>6, <2>7 DEF ClientStep
<1> QED
  BY <1>2, <1>3

---------------------------------------------------------------------------
\* A step that leaves the replies to a client alone, and takes nothing from it
\* but by closing its connection, keeps what is due to it.
LEMMA DueFrame ==
  ASSUME NEW d, NEW s \in BOOLEAN, NEW t \in BOOLEAN, AnswerDue(d, s),
         client'[d] = client[d], last'[d] = last[d],
         Attached(d)' => Attached(d) /\ inbox'[d] = inbox[d] /\ outbox'[d] = outbox[d],
         Attached(d)' /\ s => t
  PROVE  AnswerDue(d, t)'
BY DEF AnswerDue

\* send() to a client that waits puts a reply in its stream.
LEMMA SendDue ==
  ASSUME NetTypeOK, StreamsSound, NEW d \in Clients, SendOk(d) \/ SendFails(d),
         client'[d] = client[d]
  PROVE  AnswerDue(d, FALSE)'
<1> SUFFICES ASSUME client[d] = "waiting" PROVE outbox'[d] > 0
  BY DEF AnswerDue
<1>1. peer[d] \notin {"fin", "rst"}
  BY DEF StreamsSound
<1>2. outbox \in [Clients -> Nat] /\ outbox' = [outbox EXCEPT ![d] = @ + 1]
  BY <1>1 DEF SendOk, SendFails, NetTypeOK
<1> QED
  BY <1>2

\* A step of client c: a line puts what will be due in the stream, and only
\* the reply or the end of the connection ends the wait.
LEMMA ClientDue ==
  ASSUME NetTypeOK, ClientTypeOK, StreamsSound, NEW c \in Clients, ClientStep(c),
         NEW d \in Clients, NEW s \in BOOLEAN, AnswerDue(d, s)
  PROVE  AnswerDue(d, s)'
<1>1. /\ inbox \in [Clients -> Seq(Messages)] /\ client \in [Clients -> ClientState]
      /\ last \in [Clients -> Commands]
  BY DEF NetTypeOK, ClientTypeOK
<1>2. CASE d /= c
  <2>1. /\ inbox'[d] = inbox[d] /\ outbox'[d] = outbox[d] /\ client'[d] = client[d]
        /\ Attached(d)' => Attached(d)
    BY <1>2, ClientReadable, ClientAttaches
  <2>2. last'[d] = last[d]
    BY <1>1, <1>2 DEF ClientStep, Connect, ConnectRefused, SendCommand, RecvReply,
       RecvClosed, Kill, EagerSend, clientVars
  <2> QED
    BY <2>1, <2>2, DueFrame
<1>3. CASE d = c
  <2>1. CASE Connect(c) \/ ConnectRefused(c) \/ RecvReply(c) \/ RecvClosed(c) \/ Kill(c)
    <3>1. client'[d] /= "waiting"
      BY <1>1, <1>3, <2>1
      DEF Connect, ConnectRefused, RecvReply, RecvClosed, EndIteration, Kill
    <3> QED
      BY <3>1 DEF AnswerDue
  <2>2. ASSUME NEW m \in Messages, SendCommand(c, m) PROVE AnswerDue(d, s)'
    <3>1. last'[d] = m /\ (Attached(d)' <=> Attached(d))
      BY <1>1, <1>3, <2>2 DEF SendCommand, Attached, Held
    <3>2. m /= "" /\ Attached(d) => inbox'[d] = Append(inbox[d], m)
      BY <1>1, <1>3, <2>2 DEF SendCommand, Transmit
    <3> QED
      BY <3>1, <3>2, AppendedQueue DEF AnswerDue
  <2>3. ASSUME NEW m \in Messages \ {""}, EagerSend(c, m) PROVE AnswerDue(d, s)'
    <3>1. /\ UNCHANGED <<outbox, client, last>> /\ (Attached(d)' <=> Attached(d))
          /\ inbox'[d] = Append(inbox[d], m)
      BY <1>1, <1>3, <2>3 DEF EagerSend, Transmit, clientVars, Attached, Held
    <3> QED
      BY <3>1, AppendedQueue DEF AnswerDue
  <2> QED
    BY <2>1, <2>2, <2>3 DEF ClientStep
<1> QED
  BY <1>2, <1>3

\* What is under way on a connection, counted: one exchange at a time for
\* run_client, and one while a client waits.
LEMMA ExchangeCount ==
  ASSUME NetTypeOK, ClientTypeOK, NEW d \in Clients, NEW s \in BOOLEAN,
         d \notin Eager => ExchangeOf(d, s), AnswerDue(d, s)
  PROVE  LET underWay == Len(inbox[d]) + outbox[d] + (IF s THEN 1 ELSE 0)
         IN  /\ d \notin Eager => underWay <= 1
             /\ d \notin Eager /\ underWay = 1 => client[d] \in {"waiting", "done"}
             /\ client[d] = "waiting" /\ last[d] /= "" /\ Attached(d) => underWay >= 1
<1> DEFINE len  == Len(inbox[d])
           out  == outbox[d]
           serv == IF s THEN 1 ELSE 0
<1>1. /\ out \in Nat /\ client[d] \in ClientState
      /\ len \in Nat /\ (len = 0 <=> inbox[d] = <<>>)
  BY QueueLength DEF NetTypeOK, ClientTypeOK
<1>2. serv \in {0, 1} /\ (s <=> serv = 1)
  OBVIOUS
<1>3. ASSUME d \notin Eager
      PROVE  /\ len \in {0, 1} /\ out \in {0, 1} /\ serv \in {0, 1}
             /\ out = 1 => len = 0 /\ serv = 0
             /\ len = 1 => serv = 0
             /\ client[d] \in {"off", "ready"} => len = 0 /\ out = 0 /\ serv = 0
  <2>1. /\ out <= 1
        /\ out = 1 => inbox[d] = <<>> /\ ~s
        /\ inbox[d] /= <<>> => len = 1 /\ ~s
        /\ client[d] \in {"off", "ready"} => inbox[d] = <<>> /\ out = 0 /\ ~s
    BY <1>3 DEF ExchangeOf
  <2> HIDE DEF len, out, serv
  <2> QED
    BY <1>1, <1>2, <2>1
<1>4. client[d] = "waiting" /\ last[d] /= "" /\ Attached(d) => len /= 0 \/ out > 0 \/ serv = 1
  BY <1>1, <1>2 DEF AnswerDue
<1> HIDE DEF len, out, serv
<1>5. /\ d \notin Eager => len + out + serv <= 1
      /\ d \notin Eager /\ len + out + serv = 1 => client[d] \in {"waiting", "done"}
  BY <1>1, <1>3 DEF ClientState
<1>6. client[d] = "waiting" /\ last[d] /= "" /\ Attached(d) => len + out + serv >= 1
  <2>1. len /= 0 \/ out > 0 \/ serv = 1 => len + out + serv >= 1
    <3>1. len \in Nat /\ out \in Nat /\ serv \in {0, 1}
      BY <1>1, <1>2
    <3> QED
      BY <3>1
  <2> QED
    BY <1>4, <2>1
<1> QED
  BY <1>5, <1>6 DEF len, out, serv
=============================================================================
