-------------------------- MODULE TcpSocketsProofs --------------------------
(* What every server can rely on: what accept(), recv(), send() and close() *)
(* do to the descriptor table and to the streams.                           *)
EXTENDS TcpSockets, SequenceTheorems, TLAPS

USE SocketsAssumption

\* What the proofs about every server need: a connection has one server end at
\* most, in the queue or in the descriptor table.
OneServerEnd ==
  /\ \A fd, g \in Fd : files[fd] \in Clients /\ files[fd] = files[g] => fd = g
  /\ \A c \in acceptQ : ~Held(c)
---------------------------------------------------------------------------
\* A queue is a sequence, empty exactly when its length is 0.
LEMMA QueueLength ==
  ASSUME NetTypeOK, NEW c \in Clients
  PROVE  Len(inbox[c]) \in Nat /\ (Len(inbox[c]) = 0 <=> inbox[c] = <<>>)
BY EmptySeq, LenProperties DEF NetTypeOK

\* recv() leaves a shorter queue of messages behind.
LEMMA RemainingQueue ==
  ASSUME NetTypeOK, NEW c \in Clients, NEW k \in 1..Len(inbox[c])
  PROVE  /\ Remaining(c, k) \in Seq(Messages)
         /\ Len(Remaining(c, k)) = Len(inbox[c]) - k
         /\ inbox[c] /= <<>> /\ Head(inbox[c]) \in Messages
<1> DEFINE s == inbox[c]
<1>1. s \in Seq(Messages) /\ Len(s) \in Nat /\ k \in Int /\ s /= <<>>
  BY DEF NetTypeOK
<1>2. k <= Len(s)
  BY <1>1
<1> HIDE DEF s
<1>3. \A j \in (k + 1)..Len(s) : s[j] \in Messages
  BY <1>1, ElementOfSeq
<1>4. /\ SubSeq(s, k + 1, Len(s)) \in Seq(Messages)
      /\ Len(SubSeq(s, k + 1, Len(s))) =
           IF k + 1 <= Len(s) THEN Len(s) - (k + 1) + 1 ELSE 0
  BY <1>1, <1>3, SubSeqProperties
<1>5. Len(SubSeq(s, k + 1, Len(s))) = Len(s) - k
  BY <1>1, <1>2, <1>4
<1>6. Head(s) \in Messages
  BY <1>1, HeadTailProperties
<1> QED
  BY <1>1, <1>4, <1>5, <1>6 DEF Remaining, s

\* What remains of a queue without its first message.
LEMMA TailQueue ==
  ASSUME NetTypeOK, NEW c \in Clients, inbox[c] /= <<>>
  PROVE  /\ Tail(inbox[c]) \in Seq(Messages)
         /\ Len(Tail(inbox[c])) = Len(inbox[c]) - 1
         /\ Head(inbox[c]) \in Messages
<1>1. inbox[c] \in Seq(Messages)
  BY DEF NetTypeOK
<1> QED
  BY <1>1, HeadTailProperties

\* A message appended to a queue of messages.
LEMMA AppendedQueue ==
  ASSUME NetTypeOK, NEW c \in Clients, NEW m \in Messages
  PROVE  /\ Append(inbox[c], m) \in Seq(Messages)
         /\ Append(inbox[c], m) /= <<>>
         /\ Len(Append(inbox[c], m)) = Len(inbox[c]) + 1
<1>1. inbox[c] \in Seq(Messages)
  BY DEF NetTypeOK
<1> QED
  BY <1>1, AppendProperties

---------------------------------------------------------------------------
\* accept() moves a connection from the queue to one descriptor.
LEMMA AcceptEnds ==
  ASSUME NetTypeOK, OneServerEnd,
         NEW c \in acceptQ, NEW fd \in Fd, files[fd] = "free",
         files' = [files EXCEPT ![fd] = c], acceptQ' = acceptQ \ {c}
  PROVE  /\ OneServerEnd'
         /\ \A d \in Clients : Attached(d)' <=> Attached(d)
         /\ \A d \in Clients : Held(d)' <=> (Held(d) \/ d = c)
<1>1. c \in Clients /\ files \in [Fd -> Clients \cup {"free", "listener"}]
  BY DEF NetTypeOK
<1>2. files'[fd] = c /\ \A g \in Fd : g /= fd => files'[g] = files[g]
  BY <1>1
<1>3. \A g \in Fd : files[g] /= c
  BY DEF OneServerEnd, Held
<1>4. \A d \in Clients : d /= c => (Held(d)' <=> Held(d))
  BY <1>1, <1>2 DEF Held
<1>5. Held(c)'
  BY <1>2 DEF Held
<1>6. \A d \in Clients : Attached(d)' <=> Attached(d)
  BY <1>4, <1>5 DEF Attached
<1>7. \A g, h \in Fd : files'[g] \in Clients /\ files'[g] = files'[h] => g = h
  BY <1>2, <1>3 DEF OneServerEnd
<1>8. \A d \in acceptQ' : ~Held(d)'
  BY <1>4 DEF OneServerEnd, NetTypeOK
<1> QED
  BY <1>4, <1>5, <1>6, <1>7, <1>8 DEF OneServerEnd

\* Releasing descriptors gives no connection a second server end.
LEMMA EndsShrink ==
  ASSUME OneServerEnd, acceptQ \subseteq Clients,
         \A fd \in Fd : files'[fd] \in {files[fd], "free"},
         acceptQ' \subseteq acceptQ
  PROVE  OneServerEnd' /\ \A c \in Clients : Held(c)' => Held(c)
<1>1. \A fd \in Fd : files'[fd] \in Clients => files'[fd] = files[fd]
  OBVIOUS
<1>2. \A c \in Clients : Held(c)' => Held(c)
  BY <1>1 DEF Held
<1>3. \A fd, g \in Fd : files'[fd] \in Clients /\ files'[fd] = files'[g] => fd = g
  BY <1>1 DEF OneServerEnd
<1>4. \A c \in acceptQ' : ~Held(c)'
  BY <1>2 DEF OneServerEnd
<1> QED
  BY <1>2, <1>3, <1>4 DEF OneServerEnd

\* close() releases the server end of one connection, with what waits on it.
LEMMA CloseFdEnds ==
  ASSUME NetTypeOK, OneServerEnd,
         NEW fd \in Fd, NEW c \in Clients, files[fd] = c,
         CloseFd(fd), acceptQ' = acceptQ
  PROVE  /\ OneServerEnd'
         /\ files' \in [Fd -> Clients \cup {"free", "listener"}]
         /\ inbox' \in [Clients -> Seq(Messages)]
         /\ files'[fd] = "free" /\ \A g \in Fd : g /= fd => files'[g] = files[g]
         /\ inbox'[c] = <<>> /\ ~Held(c)' /\ ~Attached(c)'
         /\ \A d \in Clients : d /= c =>
              /\ inbox'[d] = inbox[d]
              /\ Held(d)' <=> Held(d)
              /\ Attached(d)' <=> Attached(d)
<1>1. /\ files \in [Fd -> Clients \cup {"free", "listener"}]
      /\ inbox \in [Clients -> Seq(Messages)] /\ acceptQ \subseteq Clients
  BY DEF NetTypeOK
<1>2. files' = [files EXCEPT ![fd] = "free"] /\ inbox' = [inbox EXCEPT ![c] = <<>>]
  BY DEF CloseFd
<1>3. files' \in [Fd -> Clients \cup {"free", "listener"}]
  BY <1>1, <1>2
<1>4. inbox' \in [Clients -> Seq(Messages)]
  BY <1>1, <1>2, EmptySeq
<1>5. files'[fd] = "free" /\ \A g \in Fd : g /= fd => files'[g] = files[g]
  BY <1>1, <1>2
<1>6. OneServerEnd'
  BY <1>1, <1>5, EndsShrink
<1>7. ~Held(c)'
  BY <1>5 DEF Held, OneServerEnd
<1>8. c \notin acceptQ
  BY DEF OneServerEnd, Held
<1>9. \A d \in Clients : d /= c => (Held(d)' <=> Held(d))
  BY <1>5 DEF Held
<1>10. \A d \in Clients : d /= c => (Attached(d)' <=> Attached(d))
  BY <1>9 DEF Attached
<1>11. inbox'[c] = <<>> /\ \A d \in Clients : d /= c => inbox'[d] = inbox[d]
  BY <1>1, <1>2
<1>12. ~Attached(c)'
  BY <1>7, <1>8 DEF Attached
<1> QED
  BY <1>3, <1>4, <1>5, <1>6, <1>7, <1>9, <1>10, <1>11, <1>12

\* The end of the process releases everything.
LEMMA CloseAllEnds ==
  ASSUME CloseAll
  PROVE  /\ OneServerEnd'
         /\ files' \in [Fd -> Clients \cup {"free", "listener"}]
         /\ acceptQ' \in SUBSET Clients
         /\ inbox' \in [Clients -> Seq(Messages)]
         /\ \A c \in Clients : inbox'[c] = <<>> /\ ~Held(c)' /\ ~Attached(c)'
<1>1. \A fd \in Fd : files'[fd] = "free"
  BY DEF CloseAll
<1>2. \A c \in Clients : ~Held(c)'
  BY <1>1 DEF Held
<1> QED
  BY <1>1, <1>2, EmptySeq DEF CloseAll, OneServerEnd, Attached

\* send() changes the peer and the replies of one connection; a peer it
\* reports as gone was gone before.
LEMMA SendStreams ==
  ASSUME NetTypeOK, NEW c \in Clients, SendOk(c) \/ SendFails(c)
  PROVE  /\ peer' \in [Clients -> PeerState] /\ outbox' \in [Clients -> Nat]
         /\ outbox'[c] \in {outbox[c], outbox[c] + 1}
         /\ peer'[c] = "broken" => peer[c] \in {"fin", "rst"}
         /\ \A d \in Clients :
              /\ peer'[d] = "up" <=> peer[d] = "up"
              /\ peer'[d] \in {"fin", "rst", "broken"} <=> peer[d] \in {"fin", "rst", "broken"}
              /\ d /= c => peer'[d] = peer[d] /\ outbox'[d] = outbox[d]
<1>1. /\ peer \in [Clients -> PeerState] /\ outbox \in [Clients -> Nat]
      /\ outbox[c] + 1 \in Nat
  BY DEF NetTypeOK
<1>2. CASE SendOk(c)
  BY <1>1, <1>2 DEF SendOk, PeerState
<1>3. CASE SendFails(c)
  BY <1>1, <1>3 DEF SendFails, PeerState
<1> QED
  BY <1>2, <1>3

---------------------------------------------------------------------------
\* What one step of a server may do to the sockets.
SockAccept ==
  /\ \E c \in acceptQ, fd \in Fd :
       /\ files[fd] = "free"
       /\ files'   = [files EXCEPT ![fd] = c]
       /\ acceptQ' = acceptQ \ {c}
  /\ UNCHANGED <<peer, inbox, outbox>>
SockRecv(c) ==
  /\ \/ \E k \in 1..Len(inbox[c]) : inbox' = [inbox EXCEPT ![c] = Remaining(c, k)]
     \/ inbox[c] /= <<>> /\ inbox' = [inbox EXCEPT ![c] = Tail(@)]
  /\ UNCHANGED <<files, acceptQ, peer, outbox>>
\* An answer may be sent in the same step: the handshake of TLS.
SockRecvSend(c) ==
  /\ inbox[c] /= <<>>
  /\ inbox' = [inbox EXCEPT ![c] = Tail(@)]
  /\ SendOk(c)
  /\ UNCHANGED <<files, acceptQ>>
SockSend(c) ==
  /\ SendOk(c) \/ SendFails(c)
  /\ UNCHANGED <<files, acceptQ, inbox>>
SockClose(fd) ==
  /\ CloseFd(fd)
  /\ UNCHANGED <<acceptQ, peer, outbox>>
SockSendClose(fd) ==
  /\ SendOk(files[fd]) \/ SendFails(files[fd])
  /\ CloseFd(fd)
  /\ UNCHANGED acceptQ
SockEnd ==
  /\ CloseAll
  /\ UNCHANGED <<peer, outbox>>

SocketStep ==
  \/ UNCHANGED netVars
  \/ SockAccept
  \/ \E c \in Clients : SockRecv(c) \/ SockRecvSend(c) \/ SockSend(c)
  \/ \E fd \in Fd : files[fd] \in Clients /\ (SockClose(fd) \/ SockSendClose(fd))
  \/ SockEnd

\* Each of these steps keeps the types and the one server end of every
\* connection; queues shrink or belong to connections that stay attached;
\* none is attached by a server, and no peer is opened or closed.
LEMMA SocketStepSound ==
  ASSUME NetTypeOK, OneServerEnd, SocketStep
  PROVE  /\ NetTypeOK' /\ OneServerEnd'
         /\ \A d \in Clients : inbox'[d] /= <<>> =>
              inbox[d] /= <<>> /\ (Attached(d) => Attached(d)')
         /\ acceptQ' \subseteq acceptQ /\ \A d \in Clients : Attached(d)' => Attached(d)
         /\ \A d \in Clients :
              /\ peer'[d] = "up" <=> peer[d] = "up"
              /\ peer'[d] \in {"fin", "rst", "broken"} <=> peer[d] \in {"fin", "rst", "broken"}
<1> DEFINE Goal ==
      /\ NetTypeOK' /\ OneServerEnd'
      /\ \A d \in Clients : inbox'[d] /= <<>> =>
           inbox[d] /= <<>> /\ (Attached(d) => Attached(d)')
      /\ acceptQ' \subseteq acceptQ /\ \A d \in Clients : Attached(d)' => Attached(d)
      /\ \A d \in Clients :
           /\ peer'[d] = "up" <=> peer[d] = "up"
           /\ peer'[d] \in {"fin", "rst", "broken"} <=> peer[d] \in {"fin", "rst", "broken"}
<1> USE DEF NetTypeOK
<1>1. CASE UNCHANGED netVars
  BY <1>1 DEF netVars, OneServerEnd, Attached, Held
<1>2. CASE SockAccept
  <2>1. PICK c \in acceptQ, fd \in Fd :
          /\ files[fd] = "free"
          /\ files'   = [files EXCEPT ![fd] = c]
          /\ acceptQ' = acceptQ \ {c}
    BY <1>2 DEF SockAccept
  <2>2. NetTypeOK'
    BY <1>2, <2>1 DEF SockAccept
  <2>3. OneServerEnd' /\ \A d \in Clients : Attached(d)' <=> Attached(d)
    BY <2>1, AcceptEnds
  <2> QED
    BY <1>2, <2>2, <2>3 DEF SockAccept
<1>3. ASSUME NEW c \in Clients, SockRecv(c) \/ SockRecvSend(c) PROVE Goal
  <2>1. PICK q \in Seq(Messages) : inbox' = [inbox EXCEPT ![c] = q]
    BY <1>3, RemainingQueue, TailQueue DEF SockRecv, SockRecvSend
  <2>2. inbox[c] /= <<>>
    BY <1>3, RemainingQueue DEF SockRecv, SockRecvSend
  <2>3. /\ peer' \in [Clients -> PeerState] /\ outbox' \in [Clients -> Nat]
        /\ \A d \in Clients :
             /\ peer'[d] = "up" <=> peer[d] = "up"
             /\ peer'[d] \in {"fin", "rst", "broken"} <=> peer[d] \in {"fin", "rst", "broken"}
    BY <1>3, SendStreams DEF SockRecv, SockRecvSend
  <2>4. UNCHANGED <<files, acceptQ>>
    BY <1>3 DEF SockRecv, SockRecvSend
  <2>5. NetTypeOK'
    BY <2>1, <2>3, <2>4
  <2>6. OneServerEnd' /\ \A d \in Clients : Attached(d)' <=> Attached(d)
    BY <2>4 DEF OneServerEnd, Attached, Held
  <2>7. \A d \in Clients : inbox'[d] /= <<>> => inbox[d] /= <<>>
    BY <2>1, <2>2
  <2> QED
    BY <2>3, <2>4, <2>5, <2>6, <2>7
<1>4. ASSUME NEW c \in Clients, SockSend(c) PROVE Goal
  <2>1. OneServerEnd' /\ \A d \in Clients : Attached(d)' <=> Attached(d)
    BY <1>4 DEF SockSend, OneServerEnd, Attached, Held
  <2> QED
    BY <1>4, <2>1, SendStreams DEF SockSend
<1>5. ASSUME NEW fd \in Fd, files[fd] \in Clients, CloseFd(fd), acceptQ' = acceptQ,
             UNCHANGED <<peer, outbox>> \/ SendOk(files[fd]) \/ SendFails(files[fd])
      PROVE  Goal
  <2>1. /\ peer' \in [Clients -> PeerState] /\ outbox' \in [Clients -> Nat]
        /\ \A d \in Clients :
             /\ peer'[d] = "up" <=> peer[d] = "up"
             /\ peer'[d] \in {"fin", "rst", "broken"} <=> peer[d] \in {"fin", "rst", "broken"}
    BY <1>5, SendStreams
  <2>2. /\ OneServerEnd'
        /\ files' \in [Fd -> Clients \cup {"free", "listener"}]
        /\ inbox' \in [Clients -> Seq(Messages)]
        /\ \A d \in Clients : /\ d = files[fd] => inbox'[d] = <<>> /\ ~Attached(d)'
                              /\ d /= files[fd] => inbox'[d] = inbox[d]
                              /\ d /= files[fd] => (Attached(d)' <=> Attached(d))
    BY <1>5, CloseFdEnds
  <2> QED
    BY <1>5, <2>1, <2>2
<1>6. CASE SockEnd
  BY <1>6, CloseAllEnds DEF SockEnd, CloseAll
<1> QED
  BY <1>1, <1>2, <1>3, <1>4, <1>5, <1>6 DEF SocketStep, SockClose, SockSendClose
=============================================================================
