------------------------- MODULE ThreadServerProofs -------------------------
(* Proofs about ThreadServer for any number of clients, threads, cells and *)
(* descriptors: no thread ever gets at another thread's client, and no     *)
(* cell is lost without its connection; and nothing a client asked is lost.*)
(* The last part is about the servers that do with one thread,             *)
(* SequentialServer and NonBlockingServer: what 08 leaves open has lost    *)
(* its client, 11 has one client at a time, and neither loses a command.   *)
EXTENDS MCTwoClients, CommandClientProofs

USE SocketsAssumption, ClientAssumption, ThreadAssumption

\* What the proofs need besides OwnConnection and CellsHaveOwners.

\* A connection whose client has left, and from which nothing is to be read.
Gone(c) == peer[c] \in {"fin", "rst", "broken"} /\ inbox[c] = <<>>

\* Each live thread has a cell and a connection of its own, which is never in
\* the queue again; the connection is open while the thread serves it, and
\* closed or deserted when all that is left to do is free().
ThreadSound(t) ==
  Live(t) =>
    /\ FdOf(t) \in Fd
    /\ owner[t] \in Clients /\ owner[t] \notin acceptQ /\ client[owner[t]] /= "off"
    /\ IF tpc[t] = "free" THEN Attached(owner[t]) => Gone(owner[t])
                          ELSE ConnOf(t) = owner[t]
ThreadsSound ==
  /\ \A t \in Threads : ThreadSound(t)
  /\ \A t, u \in Threads :
       t /= u /\ Live(t) /\ Live(u) => arg[t] /= arg[u] /\ owner[t] /= owner[u]

\* Between accept() and pthread_create() the new connection is nobody's, and
\* neither is its cell.
NewSound ==
  /\ mpc \in {"calloc", "create"} =>
       /\ sock_client \in Fd /\ files[sock_client] \in Clients
       /\ \A t \in Threads : Live(t) => owner[t] /= files[sock_client]
  /\ mpc = "create" =>
       /\ heap[p_sock_client] = sock_client
       /\ \A t \in Threads : Live(t) => arg[t] /= p_sock_client
  /\ mpc = "killed" =>
       /\ \A t \in Threads : ~Live(t)
       /\ \A c \in Clients : ~Held(c)

\* No thread has cell x, nor is one about to be given it.
Orphan(x) ==
  /\ mpc = "create" => p_sock_client /= x
  /\ \A t \in Threads : Live(t) => arg[t] /= x

\* The cell left with an abandoned connection stays left.
CellsSound ==
  /\ mpc /= "killed" =>
       \A x \in Cells :
         heap[x] /= 0 /\ Orphan(x) => \E c \in Clients : files[heap[x]] = c /\ Abandoned(c)
  /\ \A c \in Clients :
       Abandoned(c) => \/ Gone(c)
                       \/ \E x \in Cells : heap[x] /= 0 /\ Orphan(x) /\ files[heap[x]] = c

IInv ==
  /\ TypeOK
  /\ OneServerEnd
  /\ StreamsSound
  /\ \A c \in Clients : Attached(c) => peer[c] /= "none"
  /\ ThreadsSound
  /\ NewSound
  /\ CellsSound
---------------------------------------------------------------------------
\* The server starts in IInv.
LEMMA InitIInv == Init => IInv
<1> SUFFICES ASSUME Init PROVE IInv
  OBVIOUS
<1>1. /\ NetInit /\ ClientInit /\ mpc = "accept" /\ sock_client = 0
      /\ p_sock_client \in Cells /\ heap = [x \in Cells |-> 0]
      /\ tpc = [t \in Threads |-> "idle"] /\ arg = [t \in Threads |-> p_sock_client]
      /\ request = [t \in Threads |-> ""] /\ owner = [t \in Threads |-> "free"]
  BY DEF Init
<1>2. /\ NetTypeOK /\ ClientTypeOK /\ OneServerEnd /\ StreamsSound
      /\ \A c \in Clients : ~Attached(c)
  BY <1>1, ClientInitSound
<1>3. TypeOK
  BY <1>1, <1>2 DEF TypeOK, Commands
<1>4. \A t \in Threads : ~Live(t)
  BY <1>1 DEF Live
<1>5. ThreadsSound
  BY <1>4 DEF ThreadsSound, ThreadSound
<1>6. NewSound
  BY <1>1 DEF NewSound
<1>7. CellsSound
  BY <1>1, <1>2 DEF CellsSound, Abandoned, Attached
<1> QED
  BY <1>2, <1>3, <1>5, <1>6, <1>7 DEF IInv

---------------------------------------------------------------------------
\* A thread that serves has an open connection.
LEMMA ServedConn ==
  ASSUME IInv, NEW t \in Threads, tpc[t] \in {"recv", "send", "close"}
  PROVE  /\ Live(t) /\ FdOf(t) \in Fd /\ ConnOf(t) = owner[t] /\ owner[t] \in Clients
         /\ files[FdOf(t)] = owner[t] /\ Held(owner[t])
<1>1. Live(t) /\ ThreadSound(t)
  BY DEF Live, IInv, ThreadsSound
<1> QED
  BY <1>1 DEF ThreadSound, ConnOf, Held

\* A step of any thread is one of the steps that any server makes.
LEMMA ThreadStepSockets ==
  ASSUME IInv, NEW t \in Threads, ThreadStep(t)
  PROVE  SocketStep /\ UNCHANGED clientVars
<1>1. CASE RecvData(t)
  BY <1>1, ServedConn DEF RecvData, SocketStep, SockRecv
<1>2. CASE RecvEnd(t) \/ Free(t)
  BY <1>2 DEF RecvEnd, Free, SocketStep
<1>3. CASE Send(t)
  BY <1>3, ServedConn DEF Send, SocketStep, SockSend
<1>4. CASE Close(t)
  BY <1>4, ServedConn DEF Close, SocketStep, SockClose
<1>5. CASE KilledBySigpipe(t)
  BY <1>5 DEF KilledBySigpipe, ProcessEnds, SocketStep, SockEnd
<1> QED
  BY <1>1, <1>2, <1>3, <1>4, <1>5 DEF ThreadStep

\* To the sockets a step of the main thread is an accept(), the end of the
\* process or nothing.
LEMMA MainStepSockets ==
  ASSUME IInv, MainStep
  PROVE  SocketStep /\ UNCHANGED clientVars
BY DEF MainStep, Accept, Calloc, CallocFails, ProcessEnds, Create, CreateFails, LowestFree,
       SocketStep, SockAccept, SockEnd

\* Type correctness is kept by every step.
LEMMA NextType ==
  ASSUME IInv, [Next]_vars
  PROVE  TypeOK'
<1>1. TypeOK
  BY DEF IInv
<1>2. CASE MainStep
  <2>1. NetTypeOK' /\ ClientTypeOK'
    BY <1>1, <1>2, MainStepSockets, SocketStepSound DEF IInv, TypeOK, ClientTypeOK, clientVars
  <2>2. ASSUME NEW t \in Threads, Create(t) PROVE owner' \in [Threads -> Clients \cup {"free", "listener"}]
    BY <1>1, <2>2 DEF Create, IInv, NewSound, TypeOK, NetTypeOK
  <2>3. ASSUME NEW t \in Threads, Create(t) PROVE TypeOK'
    BY <1>1, <2>1, <2>2, <2>3 DEF TypeOK, Create
  <2>4. CASE Accept
    BY <1>1, <2>1, <2>4 DEF TypeOK, Accept, threadVars
  <2>5. CASE Calloc \/ CreateFails
    BY <1>1, <2>1, <2>5 DEF TypeOK, Calloc, CreateFails, threadVars
  <2>6. CASE CallocFails
    BY <1>1, <2>1, <2>6 DEF TypeOK, CallocFails, ProcessEnds
  <2> QED
    BY <1>2, <2>3, <2>4, <2>5, <2>6 DEF MainStep
<1>3. ASSUME NEW t \in Threads, ThreadStep(t)
      PROVE  TypeOK'
  <2>1. NetTypeOK' /\ ClientTypeOK'
    BY <1>1, <1>3, ThreadStepSockets, SocketStepSound DEF IInv, TypeOK, ClientTypeOK, clientVars
  <2>2. CASE RecvData(t)
    <3>1. request' \in [Threads -> Commands]
      BY <1>1, <2>2, ServedConn, RemainingProperties DEF RecvData, TypeOK
    <3> QED
      BY <1>1, <2>1, <2>2, <3>1 DEF RecvData, TypeOK, mainVars
  <2>3. CASE RecvEnd(t) \/ Send(t) \/ Close(t) \/ Free(t) \/ KilledBySigpipe(t)
    BY <1>1, <2>1, <2>3 DEF TypeOK, RecvEnd, Send, Close, Free, KilledBySigpipe, ProcessEnds,
       mainVars
  <2> QED
    BY <1>3, <2>2, <2>3 DEF ThreadStep
<1>4. ASSUME NEW c \in Clients, ClientStep(c), UNCHANGED serverVars
      PROVE  TypeOK'
  BY <1>1, <1>4, ClientStepType DEF TypeOK, serverVars, mainVars, threadVars
<1>5. CASE UNCHANGED vars
  BY <1>1, <1>5 DEF vars, netVars, clientVars, serverVars, mainVars, threadVars, TypeOK,
     NetTypeOK, ClientTypeOK
<1> QED
  BY <1>2, <1>3, <1>4, <1>5 DEF Next

\* The server ends and the streams stay sound.
LEMMA NextEnds ==
  ASSUME IInv, [Next]_vars
  PROVE  /\ OneServerEnd' /\ StreamsSound'
         /\ \A c \in Clients : Attached(c)' => peer'[c] /= "none"
<1> USE DEF IInv, TypeOK
<1>1. CASE SocketStep /\ UNCHANGED clientVars
  <2>1. \A c \in Clients : peer[c] /= "none" => peer'[c] /= "none"
    BY <1>1, SocketStepSound DEF NetTypeOK, PeerState
  <2> QED
    BY <1>1, <2>1, SocketStepSound, SocketStepStreams DEF clientVars
<1>2. ASSUME NEW c \in Clients, ClientStep(c)
      PROVE  /\ OneServerEnd' /\ StreamsSound'
             /\ \A d \in Clients : Attached(d)' => peer'[d] /= "none"
  BY <1>2, ClientEnds, ClientStreams, ClientOpens
<1>3. CASE UNCHANGED vars
  BY <1>3 DEF vars, netVars, clientVars, OneServerEnd, StreamsSound, Attached, Held
<1> QED
  BY <1>1, <1>2, <1>3, MainStepSockets, ThreadStepSockets DEF Next

---------------------------------------------------------------------------
\* A connection that has left the queue never comes back, and once its client
\* is gone nothing more arrives on it.
LEMMA OwnerStays ==
  ASSUME IInv, [Next]_vars, NEW c \in Clients
  PROVE  /\ client[c] /= "off" => /\ client'[c] /= "off"
                                  /\ Attached(c)' => Attached(c)
                                  /\ c \notin acceptQ => c \notin acceptQ'
         /\ Gone(c) => Gone(c)'
<1> USE DEF IInv, TypeOK
<1>1. CASE SocketStep /\ UNCHANGED clientVars
  BY <1>1, SocketStepSound DEF clientVars, Gone
<1>2. ASSUME NEW d \in Clients, ClientStep(d)
      PROVE  /\ client[c] /= "off" => /\ client'[c] /= "off"
                                      /\ Attached(c)' => Attached(c)
                                      /\ c \notin acceptQ => c \notin acceptQ'
             /\ Gone(c) => Gone(c)'
  <2>1. client[c] /= "off" => /\ client'[c] /= "off"
                              /\ Attached(c)' => Attached(c)
                              /\ c \notin acceptQ => c \notin acceptQ'
    BY <1>2, ClientAttaches
  <2>2. Gone(c) => Gone(c)'
    BY <1>2, DoneClient DEF Gone, StreamsSound
  <2> QED
    BY <2>1, <2>2
<1>3. CASE UNCHANGED vars
  BY <1>3 DEF vars, netVars, clientVars, Attached, Held, Gone
<1> QED
  BY <1>1, <1>2, <1>3, MainStepSockets, ThreadStepSockets DEF Next

\* A thread keeps what it has while others leave its cell and descriptor alone.
LEMMA ThreadFrame ==
  ASSUME IInv, [Next]_vars, NEW t \in Threads,
         tpc'[t] = tpc[t] \/ (tpc'[t] \in {"recv", "send", "close"} /\ tpc[t] \in {"recv", "send"}),
         owner'[t] = owner[t], arg'[t] = arg[t],
         Live(t) => heap'[arg[t]] = heap[arg[t]],
         Live(t) /\ tpc[t] /= "free" => files'[FdOf(t)] = files[FdOf(t)]
  PROVE  ThreadSound(t)'
<1> SUFFICES ASSUME Live(t)' PROVE ThreadSound(t)'
  BY DEF ThreadSound
<1>1. /\ Live(t) /\ FdOf(t) \in Fd /\ FdOf(t)' = FdOf(t)
      /\ owner[t] \in Clients /\ owner[t] \notin acceptQ /\ client[owner[t]] /= "off"
      /\ IF tpc[t] = "free" THEN Attached(owner[t]) => Gone(owner[t])
                            ELSE ConnOf(t) = owner[t]
  BY DEF IInv, ThreadsSound, ThreadSound, Live, FdOf
<1>2. PICK c \in Clients : c = owner[t]
  BY <1>1
<1>3. client'[c] /= "off" /\ c \notin acceptQ' /\ (Attached(c)' => Attached(c)) /\ (Gone(c) => Gone(c)')
  BY <1>1, <1>2, OwnerStays
<1>4. CASE tpc[t] = "free"
  <2>1. Attached(c)' => Gone(c)'
    BY <1>1, <1>2, <1>3, <1>4
  <2> QED
    BY <1>1, <1>2, <1>3, <1>4, <2>1 DEF ThreadSound, Attached, Held, Gone
<1>5. CASE tpc[t] /= "free"
  BY <1>1, <1>2, <1>3, <1>5 DEF ThreadSound, ConnOf
<1> QED
  BY <1>4, <1>5

\* What a thread that stays out of the cells and the descriptor table changes.
LEMMA QuietThread ==
  ASSUME IInv, NEW t \in Threads, RecvData(t) \/ RecvEnd(t) \/ Send(t)
  PROVE  /\ UNCHANGED <<files, acceptQ, mainVars, heap, arg, owner>>
         /\ \A u \in Threads : u /= t => tpc'[u] = tpc[u]
         /\ Live(t) /\ tpc'[t] \in {"recv", "send", "close", "free"}
         /\ tpc[t] \in {"recv", "send"}
         /\ ConnOf(t) = owner[t] /\ owner[t] \in Clients
BY ServedConn DEF RecvData, RecvEnd, Send, netVars, IInv, TypeOK, Live

\* close() by one thread touches no descriptor that another one has.
LEMMA CloseIsOwn ==
  ASSUME IInv, NEW t \in Threads, Close(t)
  PROVE  /\ FdOf(t) \in Fd /\ owner[t] \in Clients
         /\ files[FdOf(t)] = owner[t] /\ files'[FdOf(t)] = "free"
         /\ \A fd \in Fd : fd /= FdOf(t) => files'[fd] = files[fd]
         /\ \A fd \in Fd : files[fd] = owner[t] => fd = FdOf(t)
         /\ \A d \in Clients : d = owner[t] => ~Held(d)' /\ ~Attached(d)'
         /\ \A d \in Clients : d /= owner[t] => (Held(d)' <=> Held(d))
<1>1. /\ FdOf(t) \in Fd /\ owner[t] \in Clients /\ files[FdOf(t)] = owner[t]
      /\ CloseFd(FdOf(t)) /\ acceptQ' = acceptQ /\ NetTypeOK /\ OneServerEnd
  BY ServedConn DEF Close, IInv, TypeOK
<1>2. PICK fd \in Fd, c \in Clients : fd = FdOf(t) /\ c = owner[t]
  BY <1>1
<1>3. /\ files'[fd] = "free" /\ \A g \in Fd : g /= fd => files'[g] = files[g]
      /\ ~Held(c)' /\ ~Attached(c)'
      /\ \A d \in Clients : d /= c => (Held(d)' <=> Held(d))
  BY <1>1, <1>2, CloseFdEnds
<1> QED
  BY <1>1, <1>2, <1>3 DEF OneServerEnd

\* Every live thread keeps a cell and a connection of its own.
LEMMA NextThreads ==
  ASSUME IInv, [Next]_vars
  PROVE  ThreadsSound'
<1> DEFINE Goal == ThreadsSound'
           Apart == \A t, u \in Threads :
                      t /= u /\ Live(t) /\ Live(u) => arg[t] /= arg[u] /\ owner[t] /= owner[u]
<1>1. Apart /\ \A t \in Threads : ThreadSound(t)
  BY DEF IInv, ThreadsSound
<1>2. TypeOK /\ ThreadsSound /\ NewSound
  BY DEF IInv
<1>3. ASSUME UNCHANGED <<arg, owner>>, \A t \in Threads : Live(t)' => Live(t)
      PROVE  Apart'
  BY <1>1, <1>3
<1>4. CASE Accept
  <2>1. /\ UNCHANGED <<tpc, owner, arg, heap>>
        /\ \A fd \in Fd : files[fd] \in Clients => files'[fd] = files[fd]
    BY <1>2, <1>4 DEF Accept, LowestFree, threadVars, TypeOK, NetTypeOK
  <2>2. ASSUME NEW t \in Threads PROVE ThreadSound(t)'
    <3>1. Live(t) /\ tpc[t] /= "free" => files'[FdOf(t)] = files[FdOf(t)]
      BY <1>1, <2>1 DEF ThreadSound, ConnOf
    <3> QED
      BY <2>1, <3>1, ThreadFrame
  <2> QED
    BY <1>3, <2>1, <2>2 DEF ThreadsSound, Live
<1>5. CASE Calloc
  <2>1. /\ UNCHANGED <<tpc, owner, arg, files>>
        /\ \A x \in Cells : heap[x] /= 0 => heap'[x] = heap[x]
    BY <1>2, <1>5 DEF Calloc, threadVars, netVars, TypeOK
  <2>2. ASSUME NEW t \in Threads PROVE ThreadSound(t)'
    <3>1. Live(t) => heap[arg[t]] /= 0 /\ arg[t] \in Cells
      BY <1>1, <1>2 DEF ThreadSound, FdOf, Fd, TypeOK
    <3> QED
      BY <2>1, <3>1, ThreadFrame
  <2> QED
    BY <1>3, <2>1, <2>2 DEF ThreadsSound, Live
<1>6. ASSUME NEW t \in Threads, Create(t) PROVE Goal
  <2>1. /\ mpc = "create" /\ ~Live(t) /\ UNCHANGED <<files, acceptQ, heap, client>>
        /\ tpc'[t] = "recv" /\ arg'[t] = p_sock_client /\ owner'[t] = files[sock_client]
        /\ \A u \in Threads : u /= t => tpc'[u] = tpc[u] /\ arg'[u] = arg[u] /\ owner'[u] = owner[u]
    BY <1>2, <1>6 DEF Create, netVars, clientVars, TypeOK
  <2>2. /\ sock_client \in Fd /\ files[sock_client] \in Clients
        /\ heap[p_sock_client] = sock_client
        /\ \A u \in Threads : Live(u) => owner[u] /= files[sock_client] /\ arg[u] /= p_sock_client
    BY <1>2, <2>1 DEF NewSound
  <2>3. ThreadSound(t)'
    <3>1. PICK c \in Clients : c = files[sock_client]
      BY <2>2
    <3>2. Held(c) /\ c \notin acceptQ /\ client[c] /= "off"
      BY <2>2, <3>1 DEF IInv, OneServerEnd, StreamsSound, Held, Attached
    <3> QED
      BY <2>1, <2>2, <3>1, <3>2 DEF ThreadSound, FdOf, ConnOf
  <2>4. ASSUME NEW u \in Threads, u /= t PROVE ThreadSound(u)'
    BY <2>1, <2>4, ThreadFrame
  <2>5. Apart'
    BY <1>1, <2>1, <2>2 DEF Live
  <2> QED
    BY <2>3, <2>4, <2>5 DEF ThreadsSound
<1>7. CASE CreateFails
  <2>1. UNCHANGED <<tpc, owner, arg, heap, files>>
    BY <1>7 DEF CreateFails, threadVars, netVars
  <2> QED
    BY <1>3, <2>1, ThreadFrame DEF ThreadsSound, Live
<1>8. ASSUME NEW t \in Threads, RecvData(t) \/ RecvEnd(t) \/ Send(t) PROVE Goal
  <2>1. /\ UNCHANGED <<files, acceptQ, heap, arg, owner>>
        /\ \A u \in Threads : u /= t => tpc'[u] = tpc[u]
        /\ Live(t) /\ tpc[t] \in {"recv", "send"}
        /\ ConnOf(t) = owner[t] /\ owner[t] \in Clients
    BY <1>8, QuietThread
  <2>2. ASSUME NEW u \in Threads, u /= t PROVE ThreadSound(u)'
    BY <2>1, <2>2, ThreadFrame
  <2>3. CASE RecvEnd(t)
    <3>1. PICK c \in Clients : c = owner[t]
      BY <2>1
    <3>2. FdOf(t) \in Fd /\ c \notin acceptQ /\ client[c] /= "off" /\ Held(c)
      BY <1>1, <2>1, <3>1 DEF ThreadSound, Held, ConnOf
    <3>3. peer[c] \in {"fin", "rst", "broken"} /\ inbox[c] = <<>>
      BY <1>2, <2>1, <2>3, <3>1, <3>2 DEF RecvEnd, IInv, Attached, TypeOK, NetTypeOK, PeerState
    <3>4. /\ tpc'[t] = "free" /\ UNCHANGED <<netVars, client>>
      BY <1>2, <2>3 DEF RecvEnd, TypeOK, clientVars
    <3> QED
      BY <1>3, <2>1, <2>2, <3>1, <3>2, <3>3, <3>4 DEF ThreadsSound, ThreadSound, Live, FdOf, Gone, netVars
  <2>4. CASE RecvData(t) \/ Send(t)
    <3>1. tpc'[t] \in {"recv", "send", "close"}
      BY <1>2, <2>4 DEF RecvData, Send, TypeOK
    <3>2. ThreadSound(t)'
      BY <2>1, <3>1, ThreadFrame
    <3> QED
      BY <1>3, <2>1, <2>2, <3>2 DEF ThreadsSound, Live
  <2> QED
    BY <1>8, <2>3, <2>4
<1>9. ASSUME NEW t \in Threads, Close(t) PROVE Goal
  <2>1. /\ UNCHANGED <<heap, arg, owner, acceptQ, client>> /\ Live(t) /\ tpc'[t] = "free"
        /\ \A u \in Threads : u /= t => tpc'[u] = tpc[u]
    BY <1>2, <1>9 DEF Close, TypeOK, Live, clientVars
  <2>2. ASSUME NEW u \in Threads, u /= t PROVE ThreadSound(u)'
    <3>1. Live(u) /\ tpc[u] /= "free" => FdOf(u) \in Fd /\ FdOf(u) /= FdOf(t)
      BY <1>1, <1>9, <2>1, <2>2, CloseIsOwn DEF ThreadSound, ConnOf
    <3>2. Live(u) /\ tpc[u] /= "free" => files'[FdOf(u)] = files[FdOf(u)]
      BY <1>9, <3>1, CloseIsOwn
    <3> QED
      BY <2>1, <2>2, <3>2, ThreadFrame
  <2>3. ThreadSound(t)'
    <3>1. PICK c \in Clients : c = owner[t]
      BY <1>9, CloseIsOwn
    <3>2. ~Attached(c)'
      BY <1>9, <3>1, CloseIsOwn
    <3>3. ~Attached(owner[t])'
      BY <2>1, <3>1, <3>2 DEF Attached, Held
    <3> QED
      BY <1>1, <2>1, <3>1, <3>3 DEF ThreadSound, FdOf
  <2> QED
    BY <1>3, <2>1, <2>2, <2>3 DEF ThreadsSound, Live
<1>10. ASSUME NEW t \in Threads, Free(t) PROVE Goal
  <2>1. /\ UNCHANGED <<files, arg, owner>> /\ Live(t) /\ ~Live(t)'
        /\ heap' = [heap EXCEPT ![arg[t]] = 0]
        /\ \A u \in Threads : u /= t => tpc'[u] = tpc[u]
    BY <1>2, <1>10 DEF Free, TypeOK, Live, netVars
  <2>2. ASSUME NEW u \in Threads, u /= t PROVE ThreadSound(u)'
    <3>1. Live(u) => heap'[arg[u]] = heap[arg[u]]
      BY <1>1, <1>2, <2>1, <2>2 DEF TypeOK
    <3> QED
      BY <2>1, <2>2, <3>1, ThreadFrame
  <2> QED
    BY <1>3, <2>1, <2>2 DEF ThreadsSound, ThreadSound, Live
<1>11. CASE CallocFails \/ \E t \in Threads : KilledBySigpipe(t)
  BY <1>11 DEF CallocFails, KilledBySigpipe, ProcessEnds, ThreadsSound, ThreadSound, Live
<1>12. ASSUME NEW c \in Clients, ClientStep(c), UNCHANGED serverVars PROVE Goal
  <2>1. UNCHANGED <<tpc, owner, arg, heap, files>>
    BY <1>12, ClientStepFiles DEF serverVars, threadVars
  <2> QED
    BY <1>3, <2>1, ThreadFrame DEF ThreadsSound, Live
<1>13. CASE UNCHANGED vars
  <2>1. UNCHANGED <<tpc, owner, arg, heap, files>>
    BY <1>13 DEF vars, serverVars, threadVars, netVars
  <2> QED
    BY <1>3, <2>1, ThreadFrame DEF ThreadsSound, Live
<1> QED
  BY <1>4, <1>5, <1>6, <1>7, <1>8, <1>9, <1>10, <1>11, <1>12, <1>13
  DEF Next, MainStep, ThreadStep

---------------------------------------------------------------------------
\* The connection on its way from accept() to a thread stays nobody's.
LEMMA NextNew ==
  ASSUME IInv, [Next]_vars
  PROVE  NewSound'
<1> DEFINE Goal == NewSound'
<1>1. TypeOK /\ NewSound /\ \A t \in Threads : ThreadSound(t)
  BY DEF IInv, ThreadsSound
<1>2. ASSUME UNCHANGED <<mpc, sock_client, p_sock_client, heap, arg, owner>>,
             \A t \in Threads : Live(t)' => Live(t),
             mpc \in {"calloc", "create"} => files'[sock_client] = files[sock_client],
             \A c \in Clients : mpc = "killed" /\ ~Held(c) => ~Held(c)'
      PROVE  NewSound'
  BY <1>1, <1>2 DEF NewSound
<1>3. CASE Accept
  <2>1. PICK c \in acceptQ, fd \in Fd :
          /\ files' = [files EXCEPT ![fd] = c]
          /\ sock_client' = fd
    BY <1>3 DEF Accept
  <2>2. files'[fd] = c /\ c \in Clients /\ \A t \in Threads : Live(t) => owner[t] /= c
    BY <1>1, <2>1 DEF TypeOK, NetTypeOK, ThreadSound
  <2> QED
    BY <1>3, <2>1, <2>2 DEF Accept, NewSound, threadVars, Live
<1>4. CASE Calloc
  <2>1. PICK x \in Cells : /\ heap[x] = 0
                           /\ heap' = [heap EXCEPT ![x] = sock_client]
                           /\ p_sock_client' = x
    BY <1>4 DEF Calloc
  <2>2. heap'[x] = sock_client
    BY <1>1, <2>1 DEF TypeOK
  <2>3. \A t \in Threads : Live(t) => arg[t] /= x
    BY <1>1, <2>1 DEF ThreadSound, FdOf, Fd
  <2> QED
    BY <1>1, <1>4, <2>1, <2>2, <2>3 DEF Calloc, NewSound, threadVars, netVars, Live
<1>5. CASE CreateFails \/ \E t \in Threads : Create(t)
  BY <1>5 DEF CreateFails, Create, NewSound
<1>6. ASSUME NEW t \in Threads, RecvData(t) \/ RecvEnd(t) \/ Send(t) PROVE Goal
  <2>1. /\ UNCHANGED <<files, acceptQ, mainVars, heap, arg, owner>>
        /\ \A u \in Threads : u /= t => tpc'[u] = tpc[u]
        /\ Live(t)
    BY <1>6, QuietThread
  <2> QED
    BY <1>2, <2>1 DEF mainVars, Live, Held
<1>7. ASSUME NEW t \in Threads, Close(t) PROVE Goal
  <2>1. /\ UNCHANGED <<mainVars, heap, arg, owner>> /\ Live(t)
        /\ \A u \in Threads : u /= t => tpc'[u] = tpc[u]
    BY <1>1, <1>7 DEF Close, TypeOK, Live
  <2>2. mpc \in {"calloc", "create"} => files'[sock_client] = files[sock_client]
    BY <1>1, <1>7, <2>1, CloseIsOwn DEF NewSound
  <2>3. mpc /= "killed"
    BY <1>1, <2>1 DEF NewSound
  <2> QED
    BY <1>2, <2>1, <2>2, <2>3 DEF mainVars, Live
<1>8. ASSUME NEW t \in Threads, Free(t) PROVE Goal
  <2>1. /\ UNCHANGED <<mainVars, files, arg, owner>> /\ Live(t)
        /\ heap' = [heap EXCEPT ![arg[t]] = 0]
        /\ \A u \in Threads : Live(u)' => Live(u)
    BY <1>1, <1>8 DEF Free, TypeOK, Live, netVars
  <2>2. mpc /= "killed" /\ (mpc = "create" => arg[t] /= p_sock_client)
    BY <1>1, <2>1 DEF NewSound
  <2>3. mpc = "create" => heap'[p_sock_client] = heap[p_sock_client]
    BY <1>1, <2>1, <2>2 DEF TypeOK
  <2> QED
    BY <1>1, <2>1, <2>2, <2>3 DEF mainVars, NewSound
<1>9. CASE CallocFails \/ \E t \in Threads : KilledBySigpipe(t)
  BY <1>9, CloseAllEnds DEF CallocFails, KilledBySigpipe, ProcessEnds, NewSound, Live
<1>10. ASSUME NEW c \in Clients, ClientStep(c), UNCHANGED serverVars PROVE Goal
  <2>1. UNCHANGED <<serverVars, files>>
    BY <1>10, ClientStepFiles
  <2> QED
    BY <1>2, <2>1 DEF serverVars, mainVars, threadVars, Live, Held
<1>11. CASE UNCHANGED vars
  <2>1. UNCHANGED <<serverVars, files>>
    BY <1>11 DEF vars, netVars
  <2> QED
    BY <1>2, <2>1 DEF serverVars, mainVars, threadVars, Live, Held
<1> QED
  BY <1>3, <1>4, <1>5, <1>6, <1>7, <1>8, <1>9, <1>10, <1>11
  DEF Next, MainStep, ThreadStep

---------------------------------------------------------------------------
\* Steps that change neither what is abandoned nor the cells.
LEMMA CellsFrame ==
  ASSUME IInv, [Next]_vars, heap' = heap, mpc' /= "killed" => mpc /= "killed",
         \A x \in Cells : Orphan(x)' <=> Orphan(x),
         \A c \in Clients : Abandoned(c)' <=> Abandoned(c),
         \A fd \in Fd, c \in Clients : files[fd] = c /\ Abandoned(c) => files'[fd] = c
  PROVE  CellsSound'
<1>1. TypeOK /\ CellsSound
  BY DEF IInv
<1>2. ASSUME mpc' /= "killed", NEW x \in Cells, heap'[x] /= 0, Orphan(x)'
      PROVE  \E c \in Clients : files'[heap'[x]] = c /\ Abandoned(c)'
  <2>1. PICK c \in Clients : files[heap[x]] = c /\ Abandoned(c)
    BY <1>1, <1>2 DEF CellsSound
  <2>2. heap[x] \in Fd
    BY <1>1, <1>2 DEF TypeOK
  <2> QED
    BY <1>2, <2>1, <2>2
<1>3. ASSUME NEW c \in Clients, Abandoned(c)'
      PROVE  Gone(c)' \/ \E x \in Cells : heap'[x] /= 0 /\ Orphan(x)' /\ files'[heap'[x]] = c
  <2>1. CASE Gone(c)
    BY <2>1, OwnerStays
  <2>2. ASSUME NEW x \in Cells, heap[x] /= 0, Orphan(x), files[heap[x]] = c
        PROVE  \E y \in Cells : heap'[y] /= 0 /\ Orphan(y)' /\ files'[heap'[y]] = c
    <3>1. heap[x] \in Fd
      BY <1>1, <2>2 DEF TypeOK
    <3> QED
      BY <1>3, <2>2, <3>1
  <2> QED
    BY <1>1, <1>3, <2>1, <2>2 DEF CellsSound
<1> QED
  BY <1>2, <1>3 DEF CellsSound

\* A cell that no thread has was left with its connection, and an abandoned
\* connection has its cell or is deserted.
LEMMA NextCells ==
  ASSUME IInv, [Next]_vars
  PROVE  CellsSound'
<1> DEFINE Goal == CellsSound'
<1>1. /\ TypeOK /\ NewSound /\ CellsSound /\ OneServerEnd
      /\ \A t \in Threads : ThreadSound(t)
      /\ \A t, u \in Threads :
           t /= u /\ Live(t) /\ Live(u) => arg[t] /= arg[u] /\ owner[t] /= owner[u]
  BY DEF IInv, ThreadsSound
<1>2. ASSUME UNCHANGED <<mpc, sock_client, p_sock_client, heap, arg, owner, files>>,
             \A t \in Threads : Live(t)' <=> Live(t)
      PROVE  CellsSound'
  <2>1. \A x \in Cells : Orphan(x)' <=> Orphan(x)
    BY <1>2 DEF Orphan
  <2>2. \A c \in Clients : Abandoned(c)' <=> Abandoned(c)
    BY <1>2 DEF Abandoned, Held
  <2> QED
    BY <1>2, <2>1, <2>2, CellsFrame
<1>3. CASE Accept
  <2>1. PICK c \in acceptQ, fd \in Fd :
          /\ files[fd] = "free"
          /\ files' = [files EXCEPT ![fd] = c]
          /\ acceptQ' = acceptQ \ {c}
          /\ sock_client' = fd
    BY <1>3 DEF Accept, LowestFree
  <2>2. /\ mpc = "accept" /\ mpc' = "calloc" /\ UNCHANGED <<tpc, heap, arg, owner>>
        /\ c \in Clients /\ ~Held(c)
        /\ files'[fd] = c /\ \A g \in Fd : g /= fd => files'[g] = files[g]
    BY <1>1, <1>3, <2>1 DEF Accept, threadVars, TypeOK, NetTypeOK, OneServerEnd
  <2>3. \A d \in Clients : Held(d)' <=> (Held(d) \/ d = c)
    BY <1>1, <2>1, AcceptEnds DEF TypeOK
  <2>4. \A x \in Cells : Orphan(x)' <=> Orphan(x)
    BY <2>2 DEF Orphan, Live
  <2>5. \A d \in Clients : Abandoned(d)' <=> Abandoned(d)
    BY <2>1, <2>2, <2>3 DEF Abandoned, Live
  <2>6. \A g \in Fd, d \in Clients : files[g] = d /\ Abandoned(d) => files'[g] = d
    BY <2>1, <2>2
  <2> QED
    BY <2>2, <2>4, <2>5, <2>6, CellsFrame
<1>4. CASE Calloc
  <2>1. PICK x \in Cells : /\ heap[x] = 0
                           /\ heap' = [heap EXCEPT ![x] = sock_client]
                           /\ p_sock_client' = x
    BY <1>4 DEF Calloc
  <2>2. /\ mpc = "calloc" /\ mpc' = "create" /\ UNCHANGED <<tpc, arg, owner, files, sock_client>>
        /\ \A y \in Cells : y /= x => heap'[y] = heap[y]
    BY <1>1, <1>4, <2>1 DEF Calloc, threadVars, netVars, TypeOK
  <2>3. \A y \in Cells : Orphan(y)' <=> Orphan(y) /\ y /= x
    BY <2>1, <2>2 DEF Orphan, Live
  <2>4. \A d \in Clients : Abandoned(d)' <=> Abandoned(d)
    BY <2>2 DEF Abandoned, Live, Held
  <2>5. \A d \in Clients : Gone(d) => Gone(d)'
    BY OwnerStays
  <2> QED
    BY <1>1, <2>1, <2>2, <2>3, <2>4, <2>5 DEF CellsSound
<1>5. ASSUME NEW t \in Threads, Create(t) PROVE Goal
  <2>1. /\ mpc = "create" /\ mpc' = "accept" /\ ~Live(t) /\ UNCHANGED <<files, heap>>
        /\ Live(t)' /\ arg'[t] = p_sock_client /\ owner'[t] = files[sock_client]
        /\ \A u \in Threads : u /= t => tpc'[u] = tpc[u] /\ arg'[u] = arg[u] /\ owner'[u] = owner[u]
    BY <1>1, <1>5 DEF Create, netVars, TypeOK, Live
  <2>2. \A x \in Cells : Orphan(x)' <=> Orphan(x)
    BY <2>1 DEF Orphan, Live
  <2>3. \A c \in Clients : Abandoned(c)' <=> Abandoned(c)
    BY <2>1 DEF Abandoned, Live, Held
  <2> QED
    BY <2>1, <2>2, <2>3, CellsFrame
<1>6. CASE CreateFails
  <2>1. /\ mpc = "create" /\ mpc' = "accept"
        /\ UNCHANGED <<netVars, tpc, heap, arg, owner, sock_client, p_sock_client>>
    BY <1>6 DEF CreateFails, threadVars
  <2>2. /\ sock_client \in Fd /\ files[sock_client] \in Clients
        /\ heap[p_sock_client] = sock_client /\ p_sock_client \in Cells
        /\ \A t \in Threads : Live(t) => owner[t] /= files[sock_client] /\ arg[t] /= p_sock_client
    BY <1>1, <2>1 DEF NewSound, TypeOK
  <2>3. \A x \in Cells : Orphan(x)' <=> (Orphan(x) \/ x = p_sock_client)
    BY <2>1, <2>2 DEF Orphan, Live
  <2>4. \A c \in Clients : Abandoned(c)' <=> (Abandoned(c) \/ c = files[sock_client])
    <3>1. Held(files[sock_client]) /\ files' = files
      BY <2>1, <2>2 DEF Held, netVars
    <3> QED
      BY <2>1, <2>2, <3>1 DEF Abandoned, Live, Held
  <2>5. sock_client /= 0 /\ UNCHANGED <<files, inbox, peer>>
    BY <2>1, <2>2 DEF Fd, netVars
  <2> QED
    BY <1>1, <2>1, <2>2, <2>3, <2>4, <2>5 DEF CellsSound, Gone
<1>7. ASSUME NEW t \in Threads, RecvData(t) \/ RecvEnd(t) \/ Send(t) PROVE Goal
  <2>1. /\ UNCHANGED <<files, acceptQ, mainVars, heap, arg, owner>>
        /\ \A u \in Threads : u /= t => tpc'[u] = tpc[u]
        /\ Live(t) /\ tpc'[t] \in {"recv", "send", "close", "free"}
    BY <1>7, QuietThread
  <2> QED
    BY <1>2, <2>1 DEF mainVars, Live
<1>8. ASSUME NEW t \in Threads, Close(t) PROVE Goal
  <2>1. /\ UNCHANGED <<mainVars, heap, arg, owner>> /\ Live(t) /\ Live(t)'
        /\ \A u \in Threads : u /= t => tpc'[u] = tpc[u]
    BY <1>1, <1>8 DEF Close, TypeOK, Live
  <2>2. mpc \in {"calloc", "create"} => files'[sock_client] = files[sock_client]
    BY <1>1, <1>8, <2>1, CloseIsOwn DEF NewSound
  <2>3. mpc \in {"accept", "calloc", "create"}
    BY <1>1, <2>1 DEF NewSound, TypeOK
  <2>4. \A x \in Cells : Orphan(x)' <=> Orphan(x)
    BY <2>1 DEF Orphan, Live, mainVars
  <2>5. \A c \in Clients : Abandoned(c)' <=> Abandoned(c)
    BY <1>8, <2>1, <2>2, <2>3, CloseIsOwn DEF Abandoned, Live, mainVars
  <2>6. \A fd \in Fd, c \in Clients : files[fd] = c /\ Abandoned(c) => files'[fd] = c
    BY <1>8, <2>1, CloseIsOwn DEF Abandoned
  <2> QED
    BY <2>1, <2>4, <2>5, <2>6, CellsFrame DEF mainVars
<1>9. ASSUME NEW t \in Threads, Free(t) PROVE Goal
  <2>1. /\ UNCHANGED <<mainVars, netVars, arg, owner>> /\ Live(t) /\ ~Live(t)' /\ tpc[t] = "free"
        /\ \A u \in Threads : u /= t => (Live(u)' <=> Live(u))
        /\ heap'[arg[t]] = 0 /\ \A x \in Cells : x /= arg[t] => heap'[x] = heap[x]
    BY <1>1, <1>9 DEF Free, TypeOK, Live
  <2>2. \A x \in Cells : x /= arg[t] => (Orphan(x)' <=> Orphan(x))
    BY <2>1 DEF Orphan, mainVars
  <2>3. \A x \in Cells : Orphan(x) => x /= arg[t]
    BY <2>1 DEF Orphan
  <2>4. \A c \in Clients : Abandoned(c) => Abandoned(c)'
    BY <2>1 DEF Abandoned, Held, mainVars, netVars
  <2>5. \A c \in Clients : Abandoned(c)' => Abandoned(c) \/ (Held(c) /\ c = owner[t])
    BY <2>1 DEF Abandoned, Held, mainVars, netVars
  <2>6. \A c \in Clients : c = owner[t] /\ Held(c) => Gone(c)
    BY <1>1, <2>1 DEF ThreadSound, Attached
  <2>7. UNCHANGED <<mpc, files, inbox, peer>>
    BY <2>1 DEF mainVars, netVars
  <2> QED
    BY <1>1, <2>1, <2>2, <2>3, <2>4, <2>5, <2>6, <2>7 DEF CellsSound, Gone
<1>10. CASE CallocFails \/ \E t \in Threads : KilledBySigpipe(t)
  BY <1>10, CloseAllEnds DEF CallocFails, KilledBySigpipe, ProcessEnds, CellsSound, Abandoned
<1>11. ASSUME NEW c \in Clients, ClientStep(c), UNCHANGED serverVars PROVE Goal
  <2>1. UNCHANGED <<serverVars, files>>
    BY <1>11, ClientStepFiles
  <2> QED
    BY <1>2, <2>1 DEF serverVars, mainVars, threadVars, Live
<1>12. CASE UNCHANGED vars
  <2>1. UNCHANGED <<serverVars, files>>
    BY <1>12 DEF vars, netVars
  <2> QED
    BY <1>2, <2>1 DEF serverVars, mainVars, threadVars, Live
<1> QED
  BY <1>3, <1>4, <1>5, <1>6, <1>7, <1>8, <1>9, <1>10, <1>11, <1>12
  DEF Next, MainStep, ThreadStep

---------------------------------------------------------------------------
\* The invariant holds in every reachable state, for every number of clients,
\* threads, cells and descriptors.
THEOREM Invariance == Spec => []IInv
<1>1. Init => IInv
  BY InitIInv
<1>2. IInv /\ [Next]_vars => IInv'
  <2> SUFFICES ASSUME IInv, [Next]_vars PROVE IInv'
    OBVIOUS
  <2> QED
    BY NextType, NextEnds, NextThreads, NextNew, NextCells DEF IInv
<1> QED
  BY <1>1, <1>2, PTL DEF Spec

\* No thread ever serves another thread's client, although the main thread
\* reuses its variable, the cells and the descriptors all along.
THEOREM ConnectionsAreOwn == Spec => []OwnConnection
<1>1. IInv => OwnConnection
  <2> SUFFICES ASSUME IInv PROVE OwnConnection
    OBVIOUS
  <2>1. \A t, u \in Threads :
          t /= u /\ Live(t) /\ Live(u) => arg[t] /= arg[u] /\ owner[t] /= owner[u]
    BY DEF IInv, ThreadsSound
  <2>2. \A t \in Threads : tpc[t] \in {"recv", "send", "close"} => Live(t) /\ ConnOf(t) = owner[t]
    BY ServedConn
  <2> QED
    BY <2>1, <2>2 DEF OwnConnection
<1> QED
  BY <1>1, Invariance, PTL

\* Every cell in use has a thread, is about to get one, or was left together
\* with its connection; and a connection without a thread is such a one, or
\* its client has left.
THEOREM CellsAlwaysHaveOwners == Spec => []CellsHaveOwners
<1>1. IInv => CellsHaveOwners
  <2> SUFFICES ASSUME IInv PROVE CellsHaveOwners
    OBVIOUS
  <2>1. TypeOK /\ CellsSound
    BY DEF IInv
  <2>2. \A x \in Cells : Orphan(x) \/ (mpc = "create" /\ p_sock_client = x)
                           \/ \E t \in Threads : Live(t) /\ arg[t] = x
    BY DEF Orphan
  <2> QED
    BY <2>1, <2>2 DEF CellsSound, CellsHaveOwners, Gone
<1> QED
  BY <1>1, Invariance, PTL
---------------------------------------------------------------------------
\* A thread has a command of client c in hand.
InHand(c) == \E t \in Threads : tpc[t] = "send" /\ owner[t] = c

\* What is due to a client is there: its command, a thread that has it in
\* hand, or the reply.
AnswersDue == \A c \in Clients : AnswerDue(c, InHand(c))

\* What a thread does to a client other than its own.
LEMMA OthersInHand ==
  ASSUME IInv, NEW t \in Threads, ThreadStep(t), ~KilledBySigpipe(t),
         NEW d \in Clients, Live(t) => owner[t] /= d
  PROVE  InHand(d) => InHand(d)'
<1>1. ASSUME NEW u \in Threads, tpc[u] = "send", owner[u] = d
      PROVE  tpc'[u] = "send" /\ owner'[u] = d
  <2>1. u /= t /\ TypeOK
    BY <1>1 DEF Live, IInv
  <2> QED
    BY <1>1, <2>1 DEF ThreadStep, RecvData, RecvEnd, Send, Close, Free, TypeOK
<1> QED
  BY <1>1 DEF InHand

\* A step of a thread, seen from client d.
LEMMA ThreadDue ==
  ASSUME IInv, NEW t \in Threads, ThreadStep(t), NEW d \in Clients, AnswerDue(d, InHand(d))
  PROVE  AnswerDue(d, InHand(d))'
<1>1. /\ NetTypeOK /\ OneServerEnd /\ StreamsSound /\ TypeOK /\ UNCHANGED clientVars
      /\ InHand(d) \in BOOLEAN /\ InHand(d)' \in BOOLEAN
  BY ThreadStepSockets DEF IInv, TypeOK, InHand
<1>2. CASE KilledBySigpipe(t)
  BY <1>2, CloseAllEnds DEF KilledBySigpipe, ProcessEnds, AnswerDue
<1>3. CASE RecvEnd(t) \/ Free(t)
  <2>1. UNCHANGED <<netVars, owner>> /\ \A u \in Threads : tpc[u] = "send" => tpc'[u] = "send"
    BY <1>1, <1>3 DEF RecvEnd, Free, TypeOK
  <2> QED
    BY <1>1, <2>1 DEF AnswerDue, InHand, netVars, clientVars, Attached, Held
<1>4. CASE RecvData(t)
  <2>1. /\ UNCHANGED <<files, acceptQ, outbox, owner>> /\ tpc' = [tpc EXCEPT ![t] = "send"]
        /\ ConnOf(t) = owner[t] /\ owner[t] \in Clients
        /\ \E k \in 1..Len(inbox[owner[t]]) :
             inbox' = [inbox EXCEPT ![owner[t]] = Remaining(owner[t], k)]
    BY <1>4, ServedConn DEF RecvData
  <2>2. CASE d = owner[t]
    <3>1. InHand(d)'
      BY <1>1, <2>1, <2>2 DEF InHand, TypeOK
    <3> QED
      BY <3>1 DEF AnswerDue
  <2>3. CASE d /= owner[t]
    <3>1. inbox'[d] = inbox[d] /\ (Attached(d)' <=> Attached(d))
      BY <1>1, <2>1, <2>3 DEF NetTypeOK, Attached, Held
    <3>2. InHand(d) => InHand(d)'
      BY <1>4, <2>3, OthersInHand DEF RecvData, KilledBySigpipe
    <3> QED
      BY <1>1, <2>1, <3>1, <3>2 DEF AnswerDue, clientVars
  <2> QED
    BY <2>2, <2>3
<1>5. CASE Send(t)
  <2>1. /\ UNCHANGED <<files, acceptQ, inbox>> /\ ConnOf(t) = owner[t] /\ owner[t] \in Clients
        /\ SendOk(owner[t]) \/ SendFails(owner[t])
    BY <1>5, ServedConn DEF Send
  <2>2. CASE d = owner[t]
    <3>1. AnswerDue(d, FALSE)'
      BY <1>1, <2>1, <2>2, SendDue DEF clientVars
    <3> QED
      BY <3>1 DEF AnswerDue
  <2>3. CASE d /= owner[t]
    <3>1. outbox'[d] = outbox[d] /\ (Attached(d)' <=> Attached(d))
      BY <1>1, <2>1, <2>3, SendStreams DEF Attached, Held
    <3>2. InHand(d) => InHand(d)'
      <4>1. ~KilledBySigpipe(t)
        BY <2>1 DEF KilledBySigpipe, SendRaisesSigpipe, SendOk, SendFails
      <4> QED
        BY <2>3, <4>1, OthersInHand
    <3> QED
      BY <1>1, <2>1, <3>1, <3>2 DEF AnswerDue, clientVars
  <2> QED
    BY <2>2, <2>3
<1>6. CASE Close(t)
  <2>1. /\ FdOf(t) \in Fd /\ owner[t] \in Clients /\ files[FdOf(t)] = owner[t]
        /\ CloseFd(FdOf(t)) /\ acceptQ' = acceptQ /\ outbox' = outbox /\ tpc[t] = "close"
    BY <1>6, CloseIsOwn DEF Close
  <2>2. CASE d = owner[t]
    BY <1>6, <2>2, CloseIsOwn DEF AnswerDue
  <2>3. CASE d /= owner[t]
    <3>1. inbox'[d] = inbox[d] /\ (Attached(d)' <=> Attached(d))
      BY <1>1, <2>1, <2>3, CloseFdEnds
    <3>2. InHand(d) => InHand(d)'
      BY <2>1, <2>3, OthersInHand DEF KilledBySigpipe
    <3> QED
      BY <1>1, <2>1, <3>1, <3>2 DEF AnswerDue, clientVars
  <2> QED
    BY <2>2, <2>3
<1> QED
  BY <1>2, <1>3, <1>4, <1>5, <1>6 DEF ThreadStep

\* What is due to a client stays in one of its three places.
LEMMA NextAnswers ==
  ASSUME IInv, AnswersDue, [Next]_vars
  PROVE  AnswersDue'
<1> SUFFICES ASSUME NEW d \in Clients PROVE AnswerDue(d, InHand(d))'
  BY DEF AnswersDue
<1>1. /\ AnswerDue(d, InHand(d)) /\ TypeOK /\ NetTypeOK /\ ClientTypeOK
      /\ OneServerEnd /\ StreamsSound
      /\ InHand(d) \in BOOLEAN /\ InHand(d)' \in BOOLEAN
  BY DEF AnswersDue, IInv, TypeOK, InHand
<1>2. CASE CallocFails
  BY <1>2, CloseAllEnds DEF CallocFails, ProcessEnds, AnswerDue
<1>3. CASE MainStep /\ ~CallocFails
  <2>1. UNCHANGED <<clientVars, inbox, outbox>> /\ (Attached(d)' => Attached(d))
    <3>1. CASE Accept
      BY <1>1, <3>1, AcceptEnds DEF Accept, LowestFree
    <3>2. CASE Calloc \/ CreateFails \/ \E t \in Threads : Create(t)
      BY <3>2 DEF Calloc, CreateFails, Create, netVars, Attached, Held
    <3> QED
      BY <1>3, <3>1, <3>2 DEF MainStep
  <2>2. ASSUME NEW u \in Threads, tpc[u] = "send" PROVE tpc'[u] = "send" /\ owner'[u] = owner[u]
    BY <1>1, <1>3, <2>2
    DEF MainStep, Accept, Calloc, CreateFails, Create, threadVars, Live, TypeOK
  <2> QED
    BY <1>1, <2>1, <2>2 DEF AnswerDue, InHand, clientVars
<1>4. CASE \E t \in Threads : ThreadStep(t)
  BY <1>1, <1>4, ThreadDue
<1>5. ASSUME NEW c \in Clients, ClientStep(c), UNCHANGED serverVars
      PROVE  AnswerDue(d, InHand(d))'
  <2>1. InHand(d)' = InHand(d)
    BY <1>5 DEF serverVars, threadVars, InHand
  <2>2. ASSUME NEW s \in BOOLEAN, s = InHand(d) PROVE AnswerDue(d, s)'
    BY <1>1, <1>5, <2>2, ClientDue
  <2> QED
    BY <1>1, <2>1, <2>2 DEF AnswerDue
<1>6. CASE UNCHANGED vars
  BY <1>1, <1>6 DEF vars, netVars, clientVars, serverVars, threadVars, AnswerDue, InHand,
     Attached, Held
<1> QED
  BY <1>2, <1>3, <1>4, <1>5, <1>6 DEF Next

\* While a client waits for the answer to a line, and its connection is open,
\* its command is there to be received, a thread that was started for it has it
\* in hand, or the reply is there: no handing over of descriptors, cells and
\* threads loses it.
THEOREM NothingAskedIsLost == Spec => []AnswersDue
<1>1. Init => AnswersDue
  BY DEF Init, ClientInit, AnswersDue, AnswerDue
<1>2. IInv /\ AnswersDue /\ [Next]_vars => AnswersDue'
  BY NextAnswers
<1> QED
  BY <1>1, <1>2, Invariance, PTL DEF Spec
---------------------------------------------------------------------------
(* The servers that do with one thread: SequentialServer (08) is S, and     *)
(* NonBlockingServer (11) is N.  Of their client programs, calls and types  *)
(* they have copies of their own, which the first lemmas identify with      *)
(* those above.                                                             *)

\* Their types are those of the network and of the clients.
LEMMA SameTypes ==
  /\ (N!NetTypeOK <=> NetTypeOK) /\ (S!NetTypeOK <=> NetTypeOK)
  /\ (N!ClientTypeOK <=> ClientTypeOK) /\ (S!ClientTypeOK <=> ClientTypeOK)
BY DEF N!NetTypeOK, N!PeerState, N!Fd, S!NetTypeOK, S!PeerState, S!Fd,
       NetTypeOK, PeerState, Fd, N!ClientTypeOK, N!ClientState, N!Commands,
       S!ClientTypeOK, S!ClientState, S!Commands, ClientTypeOK, ClientState, Commands

\* The client programs of 08 are run_client.
LEMMA SequentialClient ==
  ASSUME NEW c \in Clients, S!ClientStep(c)
  PROVE  ClientStep(c)
BY DEF S!ClientStep, S!Connect, S!ConnectRefused, S!SendCommand, S!Transmit,
       S!RecvReply, S!RecvClosed, S!EndIteration, S!Kill, S!PeerCloses,
       S!EagerSend, S!Running, S!LeavesAfter, S!Listening, S!Attached, S!Held,
       S!Fd, S!netVars, S!clientVars,
       ClientStep, Connect, ConnectRefused, SendCommand, Transmit, RecvReply, RecvClosed,
       EndIteration, Kill, PeerCloses, EagerSend, Running, LeavesAfter, Listening,
       Attached, Held, Fd, netVars, clientVars

\* Those of 11 send their time, and are run_client otherwise.
LEMMA StatusClientStep ==
  ASSUME "time" \in Messages, NEW c \in Clients, N!StatusClient(c)
  PROVE  ClientStep(c)
BY DEF N!StatusClient, N!Connect, N!ConnectRefused, N!SendCommand, N!Transmit,
       N!RecvReply, N!RecvClosed, N!EndIteration, N!Kill, N!PeerCloses,
       N!EagerSend, N!Running, N!LeavesAfter, N!Listening, N!Attached, N!Held,
       N!Fd, N!netVars, N!clientVars,
       ClientStep, Connect, ConnectRefused, SendCommand, Transmit, RecvReply, RecvClosed,
       EndIteration, Kill, PeerCloses, EagerSend, Running, LeavesAfter, Listening,
       Attached, Held, Fd, netVars, clientVars

---------------------------------------------------------------------------
\* The server has a command of client c in hand.
Replying(c) == pc = "send" /\ files[sock_client] = c

\* What is due to the clients of such a server.
DueByOne == \A c \in Clients : AnswerDue(c, Replying(c))

\* Whatever call it makes, a server that has its one client in sock_client and
\* receives only to reply keeps what is due: a full buffer holds a reply.
LEMMA OneThreadDue ==
  ASSUME NetTypeOK, OneServerEnd, StreamsSound, UNCHANGED clientVars, DueByOne,
         \/ SockAccept /\ pc /= "send"
         \/ /\ pc' = "send" /\ UNCHANGED <<files, acceptQ, outbox, sock_client>>
            /\ pc /= "send" /\ files[sock_client] \in Clients
            /\ \E k \in 1..Len(inbox[files[sock_client]]) :
                 inbox' = [inbox EXCEPT ![files[sock_client]] = Remaining(files[sock_client], k)]
         \/ pc = "send" /\ files[sock_client] \in Clients /\ SockSend(files[sock_client])
         \/ outbox[files[sock_client]] = SendBuf /\ UNCHANGED netVars
         \/ pc /= "send" /\ \E fd \in Fd : files[fd] \in Clients /\ SockClose(fd)
         \/ SockEnd
         \/ pc /= "send" /\ UNCHANGED netVars
  PROVE  DueByOne'
<1> SUFFICES ASSUME NEW d \in Clients PROVE AnswerDue(d, Replying(d))'
  BY DEF DueByOne
<1>1. AnswerDue(d, Replying(d))
  BY DEF DueByOne
<1>2. CASE SockAccept /\ pc /= "send"
  <2>1. UNCHANGED <<inbox, outbox>> /\ (Attached(d)' => Attached(d))
    BY <1>2, AcceptEnds DEF SockAccept
  <2> QED
    BY <1>1, <1>2, <2>1 DEF AnswerDue, Replying, clientVars
<1>3. ASSUME pc' = "send", UNCHANGED <<files, acceptQ, outbox, sock_client>>,
             pc /= "send", NEW b \in Clients, b = files[sock_client], NEW q,
             inbox' = [inbox EXCEPT ![b] = q]
      PROVE  AnswerDue(d, Replying(d))'
  <2>1. CASE d = b
    BY <1>3, <2>1 DEF AnswerDue, Replying
  <2>2. CASE d /= b
    <3>1. inbox'[d] = inbox[d]
      BY <1>3, <2>2 DEF NetTypeOK
    <3> QED
      BY <1>1, <1>3, <3>1 DEF AnswerDue, Replying, clientVars, Attached, Held
  <2> QED
    BY <2>1, <2>2
<1>4. ASSUME pc = "send", NEW b \in Clients, b = files[sock_client], SockSend(b)
      PROVE  AnswerDue(d, Replying(d))'
  <2>1. CASE d = b
    <3>1. AnswerDue(d, FALSE)'
      BY <1>4, <2>1, SendDue DEF SockSend, clientVars
    <3> QED
      BY <3>1 DEF AnswerDue
  <2>2. CASE d /= b
    <3>1. outbox'[d] = outbox[d] /\ UNCHANGED <<files, acceptQ, inbox>>
      BY <1>4, <2>2, SendStreams DEF SockSend
    <3> QED
      BY <1>1, <1>4, <2>2, <3>1 DEF AnswerDue, Replying, clientVars, Attached, Held
  <2> QED
    BY <2>1, <2>2
<1>5. CASE outbox[files[sock_client]] = SendBuf /\ UNCHANGED netVars
  <2>1. SendBuf \in Nat \ {0}
    BY SocketsAssumption
  <2>2. Replying(d) => outbox'[d] > 0
    BY <1>5, <2>1 DEF Replying, netVars
  <2> QED
    BY <1>1, <1>5, <2>2 DEF AnswerDue, clientVars, netVars, Attached, Held
<1>6. ASSUME pc /= "send", NEW fd \in Fd, files[fd] \in Clients, SockClose(fd)
      PROVE  AnswerDue(d, Replying(d))'
  <2>1. Attached(d)' => Attached(d) /\ inbox'[d] = inbox[d] /\ outbox'[d] = outbox[d]
    BY <1>6, CloseFdEnds DEF SockClose
  <2> QED
    BY <1>1, <1>6, <2>1 DEF AnswerDue, Replying, clientVars
<1>7. CASE SockEnd
  BY <1>7, CloseAllEnds DEF SockEnd, AnswerDue
<1>8. CASE pc /= "send" /\ UNCHANGED netVars
  BY <1>1, <1>8 DEF AnswerDue, Replying, clientVars, netVars, Attached, Held
<1> QED
  BY <1>2, <1>3, <1>4, <1>5, <1>6, <1>7, <1>8

\* Nor does a client's step take what is due to it or to another.
LEMMA ClientDueByOne ==
  ASSUME NetTypeOK, ClientTypeOK, StreamsSound, DueByOne, NEW c \in Clients, ClientStep(c),
         UNCHANGED <<pc, sock_client>>
  PROVE  DueByOne'
<1> SUFFICES ASSUME NEW d \in Clients PROVE AnswerDue(d, Replying(d))'
  BY DEF DueByOne
<1>1. files' = files
  BY ClientStepFiles
<1>2. PICK s \in BOOLEAN : s = Replying(d)
  BY DEF Replying
<1>3. AnswerDue(d, s)'
  BY <1>2, ClientDue DEF DueByOne
<1>4. Replying(d)' = s
  BY <1>1, <1>2 DEF Replying
<1> QED
  BY <1>3, <1>4 DEF AnswerDue

---------------------------------------------------------------------------
\* What 08 serves is an open connection, and what it does not serve any more is
\* deserted.
Serves08(c) == pc \in {"recv", "send", "close"} /\ files[sock_client] = c
Inv08 ==
  /\ S!TypeOK /\ OneServerEnd /\ StreamsSound
  /\ \A c \in Clients : Attached(c) => peer[c] /= "none"
  /\ pc \in {"recv", "send", "close"} => sock_client \in Fd /\ files[sock_client] \in Clients
  /\ pc /= "killed" => \A c \in Clients : Held(c) /\ ~Serves08(c) => Gone(c)

\* 08 starts in Inv08.
LEMMA Init08 == S!Init => Inv08
<1> SUFFICES ASSUME S!Init PROVE Inv08
  OBVIOUS
<1>1. /\ NetInit /\ ClientInit /\ pc = "accept" /\ sock_client = -1 /\ request = ""
  BY DEF S!Init, S!NetInit, S!ClientInit, S!Fd, S!SockServer,
     NetInit, ClientInit, Fd, SockServer
<1>2. /\ NetTypeOK /\ ClientTypeOK /\ OneServerEnd /\ StreamsSound
      /\ \A c \in Clients : ~Attached(c)
  BY <1>1, ClientInitSound
<1>3. S!TypeOK
  BY <1>1, <1>2, SameTypes DEF S!TypeOK, S!Commands
<1> QED
  BY <1>1, <1>2, <1>3 DEF Inv08, Attached

\* Its steps, to the sockets, are among those of any server.
LEMMA Sockets08 ==
  ASSUME Inv08, S!ServerStep
  PROVE  SocketStep /\ UNCHANGED clientVars
<1>1. CASE S!Accept
  BY <1>1 DEF S!Accept, S!LowestFree, S!Fd, S!clientVars, Fd, clientVars,
     SocketStep, SockAccept
<1>2. CASE S!RecvData
  BY <1>2 DEF Inv08, S!RecvData, S!Current, S!Remaining, S!clientVars, clientVars,
     SocketStep, SockRecv, Remaining
<1>3. CASE S!RecvEnd
  BY <1>3 DEF S!RecvEnd, S!netVars, S!clientVars, netVars, clientVars, SocketStep
<1>4. CASE S!Send
  BY <1>4 DEF Inv08, S!Send, S!Current, S!SendOk, S!SendFails, S!clientVars,
     SendOk, SendFails, clientVars, SocketStep, SockSend
<1>5. CASE S!Close
  BY <1>5 DEF Inv08, S!Close, S!CloseFd, S!clientVars, CloseFd, clientVars,
     SocketStep, SockClose
<1>6. CASE S!KilledBySigpipe
  BY <1>6 DEF S!KilledBySigpipe, S!CloseAll, S!Fd, S!clientVars, CloseAll, Fd,
     clientVars, SocketStep, SockEnd
<1> QED
  BY <1>1, <1>2, <1>3, <1>4, <1>5, <1>6 DEF S!ServerStep

\* Every step of 08 keeps Inv08.
LEMMA Next08 ==
  ASSUME Inv08, S!Next \/ UNCHANGED S!vars
  PROVE  Inv08'
<1>1. /\ NetTypeOK /\ ClientTypeOK /\ OneServerEnd /\ StreamsSound
      /\ pc \in {"accept", "recv", "send", "close", "killed"}
      /\ sock_client \in Fd \cup {-1} /\ request \in Commands
  BY SameTypes DEF Inv08, S!TypeOK, S!Fd, Fd, S!Commands, Commands
<1>2. ASSUME NetTypeOK', ClientTypeOK', pc' \in {"accept", "recv", "send", "close", "killed"},
             sock_client' \in Fd \cup {-1}, request' \in Commands
      PROVE  S!TypeOK'
  <2>1. S!NetTypeOK' /\ S!ClientTypeOK'
    BY <1>2, SameTypes, PTL
  <2> QED
    BY <1>2, <2>1 DEF S!TypeOK, S!Fd, Fd, S!Commands, Commands
<1>3. CASE S!ServerStep
  <2>1. SocketStep /\ UNCHANGED clientVars
    BY <1>3, Sockets08
  <2>2. /\ NetTypeOK' /\ ClientTypeOK' /\ OneServerEnd' /\ StreamsSound'
        /\ \A c \in Clients : Gone(c) => Gone(c)'
        /\ \A c \in Clients : Attached(c)' => Attached(c)
    BY <1>1, <2>1, SocketStepSound, SocketStepStreams DEF clientVars, ClientTypeOK, Gone
  <2>3. \A c \in Clients : peer[c] /= "none" => peer'[c] /= "none"
    BY <1>1, <2>1, SocketStepSound DEF NetTypeOK, PeerState
  <2>4. \A c \in Clients : Attached(c)' => peer'[c] /= "none"
    BY <2>2, <2>3 DEF Inv08
  <2>5. S!TypeOK'
    <3>1. request' \in Commands
      BY <1>1, <1>3, RemainingProperties
      DEF Inv08, S!ServerStep, S!Accept, S!RecvData, S!RecvEnd, S!Send, S!Close,
          S!KilledBySigpipe, S!Received, S!Current, Received
    <3> QED
      BY <1>1, <1>2, <1>3, <2>2, <3>1
      DEF S!ServerStep, S!Accept, S!RecvData, S!RecvEnd, S!Send, S!Close,
          S!KilledBySigpipe, S!Fd, Fd
  <2>6. /\ pc' \in {"recv", "send", "close"} => sock_client' \in Fd /\ files'[sock_client'] \in Clients
        /\ pc' /= "killed" => \A c \in Clients : Held(c)' /\ ~Serves08(c)' => Gone(c)'
    <3>1. CASE S!Accept
      <4>1. PICK c \in acceptQ, fd \in Fd :
              /\ files[fd] = "free" /\ files' = [files EXCEPT ![fd] = c]
              /\ acceptQ' = acceptQ \ {c} /\ sock_client' = fd
              /\ pc = "accept" /\ pc' = "recv"
        BY <3>1 DEF S!Accept, S!LowestFree, S!Fd, Fd
      <4>2. c \in Clients /\ files'[fd] = c
        BY <1>1, <4>1 DEF NetTypeOK
      <4>3. \A d \in Clients : Held(d)' <=> (Held(d) \/ d = c)
        BY <1>1, <4>1, AcceptEnds
      <4> QED
        BY <2>2, <4>1, <4>2, <4>3 DEF Inv08, Serves08
    <3>2. CASE S!RecvData \/ S!Send
      <4>1. /\ pc \in {"recv", "send"} /\ pc' \in {"recv", "send", "close"}
            /\ UNCHANGED <<files, sock_client>>
        BY <3>2 DEF S!RecvData, S!Send
      <4> QED
        BY <2>2, <4>1 DEF Inv08, Serves08, Held
    <3>3. CASE S!RecvEnd
      <4>1. /\ pc = "recv" /\ pc' = "accept" /\ files' = files
            /\ inbox[files[sock_client]] = <<>> /\ peer[files[sock_client]] /= "up"
        BY <3>3 DEF S!RecvEnd, S!Current, S!netVars
      <4>2. ASSUME NEW c \in Clients, Held(c)' PROVE Gone(c)
        <5>1. Held(c)
          BY <4>1, <4>2 DEF Held
        <5>2. CASE files[sock_client] = c
          BY <1>1, <4>1, <5>1, <5>2 DEF Inv08, Attached, Gone, NetTypeOK, PeerState
        <5> QED
          BY <4>1, <5>1, <5>2 DEF Inv08, Serves08
      <4> QED
        BY <2>2, <4>1, <4>2
    <3>4. CASE S!Close
      <4>1. /\ pc = "close" /\ pc' = "accept" /\ CloseFd(sock_client) /\ acceptQ' = acceptQ
        BY <3>4 DEF S!Close, S!CloseFd, CloseFd
      <4>2. PICK fd \in Fd, c \in Clients : fd = sock_client /\ files[fd] = c
        BY <4>1 DEF Inv08
      <4>3. ~Held(c)' /\ \A d \in Clients : d /= c => (Held(d)' <=> Held(d))
        BY <1>1, <4>1, <4>2, CloseFdEnds
      <4> QED
        BY <2>2, <4>1, <4>2, <4>3 DEF Inv08, Serves08
    <3>5. CASE S!KilledBySigpipe
      BY <3>5 DEF S!KilledBySigpipe
    <3> QED
      BY <1>3, <3>1, <3>2, <3>3, <3>4, <3>5 DEF S!ServerStep
  <2> QED
    BY <2>2, <2>4, <2>5, <2>6 DEF Inv08
<1>4. ASSUME NEW c \in Clients, S!ClientStep(c), UNCHANGED <<pc, sock_client, request>>
      PROVE  Inv08'
  <2>1. ClientStep(c) /\ files' = files
    BY <1>4, SequentialClient, ClientStepFiles
  <2>2. /\ NetTypeOK' /\ ClientTypeOK' /\ OneServerEnd' /\ StreamsSound'
        /\ \A d \in Clients : Attached(d)' => peer'[d] /= "none"
    BY <1>1, <2>1, ClientStepType, ClientEnds, ClientStreams, ClientOpens DEF Inv08
  <2>3. \A d \in Clients : Gone(d) => Gone(d)'
    BY <1>1, <2>1, DoneClient DEF Gone, StreamsSound
  <2>4. S!TypeOK'
    BY <1>1, <1>2, <1>4, <2>2
  <2> QED
    BY <1>4, <2>1, <2>2, <2>3, <2>4 DEF Inv08, Serves08, Held
<1>5. CASE UNCHANGED S!vars
  BY <1>1, <1>2, <1>5 DEF S!vars, S!netVars, S!clientVars, S!serverVars, Inv08,
     Serves08, Held, Attached, Gone, OneServerEnd, StreamsSound, NetTypeOK, ClientTypeOK
<1> QED
  BY <1>3, <1>4, <1>5 DEF S!Next, S!serverVars

---------------------------------------------------------------------------
\* What 11 holds is the connection in sock_client, and on the connection of its
\* client program one exchange at a time is under way.
Inv11 ==
  /\ N!OneClientHeld /\ OneServerEnd /\ StreamsSound
  /\ pc = "accept" => \A c \in Clients : ~Held(c)
  /\ pc \in {"recv", "send"} => sock_client \in Fd /\ files[sock_client] \in Clients
  /\ \A c \in Clients \ Eager : ExchangeOf(c, Replying(c))

\* 11 starts in Inv11.
LEMMA Init11 == N!Init => Inv11
<1> SUFFICES ASSUME N!Init PROVE Inv11
  OBVIOUS
<1>1. /\ NetInit /\ ClientInit /\ pc = "accept" /\ sock_client = -1
  BY DEF N!Init, N!NetInit, N!ClientInit, N!Fd, N!SockServer, NetInit, ClientInit, Fd, SockServer
<1>2. /\ NetTypeOK /\ ClientTypeOK /\ OneServerEnd /\ StreamsSound
      /\ \A c \in Clients : ~Held(c) /\ ExchangeOf(c, FALSE)
  BY <1>1, ClientInitSound DEF Attached
<1>3. N!TypeOK
  BY <1>1, <1>2, SameTypes DEF N!TypeOK
<1>4. N!OneClientHeld
  BY <1>2, <1>3 DEF N!OneClientHeld, N!Held, N!Fd, Held, Fd
<1>5. \A c \in Clients : Replying(c) = FALSE
  BY <1>1 DEF Replying
<1> QED
  BY <1>1, <1>2, <1>4, <1>5 DEF Inv11

\* Its steps, to the sockets, are among those of any server.
LEMMA Sockets11 ==
  ASSUME Inv11, N!ServerStep
  PROVE  SocketStep /\ UNCHANGED clientVars
<1>1. CASE N!Accept
  BY <1>1 DEF N!Accept, N!LowestFree, N!Fd, N!clientVars, Fd, clientVars, SocketStep, SockAccept
<1>2. CASE N!RecvData
  BY <1>2 DEF Inv11, N!RecvData, N!Current, N!Remaining, N!clientVars, clientVars,
     SocketStep, SockRecv, Remaining
<1>3. CASE N!Send
  BY <1>3 DEF Inv11, N!Send, N!Current, N!SendOk, N!SendFails, N!clientVars,
     SendOk, SendFails, clientVars, netVars, SocketStep, SockSend
<1>4. CASE N!AcceptFails \/ N!RecvFails \/ N!KilledBySigpipe
  BY <1>4 DEF N!AcceptFails, N!RecvFails, N!KilledBySigpipe, N!Exit, N!CloseAll, N!Fd,
     N!clientVars, CloseAll, Fd, clientVars, SocketStep, SockEnd
<1> QED
  BY <1>1, <1>2, <1>3, <1>4 DEF N!ServerStep

\* Every step of 11 keeps Inv11.
LEMMA Next11 ==
  ASSUME "time" \in Messages, Inv11, N!Next \/ UNCHANGED N!vars
  PROVE  Inv11'
<1>1. /\ NetTypeOK /\ ClientTypeOK /\ OneServerEnd /\ StreamsSound
      /\ pc \in {"accept", "recv", "send", "exited", "killed"}
      /\ sock_client \in Fd \cup {-1}
  BY SameTypes DEF Inv11, N!OneClientHeld, N!TypeOK, N!Fd, Fd
<1>2. pc \in {"accept", "recv", "send"} => \A c \in Clients : Held(c) => files[sock_client] = c
  BY DEF Inv11, N!OneClientHeld, N!Up, N!Current, N!Held, N!Fd, Held, Fd
<1>3. ASSUME NetTypeOK', ClientTypeOK', pc' \in {"accept", "recv", "send", "exited", "killed"},
             sock_client' \in Fd \cup {-1},
             pc' \in {"accept", "recv", "send"} =>
               \A c \in Clients : Held(c)' => sock_client' \in Fd /\ files'[sock_client'] = c
      PROVE  N!OneClientHeld'
  <2>1. N!NetTypeOK' /\ N!ClientTypeOK'
    BY <1>3, SameTypes, PTL
  <2> QED
    BY <1>3, <2>1 DEF N!OneClientHeld, N!TypeOK, N!Up, N!Current, N!Held, N!Fd, Held, Fd
<1>4. CASE N!ServerStep
  <2>1. SocketStep /\ UNCHANGED clientVars
    BY <1>4, Sockets11
  <2>2. /\ NetTypeOK' /\ ClientTypeOK' /\ OneServerEnd' /\ StreamsSound'
    BY <1>1, <2>1, SocketStepSound, SocketStepStreams DEF clientVars, ClientTypeOK
  <2>3. CASE N!Accept
    <3>1. PICK c \in acceptQ, fd \in Fd :
            /\ files[fd] = "free" /\ files' = [files EXCEPT ![fd] = c]
            /\ acceptQ' = acceptQ \ {c} /\ sock_client' = fd
            /\ pc = "accept" /\ pc' = "recv" /\ UNCHANGED <<peer, inbox, outbox>>
      BY <2>3 DEF N!Accept, N!LowestFree, N!Fd, Fd
    <3>2. c \in Clients /\ files'[fd] = c
      BY <1>1, <3>1 DEF NetTypeOK
    <3>3. \A d \in Clients : Held(d)' => d = c
      BY <1>1, <3>1, AcceptEnds DEF Inv11
    <3>4. N!OneClientHeld'
      BY <1>3, <2>2, <3>1, <3>2, <3>3
    <3>5. ASSUME NEW d \in Clients \ Eager PROVE ExchangeOf(d, Replying(d))'
      <4>1. ~Replying(d) /\ ~Replying(d)'
        BY <3>1 DEF Replying
      <4> QED
        BY <2>1, <3>1, <4>1 DEF Inv11, ExchangeOf, clientVars
    <3> QED
      BY <2>2, <3>1, <3>2, <3>4, <3>5 DEF Inv11
  <2>4. CASE N!RecvData
    <3>1. PICK b \in Clients : b = files[sock_client]
      BY <2>4 DEF N!RecvData, Inv11
    <3>2. /\ pc = "recv" /\ pc' = "send" /\ UNCHANGED <<files, sock_client, peer, outbox, client>>
          /\ \E k \in 1..Len(inbox[b]) : inbox' = [inbox EXCEPT ![b] = Remaining(b, k)]
      BY <2>4, <3>1 DEF N!RecvData, N!Current, N!Remaining, N!clientVars, Remaining
    <3>3. N!OneClientHeld'
      BY <1>2, <1>3, <2>2, <3>2 DEF Inv11, Held
    <3>4. ASSUME NEW d \in Clients \ Eager PROVE ExchangeOf(d, Replying(d))'
      <4>1. ExchangeOf(d, Replying(d)) /\ Replying(d) = FALSE /\ Replying(d)' = (d = b)
        BY <3>1, <3>2 DEF Inv11, Replying
      <4>2. CASE d = b
        <5>1. ExchangeOf(d, TRUE)'
          BY <1>1, <3>2, <4>1, <4>2, RecvExchange
        <5> QED
          BY <4>1, <4>2, <5>1 DEF ExchangeOf
      <4>3. CASE d /= b
        <5>1. inbox'[d] = inbox[d]
          BY <1>1, <3>2, <4>3 DEF NetTypeOK
        <5> QED
          BY <3>2, <4>1, <4>3, <5>1 DEF ExchangeOf
      <4> QED
        BY <4>2, <4>3
    <3> QED
      BY <2>2, <3>1, <3>2, <3>3, <3>4 DEF Inv11
  <2>5. CASE N!Send
    <3>1. PICK b \in Clients : b = files[sock_client]
      BY <2>5 DEF N!Send, Inv11
    <3>2. /\ pc = "send" /\ pc' = "recv" /\ UNCHANGED <<files, sock_client, inbox, client>>
          /\ \/ SendOk(b) \/ SendFails(b)
             \/ outbox[b] = SendBuf /\ UNCHANGED <<peer, outbox>>
      BY <2>5, <3>1 DEF N!Send, N!Current, N!clientVars, N!SendOk, N!SendFails, SendOk, SendFails
    <3>3. N!OneClientHeld'
      BY <1>2, <1>3, <2>2, <3>2 DEF Inv11, Held
    <3>4. ASSUME NEW d \in Clients \ Eager PROVE ExchangeOf(d, Replying(d))'
      <4>1. ExchangeOf(d, Replying(d)) /\ Replying(d) = (d = b) /\ Replying(d)' = FALSE
        BY <3>1, <3>2 DEF Inv11, Replying
      <4>2. CASE d = b
        <5>1. ExchangeOf(d, TRUE)
          BY <4>1, <4>2 DEF ExchangeOf
        <5>2. outbox[d] = 0
          BY <1>1, <5>1, ServedExchange
        <5>3. ExchangeOf(d, FALSE)'
          BY <1>1, <3>2, <4>2, <5>1, <5>2, SendExchange
        <5> QED
          BY <4>1, <5>3 DEF ExchangeOf
      <4>3. CASE d /= b
        <5>1. outbox'[d] = outbox[d] /\ peer'[d] = peer[d]
          BY <1>1, <3>2, <4>3, SendStreams
        <5> QED
          BY <3>2, <4>1, <4>3, <5>1 DEF ExchangeOf
      <4> QED
        BY <4>2, <4>3
    <3> QED
      BY <2>2, <3>1, <3>2, <3>3, <3>4 DEF Inv11
  <2>6. CASE N!AcceptFails \/ N!RecvFails \/ N!KilledBySigpipe
    <3>1. /\ pc' \in {"exited", "killed"} /\ CloseAll /\ UNCHANGED <<peer, outbox, client, sock_client>>
      BY <2>6 DEF N!AcceptFails, N!RecvFails, N!KilledBySigpipe, N!Exit, N!CloseAll, N!Fd,
         N!clientVars, CloseAll, Fd
    <3>2. \A c \in Clients : inbox'[c] = <<>>
      BY <3>1, CloseAllEnds
    <3>3. N!OneClientHeld'
      BY <1>1, <1>3, <2>2, <3>1
    <3>4. ASSUME NEW d \in Clients \ Eager PROVE ExchangeOf(d, Replying(d))'
      <4>1. ExchangeOf(d, Replying(d)) /\ Replying(d)' = FALSE
        BY <3>1 DEF Inv11, Replying
      <4> QED
        BY <3>1, <3>2, <4>1 DEF ExchangeOf
    <3> QED
      BY <2>2, <3>1, <3>3, <3>4 DEF Inv11
  <2> QED
    BY <1>4, <2>3, <2>4, <2>5, <2>6 DEF N!ServerStep
<1>5. ASSUME NEW c \in Clients, N!StatusClient(c), UNCHANGED <<pc, sock_client>>
      PROVE  Inv11'
  <2>1. ClientStep(c) /\ files' = files
    BY <1>5, StatusClientStep, ClientStepFiles
  <2>2. NetTypeOK' /\ ClientTypeOK' /\ OneServerEnd' /\ StreamsSound'
    BY <1>1, <2>1, ClientStepType, ClientEnds, ClientStreams
  <2>3. N!OneClientHeld'
    <3>1. \A d \in Clients : Held(d)' <=> Held(d)
      BY <2>1 DEF Held
    <3>2. pc \in {"accept", "recv", "send"} => \A d \in Clients : Held(d) => sock_client \in Fd
      BY DEF Inv11
    <3> QED
      BY <1>1, <1>2, <1>3, <1>5, <2>1, <2>2, <3>1, <3>2
  <2>4. ASSUME NEW d \in Clients \ Eager PROVE ExchangeOf(d, Replying(d))'
    <3>1. /\ ExchangeOf(d, Replying(d)) /\ Replying(d) \in BOOLEAN
          /\ Replying(d) => Attached(d)
      BY DEF Inv11, Replying, Attached, Held
    <3>2. PICK s \in BOOLEAN : s = Replying(d)
      BY <3>1
    <3>3. Replying(d)' = s
      BY <1>5, <2>1, <3>2 DEF Replying
    <3>4. ExchangeOf(d, s)'
      BY <1>1, <2>1, <3>1, <3>2, ClientExchange
    <3> QED
      BY <3>3, <3>4 DEF ExchangeOf
  <2> QED
    BY <1>5, <2>1, <2>2, <2>3, <2>4 DEF Inv11, Held
<1>6. CASE UNCHANGED N!vars
  <2>1. UNCHANGED <<files, acceptQ, peer, inbox, outbox, client, last, pc, sock_client>>
    BY <1>6 DEF N!vars, N!netVars, N!clientVars, N!serverVars
  <2>2. NetTypeOK' /\ ClientTypeOK' /\ OneServerEnd' /\ StreamsSound'
        /\ \A c \in Clients : Held(c)' <=> Held(c)
    BY <1>1, <2>1 DEF NetTypeOK, ClientTypeOK, OneServerEnd, StreamsSound, Attached, Held
  <2>3. N!OneClientHeld'
    BY <2>1 DEF Inv11, N!OneClientHeld, N!TypeOK, N!NetTypeOK, N!ClientTypeOK, N!Up,
       N!Current, N!Held
  <2> QED
    BY <2>1, <2>2, <2>3 DEF Inv11, Replying, ExchangeOf
<1> QED
  BY <1>4, <1>5, <1>6 DEF N!Next, N!serverVars

---------------------------------------------------------------------------
\* Both invariants, each of the program that runs.
EachServerSound ==
  /\ program = "sequential" => Inv08
  /\ program = "nonblocking" => Inv11

\* They hold in every reachable state, for every number of clients and
\* descriptors; the client program of 11 sends its time.
THEOREM OneThreadInvariance ==
  ASSUME "time" \in Messages
  PROVE  MCSpec => []EachServerSound
<1>1. MCInit => EachServerSound
  BY Init08, Init11 DEF MCInit, EachServerSound
<1>2. EachServerSound /\ [MCNext]_allVars => EachServerSound'
  <2> SUFFICES ASSUME EachServerSound, [MCNext]_allVars
               PROVE  EachServerSound'
    OBVIOUS
  <2>1. program' = program
    BY DEF MCNext, allVars
  <2>2. CASE program = "sequential"
    <3>1. S!Next \/ UNCHANGED S!vars
      BY <2>2 DEF MCNext, allVars, vars, netVars, clientVars, serverVars, mainVars, threadVars,
         S!vars, S!netVars, S!clientVars, S!serverVars
    <3> QED
      BY <2>1, <2>2, <3>1, Next08 DEF EachServerSound
  <2>3. CASE program = "nonblocking"
    <3>1. N!Next \/ UNCHANGED N!vars
      BY <2>3 DEF MCNext, allVars, vars, netVars, clientVars, serverVars, mainVars, threadVars,
         N!vars, N!netVars, N!clientVars, N!serverVars
    <3> QED
      BY <2>1, <2>3, <3>1, Next11 DEF EachServerSound
  <2> QED
    BY <2>1, <2>2, <2>3 DEF EachServerSound
<1> QED
  BY <1>1, <1>2, PTL DEF MCSpec

\* The sequential server never turns away from a client that is still there.
THEOREM OnlyTheGoneAreEverLeft ==
  ASSUME "time" \in Messages
  PROVE  MCSpec => []LeftIn08
<1>1. EachServerSound => LeftIn08
  BY DEF EachServerSound, Inv08, Serves08, Gone, Held, Fd, LeftIn08, S!OnlyTheGoneAreLeft,
     S!InService, S!Held, S!Fd
<1> QED
  BY <1>1, OneThreadInvariance, PTL

\* The non-blocking server loses no descriptor: what it holds is in sock_client.
THEOREM OneClientAlwaysHeld ==
  ASSUME "time" \in Messages
  PROVE  MCSpec => []OneClientIn11
<1>1. EachServerSound => OneClientIn11
  BY DEF EachServerSound, Inv11, OneClientIn11
<1> QED
  BY <1>1, OneThreadInvariance, PTL

\* Its send() to its client program never finds the buffers full, and never
\* raises SIGPIPE.
THEOREM SendsAlwaysGoThrough ==
  ASSUME "time" \in Messages
  PROVE  MCSpec => []SendsIn11
<1>1. EachServerSound => SendsIn11
  <2> SUFFICES ASSUME Inv11, NEW c \in Clients \ Eager, pc = "send", files[sock_client] = c
               PROVE  outbox[c] < SendBuf /\ peer[c] /= "broken"
    BY DEF EachServerSound, SendsIn11, N!SendsGoThrough, N!Current, N!SendRaisesSigpipe
  <2>1. NetTypeOK
    BY SameTypes DEF Inv11, N!OneClientHeld, N!TypeOK
  <2>2. ExchangeOf(c, TRUE)
    <3>1. Replying(c) = TRUE
      BY DEF Replying
    <3> QED
      BY <3>1 DEF Inv11, ExchangeOf
  <2>3. outbox[c] = 0 /\ peer[c] /= "broken"
    BY <2>1, <2>2, ServedExchange
  <2> QED
    BY <2>3
<1> QED
  BY <1>1, OneThreadInvariance, PTL
---------------------------------------------------------------------------

\* Steps of 08 and of 11 keep what is due.
LEMMA NextDue08 ==
  ASSUME Inv08, DueByOne, S!Next \/ UNCHANGED S!vars
  PROVE  DueByOne'
<1>1. NetTypeOK /\ ClientTypeOK /\ OneServerEnd /\ StreamsSound
  BY SameTypes DEF Inv08, S!TypeOK
<1>2. CASE S!ServerStep
  <2>1. UNCHANGED clientVars
    BY <1>2, Sockets08
  <2>2. CASE S!Accept
    BY <1>1, <2>1, <2>2, OneThreadDue DEF S!Accept, S!LowestFree, S!Fd, Fd, SockAccept
  <2>3. CASE S!RecvData
    BY <1>1, <2>1, <2>3, OneThreadDue
    DEF Inv08, S!RecvData, S!Current, S!Remaining, Remaining
  <2>4. CASE S!Send
    BY <1>1, <2>1, <2>4, OneThreadDue
    DEF Inv08, S!Send, S!Current, S!SendOk, S!SendFails, SendOk, SendFails, SockSend
  <2>5. CASE S!RecvEnd
    BY <1>1, <2>1, <2>5, OneThreadDue DEF S!RecvEnd, S!netVars, netVars
  <2>6. CASE S!Close
    BY <1>1, <2>1, <2>6, OneThreadDue DEF Inv08, S!Close, S!CloseFd, CloseFd, SockClose
  <2>7. CASE S!KilledBySigpipe
    BY <1>1, <2>1, <2>7, OneThreadDue DEF S!KilledBySigpipe, S!CloseAll, S!Fd, CloseAll, Fd, SockEnd
  <2> QED
    BY <1>2, <2>2, <2>3, <2>4, <2>5, <2>6, <2>7 DEF S!ServerStep
<1>3. ASSUME NEW c \in Clients, S!ClientStep(c), UNCHANGED S!serverVars PROVE DueByOne'
  BY <1>1, <1>3, SequentialClient, ClientDueByOne DEF S!serverVars
<1>4. CASE UNCHANGED S!vars
  BY <1>4 DEF S!vars, S!netVars, S!clientVars, S!serverVars, DueByOne, AnswerDue, Replying,
     Attached, Held
<1> QED
  BY <1>2, <1>3, <1>4 DEF S!Next

LEMMA NextDue11 ==
  ASSUME "time" \in Messages, Inv11, DueByOne, N!Next \/ UNCHANGED N!vars
  PROVE  DueByOne'
<1>1. NetTypeOK /\ ClientTypeOK /\ OneServerEnd /\ StreamsSound
  BY SameTypes DEF Inv11, N!OneClientHeld, N!TypeOK
<1>2. CASE N!ServerStep
  <2>1. UNCHANGED clientVars
    BY <1>2, Sockets11
  <2>2. CASE N!Accept
    BY <1>1, <2>1, <2>2, OneThreadDue DEF N!Accept, N!LowestFree, N!Fd, Fd, SockAccept
  <2>3. CASE N!RecvData
    BY <1>1, <2>1, <2>3, OneThreadDue
    DEF Inv11, N!RecvData, N!Current, N!Remaining, Remaining
  <2>4. CASE N!Send
    BY <1>1, <2>1, <2>4, OneThreadDue
    DEF Inv11, N!Send, N!Current, N!SendOk, N!SendFails, SendOk, SendFails, SockSend, netVars
  <2>5. CASE N!AcceptFails \/ N!RecvFails \/ N!KilledBySigpipe
    BY <1>1, <2>1, <2>5, OneThreadDue
    DEF N!AcceptFails, N!RecvFails, N!KilledBySigpipe, N!Exit, N!CloseAll, N!Fd, CloseAll, Fd, SockEnd
  <2> QED
    BY <1>2, <2>2, <2>3, <2>4, <2>5 DEF N!ServerStep
<1>3. ASSUME NEW c \in Clients, N!StatusClient(c), UNCHANGED N!serverVars PROVE DueByOne'
  BY <1>1, <1>3, StatusClientStep, ClientDueByOne DEF N!serverVars
<1>4. CASE UNCHANGED N!vars
  BY <1>4 DEF N!vars, N!netVars, N!clientVars, N!serverVars, DueByOne, AnswerDue, Replying,
     Attached, Held
<1> QED
  BY <1>2, <1>3, <1>4 DEF N!Next

\* With one thread too, what a client waits for is there as long as its
\* connection is open: also in the queue of 08, behind other clients, and where
\* 11 lets a status fall for want of buffer space.
THEOREM NothingAskedIsLostByOne ==
  ASSUME "time" \in Messages
  PROVE  MCSpec => [](program \in {"sequential", "nonblocking"} => DueByOne)
<1> DEFINE Due == program \in {"sequential", "nonblocking"} => DueByOne
<1>1. MCInit => Due
  BY DEF MCInit, S!Init, N!Init, S!ClientInit, N!ClientInit, DueByOne, AnswerDue
<1>2. EachServerSound /\ Due /\ [MCNext]_allVars => Due'
  <2> SUFFICES ASSUME EachServerSound, Due, [MCNext]_allVars,
                      program \in {"sequential", "nonblocking"}
               PROVE  DueByOne'
    BY DEF MCNext, allVars
  <2>1. CASE program = "sequential"
    <3>1. S!Next \/ UNCHANGED S!vars
      BY <2>1 DEF MCNext, allVars, vars, netVars, clientVars, serverVars, mainVars, threadVars,
         S!vars, S!netVars, S!clientVars, S!serverVars
    <3> QED
      BY <2>1, <3>1, NextDue08 DEF EachServerSound
  <2>2. CASE program = "nonblocking"
    <3>1. N!Next \/ UNCHANGED N!vars
      BY <2>2 DEF MCNext, allVars, vars, netVars, clientVars, serverVars, mainVars, threadVars,
         N!vars, N!netVars, N!clientVars, N!serverVars
    <3> QED
      BY <2>2, <3>1, NextDue11 DEF EachServerSound
  <2> QED
    BY <2>1, <2>2
<1> QED
  BY <1>1, <1>2, OneThreadInvariance, PTL DEF MCSpec
=============
