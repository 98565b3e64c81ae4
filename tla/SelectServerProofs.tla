------------------------- MODULE SelectServerProofs -------------------------
(* Proofs about SelectServer for any number of clients, descriptors and    *)
(* entries of fds_client: IInv is inductive, and the server implements the *)
(* event loop of EventLoop.                                                *)
EXTENDS SelectServer, CommandClientProofs

USE SocketsAssumption, ClientAssumption, SelectAssumption

\* What the proofs need besides TablesAgree: the listening socket is monitored
\* and in no entry, everything else that is monitored is a connection, the one
\* in service among them, and a readiness bit that the scan has not reached is
\* still true.
TablesSound ==
  pc /= "killed" =>
    /\ SockServer \in master_set
    /\ \A e \in Entries : fds_client[e] /= SockServer
    /\ \A fd \in master_set \ {SockServer} : files[fd] \in Clients
    /\ pc = "reply" => i \in master_set \ {SockServer}
    /\ pc /= "select" /\ activity /= -1 =>
         \A fd \in read_set \ {SockServer} :
           Unvisited(fd) => StreamReadable(files[fd])

\* The exchanges of the clients that are run_client.
ExchangesSound == \A c \in Clients \ Eager : ExchangeOf(c, Serving(c))

\* What is due to any client.
AnswersDue == \A c \in Clients : AnswerDue(c, Serving(c))

IInv ==
  /\ TablesAgree
  /\ TablesSound
  /\ OneServerEnd
  /\ StreamsSound
  /\ ExchangesSound
  /\ AnswersDue
---------------------------------------------------------------------------
\* The server starts in IInv.
LEMMA InitIInv == Init => IInv
<1> SUFFICES ASSUME Init PROVE IInv
  OBVIOUS
<1>1. /\ NetInit /\ ClientInit
      /\ pc = "select" /\ activity = 1 /\ i = SockServer /\ request = ""
      /\ fds_client = [e \in Entries |-> 0]
      /\ master_set = {SockServer} /\ read_set = {} /\ global_max_fd = SockServer
  BY DEF Init
<1>2. SockServer \in Fd /\ SockServer \in SockServer..(MaxFd + 1)
  BY DEF Fd, SockServer
<1>3. NetTypeOK /\ ClientTypeOK /\ OneServerEnd /\ StreamsSound
  BY <1>1, ClientInitSound
<1>4. files[SockServer] = "listener"
  BY <1>1, <1>2 DEF NetInit
<1>5. \A e \in Entries : fds_client[e] = 0
  BY <1>1
<1>6. {fds_client[e] : e \in Entries} \ {0} = {}
  BY <1>5
<1>7. TablesAgree
  <2>1. TypeOK
    BY <1>1, <1>2, <1>3 DEF TypeOK, Commands
  <2>2. \A fd \in master_set : fd <= global_max_fd /\ files[fd] /= "free"
    <3>1. \A fd \in master_set : fd = SockServer
      BY <1>1
    <3>2. global_max_fd = SockServer /\ SockServer = 3
      BY <1>1 DEF SockServer
    <3> QED
      BY <1>4, <3>1, <3>2
  <2> QED
    BY <1>1, <1>4, <1>6, <1>5, <2>1, <2>2 DEF TablesAgree
<1>8. TablesSound
  <2>1. \A e \in Entries : fds_client[e] /= SockServer
    BY <1>5 DEF SockServer
  <2> QED
    BY <1>1, <2>1 DEF TablesSound
<1>9. ExchangesSound
  <2>1. \A c \in Clients : Serving(c) = FALSE
    BY <1>1 DEF Serving
  <2> QED
    BY <1>1, <2>1, ClientInitSound DEF ExchangesSound
<1>10. AnswersDue
  BY <1>1 DEF AnswersDue, AnswerDue, ClientInit
<1> QED
  BY <1>3, <1>7, <1>8, <1>9, <1>10 DEF IInv

---------------------------------------------------------------------------
\* The descriptor in service is a monitored connection.
LEMMA ServedFd ==
  ASSUME IInv, InService
  PROVE  /\ pc /= "killed" /\ i \in master_set /\ i \in Fd /\ i /= SockServer
         /\ files[i] \in Clients /\ Held(files[i])
<1>1. pc /= "killed" /\ i \in master_set /\ i /= SockServer
  BY DEF IInv, InService, AtRecv, TablesAgree, TablesSound, Unvisited
<1>2. i \in Fd /\ files[i] \in Clients
  BY <1>1 DEF IInv, TablesAgree, TypeOK, TablesSound
<1> QED
  BY <1>1, <1>2 DEF Held

\* A step of the server is one of the steps that any server makes.
LEMMA ServerStepSockets ==
  ASSUME IInv, ServerStep
  PROVE  SocketStep /\ UNCHANGED clientVars
<1>1. CASE Select \/ SelectFails \/ EndScan \/ Skip \/ AcceptFails
  BY <1>1 DEF Select, SelectFails, EndScan, Skip, AcceptFails, SocketStep
<1>2. CASE Accept
  BY <1>2 DEF Accept, LowestFree, SocketStep, SockAccept
<1>3. CASE RecvData
  BY <1>3, ServedFd DEF RecvData, InService, SocketStep, SockRecv
<1>4. CASE RecvEnd
  BY <1>4, ServedFd DEF RecvEnd, Drop, InService, SocketStep, SockClose
<1>5. CASE Reply
  <2>1. pc = "reply" /\ i \in Fd /\ files[i] \in Clients
    BY <1>5, ServedFd DEF Reply, InService
  <2> QED
    BY <1>5, <2>1 DEF Reply, KeepOrDrop, Drop, SocketStep, SockSend, SockSendClose
<1>6. CASE KilledBySigpipe
  BY <1>6 DEF KilledBySigpipe, SocketStep, SockEnd
<1> QED
  BY <1>1, <1>2, <1>3, <1>4, <1>5, <1>6 DEF ServerStep

\* Type correctness is kept by every step.
LEMMA NextType ==
  ASSUME IInv, [Next]_vars
  PROVE  TypeOK'
<1> USE DEF IInv, TablesAgree
<1>1. ASSUME ServerStep PROVE NetTypeOK' /\ ClientTypeOK'
  BY <1>1, ServerStepSockets, SocketStepSound DEF TypeOK, ClientTypeOK, clientVars
<1>2. CASE Select \/ SelectFails
  BY <1>1, <1>2 DEF ServerStep, Select, SelectFails, TypeOK, SockServer
<1>3. CASE EndScan
  BY <1>1, <1>3 DEF ServerStep, EndScan, TypeOK
<1>4. ASSUME i <= global_max_fd \/ i \in Fd, TypeOK
      PROVE  i + 1 \in SockServer..(MaxFd + 1)
  BY <1>4 DEF TypeOK, Fd, SockServer
<1>5. CASE Skip \/ AcceptFails
  BY <1>1, <1>4, <1>5 DEF ServerStep, Skip, AcceptFails, AtListener, TypeOK
<1>6. CASE Accept
  <2>1. PICK fd \in Fd : StoreConnection(fd)
    BY <1>6 DEF Accept
  <2>2. fds_client' \in [Entries -> Fd \cup {0}] /\ master_set' \subseteq Fd
        /\ global_max_fd' \in Fd
    BY <2>1 DEF StoreConnection, TypeOK
  <2> QED
    BY <1>1, <1>4, <1>6, <2>2 DEF ServerStep, Accept, AtListener, TypeOK
<1>7. CASE RecvData
  <2>1. files[i] \in Clients /\ NetTypeOK
    BY <1>7, ServedFd DEF RecvData, InService, TypeOK
  <2>2. request' \in Commands
    BY <1>7, <2>1, RemainingProperties DEF RecvData
  <2> QED
    BY <1>1, <1>7, <2>2 DEF ServerStep, RecvData, TypeOK
<1>8. ASSUME Drop(i) \/ UNCHANGED <<master_set, fds_client>>
      PROVE  master_set' \subseteq Fd /\ fds_client' \in [Entries -> Fd \cup {0}]
  BY <1>8 DEF Drop, TypeOK
<1>9. CASE RecvEnd
  BY <1>1, <1>4, <1>8, <1>9 DEF ServerStep, RecvEnd, AtRecv, TypeOK
<1>10. CASE Reply
  <2>1. i \in Fd
    BY <1>10, ServedFd DEF Reply, InService
  <2>2. Drop(i) \/ UNCHANGED <<master_set, fds_client>>
    BY <1>10 DEF Reply, KeepOrDrop
  <2> QED
    BY <1>1, <1>4, <1>8, <1>10, <2>1, <2>2 DEF ServerStep, Reply, TypeOK
<1>11. CASE KilledBySigpipe
  BY <1>1, <1>11 DEF ServerStep, KilledBySigpipe, TypeOK
<1>12. ASSUME NEW c \in Clients, ClientStep(c), UNCHANGED serverVars
       PROVE  TypeOK'
  BY <1>12, ClientStepType DEF TypeOK, serverVars
<1>13. CASE UNCHANGED vars
  BY <1>13 DEF vars, netVars, clientVars, serverVars, TypeOK, NetTypeOK, ClientTypeOK
<1> QED
  BY <1>2, <1>3, <1>6, <1>7, <1>9, <1>10, <1>11, <1>12, <1>13, <1>5
  DEF Next, ServerStep

---------------------------------------------------------------------------
\* Every close() empties one entry of the tables, and leaves the others and
\* their streams alone.
LEMMA DropTables ==
  ASSUME IInv, InService, Drop(i), acceptQ' = acceptQ,
         UNCHANGED <<read_set, activity, global_max_fd>>,
         pc' = "scan", i' = i + 1,
         \A d \in Clients : d /= files[i] /\ StreamReadable(d) => peer'[d] /= "up" \/ inbox'[d] /= <<>>,
         TypeOK'
  PROVE  TablesAgree' /\ TablesSound'
<1>1. /\ i \in Fd /\ i /= SockServer /\ i \in master_set /\ pc \in {"scan", "reply"}
      /\ files[i] \in Clients
  BY ServedFd DEF InService, AtRecv
<1>2. /\ files'[i] = "free" /\ \A g \in Fd : g /= i => files'[g] = files[g]
  BY <1>1, CloseFdEnds DEF Drop, IInv, TablesAgree, TypeOK
<1>3. /\ master_set' = master_set \ {i} /\ master_set \subseteq Fd
      /\ fds_client \in [Entries -> Fd \cup {0}]
  BY DEF Drop, IInv, TablesAgree, TypeOK
<1>4. /\ files[SockServer] = "listener" /\ SockServer \in master_set
      /\ master_set \ {SockServer} = {fds_client[e] : e \in Entries} \ {0}
      /\ \A e, f \in Entries :
           e /= f /\ fds_client[e] = fds_client[f] => fds_client[e] = 0
      /\ \A e \in Entries : fds_client[e] /= SockServer
      /\ \A fd \in master_set : fd <= global_max_fd /\ files[fd] /= "free"
      /\ \A fd \in master_set \ {SockServer} : files[fd] \in Clients
      /\ \A fd \in read_set : fd > i => fd \in master_set
      /\ activity /= -1 =>
           \A fd \in read_set \ {SockServer} : fd > i => StreamReadable(files[fd])
  BY <1>1 DEF IInv, TablesAgree, TablesSound, Unvisited
<1>5. \A e \in Entries : fds_client'[e] = IF fds_client[e] = i THEN 0 ELSE fds_client[e]
  <2>1. i /= 0
    BY <1>1 DEF Fd
  <2>2. \A e, f \in Entries : fds_client[e] = i /\ f < e => fds_client[f] /= i
    BY <1>4, <2>1 DEF Entries
  <2> QED
    BY <2>2 DEF Drop
<1>6. master_set' \ {SockServer} = {fds_client'[e] : e \in Entries} \ {0}
  BY <1>1, <1>3, <1>4, <1>5
<1>7. \A e, f \in Entries :
        e /= f /\ fds_client'[e] = fds_client'[f] => fds_client'[e] = 0
  BY <1>4, <1>5
<1>8. \A e \in Entries : fds_client'[e] /= SockServer
  BY <1>4, <1>5 DEF SockServer
<1>9. SockServer \in Fd /\ files'[SockServer] = "listener" /\ SockServer \in master_set'
  BY <1>1, <1>2, <1>3, <1>4
<1>10. \A fd \in master_set' : /\ fd <= global_max_fd' /\ files'[fd] /= "free"
                               /\ fd /= SockServer => files'[fd] \in Clients
  BY <1>2, <1>3, <1>4
<1>11. \A fd \in read_set' : Unvisited(fd)' => fd \in master_set' /\ fd > i /\ fd \in Fd
  BY <1>1, <1>3, <1>4 DEF IInv, TablesAgree, TypeOK, Fd, Unvisited
<1>12. ASSUME activity' /= -1, NEW fd \in read_set' \ {SockServer}, Unvisited(fd)'
       PROVE  StreamReadable(files[fd])'
  <2>1. fd \in Fd /\ fd /= i /\ fd \in master_set /\ StreamReadable(files[fd]) /\ files'[fd] = files[fd]
    BY <1>1, <1>2, <1>3, <1>4, <1>11, <1>12 DEF Fd
  <2>2. files[fd] \in Clients /\ files[fd] /= files[i]
    BY <1>1, <1>4, <1>12, <2>1 DEF IInv, OneServerEnd
  <2> QED
    BY <2>1, <2>2 DEF StreamReadable
<1>13. TablesAgree'
  BY <1>6, <1>7, <1>9, <1>10, <1>11 DEF TablesAgree
<1>14. TablesSound'
  BY <1>8, <1>9, <1>10, <1>12 DEF TablesSound
<1> QED
  BY <1>13, <1>14

\* Steps that change neither the tables nor what they refer to.
LEMMA TablesFrame ==
  ASSUME IInv, TypeOK', pc /= "killed", pc' /= "killed",
         UNCHANGED <<files, fds_client, master_set, global_max_fd>>,
         pc' = "reply" => i' \in master_set \ {SockServer},
         pc' /= "select" =>
           \A fd \in read_set' : Unvisited(fd)' =>
             /\ fd \in master_set
             /\ activity' /= -1 /\ fd /= SockServer => StreamReadable(files[fd])'
  PROVE  TablesAgree' /\ TablesSound'
BY DEF IInv, TablesAgree, TablesSound

\* The same when the scan goes on in its set.
LEMMA ScanFrame ==
  ASSUME IInv, TypeOK', pc \in {"scan", "reply"}, pc' \in {"scan", "reply"},
         UNCHANGED <<files, fds_client, master_set, global_max_fd, read_set, activity>>,
         pc' = "reply" => i' \in master_set \ {SockServer},
         \A fd \in Fd : Unvisited(fd)' => Unvisited(fd),
         \A fd \in master_set :
           Unvisited(fd)' /\ fd /= SockServer /\ StreamReadable(files[fd])
             => StreamReadable(files[fd])'
  PROVE  TablesAgree' /\ TablesSound'
<1>1. \A fd \in read_set' : Unvisited(fd)' => Unvisited(fd)
  BY DEF IInv, TablesAgree, TypeOK
<1>2. \A fd \in read_set' : Unvisited(fd)' =>
        /\ fd \in master_set
        /\ activity' /= -1 /\ fd /= SockServer => StreamReadable(files[fd])'
  BY <1>1 DEF IInv, TablesAgree, TablesSound
<1> QED
  BY <1>2, TablesFrame

\* Storing a new connection takes an unused entry and a descriptor that was
\* free, so in none of the sets.
LEMMA AcceptTables ==
  ASSUME IInv, Accept, TypeOK'
  PROVE  TablesAgree' /\ TablesSound'
<1>1. PICK c \in acceptQ, fd \in Fd :
        /\ files[fd] = "free" /\ c \in Clients
        /\ files' = [files EXCEPT ![fd] = c]
        /\ StoreConnection(fd)
  BY DEF Accept, LowestFree, IInv, TablesAgree, TypeOK, NetTypeOK
<1>2. /\ pc = "scan" /\ i = SockServer /\ i' = i + 1
      /\ UNCHANGED <<inbox, peer, pc, read_set, activity>>
  BY DEF Accept, AtListener
<1>3. /\ files[SockServer] = "listener" /\ SockServer \in master_set
      /\ master_set \ {SockServer} = {fds_client[e] : e \in Entries} \ {0}
      /\ \A e, f \in Entries :
           e /= f /\ fds_client[e] = fds_client[f] => fds_client[e] = 0
      /\ \A e \in Entries : fds_client[e] /= SockServer
      /\ \A g \in master_set : g <= global_max_fd /\ files[g] /= "free"
      /\ \A g \in master_set \ {SockServer} : files[g] \in Clients
      /\ \A g \in read_set : Unvisited(g) => g \in master_set
      /\ activity /= -1 =>
           \A g \in read_set \ {SockServer} : Unvisited(g) => StreamReadable(files[g])
  BY <1>2 DEF IInv, TablesAgree, TablesSound
<1>4. /\ master_set \subseteq Fd /\ read_set \subseteq Fd /\ global_max_fd \in Fd
      /\ fds_client \in [Entries -> Fd \cup {0}] /\ files \in [Fd -> Clients \cup {"free", "listener"}]
  BY DEF IInv, TablesAgree, TypeOK, NetTypeOK
<1>5. fd \notin master_set /\ fd /= SockServer /\ fd /= 0 /\ \A e \in Entries : fds_client[e] /= fd
  BY <1>1, <1>3 DEF Fd
<1>6. files'[fd] = c /\ \A g \in Fd : g /= fd => files'[g] = files[g]
  BY <1>1, <1>4
<1>7. files'[SockServer] = "listener" /\ \A g \in master_set : files'[g] = files[g]
  BY <1>3, <1>4, <1>5, <1>6
<1>8. /\ SockServer \in master_set'
      /\ master_set' \ {SockServer} = {fds_client'[e] : e \in Entries} \ {0}
      /\ \A e, f \in Entries :
           e /= f /\ fds_client'[e] = fds_client'[f] => fds_client'[e] = 0
      /\ \A e \in Entries : fds_client'[e] /= SockServer
      /\ \A g \in master_set' : g <= global_max_fd' /\ (g \in master_set \/ g = fd)
      /\ master_set \subseteq master_set'
  <2>1. CASE \A e \in Entries : fds_client[e] /= 0
    BY <1>1, <1>3, <2>1 DEF StoreConnection
  <2>2. ASSUME NEW e \in Entries, fds_client[e] = 0,
               fds_client' = [fds_client EXCEPT ![e] = fd],
               master_set' = master_set \cup {fd},
               global_max_fd' = IF fd > global_max_fd THEN fd ELSE global_max_fd
        PROVE  <1>8!:
    <3>1. fds_client'[e] = fd /\ \A f \in Entries : f /= e => fds_client'[f] = fds_client[f]
      BY <1>4, <2>2
    <3>2. master_set' \ {SockServer} = {fds_client'[f] : f \in Entries} \ {0}
      BY <1>3, <1>5, <2>2, <3>1
    <3>3. \A g \in master_set' : g <= global_max_fd' /\ (g \in master_set \/ g = fd)
      BY <1>3, <1>4, <2>2 DEF Fd
    <3> QED
      BY <1>3, <1>5, <2>2, <3>1, <3>2, <3>3
  <2> QED
    BY <1>1, <2>1, <2>2 DEF StoreConnection
<1>9. \A g \in Fd : Unvisited(g)' => Unvisited(g)
  BY <1>2 DEF Unvisited, Fd, SockServer
<1>10. \A g \in read_set' : Unvisited(g)' =>
         /\ g \in master_set'
         /\ activity' /= -1 /\ g /= SockServer => StreamReadable(files[g])'
  BY <1>2, <1>3, <1>4, <1>7, <1>8, <1>9 DEF StreamReadable
<1>11. \A g \in master_set' : /\ files'[g] /= "free"
                              /\ g /= SockServer => files'[g] \in Clients
  BY <1>1, <1>3, <1>6, <1>7, <1>8
<1>12. TablesAgree'
  BY <1>7, <1>8, <1>10, <1>11 DEF TablesAgree
<1>13. TablesSound'
  BY <1>2, <1>8, <1>10, <1>11 DEF TablesSound
<1> QED
  BY <1>12, <1>13

\* The tables agree after every step.
LEMMA NextTables ==
  ASSUME IInv, [Next]_vars
  PROVE  TablesAgree' /\ TablesSound'
<1> DEFINE Goal == TablesAgree' /\ TablesSound'
<1>1. TypeOK' /\ TypeOK
  BY NextType DEF IInv, TablesAgree
<1>2. CASE Select
  <2>1. /\ pc = "select" /\ pc' = "scan"
        /\ UNCHANGED <<files, acceptQ, inbox, peer, fds_client, master_set, global_max_fd>>
        /\ \A fd \in read_set' : fd \in master_set /\ Readable(fd)
    BY <1>2 DEF Select, netVars
  <2>2. \A fd \in master_set : fd /= SockServer /\ Readable(fd) => StreamReadable(files[fd])
    BY <2>1 DEF Readable, IInv, TablesSound
  <2> QED
    BY <1>1, <2>1, <2>2, TablesFrame DEF StreamReadable
<1>3. CASE SelectFails
  BY <1>1, <1>3, TablesFrame DEF SelectFails, netVars
<1>4. CASE EndScan
  BY <1>1, <1>4, TablesFrame DEF EndScan, netVars
<1>5. CASE Skip \/ AcceptFails
  <2>1. /\ pc = "scan" /\ pc' = "scan" /\ i' = i + 1 /\ UNCHANGED <<inbox, peer>>
        /\ UNCHANGED <<files, fds_client, master_set, global_max_fd, read_set, activity>>
    BY <1>5 DEF Skip, AcceptFails, AtListener, netVars
  <2>2. \A fd \in Fd : Unvisited(fd)' => Unvisited(fd)
    BY <1>1, <2>1 DEF Unvisited, TypeOK, Fd, SockServer
  <2> QED
    BY <1>1, <2>1, <2>2, ScanFrame DEF StreamReadable
<1>6. CASE Accept
  BY <1>1, <1>6, AcceptTables
<1>7. CASE RecvData
  <2>1. /\ InService /\ pc = "scan" /\ pc' = "reply" /\ i' = i
        /\ UNCHANGED <<files, fds_client, master_set, global_max_fd, read_set, activity, peer>>
    BY <1>7 DEF RecvData, AtRecv, InService
  <2>2. i \in master_set /\ i \in Fd /\ i /= SockServer /\ files[i] \in Clients
    BY <2>1, ServedFd
  <2>3. \A d \in Clients : d /= files[i] => inbox'[d] = inbox[d]
    BY <1>1, <1>7 DEF RecvData, TypeOK, NetTypeOK
  <2>4. ASSUME NEW fd \in Fd, Unvisited(fd)' PROVE Unvisited(fd) /\ fd /= i
    BY <2>1, <2>2, <2>4 DEF Unvisited, Fd
  <2>5. ASSUME NEW fd \in master_set, Unvisited(fd)', fd /= SockServer, StreamReadable(files[fd])
        PROVE  StreamReadable(files[fd])'
    <3>1. fd \in Fd /\ files[fd] \in Clients
      BY <1>1, <2>1, <2>5 DEF TypeOK, IInv, TablesSound
    <3>2. files[fd] /= files[i]
      BY <2>2, <2>4, <2>5, <3>1 DEF IInv, OneServerEnd
    <3> QED
      BY <2>1, <2>3, <2>5, <3>1, <3>2 DEF StreamReadable
  <2> QED
    BY <1>1, <2>1, <2>2, <2>4, <2>5, ScanFrame
<1>8. CASE RecvEnd
  <2>1. /\ InService /\ Drop(i) /\ pc' = "scan" /\ i' = i + 1 /\ acceptQ' = acceptQ
        /\ UNCHANGED <<read_set, activity, global_max_fd, peer>>
    BY <1>8 DEF RecvEnd, AtRecv, InService
  <2>2. \A d \in Clients : d /= files[i] => inbox'[d] = inbox[d]
    BY <1>1, <2>1 DEF Drop, CloseFd, TypeOK, NetTypeOK
  <2> QED
    BY <1>1, <2>1, <2>2, DropTables DEF StreamReadable
<1>9. CASE Reply
  <2>1. /\ InService /\ pc = "reply" /\ pc' = "scan" /\ i' = i + 1 /\ acceptQ' = acceptQ
        /\ UNCHANGED <<read_set, activity, global_max_fd>>
        /\ SendOk(files[i]) \/ SendFails(files[i])
    BY <1>9 DEF Reply, InService
  <2>2. i \in Fd /\ files[i] \in Clients
    BY <2>1, ServedFd
  <2>3. \A d \in Clients : peer'[d] = "up" <=> peer[d] = "up"
    BY <1>1, <2>1, <2>2, SendStreams DEF TypeOK
  <2>4. CASE Drop(i)
    <3>1. \A d \in Clients : d /= files[i] => inbox'[d] = inbox[d]
      BY <1>1, <2>4 DEF Drop, CloseFd, TypeOK, NetTypeOK
    <3> QED
      BY <1>1, <2>1, <2>3, <2>4, <3>1, DropTables DEF StreamReadable
  <2>5. CASE UNCHANGED <<files, inbox, master_set, fds_client>>
    <3>1. \A fd \in Fd : Unvisited(fd)' => Unvisited(fd)
      BY <1>1, <2>1 DEF Unvisited, TypeOK, Fd, SockServer
    <3>2. \A fd \in master_set : fd /= SockServer => files[fd] \in Clients
      BY <2>1 DEF IInv, TablesSound
    <3> QED
      BY <1>1, <2>1, <2>3, <2>5, <3>1, <3>2, ScanFrame DEF StreamReadable
  <2> QED
    BY <1>9, <2>4, <2>5 DEF Reply, KeepOrDrop
<1>10. CASE KilledBySigpipe
  BY <1>1, <1>10 DEF KilledBySigpipe, TablesAgree, TablesSound
<1>11. ASSUME NEW c \in Clients, ClientStep(c), UNCHANGED serverVars
       PROVE  Goal
  <2>1. files' = files /\ \A fd \in Fd : Unvisited(fd)' <=> Unvisited(fd)
    BY <1>11, ClientStepFiles DEF serverVars, Unvisited
  <2>2. ASSUME NEW fd \in master_set, files[fd] \in Clients, StreamReadable(files[fd])
        PROVE  StreamReadable(files[fd])'
    <3>1. Attached(files[fd])
      BY <1>1 DEF Attached, Held, TypeOK
    <3>2. ASSUME NEW d \in Clients, d = files[fd] PROVE StreamReadable(d)'
      BY <1>1, <1>11, <2>2, <3>1, <3>2, ClientReadable DEF TypeOK, IInv
    <3> QED
      BY <2>1, <2>2, <3>2 DEF StreamReadable
  <2>3. CASE pc /= "killed"
    BY <1>1, <1>11, <2>1, <2>2, <2>3, TablesFrame
    DEF serverVars, IInv, TablesAgree, TablesSound, TypeOK
  <2> QED
    BY <1>1, <1>11, <2>3 DEF serverVars, TablesAgree, TablesSound
<1>12. CASE UNCHANGED vars
  BY <1>12 DEF vars, netVars, clientVars, serverVars, IInv, TablesAgree, TablesSound,
     TypeOK, NetTypeOK, ClientTypeOK, Unvisited, StreamReadable
<1> QED
  BY <1>2, <1>3, <1>4, <1>5, <1>6, <1>7, <1>8, <1>9, <1>10, <1>11, <1>12
  DEF Next, ServerStep

---------------------------------------------------------------------------
\* The server ends and the streams stay sound: no step of this server goes
\* beyond those that every server makes.
LEMMA NextEnds ==
  ASSUME IInv, [Next]_vars
  PROVE  OneServerEnd' /\ StreamsSound'
<1> USE DEF IInv, TablesAgree, TypeOK
<1>1. CASE ServerStep
  <2>1. SocketStep /\ client' = client
    BY <1>1, ServerStepSockets DEF clientVars
  <2> QED
    BY <2>1, SocketStepSound, SocketStepStreams
<1>2. ASSUME NEW c \in Clients, ClientStep(c)
      PROVE  OneServerEnd' /\ StreamsSound'
  BY <1>2, ClientEnds, ClientStreams
<1>3. CASE UNCHANGED vars
  BY <1>3 DEF vars, netVars, clientVars, OneServerEnd, StreamsSound, Attached, Held
<1> QED
  BY <1>1, <1>2, <1>3 DEF Next

\* The exchange of every run_client goes through its stages in order.
LEMMA NextExchanges ==
  ASSUME IInv, [Next]_vars
  PROVE  ExchangesSound'
<1> SUFFICES ASSUME NEW d \in Clients, d \notin Eager
             PROVE  ExchangeOf(d, Serving(d))'
  BY DEF ExchangesSound
<1>1. ExchangeOf(d, Serving(d)) /\ Serving(d) \in BOOLEAN /\ Serving(d)' \in BOOLEAN
  BY DEF IInv, ExchangesSound, Serving
<1>2. NetTypeOK /\ ClientTypeOK /\ StreamsSound
  BY DEF IInv, TablesAgree, TypeOK
<1>3. ASSUME UNCHANGED <<outbox, peer, client>>, inbox'[d] \in {inbox[d], <<>>},
             Serving(d)' => Serving(d)
      PROVE  ExchangeOf(d, Serving(d))'
  BY <1>1, <1>3 DEF ExchangeOf
<1>4. CASE Select \/ SelectFails \/ EndScan \/ Skip \/ Accept \/ AcceptFails
  BY <1>3, <1>4 DEF Select, SelectFails, EndScan, Skip, Accept, AcceptFails, AtListener,
     netVars, clientVars, Serving
<1>5. CASE KilledBySigpipe
  BY <1>3, <1>5, CloseAllEnds DEF KilledBySigpipe, clientVars, Serving
<1>6. CASE RecvData
  <2>1. /\ InService /\ pc' = "reply" /\ UNCHANGED <<files, i, outbox, peer, client>>
        /\ \E k \in 1..Len(inbox[files[i]]) :
             inbox' = [inbox EXCEPT ![files[i]] = Remaining(files[i], k)]
    BY <1>6 DEF RecvData, InService, clientVars
  <2>2. CASE d = files[i]
    <3>1. ExchangeOf(d, TRUE)'
      BY <1>1, <1>2, <2>1, <2>2, RecvExchange
    <3>2. Serving(d)' = TRUE
      BY <2>1, <2>2 DEF Serving
    <3> QED
      BY <3>1, <3>2 DEF ExchangeOf
  <2>3. CASE d /= files[i]
    BY <1>2, <1>3, <2>1, <2>3 DEF Serving, NetTypeOK
  <2> QED
    BY <2>2, <2>3
<1>7. ASSUME Drop(i) \/ UNCHANGED <<files, inbox, master_set, fds_client>>
      PROVE  inbox'[d] \in {inbox[d], <<>>}
  BY <1>2, <1>7 DEF Drop, CloseFd, NetTypeOK
<1>8. CASE RecvEnd
  <2>1. Drop(i) /\ pc' /= "reply" /\ UNCHANGED <<outbox, peer, client>>
    BY <1>8 DEF RecvEnd, AtRecv, clientVars
  <2> QED
    BY <1>3, <1>7, <2>1 DEF Serving
<1>9. CASE Reply
  <2>1. /\ InService /\ pc = "reply" /\ pc' = "scan" /\ client' = client
        /\ SendOk(files[i]) \/ SendFails(files[i])
    BY <1>9 DEF Reply, InService, clientVars
  <2>2. files[i] \in Clients
    BY <2>1, ServedFd
  <2>3. inbox'[d] \in {inbox[d], <<>>} /\ Serving(d)' = FALSE
    BY <1>7, <1>9, <2>1 DEF Reply, KeepOrDrop, Serving
  <2>4. CASE d = files[i]
    <3>1. ExchangeOf(d, TRUE)
      BY <1>1, <2>1, <2>4 DEF Serving, ExchangeOf
    <3>2. ExchangeOf(d, FALSE)'
      BY <1>2, <2>1, <2>3, <2>4, <3>1, SendExchange
    <3> QED
      BY <2>3, <3>2 DEF ExchangeOf
  <2>5. CASE d /= files[i]
    <3>1. outbox'[d] = outbox[d] /\ peer'[d] = peer[d] /\ client'[d] = client[d]
      BY <1>2, <2>1, <2>2, <2>5, SendStreams
    <3> QED
      BY <1>1, <2>3, <3>1 DEF ExchangeOf
  <2> QED
    BY <2>4, <2>5
<1>10. ASSUME NEW c \in Clients, ClientStep(c), UNCHANGED serverVars
       PROVE  ExchangeOf(d, Serving(d))'
  <2>1. Serving(d)' = Serving(d)
    BY <1>10, ClientStepFiles DEF Serving, serverVars
  <2>2. Serving(d) => Attached(d)
    BY ServedFd DEF Serving, InService, Attached
  <2>3. ASSUME NEW s \in BOOLEAN, s = Serving(d) PROVE ExchangeOf(d, s)'
    BY <1>1, <1>2, <1>10, <2>2, <2>3, ClientExchange
  <2> QED
    BY <1>1, <2>1, <2>3 DEF ExchangeOf
<1>11. CASE UNCHANGED vars
  BY <1>3, <1>11 DEF vars, netVars, clientVars, serverVars, Serving
<1> QED
  BY <1>4, <1>5, <1>6, <1>8, <1>9, <1>10, <1>11 DEF Next, ServerStep

\* What a client waits for stays in one of its three places.
LEMMA NextAnswers ==
  ASSUME IInv, [Next]_vars
  PROVE  AnswersDue'
<1> SUFFICES ASSUME NEW d \in Clients PROVE AnswerDue(d, Serving(d))'
  BY DEF AnswersDue
<1>1. AnswerDue(d, Serving(d)) /\ Serving(d) \in BOOLEAN /\ Serving(d)' \in BOOLEAN
  BY DEF IInv, AnswersDue, Serving
<1>2. NetTypeOK /\ ClientTypeOK /\ StreamsSound /\ OneServerEnd
  BY DEF IInv, TablesAgree, TypeOK
<1>3. ASSUME client'[d] = client[d], last'[d] = last[d],
             Attached(d)' => Attached(d) /\ inbox'[d] = inbox[d] /\ outbox'[d] = outbox[d],
             Attached(d)' /\ Serving(d) => Serving(d)'
      PROVE  AnswerDue(d, Serving(d))'
  BY <1>1, <1>3 DEF AnswerDue
<1>4. CASE Select \/ SelectFails \/ EndScan \/ Skip \/ AcceptFails
  <2>1. UNCHANGED <<netVars, clientVars>> /\ pc /= "reply"
    BY <1>4 DEF Select, SelectFails, EndScan, Skip, AcceptFails, AtListener
  <2> QED
    BY <1>3, <2>1 DEF netVars, clientVars, Serving, Attached, Held
<1>5. CASE KilledBySigpipe
  BY <1>5, CloseAllEnds DEF KilledBySigpipe, AnswerDue
<1>6. CASE Accept
  <2>1. UNCHANGED <<inbox, outbox, client, last>> /\ pc /= "reply"
    BY <1>6 DEF Accept, AtListener, clientVars
  <2>2. Attached(d)' <=> Attached(d)
    BY <1>2, <1>6, AcceptEnds DEF Accept, LowestFree
  <2> QED
    BY <1>3, <2>1, <2>2 DEF Serving
<1>7. CASE RecvData
  <2>1. /\ InService /\ pc' = "reply" /\ pc = "scan"
        /\ UNCHANGED <<files, acceptQ, i, outbox, client, last>>
        /\ \E k \in 1..Len(inbox[files[i]]) :
             inbox' = [inbox EXCEPT ![files[i]] = Remaining(files[i], k)]
    BY <1>7 DEF RecvData, AtRecv, InService, clientVars
  <2>2. CASE d = files[i]
    BY <2>1, <2>2 DEF AnswerDue, Serving
  <2>3. CASE d /= files[i]
    BY <1>2, <1>3, <2>1, <2>3 DEF Serving, Attached, Held, NetTypeOK
  <2> QED
    BY <2>2, <2>3
<1>8. ASSUME InService, Drop(i), acceptQ' = acceptQ
      PROVE  /\ d = files[i] => ~Attached(d)'
             /\ d /= files[i] => inbox'[d] = inbox[d] /\ (Attached(d)' <=> Attached(d))
  BY <1>2, <1>8, ServedFd, CloseFdEnds DEF Drop
<1>9. CASE RecvEnd
  <2>1. /\ InService /\ Drop(i) /\ pc = "scan" /\ UNCHANGED <<acceptQ, outbox, client, last>>
    BY <1>9 DEF RecvEnd, AtRecv, InService, clientVars
  <2>2. CASE d = files[i]
    BY <1>8, <2>1, <2>2 DEF AnswerDue
  <2>3. CASE d /= files[i]
    BY <1>3, <1>8, <2>1, <2>3 DEF Serving
  <2> QED
    BY <2>2, <2>3
<1>10. CASE Reply
  <2>1. /\ InService /\ pc = "reply" /\ pc' = "scan" /\ files[i] \in Clients
        /\ UNCHANGED <<acceptQ, client, last>>
        /\ SendOk(files[i]) \/ SendFails(files[i])
        /\ Drop(i) \/ UNCHANGED <<files, inbox>>
    BY <1>10, ServedFd DEF Reply, KeepOrDrop, InService, clientVars
  <2>2. CASE d = files[i]
    <3>1. AnswerDue(d, FALSE)'
      BY <1>2, <2>1, <2>2, SendDue
    <3> QED
      BY <3>1 DEF AnswerDue
  <2>3. CASE d /= files[i]
    <3>1. outbox'[d] = outbox[d] /\ ~Serving(d)
      BY <1>2, <2>1, <2>3, SendStreams DEF Serving
    <3>2. inbox'[d] = inbox[d] /\ (Attached(d)' <=> Attached(d))
      BY <1>8, <2>1, <2>3 DEF Attached, Held
    <3> QED
      BY <1>3, <2>1, <3>1, <3>2
  <2> QED
    BY <2>2, <2>3
<1>11. ASSUME NEW c \in Clients, ClientStep(c), UNCHANGED serverVars
       PROVE  AnswerDue(d, Serving(d))'
  <2>1. Serving(d)' = Serving(d)
    BY <1>11, ClientStepFiles DEF Serving, serverVars
  <2>2. ASSUME NEW s \in BOOLEAN, s = Serving(d) PROVE AnswerDue(d, s)'
    BY <1>1, <1>2, <1>11, <2>2, ClientDue
  <2> QED
    BY <1>1, <2>1, <2>2 DEF AnswerDue
<1>12. CASE UNCHANGED vars
  BY <1>3, <1>12 DEF vars, netVars, clientVars, serverVars, Serving, Attached, Held
<1> QED
  BY <1>4, <1>5, <1>6, <1>7, <1>9, <1>10, <1>11, <1>12 DEF Next, ServerStep

---------------------------------------------------------------------------
\* The invariant holds in every reachable state, for every number of clients,
\* descriptors and entries, whether or not select() can fail.
THEOREM Invariance == Spec => []IInv
<1>1. Init => IInv
  BY InitIInv
<1>2. IInv /\ [Next]_vars => IInv'
  <2> SUFFICES ASSUME IInv, [Next]_vars PROVE IInv'
    OBVIOUS
  <2> QED
    BY NextTables, NextEnds, NextExchanges, NextAnswers DEF IInv
<1> QED
  BY <1>1, <1>2, PTL DEF Spec

\* fds_client, master_set and the descriptor table never disagree: no entry
\* is stored twice, no closed descriptor is monitored, and no readiness bit
\* outlives its descriptor.
THEOREM TablesAlwaysAgree == Spec => []TablesAgree
<1>1. IInv => TablesAgree
  BY DEF IInv
<1> QED
  BY <1>1, Invariance, PTL

\* No client stops the loop: recv() is called on readable connections only,
\* and no run_client makes send() raise SIGPIPE.
THEOREM LoopAlwaysGoesOn == Spec => []LoopGoesOn
<1>1. IInv => LoopGoesOn
  <2> SUFFICES ASSUME IInv PROVE LoopGoesOn
    OBVIOUS
  <2>1. AtRecv /\ activity /= -1 => StreamReadable(files[i])
    BY ServedFd DEF IInv, TablesSound, AtRecv, InService, Unvisited
  <2>2. ASSUME NEW c \in Clients \ Eager, Serving(c) PROVE peer[c] /= "broken"
    <3>1. Serving(c) = TRUE
      BY <2>2 DEF Serving
    <3> QED
      BY <3>1 DEF IInv, ExchangesSound, ExchangeOf
  <2> QED
    BY <2>1, <2>2 DEF LoopGoesOn, SendRaisesSigpipe
<1> QED
  BY <1>1, Invariance, PTL

\* On a connection of run_client there is at most one command or reply under
\* way, whatever the other clients are and do, and there is one while a client
\* waits for the answer to a line.
THEOREM ExchangesOneAtATime == Spec => []OneExchange
<1>1. IInv => OneExchange
  <2> SUFFICES ASSUME IInv, NEW c \in Clients
               PROVE  LET underWay == Len(inbox[c]) + outbox[c] + (IF Serving(c) THEN 1 ELSE 0)
                      IN  /\ c \notin Eager => underWay <= 1
                          /\ c \notin Eager /\ underWay = 1 => client[c] \in {"waiting", "done"}
                          /\ client[c] = "waiting" /\ last[c] /= "" /\ Attached(c)
                               => underWay >= 1
    BY DEF OneExchange
  <2>1. /\ c \notin Eager => ExchangeOf(c, Serving(c))
        /\ AnswerDue(c, Serving(c)) /\ Serving(c) \in BOOLEAN
        /\ NetTypeOK /\ ClientTypeOK
    BY DEF IInv, ExchangesSound, AnswersDue, Serving, TablesAgree, TypeOK
  <2> QED
    BY <2>1, ExchangeCount
<1> QED
  BY <1>1, Invariance, PTL

---------------------------------------------------------------------------
\* The refinement.  What the server takes up next is monitored, and ready
\* unless select() has failed.
LEMMA TakenUp ==
  IInv /\ pc /= "reply" => busy = "listener" \/ (busy \in monitored /\ (blind \/ busy \in ready))
<1> SUFFICES ASSUME IInv, AtRecv PROVE busy \in monitored /\ (blind \/ busy \in ready)
  BY DEF busy, InService
<1>1. /\ busy = files[i] /\ files[i] \in Clients /\ Held(files[i])
      /\ pc /= "killed" /\ i \in master_set
  BY ServedFd DEF busy, InService
<1>2. blind \/ StreamReadable(files[i])
  BY DEF IInv, TablesSound, AtRecv, Unvisited, blind
<1> QED
  BY <1>1, <1>2 DEF monitored, Watched, ready, Attached

\* The same after a step: the connection in service then was ready.
LEMMA TakesUpNext == IInv' /\ pc' /= "reply" => Loop!TakesUp
<1>1. (IInv /\ pc /= "reply"
         => busy = "listener" \/ (busy \in monitored /\ (blind \/ busy \in ready)))'
  BY TakenUp, PTL
<1> QED
  BY <1>1 DEF Loop!TakesUp

\* The connections that the server watches after a step.
LEMMA WatchedFrame ==
  ASSUME UNCHANGED <<files, pc, master_set>> \/ (UNCHANGED <<files, master_set>> /\ pc /= "killed" /\ pc' /= "killed")
  PROVE  monitored' = monitored
BY DEF monitored, Watched

\* A connection that is dropped, and no other, is no longer monitored.
LEMMA DropImplements ==
  ASSUME IInv, InService, Drop(i), acceptQ' = acceptQ, pc' = "scan",
         \A d \in Clients : peer'[d] = "up" <=> peer[d] = "up"
  PROVE  monitored' = monitored \ {busy} /\ ready' \in {ready, ready \ {busy}}
<1>1. /\ i \in Fd /\ files[i] \in Clients /\ busy = files[i] /\ i \in master_set
      /\ pc /= "killed" /\ master_set \subseteq Fd /\ NetTypeOK /\ OneServerEnd
  BY ServedFd DEF busy, IInv, TablesAgree, TypeOK
<1>2. PICK b \in Clients : b = files[i]
  BY <1>1
<1>3. /\ files'[i] = "free" /\ \A g \in Fd : g /= i => files'[g] = files[g]
      /\ ~Attached(b)'
      /\ \A d \in Clients : d /= b => inbox'[d] = inbox[d] /\ (Attached(d)' <=> Attached(d))
  BY <1>1, <1>2, CloseFdEnds DEF Drop
<1>4. master_set' = master_set \ {i}
  BY DEF Drop
<1>5. \A d \in Clients : Watched(d)' <=> Watched(d) /\ d /= b
  <2>1. ASSUME NEW d \in Clients, NEW fd \in master_set', files'[fd] = d
        PROVE  Watched(d) /\ d /= b
    BY <1>1, <1>3, <1>4, <1>2, <2>1 DEF Watched, OneServerEnd
  <2>2. ASSUME NEW d \in Clients, NEW fd \in master_set, files[fd] = d, d /= b
        PROVE  Watched(d)'
    <3>1. fd \in master_set' /\ files'[fd] = d
      BY <1>1, <1>3, <1>4, <1>2, <2>2
    <3> QED
      BY <3>1 DEF Watched
  <2> QED
    BY <2>1, <2>2 DEF Watched
<1>6. monitored' = monitored \ {b}
  BY <1>1, <1>5 DEF monitored
<1>7. ready' = ready \ {b}
  BY <1>3 DEF ready, StreamReadable
<1> QED
  BY <1>1, <1>6, <1>7, <1>2

\* Every step of the server or of a client is a step of the event loop.
LEMMA NextImplements ==
  ASSUME IInv, IInv', [Next]_vars
  PROVE  [Loop!Next]_(Loop!evars)
<1> USE DEF pending
<1>1. /\ NetTypeOK /\ ClientTypeOK /\ StreamsSound
      /\ \A fd \in Fd : files[fd] /= "listener" \/ files[fd] \notin Clients
  BY DEF IInv, TablesAgree, TypeOK
<1>2. ASSUME UNCHANGED netVars PROVE ready' = ready
  BY <1>2 DEF netVars, ready, Attached, Held, StreamReadable
<1>3. CASE Select \/ SelectFails
  <2>1. busy = "listener" /\ UNCHANGED <<netVars, master_set>> /\ pc = "select" /\ pc' = "scan"
    BY <1>3 DEF Select, SelectFails, busy, InService, AtRecv
  <2>2. UNCHANGED <<pending, monitored, ready>>
    BY <1>2, <2>1, WatchedFrame DEF netVars
  <2>3. Loop!Wait
    BY <2>1, <2>2, TakesUpNext DEF Loop!Wait, blind
  <2> QED
    BY <2>3 DEF Loop!Next
<1>4. CASE EndScan \/ Skip \/ AcceptFails
  <2>1. /\ busy = "listener" /\ UNCHANGED <<netVars, master_set, activity>>
        /\ pc = "scan" /\ pc' \in {"scan", "select"}
    <3>1. ~AtRecv /\ pc = "scan"
      BY <1>4 DEF EndScan, Skip, AcceptFails, AtListener, AtRecv, IInv, TablesAgree, TypeOK, Fd, SockServer
    <3> QED
      BY <1>4, <3>1 DEF EndScan, Skip, AcceptFails, busy, InService
  <2>2. UNCHANGED <<pending, monitored, ready, blind>>
    BY <1>2, <2>1, WatchedFrame DEF netVars, blind
  <2>3. Loop!Choose
    BY <2>1, <2>2, TakesUpNext DEF Loop!Choose
  <2> QED
    BY <2>3 DEF Loop!Next
<1>5. CASE Accept
  <2>1. PICK c \in acceptQ, fd \in Fd :
          /\ files[fd] = "free"
          /\ files' = [files EXCEPT ![fd] = c]
          /\ acceptQ' = acceptQ \ {c}
          /\ StoreConnection(fd)
    BY <1>5 DEF Accept, LowestFree
  <2>2. /\ pc = "scan" /\ pc' = "scan" /\ busy = "listener"
        /\ UNCHANGED <<peer, inbox, blind>>
    BY <1>5 DEF Accept, AtListener, busy, InService, AtRecv, blind
  <2>3. c \in Clients /\ master_set \subseteq Fd /\ fd \notin master_set
    BY <1>1, <2>1, <2>2 DEF NetTypeOK, IInv, TablesAgree, TypeOK
  <2>4. files'[fd] = c /\ \A g \in Fd : g /= fd => files'[g] = files[g]
    BY <1>1, <2>1 DEF NetTypeOK
  <2>5. monitored' \in {monitored, monitored \cup {c}}
    <3>1. master_set' = master_set \/ master_set' = master_set \cup {fd}
      BY <2>1 DEF StoreConnection
    <3>2. CASE master_set' = master_set
      BY <2>2, <2>3, <2>4, <3>2 DEF monitored, Watched
    <3>3. CASE master_set' = master_set \cup {fd}
      BY <2>2, <2>3, <2>4, <3>3 DEF monitored, Watched
    <3> QED
      BY <3>1, <3>2, <3>3
  <2>6. ready' = ready
    <3>1. \A d \in Clients : Attached(d)' <=> Attached(d)
      BY <1>1, <2>1, AcceptEnds DEF IInv
    <3> QED
      BY <2>2, <3>1 DEF ready, StreamReadable
  <2>7. Loop!Admit(c)
    BY <2>1, <2>2, <2>5, <2>6, TakesUpNext DEF Loop!Admit
  <2> QED
    BY <2>3, <2>7 DEF Loop!Next
<1>6. CASE RecvData
  <2>1. /\ InService /\ pc = "scan" /\ pc' = "reply" /\ UNCHANGED <<files, i, acceptQ, peer, blind, master_set>>
        /\ \E k \in 1..Len(inbox[files[i]]) :
             inbox' = [inbox EXCEPT ![files[i]] = Remaining(files[i], k)]
    BY <1>6 DEF RecvData, AtRecv, InService, blind
  <2>2. busy = files[i] /\ busy' = files[i] /\ files[i] \in Clients /\ InService'
    BY <2>1, ServedFd DEF busy, InService
  <2>3. inbox[files[i]] /= <<>> /\ \A d \in Clients : d /= files[i] => inbox'[d] = inbox[d]
    BY <1>1, <2>1, <2>2, RemainingQueue DEF NetTypeOK
  <2>4. ready' \in {ready, ready \ {files[i]}}
    <3>1. \A d \in Clients : Attached(d)' <=> Attached(d)
      BY <2>1 DEF Attached, Held
    <3>2. \A d \in Clients : d /= files[i] => (StreamReadable(d)' <=> StreamReadable(d))
      BY <2>1, <2>3 DEF StreamReadable
    <3>3. StreamReadable(files[i])
      BY <2>3 DEF StreamReadable
    <3>4. CASE inbox'[files[i]] /= <<>> \/ peer[files[i]] /= "up"
      BY <2>1, <2>2, <3>1, <3>2, <3>3, <3>4 DEF ready, StreamReadable
    <3>5. CASE ~(inbox'[files[i]] /= <<>> \/ peer[files[i]] /= "up")
      BY <2>1, <2>2, <3>1, <3>2, <3>3, <3>5 DEF ready, StreamReadable
    <3> QED
      BY <3>4, <3>5
  <2>5. Loop!Consume
    BY <2>1, <2>2, <2>4, WatchedFrame DEF Loop!Consume
  <2> QED
    BY <2>5 DEF Loop!Next
<1>7. CASE RecvEnd \/ Reply
  <2>1. /\ InService /\ pc' = "scan" /\ acceptQ' = acceptQ /\ blind' = blind
        /\ Drop(i) \/ UNCHANGED <<files, inbox, master_set>>
        /\ peer' = peer \/ SendOk(files[i]) \/ SendFails(files[i])
    BY <1>7 DEF RecvEnd, Reply, KeepOrDrop, AtRecv, InService, blind
  <2>2. busy = files[i] /\ files[i] \in Clients /\ pc /= "killed"
    BY <2>1, ServedFd DEF busy
  <2>3. \A d \in Clients : peer'[d] = "up" <=> peer[d] = "up"
    BY <1>1, <2>1, <2>2, SendStreams
  <2>4. CASE UNCHANGED <<files, inbox, master_set>>
    <3>1. UNCHANGED <<monitored, ready>>
      BY <2>1, <2>2, <2>3, <2>4, WatchedFrame DEF ready, Attached, Held, StreamReadable
    <3>2. Loop!Finish
      BY <2>1, <2>2, <3>1, TakesUpNext DEF Loop!Finish
    <3> QED
      BY <3>2 DEF Loop!Next
  <2>5. CASE Drop(i)
    <3>1. Loop!Finish
      BY <2>1, <2>2, <2>3, <2>5, DropImplements, TakesUpNext DEF Loop!Finish
    <3> QED
      BY <3>1 DEF Loop!Next
  <2> QED
    BY <2>1, <2>4, <2>5
<1>8. CASE KilledBySigpipe
  <2>1. pc' = "killed" /\ CloseAll /\ blind' = blind
    BY <1>8 DEF KilledBySigpipe, blind
  <2>2. pending' = {} /\ monitored' = {} /\ busy' = "listener" /\ ready' \subseteq ready
    BY <2>1, CloseAllEnds DEF CloseAll, monitored, busy, InService, AtRecv, ready
  <2> QED
    BY <2>1, <2>2 DEF Loop!Next, Loop!Stop
<1>9. ASSUME NEW c \in Clients, ClientStep(c), UNCHANGED serverVars
      PROVE  Loop!Environment
  <2>1. files' = files /\ UNCHANGED <<pc, master_set, activity, i, read_set, global_max_fd>>
    BY <1>9, ClientStepFiles DEF serverVars
  <2>2. UNCHANGED <<monitored, busy, blind>>
    BY <2>1 DEF monitored, Watched, busy, InService, AtRecv, blind
  <2>3. acceptQ \subseteq acceptQ'
    BY <1>1, <1>9, ClientAttaches
  <2>4. ready \subseteq ready'
    BY <1>1, <1>9, ClientAttaches, ClientReadable DEF ready
  <2> QED
    BY <2>2, <2>3, <2>4 DEF Loop!Environment
<1>10. CASE UNCHANGED vars
  BY <1>2, <1>10 DEF vars, netVars, serverVars, Loop!evars, monitored, Watched, busy, InService,
     AtRecv, blind
<1> QED
  BY <1>3, <1>4, <1>5, <1>6, <1>7, <1>8, <1>9, <1>10 DEF Next, ServerStep, Loop!Next

\* The server is an event loop: it works on one monitored connection at a time
\* and takes one up only when it is ready, so that no idle client holds it up.
THEOREM ImplementsLoop == Spec => ImplementsEventLoop
<1>1. Init => Loop!Init
  <2> SUFFICES ASSUME Init PROVE Loop!Init
    OBVIOUS
  <2>1. /\ NetInit /\ ClientInit /\ pc = "select" /\ activity = 1
        /\ master_set = {SockServer}
    BY DEF Init
  <2>2. ready = {} /\ acceptQ = {}
    BY <2>1, ClientInitSound DEF ready, NetInit
  <2>3. files[SockServer] = "listener"
    <3>1. SockServer \in Fd
      BY DEF Fd, SockServer
    <3> QED
      BY <2>1, <3>1 DEF NetInit
  <2>4. monitored = {}
    BY <2>1, <2>3 DEF monitored, Watched
  <2>5. busy = "listener" /\ blind = FALSE
    BY <2>1 DEF busy, InService, AtRecv, blind
  <2> QED
    BY <2>2, <2>4, <2>5 DEF Loop!Init, pending
<1>2. IInv /\ IInv' /\ [Next]_vars => [Loop!Next]_(Loop!evars)
  BY NextImplements
<1> QED
  BY <1>1, <1>2, Invariance, PTL DEF Spec, ImplementsEventLoop, Loop!Spec
=============================================================================
