---------------------------- MODULE SelectServer ----------------------------
(* The select() server of                                                  *)
(* 00_tutorials/12_multiplexing_select_client_server.c, from the start of  *)
(* its loop, with its clients.  One action per system call, as in          *)
(* PollServer.  The scan starts at the listening socket: the descriptors   *)
(* 0, 1 and 2 are never in a set.                                          *)
EXTENDS CommandClient

CONSTANTS
  MaxConnection,  \* MAX_CONNECTION, the length of fds_client
  MayFail         \* TRUE: select(), and accept() for want of memory, may also fail

ASSUME SelectAssumption ==
  /\ MaxConnection \in Nat \ {0}
  /\ MayFail \in BOOLEAN

VARIABLES
  pc,          \* the call the server is about to make, or how it ended
  fds_client,  \* the clients' descriptors; 0 marks an unused entry
  master_set,  \* descriptors to monitor
  read_set,    \* what select() made of its copy of master_set
  activity,    \* what select() returned: -1, or a count that is not looked at
  global_max_fd,
  i,           \* the descriptor the scan is at
  request      \* request_buffer

serverVars == <<pc, fds_client, master_set, read_set, activity, global_max_fd, i, request>>
vars == <<netVars, clientVars, serverVars>>

Entries == 0..(MaxConnection - 1)

TypeOK ==
  /\ NetTypeOK
  /\ ClientTypeOK
  /\ pc \in {"select", "scan", "reply", "killed"}
  /\ fds_client \in [Entries -> Fd \cup {0}]
  /\ master_set \subseteq Fd
  /\ read_set \subseteq Fd
  /\ activity \in {-1, 1}
  /\ global_max_fd \in Fd
  /\ i \in SockServer..(MaxFd + 1)
  /\ request \in Commands

Init ==
  /\ NetInit
  /\ ClientInit
  /\ pc = "select"
  /\ fds_client = [e \in Entries |-> 0]
  /\ master_set = {SockServer}
  /\ read_set = {}
  /\ activity = 1
  /\ global_max_fd = SockServer
  /\ i = SockServer
  /\ request = ""

---------------------------------------------------------------------------
\* Variant: the scan tests master_set in place of read_set.
SelectUnused ==
  /\ pc = "select"
  /\ \E fd \in master_set : fd <= global_max_fd /\ Readable(fd)
  /\ read_set' = master_set
  /\ activity' = 1
  /\ pc' = "scan"
  /\ i'  = SockServer
  /\ UNCHANGED <<netVars, clientVars, fds_client, master_set, global_max_fd, request>>

Select ==
  /\ pc = "select"
  /\ read_set' = {fd \in master_set : fd <= global_max_fd /\ Readable(fd)}
  /\ read_set' /= {}
  /\ activity' = 1
  /\ pc' = "scan"
  /\ i'  = SockServer
  /\ UNCHANGED <<netVars, clientVars, fds_client, master_set, global_max_fd, request>>

\* The failure is reported, and the scan runs over the whole copy.
SelectFails ==
  /\ pc = "select"
  /\ MayFail
  /\ read_set' = master_set
  /\ activity' = -1
  /\ pc' = "scan"
  /\ i'  = SockServer
  /\ UNCHANGED <<netVars, clientVars, fds_client, master_set, global_max_fd, request>>

\* Variant: "fd < global_max_fd" in the loop over the descriptors.
EndScanEarly ==
  /\ pc = "scan"
  /\ i >= global_max_fd
  /\ pc' = "select"
  /\ UNCHANGED <<netVars, clientVars, fds_client, master_set, read_set,
                 global_max_fd, i, request, activity>>

EndScan ==
  /\ pc = "scan"
  /\ i > global_max_fd
  /\ pc' = "select"
  /\ UNCHANGED <<netVars, clientVars, fds_client, master_set, read_set,
                 global_max_fd, i, request, activity>>

Skip ==
  /\ pc = "scan"
  /\ i <= global_max_fd
  /\ i \notin read_set
  /\ i' = i + 1
  /\ UNCHANGED <<netVars, clientVars, pc, fds_client, master_set, read_set,
                 global_max_fd, request, activity>>

\* Variant: the newest client takes the entry of another when none is unused.
StoreEvicting(fd) ==
  LET e == IF \E f \in Entries : fds_client[f] = 0
           THEN CHOOSE f \in Entries : fds_client[f] = 0 ELSE 0
  IN  /\ fds_client' = [fds_client EXCEPT ![e] = fd]
      /\ master_set' = (master_set \ {fds_client[e]}) \cup {fd}
      /\ global_max_fd' = IF fd > global_max_fd THEN fd ELSE global_max_fd
\* The first unused entry of fds_client; without one the descriptor is lost.
StoreConnection(fd) ==
  \/ \E e \in Entries :
       /\ fds_client[e] = 0
       /\ \A f \in Entries : f < e => fds_client[f] /= 0
       /\ fds_client' = [fds_client EXCEPT ![e] = fd]
       /\ master_set' = master_set \cup {fd}
       /\ global_max_fd' = IF fd > global_max_fd THEN fd ELSE global_max_fd
  \/ /\ \A e \in Entries : fds_client[e] /= 0
     /\ UNCHANGED <<fds_client, master_set, global_max_fd>>

AtListener == pc = "scan" /\ i <= global_max_fd /\ i \in read_set /\ i = SockServer

Accept ==
  /\ AtListener
  /\ \E c \in acceptQ, fd \in Fd :
       /\ LowestFree(fd)
       /\ files'   = [files EXCEPT ![fd] = c]
       /\ acceptQ' = acceptQ \ {c}
       /\ StoreConnection(fd)
  /\ i' = i + 1
  /\ UNCHANGED <<peer, inbox, outbox, clientVars, pc, read_set, request, activity>>

\* No descriptor or memory left, or (the socket does not block) no connection waiting.
AcceptFails ==
  /\ AtListener
  /\ NoFreeFd \/ MayFail \/ acceptQ = {}
  /\ i' = i + 1
  /\ UNCHANGED <<netVars, clientVars, pc, fds_client, master_set, read_set,
                 global_max_fd, request, activity>>

\* Variant: FD_CLR() is forgotten.
DropWithoutClear(fd) ==
  /\ CloseFd(fd)
  /\ fds_client' =
       [e \in Entries |-> IF fds_client[e] = fd THEN 0 ELSE fds_client[e]]
  /\ UNCHANGED master_set

\* close(), FD_CLR(), and the first entry with this descriptor is cleared.
Drop(fd) ==
  /\ CloseFd(fd)
  /\ master_set' = master_set \ {fd}
  /\ fds_client' =
       [e \in Entries |->
         IF fds_client[e] = fd /\ \A f \in Entries : f < e => fds_client[f] /= fd
         THEN 0 ELSE fds_client[e]]

AtRecv == pc = "scan" /\ i <= global_max_fd /\ i \in read_set /\ i /= SockServer

RecvData ==
  /\ AtRecv
  /\ LET c == files[i] IN
     \E k \in 1..Len(inbox[c]) :
       /\ request' = Received(c, k)
       /\ inbox'   = [inbox EXCEPT ![c] = Remaining(c, k)]
  /\ pc' = "reply"
  /\ UNCHANGED <<files, acceptQ, peer, outbox, clientVars, fds_client, master_set,
                 read_set, global_max_fd, i, activity>>

RecvEnd ==
  /\ AtRecv
  /\ inbox[files[i]] = <<>>
  /\ peer[files[i]] /= "up"
  /\ Drop(i)
  /\ i' = i + 1
  /\ UNCHANGED <<acceptQ, peer, outbox, clientVars, pc, read_set, global_max_fd, request, activity>>

Disconnects(m) == m \in {"quit", "exit"}

KeepOrDrop(keep) ==
  IF keep THEN UNCHANGED <<files, inbox, master_set, fds_client>> ELSE Drop(i)

Reply ==
  /\ pc = "reply"
  /\ \/ SendOk(files[i]) /\ KeepOrDrop(~Disconnects(request))
     \/ SendFails(files[i]) /\ KeepOrDrop(FALSE)
  /\ pc' = "scan"
  /\ i'  = i + 1
  /\ UNCHANGED <<acceptQ, clientVars, read_set, global_max_fd, request, activity>>

KilledBySigpipe ==
  /\ pc = "reply"
  /\ SendRaisesSigpipe(files[i])
  /\ pc' = "killed"
  /\ CloseAll
  /\ UNCHANGED <<peer, outbox, clientVars, fds_client, master_set, read_set,
                 global_max_fd, i, request, activity>>

ServerStep ==
  \/ Select \/ SelectFails
  \/ Accept \/ AcceptFails
  \/ Skip \/ EndScan
  \/ RecvData \/ RecvEnd
  \/ Reply \/ KilledBySigpipe

Next ==
  \/ ServerStep
  \/ \E c \in Clients : ClientStep(c) /\ UNCHANGED serverVars

Spec == Init /\ [][Next]_vars

\* The scheduler runs the server while it is not blocked.
FairSpec == Spec /\ WF_vars(ServerStep) /\ ClientFairness

---------------------------------------------------------------------------
Serving(c) == pc = "reply" /\ files[i] = c
Watched(c) == \E fd \in master_set : files[fd] = c

\* The descriptors that the scan has not reached yet.
Unvisited(fd) == fd > i \/ (pc = "scan" /\ fd = i)

\* fds_client, master_set and the descriptor table tell the same story, every
\* monitored descriptor is in the range select() looks at, and a readiness bit
\* that the scan has not reached yet belongs to a descriptor still open.
TablesAgree ==
  TypeOK /\
  (pc /= "killed" =>
    /\ files[SockServer] = "listener"
    /\ master_set \ {SockServer} = {fds_client[e] : e \in Entries} \ {0}
    /\ \A e, f \in Entries :
         e /= f /\ fds_client[e] = fds_client[f] => fds_client[e] = 0
    /\ \A fd \in master_set : fd <= global_max_fd /\ files[fd] /= "free"
    /\ pc /= "select" =>
         \A fd \in read_set : Unvisited(fd) => fd \in master_set)

\* One exchange at a time on a connection of run_client: a command on its
\* way, in service, or answered and unread, never two; and one while a client
\* waits for the answer to a line, unless its server end is gone.
OneExchange ==
  \A c \in Clients :
    LET underWay == Len(inbox[c]) + outbox[c] + (IF Serving(c) THEN 1 ELSE 0)
    IN  /\ c \notin Eager => underWay <= 1
        /\ c \notin Eager /\ underWay = 1 => client[c] \in {"waiting", "done"}
        /\ client[c] = "waiting" /\ last[c] /= "" /\ Attached(c) => underWay >= 1

\* No client stops the loop: recv() is called on a readable client ("data can
\* be read from it"), as long as select() does not fail; and send() never
\* raises SIGPIPE on the connection of a run_client, whenever that client dies.
LoopGoesOn ==
  /\ AtRecv /\ activity /= -1 => StreamReadable(files[i])
  /\ \A c \in Clients \ Eager : Serving(c) => ~SendRaisesSigpipe(c)

\* Every accepted connection is monitored.
AcceptedIsMonitored == \A c \in Clients : Held(c) => Watched(c)

\* "Sends user input to the server and waits for a response": the wait ends.
WaitingEnds == \A c \in Clients : client[c] = "waiting" ~> client[c] /= "waiting"

\* The same for a client that is monitored and has put a command on the wire,
\* although the other clients stay and keep silent: an empty line puts none.
CommandsAreAnswered ==
  \A c \in Clients :
    (client[c] = "waiting" /\ last[c] /= "" /\ Watched(c)) ~> (client[c] /= "waiting")

\* The event loop that this server implements.
pending   == acceptQ
monitored == {c \in Clients : pc /= "killed" /\ Watched(c)}
ready     == {c \in Clients : Attached(c) /\ StreamReadable(c)}
InService == AtRecv \/ pc = "reply"
busy      == IF InService THEN files[i] ELSE "listener"
blind     == activity = -1
Loop == INSTANCE EventLoop WITH Connections <- Clients, None <- "listener"

ImplementsEventLoop == Loop!Spec
=============================================================================
