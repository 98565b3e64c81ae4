---------------------------- MODULE ThreadServer ----------------------------
(* 00_tutorials/09_multithread_client_server.c: the main thread accepts    *)
(* connections, passes the descriptor of each in a heap cell of its own to *)
(* a detached thread, and that thread serves the client until it leaves.   *)
(* One action per system or library call, in every thread.                 *)
EXTENDS CommandClient

CONSTANTS
  Threads,   \* the threads pthread_create() can start
  Cells,     \* the heap cells calloc() can return
  MayFail    \* TRUE: calloc() and pthread_create() may also fail

ASSUME ThreadAssumption == MayFail \in BOOLEAN

VARIABLES
  mpc,       \* the call the main thread is about to make
  sock_client,   \* its local variable
  p_sock_client, \* the cell it has just allocated
  heap,      \* the int in each allocated cell; 0 for a free one
  tpc,       \* the call each thread is about to make
  arg,       \* the cell each thread was given
  request,   \* its request_buffer
  owner      \* the connection each thread was started for (history)

mainVars   == <<mpc, sock_client, p_sock_client>>
threadVars == <<tpc, arg, request, owner>>
serverVars == <<mainVars, heap, threadVars>>
vars == <<netVars, clientVars, serverVars>>

TypeOK ==
  /\ NetTypeOK
  /\ ClientTypeOK
  /\ mpc \in {"accept", "calloc", "create", "killed"}
  /\ sock_client \in Fd \cup {0}
  /\ p_sock_client \in Cells
  /\ heap \in [Cells -> Fd \cup {0}]
  /\ tpc \in [Threads -> {"idle", "recv", "send", "close", "free"}]
  /\ arg \in [Threads -> Cells]
  /\ request \in [Threads -> Commands]
  /\ owner \in [Threads -> Clients \cup {"free", "listener"}]

Init ==
  /\ NetInit
  /\ ClientInit
  /\ mpc = "accept"
  /\ sock_client = 0
  /\ p_sock_client \in Cells
  /\ heap = [x \in Cells |-> 0]
  /\ tpc = [t \in Threads |-> "idle"]
  /\ arg = [t \in Threads |-> p_sock_client]
  /\ request = [t \in Threads |-> ""]
  /\ owner = [t \in Threads |-> "free"]

Live(t) == tpc[t] /= "idle"

\* What *sock_client refers to when thread t reads it.
FdOf(t)   == heap[arg[t]]
ConnOf(t) == files[FdOf(t)]

---------------------------------------------------------------------------
\* Variant: the main thread joins each client thread in place of detaching it.
AcceptAfterJoin ==
  /\ mpc = "accept"
  /\ \A t \in Threads : ~Live(t)
  /\ \E c \in acceptQ, fd \in Fd :
       /\ LowestFree(fd)
       /\ files'   = [files EXCEPT ![fd] = c]
       /\ acceptQ' = acceptQ \ {c}
       /\ sock_client' = fd
  /\ mpc' = "calloc"
  /\ UNCHANGED <<peer, inbox, outbox, clientVars, p_sock_client, heap, threadVars>>

\* The main thread.  When no descriptor is left accept() fails and the loop
\* tries again: a step that changes nothing.
Accept ==
  /\ mpc = "accept"
  /\ \E c \in acceptQ, fd \in Fd :
       /\ LowestFree(fd)
       /\ files'   = [files EXCEPT ![fd] = c]
       /\ acceptQ' = acceptQ \ {c}
       /\ sock_client' = fd
  /\ mpc' = "calloc"
  /\ UNCHANGED <<peer, inbox, outbox, clientVars, p_sock_client, heap, threadVars>>

\* Variant: one variable, passed by address to every thread.
CallocOnce ==
  /\ mpc = "calloc"
  /\ heap' = [heap EXCEPT ![p_sock_client] = sock_client]
  /\ mpc' = "create"
  /\ UNCHANGED <<netVars, clientVars, sock_client, p_sock_client, threadVars>>

Calloc ==
  /\ mpc = "calloc"
  /\ \E x \in Cells :
       /\ heap[x] = 0
       /\ heap' = [heap EXCEPT ![x] = sock_client]
       /\ p_sock_client' = x
  /\ mpc' = "create"
  /\ UNCHANGED <<netVars, clientVars, sock_client, threadVars>>

\* The process ends, with every thread.
ProcessEnds ==
  /\ mpc' = "killed"
  /\ tpc' = [u \in Threads |-> "idle"]
  /\ CloseAll
  /\ UNCHANGED <<peer, outbox, clientVars, sock_client, p_sock_client, heap,
                 arg, request, owner>>

\* The result is not looked at: the store through NULL ends the process.
CallocFails ==
  /\ mpc = "calloc"
  /\ MayFail
  /\ ProcessEnds

Create(t) ==
  /\ mpc = "create"
  /\ ~Live(t)
  /\ tpc'   = [tpc EXCEPT ![t] = "recv"]
  /\ arg'   = [arg EXCEPT ![t] = p_sock_client]
  /\ owner' = [owner EXCEPT ![t] = files[sock_client]]
  /\ mpc' = "accept"
  /\ UNCHANGED <<netVars, clientVars, sock_client, p_sock_client, heap, request>>

\* "continue" leaves the cell and the descriptor behind.
CreateFails ==
  /\ mpc = "create"
  /\ MayFail
  /\ mpc' = "accept"
  /\ UNCHANGED <<netVars, clientVars, sock_client, p_sock_client, heap, threadVars>>

---------------------------------------------------------------------------
\* A client thread.
RecvData(t) ==
  /\ tpc[t] = "recv"
  /\ LET c == ConnOf(t) IN
     \E k \in 1..Len(inbox[c]) :
       /\ request' = [request EXCEPT ![t] = Received(c, k)]
       /\ inbox'   = [inbox EXCEPT ![c] = Remaining(c, k)]
  /\ tpc' = [tpc EXCEPT ![t] = "send"]
  /\ UNCHANGED <<files, acceptQ, peer, outbox, clientVars, mainVars, heap, arg, owner>>

\* recv() <= 0: the loop ends, with the descriptor still open.
RecvEnd(t) ==
  /\ tpc[t] = "recv"
  /\ inbox[ConnOf(t)] = <<>>
  /\ peer[ConnOf(t)] /= "up"
  /\ tpc' = [tpc EXCEPT ![t] = "free"]
  /\ UNCHANGED <<netVars, clientVars, mainVars, heap, arg, request, owner>>

\* A failed send() is reported, and the loop goes on.
Send(t) ==
  /\ tpc[t] = "send"
  /\ SendOk(ConnOf(t)) \/ SendFails(ConnOf(t))
  /\ tpc' = [tpc EXCEPT ![t] = IF LeavesAfter(request[t]) THEN "close" ELSE "recv"]
  /\ UNCHANGED <<files, acceptQ, inbox, clientVars, mainVars, heap, arg, request, owner>>

Close(t) ==
  /\ tpc[t] = "close"
  /\ CloseFd(FdOf(t))
  /\ tpc' = [tpc EXCEPT ![t] = "free"]
  /\ UNCHANGED <<acceptQ, peer, outbox, clientVars, mainVars, heap, arg, request, owner>>

\* Variant: free() is forgotten.
FreeForgotten(t) ==
  /\ tpc[t] = "free"
  /\ tpc' = [tpc EXCEPT ![t] = "idle"]
  /\ UNCHANGED <<netVars, clientVars, mainVars, heap, arg, request, owner>>

Free(t) ==
  /\ tpc[t] = "free"
  /\ heap' = [heap EXCEPT ![arg[t]] = 0]
  /\ tpc'  = [tpc EXCEPT ![t] = "idle"]
  /\ UNCHANGED <<netVars, clientVars, mainVars, arg, request, owner>>

KilledBySigpipe(t) ==
  /\ tpc[t] = "send"
  /\ SendRaisesSigpipe(ConnOf(t))
  /\ ProcessEnds

MainStep == Accept \/ Calloc \/ CallocFails \/ CreateFails \/ \E t \in Threads : Create(t)

ThreadStep(t) ==
  \/ RecvData(t) \/ RecvEnd(t)
  \/ Send(t) \/ Close(t) \/ Free(t)
  \/ KilledBySigpipe(t)

Next ==
  \/ MainStep
  \/ \E t \in Threads : ThreadStep(t)
  \/ \E c \in Clients : ClientStep(c) /\ UNCHANGED serverVars

Spec == Init /\ [][Next]_vars

\* The scheduler runs every thread that is not blocked.
FairSpec ==
  /\ Spec
  /\ WF_vars(MainStep)
  /\ \A t \in Threads : WF_vars(ThreadStep(t))
  /\ ClientFairness

\* The same, when every user leaves in the end.
LeaveSpec == FairSpec /\ UsersLeave

---------------------------------------------------------------------------
\* No thread ever serves another thread's client: the cell it was passed and
\* the descriptor in it stay its own, and refer to the connection the thread
\* was started for until the thread itself has closed it - although the main
\* thread reuses its variable, cells and descriptors all along.
OwnConnection ==
  /\ \A t, u \in Threads :
       t /= u /\ Live(t) /\ Live(u) => arg[t] /= arg[u]
  /\ \A t \in Threads :
       tpc[t] \in {"recv", "send", "close"} => ConnOf(t) = owner[t]
  /\ \A t, u \in Threads :
       t /= u /\ {tpc[t], tpc[u]} \subseteq {"recv", "send", "close"}
         => owner[t] /= owner[u]

\* The connection of client c is open and no thread serves it: what a failed
\* pthread_create() leaves behind.
Abandoned(c) ==
  /\ Held(c)
  /\ mpc = "accept" \/ files[sock_client] /= c
  /\ \A t \in Threads : Live(t) => owner[t] /= c

\* free() returns every cell once its thread is done: a cell in use is some
\* thread's, or the main thread's, or was left by a failed pthread_create()
\* together with the connection it refers to.  And what stays open without a
\* thread is such a connection, or that of a client that has left.
CellsHaveOwners ==
  /\ TypeOK
  /\ mpc /= "killed" =>
       \A x \in Cells :
         heap[x] /= 0 => \/ mpc = "create" /\ p_sock_client = x
                         \/ \E t \in Threads : Live(t) /\ arg[t] = x
                         \/ \E c \in Clients : files[heap[x]] = c /\ Abandoned(c)
  /\ \A c \in Clients :
       Abandoned(c) => \/ \E x \in Cells : heap[x] /= 0 /\ files[heap[x]] = c
                       \/ peer[c] /= "up" /\ inbox[c] = <<>>

\* "allowing the server to process multiple requests simultaneously": a client
\* that asks is answered, or sees the connection end, however long other
\* clients stay silent or leave their replies unread - unless no thread could
\* be created for it.
AskersAnswered ==
  \A c \in Clients \ Eager :
    client[c] = "waiting" ~> client[c] /= "waiting" \/ Abandoned(c)

\* The server goes on accepting: a connection that waits in the queue is taken
\* up once earlier users have left.
PendingAreAccepted == \A c \in Clients : c \in acceptQ ~> c \notin acceptQ
=============================================================================
