-------------------------- MODULE NonBlockingServer --------------------------
(* 00_tutorials/11_non_blocking_sockets.c: the server polls accept() until *)
(* it has a client and then recv() on that client, neither of which blocks.*)
(* Calls that return EAGAIN, and recv() returning 0, change nothing: the   *)
(* loop comes round again, which is a stuttering step here.                *)
EXTENDS CommandClient

CONSTANT MayFail   \* TRUE: accept() may fail for another reason than EAGAIN

VARIABLES
  pc,          \* the call the server is about to make, or how it ended
  sock_client  \* the client's descriptor; -1 while there is none

serverVars == <<pc, sock_client>>
vars == <<netVars, clientVars, serverVars>>

TypeOK ==
  /\ NetTypeOK
  /\ ClientTypeOK
  /\ pc \in {"accept", "recv", "send", "exited", "killed"}
  /\ sock_client \in Fd \cup {-1}

Init ==
  /\ NetInit
  /\ ClientInit
  /\ pc = "accept"
  /\ sock_client = -1

Up      == pc \in {"accept", "recv", "send"}
Current == files[sock_client]

---------------------------------------------------------------------------
\* Variant: the loop calls accept() whether or not there is a client.
AcceptAlways ==
  /\ pc \in {"accept", "recv"}
  /\ \E c \in acceptQ, fd \in Fd :
       /\ LowestFree(fd)
       /\ files'   = [files EXCEPT ![fd] = c]
       /\ acceptQ' = acceptQ \ {c}
       /\ sock_client' = fd
  /\ pc' = "recv"
  /\ UNCHANGED <<peer, inbox, outbox, clientVars>>

Accept ==
  /\ pc = "accept"
  /\ \E c \in acceptQ, fd \in Fd :
       /\ LowestFree(fd)
       /\ files'   = [files EXCEPT ![fd] = c]
       /\ acceptQ' = acceptQ \ {c}
       /\ sock_client' = fd
  /\ pc' = "recv"
  /\ UNCHANGED <<peer, inbox, outbox, clientVars>>

\* "break" leads to the end of run_server and of the program.
Exit ==
  /\ pc' = "exited"
  /\ CloseAll
  /\ UNCHANGED <<peer, outbox, clientVars, sock_client>>

AcceptFails == pc = "accept" /\ (MayFail \/ (NoFreeFd /\ acceptQ /= {})) /\ Exit

RecvData ==
  /\ pc = "recv"
  /\ \E k \in 1..Len(inbox[Current]) :
       inbox' = [inbox EXCEPT ![Current] = Remaining(Current, k)]
  /\ pc' = "send"
  /\ UNCHANGED <<files, acceptQ, peer, outbox, clientVars, sock_client>>

\* recv() returns ECONNRESET.
RecvFails ==
  /\ pc = "recv"
  /\ inbox[Current] = <<>>
  /\ peer[Current] = "rst"
  /\ Exit

\* Variant: a status may take two calls of send().
SendTwice ==
  /\ pc = "send"
  /\ \/ SendOk(Current) /\ pc' \in {"send", "recv"}
     \/ SendFails(Current) /\ pc' = "recv"
  /\ UNCHANGED <<files, acceptQ, inbox, clientVars, sock_client>>

\* Variant: nothing is sent.
SendForgotten ==
  /\ pc = "send"
  /\ pc' = "recv"
  /\ UNCHANGED <<netVars, clientVars, sock_client>>

\* send() of the status.  A failure is reported, and the loop goes on: with
\* full buffers (EAGAIN) the reply is lost.
Send ==
  /\ pc = "send"
  /\ \/ SendOk(Current)
     \/ SendFails(Current)
     \/ /\ peer[Current] = "up" /\ outbox[Current] = SendBuf
        /\ UNCHANGED <<peer, outbox>>
  /\ pc' = "recv"
  /\ UNCHANGED <<files, acceptQ, inbox, clientVars, sock_client>>

KilledBySigpipe ==
  /\ pc = "send"
  /\ SendRaisesSigpipe(Current)
  /\ pc' = "killed"
  /\ CloseAll
  /\ UNCHANGED <<peer, outbox, clientVars, sock_client>>

ServerStep ==
  \/ Accept \/ AcceptFails
  \/ RecvData \/ RecvFails
  \/ Send \/ KilledBySigpipe

\* run_client() of this program sends its time in place of a line, for ever; a
\* failed send() or recv() ends it, as Kill does.
StatusClient(c) ==
  \/ Connect(c) \/ ConnectRefused(c)
  \/ SendCommand(c, "time")
  \/ RecvReply(c) \/ RecvClosed(c)
  \/ Kill(c)
  \/ EagerSend(c, "time")

Next ==
  \/ ServerStep
  \/ \E c \in Clients : StatusClient(c) /\ UNCHANGED serverVars

Spec == Init /\ [][Next]_vars

\* The server never blocks: the scheduler runs it for ever.
ServerFairness == WF_vars(ServerStep /\ ~AcceptFails)
FairSpec  == Spec /\ ServerFairness /\ ClientFairness
LeaveSpec == FairSpec /\ UsersLeave

---------------------------------------------------------------------------
\* Every accepted connection is the one in sock_client: no descriptor is ever
\* lost, however accept(), recv() and the errors interleave.
OneClientHeld ==
  /\ TypeOK
  /\ \A c \in Clients : Up /\ Held(c) => sock_client \in Fd /\ Current = c

\* The client program and the server keep one exchange at a time, so that the
\* status is never dropped for want of buffer space (EAGAIN); and send() never
\* raises SIGPIPE on its connection, whenever that client dies.
SendsGoThrough ==
  \A c \in Clients \ Eager :
    pc = "send" /\ Current = c => outbox[c] < SendBuf /\ ~SendRaisesSigpipe(c)

\* The client that was accepted gets the status it waits for, or the end of
\* its connection, as long as it does not leave.
AcceptedIsAnswered ==
  \A c \in Clients :
    (Up /\ client[c] = "waiting" /\ Held(c)) ~> (client[c] /= "waiting")

\* "accept multiple client connection at a time": a connection in the queue is
\* accepted once the clients before it have left.
PendingAreAccepted == \A c \in Clients : c \in acceptQ ~> c \notin acceptQ

\* "The Server Loop continuously checks for connections and data".
KeepsRunning == ~MayFail => pc /= "exited"
=============================================================================
