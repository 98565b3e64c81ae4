-------------------------- MODULE SequentialServer --------------------------
(* 00_tutorials/08_simple_client_server.c: the server takes one client at  *)
(* a time and serves it until it leaves; the others wait in the queue of   *)
(* the listening socket.  One action per system call.                      *)
EXTENDS CommandClient

VARIABLES
  pc,           \* the call the server is about to make, or how it ended
  sock_client,  \* its local variable; -1 before the first accept()
  request       \* request_buffer

serverVars == <<pc, sock_client, request>>
vars == <<netVars, clientVars, serverVars>>

TypeOK ==
  /\ NetTypeOK
  /\ ClientTypeOK
  /\ pc \in {"accept", "recv", "send", "close", "killed"}
  /\ sock_client \in Fd \cup {-1}
  /\ request \in Commands

Init ==
  /\ NetInit
  /\ ClientInit
  /\ pc = "accept"
  /\ sock_client = -1
  /\ request = ""

InService(c) == pc \in {"recv", "send", "close"} /\ files[sock_client] = c
Current      == files[sock_client]

---------------------------------------------------------------------------
\* When no descriptor is left accept() fails and the loop tries again: a step
\* that changes nothing.
Accept ==
  /\ pc = "accept"
  /\ \E c \in acceptQ, fd \in Fd :
       /\ LowestFree(fd)
       /\ files'   = [files EXCEPT ![fd] = c]
       /\ acceptQ' = acceptQ \ {c}
       /\ sock_client' = fd
  /\ pc' = "recv"
  /\ UNCHANGED <<peer, inbox, outbox, clientVars, request>>

RecvData ==
  /\ pc = "recv"
  /\ \E k \in 1..Len(inbox[Current]) :
       /\ request' = Received(Current, k)
       /\ inbox'   = [inbox EXCEPT ![Current] = Remaining(Current, k)]
  /\ pc' = "send"
  /\ UNCHANGED <<files, acceptQ, peer, outbox, clientVars, sock_client>>

\* Variant: the loop over the requests goes on after recv() <= 0.
RecvEndContinues ==
  /\ pc = "recv"
  /\ inbox[Current] = <<>>
  /\ peer[Current] /= "up"
  /\ UNCHANGED vars

\* recv() <= 0: back to accept(), with the descriptor still open.
RecvEnd ==
  /\ pc = "recv"
  /\ inbox[Current] = <<>>
  /\ peer[Current] /= "up"
  /\ pc' = "accept"
  /\ UNCHANGED <<netVars, clientVars, sock_client, request>>

\* Variant: "break" on an exit command without close().
SendForgetsClose ==
  /\ pc = "send"
  /\ SendOk(Current) \/ SendFails(Current)
  /\ pc' = IF LeavesAfter(request) THEN "accept" ELSE "recv"
  /\ UNCHANGED <<files, acceptQ, inbox, clientVars, sock_client, request>>

\* A failed send() is reported, and the loop goes on.
Send ==
  /\ pc = "send"
  /\ SendOk(Current) \/ SendFails(Current)
  /\ pc' = IF LeavesAfter(request) THEN "close" ELSE "recv"
  /\ UNCHANGED <<files, acceptQ, inbox, clientVars, sock_client, request>>

Close ==
  /\ pc = "close"
  /\ CloseFd(sock_client)
  /\ pc' = "accept"
  /\ UNCHANGED <<acceptQ, peer, outbox, clientVars, sock_client, request>>

KilledBySigpipe ==
  /\ pc = "send"
  /\ SendRaisesSigpipe(Current)
  /\ pc' = "killed"
  /\ CloseAll
  /\ UNCHANGED <<peer, outbox, clientVars, sock_client, request>>

ServerStep ==
  \/ Accept
  \/ RecvData \/ RecvEnd
  \/ Send \/ Close
  \/ KilledBySigpipe

Next ==
  \/ ServerStep
  \/ \E c \in Clients : ClientStep(c) /\ UNCHANGED serverVars

Spec == Init /\ [][Next]_vars

\* The scheduler runs the server while it is not blocked.
FairSpec == Spec /\ WF_vars(ServerStep) /\ ClientFairness /\ UsersLeave

---------------------------------------------------------------------------
\* The server never turns away from a client that is still there: what it
\* leaves open and unattended are connections whose client has left.
OnlyTheGoneAreLeft ==
  /\ TypeOK
  /\ \A c \in Clients :
       pc /= "killed" /\ Held(c) /\ ~InService(c) => peer[c] /= "up" /\ inbox[c] = <<>>

\* "While it processes a request from one client, other clients are left
\* waiting": but not for ever.  A connection in the queue is accepted once
\* those before it have left, while descriptors last.
PendingAreAccepted ==
  \A c \in Clients : pc /= "killed" /\ c \in acceptQ ~> c \notin acceptQ
=============================================================================
