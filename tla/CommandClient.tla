--------------------------- MODULE CommandClient ---------------------------
(* run_client(), the interactive client that the tutorials share: it sends *)
(* one line, waits for one reply, and leaves after exit, quit or shutdown. *)
(* Clients in Eager are other TCP programs: they may send further commands *)
(* without waiting for the reply to the previous one.                      *)
EXTENDS TcpSockets

CONSTANTS
  Eager,     \* the clients that are not run_client
  MaxInbox   \* bound: commands an eager client has under way

\* "" is the empty line: sending it puts no byte on the wire.
Commands == {"time", "exit", "quit", "shutdown", ""}

ASSUME ClientAssumption ==
  /\ Eager \subseteq Clients
  /\ Messages \subseteq Commands
  /\ MaxInbox \in Nat \ {0}

VARIABLES
  client,    \* where each client's run_client is
  last       \* request_buffer: the command it sent last

clientVars == <<client, last>>

ClientState == {"off", "ready", "waiting", "done"}

ClientTypeOK ==
  /\ client \in [Clients -> ClientState]
  /\ last \in [Clients -> Commands]

ClientInit ==
  /\ client = [c \in Clients |-> "off"]
  /\ last   = [c \in Clients |-> ""]

Running(c) == client[c] \in {"ready", "waiting"}

\* The strcmp chain that ends the client's loop.
LeavesAfter(m) == m \in {"exit", "quit", "shutdown"}

\* What the server makes of the k commands one recv() returned: a command is
\* recognised on its own only, and two run together are plain text.
Received(c, k) == IF k = 1 THEN Head(inbox[c]) ELSE "time"

---------------------------------------------------------------------------
\* connect() completes in the kernel, before the server accepts.
Connect(c) ==
  /\ client[c] = "off"
  /\ Listening
  /\ client'  = [client EXCEPT ![c] = "ready"]
  /\ acceptQ' = acceptQ \cup {c}
  /\ peer'    = [peer EXCEPT ![c] = "up"]
  /\ UNCHANGED <<files, inbox, outbox, last>>

ConnectRefused(c) ==
  /\ client[c] = "off"
  /\ ~Listening
  /\ client' = [client EXCEPT ![c] = "done"]
  /\ UNCHANGED <<netVars, last>>

\* What a send() by the client adds to the stream.
Transmit(c, m) ==
  inbox' = IF m /= "" /\ Attached(c)
           THEN [inbox EXCEPT ![c] = Append(@, m)] ELSE inbox

\* Variant: a client that sends its next command without waiting.
SendWithoutWaiting(c, m) ==
  /\ client[c] = "ready"
  /\ last' = [last EXCEPT ![c] = m]
  /\ Transmit(c, m)
  /\ UNCHANGED <<files, acceptQ, peer, outbox, client>>

\* fgets() and send().  An empty line is a send() of 0 bytes, which succeeds.
SendCommand(c, m) ==
  /\ client[c] = "ready"
  /\ client' = [client EXCEPT ![c] = "waiting"]
  /\ last'   = [last EXCEPT ![c] = m]
  /\ Transmit(c, m)
  /\ UNCHANGED <<files, acceptQ, peer, outbox>>

\* The end of an iteration: another command, or close() after the last one.
EndIteration(c) ==
  client' = [client EXCEPT ![c] = IF LeavesAfter(last[c]) THEN "done" ELSE "ready"]

RecvReply(c) ==
  /\ client[c] = "waiting"
  /\ outbox[c] > 0
  /\ outbox' = [outbox EXCEPT ![c] = @ - 1]
  /\ EndIteration(c)
  /\ peer' = IF LeavesAfter(last[c])
             THEN [peer EXCEPT ![c] = IF outbox[c] > 1 THEN "rst" ELSE "fin"]
             ELSE peer
  /\ UNCHANGED <<files, acceptQ, inbox, last>>

\* recv() <= 0: the server end is gone.  The loop goes on all the same.
RecvClosed(c) ==
  /\ client[c] = "waiting"
  /\ outbox[c] = 0
  /\ ~Attached(c)
  /\ EndIteration(c)
  /\ UNCHANGED <<netVars, last>>

\* Ctrl-C, a crash, or the SIGPIPE of a client whose server is gone.
Kill(c) ==
  /\ Running(c)
  /\ client' = [client EXCEPT ![c] = "done"]
  /\ PeerCloses(c)
  /\ UNCHANGED <<files, acceptQ, inbox, outbox, last>>

EagerSend(c, m) ==
  /\ c \in Eager
  /\ Running(c)
  /\ Attached(c)
  /\ Len(inbox[c]) < MaxInbox
  /\ Transmit(c, m)
  /\ UNCHANGED <<files, acceptQ, peer, outbox, clientVars>>

ClientStep(c) ==
  \/ Connect(c)
  \/ ConnectRefused(c)
  \/ \E m \in Messages : SendCommand(c, m)
  \/ RecvReply(c)
  \/ RecvClosed(c)
  \/ Kill(c)
  \/ \E m \in Messages \ {""} : EagerSend(c, m)

\* A client program that is blocked in recv() returns once there is an answer.
ClientFairness ==
  \A c \in Clients : WF_<<netVars, clientVars>>(RecvReply(c) \/ RecvClosed(c))

\* Every user who connected leaves in the end.
UsersLeave ==
  \A c \in Clients : WF_<<netVars, clientVars>>(Kill(c))
=============================================================================
