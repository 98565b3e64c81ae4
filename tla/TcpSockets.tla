---------------------------- MODULE TcpSockets ----------------------------
(* The part of the kernel's TCP that the servers of this repository rely   *)
(* on: the descriptor table of the server process, the accept queue of its *)
(* listening socket, and the byte streams between each client and its      *)
(* server end.  This code is not in the repository: it is modelled from    *)
(* the calls the servers make and from how they read the results.          *)
EXTENDS Integers, Sequences, FiniteSets

CONSTANTS
  Clients,   \* one element per TCP connection that is ever attempted
  Messages,  \* what a client may send in one go
  MaxFd,     \* descriptors 3..MaxFd are available to the server process
  SendBuf    \* replies that fit in the buffers towards one client

ASSUME SocketsAssumption ==
  /\ "free" \notin Clients
  /\ "listener" \notin Clients
  /\ MaxFd \in Nat /\ MaxFd >= 3
  /\ SendBuf \in Nat \ {0}

VARIABLES
  files,     \* descriptor table: the connection each descriptor refers to
  acceptQ,   \* connections completed by the kernel, not accepted yet
  peer,      \* the client end of a connection, as the server's kernel sees it
  inbox,     \* commands sent by the client and not received by the server
  outbox     \* number of replies sent by the server and not read by the client

netVars == <<files, acceptQ, peer, inbox, outbox>>

Fd         == 3..MaxFd
SockServer == 3            \* the first descriptor a program opens

\* fin: closed; rst: reset, not reported yet; broken: reset was reported.
PeerState == {"none", "up", "fin", "rst", "broken"}

NetTypeOK ==
  /\ files \in [Fd -> Clients \cup {"free", "listener"}]
  /\ acceptQ \in SUBSET Clients
  /\ peer \in [Clients -> PeerState]
  /\ inbox \in [Clients -> Seq(Messages)]
  /\ outbox \in [Clients -> Nat]

\* The sockets as run_server leaves them: listen() has just succeeded.
NetInit ==
  /\ files   = [fd \in Fd |-> IF fd = SockServer THEN "listener" ELSE "free"]
  /\ acceptQ = {}
  /\ peer    = [c \in Clients |-> "none"]
  /\ inbox   = [c \in Clients |-> <<>>]
  /\ outbox  = [c \in Clients |-> 0]

---------------------------------------------------------------------------
Listening == \E fd \in Fd : files[fd] = "listener"

Held(c)     == \E fd \in Fd : files[fd] = c
Attached(c) == c \in acceptQ \/ Held(c)

\* accept() returns the lowest unused descriptor, and fails when none is left.
LowestFree(fd) ==
  /\ files[fd] = "free"
  /\ \A g \in Fd : files[g] = "free" => fd <= g
NoFreeFd == \A fd \in Fd : files[fd] /= "free"

\* A read of connection c does not block: data, end of file, or an error.
StreamReadable(c) == inbox[c] /= <<>> \/ peer[c] /= "up"

\* POLLIN, or membership in the set select() returns, for a descriptor.
Readable(fd) ==
  \/ files[fd] = "listener" /\ acceptQ /= {}
  \/ files[fd] \in Clients /\ StreamReadable(files[fd])

\* A recv() takes any non-empty prefix of what is queued; this is the rest.
Remaining(c, k) == SubSeq(inbox[c], k + 1, Len(inbox[c]))

\* The effect of close(fd) on a connection, or of the end of the process.
CloseFd(fd) ==
  /\ files' = [files EXCEPT ![fd] = "free"]
  /\ inbox' = [inbox EXCEPT ![files[fd]] = <<>>]
CloseAll ==
  /\ files'   = [fd \in Fd |-> "free"]
  /\ acceptQ' = {}
  /\ inbox'   = [c \in Clients |-> <<>>]

\* The client end closes: unread replies turn the FIN into a RST.
PeerCloses(c) ==
  peer' = [peer EXCEPT ![c] = IF outbox[c] > 0 THEN "rst" ELSE "fin"]

\* send() by the server.  A peer that is gone answers the first send with a
\* RST, which may or may not have arrived by the next one.
SendOk(c) ==
  \/ /\ peer[c] = "up"
     /\ outbox[c] < SendBuf          \* otherwise a blocking send() waits
     /\ outbox' = [outbox EXCEPT ![c] = @ + 1]
     /\ UNCHANGED peer
  \/ /\ peer[c] = "fin"
     /\ \E s \in {"fin", "broken"} : peer' = [peer EXCEPT ![c] = s]
     /\ UNCHANGED outbox
SendFails(c) ==
  /\ peer[c] = "rst"
  /\ peer' = [peer EXCEPT ![c] = "broken"]
  /\ UNCHANGED outbox
SendRaisesSigpipe(c) == peer[c] = "broken"
=============================================================================
