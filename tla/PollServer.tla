----------------------------- MODULE PollServer -----------------------------
(* The poll() server of 00_tutorials/13_multiplexing_poll_client_server.c, *)
(* from the start of its loop, with its clients.                           *)
(* One action per system call: the kernel and the clients may act between  *)
(* any two calls of the server.  accept(), recv() and send() on a client's *)
(* socket are blocking calls: their actions are enabled when they return.  *)
EXTENDS CommandClient

CONSTANTS
  MaxConnection,  \* MAX_CONNECTION, the length of fds
  MayFail         \* TRUE: poll(), and accept() for want of memory, may also fail

ASSUME PollAssumption ==
  /\ MaxConnection \in Nat /\ MaxConnection >= 2
  /\ MayFail \in BOOLEAN

VARIABLES
  pc,        \* the call the server is about to make, or how it ended
  fds,       \* fds[i].fd
  revents,   \* fds[i].revents & POLLIN, as the last poll() that saw i left it
  nfds,
  i,         \* index of the scan over the clients
  request    \* request_buffer

serverVars == <<pc, fds, revents, nfds, i, request>>
vars == <<netVars, clientVars, serverVars>>

Slots == 0..(MaxConnection - 1)

TypeOK ==
  /\ NetTypeOK
  /\ ClientTypeOK
  /\ pc \in {"poll", "accept", "scan", "reply", "exited", "killed"}
  /\ fds \in [Slots -> Fd \cup {0}]
  /\ revents \in [Slots -> BOOLEAN]
  /\ nfds \in 1..MaxConnection
  /\ i \in 1..MaxConnection
  /\ request \in Commands

\* memset of fds, the listening socket in slot 0.
Init ==
  /\ NetInit
  /\ ClientInit
  /\ pc      = "poll"
  /\ fds     = [s \in Slots |-> IF s = 0 THEN SockServer ELSE 0]
  /\ revents = [s \in Slots |-> FALSE]
  /\ nfds    = 1
  /\ i       = 1
  /\ request = ""

Monitored == 1..(nfds - 1)
Conn(s)   == files[fds[s]]

---------------------------------------------------------------------------
\* poll() rewrites revents of the first nfds entries, and of no others.
Poll ==
  /\ pc = "poll"
  /\ \E s \in 0..(nfds - 1) : Readable(fds[s])
  /\ revents' = [s \in Slots |-> IF s < nfds THEN Readable(fds[s]) ELSE revents[s]]
  /\ pc' = IF Readable(fds[0]) THEN "accept" ELSE "scan"
  /\ i'  = 1
  /\ UNCHANGED <<netVars, clientVars, fds, nfds, request>>

PollFails ==
  /\ pc = "poll"
  /\ MayFail
  /\ pc' = "exited"
  /\ CloseAll
  /\ UNCHANGED <<peer, outbox, clientVars, fds, revents, nfds, i, request>>

\* A new entry gets fd and events; its revents is what was there before.
\* Past MAX_CONNECTION the accepted descriptor is stored nowhere.
StoreConnection(fd) ==
  IF nfds < MaxConnection
  THEN /\ fds'  = [fds EXCEPT ![nfds] = fd]
       /\ nfds' = nfds + 1
  ELSE UNCHANGED <<fds, nfds>>

Accept ==
  /\ pc = "accept"
  /\ \E c \in acceptQ, fd \in Fd :
       /\ LowestFree(fd)
       /\ files'   = [files EXCEPT ![fd] = c]
       /\ acceptQ' = acceptQ \ {c}
       /\ StoreConnection(fd)
  /\ pc' = "scan"
  /\ UNCHANGED <<peer, inbox, outbox, clientVars, revents, i, request>>

\* EMFILE and the like: "continue" goes back to poll() without looking at the
\* clients.
AcceptFails ==
  /\ pc = "accept"
  /\ NoFreeFd \/ MayFail
  /\ pc' = "poll"
  /\ UNCHANGED <<netVars, clientVars, fds, revents, nfds, i, request>>

\* Variant: the scan may end before the last entry.
EndScanEarly ==
  /\ pc = "scan"
  /\ i >= nfds - 1
  /\ pc' = "poll"
  /\ UNCHANGED <<netVars, clientVars, fds, revents, nfds, i, request>>

EndScan ==
  /\ pc = "scan"
  /\ i >= nfds
  /\ pc' = "poll"
  /\ UNCHANGED <<netVars, clientVars, fds, revents, nfds, i, request>>

Skip ==
  /\ pc = "scan"
  /\ i < nfds
  /\ ~revents[i]
  /\ i' = i + 1
  /\ UNCHANGED <<netVars, clientVars, pc, fds, revents, nfds, request>>

\* Variants: the last entry is not moved into the gap; nfds is decremented
\* before the move.
DropWithoutMove(s) ==
  /\ CloseFd(fds[s])
  /\ nfds' = nfds - 1
  /\ UNCHANGED <<fds, i>>
DropDecrementFirst(s) ==
  /\ CloseFd(fds[s])
  /\ fds'  = [fds EXCEPT ![s] = fds[nfds - 2]]
  /\ nfds' = nfds - 1
  /\ UNCHANGED i

\* close(); the last entry moves into slot s, its fd only; i-- and i++.
Drop(s) ==
  /\ CloseFd(fds[s])
  /\ fds'  = [fds EXCEPT ![s] = fds[nfds - 1]]
  /\ nfds' = nfds - 1
  /\ UNCHANGED i

AtRecv == pc = "scan" /\ i < nfds /\ revents[i]

RecvData ==
  /\ AtRecv
  /\ LET c == Conn(i) IN
     \E k \in 1..Len(inbox[c]) :
       /\ request' = Received(c, k)
       /\ inbox'   = [inbox EXCEPT ![c] = Remaining(c, k)]
  /\ pc' = "reply"
  /\ UNCHANGED <<files, acceptQ, peer, outbox, clientVars, fds, revents, nfds, i>>

\* recv() <= 0: the client closed its end, or reset it.
RecvEnd ==
  /\ AtRecv
  /\ inbox[Conn(i)] = <<>>
  /\ peer[Conn(i)] /= "up"
  /\ Drop(i)
  /\ UNCHANGED <<acceptQ, peer, outbox, clientVars, pc, revents, request>>

Disconnects(m) == m \in {"quit", "exit"}

KeepOrDrop(keep) ==
  IF keep THEN i' = i + 1 /\ UNCHANGED <<files, inbox, fds, nfds>> ELSE Drop(i)

\* Variant: a reply may take two calls of send().
ReplyTwice ==
  /\ pc = "reply"
  /\ \/ SendOk(Conn(i)) /\ KeepOrDrop(~Disconnects(request)) /\ pc' = "scan"
     \/ SendFails(Conn(i)) /\ KeepOrDrop(FALSE) /\ pc' = "scan"
     \/ SendOk(Conn(i)) /\ UNCHANGED <<pc, files, inbox, fds, nfds, i>>
  /\ UNCHANGED <<acceptQ, clientVars, revents, request>>

Reply ==
  /\ pc = "reply"
  /\ \/ SendOk(Conn(i)) /\ KeepOrDrop(~Disconnects(request))
     \/ SendFails(Conn(i)) /\ KeepOrDrop(FALSE)
  /\ pc' = "scan"
  /\ UNCHANGED <<acceptQ, clientVars, revents, request>>

KilledBySigpipe ==
  /\ pc = "reply"
  /\ SendRaisesSigpipe(Conn(i))
  /\ pc' = "killed"
  /\ CloseAll
  /\ UNCHANGED <<peer, outbox, clientVars, fds, revents, nfds, i, request>>

ServerStep ==
  \/ Poll \/ PollFails
  \/ Accept \/ AcceptFails
  \/ Skip \/ EndScan
  \/ RecvData \/ RecvEnd
  \/ Reply \/ KilledBySigpipe

Next ==
  \/ ServerStep
  \/ \E c \in Clients : ClientStep(c) /\ UNCHANGED serverVars

Spec == Init /\ [][Next]_vars

\* The scheduler runs the server while it is not blocked; poll() failing is
\* not owed to anyone.
ServerFairness == WF_vars(ServerStep /\ ~PollFails)

FairSpec == Spec /\ ServerFairness /\ ClientFairness /\ UsersLeave

---------------------------------------------------------------------------
\* The entries 1..nfds-1 name pairwise different, open connections, and
\* slot 0 is the listening socket: what every close, move and recv relies on.
EntriesSound ==
  pc \in {"poll", "accept", "scan", "reply"} =>
    /\ fds[0] = SockServer /\ files[SockServer] = "listener"
    /\ \A s \in Monitored : fds[s] \in Fd /\ Conn(s) \in Clients
    /\ \A s, t \in Monitored : s /= t => fds[s] /= fds[t]

SlotsSound == TypeOK /\ EntriesSound

\* The connection whose request is received and not answered yet.
Serving(c) == pc = "reply" /\ Conn(i) = c

\* run_client and the server keep one exchange at a time on a connection: a
\* command on its way, in service, or answered and unread, never two.  Hence a
\* request is never run together with the next, and send() never blocks.  And
\* nothing is lost: for a client that waits for the answer to a line one of the
\* three is there, unless its server end is gone.
OneExchange ==
  \A c \in Clients :
    LET underWay == Len(inbox[c]) + outbox[c] + (IF Serving(c) THEN 1 ELSE 0)
    IN  /\ c \notin Eager => underWay <= 1
        /\ c \notin Eager /\ underWay = 1 => client[c] \in {"waiting", "done"}
        /\ client[c] = "waiting" /\ last[c] /= "" /\ Attached(c) => underWay >= 1

\* With run_client on the other side, a client that leaves at any moment
\* never takes the server down with SIGPIPE.
SurvivesItsClients == Eager = {} => pc /= "killed"

\* A descriptor leaves the monitored entries by being closed only: neither
\* the move of the last entry nor an insertion loses another client.
NobodyForgotten ==
  \A c \in Clients :
    (\E s \in Monitored : Conn(s) = c)
      => \/ pc' \in {"exited", "killed"}
         \/ \E s \in Monitored' : Conn(s)' = c
         \/ ~Held(c)'

\* A connection that accept() returns is monitored, unless fds is full.
NewIsMonitored ==
  \A c \in Clients :
    ~Held(c) /\ Held(c)'
      => \/ nfds = MaxConnection
         \/ \E s \in Monitored' : Conn(s)' = c

NeverForgets == [][NobodyForgotten /\ NewIsMonitored]_vars

\* recv() is called on a client that has something to read: one silent
\* client cannot stop the server.
NoBlockedRecv == AtRecv => StreamReadable(Conn(i))

\* Every accepted connection is monitored.
AcceptedIsMonitored ==
  \A c \in Clients :
    Held(c) => \E s \in Monitored : Conn(s) = c

\* accept() fails for want of a descriptor, again and again.
OutOfFds == NoFreeFd /\ acceptQ /= {}

\* A command sent on a monitored connection is received, or the connection
\* is closed, whatever the other clients do, once silent users leave: unless
\* the server comes to a state where accept() finds no descriptor.
MonitoredAreServed ==
  \A c \in Clients :
    (inbox[c] /= <<>> /\ \E s \in Monitored : Conn(s) = c)
      ~> (inbox[c] = <<>> \/ OutOfFds)

\* Without that exception.
AllMonitoredAreServed ==
  \A c \in Clients :
    (inbox[c] /= <<>> /\ \E s \in Monitored : Conn(s) = c)
      ~> (inbox[c] = <<>>)
=============================================================================
