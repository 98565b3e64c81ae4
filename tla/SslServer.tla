------------------------------ MODULE SslServer ------------------------------
(* The TLS server of 01_networking_libraries/openssl/src/                  *)
(* ssl_client_server.c, from the start of its loop, with its clients.      *)
(* One action per library call.  The handshake runs on a blocking socket,  *)
(* SSL_read() on one that was made non-blocking after the handshake.       *)
EXTENDS TcpSockets

CONSTANTS
  MaxConnection,  \* MAX_CONNECTION, the length of fds and arr_ssl
  MayFail,        \* TRUE: poll(), and accept() for want of memory, may also fail
  Eager,          \* clients that are not run_client of this program
  MaxInbox        \* bound: records such a client has under way

\* What travels to the server: the client's part of the handshake, the first
\* bytes of a record whose rest is still on its way, complete records, and what
\* SSL_accept() makes nothing of.
Records == {"hello", "part", "line", "quit", "junk"}

ASSUME SslAssumption ==
  /\ Messages = Records
  /\ MaxConnection \in Nat /\ MaxConnection >= 2
  /\ MayFail \in BOOLEAN
  /\ Eager \subseteq Clients
  /\ MaxInbox \in Nat \ {0}

VARIABLES
  pc,        \* the call the server is about to make, or how it ended
  fds,       \* fds[i].fd; -1 in an unused entry
  arr_ssl,   \* the descriptor that the SSL object arr_ssl[i] was set to; 0: NULL
  revents,   \* fds[i].revents & POLLIN
  nfds,
  i,
  client     \* where each client is

serverVars == <<pc, fds, arr_ssl, revents, nfds, i>>
vars == <<netVars, serverVars, client>>

Slots == 0..(MaxConnection - 1)

TypeOK ==
  /\ NetTypeOK
  /\ pc \in {"poll", "scan", "handshake", "reply", "exited", "killed"}
  /\ fds \in [Slots -> Fd \cup {-1}]
  /\ arr_ssl \in [Slots -> Fd \cup {0}]
  /\ revents \in [Slots -> BOOLEAN]
  /\ nfds \in 1..MaxConnection
  /\ i \in 0..MaxConnection
  /\ client \in [Clients -> {"off", "connected", "hello", "ready", "sending",
                             "waiting", "done"}]

Init ==
  /\ NetInit
  /\ pc = "poll"
  /\ fds = [s \in Slots |-> IF s = 0 THEN SockServer ELSE -1]
  /\ arr_ssl = [s \in Slots |-> IF s = 0 THEN SockServer ELSE 0]
  /\ revents = [s \in Slots |-> FALSE]
  /\ nfds = 1
  /\ i = 0
  /\ client = [c \in Clients |-> "off"]

Monitored == 1..(nfds - 1)
Conn(s)   == files[fds[s]]

---------------------------------------------------------------------------
\* run_client() of this program.
Goes(c, from, to) == client[c] = from /\ client' = [client EXCEPT ![c] = to]

Transmit(c, r) ==
  inbox' = IF Attached(c) THEN [inbox EXCEPT ![c] = Append(@, r)] ELSE inbox

Connect(c) ==
  /\ Listening
  /\ Goes(c, "off", "connected")
  /\ acceptQ' = acceptQ \cup {c}
  /\ peer'    = [peer EXCEPT ![c] = "up"]
  /\ UNCHANGED <<files, inbox, outbox>>

\* SSL_connect() sends, and waits for the server's part of the handshake.
\* Another program may begin with something else.
Hello(c) ==
  /\ Goes(c, "connected", "hello")
  /\ Transmit(c, "hello") \/ (c \in Eager /\ Transmit(c, "junk"))
  /\ UNCHANGED <<files, acceptQ, peer, outbox>>

HelloDone(c) ==
  /\ outbox[c] > 0
  /\ Goes(c, "hello", "ready")
  /\ outbox' = [outbox EXCEPT ![c] = @ - 1]
  /\ UNCHANGED <<files, acceptQ, peer, inbox>>

HelloFails(c) ==
  /\ outbox[c] = 0 /\ ~Attached(c)
  /\ Goes(c, "hello", "done")
  /\ UNCHANGED netVars

\* SSL_write(): the record arrives at once, or in two segments.
Write(c) ==
  /\ \/ Goes(c, "ready", "waiting") /\ Transmit(c, "line")
     \/ Goes(c, "ready", "sending") /\ Transmit(c, "part")
  /\ UNCHANGED <<files, acceptQ, peer, outbox>>

RestArrives(c) ==
  /\ Goes(c, "sending", "waiting")
  /\ inbox' = IF inbox[c] = <<"part">> THEN [inbox EXCEPT ![c] = <<"line">>] ELSE inbox
  /\ UNCHANGED <<files, acceptQ, peer, outbox>>

\* Another program may send the exit commands, and go on before it is answered.
EagerWrite(c) ==
  /\ c \in Eager
  /\ client[c] = "waiting"
  /\ Len(inbox[c]) < MaxInbox
  /\ \E r \in {"line", "quit"} : Transmit(c, r)
  /\ UNCHANGED <<files, acceptQ, peer, outbox, client>>

\* SSL_read(): a response, or a failure that the loop reports and survives.
Read(c) ==
  /\ outbox[c] > 0
  /\ Goes(c, "waiting", "ready")
  /\ outbox' = [outbox EXCEPT ![c] = @ - 1]
  /\ UNCHANGED <<files, acceptQ, peer, inbox>>

ReadFails(c) ==
  /\ outbox[c] = 0 /\ ~Attached(c)
  /\ Goes(c, "waiting", "ready")
  /\ UNCHANGED netVars

\* An exit command (which is not sent), Ctrl-C or a crash.
Leave(c) ==
  /\ client[c] \notin {"off", "done"}
  /\ client' = [client EXCEPT ![c] = "done"]
  /\ PeerCloses(c)
  /\ UNCHANGED <<files, acceptQ, inbox, outbox>>

ClientStep(c) ==
  \/ Connect(c) \/ Hello(c) \/ HelloDone(c) \/ HelloFails(c)
  \/ Write(c) \/ RestArrives(c) \/ EagerWrite(c)
  \/ Read(c) \/ ReadFails(c)
  \/ Leave(c)

---------------------------------------------------------------------------
\* poll() looks at all the entries; it clears revents where fd is negative.
Poll ==
  /\ pc = "poll"
  /\ revents' = [s \in Slots |-> fds[s] /= -1 /\ Readable(fds[s])]
  /\ \E s \in Slots : revents'[s]
  /\ pc' = "scan"
  /\ i'  = 0
  /\ UNCHANGED <<netVars, client, fds, arr_ssl, nfds>>

\* The end of the loop closes every descriptor and frees every SSL object.
PollFails ==
  /\ pc = "poll"
  /\ MayFail
  /\ pc' = "exited"
  /\ CloseAll
  /\ arr_ssl' = [s \in Slots |-> 0]
  /\ UNCHANGED <<peer, outbox, client, fds, revents, nfds, i>>

EndScan ==
  /\ pc = "scan"
  /\ i >= nfds
  /\ pc' = "poll"
  /\ UNCHANGED <<netVars, client, fds, arr_ssl, revents, nfds, i>>

Skip ==
  /\ pc = "scan"
  /\ i < nfds
  /\ ~revents[i]
  /\ i' = i + 1
  /\ UNCHANGED <<netVars, client, pc, fds, arr_ssl, revents, nfds>>

AtListener == pc = "scan" /\ i < nfds /\ revents[i] /\ fds[i] = SockServer

\* accept(); with room, the entry and its SSL object are set up at nfds, which
\* is not raised before the handshake.  Without room the descriptor is lost.
Accept ==
  /\ AtListener
  /\ \E c \in acceptQ, fd \in Fd :
       /\ LowestFree(fd)
       /\ files'   = [files EXCEPT ![fd] = c]
       /\ acceptQ' = acceptQ \ {c}
       /\ \/ /\ nfds < MaxConnection
             /\ fds'     = [fds EXCEPT ![nfds] = fd]
             /\ arr_ssl' = [arr_ssl EXCEPT ![nfds] = fd]
             /\ pc' = "handshake"
             /\ UNCHANGED i
          \/ /\ nfds = MaxConnection
             /\ i' = i + 1
             /\ UNCHANGED <<pc, fds, arr_ssl>>
  /\ UNCHANGED <<peer, inbox, outbox, client, revents, nfds>>

AcceptFails ==
  /\ AtListener
  /\ NoFreeFd \/ MayFail
  /\ i' = i + 1
  /\ UNCHANGED <<netVars, client, pc, fds, arr_ssl, revents, nfds>>

\* SSL_accept() returns once the client has played its part.
HandshakeDone ==
  /\ pc = "handshake"
  /\ LET c == Conn(nfds) IN
     /\ inbox[c] /= <<>> /\ Head(inbox[c]) = "hello"
     /\ inbox' = [inbox EXCEPT ![c] = Tail(@)]
     /\ SendOk(c)
  /\ nfds' = nfds + 1
  /\ pc' = "scan"
  /\ i'  = i + 1
  /\ UNCHANGED <<files, acceptQ, client, fds, arr_ssl, revents>>

\* SSL_accept() fails: the client is gone, or what it sent is no handshake.
NoHandshake(c) == peer[c] /= "up" \/ (inbox[c] /= <<>> /\ Head(inbox[c]) = "junk")

\* Variant: a failed handshake closes the descriptor and leaves the entry.
HandshakeFailsHalfway ==
  /\ pc = "handshake"
  /\ NoHandshake(Conn(nfds))
  /\ CloseFd(fds[nfds])
  /\ pc' = "scan"
  /\ i'  = i + 1
  /\ UNCHANGED <<acceptQ, peer, outbox, client, fds, arr_ssl, revents, nfds>>

HandshakeFails ==
  /\ pc = "handshake"
  /\ NoHandshake(Conn(nfds))
  /\ CloseFd(fds[nfds])
  /\ fds'     = [fds EXCEPT ![nfds] = -1]
  /\ arr_ssl' = [arr_ssl EXCEPT ![nfds] = 0]
  /\ pc' = "scan"
  /\ i'  = i + 1
  /\ UNCHANGED <<acceptQ, peer, outbox, client, revents, nfds>>

\* Variants: nfds is decremented before the move; the moved entry is looked at
\* again, with the revents of the one that was closed.
DropDecrementFirst ==
  /\ CloseFd(fds[i])
  /\ fds'  = [fds EXCEPT ![i] = fds[nfds - 2], ![nfds - 1] = -1]
  /\ arr_ssl' = [arr_ssl EXCEPT ![i] = arr_ssl[nfds - 2], ![nfds - 1] = 0]
  /\ nfds' = nfds - 1
  /\ i'    = i + 1
  /\ pc'   = "scan"
DropLooksAgain ==
  /\ CloseFd(fds[i])
  /\ fds'  = [fds EXCEPT ![i] = fds[nfds - 1], ![nfds - 1] = -1]
  /\ arr_ssl' = [arr_ssl EXCEPT ![i] = arr_ssl[nfds - 1], ![nfds - 1] = 0]
  /\ nfds' = nfds - 1
  /\ pc'   = "scan"
  /\ UNCHANGED i

\* close() and SSL_free(); the last entry and its SSL object move into slot i,
\* and i++ passes over them.
Drop ==
  /\ CloseFd(fds[i])
  /\ fds'  = [fds EXCEPT ![i] = fds[nfds - 1], ![nfds - 1] = -1]
  /\ arr_ssl' = [arr_ssl EXCEPT ![i] = arr_ssl[nfds - 1], ![nfds - 1] = 0]
  /\ nfds' = nfds - 1
  /\ i'    = i + 1
  /\ pc'   = "scan"

AtRead == pc = "scan" /\ i < nfds /\ revents[i] /\ fds[i] /= SockServer

\* The connection that SSL_read(arr_ssl[i]) reads from.
Reading == files[arr_ssl[i]]

ReadLine ==
  /\ AtRead
  /\ inbox[Reading] /= <<>> /\ Head(inbox[Reading]) = "line"
  /\ inbox' = [inbox EXCEPT ![Reading] = Tail(@)]
  /\ pc' = "reply"
  /\ UNCHANGED <<files, acceptQ, peer, outbox, client, fds, arr_ssl, revents, nfds, i>>

\* Variant: the failure of SSL_read() is reported, and the scan goes on.
DisconnectReportsOnly ==
  /\ AtRead
  /\ inbox[Reading] /= <<>> => Head(inbox[Reading]) \in {"part", "quit", "junk"}
  /\ i' = i + 1
  /\ UNCHANGED <<netVars, client, pc, fds, arr_ssl, revents, nfds>>

\* SSL_read() <= 0 - the end of the stream, or SSL_ERROR_WANT_READ because no
\* whole record is there - and the exit commands end the connection alike.
Disconnect ==
  /\ AtRead
  /\ inbox[Reading] /= <<>> => Head(inbox[Reading]) \in {"part", "quit", "junk"}
  /\ Drop
  /\ UNCHANGED <<acceptQ, peer, outbox, client, revents>>

\* Variant: a reply may take two calls of SSL_write().
ReplyTwice ==
  /\ pc = "reply"
  /\ \/ SendOk(Reading) /\ pc' = "scan" /\ i' = i + 1
     \/ SendFails(Reading) /\ pc' = "scan" /\ i' = i + 1
     \/ SendOk(Reading) /\ UNCHANGED <<pc, i>>
  /\ UNCHANGED <<files, acceptQ, inbox, client, fds, arr_ssl, revents, nfds>>

\* SSL_write(): a failure is reported only.  With full buffers the socket does
\* not block, and the reply is lost.
Reply ==
  /\ pc = "reply"
  /\ \/ SendOk(Reading)
     \/ SendFails(Reading)
     \/ /\ peer[Reading] = "up" /\ outbox[Reading] = SendBuf
        /\ UNCHANGED <<peer, outbox>>
  /\ pc' = "scan"
  /\ i'  = i + 1
  /\ UNCHANGED <<files, acceptQ, inbox, client, fds, arr_ssl, revents, nfds>>

KilledBySigpipe ==
  /\ pc = "reply"
  /\ SendRaisesSigpipe(Reading)
  /\ pc' = "killed"
  /\ CloseAll
  /\ UNCHANGED <<peer, outbox, client, fds, arr_ssl, revents, nfds, i>>

ServerStep ==
  \/ Poll \/ PollFails \/ EndScan \/ Skip
  \/ Accept \/ AcceptFails
  \/ HandshakeDone \/ HandshakeFails
  \/ ReadLine \/ Disconnect
  \/ Reply \/ KilledBySigpipe

Next ==
  \/ ServerStep
  \/ \E c \in Clients : ClientStep(c) /\ UNCHANGED serverVars

Spec == Init /\ [][Next]_vars

\* The scheduler runs the server while it is not blocked, and every user who
\* connected leaves in the end.
FairSpec ==
  /\ Spec /\ WF_vars(ServerStep)
  /\ \A c \in Clients : WF_<<netVars, client>>(Leave(c))

---------------------------------------------------------------------------
Alive == pc \in {"poll", "scan", "handshake", "reply"}

\* The two arrays move together: every monitored descriptor is open, is there
\* once, and has the SSL object that was set to it; every other entry is
\* empty, except the one whose handshake is under way.
TablesAgree ==
  TypeOK /\
  (Alive =>
    /\ fds[0] = SockServer /\ files[SockServer] = "listener"
    /\ \A s \in Slots :
         IF s < nfds \/ (s = nfds /\ pc = "handshake")
         THEN arr_ssl[s] = fds[s] /\ fds[s] \in Fd /\ Conn(s) /= "free"
         ELSE arr_ssl[s] = 0 /\ fds[s] = -1
    /\ \A s, t \in Monitored : s /= t => fds[s] /= fds[t])

\* SSL_read() is called for a client that sent something or hung up: an entry
\* that was moved, or filled anew, is not judged by a stale revents, so that no
\* silent client is taken for one that left.
NoStaleRead == AtRead => StreamReadable(Conn(i))

Tracked(c) ==
  \/ \E s \in Monitored : Conn(s) = c
  \/ pc = "handshake" /\ Conn(nfds) = c

\* A connection leaves the entries, or its handshake, by being closed only, and
\* that befalls a client that is gone, sent quit, has a record under way, or
\* sent no handshake; and what accept() returns is in one of the two, unless
\* there is no room.
NeverForgets ==
  [][\A c \in Clients :
       /\ Tracked(c)
            => \/ pc' \in {"exited", "killed"}
               \/ Tracked(c)'
               \/ /\ ~Held(c)'
                  /\ \/ peer[c] /= "up"
                     \/ inbox[c] /= <<>> /\ Head(inbox[c]) \in {"part", "quit", "junk"}
       /\ ~Held(c) /\ Held(c)' => Tracked(c)' \/ nfds = MaxConnection]_vars

\* SSL_write() never raises SIGPIPE on the connection of a run_client,
\* whenever that client dies: the server is not taken down by it.
SurvivesItsClients ==
  \A c \in Clients \ Eager :
    pc = "reply" /\ Reading = c => ~SendRaisesSigpipe(c)

\* However long another client keeps SSL_accept() waiting, once it leaves the
\* server goes on to all that arrived: records and handshakes are read, or the
\* connection is closed.
RecordsAreRead ==
  \A c \in Clients : (Tracked(c) /\ inbox[c] /= <<>>) ~> (inbox[c] = <<>>)

\* "the SSL connection is ready to send and receive encrypted data": the
\* server closes the connection of a client only when it left or sent quit.
OnlyLeaversDropped ==
  [][\A c \in Clients :
       (Held(c) /\ ~Held(c)' /\ pc' = "scan")
         => peer[c] /= "up" \/ (inbox[c] /= <<>> /\ Head(inbox[c]) = "quit")]_vars
---------------------------------------------------------------------------
\* What the server shows of itself as an EventLoop.  A connection is pending
\* until its handshake is over: EventLoop says nothing of how long that takes.
pending   == acceptQ \cup {c \in Clients : pc = "handshake" /\ Conn(nfds) = c}
monitored == {c \in Clients : Alive /\ \E s \in Monitored : Conn(s) = c}
ready     == {c \in Clients : Attached(c) /\ StreamReadable(c)}
busy      == IF AtRead \/ pc = "reply" THEN Conn(i) ELSE "listener"
Loop == INSTANCE EventLoop WITH Connections <- Clients, None <- "listener", blind <- FALSE

\* The TLS server works on one connection at a time, and takes one up only when
\* that one has something to read; here no failed call leads to a blind scan.
ImplementsEventLoop == Loop!Spec
=============================================================================
