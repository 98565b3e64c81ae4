---------------------------- MODULE MCTwoClients ----------------------------
(* Five servers with two clients each, small enough for the liveness of all: *)
(* ThreadServer (09), NonBlockingServer (11), SequentialServer (08),         *)
(* SelectServer (12) and SslServer.  One of them runs in each behaviour, with*)
(* its own client program; the variables that it does not have keep their    *)
(* first value.                                                              *)
EXTENDS ThreadServer

CONSTANT Servers   \* those looked at

VARIABLES
  program,                                \* the server that runs
  pc, i,                                  \* of more than one server
  fds_client, master_set, read_set, activity, global_max_fd,   \* of 12
  fds, arr_ssl, revents, nfds             \* of the TLS server

threadsOnly == <<mpc, p_sock_client, heap, tpc, arg, owner>>
selectVars  == <<fds_client, master_set, read_set, activity, global_max_fd>>
tlsVars     == <<fds, arr_ssl, revents, nfds>>
allVars     == <<vars, program, pc, i, selectVars, tlsVars>>

N == INSTANCE NonBlockingServer
S == INSTANCE SequentialServer
L == INSTANCE SelectServer WITH
       Messages <- Messages \cup {""}, Eager <- {}, MaxConnection <- 2, MayFail <- FALSE
T == INSTANCE SslServer WITH
       Messages <- {"hello", "part", "line", "quit", "junk"},
       Eager <- {}, MaxConnection <- 3, MayFail <- FALSE

NoThreads == mpc = "accept" /\ p_sock_client = 0 /\ heap = <<>>
             /\ tpc = <<>> /\ arg = <<>> /\ owner = <<>>
NoSelect  == fds_client = <<>> /\ master_set = {} /\ read_set = {}
             /\ activity = 1 /\ global_max_fd = SockServer
NoTls     == fds = <<>> /\ arr_ssl = <<>> /\ revents = <<>> /\ nfds = 1

MCInit ==
  /\ program \in Servers
  /\ \/ program = "threads" /\ Init /\ pc = "" /\ i = 0 /\ NoSelect /\ NoTls
     \/ /\ NoThreads
        /\ \/ program = "nonblocking" /\ N!Init /\ request = "" /\ i = 0 /\ NoSelect /\ NoTls
           \/ program = "sequential" /\ S!Init /\ i = 0 /\ NoSelect /\ NoTls
           \/ program = "select" /\ L!Init /\ sock_client = -1 /\ NoTls
           \/ program = "tls" /\ T!Init /\ last = [c \in Clients |-> ""]
              /\ sock_client = -1 /\ request = "" /\ NoSelect

MCNext ==
  /\ \/ program = "threads" /\ Next /\ UNCHANGED <<pc, i, selectVars, tlsVars>>
     \/ /\ \/ program = "nonblocking" /\ N!Next /\ UNCHANGED <<request, i, selectVars, tlsVars>>
           \/ program = "sequential" /\ S!Next /\ UNCHANGED <<i, selectVars, tlsVars>>
           \/ program = "select" /\ L!Next /\ UNCHANGED <<sock_client, tlsVars>>
           \/ program = "tls" /\ T!Next /\ UNCHANGED <<last, sock_client, request, selectVars>>
        /\ UNCHANGED threadsOnly
  /\ UNCHANGED program

\* The fairness of each server's FairSpec.  The users of 09, 11 and 12 may stay.
MCSpec ==
  /\ MCInit /\ [][MCNext]_allVars
  /\ WF_vars(program = "threads" /\ MainStep)
  /\ \A t \in Threads : WF_vars(program = "threads" /\ ThreadStep(t))
  /\ WF_<<N!vars>>(program = "nonblocking" /\ N!ServerStep /\ ~N!AcceptFails)
  /\ WF_<<S!vars>>(program = "sequential" /\ S!ServerStep)
  /\ WF_<<L!vars>>(program = "select" /\ L!ServerStep)
  /\ WF_<<T!vars>>(program = "tls" /\ T!ServerStep)
  /\ \A c \in Clients :
       /\ WF_<<netVars, clientVars>>(program /= "tls" /\ (RecvReply(c) \/ RecvClosed(c)))
       /\ WF_<<netVars, clientVars>>(program = "sequential" /\ Kill(c))
       /\ WF_<<netVars, client>>(program = "tls" /\ T!Leave(c))

\* The properties of the five modules, each about the server it belongs to;
\* those of ThreadServer are as they are there.
OneClientIn11   == program = "nonblocking" => N!OneClientHeld
SendsIn11       == program = "nonblocking" => N!SendsGoThrough
AnsweredIn11    == program = "nonblocking" => N!AcceptedIsAnswered
LeftIn08        == program = "sequential"  => S!OnlyTheGoneAreLeft
AcceptedIn08    == program = "sequential"  => S!PendingAreAccepted
AnsweredIn12    == program = "select"      => L!CommandsAreAnswered
ReadInTls       == program = "tls"         => T!RecordsAreRead
=============================================================================
