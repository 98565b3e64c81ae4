----------------------------- MODULE MCExchanges -----------------------------
(* The programs without a server of connections, one per behaviour:          *)
(* HttpClients, an example of Curl, UdpExchange (10), Broadcast (14), or the *)
(* set-up of any program (SetupPaths).  The initial state says which; of the *)
(* other modules everything has ended.                                       *)
EXTENDS HttpClients

CONSTANTS
  Kinds,                             \* those looked at
  Urls, Basic, Size,                 \* of Curl
  Clients, Lines, MaxRounds, MayLose, MayStray,   \* of UdpExchange
  Hosts,                             \* of Broadcast
  SetupPrograms                      \* of SetupPaths

\* urls is a list in the source, and basic_curl.cpp asks for one of it.
ASSUME FetchersAssumption == IsFiniteSet(Urls) /\ Basic \in Urls /\ Size \in Nat

ASSUME UdpAssumption ==
  /\ Lines \subseteq {"time", "exit", ""}
  /\ MaxRounds \in Nat \ {0}
  /\ MayLose \in BOOLEAN /\ MayStray \subseteq Clients

VARIABLES
  main, next, library, multi, rc, running_status,
  worker, easy, added, transfer, data, file, page_at,              \* of Curl
  client, round, line, requests, replies, server, current, lost, astray,   \* of UdpExchange
  host_main, receiver, sender, typed, air, heard,                  \* of Broadcast
  program, phase, at, todo, owned, kept, faults                    \* of SetupPaths

C == INSTANCE Curl WITH page <- page_at
U == INSTANCE UdpExchange WITH pc <- server
B == INSTANCE Broadcast WITH main <- host_main
P == INSTANCE SetupPaths WITH prog <- program, Programs <- SetupPrograms

ASSUME SetupAssumption == SetupPrograms \subseteq DOMAIN P!Paths

curlVars == <<main, next, library, multi, rc, running_status,
              worker, easy, added, transfer, data, file, page_at>>
udpVars == <<client, round, line, requests, replies, server, current, lost, astray>>
broadcastVars == <<host_main, receiver, sender, typed, air, heard>>
setupVars == <<program, phase, at, todo, owned, kept, faults>>

NoFetcher == pc = "done" /\ AtStart
NoExample ==
  /\ main = "done"
  /\ C!CurlAtStart
  /\ page_at = [u \in Urls |-> 0]
NoClient ==
  /\ client = [c \in Clients |-> "done"]
  /\ round = [c \in Clients |-> 0] /\ line = [c \in Clients |-> ""]
  /\ requests = {} /\ replies = {} /\ lost = {} /\ astray = {}
  /\ server = "recvfrom"
  /\ current = U!Cleared
NoHost ==
  /\ host_main = [h \in Hosts |-> "ended"]
  /\ receiver = [h \in Hosts |-> "none"] /\ sender = [h \in Hosts |-> "none"]
  /\ typed = [h \in Hosts |-> "nothing"]
  /\ air = {} /\ heard = [h \in Hosts |-> {}]

NoSetup ==
  /\ program \in SetupPrograms /\ phase = "leaving" /\ at = 1
  /\ todo = <<>> /\ owned = {} /\ kept = {} /\ faults = {}

MCInit ==
  \/ "client" \in Kinds /\ Init /\ NoExample /\ NoClient /\ NoHost /\ NoSetup
  \/ "example" \in Kinds /\ C!Init /\ NoFetcher /\ NoClient /\ NoHost /\ NoSetup
  \/ "udp" \in Kinds /\ U!Init /\ prog = "udp" /\ NoFetcher /\ NoExample /\ NoHost /\ NoSetup
  \/ /\ "broadcast" \in Kinds /\ B!Init
     /\ prog = "broadcast" /\ NoFetcher /\ NoExample /\ NoClient /\ NoSetup
  \/ /\ "setup" \in Kinds /\ P!Init
     /\ prog = "setup" /\ NoFetcher /\ NoExample /\ NoClient /\ NoHost
MCNext ==
  \/ Next   /\ UNCHANGED <<curlVars, udpVars, broadcastVars, setupVars>>
  \/ C!Next /\ UNCHANGED <<vars, udpVars, broadcastVars, setupVars>>
  \/ U!Next /\ UNCHANGED <<vars, curlVars, broadcastVars, setupVars>>
  \/ B!Next /\ UNCHANGED <<vars, curlVars, udpVars, setupVars>>
  \/ P!Next /\ UNCHANGED <<vars, curlVars, udpVars, broadcastVars>>
MCSpec ==
  /\ MCInit /\ [][MCNext]_<<vars, curlVars, udpVars, broadcastVars, setupVars>>
  /\ Fairness /\ C!Fairness /\ U!Fairness /\ B!Fairness

\* The properties of the examples.
FilesAreWhole            == C!FilesAreWhole
LibraryOutlivesTransfers == C!LibraryOutlivesTransfers
ExamplesEnd              == C!ExamplesEnd

\* Datagrams name existing hosts and rounds, and the answers of 10 match.
DatagramsSound ==
  /\ U!TypeOK /\ U!AnswersMatch
  /\ B!BroadcastTypeOK

\* The properties of the set-up and release paths.
ReturnsClean == P!ReturnsClean
ReleasedOnce == P!ReleasedOnce

\* The properties of 10 and 14.
AskersAnswered == U!AskersAnswered
PeersAreHeard  == B!PeersAreHeard
QuitEnds       == B!QuitEnds
=============================================================================
