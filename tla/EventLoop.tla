------------------------------ MODULE EventLoop ------------------------------
(* What a single-threaded server that multiplexes its clients promises: it *)
(* works on one monitored connection at a time, takes up a connection only *)
(* when that connection has something to read, so that no idle client can  *)
(* hold it up - unless the call that waits for all of them has failed -    *)
(* and stops monitoring a connection only while serving it.                *)
CONSTANTS
  Connections,
  None         \* a value that is no connection

VARIABLES
  pending,    \* connections waiting to be accepted
  monitored,  \* connections the server watches
  ready,      \* connections with something to read
  busy,       \* the connection being served, or None
  blind       \* TRUE: the last wait failed, and says nothing of who is ready

evars == <<pending, monitored, ready, busy, blind>>

Init ==
  /\ pending = {} /\ monitored = {} /\ ready = {}
  /\ busy = None
  /\ blind = FALSE

\* The clients: they connect, send, and hang up.
Environment ==
  /\ pending \subseteq pending'
  /\ ready \subseteq ready'
  /\ UNCHANGED <<monitored, busy, blind>>

\* The work taken up next: none, or a monitored connection that is ready.
TakesUp ==
  \/ busy' = None
  \/ busy' \in monitored' /\ (blind' \/ busy' \in ready')

\* Waiting for the connections, with or without success.
Wait ==
  /\ busy = None
  /\ blind' \in BOOLEAN
  /\ TakesUp
  /\ UNCHANGED <<pending, monitored, ready>>

Choose ==
  /\ busy = None
  /\ TakesUp
  /\ UNCHANGED <<pending, monitored, ready, blind>>

\* Accepting a connection, which may read what the client said first: it is
\* monitored from now on, or turned away.
Admit(c) ==
  /\ busy = None
  /\ c \in pending
  /\ pending' = pending \ {c}
  /\ monitored' \in {monitored, monitored \cup {c}}
  /\ ready' \in {ready, ready \ {c}}
  /\ TakesUp
  /\ UNCHANGED blind

\* Receiving from the connection in service, which may exhaust it.
Consume ==
  /\ busy /= None
  /\ ready' \in {ready, ready \ {busy}}
  /\ UNCHANGED <<pending, monitored, busy, blind>>

\* Serving ends with the connection kept, or closed.
Finish ==
  /\ busy /= None
  /\ \/ UNCHANGED <<monitored, ready>>
     \/ monitored' = monitored \ {busy} /\ ready' \in {ready, ready \ {busy}}
  /\ TakesUp
  /\ UNCHANGED <<pending, blind>>

\* The process ends.
Stop ==
  /\ pending' = {} /\ monitored' = {}
  /\ busy' = None
  /\ ready' \subseteq ready
  /\ UNCHANGED blind

Next ==
  \/ Environment \/ Wait \/ Choose \/ Consume \/ Finish \/ Stop
  \/ \E c \in Connections : Admit(c)

Spec == Init /\ [][Next]_evars
=============================================================================
