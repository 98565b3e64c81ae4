----------------------------- MODULE SetupPaths -----------------------------
(* What each program acquires before it works, call by call, and what it   *)
(* gives back on each way out: the failure of any one of the calls, and    *)
(* the end of its work.  Calls whose failure is only reported (fcntl,      *)
(* setsockopt before 14) acquire nothing and are left out.                 *)
EXTENDS Naturals, Sequences

CONSTANT Programs   \* the programs looked at, by name

\* A call: what it acquires when it succeeds, and what the code gives back, in
\* order, when it fails.
Call(gets, undo) == [gets |-> gets, undo |-> undo]

\* A program: its calls, and the ways its work ends ({}: it never does), each
\* with what is given back, in order, and what is kept on purpose.
Program(calls, ends)   == [calls |-> calls, ends |-> ends]
Gives(releases)        == [releases |-> releases, keeps |-> {}]
GivesBut(releases, kept) == [releases |-> releases, keeps |-> kept]

---------------------------------------------------------------------------
\* Variants: connect() fails without close(); a failure after socket() closes
\* the socket both at the call and on the common way out.
ConnectSetupLeaks(undo) ==
  << Call({"addr"}, <<>>), Call({"sock"}, <<"addr">>), Call({}, <<"addr">>) >>
ListenSetupTwice(undo) ==
  << Call({"addr"}, <<>>), Call({"sock"}, <<"addr">>),
     Call({}, undo \o <<"sock">>), Call({}, undo) >>

\* getaddrinfo(), socket(), and bind() and listen() or connect().
ListenSetup(undo) ==
  << Call({"addr"}, <<>>), Call({"sock"}, <<"addr">>), Call({}, undo), Call({}, undo) >>
BindSetup(undo) ==
  << Call({"addr"}, <<>>), Call({"sock"}, <<"addr">>), Call({}, undo) >>
ConnectSetup(undo) ==
  << Call({"addr"}, <<>>), Call({"sock"}, <<"addr">>), Call({}, undo) >>

Socket01  == Program(<< Call({"sock"}, <<>>) >>, {Gives(<<"sock">>)})
Resolve02 == Program(<< Call({"addr"}, <<>>) >>, {Gives(<<"addr">>)})

Server08 == Program(ListenSetup(<<"sock", "addr">>), {})
Client08 == Program(ConnectSetup(<<"sock", "addr">>), {Gives(<<"sock", "addr">>)})
Server09 == Program(ListenSetup(<<"addr", "sock">>), {})
Client09 == Program(ConnectSetup(<<"addr", "sock">>), {Gives(<<"addr", "sock">>)})
Server10 == Program(BindSetup(<<"addr", "sock">>), {})
Client10 ==
  Program(<< Call({"addr"}, <<>>), Call({"sock"}, <<"addr">>) >>,
          {Gives(<<"addr", "sock">>)})
Server11 == Program(ListenSetup(<<"addr", "sock">>), {Gives(<<"sock", "addr">>)})
Client11 == Program(ConnectSetup(<<"addr", "sock">>), {Gives(<<"addr", "sock">>)})
Server12 == Program(ListenSetup(<<"addr", "sock">>), {})
Client12 == Program(ConnectSetup(<<"addr", "sock">>), {Gives(<<"addr", "sock">>)})
Server13 == Program(ListenSetup(<<"addr", "sock">>), {Gives(<<"addr", "sock">>)})
Client13 == Program(ConnectSetup(<<"addr", "sock">>), {Gives(<<"addr", "sock">>)})

\* The threads of 14 keep what they have when a set-up fails.
Receiver14 ==
  Program(<< Call({"cell"}, <<>>), Call({"sock"}, <<>>), Call({}, <<>>), Call({}, <<>>) >>, {})
Sender14 ==
  Program(<< Call({"cell"}, <<>>), Call({"sock"}, <<>>), Call({}, <<>>) >>, {})

\* HTTPServer::setup_socket() returns with the socket in the object.
SetupSocket ==
  Program(ListenSetup(<<"addr", "sock">>), {GivesBut(<<"addr">>, {"sock"})})

\* The tutorials' first clients leave on the spot when a call fails.  The test
\* after send() in 05 looks at the result of connect(), and never fails.
ConnectHttp04 ==
  Program(<< Call({"sock"}, <<>>), Call({"addr"}, <<>>), Call({}, <<"addr">>) >>,
          {Gives(<<"addr", "sock">>)})
SendRequest05 ==
  Program(<< Call({"addr"}, <<>>), Call({"sock"}, <<>>), Call({}, <<>>) >>,
          {Gives(<<"sock", "addr">>)})
ReceiveResponse06 ==
  Program(<< Call({"addr"}, <<>>), Call({"sock"}, <<"addr">>), Call({}, <<"addr">>),
             Call({}, <<"sock", "addr">>), Call({}, <<"sock", "addr">>) >>,
          {Gives(<<"sock", "addr">>)})

\* The last way out returns what the request for the new location returns.
PerformHttpRequest07 ==
  Program(ConnectSetup(<<"addr", "sock">>) \o << Call({}, <<"addr", "sock">>) >>,
          {Gives(<<"addr", "sock">>), Gives(<<>>)})

\* TLS: a context and the SSL object of the connection, or of the listening
\* socket.  "shutdown" stands for SSL_shutdown(), which writes to the socket.
\* The SSL_new() of the listening socket, after the private key was read, is
\* not checked.
SslRelease == <<"addr", "sock", "ctx", "shutdown", "ssl">>
SslServer ==
  Program(ListenSetup(<<"addr", "sock">>)
            \o << Call({"ctx"}, <<"addr", "sock">>),
                  Call({}, <<"ctx", "addr", "sock">>),
                  Call({"ssl"}, <<"ctx", "addr", "sock">>) >>,
          {Gives(<<"addr", "sock", "ctx", "sock", "shutdown", "ssl">>)})
SslConnect ==
  << Call({"ctx"}, <<"addr", "sock">>),
     Call({"ssl"}, <<"ctx", "addr", "sock">>),
     Call({}, SslRelease) >>
SslClient ==
  Program(<< Call({"addr"}, <<>>), Call({"sock"}, <<"addr">>), Call({}, <<>>) >>
            \o SslConnect,
          {Gives(SslRelease)})
HttpsRequest ==
  Program(<< Call({"addr"}, <<>>), Call({"sock"}, <<>>), Call({}, <<>>) >>
            \o SslConnect \o << Call({}, SslRelease) >>,
          {Gives(SslRelease)})

Paths ==
  [main01 |-> Socket01, main02 |-> Resolve02,
   receiver14 |-> Receiver14, sender14 |-> Sender14,
   server08 |-> Server08, client08 |-> Client08, server09 |-> Server09,
   client09 |-> Client09, server10 |-> Server10, client10 |-> Client10,
   server11 |-> Server11, client11 |-> Client11, server12 |-> Server12,
   client12 |-> Client12, server13 |-> Server13, client13 |-> Client13,
   setup_socket |-> SetupSocket, main04 |-> ConnectHttp04,
   main05 |-> SendRequest05, main06 |-> ReceiveResponse06,
   request07 |-> PerformHttpRequest07, ssl_server |-> SslServer,
   ssl_client |-> SslClient, https |-> HttpsRequest]

---------------------------------------------------------------------------
VARIABLES
  prog,    \* the program that runs
  phase,
  at,      \* the next call
  todo,    \* what is still to be given back on the way out
  owned,   \* what is acquired and not given back
  kept,    \* what the caller of the program will find
  faults   \* what went wrong on the way out

vars == <<prog, phase, at, todo, owned, kept, faults>>

Resources == {"addr", "sock", "cell", "ctx", "ssl"}

TypeOK ==
  /\ prog \in Programs
  /\ phase \in {"acquiring", "working", "leaving"}
  /\ at \in 1..(Len(Paths[prog].calls) + 1)
  /\ \A n \in DOMAIN todo : todo[n] \in Resources \cup {"shutdown"}
  /\ owned \subseteq UNION {Paths[prog].calls[n].gets : n \in 1..(at - 1)}
  /\ kept \subseteq Resources
  /\ faults \subseteq {"twice", "late"}

Init ==
  /\ prog \in Programs
  /\ phase = "acquiring"
  /\ at = 1
  /\ todo = <<>>
  /\ owned = {} /\ kept = {} /\ faults = {}

Calls == Paths[prog].calls

Succeeds ==
  /\ phase = "acquiring"
  /\ owned' = owned \cup Calls[at].gets
  /\ at' = at + 1
  /\ phase' = IF at = Len(Calls) THEN "working" ELSE "acquiring"
  /\ UNCHANGED <<prog, todo, kept, faults>>

Fails ==
  /\ phase = "acquiring"
  /\ phase' = "leaving"
  /\ todo' = Calls[at].undo
  /\ UNCHANGED <<prog, at, owned, kept, faults>>

Ends ==
  /\ phase = "working"
  /\ phase' = "leaving"
  /\ \E e \in Paths[prog].ends : todo' = e.releases /\ kept' = e.keeps
  /\ UNCHANGED <<prog, at, owned, faults>>

GivesBack ==
  /\ phase = "leaving"
  /\ todo /= <<>>
  /\ todo' = Tail(todo)
  /\ owned' = owned \ {Head(todo)}
  /\ faults' = faults \cup
       (IF Head(todo) = "shutdown"
        THEN IF "sock" \in owned THEN {} ELSE {"late"}
        ELSE IF Head(todo) \in owned THEN {} ELSE {"twice"})
  /\ UNCHANGED <<prog, phase, at, kept>>

Next == Succeeds \/ Fails \/ Ends \/ GivesBack

Spec == Init /\ [][Next]_vars

---------------------------------------------------------------------------
\* Whichever call fails, and whenever the work ends, everything acquired has
\* been given back once the program has left.
ReturnsClean ==
  /\ TypeOK
  /\ phase = "leaving" /\ todo = <<>> => owned = kept

\* Nothing is given back that is not owned: no descriptor is closed twice (it
\* may be another's by then), no failed call's result is freed.
ReleasedOnce == "twice" \notin faults

\* SSL_shutdown() can still tell the peer that the connection ends.
ShutdownReachesPeer == "late" \notin faults
=============================================================================
