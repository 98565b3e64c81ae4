------------------------------ MODULE Broadcast ------------------------------
(* 00_tutorials/14_broadcasting.c: on every host main() starts a thread that *)
(* listens for broadcasts and one that sends "... is active" each second,    *)
(* detaches both, and prompts.  Broadcasts come back to the host they left,  *)
(* and any of them may be lost.  SetupPaths has the set-ups call by call.    *)
EXTENDS Naturals

CONSTANT Hosts

VARIABLES
  main,      \* the statement main() is at on each host, or how it ended
  receiver,  \* broadcast_receiver_thread_func()
  sender,    \* broadcast_sender_thread_func()
  typed,     \* what fgets() will find: nothing yet, a line, or the end of stdin
  air,       \* <<a, b>>: a message of a is on its way to the socket of b
  heard      \* hosts whose message was received and printed

hostVars == <<main, receiver, sender>>
bvars == <<hostVars, typed, air, heard>>

BroadcastTypeOK ==
  /\ main \in [Hosts -> {"receiver", "sender", "prompt", "ended", "crashed"}]
  /\ receiver \in [Hosts -> {"none", "setup", "loop", "failed"}]
  /\ sender \in [Hosts -> {"none", "setup", "loop", "failed"}]
  /\ typed \in [Hosts -> {"nothing", "quit", "other", "eof"}]
  /\ air \subseteq Hosts \X Hosts
  /\ heard \in [Hosts -> SUBSET Hosts]

Init ==
  /\ main = [h \in Hosts |-> "receiver"]
  /\ receiver = [h \in Hosts |-> "none"]
  /\ sender = [h \in Hosts |-> "none"]
  /\ typed = [h \in Hosts |-> "nothing"]
  /\ air = {}
  /\ heard = [h \in Hosts |-> {}]

Alive(h) == main[h] \notin {"ended", "crashed"}

\* The end of the process is the end of its threads and sockets.
ProcessEnds(h, how) ==
  /\ main' = [main EXCEPT ![h] = how]
  /\ receiver' = [receiver EXCEPT ![h] = "none"]
  /\ sender' = [sender EXCEPT ![h] = "none"]
  /\ air' = {d \in air : d[2] /= h}
  /\ heard' = [heard EXCEPT ![h] = {}]

---------------------------------------------------------------------------
\* pthread_create() and pthread_detach().  A failure of the first is not looked
\* at, and then the second is given an uninitialized pthread_t: it may report
\* an error that nobody reads, or crash.
CreateReceiver(h) ==
  /\ main[h] = "receiver"
  /\ \/ /\ \E t \in {"setup", "none"} : receiver' = [receiver EXCEPT ![h] = t]
        /\ main' = [main EXCEPT ![h] = "sender"]
        /\ UNCHANGED <<sender, air, heard>>
     \/ ProcessEnds(h, "crashed")
  /\ UNCHANGED typed

\* Variant: pthread_join() where pthread_detach() stands.
CreateSenderAndJoin(h) ==
  /\ main[h] = "sender"
  /\ receiver[h] \in {"none", "failed"}
  /\ \/ /\ \E t \in {"setup", "none"} : sender' = [sender EXCEPT ![h] = t]
        /\ main' = [main EXCEPT ![h] = "prompt"]
        /\ UNCHANGED <<receiver, air, heard>>
     \/ ProcessEnds(h, "crashed")
  /\ UNCHANGED typed

CreateSender(h) ==
  /\ main[h] = "sender"
  /\ \/ /\ \E t \in {"setup", "none"} : sender' = [sender EXCEPT ![h] = t]
        /\ main' = [main EXCEPT ![h] = "prompt"]
        /\ UNCHANGED <<receiver, air, heard>>
     \/ ProcessEnds(h, "crashed")
  /\ UNCHANGED typed

\* The line buffer is cleared before each fgets(): at the end of stdin the line
\* is empty, every time.
Prompt(h) ==
  /\ main[h] = "prompt"
  /\ typed[h] /= "nothing"
  /\ IF typed[h] = "quit"
     THEN ProcessEnds(h, "ended") /\ UNCHANGED typed
     ELSE /\ typed' = [typed EXCEPT ![h] = IF @ = "eof" THEN "eof" ELSE "nothing"]
          /\ UNCHANGED <<hostVars, air, heard>>

\* setup_broadcast_receiver() and setup_broadcast_sender(); if one fails, its
\* thread returns and the rest of the program goes on.  The result of calloc()
\* is not looked at: they store through it, and if it is NULL the process ends.
SetUpReceiver(h) ==
  /\ receiver[h] = "setup"
  /\ \/ /\ \E r \in {"loop", "failed"} : receiver' = [receiver EXCEPT ![h] = r]
        /\ UNCHANGED <<main, sender, air, heard>>
     \/ ProcessEnds(h, "crashed")
  /\ UNCHANGED typed

SetUpSender(h) ==
  /\ sender[h] = "setup"
  /\ \/ /\ \E r \in {"loop", "failed"} : sender' = [sender EXCEPT ![h] = r]
        /\ UNCHANGED <<main, receiver, air, heard>>
     \/ ProcessEnds(h, "crashed")
  /\ UNCHANGED typed

Listening(h) == receiver[h] = "loop"

\* Variant: the message is sent once, before the loop.
SendToOnce(a) ==
  /\ sender[a] = "loop"
  /\ sender' = [sender EXCEPT ![a] = "failed"]
  /\ air' = air \cup {<<a, b>> : b \in {h \in Hosts : Listening(h)}}
  /\ UNCHANGED <<main, receiver, typed, heard>>

\* sendto(): to every socket that is bound to the port, this host's as well.
\* An error is reported, and the loop goes on.
SendTo(a) ==
  /\ sender[a] = "loop"
  /\ \/ air' = air \cup {<<a, b>> : b \in {h \in Hosts : Listening(h)}}
     \/ UNCHANGED air
  /\ UNCHANGED <<hostVars, typed, heard>>

\* recvfrom() and the print.
RecvFrom(a, b) ==
  /\ Listening(b)
  /\ <<a, b>> \in air
  /\ air' = air \ {<<a, b>>}
  /\ heard' = [heard EXCEPT ![b] = @ \cup {a}]
  /\ UNCHANGED <<hostVars, typed>>

Lose(d) ==
  /\ d \in air
  /\ air' = air \ {d}
  /\ UNCHANGED <<hostVars, typed, heard>>

\* The user.
Type(h) ==
  /\ Alive(h)
  /\ typed[h] = "nothing"
  /\ \E l \in {"quit", "other", "eof"} : typed' = [typed EXCEPT ![h] = l]
  /\ UNCHANGED <<hostVars, air, heard>>

MainStep(h) == CreateReceiver(h) \/ CreateSender(h) \/ Prompt(h)

Next ==
  \/ \E h \in Hosts :
       MainStep(h) \/ SetUpReceiver(h) \/ SetUpSender(h) \/ SendTo(h) \/ Type(h)
  \/ \E a, b \in Hosts : RecvFrom(a, b) \/ Lose(<<a, b>>)

\* main() and the set-ups run.  Not every sendto() fails and not every message
\* is lost: what is sent again and again arrives at last.
Fairness ==
  /\ \A h \in Hosts :
       /\ WF_bvars(MainStep(h))
       /\ WF_bvars(SetUpReceiver(h)) /\ WF_bvars(SetUpSender(h))
       /\ SF_bvars(SendTo(h) /\ air' /= air)
  /\ \A a, b \in Hosts : SF_bvars(RecvFrom(a, b))

Spec == Init /\ [][Next]_bvars /\ Fairness

---------------------------------------------------------------------------
\* The host that sends is heard by every host that listens, though messages are
\* lost and no one acknowledges them: unless one of the two ends first.
PeersAreHeard ==
  \A a, b \in Hosts :
    sender[a] = "loop" /\ Listening(b)
      ~> a \in heard[b] \/ ~Alive(a) \/ ~Alive(b)

\* A user who types "quit" or "exit" ends the program, whatever became of the
\* threads' set-ups and while they are in their loops.
QuitEnds == \A h \in Hosts : typed[h] = "quit" ~> ~Alive(h)

\* The prompt stops at the end of stdin.
EofEnds == \A h \in Hosts : typed[h] = "eof" ~> ~Alive(h)
=============================================================================
