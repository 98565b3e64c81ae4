----------------------------- MODULE HttpExchange -----------------------------
(* What a client of a page promises, connection by connection: the request *)
(* goes out once and in order, nothing is read before all of it is out, and *)
(* what is read is what this connection brought, in order, none of it lost. *)
EXTENDS Naturals, Sequences

CONSTANT Request   \* the units of a request, in order

VARIABLES
  id,     \* the number of the connection
  phase,
  asked,  \* what has gone out on it
  got     \* what has been read from it

evars == <<id, phase, asked, got>>

Init ==
  /\ id = 0
  /\ phase = "idle"
  /\ asked = <<>> /\ got = <<>>

Connect ==
  /\ phase = "idle"
  /\ phase' = "asking"
  /\ id' = id + 1
  /\ UNCHANGED <<asked, got>>

Ask ==
  /\ phase = "asking"
  /\ \E n \in (Len(asked) + 1)..Len(Request) :
       /\ asked' = SubSeq(Request, 1, n)
       /\ phase' = IF n = Len(Request) THEN "reading" ELSE "asking"
  /\ UNCHANGED <<id, got>>

Get ==
  /\ phase = "reading"
  /\ Len(got') > Len(got)
  /\ got' = [n \in 1..Len(got') |-> <<id, n>>]
  /\ UNCHANGED <<id, phase, asked>>

End ==
  /\ phase \in {"asking", "reading"}
  /\ phase' = "idle"
  /\ asked' = <<>> /\ got' = <<>>
  /\ UNCHANGED id

Next == Connect \/ Ask \/ Get \/ End

Spec == Init /\ [][Next]_evars
=============================================================================
