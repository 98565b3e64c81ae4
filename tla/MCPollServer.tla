---------------------------- MODULE MCPollServer ----------------------------
(* PollServer for TLC: the elements of the constant sets are interchangeable *)
(* in the runs whose constants do not single one out.                 *)
EXTENDS PollServer, TLC

Symmetry == Permutations(Clients)
=============================================================================
