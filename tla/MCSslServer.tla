---------------------------- MODULE MCSslServer ----------------------------
(* SslServer for TLC: the clients of run_client are interchangeable, and   *)
(* so are the eager ones.                                                  *)
EXTENDS SslServer, TLC

Symmetry == {p \in Permutations(Clients) : \A c \in Clients : p[c] \in Eager <=> c \in Eager}
=============================================================================
