---------------------------- MODULE MCHttpServer ----------------------------
(* HttpServer for TLC: the requests, and the elements of the constant sets   *)
(* interchangeable in the runs whose constants do not single one out.        *)
EXTENDS HttpServer, TLC

\* Among them two with several Content-Length headers: the last one counts.
AllRequests ==
  { Request("page", <<"negative", "fits">>),
    Request("missing", <<>>),
    Request("page", <<"fits", "junk">>) }
OnePage == {Request("page", <<>>)}
OneMissing == {Request("missing", <<>>)}

Symmetry == Permutations(Clients)
=============================================================================
