---------------------------- MODULE HttpMessages ----------------------------
(* my_http_server: what the parser makes of a request, what the router       *)
(* answers, and what of the answer goes out.                                 *)
EXTENDS Naturals, Sequences, SequencesExt

\* A request: whether its path is a directory under http_root, and the values
\* of its Content-Length headers, in order.  std::stoi() rejects "junk"; a
\* negative number becomes a size that the body cannot have.
Paths   == {"page", "missing"}
Lengths == {"fits", "junk", "negative"}
Request(path, lengths) == [path |-> path, lengths |-> lengths]
IsRequest(r) ==
  /\ r = Request(r.path, r.lengths)
  /\ r.path \in Paths
  /\ \A n \in DOMAIN r.lengths : r.lengths[n] \in Lengths

\* How much of a request one recv() brings: less than its path, the first
\* line, the name of its last header without the value, or all of it.
Cuts == {"path", "line", "name", "all"}

\* parse(): m_headers keeps the last of several headers of one name.
Parse(r, cut) ==
  [path   |-> IF cut = "path" THEN "cut" ELSE r.path,
   length |-> IF cut \in {"path", "line"} \/ r.lengths = <<>> THEN "none"
              ELSE IF cut = "name" THEN "junk" ELSE Last(r.lengths)]

Throws(parsed) == parsed.length \in {"junk", "negative"}

Response(status, body) == [status |-> status, body |-> body]

\* Variant: the router leaves m_status, which the constructor does not set.
RouteWithoutStatus(parsed) ==
  {Response(s, IF parsed.path = "page" THEN "page" ELSE "other") : s \in {0, 404}}

\* route(): the part of a path that has come may itself be a directory.  A
\* page that cannot be read leaves the body empty.
Route(parsed) ==
  LET found == IF parsed.path = "cut" THEN BOOLEAN ELSE {parsed.path = "page"}
  IN  {Response(IF f THEN 200 ELSE 404, b) :
         f \in found, b \in {"none", IF parsed.path = "page" THEN "page" ELSE "other"}}

\* to_string(): set_body() has stored a Content-Length, and another is added.
to_string(response) ==
  [status |-> response.status, body |-> response.body,
   lengths |-> IF response.body = "none" THEN 1 ELSE 2]
=============================================================================
