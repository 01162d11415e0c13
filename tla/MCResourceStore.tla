--------------------------- MODULE MCResourceStore ---------------------------
(* A small instance of ResourceStore for TLC. *)
EXTENDS ResourceStore

CONSTANTS c1, c2, i1, v1, v2

Asked(kind, config) == [of |-> <<kind, i1>>, config |-> config]

\* Two configurations of one model, and one of each other kind, whose saves
\* differ from its in the columns only.
FewRequests ==
  {Asked("llm", v1), Asked("llm", v2), Asked("embedding", v1), Asked("database", v1)}
=============================================================================
