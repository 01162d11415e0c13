----------------------------- MODULE PageOutcome ----------------------------
(***************************************************************************)
(* What processing a page promises to the page loop of a job: it returns   *)
(* once, with every row of the page in exactly one of the two lists.  This *)
(* is the single step that EnrichExtract takes for a page.                 *)
(***************************************************************************)
CONSTANT Rows  \* rows of the page

VARIABLES
  returned,  \* processPage has returned
  ok,        \* rows of PageResult.Successes
  failed     \* rows of PageResult.Errors

Init == returned = FALSE /\ ok = {} /\ failed = {}

Return ==
  /\ ~returned
  /\ returned' = TRUE
  /\ ok' \in SUBSET Rows
  /\ failed' = Rows \ ok'

Spec == Init /\ [][Return]_<<returned, ok, failed>>

FairSpec == Spec /\ WF_<<returned, ok, failed>>(Return)
=============================================================================
