--------------------------- MODULE MCEnrichExtract ---------------------------
(***************************************************************************)
(* Instances of EnrichExtract for TLC: one job over several pages, and two *)
(* jobs with overlapping ranges that share the output table.               *)
(***************************************************************************)
EXTENDS EnrichExtract, TLC

CONSTANTS j1, j2

\* One job asks for keys 2..6 of 1..6.
OneStart == [j \in {j1} |-> 2]
OneEnd   == [j \in {j1} |-> 6]
Keeps    == [j \in {j1} |-> FALSE]

\* j1 keeps existing rows, j2 replaces them.
TwoStart == j1 :> 1 @@ j2 :> 3
TwoEnd   == j1 :> 3 @@ j2 :> 3
Mixed    == j1 :> FALSE @@ j2 :> TRUE
=============================================================================
