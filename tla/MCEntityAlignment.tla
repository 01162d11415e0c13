-------------------------- MODULE MCEntityAlignment -------------------------
(***************************************************************************)
(* Instances of EntityAlignment.                                           *)
(***************************************************************************)
EXTENDS EntityAlignment, TLC

CONSTANTS j1, j2, s1, a, b

\* Rows 1 and 3 with two raw values of one field; row 2 is blank.
OneField == <<[k \in Keys |-> CASE k = 1 -> a [] k = 2 -> Blank [] k = 3 -> b]>>
OneSet == <<s1>>

\* Two rows and two fields on one target set; the fields share a raw value.
TwoFields == <<1 :> a @@ 2 :> b, 1 :> b @@ 2 :> Blank>>
SharedSet == <<s1, s1>>

\* A full job, and one over the rows that wait for a review.
FromOne   == [j \in Jobs |-> 1]
ToThree   == [j \in Jobs |-> 3]
FullFirst == [j \in Jobs |-> j # j1]
AllFull   == [j \in Jobs |-> FALSE]
=============================================================================
