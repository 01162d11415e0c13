------------------------- MODULE MCResourceLimiter --------------------------
(***************************************************************************)
(* Instances of ResourceLimiter: two jobs, with different limits as soon   *)
(* as the limit of their resource is changed between their starts.         *)
(***************************************************************************)
EXTENDS ResourceLimiter, TLC

CONSTANTS r1, c1, c2, w1, w2, w3, w4

\* Both jobs call the same resource.
OneResource == c1 :> r1 @@ c2 :> r1

\* Two workers of the first job and one of the second; three and one.
ThreeWorkers == w1 :> c1 @@ w2 :> c1 @@ w3 :> c2
ThreeOfOne   == w1 :> c1 @@ w2 :> c1 @@ w3 :> c1 @@ w4 :> c2

AnyEntry == Permutations(Entries)
=============================================================================
