--------------------------- MODULE MCJobQueueAdmin ---------------------------
(* Instances of JobQueueAdmin for TLC: one job with a budget of two, two     *)
(* goroutines and two concurrent retry requests.                             *)
EXTENDS JobQueueAdmin, TLC

CONSTANTS j1, t1, t2, p1, p2, a1, a2

HostApart == t1 :> p1 @@ t2 :> p2
HostTogether == t1 :> p1 @@ t2 :> p1
Budget == j1 :> 2
UnitBackoff == [n \in 1..2 |-> n]

\* The two requests are interchangeable.
Symmetry == Permutations(Admins)
=============================================================================
