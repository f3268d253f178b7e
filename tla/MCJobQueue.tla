----------------------------- MODULE MCJobQueue -----------------------------
(* Instances of JobQueue for TLC: two jobs with different budgets, two       *)
(* goroutines in two processes or in one, and one job without a handler.     *)
EXTENDS JobQueueLife, TLC

CONSTANTS j1, j2, t1, t2, p1, p2

HostApart == t1 :> p1 @@ t2 :> p2
HostTogether == t1 :> p1 @@ t2 :> p1
TwoBudgets == j1 :> 2 @@ j2 :> 1
EqualBudgets == j1 :> 2 @@ j2 :> 2
UnitBackoff == [n \in 1..2 |-> n]
=============================================================================
