----------------------------- MODULE MCGateway -----------------------------
(***************************************************************************)
(* Instances of RateLimiter and OrgAccess for TLC.  The limiter decides    *)
(* before the guards of a route run: so a behaviour runs one of them while *)
(* the other stays at rest.                                                *)
(***************************************************************************)
EXTENDS RateLimiter, OrgAccess, TLC

CONSTANTS p1, p2, b1, b2, u1, u2, o1, o2, k1

(* Whatever runs, what it cannot tell apart is swapped by one of these. *)
Swap(x, y) == x :> y @@ y :> x
Alike == {Swap(p1, p2), Swap(b1, b2) @@ Swap(u1, u2)} \union Permutations(Orgs)

GatewayInit == LimiterInit /\ AccessInit

GatewayNext ==
    \/ calls = 0 /\ changes = 0 /\ LimiterNext /\ UNCHANGED accessVars
    \/ started = 0 /\ mode = "memory" /\ AccessNext /\ UNCHANGED limiterVars

GatewaySpec == GatewayInit /\ [][GatewayNext]_<<limiterVars, accessVars>>
=============================================================================
