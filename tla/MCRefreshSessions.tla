-------------------------- MODULE MCRefreshSessions --------------------------
(* Instances of RefreshSessions for TLC: the sessions of one user, and the   *)
(* requests racing over them, are interchangeable.                           *)
EXTENDS RefreshSessions, TLC

CONSTANTS u1

OneOwner == [s \in Sessions |-> u1]
OneResetOwner == [r \in ResetTokens |-> u1]
Symmetry == Permutations(Sessions) \union Permutations(Requests) \union Permutations(ResetTokens)
=============================================================================
