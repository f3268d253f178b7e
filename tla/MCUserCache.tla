---------------------------- MODULE MCUserCache ----------------------------
(* Instances of UserCache for TLC, with one more spelling of an address.    *)
EXTENDS UserCache, TLC

CONSTANTS e1, E1

MCNorm == [k \in Keys |-> IF k = E1 THEN e1 ELSE k]
\* Without other spellings, Norm is the identity and addresses are alike.
Symmetry ==
    Permutations(Requests) \union Permutations(Users \ Registered)
        \union IF Keys = Emails THEN Permutations(Emails) ELSE {}
=============================================================================
