----------------------------- MODULE MCAccounts -----------------------------
(***************************************************************************)
(* Instances of LoginFactors and MailTokens for TLC.  The users row is all *)
(* they share: LoginFactors' VerifyEmail is MailTokens' Consume of a       *)
(* verification link, seen from the sign-in.  A behaviour therefore runs   *)
(* one of them while the other stays at rest, and the states explored are  *)
(* the sum of the two and not their product.                               *)
(***************************************************************************)
EXTENDS LoginFactors, MailTokens, TLC

CONSTANTS r1, r2, c1, s1, x1, x2, t1, t2, t3

Alike == Permutations(Requests) \union Permutations(Codes)
             \union Permutations(Links)

AccountsInit == Init /\ MailInit

AccountsNext ==
    \/ MailInit /\ Next /\ UNCHANGED mailVars
    \/ Init /\ MailNext /\ UNCHANGED vars

AccountsSpec == AccountsInit /\ [][AccountsNext]_<<vars, mailVars>>
=============================================================================
