-------------------------- MODULE MCOrgMembership --------------------------
(* Instances of OrgMembership for TLC: the creator and other users, who are  *)
(* interchangeable, as are addresses, invitations and requests.              *)
EXTENDS OrgMembership, TLC

Symmetry ==
    UNION {Permutations(Users \ {Creator}), Permutations(Addresses),
           Permutations(Invitations), Permutations(Requests)}
=============================================================================
