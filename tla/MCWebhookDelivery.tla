-------------------------- MODULE MCWebhookDelivery --------------------------
(***************************************************************************)
(* Instances of WebhookDelivery and OrgDirectory for TLC: the webhooks of  *)
(* an organization, and the names of organizations.  They share no row, so *)
(* a behaviour runs one of them while the other stays at rest.             *)
(***************************************************************************)
EXTENDS WebhookDelivery, OrgDirectory, TLC

CONSTANTS h1, e1, e2, a1, a2, t1, t2, acme, acme7, id1

Alike == Permutations(Admins) \union Permutations(Names)

(* A slug, the same with a suffix, and the first organization's id. *)
MCSlugOf == [n \in Names |-> acme]
MCSuffixed == [s \in Slugs |-> {acme7}]
MCReadsAs == [s \in Slugs |-> IF s = id1 THEN t1 ELSE NotAnId]

OrgInit == Init /\ DirectoryInit

OrgNext ==
    \/ edits = 0 /\ Next /\ UNCHANGED dirVars
    \/ /\ keys = 0 /\ \A e \in Events : epc[e] = "new"
       /\ DirectoryNext /\ UNCHANGED vars

OrgSpec == OrgInit /\ [][OrgNext]_<<vars, dirVars>>
=============================================================================
