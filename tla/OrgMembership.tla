--------------------------- MODULE OrgMembership ---------------------------
(***************************************************************************)
(* The members of one organization and the invitations into it: who may    *)
(* invite, accept, remove, and what happens when these requests interleave *)
(* with each other, with changes of a user's e-mail address and with the   *)
(* deletion of accounts.                                                   *)
(*                                                                         *)
(* Only AcceptOrganizationInvitation runs in a transaction, at READ        *)
(* COMMITTED and without locking reads; every other statement commits by   *)
(* itself.  A step is one statement, except that the writes of the         *)
(* acceptance are one step with its COMMIT, and that reads which together  *)
(* decide only whether a request goes on are one step.                     *)
(***************************************************************************)
EXTENDS Integers, FiniteSets

CONSTANTS
    Users,
    Creator,        \* created_by_user_id, the owner CreateOrganization makes
    Addresses,      \* normalised e-mail addresses
    Invitations,    \* rows of organization_invitations, each with its token
    Requests,       \* concurrent HTTP requests
    MaxMoves,       \* bound: addresses a user takes besides the first
    None

ASSUME MembershipAssumption ==
    /\ Creator \in Users
    /\ MaxMoves \in Nat
    /\ None \notin Users \union Addresses \union Invitations
    /\ \E f \in [Users -> Addresses] : \A u, v \in Users : f[u] = f[v] => u = v

VARIABLES
    alive,      \* rows of users
    address,    \* users.email
    member,     \* organization_memberships: the role, or "none"
    inv,        \* organization_invitations
    pc,         \* next statement of each request
    actor,      \* the authenticated user
    target,     \* the address invited, the actor's address, or the user removed
    token,      \* the invitation whose token is presented
    grant,      \* the role to be given
    was,        \* the membership role the request read
    held        \* history: which addresses a user has had

tableVars == <<alive, address, member, inv, held>>
requestVars == <<pc, actor, target, token, grant, was>>
vars == <<tableVars, requestVars>>

-----------------------------------------------------------------------------

InviteRoles == {"admin", "member"}                  \* IsValidOrgInviteRole
Managers == {"owner", "admin"}                      \* OrgRoleCanManageOrganization
OrgInviteRank(role) == CASE role = "admin" -> 2 [] role = "member" -> 1 [] OTHER -> 0

NoInvitation == [status |-> "absent", addr |-> None, role |-> "none", by |-> None]
Invitation ==
    [status : {"pending", "accepted", "deleted"}, addr : Addresses, role : InviteRoles, by : Users]

TypeOK ==
    /\ alive \subseteq Users
    /\ address \in [Users -> Addresses]
    /\ member \in [Users -> {"none", "member", "admin", "owner"}]
    /\ inv \in [Invitations -> Invitation \union {NoInvitation}]
    /\ pc \in [Requests -> {"idle", "check", "supersede", "create", "read", "existing",
                            "accept", "target", "delete"}]
    /\ actor \in [Requests -> Users \union {None}]
    /\ target \in [Requests -> Users \union Addresses \union {None}]
    /\ token \in [Requests -> Invitations \union {None}]
    /\ grant \in [Requests -> InviteRoles \union {"none"}]
    /\ was \in [Requests -> {"none", "member", "admin", "owner"}]
    /\ held \subseteq Users \X Addresses

\* CreateOrganization has committed; no two accounts share an address.
Init ==
    /\ alive = Users
    /\ address \in [Users -> Addresses]
    /\ \A u, v \in Users : address[u] = address[v] => u = v
    /\ member = [u \in Users |-> IF u = Creator THEN "owner" ELSE "none"]
    /\ inv = [i \in Invitations |-> NoInvitation]
    /\ pc = [p \in Requests |-> "idle"]
    /\ actor = [p \in Requests |-> None]
    /\ target = [p \in Requests |-> None]
    /\ token = [p \in Requests |-> None]
    /\ grant = [p \in Requests |-> "none"]
    /\ was = [p \in Requests |-> "none"]
    /\ held = {<<u, address[u]>> : u \in Users}

Goto(p, label) == pc' = [pc EXCEPT ![p] = label]

Begin(p, label, u, x, i, role) ==
    /\ pc[p] = "idle"
    /\ u \in alive
    /\ Goto(p, label)
    /\ actor' = [actor EXCEPT ![p] = u]
    /\ target' = [target EXCEPT ![p] = x]
    /\ token' = [token EXCEPT ![p] = i]
    /\ grant' = [grant EXCEPT ![p] = role]
    /\ UNCHANGED <<was, tableVars>>

End(p) ==
    /\ Goto(p, "idle")
    /\ actor' = [actor EXCEPT ![p] = None]
    /\ target' = [target EXCEPT ![p] = None]
    /\ token' = [token EXCEPT ![p] = None]
    /\ grant' = [grant EXCEPT ![p] = "none"]
    /\ was' = [was EXCEPT ![p] = "none"]

\* The request is refused, or one of its statements fails.
Refused(p) ==
    /\ pc[p] # "idle"
    /\ End(p)
    /\ UNCHANGED tableVars

-----------------------------------------------------------------------------
(* CreateOrganizationInvitation.                                           *)

Invite(p, u, a, role) ==
    /\ member[u] \in Managers
    /\ Begin(p, "check", u, a, None, role)

CheckNotMember(p) ==
    /\ pc[p] = "check"
    /\ \A u \in alive : address[u] = target[p] => member[u] = "none"
    /\ Goto(p, "supersede")
    /\ UNCHANGED <<actor, target, token, grant, was, tableVars>>

\* DeletePendingInvitationsForEmail.
SupersedePending(p) ==
    /\ pc[p] = "supersede"
    /\ inv' = [i \in Invitations |->
                 IF inv[i].addr = target[p] /\ inv[i].status = "pending"
                 THEN [inv[i] EXCEPT !.status = "deleted"] ELSE inv[i]]
    /\ Goto(p, "create")
    /\ UNCHANGED <<actor, target, token, grant, was, alive, address, member, held>>

Invited(p) == target[p]

\* The foreign keys ask for the organization and the inviting account.
CreateInvitation(p) ==
    /\ pc[p] = "create"
    /\ {Creator, actor[p]} \subseteq alive
    /\ \E i \in Invitations :
          /\ inv[i] = NoInvitation
          /\ inv' = [inv EXCEPT ![i] = [status |-> "pending", addr |-> Invited(p),
                                        role |-> grant[p], by |-> actor[p]]]
    /\ End(p)
    /\ UNCHANGED <<alive, address, member, held>>

-----------------------------------------------------------------------------
(* AcceptOrganizationInvitation.                                           *)

\* The account, and so the address, is read before the transaction.
AcceptInvitation(p, u, i) ==
    /\ inv[i] # NoInvitation
    /\ Begin(p, "read", u, address[u], i, "none")

AnyEmail(p) == TRUE                                                     \* mutant
EmailMatches(p) == inv[token[p]].addr = target[p]

ReadInvitation(p) ==
    /\ pc[p] = "read"
    /\ inv[token[p]].status = "pending"
    /\ EmailMatches(p)
    /\ grant' = [grant EXCEPT ![p] = inv[token[p]].role]
    /\ Goto(p, "existing")
    /\ UNCHANGED <<actor, target, token, was, tableVars>>

ReadMembership(p) ==
    /\ pc[p] = "existing"
    /\ was' = [was EXCEPT ![p] = member[actor[p]]]
    /\ Goto(p, "accept")
    /\ UNCHANGED <<actor, target, token, grant, tableVars>>

\* Does the acceptance save a role for a user who is a member already?
\* Mutant: owners, who have no rank among invitations, are not kept.
UpgradesIfRanked(p) == was[p] # "none" /\ OrgInviteRank(grant[p]) > OrgInviteRank(was[p])
Upgrades(p) ==
    /\ was[p] \notin {"none", "owner"}
    /\ OrgInviteRank(grant[p]) > OrgInviteRank(was[p])

\* INSERT of a new membership, whose primary key must be free; or Save of the
\* row read before, which gorm inserts if it is gone; or nothing.  Then
\* accepted_at is set, if the invitation's row is still there, and COMMIT.
Inserts(p) == was[p] = "none"
KeyIgnored(p) == TRUE                                                   \* mutant
KeyFree(p) == Inserts(p) => member[actor[p]] = "none"

AcceptCommit(p) ==
    /\ pc[p] = "accept"
    /\ LET u == actor[p] IN
          /\ KeyFree(p)
          /\ IF Inserts(p) \/ Upgrades(p)
             THEN /\ {Creator, u} \subseteq alive
                  /\ member' = [member EXCEPT ![u] = grant[p]]
             ELSE UNCHANGED member
    /\ inv' = [inv EXCEPT ![token[p]].status = IF @ = "deleted" THEN @ ELSE "accepted"]
    /\ End(p)
    /\ UNCHANGED <<alive, address, held>>

-----------------------------------------------------------------------------
(* RemoveOrganizationMember, and what befalls the accounts.                *)

RemoveMember(p, u, v) ==
    /\ member[u] \in Managers
    /\ Begin(p, "target", u, v, None, "none")

Owners == {v \in Users : member[v] = "owner"}
LastOwner(v) == member[v] = "owner" /\ Cardinality(Owners) <= 1
LastOwnerOffByOne(v) == member[v] = "owner" /\ Cardinality(Owners) < 1  \* mutant
KeptOwner(v) == LastOwner(v)

CheckTarget(p) ==
    /\ pc[p] = "target"
    /\ member[target[p]] # "none"
    /\ ~KeptOwner(target[p])
    /\ Goto(p, "delete")
    /\ UNCHANGED <<actor, target, token, grant, was, tableVars>>

\* DeleteMembership looks at neither role nor actor again.
DeleteMembership(p) ==
    /\ pc[p] = "delete"
    /\ member' = [member EXCEPT ![target[p]] = "none"]
    /\ End(p)
    /\ UNCHANGED <<alive, address, inv, held>>

\* UpdateUser with a new address; the column is unique.
ChangeEmail(u, a) ==
    /\ u \in alive
    /\ \A v \in alive : address[v] # a
    /\ address' = [address EXCEPT ![u] = a]
    /\ held' = held \union {<<u, a>>}
    /\ Cardinality(held') <= Cardinality(Users) + MaxMoves
    /\ UNCHANGED <<alive, member, inv, requestVars>>

\* ON DELETE CASCADE: memberships and sent invitations go with the account, and
\* with the creator's the organization and all that belongs to it.
DeleteUser(u) ==
    /\ u \in alive
    /\ alive' = alive \ {u}
    /\ member' = [v \in Users |-> IF v = u \/ u = Creator THEN "none" ELSE member[v]]
    /\ inv' = [i \in Invitations |->
                 IF inv[i] # NoInvitation /\ (inv[i].by = u \/ u = Creator)
                 THEN [inv[i] EXCEPT !.status = "deleted"] ELSE inv[i]]
    /\ UNCHANGED <<address, held, requestVars>>

Request(p) ==
    \/ \E u \in Users, a \in Addresses, role \in InviteRoles : Invite(p, u, a, role)
    \/ CheckNotMember(p)
    \/ SupersedePending(p)
    \/ CreateInvitation(p)
    \/ \E u \in Users, i \in Invitations : AcceptInvitation(p, u, i)
    \/ ReadInvitation(p)
    \/ ReadMembership(p)
    \/ AcceptCommit(p)
    \/ \E u, v \in Users : RemoveMember(p, u, v)
    \/ CheckTarget(p)
    \/ DeleteMembership(p)
    \/ Refused(p)

Next ==
    \/ \E p \in Requests : Request(p)
    \/ \E u \in Users, a \in Addresses : ChangeEmail(u, a)
    \/ \E u \in Users : DeleteUser(u)

Spec == Init /\ [][Next]_vars

-----------------------------------------------------------------------------

\* The organization always has its owner, and only the one who created it: no
\* acceptance demotes or makes an owner, no removal takes the last one, and an
\* account that goes takes its organization along.
SoleOwner ==
    \A u \in Users : member[u] = "owner" <=> u = Creator /\ Creator \in alive

\* Nobody is a member, or an administrator, without an invitation for just that
\* role to an address that was once theirs, however requests and changes of
\* address interleave.
Earned ==
    \A u \in Users \ {Creator} : member[u] # "none" =>
        \E i \in Invitations : inv[i].role = member[u] /\ <<u, inv[i].addr>> \in held

\* An acceptance never lowers a role, though it writes a row it read earlier and
\* does not lock: who was an administrator is one or is no member any more.
NeverDemoted ==
    [][\A u \in Users : member[u] \in Managers => member'[u] \in {member[u], "none"}]_vars

-----------------------------------------------------------------------------
(* The inductive invariant behind them.                                    *)

Inviting(p) == pc[p] \in {"check", "supersede", "create"}
Accepting(p) == pc[p] \in {"read", "existing", "accept"}

\* The local variables of each handler.
LocalsOK ==
    \A p \in Requests :
        /\ pc[p] # "idle" => actor[p] \in Users
        /\ Inviting(p) => target[p] \in Addresses /\ grant[p] \in InviteRoles
        /\ Accepting(p) => target[p] \in Addresses /\ token[p] \in Invitations
        /\ pc[p] \in {"target", "delete"} => target[p] \in Users

\* What an acceptance has read was true of the invitation and the account, and
\* neither row nor address is ever given to others in this role.
AcceptOK ==
    \A p \in Requests : Accepting(p) =>
        /\ inv[token[p]] # NoInvitation
        /\ <<actor[p], target[p]>> \in held
        /\ pc[p] # "read" => /\ inv[token[p]].addr = target[p]
                             /\ inv[token[p]].role = grant[p]
        /\ pc[p] = "accept" /\ actor[p] = Creator => was[p] = "owner" \/ Creator \notin alive

\* A removal that will go through is not the owner's.
RemoveOK ==
    \A p \in Requests : pc[p] = "delete" => target[p] # Creator \/ Creator \notin alive

AddressesHeld == \A u \in Users : <<u, address[u]>> \in held

IInv ==
    /\ TypeOK
    /\ LocalsOK
    /\ AcceptOK
    /\ RemoveOK
    /\ AddressesHeld
    /\ SoleOwner
    /\ Earned

=============================================================================
