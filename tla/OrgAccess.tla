----------------------------- MODULE OrgAccess -----------------------------
(***************************************************************************)
(* Requests to the routes of an organization: who sends them, a signed-in  *)
(* person or an API key, which organization they resolve to, the guards of *)
(* the routes, and the check that services repeat before they write.       *)
(* Memberships change meanwhile as OrgMembership lets them, and keys are   *)
(* made, revoked and expire.  A step is one statement, or reads without a  *)
(* write in between that decide whether the request goes on.               *)
(***************************************************************************)
EXTENDS Naturals, FiniteSets

CONSTANTS
    People,
    Orgs,
    Keys,           \* organization_api_keys rows that may be created
    Calls,          \* slots for concurrent requests
    MaxChanges,     \* bound: memberships that change
    MaxCalls,       \* bound: requests
    Nobody

ASSUME AccessAssumption ==
    /\ MaxChanges \in Nat /\ MaxCalls \in Nat
    /\ Nobody \notin People \union Keys \union Orgs

VARIABLES
    role,       \* organization_memberships
    key,        \* organization_api_keys
    call,       \* what each request is doing
    touching,   \* keys with a goroutine that will set last_used_at
    changes, calls,
    last        \* history: what was done, and by what right, since a request began

accessVars == <<role, key, call, touching, changes, calls, last>>

Roles == {"none", "member", "admin", "owner"}
OrgRoleCanManage(r) == r \in {"owner", "admin"}

Plain == {"listNotes", "createNote"}
KeyOps == {"createKey", "revokeKey"}
AdminOps == KeyOps \union {"manageWebhook", "deleteNote"}
Ops == Plain \union AdminOps

NoKey == [org |-> Nobody, write |-> FALSE, by |-> Nobody, revoked |-> Nobody,
          expired |-> FALSE, touched |-> FALSE]
KeyRows == [org : Orgs, write : BOOLEAN, by : People, revoked : People \union {Nobody},
            expired : BOOLEAN, touched : BOOLEAN]

\* who and with are the caller and the key presented; the rest is history: the
\* roles who has had in the organization during the request, and whether the
\* key was good when it was looked up.
CallRows == [step : {"tenant", "recheck", "write"}, op : Ops, org : Orgs,
             who : People \union {Nobody}, with : Keys \union {Nobody},
             had : SUBSET Roles, good : BOOLEAN]
NoCall == [step |-> "idle"]

AccessTypeOK ==
    /\ role \in [Orgs -> [People -> Roles]]
    /\ key \in [Keys -> KeyRows \union {NoKey}]
    /\ call \in [Calls -> CallRows \union {NoCall}]
    /\ touching \subseteq Keys
    /\ changes \in Nat /\ calls \in Nat
    /\ last \in CallRows \union {NoCall}

\* Each organization has its owner.
AccessInit ==
    /\ role \in [Orgs -> [People -> {"none", "owner"}]]
    /\ \A o \in Orgs : Cardinality({u \in People : role[o][u] = "owner"}) = 1
    /\ key = [k \in Keys |-> NoKey]
    /\ call = [c \in Calls |-> NoCall]
    /\ touching = {}
    /\ changes = 0 /\ calls = 0
    /\ last = NoCall

Serve(c, row) == call' = [call EXCEPT ![c] = row]
Hang(c) == Serve(c, NoCall)
To(c, step) == Serve(c, [call[c] EXCEPT !.step = step])

-----------------------------------------------------------------------------
(* OrganizationGroupAuthMiddleware.                                        *)

\* A token, believed until it expires; nothing is read.
AuthenticatePerson(c, u, o, op) ==
    /\ call[c] = NoCall
    /\ calls < MaxCalls /\ calls' = calls + 1
    /\ Serve(c, [step |-> "tenant", op |-> op, org |-> o, who |-> u, with |-> Nobody,
                 had |-> {role[o][u]}, good |-> FALSE])
    /\ last' = NoCall
    /\ UNCHANGED <<role, key, touching, changes>>

Good(k) == key[k] # NoKey /\ key[k].revoked = Nobody /\ ~key[k].expired

FindUnexpired(k) == key[k] # NoKey /\ ~key[k].expired                       \* mutant
FindActive(k) == key[k] # NoKey /\ key[k].revoked = Nobody /\ ~key[k].expired

\* The row must be active; last_used_at is set later, by a goroutine.
AuthenticateKey(c, k, o, op) ==
    /\ call[c] = NoCall
    /\ calls < MaxCalls /\ calls' = calls + 1
    /\ FindActive(k)
    /\ touching' = touching \union {k}
    /\ Serve(c, [step |-> "tenant", op |-> op, org |-> o, who |-> Nobody, with |-> k,
                 had |-> {}, good |-> Good(k)])
    /\ last' = NoCall
    /\ UNCHANGED <<role, key, changes>>

TouchRevoked(k) == TRUE                                                     \* mutant
Touchable(k) == key[k].revoked = Nobody

TouchLastUsed(k) ==
    /\ k \in touching
    /\ touching' = touching \ {k}
    /\ key' = IF Touchable(k) THEN [key EXCEPT ![k].touched = TRUE] ELSE key
    /\ UNCHANGED <<role, call, changes, calls, last>>

-----------------------------------------------------------------------------
(* OrganizationTenantMiddleware and the guards of the routes.              *)

MayRead(t) == TRUE                      \* every scope implies org:read
MayWrite(t) == t.with # Nobody => key[t.with].write

\* RequireOrgAccessRead, RequireOrgAccessWrite and RequireOrgAdmin.
Guard(t) ==
    CASE t.op = "listNotes"  -> MayRead(t)
      [] t.op = "createNote" -> MayWrite(t)
      [] OTHER -> t.with = Nobody /\ OrgRoleCanManage(role[t.org][t.who])

\* A key belongs to one organization; a person must be a member.  Services of
\* keys and webhooks look at the role again, the notes do not.
ResolveTenant(c) ==
    /\ call[c] # NoCall /\ call[c].step = "tenant"
    /\ LET t == call[c] IN
          /\ IF t.with # Nobody THEN key[t.with].org = t.org ELSE role[t.org][t.who] # "none"
          /\ Guard(t)
          /\ To(c, IF t.op \in KeyOps \union {"manageWebhook"} THEN "recheck" ELSE "write")
    /\ UNCHANGED <<role, key, touching, changes, calls, last>>

\* 401, 403, 404, or an error of a statement.
Refuse(c) ==
    /\ call[c] # NoCall
    /\ Hang(c)
    /\ UNCHANGED <<role, key, touching, changes, calls, last>>

-----------------------------------------------------------------------------
(* The services.                                                           *)

RequireOrgManager(c) ==
    /\ call[c] # NoCall /\ call[c].step = "recheck"
    /\ OrgRoleCanManage(role[call[c].org][call[c].who])
    /\ To(c, "write")
    /\ UNCHANGED <<role, key, touching, changes, calls, last>>

RevocableAgain(k, o) == key[k].org = o                                      \* mutant
Revocable(k, o) == key[k].org = o /\ key[k].revoked = Nobody

At(c, ops) == call[c] # NoCall /\ call[c].step = "write" /\ call[c].op \in ops

\* One INSERT, UPDATE or DELETE, and the answer.
Done(c) ==
    /\ last' = call[c]
    /\ Hang(c)
    /\ UNCHANGED <<role, touching, changes, calls>>

CreateOrganizationAPIKey(c) ==
    /\ At(c, {"createKey"})
    /\ \E k \in Keys, w \in BOOLEAN :
          /\ key[k] = NoKey
          /\ key' = [key EXCEPT ![k] =
                [NoKey EXCEPT !.org = call[c].org, !.write = w, !.by = call[c].who]]
    /\ Done(c)

RevokeOrganizationAPIKey(c) ==
    /\ At(c, {"revokeKey"})
    /\ \E k \in Keys :
          /\ Revocable(k, call[c].org)
          /\ key' = [key EXCEPT ![k].revoked = call[c].who]
    /\ Done(c)

\* Notes of the organization in the route; webhooks are in WebhookDelivery.
ServeNotes(c) == At(c, {"listNotes", "createNote", "deleteNote"}) /\ Done(c) /\ UNCHANGED key
ServeWebhooks(c) == At(c, {"manageWebhook"}) /\ Done(c) /\ UNCHANGED key

-----------------------------------------------------------------------------

\* An invitation accepted, or a member removed: see OrgMembership.
ChangeRole(o, u, r) ==
    /\ changes < MaxChanges /\ changes' = changes + 1
    /\ role[o][u] # r
    /\ \/ role[o][u] = "none" /\ r \in {"member", "admin"}
       \/ role[o][u] = "member" /\ r = "admin"
       \/ role[o][u] \in {"member", "admin"} /\ r = "none"
    /\ role' = [role EXCEPT ![o][u] = r]
    /\ call' = [c \in Calls |->
          IF call[c] # NoCall /\ call[c].org = o /\ call[c].who = u
          THEN [call[c] EXCEPT !.had = @ \union {r}] ELSE call[c]]
    /\ UNCHANGED <<key, touching, calls, last>>

ExpireKey(k) ==
    /\ key[k] # NoKey /\ ~key[k].expired
    /\ key' = [key EXCEPT ![k].expired = TRUE]
    /\ UNCHANGED <<role, call, touching, changes, calls, last>>

AccessNext ==
    \/ \E o \in Orgs, u \in People, r \in Roles : ChangeRole(o, u, r)
    \/ \E k \in Keys : ExpireKey(k) \/ TouchLastUsed(k)
    \/ \E c \in Calls :
          \/ \E o \in Orgs, op \in Ops :
                \/ \E u \in People : AuthenticatePerson(c, u, o, op)
                \/ \E k \in Keys : AuthenticateKey(c, k, o, op)
          \/ ResolveTenant(c)
          \/ RequireOrgManager(c)
          \/ CreateOrganizationAPIKey(c)
          \/ RevokeOrganizationAPIKey(c)
          \/ ServeNotes(c)
          \/ ServeWebhooks(c)
          \/ Refuse(c)

AccessSpec == AccessInit /\ [][AccessNext]_accessVars

-----------------------------------------------------------------------------

\* Whatever was done was done by right: with a key that was good when presented,
\* in its own organization, for what its scope allows and never for what needs
\* an administrator; or by someone who was a member, and where it matters a
\* manager, of that very organization while the request ran.
Entitled ==
    last # NoCall =>
        IF last.with # Nobody
        THEN /\ last.good
             /\ last.org = key[last.with].org
             /\ last.op \in Plain
             /\ last.op = "createNote" => key[last.with].write
        ELSE /\ last.had # {"none"}
             /\ last.op \in AdminOps => \E r \in last.had : OrgRoleCanManage(r)

\* The row of a revoked key stays as it was: no late goroutine marks it used, and
\* no second revocation changes when and by whom it ended.
RevokedStays ==
    [][\A k \in Keys : key[k].revoked # Nobody =>
          /\ key'[k].revoked = key[k].revoked
          /\ key'[k].touched = key[k].touched]_accessVars
=============================================================================
