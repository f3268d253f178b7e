----------------------------- MODULE UserCache -----------------------------
(***************************************************************************)
(* The rows of users, the Redis entries that cache them under the id and   *)
(* under the e-mail address, and the requests that read and write both.    *)
(* Rows are read whole and saved whole; only the handlers of               *)
(* authentication write single columns.  Nothing makes a handler atomic: a *)
(* step is one SQL statement (or one transaction that writes one row) or   *)
(* one Redis command, whose errors the handlers log and pass over.         *)
(***************************************************************************)
EXTENDS Integers, FiniteSets

CONSTANTS
    Users,          \* ids, each given to one account
    Registered,     \* those that have one at the start
    Emails,         \* addresses as the repository normalises them
    Keys,           \* addresses as callers of GetUserByEmail spell them
    Norm,           \* normalizeEmail
    Requests,       \* concurrent HTTP requests
    MaxWrites,      \* bound: writes of rows
    MaxFaults,      \* bound: failed commands and abandoned requests
    None

ASSUME CacheAssumption ==
    /\ Registered \subseteq Users
    /\ \E f \in [Registered -> Emails] : \A u, v \in Registered : f[u] = f[v] => u = v
    /\ Emails \subseteq Keys
    /\ Norm \in [Keys -> Emails]
    /\ \A e \in Emails : Norm[e] = e
    /\ MaxWrites \in Nat /\ MaxFaults \in Nat
    /\ Requests # {}
    /\ None \notin Users \union Keys

VARIABLES
    row,        \* table users; None if there is no such row
    idKey,      \* user:id:{id}, None if absent
    emailKey,   \* user:email:{address}
    pc, op,     \* next statement of each request, and its handler
    who,        \* the id it is about
    want,       \* the address asked for, or to be set
    copy,       \* the row as the request holds it
    clock,      \* number of writes; a column holds that of its last change
    faults,     \* faults so far
    past,       \* history: the rows each user has had
    exposed     \* history: users whose entries a race or a fault may have made old

requestVars == <<pc, op, who, want, copy>>
cacheVars == <<idKey, emailKey>>
historyVars == <<clock, faults, past, exposed>>
vars == <<row, cacheVars, requestVars, historyVars>>

-----------------------------------------------------------------------------

Stamps == 0..MaxWrites

\* profile stands for the columns users and administrators edit, account for
\* those the authentication handlers write: email_verified_at, totp_enabled.
Row == [id : Users, email : Emails, profile : Stamps, account : Stamps]

ASSUME NoRowAssumption == None \notin Row

\* The statements of each handler, in order.  Where one holds a row: Holding.
Flow == [
    GetUserByID    |-> [find |-> "setID", setID |-> "setEmail", setEmail |-> "idle"],
    GetUserByEmail |-> [findEmail |-> "setEmail", setEmail |-> "setID", setID |-> "idle"],
    CreateUser     |-> [insert |-> "setID", setID |-> "setEmail", setEmail |-> "idle"],
    UpdateUser     |-> [find |-> "save", save |-> "clear", clear |-> "setID",
                        setID |-> "setEmail", setEmail |-> "idle"],
    UpdateEmail    |-> [find |-> "save", save |-> "clearOld", clearOld |-> "clearID",
                        clearID |-> "setID", setID |-> "setEmail", setEmail |-> "idle"],
    PatchMyProfile |-> [find |-> "save", save |-> "settings", settings |-> "clear",
                        clear |-> "idle"],
    DeleteUser     |-> [find |-> "remove", remove |-> "clear", clear |-> "idle"],
    WriteAccount   |-> [account |-> "find", find |-> "clear", clear |-> "idle"]]

Holding == {"save", "remove", "settings", "setID", "setEmail", "clear", "clearOld", "clearID"}
Labels == Holding \union {"idle", "find", "findEmail", "insert", "account"}

TypeOK ==
    /\ row \in [Users -> Row \union {None}]
    /\ idKey \in [Users -> Row \union {None}]
    /\ emailKey \in [Keys -> Row \union {None}]
    /\ pc \in [Requests -> Labels]
    /\ op \in [Requests -> DOMAIN Flow \union {None}]
    /\ who \in [Requests -> Users \union {None}]
    /\ want \in [Requests -> Keys \union {None}]
    /\ copy \in [Requests -> Row \union {None}]
    /\ clock \in Stamps
    /\ faults \in 0..MaxFaults
    /\ past \in [Users -> SUBSET Row]
    /\ exposed \subseteq Users

Init ==
    /\ \E f \in [Registered -> Emails] :
          /\ \A u, v \in Registered : f[u] = f[v] => u = v
          /\ row = [u \in Users |-> IF u \in Registered
                     THEN [id |-> u, email |-> f[u], profile |-> 0, account |-> 0] ELSE None]
    /\ idKey = [u \in Users |-> None]
    /\ emailKey = [k \in Keys |-> None]
    /\ pc = [p \in Requests |-> "idle"]
    /\ op = [p \in Requests |-> None]
    /\ who = [p \in Requests |-> None]
    /\ want = [p \in Requests |-> None]
    /\ copy = [p \in Requests |-> None]
    /\ clock = 0
    /\ faults = 0
    /\ past = [u \in Users |-> {row[u]} \ {None}]
    /\ exposed = {}

Begin(p, h, label, u, k) ==
    /\ pc[p] = "idle"
    /\ pc' = [pc EXCEPT ![p] = label]
    /\ op' = [op EXCEPT ![p] = h]
    /\ who' = [who EXCEPT ![p] = u]
    /\ want' = [want EXCEPT ![p] = k]
    /\ UNCHANGED <<copy, row, cacheVars, historyVars>>

End(p) ==
    /\ pc' = [pc EXCEPT ![p] = "idle"]
    /\ op' = [op EXCEPT ![p] = None]
    /\ who' = [who EXCEPT ![p] = None]
    /\ want' = [want EXCEPT ![p] = None]
    /\ copy' = [copy EXCEPT ![p] = None]

\* On to the next statement of the handler, with this row in hand.
Continue(p, label, u, r) ==
    LET next == Flow[op[p]][label] IN
    /\ pc[p] = label
    /\ IF next = "idle"
       THEN End(p)
       ELSE /\ pc' = [pc EXCEPT ![p] = next]
            /\ who' = [who EXCEPT ![p] = u]
            /\ copy' = [copy EXCEPT ![p] = r]
            /\ UNCHANGED <<op, want>>

-----------------------------------------------------------------------------
(* Reading and writing rows.                                               *)

\* Entries of a user are to be cleared, after a write.
Unsettled(p) ==
    \/ pc[p] \in {"settings", "clear", "clearOld", "clearID"}
    \/ pc[p] = "find" /\ op[p] = "WriteAccount"

\* Whether what a request has read will still be saved, cached or trusted.
Carries(p) ==
    \/ pc[p] \in {"save", "remove", "setID", "setEmail"}
    \/ pc[p] \in {"clear", "clearOld", "clearID"} /\ op[p] \in {"UpdateUser", "UpdateEmail"}

\* One row is written, by p; whoever else has read it works with an old one.
Write(p, u, r) ==
    /\ clock < MaxWrites
    /\ clock' = clock + 1
    /\ row' = [row EXCEPT ![u] = r]
    /\ past' = [past EXCEPT ![u] = @ \union ({r} \ {None})]
    /\ exposed' = IF \E q \in Requests \ {p} : who[q] = u /\ Carries(q)
                  THEN exposed \union {u} ELSE exposed
    /\ UNCHANGED <<cacheVars, faults>>

\* Mutant: the handler starts from the cached user.
FindCached(p) ==
    /\ pc[p] = "find"
    /\ row[who[p]] # None
    /\ Continue(p, "find", who[p], IF idKey[who[p]] # None THEN idKey[who[p]] ELSE row[who[p]])
    /\ UNCHANGED <<row, cacheVars, historyVars>>
FindByID(p) ==
    /\ pc[p] = "find"
    /\ row[who[p]] # None
    /\ Continue(p, "find", who[p], row[who[p]])
    /\ UNCHANGED <<row, cacheVars, historyVars>>

FindByEmail(p) ==
    /\ pc[p] = "findEmail"
    /\ \E u \in Users :
          /\ row[u] # None /\ row[u].email = Norm[want[p]]
          /\ Continue(p, "findEmail", u, row[u])
    /\ UNCHANGED <<row, cacheVars, historyVars>>

\* No such row.
NotFound(p) ==
    /\ \/ pc[p] \in {"find", "remove"} /\ row[who[p]] = None
       \/ pc[p] = "findEmail" /\ \A u \in Users : row[u] # None => row[u].email # Norm[want[p]]
    /\ End(p)
    /\ UNCHANGED <<row, cacheVars, historyVars>>

EmailFree(u, e) == \A v \in Users \ {u} : row[v] # None => row[v].email # e

Create(p) ==
    LET r == [id |-> who[p], email |-> Norm[want[p]], profile |-> clock + 1, account |-> clock + 1] IN
    /\ pc[p] = "insert"
    /\ past[who[p]] = {}
    /\ EmailFree(who[p], r.email)
    /\ Write(p, who[p], r)
    /\ Continue(p, "insert", who[p], r)

\* The row to be saved.
Edited(p) ==
    [copy[p] EXCEPT !.profile = clock + 1,
                    !.email = IF op[p] = "UpdateEmail" THEN Norm[want[p]] ELSE @]

\* Which keys are cleared depends on whether the input differs from oldEmail.
Handler(p) ==
    IF op[p] = "UpdateEmail" /\ want[p] = copy[p].email THEN "UpdateUser" ELSE op[p]

\* Save writes every column of the copy, and inserts a row that is gone.
Save(p) ==
    /\ pc[p] = "save"
    /\ EmailFree(who[p], Edited(p).email)
    /\ Write(p, who[p], Edited(p))
    /\ op' = [op EXCEPT ![p] = Handler(p)]
    /\ pc' = [pc EXCEPT ![p] = Flow[Handler(p)].save]
    /\ copy' = [copy EXCEPT ![p] = Edited(p)]
    /\ want' = [want EXCEPT ![p] = copy[p].email]
    /\ UNCHANGED who

Remove(p) ==
    /\ pc[p] = "remove"
    /\ row[who[p]] # None
    /\ Write(p, who[p], None)
    /\ Continue(p, "remove", who[p], copy[p])

\* A transaction sets columns of the row as it is.
WriteColumns(p) ==
    /\ pc[p] = "account"
    /\ row[who[p]] # None
    /\ Write(p, who[p], [row[who[p]] EXCEPT !.account = clock + 1])
    /\ Continue(p, "account", who[p], None)

\* Upsert of the settings, a row of their own, before the entries are cleared.
UpsertSettings(p) ==
    /\ Continue(p, "settings", who[p], copy[p])
    /\ UNCHANGED <<row, cacheVars, historyVars>>

-----------------------------------------------------------------------------
(* Redis commands.                                                         *)

FillByID(p) ==
    /\ idKey' = [idKey EXCEPT ![who[p]] = copy[p]]
    /\ UNCHANGED <<row, emailKey, historyVars>>

EntryOf(p) == IF op[p] = "GetUserByEmail" THEN want[p] ELSE copy[p].email

FillByEmail(p) ==
    /\ emailKey' = [emailKey EXCEPT ![EntryOf(p)] = copy[p]]
    /\ UNCHANGED <<row, idKey, historyVars>>

SetUserByID(p) == Continue(p, "setID", who[p], copy[p]) /\ FillByID(p)
SetUserByEmail(p) == Continue(p, "setEmail", who[p], copy[p]) /\ FillByEmail(p)

\* A SET takes effect, its reply is lost, and the client will send it again (as in
\* JobQueue); whatever comes between, the request is still at it.  A DEL that is
\* sent twice does no more than an entry that expires.
SetAgain(p) ==
    /\ \/ pc[p] = "setID" /\ FillByID(p)
       \/ pc[p] = "setEmail" /\ FillByEmail(p)
    /\ UNCHANGED requestVars

\* DeleteUser(id, email): one DEL of both keys.
DeleteEntries(p) ==
    /\ Continue(p, "clear", who[p], copy[p])
    /\ idKey' = [idKey EXCEPT ![who[p]] = None]
    /\ emailKey' = [emailKey EXCEPT ![copy[p].email] = None]
    /\ UNCHANGED <<row, historyVars>>

NewKey(p) == copy[p].email                                              \* mutant
OldKey(p) == want[p]

DeleteUserByEmail(p) ==
    /\ Continue(p, "clearOld", who[p], copy[p])
    /\ emailKey' = [emailKey EXCEPT ![OldKey(p)] = None]
    /\ UNCHANGED <<row, idKey, historyVars>>

DeleteUserByID(p) ==
    /\ Continue(p, "clearID", who[p], copy[p])
    /\ idKey' = [idKey EXCEPT ![who[p]] = None]
    /\ UNCHANGED <<row, emailKey, historyVars>>

\* UserCacheTTL has passed.
NeverExpires(entry) == FALSE                                            \* mutant
Expires(entry) == entry # None

ExpireID(u) ==
    /\ Expires(idKey[u])
    /\ idKey' = [idKey EXCEPT ![u] = None]
    /\ UNCHANGED <<row, emailKey, requestVars, historyVars>>

ExpireEmail(k) ==
    /\ Expires(emailKey[k])
    /\ emailKey' = [emailKey EXCEPT ![k] = None]
    /\ UNCHANGED <<row, idKey, requestVars, historyVars>>

-----------------------------------------------------------------------------
(* Faults.                                                                 *)

Fault(p) ==
    /\ faults < MaxFaults
    /\ faults' = faults + 1
    /\ exposed' = IF Unsettled(p) THEN exposed \union {who[p]} ELSE exposed
    /\ UNCHANGED <<row, cacheVars, clock, past>>

\* A Redis command fails, and the handler goes on.
CacheFails(p) ==
    /\ pc[p] \in {"setID", "setEmail", "clear", "clearOld", "clearID"}
    /\ Continue(p, pc[p], who[p], copy[p])
    /\ Fault(p)

\* Mutant: the handler logs that Save has failed, and goes on.
SaveErrorIgnored(p) ==
    /\ pc[p] = "save"
    /\ pc' = [pc EXCEPT ![p] = Flow[op[p]].save]
    /\ copy' = [copy EXCEPT ![p] = Edited(p)]
    /\ want' = [want EXCEPT ![p] = copy[p].email]
    /\ UNCHANGED <<op, who>>
    /\ Fault(p)

\* A statement fails, or the process stops.
Abandon(p) ==
    /\ pc[p] # "idle"
    /\ End(p)
    /\ Fault(p)

\* A refusal that changes nothing: a taken address, an id that exists.
Refused(p) ==
    /\ \/ pc[p] = "insert" /\ (past[who[p]] # {} \/ ~EmailFree(who[p], Norm[want[p]]))
       \/ pc[p] = "save" /\ ~EmailFree(who[p], Edited(p).email)
       \/ pc[p] = "account" /\ row[who[p]] = None
       \/ pc[p] \in {"insert", "save", "remove", "account"} /\ clock = MaxWrites
    /\ End(p)
    /\ UNCHANGED <<row, cacheVars, historyVars>>

-----------------------------------------------------------------------------

\* A hit answers from the cache and changes nothing.  After a miss, and after an
\* error of GET, which may come at any time, the table is read.
GetUserByID(p, u) == Begin(p, "GetUserByID", "find", u, None)
GetUserByEmail(p, k) == Begin(p, "GetUserByEmail", "findEmail", None, k)
CreateUser(p, u, k) == past[u] = {} /\ Begin(p, "CreateUser", "insert", u, k)
UpdateUser(p, u) == Begin(p, "UpdateUser", "find", u, None)
UpdateEmail(p, u, k) == Begin(p, "UpdateEmail", "find", u, k)
PatchMyProfile(p, u) == Begin(p, "PatchMyProfile", "find", u, None)
DeleteUser(p, u) == Begin(p, "DeleteUser", "find", u, None)
WriteAccount(p, u) == row[u] # None /\ Begin(p, "WriteAccount", "account", u, None)

Arrive(p) ==
    \/ \E u \in Users : GetUserByID(p, u) \/ UpdateUser(p, u) \/ PatchMyProfile(p, u)
    \/ \E u \in Users : DeleteUser(p, u) \/ WriteAccount(p, u)
    \/ \E k \in Keys : GetUserByEmail(p, k)
    \/ \E u \in Users, k \in Keys : CreateUser(p, u, k) \/ UpdateEmail(p, u, k)

Statement(p) ==
    \/ FindByID(p) \/ FindByEmail(p) \/ NotFound(p)
    \/ Create(p) \/ Save(p) \/ Remove(p) \/ WriteColumns(p) \/ UpsertSettings(p)
    \/ SetUserByID(p) \/ SetUserByEmail(p)
    \/ DeleteEntries(p) \/ DeleteUserByEmail(p) \/ DeleteUserByID(p)
    \/ Refused(p)

Next ==
    \/ \E p \in Requests :
          Arrive(p) \/ Statement(p) \/ SetAgain(p) \/ CacheFails(p) \/ Abandon(p)
    \/ \E u \in Users : ExpireID(u)
    \/ \E k \in Keys : ExpireEmail(k)

Spec == Init /\ [][Next]_vars

\* Handlers come to an end, and what was put into Redis expires.
FairSpec ==
    /\ Spec
    /\ \A p \in Requests : WF_vars(Statement(p))
    /\ \A u \in Users : WF_vars(ExpireID(u))
    /\ \A k \in Keys : WF_vars(ExpireEmail(k))

-----------------------------------------------------------------------------

\* No entry shows a row that was never committed: not one from a Save that
\* failed, nor a mixture of two.
Genuine ==
    /\ \A u \in Users : idKey[u] # None => idKey[u] \in past[u]
    /\ \A k \in Keys : emailKey[k] # None => emailKey[k] \in past[emailKey[k].id]

\* Without a race between a write and a request that has read the row before,
\* and without a fault while entries are to be cleared, every entry shows the
\* row as it is once the writer has cleared its keys: whatever addresses change
\* hands, and whatever other handlers are under way.
Fresh ==
    \A u \in Users \ exposed :
        (\A p \in Requests : who[p] = u => ~Unsettled(p)) =>
            /\ idKey[u] \in {None, row[u]}
            /\ \A e \in Emails : emailKey[e] # None /\ emailKey[e].id = u => emailKey[e] = row[u]

\* "Partial updates": saving all columns of a copy leaves those of the
\* authentication handlers alone, and revives nobody, as long as no write raced.
SaveIsPartial ==
    [][\A p \in Requests : Save(p) /\ who[p] \notin exposed =>
          row[who[p]] # None /\ row'[who[p]].account = row[who[p]].account]_vars

\* When the writes stop, old entries disappear, those under other spellings of
\* an address, which no handler clears, included.
Settled ==
    /\ \A u \in Users : idKey[u] \in {None, row[u]}
    /\ \A k \in Keys : emailKey[k] # None => emailKey[k] = row[emailKey[k].id]
Converges == <>[]Settled

-----------------------------------------------------------------------------
(* The inductive invariant behind Genuine and Fresh.                       *)

\* The local variables of each handler: what a request holds was committed.
LocalOK(p) ==
    pc[p] # "idle" =>
        /\ op[p] \in DOMAIN Flow /\ pc[p] \in DOMAIN Flow[op[p]]
        /\ pc[p] # "findEmail" => who[p] \in Users
        /\ pc[p] \in Holding => copy[p] \in past[who[p]]
        /\ op[p] \in {"CreateUser", "GetUserByEmail", "UpdateEmail"} => want[p] \in Keys
        /\ op[p] = "GetUserByEmail" /\ pc[p] \in Holding => copy[p].email = Norm[want[p]]
LocalsOK == \A p \in Requests : LocalOK(p)

PastOK ==
    /\ \A u \in Users : row[u] # None => row[u] \in past[u]
    /\ \A u \in Users : \A r \in past[u] : r.id = u

KeysMatch == \A e \in Emails : emailKey[e] # None => emailKey[e].email = e

\* What a request will still use is the row as it is, unless a write raced it.
CopiesFresh ==
    \A p \in Requests : who[p] \in Users \ exposed /\ Carries(p) => copy[p] = row[who[p]]

\* Whatever is old, one of the writers will clear, unless it is old because the
\* row is gone: then it is whoever removed the row.
Rereads(p) == pc[p] = "find" /\ op[p] = "WriteAccount" /\ row[who[p]] # None
ClearsID(p) == pc[p] \in {"settings", "clear", "clearOld", "clearID"} \/ Rereads(p)
ToClear(p) ==
    {e \in Emails : \/ pc[p] \in {"settings", "clear"} /\ e = copy[p].email
                    \/ pc[p] = "clearOld" /\ e = want[p]
                    \/ Rereads(p) /\ e = row[who[p]].email}

OldCleared ==
    \A u \in Users \ exposed :
        /\ idKey[u] \notin {None, row[u]} => \E p \in Requests : who[p] = u /\ ClearsID(p)
        /\ \A e \in Emails : emailKey[e] # None /\ emailKey[e].id = u /\ emailKey[e] # row[u] =>
              \E p \in Requests : who[p] = u /\ e \in ToClear(p)

IInv ==
    /\ TypeOK
    /\ LocalsOK
    /\ PastOK
    /\ Genuine
    /\ KeysMatch
    /\ CopiesFresh
    /\ OldCleared

=============================================================================
