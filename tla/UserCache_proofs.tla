-------------------------- MODULE UserCache_proofs --------------------------
(***************************************************************************)
(* Proofs about UserCache, for any users, addresses, spellings, requests,  *)
(* writes and faults: entries show committed rows, and those no race or    *)
(* fault has touched show the present one.                                 *)
(***************************************************************************)
EXTENDS UserCache, TLAPS

Handlers == {"GetUserByID", "GetUserByEmail", "CreateUser", "UpdateUser", "UpdateEmail",
             "PatchMyProfile", "DeleteUser", "WriteAccount"}

\* Every statement is followed by one of the same handler, or the end; a row is
\* in hand after the first, except in the handlers that write columns.
LEMMA FlowFacts ==
    /\ DOMAIN Flow = Handlers
    /\ \A h \in Handlers : \A l \in DOMAIN Flow[h] :
          /\ l \in Labels \ {"idle"}
          /\ Flow[h][l] \in DOMAIN Flow[h] \union {"idle"}
          /\ l # "account" => Flow[h][l] \in Holding \union {"idle"}
          /\ l = "account" => h = "WriteAccount" /\ Flow[h][l] = "find"
          /\ l = "insert" => h = "CreateUser" /\ Flow[h][l] = "setID"
          /\ l = "findEmail" => h = "GetUserByEmail" /\ Flow[h][l] = "setEmail"
          /\ l = "remove" => h = "DeleteUser" /\ Flow[h][l] = "clear"
          /\ l = "settings" => h = "PatchMyProfile" /\ Flow[h][l] = "clear"
          /\ l = "clearOld" => h = "UpdateEmail" /\ Flow[h][l] = "clearID"
          /\ l = "clearID" => h = "UpdateEmail" /\ Flow[h][l] = "setID"
          /\ l = "clear" => IF h = "UpdateUser" THEN Flow[h][l] = "setID" ELSE Flow[h][l] = "idle"
          /\ l = "setID" => Flow[h][l] \in {"setEmail", "idle"}
          /\ l = "setEmail" => Flow[h][l] \in {"setID", "idle"}
          /\ l = "save" => h \in {"UpdateUser", "UpdateEmail", "PatchMyProfile"}
          /\ h = "WriteAccount" /\ l = "find" => Flow[h][l] = "clear"
          /\ h # "WriteAccount" /\ l = "find" => Flow[h][l] \in {"setID", "save", "remove"}
    /\ "save" \in DOMAIN Flow["UpdateUser"] /\ Flow["UpdateUser"].save = "clear"
    /\ "save" \in DOMAIN Flow["UpdateEmail"] /\ Flow["UpdateEmail"].save = "clearOld"
    /\ "save" \in DOMAIN Flow["PatchMyProfile"] /\ Flow["PatchMyProfile"].save = "settings"
    /\ "find" \in DOMAIN Flow["GetUserByID"] /\ "find" \in DOMAIN Flow["UpdateUser"]
    /\ "find" \in DOMAIN Flow["UpdateEmail"] /\ "find" \in DOMAIN Flow["PatchMyProfile"]
    /\ "find" \in DOMAIN Flow["DeleteUser"] /\ "account" \in DOMAIN Flow["WriteAccount"]
    /\ "insert" \in DOMAIN Flow["CreateUser"] /\ "findEmail" \in DOMAIN Flow["GetUserByEmail"]
BY SMTT(60) DEF Flow, Handlers, Labels, Holding

LocalTypes ==
    /\ pc \in [Requests -> Labels]
    /\ op \in [Requests -> DOMAIN Flow \union {None}]
    /\ who \in [Requests -> Users \union {None}]
    /\ want \in [Requests -> Keys \union {None}]
    /\ copy \in [Requests -> Row \union {None}]

\* The variables of all requests but one stay.
Others(p) ==
    \A q \in Requests \ {p} :
        /\ pc'[q] = pc[q] /\ op'[q] = op[q] /\ who'[q] = who[q]
        /\ want'[q] = want[q] /\ copy'[q] = copy[q]

-----------------------------------------------------------------------------
(* What Begin, End and Continue do to the variables of a request.          *)

\* A request that ends forgets whom it was about.
LEMMA EndFacts ==
    ASSUME LocalTypes, NEW p \in Requests, End(p)
    PROVE  LocalTypes' /\ Others(p) /\ pc'[p] = "idle" /\ who'[p] = None
BY DEF LocalTypes, Others, End, Labels

\* One that goes on keeps its handler and the address it was asked for.
LEMMA ContinueFacts ==
    ASSUME LocalTypes, NEW p \in Requests, LocalOK(p), NEW label \in Labels \ {"idle"},
           NEW u \in Users, NEW r \in Row \union {None}, Continue(p, label, u, r)
    PROVE  /\ LocalTypes' /\ Others(p)
           /\ pc[p] = label /\ op[p] \in Handlers /\ label \in DOMAIN Flow[op[p]]
           /\ pc'[p] = Flow[op[p]][label]
           /\ \/ pc'[p] = "idle" /\ who'[p] = None
              \/ /\ pc'[p] # "idle" /\ pc'[p] \in DOMAIN Flow[op[p]]
                 /\ op'[p] = op[p] /\ want'[p] = want[p] /\ who'[p] = u /\ copy'[p] = r
<1>1. pc[p] = label /\ op[p] \in Handlers /\ label \in DOMAIN Flow[op[p]]
  BY FlowFacts DEF Continue, LocalOK
<1> DEFINE next == Flow[op[p]][label]
<1>2. next \in DOMAIN Flow[op[p]] \union {"idle"} /\ (next # "idle" => next \in Labels)
  BY <1>1, FlowFacts
<1>3. CASE next = "idle"
  BY <1>1, <1>3, EndFacts DEF Continue
<1>4. CASE next # "idle"
  <2>1. /\ pc' = [pc EXCEPT ![p] = next] /\ who' = [who EXCEPT ![p] = u]
        /\ copy' = [copy EXCEPT ![p] = r] /\ UNCHANGED <<op, want>>
    BY <1>4 DEF Continue
  <2> QED  BY <2>1, <1>1, <1>2, <1>4 DEF LocalTypes, Others
<1> QED  BY <1>3, <1>4

\* A new request, with what its handler is told.
LEMMA BeginFacts ==
    ASSUME LocalTypes, NEW p \in Requests, NEW h \in Handlers, NEW label \in Labels,
           NEW u \in Users \union {None}, NEW k \in Keys \union {None}, Begin(p, h, label, u, k)
    PROVE  /\ LocalTypes' /\ Others(p) /\ pc[p] = "idle"
           /\ pc'[p] = label /\ op'[p] = h /\ who'[p] = u /\ want'[p] = k
<1>1. h \in DOMAIN Flow  BY FlowFacts
<1> QED  BY <1>1 DEF LocalTypes, Others, Begin

-----------------------------------------------------------------------------
(* Steps that write no row, and steps that write one.                      *)

\* An entry a step leaves: what was there, nothing, or a row that was committed
\* and is the present one unless its user is exposed.
Kept(old, new) ==
    \/ new \in {old, None}
    \/ /\ new \in Row /\ new \in past[new.id]
       /\ new.id \notin exposed => new = row[new.id]

CacheKept ==
    /\ idKey' \in [Users -> Row \union {None}]
    /\ emailKey' \in [Keys -> Row \union {None}]
    /\ \A u \in Users : Kept(idKey[u], idKey'[u]) /\ (idKey'[u] \notin {idKey[u], None} => idKey'[u].id = u)
    /\ \A k \in Keys : Kept(emailKey[k], emailKey'[k])
    /\ \A e \in Emails : emailKey'[e] \notin {emailKey[e], None} => emailKey'[e].email = e

\* Entries that p was to clear are cleared, or still to be.
DutiesKept(p) ==
    \A u \in Users \ exposed' : who[p] = u =>
        /\ ClearsID(p) => idKey'[u] = None \/ (who'[p] = u /\ ClearsID(p)')
        /\ \A e \in ToClear(p) : emailKey'[e] = None \/ (who'[p] = u /\ e \in ToClear(p)')

Trusted(p) == who[p] \in Users \ exposed /\ Carries(p) => copy[p] = row[who[p]]

\* A step of p that writes no row keeps the invariant, if the entries it leaves
\* are old ones or right, and p fulfils what it owes.
LEMMA QuietStep ==
    ASSUME IInv, NEW p \in Requests, Others(p), LocalTypes', LocalOK(p)', Trusted(p)',
           UNCHANGED <<row, clock, past>>, faults' \in 0..MaxFaults,
           exposed \subseteq exposed', exposed' \subseteq Users, CacheKept, DutiesKept(p)
    PROVE  IInv'
<1> USE DEF IInv
<1>1. TypeOK'
  BY DEF TypeOK, LocalTypes, CacheKept
<1>2. LocalsOK'
  BY DEF LocalsOK, LocalOK, Others
<1>3. PastOK'
  BY DEF PastOK
<1>4. Genuine'
  BY DEF Genuine, CacheKept, Kept
<1>5. KeysMatch'
  BY CacheAssumption DEF KeysMatch, CacheKept
<1>6. CopiesFresh'
  <2> SUFFICES ASSUME NEW q \in Requests, who'[q] \in Users \ exposed', Carries(q)'
               PROVE  copy'[q] = row'[who'[q]]
    BY DEF CopiesFresh
  <2>1. CASE q = p
    BY <2>1 DEF Trusted
  <2>2. CASE q # p
    BY <2>2 DEF CopiesFresh, Others, Carries
  <2> QED  BY <2>1, <2>2
<1>7. ASSUME NEW q \in Requests \ {p}
      PROVE  /\ who'[q] = who[q] /\ (ClearsID(q) => ClearsID(q)')
             /\ ToClear(q) \subseteq ToClear(q)'
  BY <1>7 DEF Others, ClearsID, ToClear, Rereads
<1>8. OldCleared'
  <2> SUFFICES ASSUME NEW u \in Users \ exposed'
               PROVE  /\ idKey'[u] \notin {None, row[u]} => \E q \in Requests : who'[q] = u /\ ClearsID(q)'
                      /\ \A e \in Emails :
                            emailKey'[e] # None /\ emailKey'[e].id = u /\ emailKey'[e] # row[u] =>
                               \E q \in Requests : who'[q] = u /\ e \in ToClear(q)'
    BY DEF OldCleared
  <2>1. ASSUME idKey'[u] \notin {None, row[u]}
        PROVE  \E q \in Requests : who'[q] = u /\ ClearsID(q)'
    <3>1. idKey'[u] = idKey[u]
      BY <2>1 DEF CacheKept, Kept
    <3>2. PICK q \in Requests : who[q] = u /\ ClearsID(q)
      BY <2>1, <3>1 DEF OldCleared
    <3> QED  BY <1>7, <2>1, <3>2 DEF DutiesKept
  <2>2. ASSUME NEW e \in Emails, emailKey'[e] # None, emailKey'[e].id = u, emailKey'[e] # row[u]
        PROVE  \E q \in Requests : who'[q] = u /\ e \in ToClear(q)'
    <3>1. emailKey'[e] = emailKey[e]
      BY <2>2, CacheAssumption DEF CacheKept, Kept
    <3>2. PICK q \in Requests : who[q] = u /\ e \in ToClear(q)
      BY <2>2, <3>1 DEF OldCleared
    <3> QED  BY <1>7, <2>2, <3>2 DEF DutiesKept
  <2> QED  BY <2>1, <2>2
<1> QED  BY <1>1, <1>2, <1>3, <1>4, <1>5, <1>6, <1>8

\* Whoever works with the row of u as it was before p wrote it.
Raced(p, u) == \E q \in Requests \ {p} : who[q] = u /\ Carries(q)

\* A step of p that writes the row of u keeps the invariant, if p goes on to
\* clear the entries of u, or there are none because u is new.
LEMMA WriteStep ==
    ASSUME IInv, NEW p \in Requests, NEW u \in Users, NEW r \in Row \union {None},
           r # None => r.id = u,
           Write(p, u, r), Others(p), LocalTypes', LocalOK(p)',
           who'[p] = u, Carries(p)' => copy'[p] = r,
           ~ClearsID(p), ToClear(p) = {},
           \/ past[u] = {}
           \/ u \in exposed
           \/ row[u] # None /\ ClearsID(p)' /\ row[u].email \in ToClear(p)'
    PROVE  IInv'
<1> USE DEF IInv
<1>1. /\ clock' \in Stamps /\ row' = [row EXCEPT ![u] = r] /\ UNCHANGED <<cacheVars, faults>>
      /\ past' = [past EXCEPT ![u] = @ \union ({r} \ {None})]
      /\ exposed' = IF Raced(p, u) THEN exposed \union {u} ELSE exposed
  BY CacheAssumption DEF Write, Stamps, TypeOK, Raced
<1>2. TypeOK'
  BY <1>1 DEF TypeOK, LocalTypes, cacheVars
<1>3. \A v \in Users : past[v] \subseteq past'[v]
  BY <1>1 DEF TypeOK
<1>4. LocalsOK'
  <2> SUFFICES ASSUME NEW q \in Requests \ {p}  PROVE LocalOK(q)'
    BY DEF LocalsOK
  <2> QED  BY <1>3 DEF LocalsOK, LocalOK, Others, Holding
<1>5. PastOK'
  BY <1>1, NoRowAssumption DEF PastOK, TypeOK
<1>6. Genuine'
  BY <1>1, <1>3 DEF Genuine, TypeOK, cacheVars, Row
<1>7. KeysMatch'
  BY <1>1 DEF KeysMatch, cacheVars
<1>8. CopiesFresh'
  <2> SUFFICES ASSUME NEW q \in Requests, who'[q] \in Users \ exposed', Carries(q)'
               PROVE  copy'[q] = row'[who'[q]]
    BY DEF CopiesFresh
  <2>1. CASE q = p
    BY <1>1, <2>1 DEF TypeOK
  <2>2. CASE q # p
    <3>1. who'[q] = who[q] /\ copy'[q] = copy[q] /\ Carries(q)
      BY <2>2 DEF Others, Carries
    <3>2. who[q] # u
      BY <1>1, <2>2, <3>1 DEF Raced
    <3> QED  BY <1>1, <3>1, <3>2 DEF CopiesFresh, TypeOK
  <2> QED  BY <2>1, <2>2
<1>9. OldCleared'
  <2> SUFFICES ASSUME NEW v \in Users \ exposed'
               PROVE  /\ idKey[v] \notin {None, row'[v]} => \E q \in Requests : who'[q] = v /\ ClearsID(q)'
                      /\ \A e \in Emails :
                            emailKey[e] # None /\ emailKey[e].id = v /\ emailKey[e] # row'[v] =>
                               \E q \in Requests : who'[q] = v /\ e \in ToClear(q)'
    BY <1>1 DEF OldCleared, cacheVars
  <2>1. v \in Users \ exposed
    BY <1>1
  <2>2. CASE v # u
    <3>1. row'[v] = row[v]
      BY <1>1, <2>2 DEF TypeOK
    <3>2. ASSUME NEW q \in Requests, who[q] = v, ClearsID(q) \/ ToClear(q) # {}
          PROVE  /\ who'[q] = v /\ (ClearsID(q) => ClearsID(q)')
                 /\ ToClear(q)' = ToClear(q)
      <4>1. q # p  BY <3>2
      <4> QED  BY <3>1, <3>2, <4>1 DEF Others, ClearsID, ToClear, Rereads
    <3> QED  BY <2>1, <3>1, <3>2 DEF OldCleared
  <2>3. CASE v = u /\ past[u] = {}
    BY <2>3, CacheAssumption DEF Genuine
  <2>4. CASE v = u /\ past[u] # {}
    <3>1. row[u] # None /\ ClearsID(p)' /\ row[u].email \in ToClear(p)'
      BY <2>1, <2>4
    <3>2. ASSUME NEW e \in Emails, emailKey[e] # None, emailKey[e].id = u
          PROVE  \E q \in Requests : who'[q] = u /\ e \in ToClear(q)'
      <4>1. CASE e = row[u].email
        BY <3>1, <4>1
      <4>2. CASE e # row[u].email
        <5>1. emailKey[e] # row[u]
          BY <3>2, <4>2 DEF KeysMatch
        <5>2. PICK q \in Requests : who[q] = u /\ e \in ToClear(q)
          BY <2>1, <2>4, <3>2, <5>1 DEF OldCleared
        <5>3. q # p /\ ~Rereads(q)
          BY <4>2, <5>2 DEF ToClear, Rereads
        <5> QED  BY <5>2, <5>3 DEF Others, ToClear, Rereads
      <4> QED  BY <4>1, <4>2
    <3> QED  BY <2>4, <3>1, <3>2
  <2> QED  BY <2>2, <2>3, <2>4
<1> QED  BY <1>2, <1>4, <1>5, <1>6, <1>7, <1>8, <1>9

-----------------------------------------------------------------------------
(* Requests that begin, read, end or fail.                                 *)

LEMMA SameEntries ==
    ASSUME IInv, UNCHANGED cacheVars
    PROVE  CacheKept
BY DEF CacheKept, Kept, cacheVars, IInv, TypeOK

LEMMA ArriveStep ==
    ASSUME IInv, NEW p \in Requests, Arrive(p)
    PROVE  IInv'
<1>1. UNCHANGED <<row, clock, past, cacheVars, faults, exposed>>
  BY DEF Arrive, GetUserByID, GetUserByEmail, CreateUser, UpdateUser, UpdateEmail,
         PatchMyProfile, DeleteUser, WriteAccount, Begin, historyVars
<1>2. PICK h \in Handlers, label \in {"find", "findEmail", "insert", "account"},
           u \in Users \union {None}, k \in Keys \union {None} :
          /\ Begin(p, h, label, u, k)
          /\ label \in DOMAIN Flow[h] /\ (label # "findEmail" => u \in Users)
          /\ h \in {"CreateUser", "GetUserByEmail", "UpdateEmail"} => k \in Keys
  <2>1. CASE \E u \in Users : GetUserByID(p, u) \/ UpdateUser(p, u) \/ PatchMyProfile(p, u)
    BY <2>1, FlowFacts DEF GetUserByID, UpdateUser, PatchMyProfile, Handlers
  <2>2. CASE \E u \in Users : DeleteUser(p, u) \/ WriteAccount(p, u)
    BY <2>2, FlowFacts DEF DeleteUser, WriteAccount, Handlers
  <2>3. CASE \E k \in Keys : GetUserByEmail(p, k)
    BY <2>3, FlowFacts DEF GetUserByEmail, Handlers
  <2>4. CASE \E u \in Users, k \in Keys : CreateUser(p, u, k) \/ UpdateEmail(p, u, k)
    BY <2>4, FlowFacts DEF CreateUser, UpdateEmail, Handlers
  <2> QED  BY <2>1, <2>2, <2>3, <2>4 DEF Arrive
<1>3. LocalTypes
  BY DEF IInv, TypeOK, LocalTypes
<1>4. /\ LocalTypes' /\ Others(p) /\ pc[p] = "idle"
      /\ pc'[p] = label /\ op'[p] = h /\ who'[p] = u /\ want'[p] = k
  BY <1>2, <1>3, BeginFacts DEF Labels
<1>5. LocalOK(p)'
  BY <1>2, <1>4, FlowFacts DEF LocalOK, Holding
<1>6. Trusted(p)'
  BY <1>4 DEF Trusted, Carries
<1>7. DutiesKept(p)
  BY <1>4 DEF DutiesKept, ClearsID, ToClear, Rereads
<1> QED  BY <1>1, <1>4, <1>5, <1>6, <1>7, SameEntries, QuietStep DEF IInv, TypeOK

\* A request that owes nothing, or whose user the fault has exposed, may end.
LEMMA EndStep ==
    ASSUME IInv, NEW p \in Requests, End(p), UNCHANGED <<row, clock, past, cacheVars>>,
           faults' \in 0..MaxFaults, exposed \subseteq exposed', exposed' \subseteq Users,
           ClearsID(p) \/ ToClear(p) # {} => who[p] \in exposed'
    PROVE  IInv'
<1>1. LocalTypes
  BY DEF IInv, TypeOK, LocalTypes
<1>2. LocalTypes' /\ Others(p) /\ pc'[p] = "idle" /\ who'[p] = None
  BY <1>1, EndFacts
<1>3. LocalOK(p)' /\ Trusted(p)'
  BY <1>2 DEF LocalOK, Trusted, Carries
<1>4. DutiesKept(p)
  BY DEF DutiesKept
<1> QED  BY <1>2, <1>3, <1>4, SameEntries, QuietStep

LEMMA NotFoundStep ==
    ASSUME IInv, NEW p \in Requests, NotFound(p) \/ Refused(p)
    PROVE  IInv'
<1>1. ~ClearsID(p) /\ ToClear(p) = {}
  BY DEF NotFound, Refused, ClearsID, ToClear, Rereads
<1> QED  BY <1>1, EndStep DEF NotFound, Refused, historyVars, IInv, TypeOK

\* A fault exposes the user whose entries the request was to clear.
LEMMA FaultFacts ==
    ASSUME IInv, NEW p \in Requests, pc[p] # "idle", Fault(p)
    PROVE  /\ UNCHANGED <<row, clock, past, cacheVars>>
           /\ faults' \in 0..MaxFaults /\ exposed \subseteq exposed' /\ exposed' \subseteq Users
           /\ ClearsID(p) \/ ToClear(p) # {} => who[p] \in exposed'
<1>1. ClearsID(p) \/ ToClear(p) # {} => Unsettled(p)
  BY DEF ClearsID, ToClear, Rereads, Unsettled
<1>2. Unsettled(p) => who[p] \in Users
  BY DEF Unsettled, IInv, LocalsOK, LocalOK
<1> QED  BY <1>1, <1>2, CacheAssumption DEF Fault, IInv, TypeOK

LEMMA AbandonStep ==
    ASSUME IInv, NEW p \in Requests, Abandon(p)
    PROVE  IInv'
BY FaultFacts, EndStep DEF Abandon

LEMMA FindStep ==
    ASSUME IInv, NEW p \in Requests, FindByID(p) \/ FindByEmail(p)
    PROVE  IInv'
<1>1. PICK label \in {"find", "findEmail"}, u \in Users :
          /\ Continue(p, label, u, row[u]) /\ row[u] # None
          /\ label = "find" => u = who[p]
          /\ label = "findEmail" => row[u].email = Norm[want[p]]
  <2>1. CASE FindByID(p)
    BY <2>1 DEF FindByID, IInv, LocalsOK, LocalOK
  <2>2. CASE FindByEmail(p)
    BY <2>2 DEF FindByEmail
  <2> QED  BY <2>1, <2>2
<1>2. UNCHANGED <<row, clock, past, cacheVars, faults, exposed>>
  BY DEF FindByID, FindByEmail, historyVars
<1>3. LocalTypes /\ LocalOK(p) /\ row[u] \in Row
  BY <1>1 DEF IInv, TypeOK, LocalTypes, LocalsOK
<1>4. /\ LocalTypes' /\ Others(p)
      /\ pc[p] = label /\ op[p] \in Handlers /\ label \in DOMAIN Flow[op[p]]
      /\ pc'[p] = Flow[op[p]][label]
      /\ \/ pc'[p] = "idle" /\ who'[p] = None
         \/ /\ pc'[p] # "idle" /\ pc'[p] \in DOMAIN Flow[op[p]]
            /\ op'[p] = op[p] /\ want'[p] = want[p] /\ who'[p] = u /\ copy'[p] = row[u]
  BY <1>1, <1>3, ContinueFacts DEF Labels, Holding
<1>5. LocalOK(p)'
  <2>1. row[u] \in past[u]
    BY <1>1 DEF IInv, PastOK
  <2>2. label = "find" => op[p] # "GetUserByEmail"
    BY <1>4, SMTT(30) DEF Flow
  <2> QED  BY <1>1, <1>2, <1>3, <1>4, <2>1, <2>2, FlowFacts DEF LocalOK, Holding
<1>6. Trusted(p)'
  BY <1>2, <1>4 DEF Trusted, Carries
<1>7. DutiesKept(p)
  <2>1. CASE Rereads(p)
    <3>1. pc'[p] = "clear" /\ who'[p] = who[p] /\ copy'[p] = row[who[p]]
      BY <1>1, <1>4, <2>1, FlowFacts DEF Rereads
    <3> QED  BY <1>4, <2>1, <3>1 DEF DutiesKept, ClearsID, ToClear, Rereads
  <2>2. CASE ~Rereads(p)
    BY <1>4, <2>2 DEF DutiesKept, ClearsID, ToClear
  <2> QED  BY <2>1, <2>2
<1> QED  BY <1>2, <1>4, <1>5, <1>6, <1>7, SameEntries, QuietStep DEF IInv, TypeOK

-----------------------------------------------------------------------------
(* Statements after the first, that write no row.                          *)

\* The row in hand stays committed, and the present one if it was.
LEMMA MovesOn ==
    ASSUME IInv, NEW p \in Requests,
           NEW label \in {"settings", "setID", "setEmail", "clear", "clearOld", "clearID"},
           Continue(p, label, who[p], copy[p]),
           UNCHANGED <<row, past>>, exposed \subseteq exposed'
    PROVE  /\ LocalTypes' /\ Others(p) /\ LocalOK(p)' /\ Trusted(p)'
           /\ pc[p] = label /\ op[p] \in Handlers /\ label \in DOMAIN Flow[op[p]]
           /\ pc'[p] = Flow[op[p]][label]
           /\ pc'[p] # "idle" => /\ op'[p] = op[p] /\ want'[p] = want[p]
                                 /\ who'[p] = who[p] /\ copy'[p] = copy[p]
           /\ who[p] \in Users /\ copy[p] \in Row /\ copy[p] \in past[who[p]]
           /\ copy[p].id = who[p]
           /\ op[p] = "GetUserByEmail" => want[p] \in Keys /\ copy[p].email = Norm[want[p]]
<1>1. LocalTypes /\ LocalOK(p) /\ pc[p] = label
  BY DEF IInv, TypeOK, LocalTypes, LocalsOK, Continue
<1>2. /\ who[p] \in Users /\ copy[p] \in past[who[p]] /\ copy[p] \in Row /\ copy[p].id = who[p]
      /\ op[p] = "GetUserByEmail" => want[p] \in Keys /\ copy[p].email = Norm[want[p]]
  BY <1>1 DEF LocalOK, Holding, IInv, TypeOK, PastOK
<1>3. /\ LocalTypes' /\ Others(p)
      /\ op[p] \in Handlers /\ label \in DOMAIN Flow[op[p]]
      /\ pc'[p] = Flow[op[p]][label]
      /\ \/ pc'[p] = "idle" /\ who'[p] = None
         \/ /\ pc'[p] # "idle" /\ pc'[p] \in DOMAIN Flow[op[p]]
            /\ op'[p] = op[p] /\ want'[p] = want[p] /\ who'[p] = who[p] /\ copy'[p] = copy[p]
  BY <1>1, <1>2, ContinueFacts DEF Labels, Holding
<1>4. LocalOK(p)'
  BY <1>1, <1>2, <1>3, FlowFacts DEF LocalOK, Holding
<1>5. Carries(p)' => Carries(p) /\ who'[p] = who[p] /\ copy'[p] = copy[p]
  BY <1>1, <1>3, FlowFacts DEF Carries
<1>6. Trusted(p)'
  BY <1>5 DEF Trusted, IInv, CopiesFresh
<1> QED  BY <1>1, <1>2, <1>3, <1>4, <1>6

LEMMA SettingsStep ==
    ASSUME IInv, NEW p \in Requests, UpsertSettings(p)
    PROVE  IInv'
<1>1. Continue(p, "settings", who[p], copy[p]) /\ UNCHANGED <<row, clock, past, cacheVars, faults, exposed>>
  BY DEF UpsertSettings, historyVars
<1>2. /\ LocalTypes' /\ Others(p) /\ LocalOK(p)' /\ Trusted(p)' /\ pc[p] = "settings"
      /\ pc'[p] = "clear" /\ who'[p] = who[p] /\ copy'[p] = copy[p]
  BY <1>1, MovesOn, FlowFacts
<1>3. DutiesKept(p)
  BY <1>2 DEF DutiesKept, ClearsID, ToClear, Rereads
<1> QED  BY <1>1, <1>2, <1>3, SameEntries, QuietStep DEF IInv, TypeOK

\* A SET that is answered, or will be sent again.
Sets(p, label) ==
    \/ Continue(p, label, who[p], copy[p])
    \/ pc[p] = label /\ UNCHANGED requestVars

LEMMA SetsFacts ==
    ASSUME IInv, NEW p \in Requests, NEW label \in {"setID", "setEmail"}, Sets(p, label),
           UNCHANGED <<row, past, exposed>>
    PROVE  /\ LocalTypes' /\ Others(p) /\ LocalOK(p)' /\ Trusted(p)' /\ pc[p] = label
           /\ who[p] \in Users /\ copy[p] \in Row /\ copy[p] \in past[who[p]]
           /\ copy[p].id = who[p]
           /\ op[p] = "GetUserByEmail" => want[p] \in Keys /\ copy[p].email = Norm[want[p]]
<1>1. CASE Continue(p, label, who[p], copy[p])
  BY <1>1, MovesOn
<1>2. CASE pc[p] = label /\ UNCHANGED requestVars
  <2>1. LocalTypes' /\ Others(p) /\ LocalOK(p) /\ LocalOK(p)'
    BY <1>2 DEF requestVars, LocalTypes, Others, IInv, TypeOK, LocalsOK, LocalOK
  <2>2. /\ who[p] \in Users /\ copy[p] \in past[who[p]] /\ copy[p] \in Row /\ copy[p].id = who[p]
        /\ op[p] = "GetUserByEmail" => want[p] \in Keys /\ copy[p].email = Norm[want[p]]
    BY <1>2, <2>1 DEF LocalOK, Holding, IInv, TypeOK, PastOK
  <2>3. Trusted(p)'
    BY <1>2 DEF requestVars, Trusted, Carries, IInv, CopiesFresh
  <2> QED
    BY <1>2, <2>1, <2>2, <2>3
<1> QED
  BY <1>1, <1>2 DEF Sets

\* What is put into the cache was read, and is right unless a write raced it.
LEMMA SetByIDStep ==
    ASSUME IInv, NEW p \in Requests, FillByID(p), Sets(p, "setID")
    PROVE  IInv'
<1>1. /\ idKey' = [idKey EXCEPT ![who[p]] = copy[p]]
      /\ UNCHANGED <<row, clock, past, emailKey, faults, exposed>>
  BY DEF FillByID, historyVars
<1>2. /\ LocalTypes' /\ Others(p) /\ LocalOK(p)' /\ Trusted(p)' /\ pc[p] = "setID"
      /\ who[p] \in Users /\ copy[p] \in Row /\ copy[p] \in past[who[p]] /\ copy[p].id = who[p]
  BY <1>1, SetsFacts
<1>3. Kept(idKey[who[p]], copy[p])
  BY <1>2 DEF Kept, IInv, CopiesFresh, Carries
<1>4. CacheKept
  BY <1>1, <1>2, <1>3 DEF CacheKept, Kept, IInv, TypeOK
<1>5. DutiesKept(p)
  BY <1>2 DEF DutiesKept, ClearsID, ToClear, Rereads
<1> QED  BY <1>1, <1>2, <1>4, <1>5, QuietStep DEF IInv, TypeOK

LEMMA SetByEmailStep ==
    ASSUME IInv, NEW p \in Requests, FillByEmail(p), Sets(p, "setEmail")
    PROVE  IInv'
<1>1. /\ emailKey' = [emailKey EXCEPT ![EntryOf(p)] = copy[p]]
      /\ UNCHANGED <<row, clock, past, idKey, faults, exposed>>
  BY DEF FillByEmail, historyVars
<1>2. /\ LocalTypes' /\ Others(p) /\ LocalOK(p)' /\ Trusted(p)' /\ pc[p] = "setEmail"
      /\ who[p] \in Users /\ copy[p] \in Row /\ copy[p] \in past[who[p]] /\ copy[p].id = who[p]
      /\ op[p] = "GetUserByEmail" => want[p] \in Keys /\ copy[p].email = Norm[want[p]]
  BY <1>1, SetsFacts
<1>3. Kept(emailKey[EntryOf(p)], copy[p])
  BY <1>2 DEF Kept, IInv, CopiesFresh, Carries
<1>4. EntryOf(p) \in Keys /\ (EntryOf(p) \in Emails => copy[p].email = EntryOf(p))
  BY <1>2, CacheAssumption DEF EntryOf, Row
<1>5. CacheKept
  BY <1>1, <1>2, <1>3, <1>4, CacheAssumption DEF CacheKept, Kept, IInv, TypeOK
<1>6. DutiesKept(p)
  BY <1>2 DEF DutiesKept, ClearsID, ToClear, Rereads
<1> QED  BY <1>1, <1>2, <1>5, <1>6, QuietStep DEF IInv, TypeOK

LEMMA SetsStep ==
    ASSUME IInv, NEW p \in Requests,
           (FillByID(p) /\ Sets(p, "setID")) \/ (FillByEmail(p) /\ Sets(p, "setEmail"))
    PROVE  IInv'
BY SetByIDStep, SetByEmailStep

\* One command clears both entries, or two commands one each.
LEMMA DeleteStep ==
    ASSUME IInv, NEW p \in Requests,
           DeleteEntries(p) \/ DeleteUserByEmail(p) \/ DeleteUserByID(p)
    PROVE  IInv'
<1>1. PICK label \in {"clear", "clearOld", "clearID"} :
          /\ Continue(p, label, who[p], copy[p])
          /\ idKey' = IF label = "clearOld" THEN idKey ELSE [idKey EXCEPT ![who[p]] = None]
          /\ emailKey' = IF label = "clearID" THEN emailKey
                         ELSE [emailKey EXCEPT ![IF label = "clear" THEN copy[p].email ELSE want[p]] = None]
  BY DEF DeleteEntries, DeleteUserByEmail, DeleteUserByID, OldKey
<1>2. UNCHANGED <<row, clock, past, faults, exposed>>
  BY DEF DeleteEntries, DeleteUserByEmail, DeleteUserByID, historyVars
<1>3. /\ LocalTypes' /\ Others(p) /\ LocalOK(p)' /\ Trusted(p)' /\ pc[p] = label
      /\ who[p] \in Users /\ copy[p] \in Row
      /\ label = "clearOld" => pc'[p] = "clearID" /\ who'[p] = who[p]
  BY <1>1, <1>2, MovesOn, FlowFacts
<1>4. CacheKept
  BY <1>1, CacheAssumption DEF CacheKept, Kept, IInv, TypeOK
<1>5. DutiesKept(p)
  <2> SUFFICES ASSUME who[p] \in Users \ exposed'
               PROVE  /\ idKey'[who[p]] = None \/ (who'[p] = who[p] /\ ClearsID(p)')
                      /\ \A e \in ToClear(p) : emailKey'[e] = None
    BY DEF DutiesKept
  <2>1. idKey'[who[p]] = None \/ (who'[p] = who[p] /\ ClearsID(p)')
    BY <1>1, <1>3 DEF ClearsID, IInv, TypeOK
  <2>2. ASSUME NEW e \in ToClear(p)  PROVE emailKey'[e] = None
    BY <1>1, <1>3, <2>2, CacheAssumption DEF ToClear, Rereads, IInv, TypeOK
  <2> QED  BY <2>1, <2>2
<1> QED  BY <1>2, <1>3, <1>4, <1>5, QuietStep DEF IInv, TypeOK

\* A command that fails leaves the entries, and the user exposed.
LEMMA CacheFailsStep ==
    ASSUME IInv, NEW p \in Requests, CacheFails(p)
    PROVE  IInv'
<1>1. /\ pc[p] \in {"setID", "setEmail", "clear", "clearOld", "clearID"}
      /\ Continue(p, pc[p], who[p], copy[p]) /\ Fault(p)
  BY DEF CacheFails
<1>2. /\ UNCHANGED <<row, clock, past, cacheVars>>
      /\ faults' \in 0..MaxFaults /\ exposed \subseteq exposed' /\ exposed' \subseteq Users
      /\ ClearsID(p) \/ ToClear(p) # {} => who[p] \in exposed'
  BY <1>1, FaultFacts
<1>3. LocalTypes' /\ Others(p) /\ LocalOK(p)' /\ Trusted(p)'
  BY <1>1, <1>2, MovesOn
<1>4. DutiesKept(p)
  BY <1>2 DEF DutiesKept
<1> QED  BY <1>2, <1>3, <1>4, SameEntries, QuietStep

\* An entry that expires is one less to be right.
LEMMA ExpireStep ==
    ASSUME IInv, (\E u \in Users : ExpireID(u)) \/ (\E k \in Keys : ExpireEmail(k)),
           NEW p \in Requests
    PROVE  IInv'
<1>1. /\ \A u \in Users : idKey'[u] \in {idKey[u], None}
      /\ \A k \in Keys : emailKey'[k] \in {emailKey[k], None}
      /\ idKey' \in [Users -> Row \union {None}] /\ emailKey' \in [Keys -> Row \union {None}]
      /\ UNCHANGED <<row, requestVars, historyVars>>
  BY DEF ExpireID, ExpireEmail, IInv, TypeOK
<1>2. CacheKept
  BY <1>1, CacheAssumption DEF CacheKept, Kept
<1>3. LocalTypes' /\ Others(p)
  BY <1>1 DEF LocalTypes, Others, requestVars, IInv, TypeOK
<1>4. LocalOK(p)' /\ Trusted(p)'
  BY <1>1 DEF LocalOK, Trusted, Carries, requestVars, historyVars, IInv, LocalsOK, CopiesFresh
<1>5. DutiesKept(p)
  BY <1>1 DEF DutiesKept, ClearsID, ToClear, Rereads, requestVars
<1> QED  BY <1>1, <1>2, <1>3, <1>4, <1>5, QuietStep DEF historyVars, IInv, TypeOK

-----------------------------------------------------------------------------
(* Statements that write a row.                                            *)

\* An id is given once: a new user has no entries yet.
LEMMA CreateStep ==
    ASSUME IInv, NEW p \in Requests, Create(p)
    PROVE  IInv'
<1> DEFINE r == [id |-> who[p], email |-> Norm[want[p]], profile |-> clock + 1, account |-> clock + 1]
<1>1. /\ pc[p] = "insert" /\ past[who[p]] = {} /\ Write(p, who[p], r)
      /\ Continue(p, "insert", who[p], r)
  BY DEF Create
<1>2. LocalTypes /\ LocalOK(p) /\ who[p] \in Users
  BY <1>1 DEF IInv, TypeOK, LocalTypes, LocalsOK, LocalOK
<1>3. op[p] = "CreateUser"
  BY <1>1, <1>2, FlowFacts, SMTT(30) DEF LocalOK
<1>4. r \in Row
  BY <1>1, <1>2, <1>3, CacheAssumption DEF LocalOK, Row, Stamps, Write, IInv, TypeOK
<1>5. /\ LocalTypes' /\ Others(p) /\ op'[p] = op[p] /\ want'[p] = want[p]
      /\ pc'[p] = "setID" /\ pc'[p] \in DOMAIN Flow[op[p]] /\ who'[p] = who[p] /\ copy'[p] = r
  <2> HIDE DEF r
  <2> QED  BY <1>1, <1>2, <1>3, <1>4, ContinueFacts, FlowFacts DEF Labels, Holding
<1>6. r \in past'[who[p]]
  BY <1>1, <1>2, <1>4, NoRowAssumption DEF Write, IInv, TypeOK
<1>7. LocalOK(p)'
  BY <1>1, <1>2, <1>3, <1>5, <1>6, FlowFacts DEF LocalOK, Handlers
<1>8. ~ClearsID(p) /\ ToClear(p) = {}
  BY <1>1 DEF ClearsID, ToClear, Rereads
<1> QED
  <2> HIDE DEF r
  <2>1. r.id = who[p]  BY DEF r
  <2> QED  BY <1>1, <1>2, <1>4, <1>5, <1>7, <1>8, <2>1, WriteStep

\* Save goes on to clear the entry under the address it has read.
LEMMA SaveStep ==
    ASSUME IInv, NEW p \in Requests, Save(p)
    PROVE  IInv'
<1> DEFINE r == Edited(p)
<1>1. /\ pc[p] = "save" /\ Write(p, who[p], r)
      /\ op' = [op EXCEPT ![p] = Handler(p)]
      /\ pc' = [pc EXCEPT ![p] = Flow[Handler(p)].save]
      /\ copy' = [copy EXCEPT ![p] = r]
      /\ want' = [want EXCEPT ![p] = copy[p].email]
      /\ UNCHANGED who
  BY DEF Save
<1>2. /\ LocalTypes /\ who[p] \in Users /\ copy[p] \in past[who[p]] /\ copy[p] \in Row /\ copy[p].id = who[p]
      /\ op[p] \in Handlers /\ "save" \in DOMAIN Flow[op[p]]
      /\ op[p] = "UpdateEmail" => want[p] \in Keys
  BY <1>1, FlowFacts DEF IInv, TypeOK, LocalTypes, LocalsOK, LocalOK, Holding, PastOK
<1>3. op[p] \in {"UpdateUser", "UpdateEmail", "PatchMyProfile"}
  BY <1>2, FlowFacts
<1>4. /\ Handler(p) \in {"UpdateUser", "UpdateEmail", "PatchMyProfile"}
      /\ pc'[p] = IF Handler(p) = "UpdateEmail" THEN "clearOld"
                  ELSE IF Handler(p) = "UpdateUser" THEN "clear" ELSE "settings"
      /\ pc'[p] \in DOMAIN Flow[Handler(p)] /\ Handler(p) \in DOMAIN Flow
  <2>1. Handler(p) \in {"UpdateUser", "UpdateEmail", "PatchMyProfile"}
    BY <1>3 DEF Handler
  <2>2. pc'[p] = Flow[Handler(p)].save
    BY <1>1, <1>2 DEF LocalTypes
  <2> QED  BY <2>1, <2>2, SMTT(30) DEF Flow
<1>5. /\ r \in Row /\ r.id = who[p]
      /\ Handler(p) # "UpdateEmail" => r.email = copy[p].email
  <2>1. clock + 1 \in Stamps
    BY <1>1, CacheAssumption DEF Write, Stamps, IInv, TypeOK
  <2>2. op[p] = "UpdateEmail" => Norm[want[p]] \in Emails
    BY <1>2, CacheAssumption
  <2>3. op[p] = "UpdateEmail" /\ Handler(p) # "UpdateEmail" => Norm[want[p]] = copy[p].email
    BY <1>2, CacheAssumption DEF Handler, Row
  <2> QED  BY <1>2, <1>3, <2>1, <2>2, <2>3 DEF Edited, Handler, Row
<1> HIDE DEF r
<1>6. /\ LocalTypes' /\ Others(p) /\ op'[p] = Handler(p) /\ who'[p] = who[p] /\ copy'[p] = r
      /\ want'[p] = copy[p].email
  <2>1. copy[p].email \in Keys /\ pc'[p] \in Labels
    BY <1>2, <1>4, CacheAssumption DEF Row, Labels, Holding
  <2> QED  BY <1>1, <1>2, <1>4, <1>5, <2>1 DEF LocalTypes, Others
<1>7. r \in past'[who[p]]
  BY <1>1, <1>2, <1>5, NoRowAssumption DEF Write, IInv, TypeOK
<1>8. LocalOK(p)'
  BY <1>2, <1>4, <1>5, <1>6, <1>7, CacheAssumption DEF LocalOK, Row
<1>9. ~ClearsID(p) /\ ToClear(p) = {}
  BY <1>1 DEF ClearsID, ToClear, Rereads
<1>10. who[p] \notin exposed => row[who[p]] # None /\ ClearsID(p)' /\ row[who[p]].email \in ToClear(p)'
  <2> SUFFICES ASSUME who[p] \notin exposed
               PROVE  row[who[p]] # None /\ ClearsID(p)' /\ row[who[p]].email \in ToClear(p)'
    OBVIOUS
  <2>1. row[who[p]] = copy[p]
    BY <1>1, <1>2 DEF IInv, CopiesFresh, Carries
  <2>2. row[who[p]] # None /\ copy[p].email \in Emails
    BY <1>2, <2>1, NoRowAssumption DEF Row
  <2>3. ClearsID(p)'
    BY <1>4 DEF ClearsID
  <2>4. copy[p].email \in ToClear(p)'
    BY <1>4, <1>5, <1>6, <2>2 DEF ToClear
  <2> QED  BY <2>1, <2>2, <2>3, <2>4
<1> QED  BY <1>1, <1>2, <1>5, <1>6, <1>8, <1>9, <1>10, WriteStep DEF Carries

LEMMA RemoveStep ==
    ASSUME IInv, NEW p \in Requests, Remove(p)
    PROVE  IInv'
<1>1. /\ pc[p] = "remove" /\ row[who[p]] # None /\ Write(p, who[p], None)
      /\ Continue(p, "remove", who[p], copy[p])
  BY DEF Remove
<1>2. /\ LocalTypes /\ LocalOK(p) /\ who[p] \in Users
      /\ copy[p] \in past[who[p]] /\ copy[p] \in Row
  BY <1>1 DEF IInv, TypeOK, LocalTypes, LocalsOK, LocalOK, Holding
<1>3. /\ LocalTypes' /\ Others(p) /\ op[p] = "DeleteUser" /\ op'[p] = op[p] /\ want'[p] = want[p]
      /\ pc'[p] = "clear" /\ who'[p] = who[p] /\ copy'[p] = copy[p]
      /\ "clear" \in DOMAIN Flow["DeleteUser"]
  BY <1>1, <1>2, ContinueFacts, FlowFacts DEF Labels, Holding
<1>4. copy[p] \in past'[who[p]]
  BY <1>1, <1>2 DEF Write, IInv, TypeOK
<1>5. LocalOK(p)'
  BY <1>2, <1>3, <1>4, FlowFacts DEF LocalOK, Handlers
<1>6. ~ClearsID(p) /\ ToClear(p) = {} /\ ClearsID(p)' /\ ~Carries(p)'
  BY <1>1, <1>3 DEF ClearsID, ToClear, Rereads, Carries
<1>7. who[p] \notin exposed => row[who[p]].email \in ToClear(p)'
  <2>1. who[p] \notin exposed => row[who[p]] = copy[p]
    BY <1>1, <1>2 DEF IInv, CopiesFresh, Carries
  <2> QED  BY <1>2, <1>3, <2>1 DEF ToClear, Row
<1> QED  BY <1>1, <1>2, <1>3, <1>5, <1>6, <1>7, WriteStep

LEMMA WriteColumnsStep ==
    ASSUME IInv, NEW p \in Requests, WriteColumns(p)
    PROVE  IInv'
<1> DEFINE r == [row[who[p]] EXCEPT !.account = clock + 1]
<1>1. /\ pc[p] = "account" /\ row[who[p]] # None /\ Write(p, who[p], r)
      /\ Continue(p, "account", who[p], None)
  BY DEF WriteColumns
<1>2. /\ LocalTypes /\ LocalOK(p) /\ who[p] \in Users
      /\ row[who[p]] \in Row /\ row[who[p]].id = who[p]
  BY <1>1 DEF IInv, TypeOK, LocalTypes, LocalsOK, LocalOK, PastOK
<1>3. r \in Row /\ r.id = who[p] /\ r.email = row[who[p]].email /\ r # None
  BY <1>1, <1>2, CacheAssumption, NoRowAssumption DEF Write, Stamps, Row, IInv, TypeOK
<1> HIDE DEF r
<1>4. /\ LocalTypes' /\ Others(p) /\ op[p] = "WriteAccount" /\ op'[p] = op[p]
      /\ pc'[p] = "find" /\ who'[p] = who[p] /\ "find" \in DOMAIN Flow["WriteAccount"]
  <2>1. "account" \in Labels \ {"idle"}
    BY DEF Labels
  <2>2. /\ LocalTypes' /\ Others(p)
        /\ op[p] \in Handlers /\ "account" \in DOMAIN Flow[op[p]]
        /\ pc'[p] = Flow[op[p]]["account"]
        /\ pc'[p] # "idle" => pc'[p] \in DOMAIN Flow[op[p]] /\ op'[p] = op[p] /\ who'[p] = who[p]
    BY <1>1, <1>2, <2>1, ContinueFacts
  <2>3. op[p] = "WriteAccount" /\ Flow[op[p]]["account"] = "find"
    BY <2>2, FlowFacts
  <2> QED
    BY <2>2, <2>3
<1>5. LocalOK(p)'
  BY <1>2, <1>4, FlowFacts DEF LocalOK, Handlers, Holding
<1>6. ~ClearsID(p) /\ ToClear(p) = {} /\ ~Carries(p)'
  BY <1>1, <1>4 DEF ClearsID, ToClear, Rereads, Carries
<1>7. row'[who[p]] = r
  BY <1>1, <1>2 DEF Write, IInv, TypeOK
<1>8. Rereads(p)'
  BY <1>3, <1>4, <1>7 DEF Rereads
<1>9. ClearsID(p)' /\ row[who[p]].email \in ToClear(p)'
  BY <1>2, <1>3, <1>4, <1>7, <1>8 DEF ClearsID, ToClear, Row
<1> QED  BY <1>1, <1>2, <1>3, <1>4, <1>5, <1>6, <1>9, WriteStep

-----------------------------------------------------------------------------
(* The theorems.                                                           *)

LEMMA InitIInv == Init => IInv
<1> SUFFICES ASSUME Init PROVE IInv
  OBVIOUS
<1>1. PICK f \in [Registered -> Emails] :
          row = [u \in Users |-> IF u \in Registered
                 THEN [id |-> u, email |-> f[u], profile |-> 0, account |-> 0] ELSE None]
  BY DEF Init
<1>2. /\ row \in [Users -> Row \union {None}]
      /\ \A u \in Users : row[u] # None => row[u].id = u
  BY <1>1, CacheAssumption, NoRowAssumption DEF Row, Stamps
<1>3. TypeOK
  BY <1>2, CacheAssumption DEF Init, TypeOK, Labels, Stamps
<1>4. PastOK
  BY <1>2 DEF Init, PastOK
<1>5. LocalsOK /\ Genuine /\ KeysMatch /\ CopiesFresh /\ OldCleared
  BY CacheAssumption DEF Init, LocalsOK, LocalOK, Genuine, KeysMatch, CopiesFresh, Carries, OldCleared
<1> QED  BY <1>3, <1>4, <1>5 DEF IInv

LEMMA NextIInv == IInv /\ [Next]_vars => IInv'
<1> SUFFICES ASSUME IInv, [Next]_vars PROVE IInv'
  OBVIOUS
<1>1. CASE UNCHANGED vars
  BY <1>1 DEF vars, requestVars, cacheVars, historyVars, IInv, TypeOK, LocalsOK, LocalOK, PastOK,
              Genuine, KeysMatch, CopiesFresh, Carries, OldCleared, ClearsID, ToClear, Rereads
<1>2. ASSUME NEW p \in Requests, Statement(p)  PROVE IInv'
  BY <1>2, FindStep, NotFoundStep, CreateStep, SaveStep, RemoveStep, WriteColumnsStep, SettingsStep,
     SetsStep, DeleteStep DEF Statement, SetUserByID, SetUserByEmail, Sets
<1>3. CASE \E p \in Requests :
              Arrive(p) \/ Statement(p) \/ SetAgain(p) \/ CacheFails(p) \/ Abandon(p)
  BY <1>2, <1>3, ArriveStep, SetsStep, CacheFailsStep, AbandonStep DEF SetAgain, Sets
<1>4. CASE (\E u \in Users : ExpireID(u)) \/ (\E k \in Keys : ExpireEmail(k))
  BY <1>4, ExpireStep, CacheAssumption
<1> QED  BY <1>1, <1>3, <1>4 DEF Next

\* What the rows, the entries and the requests under way have in common in
\* every state: the reason why the entries are right.
THEOREM Inductive == Spec => []IInv
BY InitIInv, NextIInv, PTL DEF Spec

\* Rows, entries and the variables of requests keep their types; in particular
\* every address that is stored is a normalised one.
THEOREM TypeCorrect == Spec => []TypeOK
<1>1. IInv => TypeOK  BY DEF IInv
<1> QED  BY <1>1, Inductive, PTL

\* The cache never shows a row that the table users has not had.
THEOREM GenuineHolds == Spec => []Genuine
<1>1. IInv => Genuine  BY DEF IInv
<1> QED  BY <1>1, Inductive, PTL

\* Where neither a race nor a fault has touched a user, every handler leaves the
\* entries of the user absent or equal to the row.
THEOREM FreshHolds == Spec => []Fresh
<1>1. IInv => Fresh
  <2>1. ASSUME NEW p \in Requests, ClearsID(p) \/ ToClear(p) # {}  PROVE Unsettled(p)
    BY <2>1 DEF ClearsID, ToClear, Rereads, Unsettled
  <2> QED  BY <2>1 DEF IInv, OldCleared, Fresh
<1> QED  BY <1>1, Inductive, PTL

\* A save that no write has raced finds the row as the request has read it: it
\* changes the columns its handler edits and no other, and revives nobody.
THEOREM SaveIsPartialHolds == Spec => SaveIsPartial
<1>1. ASSUME IInv, NEW p \in Requests, Save(p), who[p] \notin exposed
      PROVE  row[who[p]] # None /\ row'[who[p]].account = row[who[p]].account
  <2>1. /\ pc[p] = "save" /\ who[p] \in Users
        /\ copy[p] \in past[who[p]] /\ copy[p] \in Row
    BY <1>1 DEF Save, IInv, TypeOK, LocalsOK, LocalOK, Holding
  <2>2. row[who[p]] = copy[p]
    BY <1>1, <2>1 DEF IInv, CopiesFresh, Carries
  <2>3. row' = [row EXCEPT ![who[p]] = Edited(p)]
    BY <1>1 DEF Save, Write
  <2>4. Edited(p).account = copy[p].account
    BY <2>1 DEF Edited, Row
  <2> QED  BY <1>1, <2>1, <2>2, <2>3, <2>4, NoRowAssumption DEF IInv, TypeOK
<1>2. IInv /\ [Next]_vars =>
         [\A p \in Requests : Save(p) /\ who[p] \notin exposed =>
             row[who[p]] # None /\ row'[who[p]].account = row[who[p]].account]_vars
  BY <1>1
<1> QED  BY <1>2, Inductive, PTL DEF Spec, SaveIsPartial
=============================================================================
