------------------------ MODULE JobQueueAdmin_proofs ------------------------
(***************************************************************************)
(* Proofs about JobQueueAdmin: no retry loses an accepted job, except one  *)
(* that comes between a worker's LPUSH and its DEL, and a retry of a job   *)
(* nobody else is working on grants exactly one fresh budget, for every    *)
(* set of jobs, goroutines, processes and administrators and every number  *)
(* of faults.                                                              *)
(***************************************************************************)
EXTENDS JobQueueAdmin, JobQueue_proofs, FiniteSetTheorems, WellFoundedInduction

-----------------------------------------------------------------------------
(* The invariant.  What JobQueueInv says of runs[j], the dispatches since  *)
(* the beginning, holds here of those since the last retry.                *)

Given(j) == runs[j] - base[j]

\* A request has a job, and one that is about to write has seen a trace of it.
Aimed ==
    \A a \in Admins :
        /\ target[a] = NoJob <=> apc[a] = "idle"
        /\ apc[a] \in {"replay", "save", "add"} => client[target[a]] # "new"

\* Nothing exists of a job before its Enqueue.
Untouched ==
    \A j \in Jobs : client[j] = "new" =>
        /\ j \notin due
        /\ store[j] = Absent
        /\ runs[j] = 0
        /\ \A t \in Tasks : held[t] # j
        /\ ~InDlq(j)

BudgetOK(j) ==
    /\ base[j] <= runs[j]
    /\ Given(j) <= MaxAttempts[j]
    /\ store[j] = Queued(0) => runs[j] = base[j]
    /\ j \in due => Given(j) = store[j].attempts /\ Given(j) < MaxAttempts[j]

Budgeted == \A j \in Calm : BudgetOK(j)

\* What holds of the job j of a goroutine at label l whose copy has n attempts.
RetryStage(j, l, n) ==
    /\ l \in {"load", "mark"} => Given(j) = store[j].attempts /\ Given(j) < MaxAttempts[j]
    /\ l = "mark" => Given(j) = n
    /\ l = "run" => Given(j) = n + 1
    /\ l \in {"save", "add"} => Given(j) = n
    /\ l = "add" => store[j].attempts = n

RetryHeld ==
    \A t \in Tasks : held[t] \in Calm =>
        /\ held[t] \notin due
        /\ \A u \in Tasks : held[u] = held[t] => u = t
        /\ RetryStage(held[t], pc[t], att[t])

\* Between its SET and its ZADD a retry has the job to itself.
Adding ==
    \A a \in Admins : apc[a] = "add" /\ target[a] \in Calm =>
        /\ target[a] \notin due
        /\ \A t \in Tasks : held[t] # target[a]
        /\ store[target[a]].attempts = 0
        /\ runs[target[a]] = base[target[a]]

RetryInv == Aimed /\ Untouched /\ Sending /\ Budgeted /\ RetryHeld /\ Adding

\* The requests that may still reset a budget, and what all resets together can
\* have granted: the count of dispatches never reaches its bound.
Pending == {a \in Admins : apc[a] \in {"range", "replay", "load", "save"}}

Granted ==
    /\ IsFiniteSet(Pending)
    /\ retries <= MaxRetries
    /\ \A j \in Calm : base[j] + Cardinality(Pending) * MaxAttempts[j] <= retries * MaxAttempts[j]

AdminGood == AdminTypeOK /\ TaskInv /\ RetryInv /\ Granted

LEMMA AdminStart == AdminInit => AdminGood
<1> SUFFICES ASSUME AdminInit
             PROVE  AdminGood
  OBVIOUS
<1>1. TypeOK /\ TaskInv /\ Sending
  BY InitIInv DEF AdminInit, IInv
<1>2. AdminTypeOK
  BY <1>1, AdminAssumption DEF AdminInit, AdminTypeOK
<1>3. Aimed /\ Untouched
  BY JobQueueAssumption DEF AdminInit, Init, Aimed, Untouched, InDlq
<1>4. Budgeted
  BY JobQueueAssumption DEF AdminInit, Init, Budgeted, BudgetOK, Given, Calm
<1>5. RetryHeld /\ Adding
  BY JobQueueAssumption DEF AdminInit, Init, RetryHeld, Adding, Calm
<1>6. Granted
  <2>1. Pending = {}
    BY DEF AdminInit, Pending
  <2>2. IsFiniteSet({}) /\ Cardinality({}) = 0
    BY FS_EmptySet
  <2>3. \A j \in Jobs : 0 + 0 * MaxAttempts[j] <= 0 * MaxAttempts[j]
    BY JobQueueAssumption
  <2> QED
    BY <2>1, <2>2, <2>3, AdminAssumption DEF AdminInit, Granted, Calm
<1> QED
  BY <1>1, <1>2, <1>3, <1>4, <1>5, <1>6 DEF AdminGood, RetryInv

-----------------------------------------------------------------------------
(* The counting of grants.                                                 *)

LEMMA Times ==
    ASSUME NEW r \in Nat, NEW q \in Nat, NEW n \in Nat, NEW m \in Nat, NEW b \in Nat,
           r <= q, b + n * m <= r * m
    PROVE  b + m <= (q + 1) * m
<1>1. r * m <= q * m
  <2>1. q - r \in Nat /\ q = r + (q - r)
    OBVIOUS
  <2>2. \A d \in Nat : (r + d) * m = r * m + d * m /\ d * m \in Nat
    OBVIOUS
  <2> QED
    BY <2>1, <2>2
<1>2. n * m \in Nat /\ (q + 1) * m = q * m + m /\ r * m \in Nat /\ q * m \in Nat
  OBVIOUS
<1> QED
  BY <1>1, <1>2

\* A calm job that has dispatches left is not yet counted up to the bound.
LEMMA Countable ==
    ASSUME AdminTypeOK, Granted, NEW j \in Calm
    PROVE  base[j] + MaxAttempts[j] <= MaxRuns
<1>1. Cardinality(Pending) \in Nat
  BY FS_CardinalityType DEF Granted
<1>2. /\ retries \in Nat /\ base[j] \in Nat /\ j \in Jobs
      /\ MaxAttempts[j] \in Nat /\ MaxRetries \in Nat /\ MaxRuns \in Nat
  BY JobQueueAssumption, AdminAssumption DEF AdminTypeOK, Calm
<1>3. base[j] + MaxAttempts[j] <= (MaxRetries + 1) * MaxAttempts[j]
  BY <1>1, <1>2, Times DEF Granted
<1>4. (MaxRetries + 1) * MaxAttempts[j] <= MaxRuns
  BY <1>2, AdminAssumption
<1>5. (MaxRetries + 1) * MaxAttempts[j] \in Nat
  BY <1>2
<1> QED
  BY <1>2, <1>3, <1>4, <1>5

LEMMA PendingFewer ==
    ASSUME IsFiniteSet(Pending), Pending' \subseteq Pending
    PROVE  /\ IsFiniteSet(Pending)' /\ Cardinality(Pending) \in Nat /\ Cardinality(Pending)' \in Nat
           /\ Cardinality(Pending)' <= Cardinality(Pending)
           /\ \A a \in Pending : a \notin Pending' => Cardinality(Pending)' + 1 <= Cardinality(Pending)
<1>1. IsFiniteSet(Pending)' /\ Cardinality(Pending)' <= Cardinality(Pending)
  BY FS_Subset
<1>2. Cardinality(Pending) \in Nat /\ Cardinality(Pending)' \in Nat
  BY <1>1, FS_CardinalityType
<1>3. ASSUME NEW a \in Pending, a \notin Pending'
      PROVE  Cardinality(Pending)' + 1 <= Cardinality(Pending)
  <2> DEFINE rest == Pending \ {a}
  <2>1. IsFiniteSet(rest) /\ Cardinality(rest) = Cardinality(Pending) - 1
    BY FS_RemoveElement
  <2>2. Pending' \subseteq rest
    BY <1>3
  <2>3. Cardinality(Pending)' <= Cardinality(rest)
    BY <2>1, <2>2, FS_Subset
  <2> QED
    BY <1>2, <2>1, <2>3
<1> QED
  BY <1>1, <1>2, <1>3

LEMMA PendingOneMore ==
    ASSUME IsFiniteSet(Pending), NEW a, a \notin Pending, Pending' = Pending \union {a}
    PROVE  /\ IsFiniteSet(Pending)' /\ Cardinality(Pending) \in Nat
           /\ Cardinality(Pending)' = Cardinality(Pending) + 1
BY FS_AddElement, FS_CardinalityType

LEMMA FewerGrants ==
    ASSUME NEW r \in Nat, NEW n \in Nat, NEW p \in Nat, NEW m \in Nat, NEW b \in Nat, NEW c \in Nat,
           b + n * m <= r * m,
           \/ c = b /\ p <= n
           \/ c <= b + m /\ p + 1 <= n
    PROVE  c + p * m <= r * m
<1>1. \A d \in Nat : (p + d) * m = p * m + d * m /\ d * m \in Nat
  OBVIOUS
<1>2. p * m \in Nat /\ n * m \in Nat /\ r * m \in Nat
  OBVIOUS
<1>3. CASE c = b /\ p <= n
  <2>1. n - p \in Nat /\ n = p + (n - p)
    BY <1>3
  <2> QED
    BY <1>1, <1>2, <1>3, <2>1
<1>4. CASE c <= b + m /\ p + 1 <= n
  <2>1. n - (p + 1) \in Nat /\ n = (p + 1) + (n - (p + 1))
    BY <1>4
  <2>2. \A d \in Nat : ((p + 1) + d) * m = p * m + m + d * m /\ d * m \in Nat
    OBVIOUS
  <2> QED
    BY <1>2, <1>4, <2>1, <2>2
<1> QED
  BY <1>3, <1>4

-----------------------------------------------------------------------------
(* What an administrator reads and removes.                                *)

LEMMA Smallest ==
    ASSUME NEW S \in SUBSET Nat, S # {}
    PROVE  \E n \in S : \A m \in S : n <= m
<1> DEFINE R == OpToRel(<, Nat)
<1>1. IsWellFoundedOn(R, Nat)
  BY NatLessThanWellFounded
<1>2. \A x, y \in Nat : <<y, x>> \in R <=> y < x
  BY DEF OpToRel
<1> HIDE DEF R
<1>3. PICK n \in S : \A m \in S : ~(<<m, n>> \in R)
  BY <1>1, WFMin
<1>4. \A m \in S : ~(m < n)
  BY <1>2, <1>3, Zenon
<1> QED
  BY <1>4

\* LREM leaves a list of snapshots that were in it before, all but the one given.
LEMMA Removed ==
    ASSUME NEW s \in Seq(Snapshot), NEW x
    PROVE  /\ Remove(s, x) \in Seq(Snapshot)
           /\ \A j \in Jobs : (\E i \in 1..Len(Remove(s, x)) : Remove(s, x)[i].job = j)
                                 => \E i \in 1..Len(s) : s[i].job = j
           /\ \A k \in 1..Len(s) : s[k] # x =>
                 \E i \in 1..Len(Remove(s, x)) : Remove(s, x)[i] = s[k]
<1> DEFINE hits == {i \in 1..Len(s) : s[i] = x}
           first == CHOOSE i \in hits : \A k \in hits : i <= k
<1>1. CASE hits = {}
  BY <1>1 DEF Remove
<1>2. CASE hits # {}
  <2>0. hits \in SUBSET Nat
    OBVIOUS
  <2>1. \E i \in hits : \A k \in hits : i <= k
    BY <1>2, <2>0, Smallest
  <2>2. first \in 1..Len(s)
    BY <2>1
  <2>3. Remove(s, x) = SubSeq(s, 1, first - 1) \o SubSeq(s, first + 1, Len(s))
    BY <1>2 DEF Remove
  <2> HIDE DEF first
  <2> DEFINE b == SubSeq(s, 1, first - 1)
             c == SubSeq(s, first + 1, Len(s))
  <2>4. /\ b \in Seq(Snapshot) /\ Len(b) = first - 1
        /\ \A i \in 1..first - 1 : b[i] = s[i] /\ i \in 1..Len(s)
    BY <2>2
  <2>5. /\ c \in Seq(Snapshot) /\ Len(c) = Len(s) - first
        /\ \A i \in 1..Len(s) - first : c[i] = s[first + i] /\ first + i \in 1..Len(s)
    BY <2>2
  <2> HIDE DEF b, c
  <2>6. /\ b \o c \in Seq(Snapshot) /\ Len(b \o c) = Len(b) + Len(c)
        /\ \A i \in 1..Len(b) + Len(c) :
              (b \o c)[i] = IF i <= Len(b) THEN b[i] ELSE c[i - Len(b)]
    <3>1. b \in Seq(Snapshot) /\ c \in Seq(Snapshot)
      BY <2>4, <2>5
    <3> QED
      BY <3>1
  <2>7. ASSUME NEW i \in 1..Len(b \o c)
        PROVE  \E k \in 1..Len(s) : (b \o c)[i] = s[k]
    <3>1. i \in 1..Len(b) + Len(c) /\ Len(b) \in Nat /\ Len(c) \in Nat
      BY <2>4, <2>5, <2>6
    <3>2. CASE i <= Len(b)
      BY <2>4, <2>6, <3>1, <3>2
    <3>3. CASE ~(i <= Len(b))
      <4>1. i - Len(b) \in 1..Len(s) - first
        BY <2>5, <3>1, <3>3
      <4>2. (b \o c)[i] = c[i - Len(b)]
        BY <2>6, <3>1, <3>3
      <4> QED
        BY <2>5, <4>1, <4>2
    <3> QED
      BY <3>2, <3>3
  <2>8. ASSUME NEW k \in 1..Len(s), s[k] # x
        PROVE  \E i \in 1..Len(b \o c) : (b \o c)[i] = s[k]
    <3>1. s[first] = x
      BY <2>1 DEF first
    <3>2. k \in 1..first - 1 \/ k - first \in 1..Len(s) - first
      BY <2>2, <2>8, <3>1
    <3>3. CASE k \in 1..first - 1
      <4>1. k \in 1..Len(b \o c) /\ (b \o c)[k] = b[k] /\ b[k] = s[k]
        BY <2>2, <2>4, <2>5, <2>6, <3>3
      <4> QED
        BY <4>1
    <3>4. CASE k - first \in 1..Len(s) - first
      <4> DEFINE i == Len(b) + (k - first)
      <4>1. /\ i \in 1..Len(b) + Len(c) /\ ~(i <= Len(b)) /\ i - Len(b) = k - first
            /\ first + (k - first) = k
        BY <2>2, <2>4, <2>5, <3>4
      <4>2. (b \o c)[i] = c[k - first] /\ c[k - first] = s[k]
        BY <2>5, <2>6, <3>4, <4>1
      <4> QED
        BY <2>6, <4>1, <4>2
    <3> QED
      BY <3>2, <3>3, <3>4
  <2> DEFINE r == b \o c
  <2>9. r \in Seq(Snapshot) /\ r = Remove(s, x)
    BY <2>3, <2>6 DEF b, c
  <2>10. \A i \in 1..Len(r) : \E k \in 1..Len(s) : r[i] = s[k]
    BY <2>7
  <2>11. \A k \in 1..Len(s) : s[k] # x => \E i \in 1..Len(r) : r[i] = s[k]
    BY <2>8
  <2> HIDE DEF r
  <2> QED
    BY <2>9, <2>10, <2>11
<1> QED
  BY <1>1, <1>2

LEMMA RemovedFromDlq ==
    ASSUME TypeOK, NEW x, dlq' = Remove(dlq, x)
    PROVE  /\ dlq' \in Seq(Snapshot) /\ \A j \in Jobs : InDlq(j)' => InDlq(j)
           /\ \A j \in Jobs : InDlq(j) /\ j # x.job => InDlq(j)'
<1> DEFINE rest == Remove(dlq, x)
<1>1. dlq \in Seq(Snapshot)
  BY DEF TypeOK
<1>2. /\ rest \in Seq(Snapshot)
      /\ \A j \in Jobs : (\E i \in 1..Len(rest) : rest[i].job = j) => InDlq(j)
      /\ \A j \in Jobs : InDlq(j) /\ j # x.job => \E i \in 1..Len(rest) : rest[i].job = j
  <2>1. /\ rest \in Seq(Snapshot)
        /\ \A j \in Jobs : (\E i \in 1..Len(rest) : rest[i].job = j) => InDlq(j)
        /\ \A k \in 1..Len(dlq) : dlq[k] # x => \E i \in 1..Len(rest) : rest[i] = dlq[k]
    BY <1>1, Removed DEF InDlq
  <2> HIDE DEF rest
  <2>2. ASSUME NEW j \in Jobs, InDlq(j), j # x.job
        PROVE  \E i \in 1..Len(rest) : rest[i].job = j
    <3>1. PICK k \in 1..Len(dlq) : dlq[k].job = j
      BY <2>2 DEF InDlq
    <3> QED
      BY <2>1, <2>2, <3>1
  <2> QED
    BY <2>1, <2>2
<1>3. dlq' = rest
  OBVIOUS
<1> HIDE DEF rest
<1>4. \A j \in Jobs : InDlq(j)' <=> \E i \in 1..Len(rest) : rest[i].job = j
  BY <1>3 DEF InDlq
<1> QED
  BY <1>2, <1>3, <1>4

-----------------------------------------------------------------------------
(* Type correctness.                                                       *)

\* The parts of a request that decide nothing but where it goes.
RequestOK ==
    /\ apc \in [Admins -> {"idle", "range", "replay", "load", "save", "add"}]
    /\ target \in [Admins -> Jobs \union {NoJob}]
    /\ found \in [Admins -> Snapshot \union {NoSnapshot}]
    /\ \A a \in Admins : target[a] = NoJob <=> apc[a] = "idle"

LEMMA AdminGotoStep ==
    ASSUME RequestOK, NEW a \in Admins, apc[a] # "idle",
           NEW l \in {"idle", "replay", "load", "save", "add"}, AdminGoto(a, l)
    PROVE  RequestOK'
<1>1. apc' \in [Admins -> {"idle", "range", "replay", "load", "save", "add"}]
      /\ apc'[a] = l /\ \A b \in Admins \ {a} : apc'[b] = apc[b]
  BY DEF RequestOK, AdminGoto
<1>2. /\ target' \in [Admins -> Jobs \union {NoJob}]
      /\ target'[a] = IF l = "idle" THEN NoJob ELSE target[a]
      /\ \A b \in Admins \ {a} : target'[b] = target[b]
  <2>1. CASE l = "idle"
    BY <2>1 DEF RequestOK, AdminGoto
  <2>2. CASE l # "idle"
    <3>1. target' = target
      BY <2>2 DEF AdminGoto
    <3> QED
      BY <2>2, <3>1 DEF RequestOK
  <2> QED
    BY <2>1, <2>2
<1>3. found' \in [Admins -> Snapshot \union {NoSnapshot}]
  BY DEF RequestOK, AdminGoto
<1>4. \A b \in Admins : target'[b] = NoJob <=> apc'[b] = "idle"
  <2>1. target[a] # NoJob
    BY DEF RequestOK
  <2>2. target'[a] = NoJob <=> apc'[a] = "idle"
    BY <1>1, <1>2, <2>1
  <2>3. \A b \in Admins \ {a} : target'[b] = NoJob <=> apc'[b] = "idle"
    BY <1>1, <1>2 DEF RequestOK
  <2> QED
    BY <2>2, <2>3
<1> QED
  BY <1>1, <1>2, <1>3, <1>4 DEF RequestOK

\* A writing command of request a, without what it writes.
Told(a, l) ==
    /\ \/ AdminGoto(a, l) /\ Answered
       \/ AdminGoto(a, "idle") /\ Failed(target[a])
       \/ UNCHANGED <<apc, target, found>> /\ SentAgain(target[a])
    /\ raced' = IF InUse(a) THEN raced \union {target[a]} ELSE raced
    /\ UNCHANGED <<retries, client, taskVars, proc, stops, runs, succeeded, evicted, dropped>>

LEMMA AdminCommandStep ==
    ASSUME TypeOK, TaskInv, RequestOK, NEW a \in Admins, apc[a] # "idle",
           NEW l \in {"idle", "add"},
           Told(a, l)
    PROVE  /\ RequestOK' /\ target[a] \in Jobs
           /\ Answered \/ Failed(target[a]) \/ SentAgain(target[a])
           /\ faults' \in Nat /\ resends' \in Nat
           /\ disturbed' \subseteq Jobs /\ resent' \subseteq Jobs /\ resent \subseteq resent'
           /\ raced \subseteq raced'
           /\ InUse(a) => target[a] \in raced'
           /\ raced' \subseteq raced \union {target[a]}
           /\ \A b \in Admins \ {a} : apc'[b] = apc[b] /\ target'[b] = target[b]
           /\ \/ apc'[a] = l \/ apc'[a] = "idle"
              \/ UNCHANGED <<apc, target>> /\ target[a] \in resent'
           /\ apc'[a] = "add" => target'[a] = target[a]
           /\ UNCHANGED <<retries, client, taskVars, proc, stops, runs, succeeded, evicted, dropped>>
<1>1. target[a] \in Jobs
  BY DEF RequestOK
<1>2. Answered \/ Failed(target[a]) \/ SentAgain(target[a])
  BY DEF Told
<1>3. AdminGoto(a, l) \/ AdminGoto(a, "idle") \/ UNCHANGED <<apc, target, found>>
  BY DEF Told
<1>4. RequestOK'
  BY <1>3, AdminGotoStep DEF RequestOK
<1>5. /\ \A b \in Admins \ {a} : apc'[b] = apc[b] /\ target'[b] = target[b]
      /\ apc'[a] = "add" => target'[a] = target[a]
  BY <1>3 DEF AdminGoto, RequestOK
<1>6. \/ apc'[a] = l \/ apc'[a] = "idle"
      \/ UNCHANGED <<apc, target>> /\ target[a] \in resent'
  <2>1. AdminGoto(a, l) \/ AdminGoto(a, "idle")
        \/ (UNCHANGED <<apc, target>> /\ SentAgain(target[a]))
    BY DEF Told
  <2> QED
    BY <2>1 DEF AdminGoto, RequestOK, SentAgain
<1>7. /\ raced \subseteq raced' /\ raced' \subseteq raced \union {target[a]}
      /\ InUse(a) => target[a] \in raced'
      /\ UNCHANGED <<retries, client, taskVars, proc, stops, runs, succeeded, evicted, dropped>>
  BY DEF Told
<1>8. resent \subseteq resent'
  BY <1>2 DEF Answered, Failed, SentAgain
<1> QED
  BY <1>1, <1>2, <1>4, <1>5, <1>6, <1>7, <1>8, LedgerStep

-----------------------------------------------------------------------------
(* The goroutines' steps.                                                  *)

\* A step of goroutine t changes nothing but t itself and the job it holds.
LEMMA TaskFrame ==
    ASSUME TypeOK, TaskInv, NEW t \in Tasks, ProcessJob(t)
    PROVE  /\ held[t] \in Jobs /\ pc[t] # "idle"
           /\ \A u \in Tasks : u # t => held'[u] = held[u] /\ pc'[u] = pc[u] /\ att'[u] = att[u]
           /\ held'[t] = IF pc'[t] = "idle" THEN NoJob ELSE held[t]
           /\ UNCHANGED client
           /\ resent \subseteq resent'
           /\ due' = due \/ due' = due \union {held[t]}
           /\ \A k \in Jobs \ {held[t]} : store'[k] = store[k] /\ runs'[k] = runs[k]
           /\ \A k \in Jobs \ {held[t]} : InDlq(k)' => InDlq(k)
<1>1. held[t] \in Jobs /\ pc[t] # "idle"
  BY DEF ProcessJob, LoadJob, MarkRunning, HandlerSucceeds, HandlerFails, PushDeadLetter,
     TrimDeadLetter, DeleteJob, RequeueSave, RequeueAdd, TypeOK, TaskInv
<1>2. /\ UNCHANGED client /\ resent \subseteq resent'
      /\ \A u \in Tasks : u # t => held'[u] = held[u] /\ pc'[u] = pc[u] /\ att'[u] = att[u]
  BY DEF ProcessJob, LoadJob, MarkRunning, HandlerSucceeds, HandlerFails, PushDeadLetter,
     TrimDeadLetter, DeleteJob, RequeueSave, RequeueAdd, TypeOK, Command, Goto, GotoWith, Answered,
     Failed, SentAgain, taskVars, budgetVars, historyVars
<1>3. \/ \E l \in Labels, n \in Nat : GotoWith(t, l, n)
      \/ UNCHANGED taskVars
  <2>1. att[t] \in Nat /\ att[t] + 1 \in Nat /\ store[held[t]].attempts \in Nat
    BY <1>1 DEF TypeOK, Envelope, Absent
  <2>2. (\E l \in Labels : Goto(t, l)) => \E l \in Labels, n \in Nat : GotoWith(t, l, n)
    BY <2>1 DEF Goto
  <2>3. \/ \E l \in Labels : Goto(t, l)
        \/ \E l \in Labels : GotoWith(t, l, att[t] + 1)
        \/ GotoWith(t, "mark", store[held[t]].attempts)
        \/ UNCHANGED taskVars
    BY DEF ProcessJob, LoadJob, MarkRunning, HandlerSucceeds, HandlerFails, PushDeadLetter,
       TrimDeadLetter, DeleteJob, RequeueSave, RequeueAdd, Command, Labels
  <2> QED
    BY <2>1, <2>2, <2>3 DEF Labels
<1>4. held'[t] = IF pc'[t] = "idle" THEN NoJob ELSE held[t]
  BY <1>1, <1>3 DEF GotoWith, taskVars, TypeOK
<1>5. /\ due' = due \/ due' = due \union {held[t]}
      /\ \A k \in Jobs \ {held[t]} : store'[k] = store[k] /\ runs'[k] = runs[k]
  BY <1>1 DEF ProcessJob, LoadJob, MarkRunning, HandlerSucceeds, HandlerFails, PushDeadLetter,
     TrimDeadLetter, DeleteJob, RequeueSave, RequeueAdd, TypeOK, Command, SaveJob, redisVars,
     historyVars
<1>6. \A k \in Jobs \ {held[t]} : InDlq(k)' => InDlq(k)
  <2>1. CASE PushDeadLetter(t)
    BY <2>1, PushEffect
  <2>2. CASE TrimDeadLetter(t)
    BY <2>2, TrimEffect
  <2>3. CASE ~PushDeadLetter(t) /\ ~TrimDeadLetter(t)
    <3>1. UNCHANGED dlq
      BY <2>3 DEF ProcessJob, LoadJob, MarkRunning, HandlerSucceeds, HandlerFails, DeleteJob,
         RequeueSave, RequeueAdd, Command, SaveJob, redisVars
    <3> QED
      BY <3>1, DlqUnchanged
  <2> QED
    BY <2>1, <2>2, <2>3
<1> QED
  BY <1>1, <1>2, <1>4, <1>5, <1>6

\* What the invariant says of the calm job j in the hands of goroutine t.
RetryOwn(t, j) ==
    /\ BudgetOK(j)
    /\ pc[t] # "idle" => j \notin due /\ RetryStage(j, pc[t], att[t])

LEMMA RetryOwnBefore ==
    ASSUME RetryInv, NEW t \in Tasks, pc[t] # "idle", held[t] \in Calm
    PROVE  RetryOwn(t, held[t])
BY DEF RetryInv, RetryHeld, Budgeted, RetryOwn

\* A step of goroutine t preserves the invariant if it leaves its job, unless
\* resent or raced, as the invariant wants it.
LEMMA RetryOwnStep ==
    ASSUME AdminGood, NEW t \in Tasks, ProcessJob(t), UNCHANGED adminVars,
           NEW j \in Jobs, j = held[t],
           j \notin resent' \union raced' => RetryOwn(t, j)'
    PROVE  RetryInv'
<1> USE DEF AdminGood, RetryInv
<1>1. /\ pc[t] # "idle"
      /\ \A u \in Tasks : u # t => held'[u] = held[u] /\ pc'[u] = pc[u] /\ att'[u] = att[u]
      /\ held'[t] = IF pc'[t] = "idle" THEN NoJob ELSE j
      /\ client' = client
      /\ resent \subseteq resent' /\ raced' = raced
      /\ due' = due \/ due' = due \union {j}
      /\ \A k \in Jobs \ {j} : store'[k] = store[k] /\ runs'[k] = runs[k]
      /\ \A k \in Jobs \ {j} : InDlq(k)' => InDlq(k)
  BY TaskFrame DEF AdminTypeOK, adminVars, seenByAdmins
<1>2. UNCHANGED <<apc, target, base>>
  BY DEF adminVars, seenByAdmins
<1>3. due' \subseteq Jobs
  BY <1>1 DEF AdminTypeOK, TypeOK
<1>4. Calm' \subseteq Calm
  BY <1>1 DEF Calm
<1>5. Aimed'
  BY <1>1, <1>2 DEF Aimed
<1>6. Untouched'
  <2>1. client[j] # "new"
    BY DEF Untouched
  <2>2. ASSUME NEW k \in Jobs, client[k] = "new"
        PROVE  /\ k \notin due'
               /\ store'[k] = Absent
               /\ runs'[k] = 0
               /\ \A u \in Tasks : held'[u] # k
               /\ ~InDlq(k)'
    <3>1. k # j
      BY <2>1, <2>2
    <3>2. \A u \in Tasks : held'[u] # k
      BY <1>1, <2>2, <3>1, JobQueueAssumption DEF Untouched
    <3> QED
      BY <1>1, <2>2, <3>1, <3>2 DEF Untouched
  <2> QED
    BY <1>1, <2>2 DEF Untouched
<1>7. Sending'
  BY <1>1 DEF Sending
<1>8. Budgeted'
  <2>1. ASSUME NEW k \in Calm', k # j
        PROVE  BudgetOK(k)'
    <3>1. BudgetOK(k) /\ k \in Jobs
      BY <1>4, <2>1 DEF Budgeted, Calm
    <3>2. store'[k] = store[k] /\ runs'[k] = runs[k] /\ base'[k] = base[k] /\ (k \in due' <=> k \in due)
      BY <1>1, <1>2, <2>1, <3>1
    <3> QED
      BY <3>1, <3>2 DEF BudgetOK, Given
  <2>2. j \in Calm' => BudgetOK(j)'
    BY DEF RetryOwn, Calm
  <2> QED
    BY <2>1, <2>2 DEF Budgeted
<1>9. RetryHeld'
  <2>1. ASSUME NEW u \in Tasks, held'[u] \in Calm', u # t
        PROVE  /\ held'[u] \notin due'
               /\ \A v \in Tasks : held'[v] = held'[u] => v = u
               /\ RetryStage(held[u], pc[u], att[u])'
    <3>1. held[u] \in Calm /\ held'[u] = held[u]
      BY <1>1, <1>4, <2>1
    <3>2. held[u] # j
      BY <2>1, <3>1 DEF RetryHeld
    <3>3. held[u] \in Jobs /\ held[u] # NoJob
      BY <3>1, JobQueueAssumption DEF Calm
    <3>4. \A v \in Tasks : held'[v] = held[u] => v = u
      BY <1>1, <3>1, <3>2, <3>3 DEF RetryHeld
    <3>5. RetryStage(held[u], pc[u], att[u]) /\ held[u] \notin due
      BY <3>1 DEF RetryHeld
    <3>6. /\ store'[held[u]] = store[held[u]] /\ runs'[held[u]] = runs[held[u]]
          /\ base' = base /\ pc'[u] = pc[u] /\ att'[u] = att[u] /\ held[u] \notin due'
      BY <1>1, <1>2, <2>1, <3>2, <3>3, <3>5
    <3> QED
      BY <3>1, <3>4, <3>5, <3>6 DEF RetryStage, Given
  <2>2. ASSUME held'[t] \in Calm'
        PROVE  /\ held'[t] \notin due'
               /\ \A v \in Tasks : held'[v] = held'[t] => v = t
               /\ RetryStage(held[t], pc[t], att[t])'
    <3>1. held'[t] = j /\ pc'[t] # "idle" /\ j \in Calm
      BY <1>1, <1>4, <2>2, JobQueueAssumption DEF Calm
    <3>2. \A v \in Tasks : held'[v] = held'[t] => v = t
      BY <1>1, <3>1 DEF RetryHeld
    <3> QED
      BY <2>2, <3>1, <3>2 DEF RetryOwn, Calm
  <2> QED
    BY <2>1, <2>2 DEF RetryHeld
<1>10. Adding'
  <2> SUFFICES ASSUME NEW a \in Admins, apc[a] = "add", target[a] \in Calm'
               PROVE  /\ target[a] \notin due'
                      /\ \A u \in Tasks : held'[u] # target[a]
                      /\ store'[target[a]].attempts = 0
                      /\ runs'[target[a]] = base[target[a]]
    BY <1>2 DEF Adding
  <2>1. target[a] \in Calm /\ target[a] \in Jobs /\ target[a] # NoJob
    BY <1>4, JobQueueAssumption DEF Calm
  <2>2. target[a] # j
    BY <2>1 DEF Adding
  <2> QED
    BY <1>1, <2>1, <2>2 DEF Adding
<1> QED
  BY <1>5, <1>6, <1>7, <1>8, <1>9, <1>10

LEMMA RetryLoad ==
    ASSUME AdminGood, NEW t \in Tasks, LoadJob(t), UNCHANGED adminVars,
           NEW j \in Calm, j = held[t], j \notin resent'
    PROVE  RetryOwn(t, j)'
<1>1. RetryOwn(t, j) /\ pc[t] = "load"
  BY RetryOwnBefore DEF AdminGood, LoadJob
<1>2. UNCHANGED <<store, due, runs, base>>
  BY DEF LoadJob, redisVars, adminVars, seenByAdmins
<1>3. BudgetOK(j)'
  BY <1>1, <1>2 DEF RetryOwn, BudgetOK, Given
<1>4. \/ pc'[t] = "idle"
      \/ pc'[t] = "mark" /\ att'[t] = store[j].attempts
  BY DEF LoadJob, Goto, GotoWith, AdminGood, AdminTypeOK, TypeOK
<1> QED
  BY <1>1, <1>2, <1>3, <1>4 DEF RetryOwn, RetryStage, Given

LEMMA RetryMark ==
    ASSUME AdminGood, NEW t \in Tasks, MarkRunning(t), UNCHANGED adminVars,
           NEW j \in Calm, j = held[t], j \notin resent'
    PROVE  RetryOwn(t, j)'
<1>1. RetryOwn(t, j) /\ pc[t] = "mark" /\ j \in Jobs
  BY RetryOwnBefore DEF AdminGood, MarkRunning, Calm
<1>2. UNCHANGED <<due, base>>
  BY DEF MarkRunning, Command, SaveJob, redisVars, adminVars, seenByAdmins
<1>3. \/ /\ pc'[t] = "run" /\ att'[t] = att[t]
         /\ store'[j] = [status |-> "running", attempts |-> att[t]]
      \/ /\ pc'[t] = "idle"
         /\ store'[j] \in {store[j], [status |-> "running", attempts |-> att[t]]}
  BY <1>1 DEF MarkRunning, Command, SaveJob, Goto, GotoWith, SentAgain, AdminGood, AdminTypeOK, TypeOK,
     redisVars
<1>4. runs'[j] = IF pc'[t] = "run" /\ runs[j] < MaxRuns THEN runs[j] + 1 ELSE runs[j]
  BY <1>1 DEF MarkRunning, AdminGood, AdminTypeOK, TypeOK
<1>5. /\ runs[j] \in Nat /\ base[j] \in Nat /\ MaxAttempts[j] \in Nat /\ MaxRuns \in Nat
      /\ att[t] \in Nat
  BY <1>1, JobQueueAssumption DEF AdminGood, AdminTypeOK, TypeOK
<1>6. /\ base[j] <= runs[j] /\ Given(j) < MaxAttempts[j] /\ Given(j) = att[t] /\ j \notin due
      /\ store[j] = Queued(0) => runs[j] = base[j]
  BY <1>1 DEF RetryOwn, BudgetOK, RetryStage
<1>7. runs[j] < MaxRuns
  BY <1>5, <1>6, Countable DEF AdminGood, Given
<1>8. [status |-> "running", attempts |-> att[t]] # Queued(0)
  BY DEF Queued
<1>9. CASE pc'[t] = "run"
  <2>1. runs'[j] = runs[j] + 1 /\ store'[j] # Queued(0) /\ att'[t] = att[t]
    BY <1>3, <1>4, <1>7, <1>8, <1>9
  <2>2. Given(j)' = att[t] + 1 /\ Given(j)' <= MaxAttempts[j] /\ base[j] <= runs'[j]
    BY <1>2, <1>5, <1>6, <2>1 DEF Given
  <2> QED
    BY <1>2, <1>6, <1>9, <2>1, <2>2 DEF RetryOwn, BudgetOK, RetryStage
<1>10. CASE pc'[t] = "idle"
  <2>1. runs'[j] = runs[j]
    BY <1>4, <1>10
  <2>2. Given(j)' = Given(j)
    BY <1>2, <2>1 DEF Given
  <2>3. store'[j] = Queued(0) => store[j] = Queued(0)
    BY <1>3, <1>8, <1>10
  <2> QED
    BY <1>1, <1>2, <1>6, <1>10, <2>1, <2>2, <2>3 DEF RetryOwn, BudgetOK
<1> QED
  BY <1>3, <1>9, <1>10

LEMMA RetryHandled ==
    ASSUME AdminGood, NEW t \in Tasks, HandlerSucceeds(t) \/ HandlerFails(t), UNCHANGED adminVars,
           NEW j \in Calm, j = held[t], j \notin resent'
    PROVE  RetryOwn(t, j)'
<1>1. RetryOwn(t, j) /\ pc[t] = "run"
  BY RetryOwnBefore DEF AdminGood, HandlerSucceeds, HandlerFails
<1>2. UNCHANGED <<store, due, runs, base>>
  BY DEF HandlerSucceeds, HandlerFails, redisVars, adminVars, seenByAdmins, historyVars
<1>3. BudgetOK(j)'
  BY <1>1, <1>2 DEF RetryOwn, BudgetOK, Given
<1>4. \/ pc'[t] = "erase"
      \/ pc'[t] \in {"push", "save"} /\ att'[t] = att[t] + 1
  BY DEF HandlerSucceeds, HandlerFails, Goto, GotoWith, AdminGood, AdminTypeOK, TypeOK
<1> QED
  BY <1>1, <1>2, <1>3, <1>4 DEF RetryOwn, RetryStage, Given

\* The commands of a job whose outcome is decided touch nothing a retry reads
\* but the key itself.
LEMMA RetryOver ==
    ASSUME AdminGood, NEW t \in Tasks, PushDeadLetter(t) \/ TrimDeadLetter(t) \/ DeleteJob(t),
           UNCHANGED adminVars,
           NEW j \in Calm, j = held[t], j \notin resent'
    PROVE  RetryOwn(t, j)'
<1>1. RetryOwn(t, j) /\ pc[t] \in {"push", "trim", "erase"} /\ j \in Jobs
  BY RetryOwnBefore DEF AdminGood, PushDeadLetter, TrimDeadLetter, DeleteJob, Calm
<1>2. UNCHANGED <<due, runs, base>> /\ store'[j] \in {store[j], Absent}
  BY <1>1 DEF PushDeadLetter, TrimDeadLetter, DeleteJob, Command, redisVars, adminVars, seenByAdmins, AdminGood,
     AdminTypeOK, TypeOK
<1>3. Absent # Queued(0)
  BY DEF Absent, Queued
<1>4. pc'[t] \in {"trim", "erase", "idle"} \/ pc'[t] = pc[t]
  BY DEF PushDeadLetter, TrimDeadLetter, DeleteJob, Command, Goto, GotoWith, taskVars, AdminGood,
     AdminTypeOK, TypeOK
<1>5. BudgetOK(j)'
  BY <1>1, <1>2, <1>3 DEF RetryOwn, BudgetOK, Given
<1> QED
  BY <1>1, <1>2, <1>4, <1>5 DEF RetryOwn, RetryStage

LEMMA RetrySaved ==
    ASSUME AdminGood, NEW t \in Tasks, RequeueSave(t), UNCHANGED adminVars,
           NEW j \in Calm, j = held[t], j \notin resent'
    PROVE  RetryOwn(t, j)'
<1>1. RetryOwn(t, j) /\ pc[t] = "save" /\ j \in Jobs
  BY RetryOwnBefore DEF AdminGood, RequeueSave, Calm
<1>2. UNCHANGED <<due, runs, base>>
  BY DEF RequeueSave, Command, SaveJob, redisVars, adminVars, seenByAdmins
<1>3. \/ /\ pc'[t] = "add" /\ att'[t] = att[t]
         /\ store'[j] = [status |-> "queued", attempts |-> att[t]]
      \/ /\ pc'[t] = "idle"
         /\ store'[j] \in {store[j], [status |-> "queued", attempts |-> att[t]]}
  BY <1>1 DEF RequeueSave, Command, SaveJob, Goto, GotoWith, SentAgain, AdminGood, AdminTypeOK, TypeOK,
     redisVars
<1>4. att[t] # 0
  BY <1>1, JobQueueAssumption DEF AdminGood, TaskInv
<1>5. [status |-> "queued", attempts |-> att[t]] # Queued(0)
  <2>1. [status |-> "queued", attempts |-> att[t]].attempts # Queued(0).attempts
    BY <1>4 DEF Queued
  <2> QED
    BY <2>1
<1>6. BudgetOK(j)'
  BY <1>1, <1>2, <1>3, <1>5 DEF RetryOwn, BudgetOK, Given
<1> QED
  BY <1>1, <1>2, <1>3, <1>6 DEF RetryOwn, RetryStage, Given

LEMMA RetryAdded ==
    ASSUME AdminGood, NEW t \in Tasks, RequeueAdd(t), UNCHANGED adminVars,
           NEW j \in Calm, j = held[t], j \notin resent'
    PROVE  RetryOwn(t, j)'
<1>1. RetryOwn(t, j) /\ pc[t] = "add" /\ j \in Jobs
  BY RetryOwnBefore DEF AdminGood, RequeueAdd, Calm
<1>2. UNCHANGED <<store, runs, base>> /\ pc'[t] = "idle"
  BY DEF RequeueAdd, Command, Goto, GotoWith, SentAgain, redisVars, adminVars, seenByAdmins, AdminGood, AdminTypeOK,
     TypeOK
<1>3. att[t] < MaxAttempts[j]
  BY <1>1, JobQueueAssumption DEF AdminGood, TaskInv
<1>4. Given(j) = att[t] /\ store[j].attempts = att[t]
  BY <1>1 DEF RetryOwn, RetryStage
<1> QED
  BY <1>1, <1>2, <1>3, <1>4 DEF RetryOwn, BudgetOK, Given

LEMMA RetryTaskStep ==
    ASSUME AdminGood, NEW t \in Tasks, ProcessJob(t), UNCHANGED adminVars
    PROVE  RetryInv'
<1> DEFINE j == held[t]
<1>1. j \in Jobs /\ resent \subseteq resent' /\ raced' = raced
  BY TaskFrame DEF AdminGood, AdminTypeOK, adminVars, seenByAdmins
<1>2. PICK i \in Jobs : i = held[t]
  BY <1>1
<1>3. ASSUME i \notin resent' \union raced'
      PROVE  RetryOwn(t, i)'
  <2>1. i \in Calm /\ i \notin resent'
    BY <1>1, <1>3 DEF Calm
  <2> QED
    BY <1>2, <2>1, RetryLoad, RetryMark, RetryHandled, RetryOver, RetrySaved, RetryAdded DEF ProcessJob
<1> QED
  BY <1>2, <1>3, RetryOwnStep

-----------------------------------------------------------------------------
(* The other steps of JobQueue.                                            *)

LEMMA RetryEnqueue ==
    ASSUME AdminGood, NEW j \in Jobs, Enqueue(j), UNCHANGED adminVars
    PROVE  RetryInv'
<1> USE DEF AdminGood, RetryInv
<1>1. \E set, add \in BOOLEAN : Pipeline(j, set, add)
  BY DEF Enqueue
<1>2. UNCHANGED <<pc, held, att, runs, dlq, apc, target, base, raced>>
  BY <1>1 DEF Enqueue, Pipeline, taskVars, adminVars, seenByAdmins
<1>3. \A k \in Jobs : InDlq(k)' <=> InDlq(k)
  BY <1>2, DlqUnchanged
<1>4. client'[j] # "new" /\ \A k \in Jobs : k # j => client'[k] = client[k]
  BY DEF Enqueue, AdminTypeOK, TypeOK
<1>5. /\ \A k \in Jobs : k # j => store'[k] = store[k] /\ (k \in due' <=> k \in due)
      /\ store'[j] = store[j] \/ store'[j] = Queued(0)
      /\ j \in due' => j \in due \/ store'[j] = Queued(0)
      /\ due' \subseteq Jobs
  BY <1>1 DEF Enqueue, Pipeline, AdminTypeOK, TypeOK
<1>6. resent \subseteq resent' /\ (client'[j] = "sending" => j \in resent')
  BY DEF Enqueue, AdminTypeOK, TypeOK, Answered, Failed, SentAgain
<1>7. ASSUME j \notin resent
      PROVE  /\ client[j] = "new" /\ j \notin due /\ runs[j] = 0
             /\ store[j] = Absent /\ \A t \in Tasks : held[t] # j
  BY <1>7 DEF Sending, Enqueue, Untouched
<1>8. Calm' \subseteq Calm
  BY <1>2, <1>6 DEF Calm
<1>9. Aimed'
  <2>1. \A a \in Admins : apc[a] \in {"replay", "save", "add"} => target[a] \in Jobs
    BY DEF Aimed, AdminTypeOK
  <2> QED
    BY <1>2, <1>4, <2>1 DEF Aimed
<1>10. Untouched'
  BY <1>2, <1>3, <1>4, <1>5 DEF Untouched
<1>11. Sending'
  BY <1>4, <1>6 DEF Sending
<1>12. Budgeted'
  <2>1. ASSUME NEW k \in Calm', k # j
        PROVE  BudgetOK(k)'
    <3>1. BudgetOK(k) /\ k \in Jobs
      BY <1>8, <2>1 DEF Budgeted, Calm
    <3> QED
      BY <1>2, <1>5, <2>1, <3>1 DEF BudgetOK, Given
  <2>2. ASSUME j \in Calm'
        PROVE  BudgetOK(j)'
    <3>1. j \in Calm /\ j \notin resent
      BY <1>8, <2>2 DEF Calm
    <3>2. base[j] <= runs[j] /\ base[j] \in Nat /\ runs[j] = 0
      BY <1>7, <3>1 DEF Budgeted, BudgetOK, AdminTypeOK
    <3>3. j \in due' => store'[j].attempts = 0
      BY <1>5, <1>7, <3>1 DEF Queued
    <3>4. MaxAttempts[j] \in Nat /\ 0 < MaxAttempts[j]
      BY JobQueueAssumption
    <3> QED
      BY <1>2, <3>2, <3>3, <3>4 DEF BudgetOK, Given
  <2> QED
    BY <2>1, <2>2 DEF Budgeted
<1>13. RetryHeld'
  <2> SUFFICES ASSUME NEW u \in Tasks, held[u] \in Calm'
               PROVE  /\ held[u] \notin due'
                      /\ \A v \in Tasks : held[v] = held[u] => v = u
                      /\ RetryStage(held[u], pc[u], att[u])'
    BY <1>2 DEF RetryHeld
  <2>1. held[u] \in Calm /\ held[u] \in Jobs /\ held[u] \notin resent
    BY <1>8 DEF Calm
  <2>2. held[u] # j
    BY <1>7, <2>1
  <2>3. /\ held[u] \notin due
        /\ \A v \in Tasks : held[v] = held[u] => v = u
        /\ RetryStage(held[u], pc[u], att[u])
    BY <2>1 DEF RetryHeld
  <2> QED
    BY <1>2, <1>5, <2>1, <2>2, <2>3 DEF RetryStage, Given
<1>14. Adding'
  <2> SUFFICES ASSUME NEW a \in Admins, apc[a] = "add", target[a] \in Calm'
               PROVE  /\ target[a] \notin due'
                      /\ \A u \in Tasks : held[u] # target[a]
                      /\ store'[target[a]].attempts = 0
                      /\ runs[target[a]] = base[target[a]]
    BY <1>2 DEF Adding
  <2>1. target[a] \in Calm /\ target[a] \in Jobs /\ target[a] \notin resent
    BY <1>8 DEF Calm
  <2>2. target[a] # j
    BY <1>7, <2>1 DEF Aimed
  <2> QED
    BY <1>5, <2>1, <2>2 DEF Adding
<1> QED
  BY <1>9, <1>10, <1>11, <1>12, <1>13, <1>14

LEMMA RetryPoll ==
    ASSUME AdminGood, NEW t \in Tasks, PollOnce(t), UNCHANGED adminVars
    PROVE  RetryInv'
<1> USE DEF AdminGood, RetryInv
<1>1. PICK j \in Jobs :
        /\ j \in due
        /\ due' = due \ {j}
        /\ \/ /\ pc' = [pc EXCEPT ![t] = "load"]
              /\ held' = [held EXCEPT ![t] = j]
              /\ UNCHANGED att
           \/ UNCHANGED <<pc, held, att>>
  BY DEF PollOnce, Earliest, taskVars
<1>2. UNCHANGED <<store, client, resent, runs, dlq, apc, target, base, raced>>
  BY DEF PollOnce, Answered, Failed, adminVars, seenByAdmins
<1>3. \A k \in Jobs : InDlq(k)' <=> InDlq(k)
  BY <1>2, DlqUnchanged
<1>4. Calm' = Calm
  BY <1>2 DEF Calm
<1>5. Aimed' /\ Sending'
  BY <1>2 DEF Aimed, Sending
<1>6. Untouched'
  <2>1. client[j] # "new"
    BY <1>1 DEF Untouched
  <2> QED
    BY <1>1, <1>2, <1>3, <2>1 DEF Untouched, AdminTypeOK, TypeOK
<1>7. Budgeted'
  BY <1>1, <1>2, <1>4 DEF Budgeted, BudgetOK, Given
<1>8. RetryHeld'
  <2>1. CASE UNCHANGED <<pc, held, att>>
    BY <1>1, <1>2, <1>4, <2>1 DEF RetryHeld, RetryStage, Given
  <2>2. CASE /\ pc' = [pc EXCEPT ![t] = "load"]
             /\ held' = [held EXCEPT ![t] = j]
             /\ UNCHANGED att
    <3>1. /\ held'[t] = j /\ pc'[t] = "load"
          /\ \A u \in Tasks : u # t => held'[u] = held[u] /\ pc'[u] = pc[u] /\ att'[u] = att[u]
      BY <2>2 DEF AdminTypeOK, TypeOK
    <3>2. j \in Calm => \A u \in Tasks : held[u] # j
      BY <1>1 DEF RetryHeld
    <3>3. j \in Calm => Given(j) = store[j].attempts /\ Given(j) < MaxAttempts[j]
      BY <1>1 DEF Budgeted, BudgetOK
    <3>4. ASSUME NEW u \in Tasks, held'[u] \in Calm, u # t
          PROVE  /\ held'[u] \notin due'
                 /\ \A v \in Tasks : held'[v] = held'[u] => v = u
                 /\ RetryStage(held[u], pc[u], att[u])'
      BY <1>1, <1>2, <3>1, <3>2, <3>4 DEF RetryHeld, RetryStage, Given
    <3>5. ASSUME j \in Calm
          PROVE  /\ j \notin due'
                 /\ \A v \in Tasks : held'[v] = j => v = t
                 /\ RetryStage(j, "load", att[t])'
      BY <1>1, <1>2, <3>1, <3>2, <3>3, <3>5 DEF RetryStage, Given
    <3> QED
      BY <1>4, <3>1, <3>4, <3>5 DEF RetryHeld, RetryStage
  <2> QED
    BY <1>1, <2>1, <2>2
<1>9. Adding'
  <2>1. \A a \in Admins : apc[a] = "add" /\ target[a] \in Calm => target[a] # j
    BY <1>1 DEF Adding
  <2> QED
    BY <1>1, <1>2, <1>4, <2>1 DEF Adding, AdminTypeOK, TypeOK
<1> QED
  BY <1>5, <1>6, <1>7, <1>8, <1>9

\* Steps that only empty hands or that touch nothing of this.
LEMMA RetryQuiet ==
    ASSUME AdminGood, UNCHANGED adminVars,
           UNCHANGED <<store, due, dlq, client, runs, resent>>,
           \A u \in Tasks : \/ held'[u] = NoJob
                            \/ held'[u] = held[u] /\ pc'[u] = pc[u] /\ att'[u] = att[u]
    PROVE  RetryInv'
<1> USE DEF AdminGood, RetryInv
<1>1. UNCHANGED <<apc, target, base, raced>>
  BY DEF adminVars, seenByAdmins
<1>2. \A k \in Jobs : InDlq(k)' <=> InDlq(k)
  BY DlqUnchanged
<1>3. Calm' = Calm /\ NoJob \notin Calm
  BY <1>1, JobQueueAssumption DEF Calm
<1>4. Aimed' /\ Sending'
  BY <1>1 DEF Aimed, Sending
<1>5. Untouched'
  BY <1>2, JobQueueAssumption DEF Untouched
<1>6. Budgeted'
  BY <1>1, <1>3 DEF Budgeted, BudgetOK, Given
<1>7. RetryHeld'
  BY <1>1, <1>3 DEF RetryHeld, RetryStage, Given
<1>8. Adding'
  BY <1>1, <1>3 DEF Adding
<1> QED
  BY <1>4, <1>5, <1>6, <1>7, <1>8

LEMMA RetryQueueStep ==
    ASSUME AdminGood, [Next]_vars, UNCHANGED adminVars
    PROVE  RetryInv'
<1>1. ASSUME NEW p \in Procs, Kill(p)
      PROVE  RetryInv'
  BY <1>1, RetryQuiet DEF Kill, redisVars
<1>2. ASSUME NEW p \in Procs, Shutdown(p) \/ Restart(p)
      PROVE  RetryInv'
  BY <1>2, RetryQuiet DEF Shutdown, Restart, redisVars, taskVars, historyVars
<1>3. Tick \/ UNCHANGED vars => RetryInv'
  BY RetryQuiet DEF Tick, vars, redisVars, taskVars, historyVars
<1> QED
  BY <1>1, <1>2, <1>3, RetryEnqueue, RetryPoll, RetryTaskStep
     DEF Next, Crash, ExitDrained, ExitTimedOut

-----------------------------------------------------------------------------
(* The administrators' steps.                                              *)

\* A request that only reads changes nothing but its own position.
LEMMA RetryReads ==
    ASSUME AdminGood, NEW a \in Admins,
           UNCHANGED <<redisVars, client, taskVars, runs, resent, base, raced>>,
           \A b \in Admins \ {a} : apc'[b] = apc[b] /\ target'[b] = target[b],
           apc'[a] # "add",
           Aimed'
    PROVE  RetryInv'
<1> USE DEF AdminGood, RetryInv, redisVars, taskVars
<1>1. \A k \in Jobs : InDlq(k)' <=> InDlq(k)
  BY DlqUnchanged
<1>2. Calm' = Calm
  BY DEF Calm
<1>3. Untouched' /\ Sending'
  BY <1>1 DEF Untouched, Sending
<1>4. Budgeted'
  BY <1>2 DEF Budgeted, BudgetOK, Given
<1>5. RetryHeld'
  BY <1>2 DEF RetryHeld, RetryStage, Given
<1>6. Adding'
  BY <1>2 DEF Adding
<1> QED
  BY <1>3, <1>4, <1>5, <1>6

\* A request that writes its job, not in use by anyone else, preserves the
\* invariant if it leaves the job as the invariant wants it.
LEMMA RetryWrites ==
    ASSUME AdminGood, NEW a \in Admins, NEW j \in Jobs, j = target[a], client[j] # "new",
           UNCHANGED <<client, taskVars, runs>>,
           resent \subseteq resent', raced \subseteq raced', InUse(a) => j \in raced',
           \A b \in Admins \ {a} : apc'[b] = apc[b] /\ target'[b] = target[b],
           \A k \in Jobs \ {j} : /\ store'[k] = store[k] /\ base'[k] = base[k]
                                 /\ k \in due' <=> k \in due
                                 /\ InDlq(k)' => InDlq(k),
           apc'[a] = "add" => target'[a] = j,
           Aimed',
           j \notin resent' \union raced' =>
              /\ BudgetOK(j)'
              /\ apc'[a] = "add" => /\ j \notin due'
                                    /\ store'[j].attempts = 0
                                    /\ runs'[j] = base'[j]
    PROVE  RetryInv'
<1> USE DEF AdminGood, RetryInv
<1>1. Calm' \subseteq Calm
  BY DEF Calm
<1>2. UNCHANGED <<pc, held, att>>
  BY DEF taskVars
<1>3. j \in Calm' => /\ \A t \in Tasks : held[t] # j
                     /\ j \notin due
                     /\ \A b \in Admins \ {a} : target[b] # j
  BY DEF Calm, InUse, HeldBy
<1>4. Untouched' /\ Sending'
  BY <1>2 DEF Untouched, Sending
<1>5. Budgeted'
  <2>1. ASSUME NEW k \in Calm', k # j
        PROVE  BudgetOK(k)'
    <3>1. BudgetOK(k) /\ k \in Jobs
      BY <1>1, <2>1 DEF Budgeted, Calm
    <3> QED
      BY <2>1, <3>1 DEF BudgetOK, Given
  <2>2. j \in Calm' => BudgetOK(j)'
    BY DEF Calm
  <2> QED
    BY <2>1, <2>2 DEF Budgeted
<1>6. RetryHeld'
  <2> SUFFICES ASSUME NEW u \in Tasks, held[u] \in Calm'
               PROVE  /\ held[u] \notin due'
                      /\ \A v \in Tasks : held[v] = held[u] => v = u
                      /\ RetryStage(held[u], pc[u], att[u])'
    BY <1>2 DEF RetryHeld
  <2>1. held[u] \in Calm /\ held[u] \in Jobs /\ held[u] # j
    BY <1>1, <1>3 DEF Calm
  <2>2. /\ held[u] \notin due
        /\ \A v \in Tasks : held[v] = held[u] => v = u
        /\ RetryStage(held[u], pc[u], att[u])
    BY <2>1 DEF RetryHeld
  <2> QED
    BY <1>2, <2>1, <2>2 DEF RetryStage, Given
<1>7. Adding'
  <2>1. ASSUME NEW b \in Admins \ {a}, apc[b] = "add", target[b] \in Calm'
        PROVE  /\ target[b] \notin due'
               /\ \A u \in Tasks : held[u] # target[b]
               /\ store'[target[b]].attempts = 0
               /\ runs[target[b]] = base'[target[b]]
    <3>1. target[b] \in Calm /\ target[b] \in Jobs /\ target[b] # j
      BY <1>1, <1>3, <2>1 DEF Calm
    <3> QED
      BY <2>1, <3>1 DEF Adding
  <2>2. ASSUME apc'[a] = "add", target'[a] \in Calm'
        PROVE  /\ target'[a] \notin due'
               /\ \A u \in Tasks : held[u] # target'[a]
               /\ store'[target'[a]].attempts = 0
               /\ runs'[target'[a]] = base'[target'[a]]
    BY <1>3, <2>2 DEF Calm
  <2> QED
    BY <1>2, <2>1, <2>2 DEF Adding
<1> QED
  BY <1>4, <1>5, <1>6, <1>7

LEMMA GrantedStep ==
    ASSUME AdminTypeOK, AdminTypeOK', Granted, UNCHANGED retries,
           Pending' \subseteq Pending, Calm' \subseteq Calm,
           \A k \in Calm' : \/ base'[k] = base[k]
                            \/ /\ base'[k] <= base[k] + MaxAttempts[k]
                               /\ \E a \in Pending : a \notin Pending'
    PROVE  Granted'
<1>1. /\ IsFiniteSet(Pending)' /\ Cardinality(Pending) \in Nat /\ Cardinality(Pending)' \in Nat
      /\ Cardinality(Pending)' <= Cardinality(Pending)
      /\ \A a \in Pending : a \notin Pending' => Cardinality(Pending)' + 1 <= Cardinality(Pending)
  BY PendingFewer DEF Granted
<1>2. ASSUME NEW k \in Calm'
      PROVE  base'[k] + Cardinality(Pending)' * MaxAttempts[k] <= retries * MaxAttempts[k]
  <2>1. /\ k \in Calm /\ k \in Jobs /\ retries \in Nat /\ base[k] \in Nat /\ base'[k] \in Nat
        /\ MaxAttempts[k] \in Nat
    BY <1>2, JobQueueAssumption DEF AdminTypeOK, Calm
  <2>2. base[k] + Cardinality(Pending) * MaxAttempts[k] <= retries * MaxAttempts[k]
    BY <2>1 DEF Granted
  <2>3. \/ base'[k] = base[k] /\ Cardinality(Pending)' <= Cardinality(Pending)
        \/ base'[k] <= base[k] + MaxAttempts[k] /\ Cardinality(Pending)' + 1 <= Cardinality(Pending)
    BY <1>1, <1>2
  <2> QED
    BY <1>1, <2>1, <2>2, <2>3, FewerGrants
<1> QED
  BY <1>1, <1>2 DEF Granted

\* A step of the queue leaves the requests and their grants alone.
LEMMA QueueStep ==
    ASSUME AdminGood, [Next]_vars, UNCHANGED adminVars
    PROVE  AdminGood'
<1>1. TypeOK' /\ TaskInv'
  BY TypeStep DEF AdminGood, AdminTypeOK
<1>2. AdminTypeOK'
  BY <1>1 DEF AdminGood, AdminTypeOK, adminVars, seenByAdmins
<1>3. RetryInv'
  BY RetryQueueStep
<1>4. resent \subseteq resent'
  <2>1. \A t \in Tasks : ProcessJob(t) => resent \subseteq resent'
    BY TaskFrame DEF AdminGood, AdminTypeOK
  <2>2. \A j \in Jobs : Enqueue(j) => resent \subseteq resent'
    BY DEF Enqueue, Answered, Failed, SentAgain
  <2>3. \A t \in Tasks : PollOnce(t) => resent \subseteq resent'
    BY DEF PollOnce, Answered, Failed
  <2>4. \A p \in Procs : Kill(p) \/ Shutdown(p) \/ Restart(p) => resent \subseteq resent'
    BY DEF Kill, Shutdown, Restart, historyVars
  <2>5. Tick \/ UNCHANGED vars => resent \subseteq resent'
    BY DEF Tick, vars, historyVars
  <2> QED
    BY <2>1, <2>2, <2>3, <2>4, <2>5 DEF Next, Crash, ExitDrained, ExitTimedOut
<1>5. Granted'
  <2>1. UNCHANGED <<apc, base, retries, raced>> /\ Pending' = Pending
    BY DEF adminVars, seenByAdmins, Pending
  <2>2. Calm' \subseteq Calm
    BY <1>4, <2>1 DEF Calm
  <2> QED
    BY <1>2, <2>1, <2>2, GrantedStep DEF AdminGood
<1> QED
  BY <1>1, <1>2, <1>3, <1>5 DEF AdminGood

LEMMA StartRetry ==
    ASSUME AdminGood, NEW a \in Admins, NEW j \in Jobs, AdminRetryJob(a, j)
    PROVE  AdminGood'
<1> USE DEF AdminGood
<1>1. /\ UNCHANGED <<vars, found, base, raced, overrun>>
      /\ apc[a] = "idle" /\ retries < MaxRetries /\ retries' = retries + 1
      /\ apc'[a] = "range" /\ target'[a] = j
      /\ \A b \in Admins \ {a} : apc'[b] = apc[b] /\ target'[b] = target[b]
      /\ apc' \in [Admins -> {"idle", "range", "replay", "load", "save", "add"}]
      /\ target' \in [Admins -> Jobs \union {NoJob}]
  BY DEF AdminRetryJob, AdminTypeOK, seenByAdmins
<1>2. UNCHANGED <<redisVars, client, taskVars, proc, budgetVars, historyVars>>
  BY <1>1 DEF vars
<1>3. TypeOK' /\ TaskInv'
  BY <1>2 DEF AdminTypeOK, TypeOK, TaskInv, redisVars, taskVars, budgetVars, historyVars
<1>4. AdminTypeOK'
  BY <1>1, <1>3 DEF AdminTypeOK
<1>5. Aimed'
  <2>1. UNCHANGED client /\ j # NoJob
    BY <1>2, JobQueueAssumption
  <2>2. \A b \in Admins \ {a} : /\ target'[b] = NoJob <=> apc'[b] = "idle"
                                /\ apc'[b] \in {"replay", "save", "add"} => client'[target'[b]] # "new"
    BY <1>1, <2>1 DEF RetryInv, Aimed
  <2> QED
    BY <1>1, <2>1, <2>2 DEF Aimed
<1>6. RetryInv'
  BY <1>1, <1>2, <1>5, RetryReads DEF historyVars
<1>7. Granted'
  <2>1. Pending' = Pending \union {a} /\ a \notin Pending
    BY <1>1 DEF Pending
  <2>2. /\ IsFiniteSet(Pending)' /\ Cardinality(Pending) \in Nat
        /\ Cardinality(Pending)' = Cardinality(Pending) + 1
    BY <2>1, PendingOneMore DEF Granted
  <2>3. retries' \in Nat /\ retries' <= MaxRetries
    BY <1>1, AdminAssumption DEF AdminTypeOK
  <2>4. ASSUME NEW k \in Calm'
        PROVE  base'[k] + Cardinality(Pending)' * MaxAttempts[k] <= retries' * MaxAttempts[k]
    <3>1. k \in Calm /\ k \in Jobs /\ base'[k] = base[k]
      BY <1>1, <1>2, <2>4 DEF Calm, historyVars
    <3>2. base[k] + Cardinality(Pending) * MaxAttempts[k] <= retries * MaxAttempts[k]
      BY <3>1 DEF Granted
    <3>3. MaxAttempts[k] \in Nat /\ base[k] \in Nat /\ retries \in Nat
      BY <3>1, JobQueueAssumption DEF AdminTypeOK
    <3>4. \A m, n \in Nat : (n + 1) * m = n * m + m /\ n * m \in Nat
      OBVIOUS
    <3>5. /\ (Cardinality(Pending) + 1) * MaxAttempts[k]
                = Cardinality(Pending) * MaxAttempts[k] + MaxAttempts[k]
          /\ Cardinality(Pending) * MaxAttempts[k] \in Nat
          /\ (retries + 1) * MaxAttempts[k] = retries * MaxAttempts[k] + MaxAttempts[k]
          /\ retries * MaxAttempts[k] \in Nat
      BY <2>2, <3>3, <3>4
    <3> QED
      BY <1>1, <2>2, <3>1, <3>2, <3>3, <3>5
  <2> QED
    BY <2>2, <2>3, <2>4 DEF Granted
<1> QED
  BY <1>3, <1>4, <1>6, <1>7

\* The two reads of a request: LRANGE of the list and GET of the key.
LEMMA ReadStep ==
    ASSUME AdminGood, NEW a \in Admins,
           UNCHANGED <<redisVars, client, taskVars, proc, stops, runs, succeeded, evicted, dropped,
                       retries, base, raced, overrun>>,
           Answered \/ Failed(target[a]),
           apc[a] \in {"range", "load"},
           AdminTypeOK' \/ found' \in [Admins -> Snapshot \union {NoSnapshot}],
           \/ AdminGoto(a, "idle") \/ AdminGoto(a, "load")
           \/ (AdminGoto(a, "save") \/ (apc' = [apc EXCEPT ![a] = "replay"] /\ UNCHANGED target))
                 /\ client[target[a]] # "new"
    PROVE  AdminGood'
<1> USE DEF AdminGood
<1>1. target[a] \in Jobs /\ target[a] # NoJob
  BY JobQueueAssumption DEF AdminTypeOK, RetryInv, Aimed
<1>2. /\ apc'[a] \in {"idle", "load", "save", "replay"}
      /\ target'[a] = IF apc'[a] = "idle" THEN NoJob ELSE target[a]
      /\ apc'[a] \in {"save", "replay"} => client[target[a]] # "new"
      /\ \A b \in Admins \ {a} : apc'[b] = apc[b] /\ target'[b] = target[b]
      /\ apc' \in [Admins -> {"idle", "range", "replay", "load", "save", "add"}]
      /\ target' \in [Admins -> Jobs \union {NoJob}]
  BY DEF AdminGoto, AdminTypeOK
<1>3. /\ faults' \in Nat /\ resends' \in Nat /\ disturbed' \subseteq Jobs /\ resent' = resent
  BY <1>1, LedgerStep DEF AdminTypeOK, Answered, Failed
<1>4. TypeOK' /\ TaskInv'
  BY <1>3 DEF AdminTypeOK, TypeOK, TaskInv, redisVars, taskVars
<1>5. AdminTypeOK'
  BY <1>2, <1>4 DEF AdminTypeOK
<1>6. Aimed'
  <2>1. \A b \in Admins \ {a} : /\ target'[b] = NoJob <=> apc'[b] = "idle"
                                /\ apc'[b] \in {"replay", "save", "add"} => client'[target'[b]] # "new"
    BY <1>2 DEF RetryInv, Aimed
  <2>2. /\ target'[a] = NoJob <=> apc'[a] = "idle"
        /\ apc'[a] \in {"replay", "save", "add"} => client'[target'[a]] # "new"
    BY <1>1, <1>2
  <2> QED
    BY <2>1, <2>2 DEF Aimed
<1>7. RetryInv'
  BY <1>2, <1>3, <1>6, RetryReads
<1>8. Granted'
  <2>1. Pending' \subseteq Pending
    BY <1>2 DEF Pending
  <2>2. Calm' = Calm
    BY <1>3 DEF Calm
  <2> QED
    BY <1>5, <2>1, <2>2, GrantedStep
<1> QED
  BY <1>4, <1>5, <1>7, <1>8

LEMMA FindStep ==
    ASSUME AdminGood, NEW a \in Admins, FindSnapshot(a)
    PROVE  AdminGood'
<1> USE DEF AdminGood
<1> DEFINE hits == {i \in 1..Len(dlq) : dlq[i].job = target[a]}
           newest == CHOOSE i \in hits : \A k \in hits : i <= k
<1>1. apc[a] = "range" /\ dlq \in Seq(Snapshot)
  BY DEF FindSnapshot, AdminTypeOK, TypeOK
<1>2. target[a] \in Jobs
  BY <1>1 DEF AdminTypeOK, RetryInv, Aimed
<1>3. /\ UNCHANGED <<redisVars, client, taskVars, proc, stops, runs, succeeded, evicted, dropped,
                     retries, base, raced, overrun>>
      /\ Answered \/ Failed(target[a])
      /\ \/ /\ hits # {} /\ UNCHANGED target
            /\ apc' = [apc EXCEPT ![a] = "replay"]
            /\ found' = [found EXCEPT ![a] = dlq[newest]]
         \/ AdminGoto(a, "load") \/ AdminGoto(a, "idle")
  BY DEF FindSnapshot, seenByAdmins
<1>4. hits # {} => client[target[a]] # "new"
  BY <1>2 DEF RetryInv, Untouched, InDlq
<1>5. found' \in [Admins -> Snapshot \union {NoSnapshot}]
  <2>1. CASE hits # {} /\ found' = [found EXCEPT ![a] = dlq[newest]]
    <3>0. hits \in SUBSET Nat
      OBVIOUS
    <3>1. \E i \in hits : \A k \in hits : i <= k
      BY <2>1, <3>0, Smallest
    <3>2. newest \in 1..Len(dlq)
      BY <3>1
    <3> HIDE DEF newest
    <3>3. dlq[newest] \in Snapshot
      BY <1>1, <3>2
    <3> QED
      BY <2>1, <3>3 DEF AdminTypeOK
  <2>2. CASE AdminGoto(a, "load") \/ AdminGoto(a, "idle")
    BY <2>2 DEF AdminGoto, AdminTypeOK
  <2> QED
    BY <1>3, <2>1, <2>2
<1> HIDE DEF hits, newest
<1> QED
  BY <1>1, <1>3, <1>4, <1>5, ReadStep

LEMMA LoadForRetry ==
    ASSUME AdminGood, NEW a \in Admins, AdminLoad(a)
    PROVE  AdminGood'
<1> USE DEF AdminGood
<1>1. /\ apc[a] = "load"
      /\ UNCHANGED <<redisVars, client, taskVars, proc, stops, runs, succeeded, evicted, dropped,
                     retries, base, raced, overrun>>
      /\ Answered \/ Failed(target[a])
      /\ AdminGoto(a, "idle") \/ (AdminGoto(a, "save") /\ store[target[a]] # Absent)
  BY DEF AdminLoad, seenByAdmins
<1>2. target[a] \in Jobs
  BY <1>1 DEF AdminTypeOK, RetryInv, Aimed
<1>3. store[target[a]] # Absent => client[target[a]] # "new"
  BY <1>2 DEF RetryInv, Untouched
<1>4. found' \in [Admins -> Snapshot \union {NoSnapshot}]
  BY <1>1 DEF AdminGoto, AdminTypeOK
<1> QED
  BY <1>1, <1>3, <1>4, ReadStep

\* A writing command of a request: what is left to show of each of them.
LEMMA WriteStep ==
    ASSUME AdminGood, NEW a \in Admins, apc[a] \in {"replay", "save", "add"},
           NEW l \in {"idle", "add"}, l = "add" => apc[a] = "save",
           Told(a, l),
           NEW j \in Jobs, j = target[a],
           \A k \in Jobs \ {j} : /\ store'[k] = store[k] /\ base'[k] = base[k]
                                 /\ k \in due' <=> k \in due
                                 /\ InDlq(k)' => InDlq(k),
           store' \in [Jobs -> Envelope \union {Absent}], due' \subseteq Jobs,
           wait' \in [Jobs -> Int], dlq' \in Seq(Snapshot),
           base' \in [Jobs -> Nat], overrun' \subseteq Jobs,
           base'[j] = base[j] \/ (base'[j] = runs[j] /\ apc[a] # "add"),
           j \in Calm /\ ~InUse(a) /\ j \notin resent' =>
              /\ BudgetOK(j)'
              /\ apc'[a] = "add" => /\ j \notin due'
                                    /\ store'[j].attempts = 0
                                    /\ runs[j] = base'[j]
    PROVE  AdminGood'
<1> USE DEF AdminGood
<1>1. RequestOK
  BY DEF RequestOK, AdminTypeOK, RetryInv, Aimed
<1>2. /\ RequestOK'
      /\ faults' \in Nat /\ resends' \in Nat
      /\ disturbed' \subseteq Jobs /\ resent' \subseteq Jobs /\ resent \subseteq resent'
      /\ raced \subseteq raced'
      /\ InUse(a) => j \in raced'
      /\ raced' \subseteq raced \union {j}
      /\ \A b \in Admins \ {a} : apc'[b] = apc[b] /\ target'[b] = target[b]
      /\ \/ apc'[a] = l \/ apc'[a] = "idle"
         \/ UNCHANGED <<apc, target>> /\ j \in resent'
      /\ apc'[a] = "add" => target'[a] = j
      /\ UNCHANGED <<retries, client, taskVars, proc, stops, runs, succeeded, evicted, dropped>>
  BY <1>1, AdminCommandStep DEF AdminTypeOK
<1>3. TypeOK' /\ TaskInv'
  BY <1>2 DEF AdminTypeOK, TypeOK, TaskInv, taskVars
<1>4. AdminTypeOK'
  <2>1. raced' \subseteq Jobs
    BY <1>2 DEF AdminTypeOK
  <2> QED
    BY <1>2, <1>3, <2>1 DEF AdminTypeOK, RequestOK
<1>5. client[j] # "new"
  BY DEF RetryInv, Aimed
<1>6. Aimed'
  <2>1. \A b \in Admins : target'[b] = NoJob <=> apc'[b] = "idle"
    BY <1>2 DEF RequestOK
  <2>2. \A b \in Admins \ {a} : apc'[b] \in {"replay", "save", "add"} => client'[target'[b]] # "new"
    BY <1>2 DEF RetryInv, Aimed
  <2>3. apc'[a] \in {"replay", "save", "add"} => target'[a] = j
    BY <1>2
  <2> QED
    BY <1>2, <1>5, <2>1, <2>2, <2>3 DEF Aimed
<1>7. Calm' \subseteq Calm
  BY <1>2 DEF Calm
<1>8. j \notin resent' \union raced' => j \in Calm /\ ~InUse(a) /\ j \notin resent'
  BY <1>2 DEF Calm
<1>9. RetryInv'
  <2>1. j \notin resent' \union raced' =>
           /\ BudgetOK(j)'
           /\ apc'[a] = "add" => /\ j \notin due'
                                 /\ store'[j].attempts = 0
                                 /\ runs'[j] = base'[j]
    BY <1>2, <1>8
  <2>2. UNCHANGED <<client, taskVars, runs>>
    BY <1>2
  <2>3. resent \subseteq resent' /\ raced \subseteq raced' /\ (InUse(a) => j \in raced')
    BY <1>2
  <2>4. \A b \in Admins \ {a} : apc'[b] = apc[b] /\ target'[b] = target[b]
    BY <1>2
  <2>5. apc'[a] = "add" => target'[a] = j
    BY <1>2
  <2> HIDE DEF AdminGood
  <2> QED
    BY <1>5, <1>6, <2>1, <2>2, <2>3, <2>4, <2>5, RetryWrites
<1>10. Granted'
  <2>1. Pending' \subseteq Pending
    BY <1>2 DEF Pending
  <2>2. ASSUME NEW k \in Calm'
        PROVE  \/ base'[k] = base[k]
               \/ /\ base'[k] <= base[k] + MaxAttempts[k]
                  /\ \E b \in Pending : b \notin Pending'
    <3>1. CASE k # j
      BY <1>7, <2>2, <3>1 DEF Calm
    <3>2. CASE k = j /\ base'[k] # base[k]
      <4>1. k \in Calm /\ j \notin resent' /\ base'[k] = runs[k] /\ apc[a] # "add"
        BY <1>7, <2>2, <3>2 DEF Calm
      <4>2. runs[k] <= base[k] + MaxAttempts[k]
        <5>1. Given(k) <= MaxAttempts[k] /\ k \in Jobs
          BY <4>1 DEF RetryInv, Budgeted, BudgetOK, Calm
        <5>2. runs[k] \in Nat /\ base[k] \in Nat /\ MaxAttempts[k] \in Nat
          BY <5>1, JobQueueAssumption DEF AdminTypeOK, TypeOK
        <5> QED
          BY <5>1, <5>2 DEF Given
      <4>3. a \in Pending /\ a \notin Pending'
        BY <1>2, <4>1 DEF Pending
      <4> QED
        BY <4>1, <4>2, <4>3
    <3> QED
      BY <3>1, <3>2
  <2> QED
    BY <1>2, <1>4, <1>7, <2>1, <2>2, GrantedStep
<1> QED
  BY <1>3, <1>4, <1>9, <1>10

LEMMA ReplayStep ==
    ASSUME AdminGood, NEW a \in Admins, ReplayDeadLetter(a)
    PROVE  AdminGood'
<1> USE DEF AdminGood
<1>1. apc[a] = "replay"
  BY DEF ReplayDeadLetter
<1>2. PICK j \in Jobs : j = target[a]
  BY <1>1 DEF AdminTypeOK, RetryInv, Aimed
<1>3. Told(a, "idle")
  BY DEF ReplayDeadLetter, AdminCommand, Told
<1>4. \/ /\ dlq' = Remove(dlq, found[a])
         /\ store' = [store EXCEPT ![j] = Queued(0)]
         /\ due' = due \union {j}
         /\ wait' = [wait EXCEPT ![j] = 0]
      \/ UNCHANGED <<store, due, wait, dlq>>
  BY <1>2 DEF ReplayDeadLetter, AdminCommand, Replayed, Replay, redisVars
<1>5. base' = IF store' = store /\ dlq' = dlq THEN base ELSE [base EXCEPT ![j] = runs[j]]
  BY <1>2 DEF ReplayDeadLetter
<1>6. dlq' \in Seq(Snapshot) /\ \A k \in Jobs : InDlq(k)' => InDlq(k)
  <2>1. CASE dlq' = Remove(dlq, found[a])
    BY <2>1, RemovedFromDlq DEF AdminTypeOK
  <2>2. CASE dlq' = dlq
    BY <2>2 DEF InDlq, AdminTypeOK, TypeOK
  <2> QED
    BY <1>4, <2>1, <2>2
<1>7. /\ \A k \in Jobs \ {j} : /\ store'[k] = store[k] /\ base'[k] = base[k]
                               /\ k \in due' <=> k \in due
      /\ due' \subseteq Jobs
      /\ wait' \in [Jobs -> Int]
  BY <1>4, <1>5 DEF AdminTypeOK, TypeOK
<1>8. store' \in [Jobs -> Envelope \union {Absent}]
  <2>1. Queued(0) \in Envelope
    BY DEF Queued, Envelope
  <2> QED
    BY <1>4, <2>1 DEF AdminTypeOK, TypeOK
<1>9. base' \in [Jobs -> Nat] /\ (base'[j] = base[j] \/ base'[j] = runs[j])
  BY <1>5 DEF AdminTypeOK, TypeOK
<1>10. ASSUME j \in Calm
       PROVE  BudgetOK(j)'
  <2>1. BudgetOK(j) /\ runs' = runs
    BY <1>3, <1>10 DEF RetryInv, Budgeted, Told
  <2>2. runs[j] \in Nat /\ base[j] \in Nat /\ MaxAttempts[j] \in Nat /\ 0 < MaxAttempts[j]
    BY JobQueueAssumption DEF AdminTypeOK, TypeOK
  <2>3. CASE UNCHANGED <<store, due, dlq>>
    BY <1>5, <2>1, <2>3 DEF BudgetOK, Given
  <2>4. CASE store' = [store EXCEPT ![j] = Queued(0)]
    <3>1. store'[j] = Queued(0) /\ store'[j].attempts = 0
      BY <2>4 DEF AdminTypeOK, TypeOK, Queued
    <3>2. base'[j] = runs[j]
      <4>1. CASE store' = store /\ dlq' = dlq
        BY <1>5, <2>1, <3>1, <4>1 DEF BudgetOK
      <4>2. CASE ~(store' = store /\ dlq' = dlq)
        BY <1>5, <4>2 DEF AdminTypeOK
      <4> QED
        BY <4>1, <4>2
    <3> QED
      BY <2>1, <2>2, <3>1, <3>2 DEF BudgetOK, Given
  <2> QED
    BY <1>4, <2>3, <2>4
<1>11. apc'[a] # "add"
  BY <1>1, <1>3 DEF Told, AdminGoto, AdminTypeOK
<1>12. overrun' \subseteq Jobs
  BY <1>2 DEF ReplayDeadLetter, AdminTypeOK
<1> QED
  BY <1>1, <1>2, <1>3, <1>6, <1>7, <1>8, <1>9, <1>10, <1>11, <1>12, WriteStep

LEMMA SaveForRetry ==
    ASSUME AdminGood, NEW a \in Admins, AdminSave(a)
    PROVE  AdminGood'
<1> USE DEF AdminGood
<1>1. apc[a] = "save"
  BY DEF AdminSave
<1>2. PICK j \in Jobs : j = target[a]
  BY <1>1 DEF AdminTypeOK, RetryInv, Aimed
<1>3. Told(a, "add")
  BY DEF AdminSave, AdminCommand, Told
<1>4. /\ UNCHANGED <<due, wait, dlq>>
      /\ \/ store' = [store EXCEPT ![j] = Queued(0)]
         \/ store' = store /\ AdminGoto(a, "idle")
  BY <1>2 DEF AdminSave, AdminCommand, SaveJob, Queued, redisVars
<1>5. base' = IF store'[j] = Queued(0) THEN [base EXCEPT ![j] = runs[j]] ELSE base
  BY <1>2 DEF AdminSave
<1>6. dlq' \in Seq(Snapshot) /\ \A k \in Jobs : InDlq(k)' => InDlq(k)
  BY <1>4 DEF InDlq, AdminTypeOK, TypeOK
<1>7. /\ \A k \in Jobs \ {j} : /\ store'[k] = store[k] /\ base'[k] = base[k]
                               /\ k \in due' <=> k \in due
      /\ due' \subseteq Jobs
      /\ wait' \in [Jobs -> Int]
  BY <1>4, <1>5 DEF AdminTypeOK, TypeOK
<1>8. store' \in [Jobs -> Envelope \union {Absent}]
  <2>1. Queued(0) \in Envelope
    BY DEF Queued, Envelope
  <2> QED
    BY <1>4, <2>1 DEF AdminTypeOK, TypeOK
<1>9. base' \in [Jobs -> Nat] /\ (base'[j] = base[j] \/ base'[j] = runs[j])
  BY <1>5 DEF AdminTypeOK, TypeOK
<1>10. ASSUME j \in Calm, ~InUse(a)
       PROVE  /\ BudgetOK(j)'
              /\ apc'[a] = "add" => /\ j \notin due'
                                    /\ store'[j].attempts = 0
                                    /\ runs[j] = base'[j]
  <2>1. BudgetOK(j) /\ runs' = runs /\ j \notin due
    BY <1>2, <1>3, <1>10 DEF RetryInv, Budgeted, Told, InUse
  <2>2. runs[j] \in Nat /\ base[j] \in Nat /\ MaxAttempts[j] \in Nat
    BY JobQueueAssumption DEF AdminTypeOK, TypeOK
  <2>3. CASE store' = [store EXCEPT ![j] = Queued(0)]
    <3>1. store'[j] = Queued(0) /\ store'[j].attempts = 0
      BY <2>3 DEF AdminTypeOK, TypeOK, Queued
    <3>2. base'[j] = runs[j]
      BY <1>5, <3>1 DEF AdminTypeOK
    <3> QED
      BY <1>4, <2>1, <2>2, <3>1, <3>2 DEF BudgetOK, Given
  <2>4. CASE store' = store /\ AdminGoto(a, "idle")
    <3>1. base'[j] = base[j]
      BY <1>5, <2>1, <2>4 DEF BudgetOK, AdminTypeOK
    <3>2. apc'[a] # "add"
      BY <2>4 DEF AdminGoto, AdminTypeOK
    <3> QED
      BY <1>4, <2>1, <2>4, <3>1, <3>2 DEF BudgetOK, Given
  <2> QED
    BY <1>4, <2>3, <2>4
<1>11. base'[j] = base[j] \/ (base'[j] = runs[j] /\ apc[a] # "add")
  BY <1>1, <1>9
<1>12. j \in Calm /\ ~InUse(a) /\ j \notin resent' =>
          /\ BudgetOK(j)'
          /\ apc'[a] = "add" => /\ j \notin due'
                                /\ store'[j].attempts = 0
                                /\ runs[j] = base'[j]
  BY <1>10
<1>13. base' \in [Jobs -> Nat]
  BY <1>9
<1>14. store' \in [Jobs -> Envelope \union {Absent}]
  BY <1>8
<1> HIDE DEF AdminGood
<1>15. apc[a] \in {"replay", "save", "add"}
  BY <1>1
<1>16. wait' \in [Jobs -> Int] /\ due' \subseteq Jobs /\ dlq' \in Seq(Snapshot)
  BY <1>6, <1>7
<1>17. ASSUME NEW k \in Jobs \ {j}
       PROVE  /\ store'[k] = store[k] /\ base'[k] = base[k]
              /\ k \in due' <=> k \in due
              /\ InDlq(k)' => InDlq(k)
  BY <1>6, <1>7
<1>18. overrun' \subseteq Jobs
  BY DEF AdminSave, AdminGood, AdminTypeOK
<1> QED
  BY <1>1, <1>2, <1>3, <1>11, <1>12, <1>13, <1>14, <1>15, <1>16, <1>17, <1>18, WriteStep

LEMMA AddForRetry ==
    ASSUME AdminGood, NEW a \in Admins, AdminAdd(a)
    PROVE  AdminGood'
<1> USE DEF AdminGood
<1>1. apc[a] = "add"
  BY DEF AdminAdd
<1>2. PICK j \in Jobs : j = target[a]
  BY <1>1 DEF AdminTypeOK, RetryInv, Aimed
<1>3. Told(a, "idle")
  BY DEF AdminAdd, AdminCommand, Told
<1>4. /\ UNCHANGED <<store, dlq, base>>
      /\ due' \in {due, due \union {j}}
      /\ wait' \in {wait, [wait EXCEPT ![j] = 0]}
  BY <1>2 DEF AdminAdd, AdminCommand, redisVars
<1>5. dlq' \in Seq(Snapshot) /\ \A k \in Jobs : InDlq(k)' => InDlq(k)
  BY <1>4 DEF InDlq, AdminTypeOK, TypeOK
<1>6. /\ \A k \in Jobs \ {j} : /\ store'[k] = store[k] /\ base'[k] = base[k]
                               /\ k \in due' <=> k \in due
      /\ due' \subseteq Jobs
      /\ wait' \in [Jobs -> Int]
      /\ store' \in [Jobs -> Envelope \union {Absent}]
      /\ base' \in [Jobs -> Nat]
  BY <1>4 DEF AdminTypeOK, TypeOK
<1>7. ASSUME j \in Calm
      PROVE  BudgetOK(j)'
  <2>1. BudgetOK(j) /\ runs' = runs
    BY <1>3, <1>7 DEF RetryInv, Budgeted, Told
  <2>2. store[j].attempts = 0 /\ runs[j] = base[j]
    BY <1>1, <1>2, <1>7 DEF RetryInv, Adding
  <2>3. runs[j] \in Nat /\ base[j] \in Nat /\ MaxAttempts[j] \in Nat /\ 0 < MaxAttempts[j]
    BY JobQueueAssumption DEF AdminTypeOK, TypeOK
  <2> QED
    BY <1>4, <2>1, <2>2, <2>3 DEF BudgetOK, Given
<1>8. base'[j] = base[j]
  BY <1>4
<1>9. apc'[a] = "add" => j \in resent'
  BY <1>1, <1>2, <1>3 DEF Told, AdminGoto, SentAgain, AdminTypeOK
<1>10. overrun' \subseteq Jobs
  BY DEF AdminAdd, AdminTypeOK
<1> QED
  BY <1>1, <1>2, <1>3, <1>5, <1>6, <1>7, <1>8, <1>9, <1>10, WriteStep

-----------------------------------------------------------------------------
(* No retry loses a job.  A worker that has put a snapshot on the list     *)
(* deletes the key next: until then that snapshot is all that is left of   *)
(* the job, and a replay that takes it away is what overrun records.       *)

FoundOwn == \A a \in Admins : apc[a] = "replay" => found[a].job = target[a]

ErasesSafely ==
    \A t \in Tasks : pc[t] \in {"trim", "erase"} => held[t] \in overrun \/ Settled(held[t])

Present(j) == client[j] = "accepted" => store[j] # Absent \/ Settled(j)

LossInv == FoundOwn /\ ErasesSafely /\ \A j \in Jobs \ overrun : Present(j)

LEMMA LossStart == AdminInit => LossInv
BY DEF AdminInit, Init, LossInv, FoundOwn, ErasesSafely, Present

\* Steps of the queue: each goroutine still deletes only settled jobs.
LEMMA LossQueue ==
    ASSUME AdminGood, LossInv, [Next]_vars, UNCHANGED adminVars
    PROVE  LossInv'
<1> USE DEF AdminGood, AdminTypeOK, LossInv
<1>1. UNCHANGED <<apc, target, found, overrun>>
  BY DEF adminVars, seenByAdmins
<1>2. FoundOwn'
  BY <1>1 DEF FoundOwn
<1>3. TypeOK' /\ TaskInv'
  BY TypeStep
<1>4. ErasesSafely'
  <2>1. \A t \in Tasks : pc'[t] \in {"trim", "erase"} => held'[t] \in Jobs
    BY <1>3 DEF TypeOK, TaskInv
  <2> SUFFICES ASSUME NEW t \in Tasks, pc'[t] \in {"trim", "erase"},
                      NEW j \in Jobs, j = held'[t], j \notin overrun
               PROVE  Settled(j)'
    BY <1>1, <2>1 DEF ErasesSafely, Settled, InDlq
  <2>2. pc[t] \in {"trim", "erase"} /\ held[t] = j => Settled(j)
    BY DEF ErasesSafely
  <2> QED
    BY <2>2, ErasesSettled
<1>5. ASSUME NEW j \in Jobs \ overrun
      PROVE  Present(j)'
  <2>1. \A t \in Tasks : pc[t] \in {"trim", "erase"} /\ held[t] = j => Settled(j)
    BY <1>5 DEF ErasesSafely
  <2>2. client[j] = "accepted" => store[j] # Absent \/ Settled(j)
    BY <1>5 DEF Present
  <2>3. client'[j] = "accepted" => Settled(j)' \/ store'[j] # Absent
    BY <2>1, <2>2, KeyOrOutcome
  <2> QED
    BY <2>3 DEF Present
<1> QED
  BY <1>1, <1>2, <1>4, <1>5

\* Steps of a request that leave the list alone and no key out.
LEMMA LossQuiet ==
    ASSUME AdminTypeOK, LossInv, FoundOwn',
           UNCHANGED <<client, taskVars, succeeded, evicted, dropped, dlq, overrun>>,
           \A k \in Jobs : store[k] # Absent => store'[k] # Absent
    PROVE  LossInv'
<1> USE DEF LossInv, taskVars
<1>1. \A k \in Jobs : Settled(k)' <=> Settled(k)
  BY DlqUnchanged DEF Settled
<1>2. ErasesSafely'
  BY DEF ErasesSafely, Settled, InDlq
<1>3. \A k \in Jobs \ overrun : Present(k)'
  BY <1>1 DEF Present
<1> QED
  BY <1>2, <1>3

LEMMA LossStarted ==
    ASSUME AdminGood, LossInv, NEW a \in Admins, NEW j \in Jobs, AdminRetryJob(a, j)
    PROVE  LossInv'
<1>1. UNCHANGED <<vars, found, overrun>> /\ apc'[a] = "range"
      /\ \A b \in Admins \ {a} : apc'[b] = apc[b] /\ target'[b] = target[b]
  BY DEF AdminRetryJob, seenByAdmins, AdminGood, AdminTypeOK
<1>2. FoundOwn'
  BY <1>1 DEF FoundOwn, LossInv
<1> QED
  BY <1>1, <1>2, LossQuiet DEF AdminGood, vars, redisVars, historyVars

LEMMA LossFound ==
    ASSUME AdminGood, LossInv, NEW a \in Admins, FindSnapshot(a)
    PROVE  LossInv'
<1> USE DEF AdminGood, AdminTypeOK
<1> DEFINE hits == {i \in 1..Len(dlq) : dlq[i].job = target[a]}
           newest == CHOOSE i \in hits : \A k \in hits : i <= k
<1>1. /\ UNCHANGED <<redisVars, client, taskVars, succeeded, evicted, dropped, overrun>>
      /\ \/ /\ hits # {} /\ UNCHANGED target
            /\ apc' = [apc EXCEPT ![a] = "replay"]
            /\ found' = [found EXCEPT ![a] = dlq[newest]]
         \/ AdminGoto(a, "load") \/ AdminGoto(a, "idle")
  BY DEF FindSnapshot, seenByAdmins
<1>2. hits # {} => dlq[newest].job = target[a]
  <2>1. hits \in SUBSET Nat
    OBVIOUS
  <2>2. hits # {} => \E i \in hits : \A k \in hits : i <= k
    BY <2>1, Smallest
  <2>3. hits # {} => newest \in hits
    BY <2>2
  <2> QED
    BY <2>3
<1> HIDE DEF hits, newest
<1>3. \A b \in Admins \ {a} : apc'[b] = apc[b] /\ target'[b] = target[b] /\ found'[b] = found[b]
  BY <1>1 DEF AdminGoto
<1>4. apc'[a] = "replay" => found'[a].job = target'[a]
  BY <1>1, <1>2 DEF AdminGoto
<1>5. FoundOwn'
  BY <1>3, <1>4 DEF FoundOwn, LossInv
<1> QED
  BY <1>1, <1>5, LossQuiet DEF redisVars

\* Where a request goes from any other of its commands, it holds no snapshot.
LEMMA FoundKept ==
    ASSUME AdminTypeOK, FoundOwn, NEW a \in Admins,
           \/ \E l \in {"idle", "load", "save", "add"} : AdminGoto(a, l)
           \/ UNCHANGED <<apc, target, found>>
    PROVE  FoundOwn'
BY DEF FoundOwn, AdminGoto, AdminTypeOK

LEMMA LossRequeued ==
    ASSUME AdminGood, LossInv, NEW a \in Admins, AdminLoad(a) \/ AdminSave(a) \/ AdminAdd(a)
    PROVE  LossInv'
<1> USE DEF AdminGood
<1>1. FoundOwn'
  BY FoundKept DEF AdminLoad, AdminSave, AdminAdd, AdminCommand, LossInv
<1>2. UNCHANGED <<client, taskVars, succeeded, evicted, dropped, dlq, overrun>>
  BY DEF AdminLoad, AdminSave, AdminAdd, AdminCommand, SaveJob, redisVars, seenByAdmins
<1>3. store' = store \/ store' = [store EXCEPT ![target[a]] = Queued(0)]
  BY DEF AdminLoad, AdminSave, AdminAdd, AdminCommand, SaveJob, Queued, redisVars
<1>4. Queued(0) # Absent
  <2>1. Queued(0).status # Absent.status
    BY DEF Queued, Absent
  <2> QED
    BY <2>1
<1>5. \A k \in Jobs : store[k] # Absent => store'[k] # Absent
  BY <1>3, <1>4 DEF AdminTypeOK, TypeOK
<1> QED
  BY <1>1, <1>2, <1>5, LossQuiet

\* A replay restores the key it takes a snapshot for.  What it takes may only be
\* missed by a worker about to delete that key, and then it is on record.
LEMMA LossReplayed ==
    ASSUME AdminGood, LossInv, NEW a \in Admins, ReplayDeadLetter(a)
    PROVE  LossInv'
<1> USE DEF AdminGood
<1>1. apc[a] = "replay"
  BY DEF ReplayDeadLetter
<1>2. PICK j \in Jobs : j = target[a]
  BY <1>1 DEF AdminTypeOK, RetryInv, Aimed
<1>3. FoundOwn'
  BY FoundKept DEF ReplayDeadLetter, AdminCommand, LossInv
<1>4. UNCHANGED <<client, taskVars, succeeded, evicted, dropped>>
  BY DEF ReplayDeadLetter, AdminCommand
<1>5. overrun' = IF dlq' # dlq /\ Erasing(j) THEN overrun \union {j} ELSE overrun
  BY <1>2 DEF ReplayDeadLetter
<1>6. CASE UNCHANGED <<store, dlq>>
  BY <1>3, <1>4, <1>5, <1>6, LossQuiet
<1>7. CASE dlq' = Remove(dlq, found[a]) /\ store' = [store EXCEPT ![j] = Queued(0)]
  <2>1. found[a].job = j
    BY <1>1, <1>2 DEF LossInv, FoundOwn
  <2>2. \A k \in Jobs \ {j} : InDlq(k) => InDlq(k)'
    BY <1>7, <2>1, RemovedFromDlq DEF AdminTypeOK
  <2>3. \A k \in Jobs : Settled(k) /\ (k # j \/ dlq' = dlq) => Settled(k)'
    BY <1>4, <2>2, DlqUnchanged DEF Settled
  <2>4. Queued(0) # Absent
    <3>1. Queued(0).status # Absent.status
      BY DEF Queued, Absent
    <3> QED
      BY <3>1
  <2>5. store'[j] # Absent /\ \A k \in Jobs \ {j} : store'[k] = store[k]
    BY <1>7, <2>4 DEF AdminTypeOK, TypeOK
  <2>6. ASSUME NEW k \in Jobs \ overrun'
        PROVE  Present(k)'
    <3>1. k \notin overrun
      BY <1>5, <2>6
    <3> QED
      BY <1>4, <2>3, <2>5, <2>6, <3>1 DEF LossInv, Present
  <2>7. ErasesSafely'
    <3>1. \A t \in Tasks : pc'[t] \in {"trim", "erase"} => held'[t] = held[t] /\ held[t] \in Jobs
      BY <1>4 DEF TaskInv, AdminTypeOK, TypeOK, taskVars
    <3> SUFFICES ASSUME NEW t \in Tasks, pc'[t] \in {"trim", "erase"},
                        NEW k \in Jobs, k = held[t], k \notin overrun'
                 PROVE  Settled(k)'
      BY <3>1 DEF ErasesSafely, Settled, InDlq
    <3>2. pc[t] \in {"trim", "erase"} /\ k \notin overrun
      BY <1>4, <1>5 DEF taskVars
    <3>3. Settled(k)
      BY <3>2 DEF LossInv, ErasesSafely
    <3>4. k # j \/ dlq' = dlq
      BY <1>5, <3>2 DEF Erasing, HeldBy
    <3> QED
      BY <2>3, <3>3, <3>4
  <2> QED
    BY <1>3, <2>6, <2>7 DEF LossInv
<1> QED
  BY <1>2, <1>6, <1>7 DEF ReplayDeadLetter, AdminCommand, Replayed, Replay, redisVars

LEMMA LossStep == AdminGood /\ LossInv /\ [AdminNext]_allVars => LossInv'
<1> SUFFICES ASSUME AdminGood, LossInv, [AdminNext]_allVars
             PROVE  LossInv'
  OBVIOUS
<1>1. CASE Next /\ UNCHANGED adminVars
  BY <1>1, LossQueue
<1>2. CASE UNCHANGED allVars
  BY <1>2, LossQueue DEF allVars
<1>3. ASSUME NEW a \in Admins, AdminStep(a)
      PROVE  LossInv'
  BY <1>3, LossStarted, LossFound, LossReplayed, LossRequeued DEF AdminStep
<1> QED
  BY <1>1, <1>2, <1>3 DEF AdminNext

-----------------------------------------------------------------------------
(* The theorems.                                                           *)

LEMMA AdminGoodStep == AdminGood /\ [AdminNext]_allVars => AdminGood'
<1> SUFFICES ASSUME AdminGood, [AdminNext]_allVars
             PROVE  AdminGood'
  OBVIOUS
<1>1. CASE Next /\ UNCHANGED adminVars
  BY <1>1, QueueStep
<1>2. CASE UNCHANGED allVars
  BY <1>2, QueueStep DEF allVars
<1>3. ASSUME NEW a \in Admins, AdminStep(a)
      PROVE  AdminGood'
  BY <1>3, StartRetry, FindStep, ReplayStep, LoadForRetry, SaveForRetry, AddForRetry DEF AdminStep
<1> QED
  BY <1>1, <1>2, <1>3 DEF AdminNext

\* What the goroutines hold, what the requests are about to write and what their
\* retries have granted is kept by every step of either.
THEOREM AdminInductive == AdminSpec => []AdminGood
BY AdminStart, AdminGoodStep, PTL DEF AdminSpec

\* The queue and the requests stay well typed, whatever they write into each other.
THEOREM AdminTypeCorrect == AdminSpec => []AdminTypeOK
BY AdminInductive, PTL DEF AdminGood

\* No retry loses an accepted job, whatever it comes between and whatever fails:
\* only a snapshot replayed before its worker's DEL takes the job with it.
THEOREM RetriesLoseNothingHolds == AdminSpec => []RetriesLoseNothing
<1> DEFINE Inv == AdminGood /\ LossInv
<1>1. AdminInit => Inv
  BY AdminStart, LossStart
<1>2. Inv /\ [AdminNext]_allVars => Inv'
  BY AdminGoodStep, LossStep
<1>3. Inv => RetriesLoseNothing
  BY DEF LossInv, Present, Settled, RetriesLoseNothing
<1> QED
  BY <1>1, <1>2, <1>3, PTL DEF AdminSpec

\* A retry of a job nobody else is working on grants exactly one fresh budget, and
\* the envelope of a scheduled job has counted every dispatch since, whatever fails in between.
THEOREM RetryBudgetHolds == AdminSpec => []RetryBudget
<1>1. AdminGood => RetryBudget
  BY DEF AdminGood, RetryInv, Budgeted, BudgetOK, Given, RetryBudget, Calm
<1> QED
  BY <1>1, AdminInductive, PTL
=============================================================================
