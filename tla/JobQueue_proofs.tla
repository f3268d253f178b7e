--------------------------- MODULE JobQueue_proofs ---------------------------
(***************************************************************************)
(* Proofs about JobQueue, for every set of jobs, goroutines and processes, *)
(* every attempt budget and every number of faults; and that JobQueue      *)
(* implements JobLifecycle, as long as no command is sent twice.           *)
(***************************************************************************)
EXTENDS JobQueueLife, SequenceTheorems, TLAPS

-----------------------------------------------------------------------------
(* The dead-letter list.                                                   *)

\* LPUSH adds exactly the pushed snapshot.
LEMMA PushedSnapshot ==
    ASSUME NEW s \in Seq(Snapshot), NEW x \in Snapshot
    PROVE  /\ <<x>> \o s \in Seq(Snapshot)
           /\ Len(<<x>> \o s) = Len(s) + 1
           /\ \A j \in Jobs :
                 (\E i \in 1..Len(<<x>> \o s) : (<<x>> \o s)[i].job = j)
                    <=> x.job = j \/ \E i \in 1..Len(s) : s[i].job = j
<1> DEFINE r == <<x>> \o s
<1>1. r \in Seq(Snapshot) /\ Len(r) = Len(s) + 1 /\ r[1] = x
  OBVIOUS
<1>2. \A i \in 1..Len(s) : r[i + 1] = s[i]
  OBVIOUS
<1>3. \A i \in 1..Len(r) : i = 1 \/ (i - 1 \in 1..Len(s) /\ r[i] = s[i - 1])
  <2> TAKE i \in 1..Len(r)
  <2>1. i = 1 \/ i - 1 \in 1..Len(s)
    BY <1>1
  <2>2. i - 1 \in 1..Len(s) => r[(i - 1) + 1] = s[i - 1]
    BY <1>2
  <2> QED
    BY <1>1, <2>1, <2>2
<1>4. ASSUME NEW j \in Jobs
      PROVE  (\E i \in 1..Len(r) : r[i].job = j)
                <=> x.job = j \/ \E i \in 1..Len(s) : s[i].job = j
  <2>1. ASSUME NEW i \in 1..Len(r), r[i].job = j
        PROVE  x.job = j \/ \E k \in 1..Len(s) : s[k].job = j
    BY <1>1, <1>3, <2>1
  <2>2. x.job = j => \E i \in 1..Len(r) : r[i].job = j
    BY <1>1
  <2>3. ASSUME NEW i \in 1..Len(s), s[i].job = j
        PROVE  \E k \in 1..Len(r) : r[k].job = j
    <3>1. i + 1 \in 1..Len(r)
      BY <1>1
    <3> QED
      BY <1>2, <2>3, <3>1
  <2> QED
    BY <2>1, <2>2, <2>3
<1> QED
  BY <1>1, <1>4

\* LTRIM keeps a prefix: what it cuts is beyond the cap.
LEMMA TrimmedSnapshots ==
    ASSUME TypeOK
    PROVE  /\ Kept \in Seq(Snapshot)
           /\ \A j \in Jobs : InDlq(j) =>
                 \/ \E i \in 1..Len(Kept) : Kept[i].job = j
                 \/ j \in {dlq[i].job : i \in DeadLetterCap + 1 .. Len(dlq)}
           /\ \A j \in Jobs :
                 (\E i \in 1..Len(Kept) : Kept[i].job = j) => InDlq(j)
<1> DEFINE n == DeadLetterCap
           cut == {dlq[i].job : i \in n + 1 .. Len(dlq)}
<1>1. dlq \in Seq(Snapshot) /\ n \in Nat \ {0}
  BY JobQueueAssumption DEF TypeOK
<1> HIDE DEF n
<1>2. CASE Len(dlq) > n
  <2>1. Kept = SubSeq(dlq, 1, n)
    BY <1>2 DEF Kept, n
  <2>2. Kept \in Seq(Snapshot) /\ Len(Kept) = n
    BY <1>1, <1>2, <2>1
  <2>3. \A i \in 1..n : Kept[i] = dlq[i] /\ i \in 1..Len(dlq)
    BY <1>1, <1>2, <2>1
  <2>4. ASSUME NEW j \in Jobs, NEW i \in 1..Len(dlq), dlq[i].job = j
        PROVE  (\E k \in 1..Len(Kept) : Kept[k].job = j) \/ j \in cut
    <3>1. i \in 1..n \/ i \in n + 1 .. Len(dlq)
      BY <1>1
    <3> QED
      BY <2>2, <2>3, <2>4, <3>1
  <2>5. ASSUME NEW j \in Jobs, NEW i \in 1..Len(Kept), Kept[i].job = j
        PROVE  \E k \in 1..Len(dlq) : dlq[k].job = j
    BY <2>2, <2>3, <2>5
  <2> QED
    BY <2>2, <2>4, <2>5 DEF InDlq, n
<1>3. CASE ~(Len(dlq) > n)
  BY <1>1, <1>3 DEF Kept, InDlq, n
<1> QED
  BY <1>2, <1>3

-----------------------------------------------------------------------------
(* Type correctness.                                                       *)

LEMMA InitIInv == Init => IInv
BY JobQueueAssumption DEF Init, IInv, TypeOK, TaskInv, EraseInv, FreshInv, Sending, DueInv,
   DueOK, HeldInv, RunsInv, RunsOK, Recoverable, InDlq, Absent, Labels, Final

\* The counters and histories a command may touch keep their types.
LEMMA LedgerStep ==
    ASSUME TypeOK, NEW j \in Jobs, Answered \/ Failed(j) \/ SentAgain(j)
    PROVE  /\ faults' \in Nat /\ resends' \in Nat
           /\ disturbed' \subseteq Jobs /\ resent' \subseteq Jobs
BY DEF TypeOK, Answered, Failed, SentAgain

TaskOK ==
    /\ pc \in [Tasks -> Labels]
    /\ held \in [Tasks -> Jobs \union {NoJob}]
    /\ att \in [Tasks -> Nat]
    /\ TaskInv

\* A goroutine that has a job moves to a label its copy of the envelope fits.
LEMMA GotoStep ==
    ASSUME TaskOK, NEW t \in Tasks, NEW l \in Labels, NEW n \in Nat, pc[t] # "idle",
           l \in {"save", "add"} => n \in 1 .. MaxAttempts[held[t]] - 1,
           GotoWith(t, l, n)
    PROVE  TaskOK'
BY JobQueueAssumption DEF TaskOK, TaskInv, GotoWith, Labels

LEMMA CommandStep ==
    ASSUME TaskOK, NEW t \in Tasks, NEW ok \in Labels, NEW err \in Labels, pc[t] # "idle",
           ok \in {"save", "add"} => pc[t] \in {"save", "add"},
           err = "idle" \/ err = "erase",
           Goto(t, ok) \/ Goto(t, err) \/ UNCHANGED taskVars
    PROVE  TaskOK' /\ held[t] \in Jobs
<1>1. att[t] \in Nat /\ (pc[t] \in {"save", "add"} => att[t] \in 1 .. MaxAttempts[held[t]] - 1)
  BY DEF TaskOK, TaskInv
<1>2. Goto(t, ok) => TaskOK'
  BY <1>1, GotoStep DEF Goto
<1>6. Goto(t, err) => TaskOK'
  BY <1>1, GotoStep DEF Goto
<1>3. CASE UNCHANGED taskVars
  BY <1>3 DEF TaskOK, TaskInv, taskVars
<1>4. held[t] \in Jobs
  BY DEF TaskOK, TaskInv
<1> QED
  BY <1>2, <1>3, <1>4, <1>6

\* A SET of the goroutine's envelope keeps the store typed.
LEMMA SaveStep ==
    ASSUME TypeOK, NEW j \in Jobs, NEW status \in {"queued", "running"}, NEW n \in Nat,
           SaveJob(j, status, n) \/ UNCHANGED redisVars
    PROVE  /\ store' \in [Jobs -> Envelope \union {Absent}]
           /\ UNCHANGED <<due, wait, dlq>>
<1>1. [status |-> status, attempts |-> n] \in Envelope
  BY DEF Envelope
<1> QED
  BY <1>1 DEF SaveJob, TypeOK, redisVars

LEMMA TypeStep == TypeOK /\ TaskInv /\ [Next]_vars => TypeOK' /\ TaskInv'
<1> SUFFICES ASSUME TypeOK, TaskInv, [Next]_vars
             PROVE  TypeOK' /\ TaskInv'
  OBVIOUS
<1> USE JobQueueAssumption DEF redisVars
<1>0. TaskOK
  BY DEF TaskOK, TypeOK
<1>1. ASSUME NEW j \in Jobs, Enqueue(j)
      PROVE  TypeOK' /\ TaskInv'
  <2>1. Answered \/ Failed(j) \/ SentAgain(j)
    BY <1>1 DEF Enqueue
  <2>6. \E c \in {"sending", "accepted", "failed"} : client' = [client EXCEPT ![j] = c]
    BY <1>1 DEF Enqueue
  <2>2. client' \in [Jobs -> {"new", "sending", "accepted", "failed"}]
    BY <2>6 DEF TypeOK
  <2>3. \E set, add \in BOOLEAN : Pipeline(j, set, add)
    BY <1>1 DEF Enqueue
  <2>4. store' \in [Jobs -> Envelope \union {Absent}]
    BY <2>3 DEF Pipeline, Queued, TypeOK, Envelope
  <2>5. due' \subseteq Jobs /\ wait' \in [Jobs -> Int] /\ dlq' \in Seq(Snapshot)
    BY <2>3 DEF Pipeline, TypeOK
  <2> QED
    BY <1>1, <2>1, <2>2, <2>4, <2>5, LedgerStep DEF Enqueue, TypeOK, TaskInv, taskVars
<1>2. CASE Tick
  BY <1>2 DEF Tick, TypeOK, TaskInv, taskVars, budgetVars, historyVars
<1>3. ASSUME NEW t \in Tasks, PollOnce(t)
      PROVE  TypeOK' /\ TaskInv'
  <2>1. PICK j \in Jobs :
           /\ due' = due \ {j}
           /\ wait' = [wait EXCEPT ![j] = 0]
           /\ \/ /\ pc' = [pc EXCEPT ![t] = "load"]
                 /\ held' = [held EXCEPT ![t] = j]
                 /\ UNCHANGED att
                 /\ Answered
              \/ UNCHANGED taskVars /\ Failed(j)
    BY <1>3 DEF PollOnce
  <2>2. due' \subseteq Jobs /\ wait' \in [Jobs -> Int]
    BY <2>1 DEF TypeOK
  <2>3. TaskOK'
    BY <2>1, <1>0 DEF TaskOK, TaskInv, Labels, taskVars
  <2> QED
    BY <1>3, <2>1, <2>2, <2>3, LedgerStep DEF PollOnce, TypeOK, TaskOK
<1>4. ASSUME NEW t \in Tasks, LoadJob(t)
      PROVE  TypeOK' /\ TaskInv'
  <2>1. held[t] \in Jobs
    BY <1>4, <1>0 DEF LoadJob, TaskOK, TaskInv
  <2>2. store[held[t]].attempts \in Nat /\ att[t] \in Nat
    BY <2>1 DEF TypeOK, Envelope, Absent
  <2>3. TaskOK'
    <3>1. Goto(t, "idle") => TaskOK'
      BY <1>4, <1>0, <2>2, GotoStep DEF LoadJob, Goto, Labels
    <3>2. GotoWith(t, "mark", store[held[t]].attempts) => TaskOK'
      BY <1>4, <1>0, <2>2, GotoStep DEF LoadJob, Labels
    <3> QED
      BY <1>4, <3>1, <3>2 DEF LoadJob
  <2>4. Answered \/ Failed(held[t])
    BY <1>4 DEF LoadJob
  <2> QED
    BY <1>4, <2>1, <2>3, <2>4, LedgerStep DEF LoadJob, TypeOK, TaskOK
<1>5. ASSUME NEW t \in Tasks, MarkRunning(t)
      PROVE  TypeOK' /\ TaskInv'
  <2>1. TaskOK' /\ held[t] \in Jobs
    BY <1>5, <1>0, CommandStep DEF MarkRunning, Command, Labels
  <2>2. Answered \/ Failed(held[t]) \/ SentAgain(held[t])
    BY <1>5 DEF MarkRunning, Command
  <2>3. SaveJob(held[t], "running", att[t]) \/ UNCHANGED redisVars
    BY <1>5 DEF MarkRunning, Command
  <2>4. store' \in [Jobs -> Envelope \union {Absent}] /\ UNCHANGED <<due, wait, dlq>>
    <3>1. att[t] \in Nat
      BY DEF TypeOK
    <3> QED
      BY <2>1, <2>3, <3>1, SaveStep
  <2>5. runs' \in [Jobs -> Nat]
    BY <1>5, <2>1 DEF MarkRunning, TypeOK
  <2> QED
    BY <1>5, <2>1, <2>2, <2>4, <2>5, LedgerStep DEF MarkRunning, TypeOK, TaskOK
<1>6. ASSUME NEW t \in Tasks, HandlerSucceeds(t)
      PROVE  TypeOK' /\ TaskInv'
  <2>1. TaskOK' /\ held[t] \in Jobs
    BY <1>6, <1>0, CommandStep DEF HandlerSucceeds, Labels
  <2> QED
    BY <1>6, <2>1 DEF HandlerSucceeds, TypeOK, TaskOK, budgetVars
<1>7. ASSUME NEW t \in Tasks, HandlerFails(t)
      PROVE  TypeOK' /\ TaskInv'
  <2>1. held[t] \in Jobs /\ att[t] + 1 \in Nat /\ pc[t] # "idle"
    BY <1>7, <1>0 DEF HandlerFails, Terminal, TaskOK, TaskInv
  <2>2. \/ GotoWith(t, "push", att[t] + 1)
        \/ GotoWith(t, "save", att[t] + 1) /\ ~(att[t] + 1 >= MaxAttempts[held[t]])
    BY <1>7 DEF HandlerFails, Terminal
  <2>3. TaskOK'
    <3>1. GotoWith(t, "push", att[t] + 1) => TaskOK'
      BY <1>0, <2>1, GotoStep DEF Labels
    <3>2. ASSUME GotoWith(t, "save", att[t] + 1), ~(att[t] + 1 >= MaxAttempts[held[t]])
          PROVE  TaskOK'
      <4>1. att[t] + 1 \in 1 .. MaxAttempts[held[t]] - 1
        BY <2>1, <3>2, <1>0 DEF TaskOK
      <4> QED
        BY <1>0, <2>1, <3>2, <4>1, GotoStep DEF Labels
    <3> QED
      BY <2>2, <3>1, <3>2
  <2> QED
    BY <1>7, <2>3 DEF HandlerFails, Terminal, TypeOK, TaskOK, budgetVars, historyVars
<1>8. ASSUME NEW t \in Tasks, PushDeadLetter(t)
      PROVE  TypeOK' /\ TaskInv'
  <2>1. TaskOK' /\ held[t] \in Jobs
    BY <1>8, <1>0, CommandStep DEF PushDeadLetter, Command, Labels
  <2>2. Answered \/ Failed(held[t]) \/ SentAgain(held[t])
    BY <1>8 DEF PushDeadLetter, Command
  <2>3. UNCHANGED <<store, due, wait>>
        /\ dlq' \in {dlq, <<[job |-> held[t], stamp |-> runs[held[t]]]>> \o dlq}
    BY <1>8 DEF PushDeadLetter, Command
  <2>4. [job |-> held[t], stamp |-> runs[held[t]]] \in Snapshot
    BY <2>1 DEF TypeOK, Snapshot
  <2>5. dlq' \in Seq(Snapshot)
    <3>1. dlq \in Seq(Snapshot)
      BY DEF TypeOK
    <3>2. <<[job |-> held[t], stamp |-> runs[held[t]]]>> \o dlq \in Seq(Snapshot)
      BY <2>4, <3>1, PushedSnapshot
    <3> QED
      BY <2>3, <3>1, <3>2
  <2> QED
    BY <1>8, <2>1, <2>2, <2>3, <2>5, LedgerStep DEF PushDeadLetter, TypeOK, TaskOK
<1>9. ASSUME NEW t \in Tasks, TrimDeadLetter(t)
      PROVE  TypeOK' /\ TaskInv'
  <2>1. TaskOK' /\ held[t] \in Jobs
    BY <1>9, <1>0, CommandStep DEF TrimDeadLetter, Command, Labels
  <2>2. Answered \/ Failed(held[t]) \/ SentAgain(held[t])
    BY <1>9 DEF TrimDeadLetter, Command
  <2>3. UNCHANGED <<store, due, wait>> /\ dlq' \in {dlq, Kept}
    BY <1>9 DEF TrimDeadLetter, Command
  <2>4. dlq' \in Seq(Snapshot)
    BY <2>3, TrimmedSnapshots DEF TypeOK
  <2>5. \A i \in DeadLetterCap + 1 .. Len(dlq) : dlq[i].job \in Jobs
    <3>1. dlq \in Seq(Snapshot) /\ DeadLetterCap \in Nat
      BY DEF TypeOK
    <3>2. \A i \in DeadLetterCap + 1 .. Len(dlq) : dlq[i] \in Snapshot
      BY <3>1
    <3> QED
      BY <3>2 DEF Snapshot
  <2>6. evicted' \subseteq Jobs
    BY <1>9, <2>5 DEF TrimDeadLetter, TypeOK
  <2> QED
    BY <1>9, <2>1, <2>2, <2>3, <2>4, <2>6, LedgerStep DEF TrimDeadLetter, TypeOK, TaskOK
<1>10. ASSUME NEW t \in Tasks, DeleteJob(t)
      PROVE  TypeOK' /\ TaskInv'
  <2>1. TaskOK' /\ held[t] \in Jobs
    BY <1>10, <1>0, CommandStep DEF DeleteJob, Command, Labels
  <2>2. Answered \/ Failed(held[t]) \/ SentAgain(held[t])
    BY <1>10 DEF DeleteJob, Command
  <2>3. UNCHANGED <<due, wait, dlq>> /\ store' \in {store, [store EXCEPT ![held[t]] = Absent]}
    BY <1>10 DEF DeleteJob, Command
  <2>4. store' \in [Jobs -> Envelope \union {Absent}]
    BY <2>1, <2>3 DEF TypeOK
  <2> QED
    BY <1>10, <2>1, <2>2, <2>3, <2>4, LedgerStep DEF DeleteJob, TypeOK, TaskOK
<1>11. ASSUME NEW t \in Tasks, RequeueSave(t)
      PROVE  TypeOK' /\ TaskInv'
  <2>1. TaskOK' /\ held[t] \in Jobs
    BY <1>11, <1>0, CommandStep DEF RequeueSave, Command, Labels
  <2>2. Answered \/ Failed(held[t]) \/ SentAgain(held[t])
    BY <1>11 DEF RequeueSave, Command
  <2>3. SaveJob(held[t], "queued", att[t]) \/ UNCHANGED redisVars
    BY <1>11 DEF RequeueSave, Command
  <2>4. store' \in [Jobs -> Envelope \union {Absent}] /\ UNCHANGED <<due, wait, dlq>>
    <3>1. att[t] \in Nat
      BY DEF TypeOK
    <3> QED
      BY <2>1, <2>3, <3>1, SaveStep
  <2> QED
    BY <1>11, <2>1, <2>2, <2>4, LedgerStep DEF RequeueSave, TypeOK, TaskOK
<1>12. ASSUME NEW t \in Tasks, RequeueAdd(t)
      PROVE  TypeOK' /\ TaskInv'
  <2>1. TaskOK' /\ held[t] \in Jobs
    BY <1>12, <1>0, CommandStep DEF RequeueAdd, Command, Labels
  <2>2. Answered \/ Failed(held[t]) \/ SentAgain(held[t])
    BY <1>12 DEF RequeueAdd, Command
  <2>3. /\ UNCHANGED <<store, dlq>>
        /\ due' \in {due, due \union {held[t]}}
        /\ wait' \in {wait, [wait EXCEPT ![held[t]] = Backoff[att[t]]]}
    BY <1>12 DEF RequeueAdd, Command
  <2>4. Backoff[att[t]] \in Nat
    <3>1. att[t] \in 1 .. MaxAttempts[held[t]]
      BY <1>12, <1>0, <2>1 DEF RequeueAdd, TaskOK, TaskInv
    <3> QED
      BY <2>1, <3>1
  <2>5. due' \subseteq Jobs /\ wait' \in [Jobs -> Int]
    BY <2>1, <2>3, <2>4 DEF TypeOK
  <2> QED
    BY <1>12, <2>1, <2>2, <2>3, <2>5, LedgerStep DEF RequeueAdd, TypeOK, TaskOK
<1>13. ASSUME NEW p \in Procs, Kill(p), UNCHANGED stops \/ stops' = stops + 1
      PROVE  TypeOK' /\ TaskInv'
  <2>1. TaskOK'
    BY <1>13, <1>0 DEF Kill, TaskOK, TaskInv, Labels
  <2>2. {held[u] : u \in InFlight(p)} \subseteq Jobs
    BY <1>0 DEF InFlight, TaskOK, TaskInv
  <2> QED
    BY <1>13, <2>1, <2>2, SMTT(30) DEF Kill, TypeOK, TaskOK
<1>14. ASSUME NEW p \in Procs, Shutdown(p) \/ Restart(p)
      PROVE  TypeOK' /\ TaskInv'
  <2>1. /\ UNCHANGED <<redisVars, client, taskVars, faults, resends, historyVars>>
        /\ proc' \in [Procs -> {"up", "draining", "down"}]
        /\ stops' \in Nat
    <3>1. CASE Shutdown(p)
      BY <3>1 DEF Shutdown, TypeOK
    <3>2. CASE Restart(p)
      BY <3>2 DEF Restart, TypeOK, budgetVars
    <3> QED
      BY <1>14, <3>1, <3>2
  <2> QED
    BY <2>1 DEF TypeOK, TaskInv, taskVars, historyVars
<1>15. CASE UNCHANGED vars
  BY <1>15 DEF vars, TypeOK, TaskInv, taskVars, budgetVars, historyVars
<1> QED
  BY <1>1, <1>2, <1>3, <1>4, <1>5, <1>6, <1>7, <1>8, <1>9, <1>10, <1>11, <1>12, <1>13,
     <1>14, <1>15 DEF Next, ProcessJob, Crash, ExitDrained, ExitTimedOut

\* Every reachable state is well typed.
THEOREM TypeCorrect == Spec => []TypeOK
<1>1. Init => TypeOK /\ TaskInv
  BY InitIInv DEF IInv
<1> QED
  BY <1>1, TypeStep, PTL DEF Spec

-----------------------------------------------------------------------------
(* Recoverability: no accepted job is silently gone.                       *)

\* What a PushDeadLetter step does to the dead-letter list.
LEMMA PushEffect ==
    ASSUME TypeOK, TaskInv, NEW t \in Tasks, PushDeadLetter(t)
    PROVE  /\ \A j \in Jobs : InDlq(j)' <=> InDlq(j) \/ (dlq' # dlq /\ j = held[t])
           /\ dlq' = dlq => held[t] \in dropped' \/ pc'[t] = "push"
           /\ held[t] \in Jobs
<1> DEFINE x == [job |-> held[t], stamp |-> runs[held[t]]]
<1>1. held[t] \in Jobs /\ dlq \in Seq(Snapshot)
  BY DEF TypeOK, TaskInv, PushDeadLetter
<1>2. x \in Snapshot /\ x.job = held[t]
  BY <1>1 DEF Snapshot, TypeOK
<1>3. dlq' = dlq \/ dlq' = <<x>> \o dlq
  BY DEF PushDeadLetter, Command, redisVars
<1> HIDE DEF x
<1>4. CASE dlq' = dlq
  BY <1>1, <1>4 DEF InDlq, PushDeadLetter
<1>5. CASE dlq' = <<x>> \o dlq
  BY <1>1, <1>2, <1>5, PushedSnapshot DEF InDlq
<1> QED
  BY <1>3, <1>4, <1>5

\* A TrimDeadLetter step only loses snapshots it records as evicted.
LEMMA TrimEffect ==
    ASSUME TypeOK, NEW t \in Tasks, TrimDeadLetter(t)
    PROVE  /\ \A j \in Jobs : InDlq(j) => InDlq(j)' \/ j \in evicted'
           /\ \A j \in Jobs : InDlq(j)' => InDlq(j)
           /\ evicted \subseteq evicted'
<1>1. dlq' = dlq \/ dlq' = Kept
  BY DEF TrimDeadLetter, Command, redisVars
<1>2. CASE dlq' = dlq
  BY <1>2 DEF InDlq, TrimDeadLetter
<1>3. CASE dlq' # dlq
  <2>1. dlq' = Kept
    BY <1>1, <1>3
  <2>2. evicted' = evicted \union {dlq[i].job : i \in DeadLetterCap + 1 .. Len(dlq)}
    BY <1>3 DEF TrimDeadLetter
  <2>3. \A j \in Jobs : InDlq(j)' <=> \E i \in 1..Len(Kept) : Kept[i].job = j
    BY <2>1 DEF InDlq
  <2> QED
    BY <2>2, <2>3, TrimmedSnapshots
<1> QED
  BY <1>2, <1>3

\* The steps that leave the dead-letter list alone.
LEMMA DlqUnchanged ==
    ASSUME UNCHANGED dlq
    PROVE  \A j \in Jobs : InDlq(j)' <=> InDlq(j)
BY DEF InDlq

\* An outcome on record stays on record.
LEMMA SettledStays ==
    ASSUME TypeOK, TaskInv, [Next]_vars
    PROVE  \A j \in Jobs : Settled(j) => Settled(j)'
<1> SUFFICES \/ /\ UNCHANGED <<dlq, evicted, dropped>>
                /\ succeeded \subseteq succeeded'
             \/ \A j \in Jobs : Settled(j) => Settled(j)'
  BY DlqUnchanged DEF Settled
<1> USE DEF redisVars, budgetVars, historyVars
<1>1. ASSUME NEW j \in Jobs, Enqueue(j)
      PROVE  UNCHANGED <<dlq, evicted, dropped, succeeded>>
  BY <1>1 DEF Enqueue, Pipeline
<1>2. ASSUME NEW t \in Tasks, PushDeadLetter(t)
      PROVE  \A j \in Jobs : Settled(j) => Settled(j)'
  BY <1>2, PushEffect DEF Settled, PushDeadLetter
<1>3. ASSUME NEW t \in Tasks, TrimDeadLetter(t)
      PROVE  \A j \in Jobs : Settled(j) => Settled(j)'
  BY <1>3, TrimEffect DEF Settled, TrimDeadLetter
<1>4. ASSUME NEW t \in Tasks,
             \/ PollOnce(t)
             \/ LoadJob(t)
             \/ HandlerSucceeds(t)
             \/ HandlerFails(t)
      PROVE  UNCHANGED <<dlq, evicted, dropped>> /\ succeeded \subseteq succeeded'
  BY <1>4 DEF PollOnce, LoadJob, HandlerSucceeds, HandlerFails
<1>5. ASSUME NEW t \in Tasks,
             \/ MarkRunning(t)
             \/ DeleteJob(t)
             \/ RequeueSave(t)
             \/ RequeueAdd(t)
      PROVE  UNCHANGED <<dlq, evicted, dropped, succeeded>>
  BY <1>5 DEF MarkRunning, DeleteJob, RequeueSave, RequeueAdd, Command, SaveJob
<1>6. ASSUME NEW p \in Procs, Kill(p) \/ Shutdown(p) \/ Restart(p)
      PROVE  UNCHANGED <<dlq, evicted, dropped, succeeded>>
  BY <1>6 DEF Kill, Shutdown, Restart
<1>7. CASE Tick
  BY <1>7 DEF Tick
<1>8. CASE UNCHANGED vars
  BY <1>8 DEF vars
<1> QED
  BY <1>1, <1>2, <1>3, <1>4, <1>5, <1>6, <1>7, <1>8
     DEF Next, ProcessJob, Crash, ExitDrained, ExitTimedOut

\* A goroutine comes to delete the key of its job only once that is settled.
LEMMA ErasesSettled ==
    ASSUME TypeOK, TaskInv, [Next]_vars,
           NEW t \in Tasks, pc'[t] \in {"trim", "erase"}, NEW j \in Jobs, j = held'[t],
           pc[t] \in {"trim", "erase"} /\ held[t] = j => Settled(j)
    PROVE  Settled(j)'
<1> USE DEF redisVars, taskVars, budgetVars, historyVars
<1>1. CASE pc[t] \in {"trim", "erase"} /\ held'[t] = held[t]
  BY <1>1, SettledStays
<1>2. ASSUME ~(pc[t] \in {"trim", "erase"} /\ held'[t] = held[t])
      PROVE  HandlerSucceeds(t) \/ PushDeadLetter(t)
  <2> USE <1>2
  <2>1. ASSUME NEW i \in Jobs, Enqueue(i)
        PROVE  FALSE
    BY <2>1 DEF Enqueue
  <2>2. ASSUME NEW u \in Tasks, PollOnce(u)
        PROVE  FALSE
    BY <2>2 DEF PollOnce, TypeOK
  <2>3. ASSUME NEW u \in Tasks, LoadJob(u)
        PROVE  FALSE
    BY <2>3 DEF LoadJob, Goto, GotoWith, TypeOK
  <2>4. ASSUME NEW u \in Tasks, MarkRunning(u) \/ HandlerFails(u)
        PROVE  FALSE
    BY <2>4 DEF MarkRunning, HandlerFails, Terminal, Command, Goto, GotoWith, TypeOK
  <2>5. ASSUME NEW u \in Tasks, DeleteJob(u) \/ RequeueSave(u) \/ RequeueAdd(u) \/ TrimDeadLetter(u)
        PROVE  FALSE
    BY <2>5 DEF DeleteJob, RequeueSave, RequeueAdd, TrimDeadLetter, Command, Goto, GotoWith, TypeOK
  <2>6. ASSUME NEW u \in Tasks, HandlerSucceeds(u) \/ PushDeadLetter(u)
        PROVE  u = t
    BY <2>6 DEF HandlerSucceeds, PushDeadLetter, Command, Goto, GotoWith, TypeOK
  <2>7. ASSUME NEW p \in Procs, Kill(p) \/ Shutdown(p) \/ Restart(p)
        PROVE  FALSE
    BY <2>7 DEF Kill, Shutdown, Restart, TypeOK
  <2>8. ~Tick /\ ~UNCHANGED vars
    BY DEF Tick, vars
  <2> QED
    BY <2>1, <2>2, <2>3, <2>4, <2>5, <2>6, <2>7, <2>8
       DEF Next, ProcessJob, Crash, ExitDrained, ExitTimedOut
<1>3. CASE HandlerSucceeds(t)
  <2>1. j \in succeeded'
    BY <1>3 DEF HandlerSucceeds, Goto, GotoWith, TypeOK
  <2> QED
    BY <2>1 DEF Settled
<1>4. CASE PushDeadLetter(t)
  <2>1. held[t] = j /\ pc'[t] # "push"
    BY <1>4 DEF PushDeadLetter, Command, Goto, GotoWith, TypeOK
  <2>2. j \in dropped' \/ InDlq(j)'
    BY <1>4, <2>1, PushEffect
  <2> QED
    BY <2>1, <2>2 DEF Settled
<1> QED
  BY <1>1, <1>2, <1>3, <1>4

LEMMA EraseStep ==
    ASSUME TypeOK, TaskInv, EraseInv, [Next]_vars
    PROVE  EraseInv'
<1>1. TypeOK' /\ TaskInv'
  BY TypeStep
<1>2. \A t \in Tasks : pc'[t] \in {"trim", "erase"} => held'[t] \in Jobs
  BY <1>1 DEF TypeOK, TaskInv
<1> SUFFICES ASSUME NEW t \in Tasks, pc'[t] \in {"trim", "erase"},
                    NEW j \in Jobs, j = held'[t]
             PROVE  Settled(j)'
  BY <1>2 DEF EraseInv, Settled, InDlq
<1> QED
  BY ErasesSettled DEF EraseInv

\* The key of an accepted job goes only when the job is settled.
LEMMA KeyOrOutcome ==
    ASSUME TypeOK, TaskInv, [Next]_vars,
           NEW j \in Jobs, client'[j] = "accepted",
           client[j] = "accepted" => store[j] # Absent \/ Settled(j),
           \A t \in Tasks : pc[t] \in {"trim", "erase"} /\ held[t] = j => Settled(j)
    PROVE  Settled(j)' \/ store'[j] # Absent
<1> USE DEF redisVars
<1>1. CASE Settled(j)
  BY <1>1, SettledStays
<1>2. CASE Enqueue(j)
  <2>1. CASE client[j] = "accepted"
    BY <1>2, <2>1 DEF Enqueue
  <2>2. CASE client[j] # "accepted"
    <3>1. Pipeline(j, TRUE, TRUE)
      BY <1>2, <2>2 DEF Enqueue, TypeOK
    <3> QED
      BY <3>1 DEF Pipeline, Queued, Absent, TypeOK
  <2> QED
    BY <2>1, <2>2
<1>3. ASSUME ~Enqueue(j), ~Settled(j)
      PROVE  store[j] # Absent /\ (store'[j] # Absent \/ \E t \in Tasks : DeleteJob(t) /\ held[t] = j)
  <2>1. client[j] = "accepted"
    <3>1. \/ UNCHANGED client
          \/ \E k \in Jobs : Enqueue(k)
      BY DEF Next, Tick, PollOnce, ProcessJob, LoadJob, MarkRunning, HandlerSucceeds, HandlerFails,
             PushDeadLetter, TrimDeadLetter, DeleteJob, RequeueSave, RequeueAdd, Crash, ExitDrained,
             ExitTimedOut, Kill, Shutdown, Restart, vars
    <3> QED
      BY <1>3, <3>1 DEF Enqueue, TypeOK
  <2>2. store[j] # Absent
    BY <1>3, <2>1
  <2>3. ASSUME NEW k \in Jobs, Enqueue(k)
        PROVE  store'[j] # Absent
    BY <1>3, <2>2, <2>3 DEF Enqueue, Pipeline, TypeOK
  <2>4. ASSUME NEW t \in Tasks,
               \/ PollOnce(t)
               \/ LoadJob(t)
               \/ HandlerSucceeds(t)
               \/ HandlerFails(t)
        PROVE  store'[j] # Absent
    BY <2>2, <2>4 DEF PollOnce, LoadJob, HandlerSucceeds, HandlerFails
  <2>5. ASSUME NEW t \in Tasks, PushDeadLetter(t) \/ TrimDeadLetter(t) \/ RequeueAdd(t)
        PROVE  store'[j] # Absent
    BY <2>2, <2>5 DEF PushDeadLetter, TrimDeadLetter, RequeueAdd, Command
  <2>6. ASSUME NEW t \in Tasks, MarkRunning(t) \/ RequeueSave(t)
        PROVE  store'[j] # Absent
    <3>1. PICK status \in {"queued", "running"} :
             \/ store' = [store EXCEPT ![held[t]] = [status |-> status, attempts |-> att[t]]]
             \/ store' = store
      BY <2>6 DEF MarkRunning, RequeueSave, Command, SaveJob
    <3>2. [status |-> status, attempts |-> att[t]] # Absent
      <4>1. [status |-> status, attempts |-> att[t]].status # Absent.status
        BY DEF Absent
      <4> QED
        BY <4>1
    <3> QED
      BY <2>2, <3>1, <3>2 DEF TypeOK
  <2>7. ASSUME NEW t \in Tasks, DeleteJob(t)
        PROVE  store'[j] # Absent \/ held[t] = j
    BY <2>2, <2>7 DEF DeleteJob, Command, TypeOK
  <2>8. ASSUME NEW p \in Procs, Kill(p) \/ Shutdown(p) \/ Restart(p)
        PROVE  store'[j] # Absent
    BY <2>2, <2>8 DEF Kill, Shutdown, Restart
  <2>9. Tick \/ UNCHANGED vars => store'[j] # Absent
    BY <2>2 DEF Tick, vars
  <2> QED
    BY <2>2, <2>3, <2>4, <2>5, <2>6, <2>7, <2>8, <2>9
       DEF Next, ProcessJob, Crash, ExitDrained, ExitTimedOut
<1>4. ASSUME NEW t \in Tasks, DeleteJob(t), held[t] = j
      PROVE  Settled(j)
  BY <1>4 DEF DeleteJob
<1> QED
  BY <1>1, <1>2, <1>3, <1>4

LEMMA RecoverableStep ==
    ASSUME TypeOK, TaskInv, EraseInv, Recoverable, [Next]_vars
    PROVE  Recoverable'
<1> SUFFICES ASSUME NEW j \in Jobs, client'[j] = "accepted"
             PROVE  Settled(j)' \/ store'[j] # Absent
  BY DEF Recoverable, Settled
<1>1. client[j] = "accepted" => store[j] # Absent \/ Settled(j)
  BY DEF Recoverable, Settled
<1> QED
  BY <1>1, KeyOrOutcome DEF EraseInv

\* A job whose Enqueue returned nil is never silently gone: it succeeded, or it
\* still has its key or a snapshot, or the cap or a failed push took it.
THEOREM RecoverableHolds == Spec => []Recoverable
<1> DEFINE Inv == TypeOK /\ TaskInv /\ EraseInv /\ Recoverable
<1>1. Init => Inv
  BY InitIInv DEF IInv
<1>2. Inv /\ [Next]_vars => Inv'
  BY TypeStep, EraseStep, RecoverableStep
<1> QED
  BY <1>1, <1>2, PTL DEF Spec

-----------------------------------------------------------------------------
(* Exclusive execution, the attempt budget and final outcomes.             *)

JobInv == FreshInv /\ Sending /\ DueInv /\ HeldInv /\ RunsInv

Good == TypeOK /\ TaskInv /\ JobInv

\* A command changes only the control of the goroutine that executes it.
LEMMA CommandFrame ==
    ASSUME Good, NEW t \in Tasks, pc[t] # "idle", NEW ok \in Labels, NEW err \in Labels,
           Goto(t, ok) \/ Goto(t, err) \/ UNCHANGED taskVars
    PROVE  /\ held[t] \in Jobs
           /\ \A u \in Tasks : u # t => held'[u] = held[u] /\ pc'[u] = pc[u] /\ att'[u] = att[u]
           /\ pc'[t] \in {pc[t], ok, err}
           /\ IF pc'[t] = "idle" THEN held'[t] = NoJob
              ELSE held'[t] = held[t] /\ att'[t] = att[t]
BY DEF Good, TypeOK, TaskInv, Goto, GotoWith, taskVars, Labels

\* What the invariant says of goroutine t and the job it holds.
OwnInv(t) ==
    /\ held[t] \in due => DueOK(held[t])
    /\ RunsOK(held[t])
    /\ pc[t] # "idle" => /\ held[t] \notin due
                         /\ store[held[t]] # Absent
                         /\ Stage(held[t], pc[t], att[t])

LEMMA OwnBefore ==
    ASSUME Good, NEW t \in Tasks, pc[t] # "idle", held[t] \notin resent
    PROVE  OwnInv(t) /\ \A u \in Tasks : held[u] = held[t] => u = t
BY DEF Good, JobInv, TypeOK, TaskInv, HeldInv, DueInv, RunsInv, OwnInv

\* A step that touches only goroutine t and its job j preserves the invariant
\* if it leaves j, unless resent, as the invariant wants it.
LEMMA OwnStep ==
    ASSUME Good, NEW t \in Tasks, NEW j \in Jobs, j = held[t],
           \A u \in Tasks : u # t => held'[u] = held[u] /\ pc'[u] = pc[u] /\ att'[u] = att[u],
           held'[t] = IF pc'[t] = "idle" THEN NoJob ELSE j,
           UNCHANGED client, resent \subseteq resent', due' \subseteq Jobs,
           \A k \in Jobs \ {j} : /\ store'[k] = store[k]
                                 /\ runs'[k] = runs[k]
                                 /\ k \in due' <=> k \in due
                                 /\ k \in succeeded' <=> k \in succeeded
                                 /\ InDlq(k)' <=> InDlq(k),
           j \notin resent' => /\ j \in due' => DueOK(j)'
                               /\ RunsOK(j)'
                               /\ pc'[t] # "idle" => /\ j \notin due'
                                                     /\ store'[j] # Absent
                                                     /\ Stage(j, pc[t], att[t])'
    PROVE  JobInv'
<1> USE DEF Good, JobInv
<1>1. FreshInv'
  <2>1. client[j] # "new"
    BY DEF FreshInv
  <2> QED
    BY <2>1, JobQueueAssumption DEF FreshInv
<1>2. Sending'
  BY DEF Sending
<1>3. DueInv'
  BY DEF DueInv, DueOK, Final, TypeOK
<1>4. RunsInv'
  BY DEF RunsInv, RunsOK
<1>5. ASSUME NEW u \in Tasks, held'[u] \in Jobs \ resent', u # t
      PROVE  /\ held'[u] \notin due'
             /\ \A v \in Tasks : held'[v] = held'[u] => v = u
             /\ store'[held'[u]] # Absent
             /\ Stage(held[u], pc[u], att[u])'
  <2>1. held[u] \in Jobs \ resent /\ held[u] # j
    BY <1>5 DEF HeldInv
  <2> QED
    BY <1>5, <2>1, JobQueueAssumption DEF HeldInv, Stage, Final
<1>6. ASSUME held'[t] \in Jobs \ resent'
      PROVE  /\ held'[t] \notin due'
             /\ \A v \in Tasks : held'[v] = held'[t] => v = t
             /\ store'[held'[t]] # Absent
             /\ Stage(held[t], pc[t], att[t])'
  <2>1. held'[t] = j /\ j \notin resent /\ pc'[t] # "idle"
    BY <1>6, JobQueueAssumption
  <2> QED
    BY <2>1, <1>6 DEF HeldInv
<1>7. HeldInv'
  BY <1>5, <1>6 DEF HeldInv
<1> QED
  BY <1>1, <1>2, <1>3, <1>4, <1>7

LEMMA EnqueueStep ==
    ASSUME Good, NEW j \in Jobs, Enqueue(j)
    PROVE  JobInv'
<1> USE DEF Good, JobInv, Final
<1>1. \E set, add \in BOOLEAN : Pipeline(j, set, add)
  BY DEF Enqueue
<1>2. UNCHANGED <<taskVars, runs, succeeded, dlq>>
  BY <1>1 DEF Enqueue, Pipeline
<1>3. \A k \in Jobs : InDlq(k)' <=> InDlq(k)
  BY <1>2, DlqUnchanged
<1>4. client'[j] # "new" /\ \A k \in Jobs : k # j => client'[k] = client[k]
  BY DEF Enqueue, TypeOK
<1>5. \A k \in Jobs : k # j => store'[k] = store[k] /\ (k \in due' <=> k \in due)
  BY <1>1 DEF Pipeline, TypeOK
<1>6. resent \subseteq resent' /\ (client'[j] = "sending" => j \in resent')
  BY DEF Enqueue, TypeOK, Answered, Failed, SentAgain
<1>7. j \notin resent => client[j] = "new"
  BY DEF Sending, Enqueue
<1>8. j \in due' => j \in due \/ store'[j] = Queued(0)
  BY <1>1 DEF Enqueue, Pipeline, TypeOK
<1>9. Queued(0) # Absent /\ Queued(0).attempts = 0
  BY DEF Queued, Absent
<1>10. FreshInv'
  BY <1>2, <1>3, <1>4, <1>5 DEF FreshInv, taskVars
<1>11. Sending'
  BY <1>4, <1>6 DEF Sending
<1>12. DueInv'
  <2>1. ASSUME j \in due' \ resent'
        PROVE  store'[j] # Absent /\ runs'[j] = store'[j].attempts
               /\ runs'[j] < MaxAttempts[j] /\ ~Final(j)'
    <3>1. client[j] = "new" /\ store'[j] = Queued(0)
      BY <1>6, <1>7, <1>8, <2>1 DEF FreshInv
    <3>2. runs[j] = 0 /\ ~InDlq(j) /\ j \notin succeeded
      BY <3>1 DEF FreshInv
    <3> QED
      BY <1>2, <1>3, <1>9, <3>1, <3>2, JobQueueAssumption
  <2>2. ASSUME NEW k \in due' \ resent', k # j
        PROVE  store'[k] # Absent /\ runs'[k] = store'[k].attempts
               /\ runs'[k] < MaxAttempts[k] /\ ~Final(k)'
    <3>1. k \in due \ resent /\ k \in Jobs
      BY <1>1, <1>5, <1>6, <2>2 DEF Pipeline, TypeOK
    <3> QED
      BY <1>2, <1>3, <1>5, <2>2, <3>1 DEF DueInv, DueOK
  <2> QED
    BY <2>1, <2>2 DEF DueInv, DueOK
<1>13. HeldInv'
  BY <1>2, <1>3, <1>5, <1>6, <1>7 DEF HeldInv, FreshInv, taskVars, Stage
<1>14. RunsInv'
  BY <1>2, <1>3, <1>6 DEF RunsInv, RunsOK
<1> QED
  BY <1>10, <1>11, <1>12, <1>13, <1>14

LEMMA PollStep ==
    ASSUME Good, NEW t \in Tasks, PollOnce(t)
    PROVE  JobInv'
<1> USE DEF Good, JobInv, Final
<1>1. PICK j \in due :
        /\ due' = due \ {j}
        /\ \/ /\ pc' = [pc EXCEPT ![t] = "load"]
              /\ held' = [held EXCEPT ![t] = j]
              /\ UNCHANGED att
           \/ UNCHANGED taskVars
  BY DEF PollOnce, Earliest, TypeOK
<1>2. UNCHANGED <<store, client, resent, runs, succeeded, dlq>>
  BY DEF PollOnce, Answered, Failed
<1>3. \A k \in Jobs : InDlq(k)' <=> InDlq(k)
  BY <1>2, DlqUnchanged
<1>4. FreshInv'
  BY <1>1, <1>2, <1>3 DEF FreshInv, TypeOK, taskVars
<1>5. Sending' /\ DueInv' /\ RunsInv'
  BY <1>1, <1>2, <1>3 DEF Sending, DueInv, DueOK, RunsInv, RunsOK, TypeOK
<1>6. HeldInv'
  <2>1. CASE UNCHANGED taskVars
    BY <1>1, <1>2, <1>3, <2>1 DEF HeldInv, TypeOK, taskVars, Stage
  <2>2. CASE /\ pc' = [pc EXCEPT ![t] = "load"]
             /\ held' = [held EXCEPT ![t] = j]
             /\ UNCHANGED att
    <3>1. j \in Jobs
      BY DEF TypeOK
    <3>2. j \notin resent => \A u \in Tasks : held[u] # j
      BY <3>1 DEF HeldInv
    <3>3. ASSUME NEW u \in Tasks, held'[u] \in Jobs \ resent'
          PROVE  /\ held'[u] \notin due'
                 /\ \A v \in Tasks : held'[v] = held'[u] => v = u
      BY <1>1, <1>2, <2>2, <3>1, <3>2, <3>3 DEF HeldInv, TypeOK
    <3>4. ASSUME j \notin resent
          PROVE  store[j] # Absent /\ Stage(j, "load", att[t])
      BY <3>1, <3>4 DEF DueInv, DueOK, Stage
    <3>5. ASSUME NEW u \in Tasks, u # t, held[u] \in Jobs \ resent
          PROVE  store[held[u]] # Absent /\ Stage(held[u], pc[u], att[u])
      BY <3>5 DEF HeldInv
    <3>6. ASSUME NEW u \in Tasks, held'[u] \in Jobs \ resent'
          PROVE  store'[held'[u]] # Absent /\ Stage(held[u], pc[u], att[u])'
      <4>1. CASE u = t
        BY <1>2, <1>3, <2>2, <3>1, <3>4, <3>6, <4>1 DEF TypeOK, Stage
      <4>2. CASE u # t
        BY <1>2, <1>3, <2>2, <3>5, <3>6, <4>2 DEF TypeOK, Stage
      <4> QED
        BY <4>1, <4>2
    <3> QED
      BY <3>3, <3>6 DEF HeldInv
  <2> QED
    BY <1>1, <2>1, <2>2
<1> QED
  BY <1>4, <1>5, <1>6

LEMMA LoadStep ==
    ASSUME Good, NEW t \in Tasks, LoadJob(t)
    PROVE  JobInv'
<1> USE DEF Good, JobInv, Final
<1>1. UNCHANGED <<store, due, client, resent, runs, succeeded, dlq>>
  BY DEF LoadJob, Answered, Failed, redisVars
<1>2. \A k \in Jobs : InDlq(k)' <=> InDlq(k)
  BY <1>1, DlqUnchanged
<1>3. held[t] \in Jobs
  BY DEF LoadJob, TypeOK, TaskInv
<1>4. \A u \in Tasks : held'[u] = NoJob \/ held'[u] = held[u]
  BY DEF LoadJob, Goto, GotoWith, TypeOK
<1>5. FreshInv'
  BY <1>1, <1>2, <1>4, JobQueueAssumption DEF FreshInv
<1>6. Sending' /\ DueInv' /\ RunsInv'
  BY <1>1, <1>2 DEF Sending, DueInv, DueOK, RunsInv, RunsOK, TypeOK
<1>7. HeldInv'
  BY <1>1, <1>2, <1>3, <1>4, JobQueueAssumption
     DEF HeldInv, LoadJob, Goto, GotoWith, TypeOK, Stage
<1> QED
  BY <1>5, <1>6, <1>7

LEMMA MarkStep ==
    ASSUME Good, NEW t \in Tasks, NEW j \in Jobs, j = held[t], MarkRunning(t)
    PROVE  JobInv'
<1>1. /\ UNCHANGED <<due, client, succeeded, dlq>>
      /\ resent \subseteq resent'
      /\ pc[t] = "mark"
      /\ Goto(t, "run") \/ Goto(t, "idle") \/ (UNCHANGED taskVars /\ j \in resent')
  BY DEF MarkRunning, Command, SaveJob, Answered, Failed, SentAgain, redisVars
<1>2. \A k \in Jobs : InDlq(k)' <=> InDlq(k)
  BY <1>1, DlqUnchanged
<1>3. /\ \A u \in Tasks : u # t => held'[u] = held[u] /\ pc'[u] = pc[u] /\ att'[u] = att[u]
      /\ pc'[t] \in {"mark", "run", "idle"}
      /\ IF pc'[t] = "idle" THEN held'[t] = NoJob ELSE held'[t] = j /\ att'[t] = att[t]
  BY <1>1, CommandFrame DEF Labels
<1>4. \A k \in Jobs \ {j} : store'[k] = store[k] /\ runs'[k] = runs[k]
  BY <1>3 DEF MarkRunning, Command, SaveJob, Good, TypeOK, redisVars
<1>5. store'[j] = store[j] \/ store'[j] = [status |-> "running", attempts |-> att[t]]
  BY <1>3 DEF MarkRunning, Command, SaveJob, Good, TypeOK, redisVars
<1>6. runs'[j] = IF pc'[t] = "run" /\ runs[j] < MaxRuns THEN runs[j] + 1 ELSE runs[j]
  BY <1>3 DEF MarkRunning, Good, TypeOK
<1>7. ASSUME j \notin resent'
      PROVE  /\ j \in due' => DueOK(j)'
             /\ RunsOK(j)'
             /\ pc'[t] # "idle" => /\ j \notin due'
                                   /\ store'[j] # Absent
                                   /\ Stage(j, pc[t], att[t])'
  <2>1. OwnInv(t) /\ pc'[t] # "mark"
    BY <1>1, <1>7, OwnBefore DEF Goto, GotoWith, Good, TypeOK
  <2>2. j \notin due' /\ store[j] # Absent /\ ~Final(j)
        /\ runs[j] = att[t] /\ runs[j] = store[j].attempts /\ runs[j] < MaxAttempts[j]
    BY <1>1, <2>1 DEF OwnInv, Stage
  <2>3. runs[j] < MaxRuns /\ runs[j] \in Nat /\ MaxAttempts[j] \in Nat
    BY <1>3, <2>2, JobQueueAssumption DEF Good, TypeOK
  <2>4. store'[j] # Absent /\ store'[j].attempts = att[t]
    <3>1. [status |-> "running", attempts |-> att[t]].status # Absent.status
      BY DEF Absent
    <3> QED
      BY <1>5, <2>2, <3>1
  <2>5. RunsOK(j)'
    BY <1>1, <1>2, <1>6, <2>1, <2>2, <2>3 DEF OwnInv, RunsOK
  <2>6. pc'[t] # "idle" => Stage(j, pc[t], att[t])'
    BY <1>1, <1>2, <1>3, <1>6, <2>1, <2>2, <2>3 DEF Stage, Final
  <2> QED
    BY <2>2, <2>4, <2>5, <2>6
<1>8. held'[t] = IF pc'[t] = "idle" THEN NoJob ELSE j
  BY <1>3
<1>9. UNCHANGED client /\ resent \subseteq resent' /\ due' \subseteq Jobs
  BY <1>1 DEF MarkRunning, Good, TypeOK
<1>10. \A k \in Jobs \ {j} : /\ store'[k] = store[k]
                             /\ runs'[k] = runs[k]
                             /\ k \in due' <=> k \in due
                             /\ k \in succeeded' <=> k \in succeeded
                             /\ InDlq(k)' <=> InDlq(k)
  BY <1>1, <1>2, <1>4
<1> QED
  BY <1>3, <1>7, <1>8, <1>9, <1>10, OwnStep

LEMMA SucceedStep ==
    ASSUME Good, NEW t \in Tasks, NEW j \in Jobs, j = held[t], HandlerSucceeds(t)
    PROVE  JobInv'
<1>1. /\ UNCHANGED <<store, due, client, runs, resent, dlq>>
      /\ succeeded' = succeeded \union {j}
      /\ pc[t] = "run"
      /\ Goto(t, "erase")
  BY DEF HandlerSucceeds, redisVars
<1>2. \A k \in Jobs : InDlq(k)' <=> InDlq(k)
  BY <1>1, DlqUnchanged
<1>3. /\ \A u \in Tasks : u # t => held'[u] = held[u] /\ pc'[u] = pc[u] /\ att'[u] = att[u]
      /\ pc'[t] = "erase" /\ held'[t] = j
  BY <1>1, CommandFrame DEF Labels, Goto, GotoWith, Good, TypeOK
<1>4. ASSUME j \notin resent'
      PROVE  RunsOK(j)' /\ j \notin due' /\ store'[j] # Absent /\ Stage(j, pc[t], att[t])'
  <2>1. OwnInv(t) /\ ~Final(j)
    BY <1>1, <1>4, OwnBefore DEF OwnInv, Stage
  <2> QED
    BY <1>1, <1>2, <1>3, <2>1 DEF OwnInv, RunsOK, Final, Stage
<1> QED
  BY <1>1, <1>2, <1>3, <1>4, OwnStep DEF Good, TypeOK

LEMMA FailStep ==
    ASSUME Good, NEW t \in Tasks, NEW j \in Jobs, j = held[t], HandlerFails(t)
    PROVE  JobInv'
<1>1. /\ UNCHANGED <<store, due, client, runs, succeeded, resent, dlq>>
      /\ pc[t] = "run"
      /\ GotoWith(t, IF att[t] + 1 >= MaxAttempts[j] \/ j \in UnknownJobs THEN "push" ELSE "save",
                  att[t] + 1)
  BY DEF HandlerFails, Terminal, redisVars, historyVars
<1>2. \A k \in Jobs : InDlq(k)' <=> InDlq(k)
  BY <1>1, DlqUnchanged
<1>3. /\ \A u \in Tasks : u # t => held'[u] = held[u] /\ pc'[u] = pc[u] /\ att'[u] = att[u]
      /\ pc'[t] = IF att[t] + 1 >= MaxAttempts[j] \/ j \in UnknownJobs THEN "push" ELSE "save"
      /\ held'[t] = j /\ att'[t] = att[t] + 1
  BY <1>1 DEF GotoWith, Good, TypeOK
<1>4. ASSUME j \notin resent'
      PROVE  RunsOK(j)' /\ j \notin due' /\ store'[j] # Absent /\ Stage(j, pc[t], att[t])'
  <2>1. OwnInv(t) /\ ~Final(j) /\ runs[j] = att[t] + 1 /\ runs[j] <= MaxAttempts[j]
    BY <1>1, <1>4, OwnBefore DEF OwnInv, Stage
  <2>2. runs[j] \in Nat /\ MaxAttempts[j] \in Nat
    BY JobQueueAssumption DEF Good, TypeOK
  <2> QED
    BY <1>1, <1>2, <1>3, <2>1, <2>2 DEF OwnInv, RunsOK, Final, Stage
<1> QED
  BY <1>1, <1>2, <1>3, <1>4, OwnStep DEF Good, TypeOK

LEMMA PushStep ==
    ASSUME Good, NEW t \in Tasks, NEW j \in Jobs, j = held[t], PushDeadLetter(t)
    PROVE  JobInv'
<1>1. /\ UNCHANGED <<store, due, client, runs, succeeded>>
      /\ resent \subseteq resent'
      /\ pc[t] = "push"
      /\ Goto(t, "trim") \/ Goto(t, "erase") \/ (UNCHANGED taskVars /\ j \in resent')
  BY DEF PushDeadLetter, Command, Answered, Failed, SentAgain, redisVars
<1>2. \A k \in Jobs : InDlq(k)' => InDlq(k) \/ k = j
  BY PushEffect DEF Good
<1>3. \A k \in Jobs : InDlq(k) => InDlq(k)'
  BY PushEffect DEF Good
<1>4. /\ \A u \in Tasks : u # t => held'[u] = held[u] /\ pc'[u] = pc[u] /\ att'[u] = att[u]
      /\ pc'[t] \in {"push", "trim", "erase"}
      /\ held'[t] = j /\ att'[t] = att[t]
  BY <1>1, CommandFrame DEF Labels
<1>5. ASSUME j \notin resent'
      PROVE  RunsOK(j)' /\ j \notin due' /\ store'[j] # Absent /\ Stage(j, pc[t], att[t])'
  <2>1. OwnInv(t) /\ ~Final(j) /\ runs[j] = att[t] /\ pc'[t] # "push"
        /\ (runs[j] = MaxAttempts[j] \/ j \in UnknownJobs)
    BY <1>1, <1>5, OwnBefore DEF OwnInv, Stage, Goto, GotoWith, Good, TypeOK
  <2> QED
    BY <1>1, <1>4, <2>1 DEF OwnInv, RunsOK, Final, Stage
<1> QED
  BY <1>1, <1>2, <1>3, <1>4, <1>5, OwnStep DEF Good, TypeOK

LEMMA TrimStep ==
    ASSUME Good, NEW t \in Tasks, NEW j \in Jobs, j = held[t], TrimDeadLetter(t)
    PROVE  JobInv'
<1>1. /\ UNCHANGED <<store, due, client, runs, succeeded>>
      /\ resent \subseteq resent'
      /\ pc[t] = "trim"
      /\ Goto(t, "erase") \/ (UNCHANGED taskVars /\ j \in resent')
  BY DEF TrimDeadLetter, Command, Answered, Failed, SentAgain, redisVars
<1>2. \A k \in Jobs : InDlq(k)' => InDlq(k)
  BY TrimEffect DEF Good
<1>3. /\ pc'[t] \in {"trim", "erase"}
      /\ \A u \in Tasks : u # t => held'[u] = held[u] /\ pc'[u] = pc[u] /\ att'[u] = att[u]
      /\ held'[t] = j /\ att'[t] = att[t]
  BY <1>1, CommandFrame DEF Labels
<1> USE DEF Good, JobInv
<1>4. FreshInv'
  BY <1>1, <1>2, <1>3 DEF FreshInv
<1>5. Sending' /\ DueInv' /\ RunsInv'
  BY <1>1, <1>2 DEF Sending, DueInv, DueOK, RunsInv, RunsOK, Final, TypeOK
<1>6. ASSUME NEW u \in Tasks, held'[u] \in Jobs \ resent'
      PROVE  /\ held'[u] \notin due'
             /\ \A v \in Tasks : held'[v] = held'[u] => v = u
             /\ store'[held'[u]] # Absent
             /\ Stage(held[u], pc[u], att[u])'
  <2>1. held'[u] = held[u] /\ att'[u] = att[u] /\ held[u] \in Jobs \ resent
    BY <1>1, <1>3, <1>6
  <2>2. \A v \in Tasks : held'[v] = held[v]
    BY <1>3
  <2>3. Stage(held[u], pc[u], att[u])
    BY <2>1 DEF HeldInv
  <2>4. pc'[u] = pc[u] \/ (pc[u] = "trim" /\ pc'[u] = "erase")
    BY <1>1, <1>3
  <2> QED
    BY <1>1, <1>2, <2>1, <2>2, <2>3, <2>4 DEF HeldInv, Stage, Final
<1>7. HeldInv'
  BY <1>6 DEF HeldInv
<1> QED
  BY <1>4, <1>5, <1>7

LEMMA DeleteStep ==
    ASSUME Good, NEW t \in Tasks, NEW j \in Jobs, j = held[t], DeleteJob(t)
    PROVE  JobInv'
<1>1. /\ UNCHANGED <<due, client, runs, succeeded, dlq>>
      /\ resent \subseteq resent'
      /\ pc[t] = "erase"
      /\ Goto(t, "idle") \/ (UNCHANGED taskVars /\ j \in resent')
  BY DEF DeleteJob, Command, Answered, Failed, SentAgain, redisVars
<1>2. \A k \in Jobs : InDlq(k)' <=> InDlq(k)
  BY <1>1, DlqUnchanged
<1>3. /\ \A u \in Tasks : u # t => held'[u] = held[u] /\ pc'[u] = pc[u] /\ att'[u] = att[u]
      /\ pc'[t] \in {"erase", "idle"}
      /\ held'[t] = IF pc'[t] = "idle" THEN NoJob ELSE j
  BY <1>1, CommandFrame DEF Labels
<1>4. \A k \in Jobs \ {j} : store'[k] = store[k]
  BY DEF DeleteJob, Command, Good, TypeOK, redisVars
<1>5. ASSUME j \notin resent'
      PROVE  RunsOK(j)' /\ j \notin due' /\ pc'[t] = "idle"
  <2>1. OwnInv(t) /\ pc'[t] = "idle"
    BY <1>1, <1>5, OwnBefore DEF OwnInv, Goto, GotoWith, Good, TypeOK
  <2> QED
    BY <1>1, <1>2, <2>1 DEF OwnInv, RunsOK
<1> QED
  BY <1>1, <1>2, <1>3, <1>4, <1>5, OwnStep DEF Good, TypeOK

LEMMA RequeueSaveStep ==
    ASSUME Good, NEW t \in Tasks, NEW j \in Jobs, j = held[t], RequeueSave(t)
    PROVE  JobInv'
<1>1. /\ UNCHANGED <<due, client, runs, succeeded, dlq>>
      /\ resent \subseteq resent'
      /\ pc[t] = "save"
      /\ \/ Goto(t, "add") /\ SaveJob(j, "queued", att[t])
         \/ Goto(t, "idle")
         \/ UNCHANGED taskVars /\ j \in resent'
  BY DEF RequeueSave, Command, SaveJob, Answered, Failed, SentAgain, redisVars
<1>2. \A k \in Jobs : InDlq(k)' <=> InDlq(k)
  BY <1>1, DlqUnchanged
<1>3. /\ \A u \in Tasks : u # t => held'[u] = held[u] /\ pc'[u] = pc[u] /\ att'[u] = att[u]
      /\ pc'[t] \in {"save", "add", "idle"}
      /\ IF pc'[t] = "idle" THEN held'[t] = NoJob ELSE held'[t] = j /\ att'[t] = att[t]
  BY <1>1, CommandFrame DEF Labels
<1>4. \A k \in Jobs \ {j} : store'[k] = store[k]
  BY DEF RequeueSave, SaveJob, Command, Good, TypeOK, redisVars
<1>5. ASSUME j \notin resent'
      PROVE  /\ RunsOK(j)'
             /\ j \notin due'
             /\ pc'[t] # "idle" => store'[j] # Absent /\ Stage(j, pc[t], att[t])'
  <2>1. OwnInv(t) /\ ~Final(j) /\ runs[j] = att[t]
    BY <1>1, <1>5, OwnBefore DEF OwnInv, Stage
  <2>2. pc'[t] # "save"
        /\ (pc'[t] = "add" => store'[j] = [status |-> "queued", attempts |-> att[t]])
    BY <1>1, <1>5 DEF Goto, GotoWith, SaveJob, Good, TypeOK
  <2>3. [status |-> "queued", attempts |-> att[t]].status # Absent.status
    BY DEF Absent
  <2>4. pc'[t] = "add" => store'[j] # Absent /\ store'[j].attempts = att[t]
    BY <2>2, <2>3
  <2>5. RunsOK(j)' /\ j \notin due'
    BY <1>1, <1>2, <2>1 DEF OwnInv, RunsOK
  <2>6. pc'[t] = "add" => Stage(j, pc[t], att[t])'
    BY <1>1, <1>2, <1>3, <2>1, <2>4 DEF Stage, Final
  <2> QED
    BY <1>3, <2>2, <2>4, <2>5, <2>6
<1>6. held'[t] = IF pc'[t] = "idle" THEN NoJob ELSE j
  BY <1>3
<1>7. UNCHANGED client /\ resent \subseteq resent' /\ due' \subseteq Jobs
  BY <1>1 DEF Good, TypeOK
<1>8. \A k \in Jobs \ {j} : /\ store'[k] = store[k]
                            /\ runs'[k] = runs[k]
                            /\ k \in due' <=> k \in due
                            /\ k \in succeeded' <=> k \in succeeded
                            /\ InDlq(k)' <=> InDlq(k)
  BY <1>1, <1>2, <1>4
<1> QED
  BY <1>3, <1>5, <1>6, <1>7, <1>8, OwnStep

LEMMA RequeueAddStep ==
    ASSUME Good, NEW t \in Tasks, NEW j \in Jobs, j = held[t], RequeueAdd(t)
    PROVE  JobInv'
<1>1. /\ UNCHANGED <<store, client, runs, succeeded, dlq>>
      /\ resent \subseteq resent'
      /\ pc[t] = "add"
      /\ due' \in {due, due \union {j}}
      /\ Goto(t, "idle") \/ (UNCHANGED taskVars /\ j \in resent')
  BY DEF RequeueAdd, Command, Answered, Failed, SentAgain, redisVars
<1>2. \A k \in Jobs : InDlq(k)' <=> InDlq(k)
  BY <1>1, DlqUnchanged
<1>3. /\ \A u \in Tasks : u # t => held'[u] = held[u] /\ pc'[u] = pc[u] /\ att'[u] = att[u]
      /\ pc'[t] \in {"add", "idle"}
      /\ held'[t] = IF pc'[t] = "idle" THEN NoJob ELSE j
  BY <1>1, CommandFrame DEF Labels
<1>4. ASSUME j \notin resent'
      PROVE  RunsOK(j)' /\ DueOK(j)' /\ pc'[t] = "idle"
  <2>1. OwnInv(t) /\ pc'[t] = "idle" /\ ~Final(j)
        /\ runs[j] = att[t] /\ store[j].attempts = att[t] /\ store[j] # Absent
    BY <1>1, <1>4, OwnBefore DEF OwnInv, Stage, Goto, GotoWith, Good, TypeOK
  <2>2. runs[j] < MaxAttempts[j]
    BY <1>1, <2>1, JobQueueAssumption DEF Good, TaskInv
  <2>3. RunsOK(j)'
    BY <1>1, <1>2, <2>1 DEF OwnInv, RunsOK
  <2>4. DueOK(j)'
    BY <1>1, <1>2, <2>1, <2>2 DEF DueOK, Final
  <2> QED
    BY <2>1, <2>3, <2>4
<1> QED
  BY <1>1, <1>2, <1>3, <1>4, OwnStep DEF Good, TypeOK

\* A killed process only empties hands.
LEMMA KillStep ==
    ASSUME Good, NEW p \in Procs, Kill(p)
    PROVE  JobInv'
<1> USE DEF Good, JobInv
<1>1. UNCHANGED <<store, due, client, runs, succeeded, resent, dlq>>
  BY DEF Kill, redisVars
<1>2. \A k \in Jobs : InDlq(k)' <=> InDlq(k)
  BY <1>1, DlqUnchanged
<1>3. \A u \in Tasks : \/ held'[u] = NoJob
                       \/ held'[u] = held[u] /\ pc'[u] = pc[u] /\ att'[u] = att[u]
  BY DEF Kill
<1>4. FreshInv'
  BY <1>1, <1>2, <1>3, JobQueueAssumption DEF FreshInv
<1>5. Sending' /\ DueInv' /\ RunsInv'
  BY <1>1, <1>2 DEF Sending, DueInv, DueOK, RunsInv, RunsOK, Final, TypeOK
<1>6. HeldInv'
  BY <1>1, <1>2, <1>3, JobQueueAssumption DEF HeldInv, Stage, Final
<1> QED
  BY <1>4, <1>5, <1>6

LEMMA QuietStep ==
    ASSUME Good, UNCHANGED <<store, due, dlq, client, taskVars, runs, succeeded, resent>>
    PROVE  JobInv'
BY DlqUnchanged DEF Good, JobInv, taskVars, FreshInv, Sending, DueInv, DueOK, HeldInv, Stage,
   RunsInv, RunsOK, Final, TypeOK

LEMMA GoodStep == Good /\ [Next]_vars => Good'
<1> SUFFICES ASSUME Good, [Next]_vars
             PROVE  Good'
  OBVIOUS
<1>1. TypeOK' /\ TaskInv'
  BY TypeStep DEF Good
<1>2. \A t \in Tasks : ProcessJob(t) => held[t] \in Jobs
  BY DEF ProcessJob, LoadJob, MarkRunning, HandlerSucceeds, HandlerFails, Terminal, PushDeadLetter,
     TrimDeadLetter, DeleteJob, RequeueSave, RequeueAdd, Good, TypeOK, TaskInv
<1>3. ASSUME NEW t \in Tasks, ProcessJob(t)
      PROVE  JobInv'
  BY <1>2, <1>3, LoadStep, MarkStep, SucceedStep, FailStep, PushStep, TrimStep, DeleteStep,
     RequeueSaveStep, RequeueAddStep DEF ProcessJob
<1>4. ASSUME NEW p \in Procs, Shutdown(p) \/ Restart(p)
      PROVE  JobInv'
  BY <1>4, QuietStep DEF Shutdown, Restart, redisVars, historyVars
<1>5. Tick \/ UNCHANGED vars => JobInv'
  BY QuietStep DEF Tick, vars, redisVars, historyVars
<1>6. JobInv'
  BY <1>3, <1>4, <1>5, EnqueueStep, PollStep, KillStep DEF Next, Crash, ExitDrained, ExitTimedOut
<1> QED
  BY <1>1, <1>6 DEF Good

-----------------------------------------------------------------------------
(* Nothing but an error or a kill strands a job.                           *)

\* A step of goroutine t touches only its own job, and lets go of it only when
\* its key is gone or it is scheduled, or after an error.
LEMMA HandsStep ==
    ASSUME NotStranded, NEW t \in Tasks, NEW i \in Jobs, held[t] = i,
           \A u \in Tasks : u # t => held'[u] = held[u],
           \A j \in Jobs : j # i => store'[j] = store[j],
           due \subseteq due', UNCHANGED client, disturbed \subseteq disturbed',
           \/ held'[t] = i
           \/ i \in disturbed' \union due'
           \/ store'[i] = Absent
    PROVE  NotStranded'
<1> SUFFICES ASSUME NEW j \in Jobs, j \notin disturbed', store'[j] # Absent,
                    j \notin due', client'[j] # "sending"
             PROVE  \E u \in Tasks : held'[u] = j
  BY DEF NotStranded, HeldBy
<1>1. CASE j = i
  BY <1>1
<1>2. CASE j # i
  <2>1. \E u \in Tasks : held[u] = j
    BY <1>2 DEF NotStranded, HeldBy
  <2> QED
    BY <1>2, <2>1
<1> QED
  BY <1>1, <1>2

LEMMA StrandedTaskStep ==
    ASSUME TypeOK, TaskInv, NotStranded, NEW t \in Tasks, ProcessJob(t)
    PROVE  NotStranded'
<1> DEFINE i == held[t]
<1>1. i \in Jobs /\ pc[t] # "idle"
  BY DEF ProcessJob, LoadJob, MarkRunning, HandlerSucceeds, HandlerFails, PushDeadLetter,
     TrimDeadLetter, DeleteJob, RequeueSave, RequeueAdd, TypeOK, TaskInv
<1>2. /\ UNCHANGED client /\ disturbed \subseteq disturbed'
      /\ \A u \in Tasks : u # t => held'[u] = held[u]
      /\ held'[t] = i \/ pc'[t] = "idle"
  BY DEF ProcessJob, LoadJob, MarkRunning, HandlerSucceeds, HandlerFails, PushDeadLetter,
     TrimDeadLetter, DeleteJob, RequeueSave, RequeueAdd, TypeOK, Command, Goto, GotoWith, Answered,
     Failed, SentAgain, taskVars, budgetVars, historyVars
<1>3. /\ due \subseteq due'
      /\ \A j \in Jobs : j # i => store'[j] = store[j]
  BY <1>1 DEF ProcessJob, LoadJob, MarkRunning, HandlerSucceeds, HandlerFails, PushDeadLetter,
     TrimDeadLetter, DeleteJob, RequeueSave, RequeueAdd, TypeOK, Command, SaveJob, redisVars
<1>4. held'[t] # i => i \in disturbed' \union due' \/ store'[i] = Absent
  <2>1. CASE LoadJob(t)
    BY <2>1 DEF LoadJob, GotoWith, Failed, TypeOK, redisVars
  <2>2. CASE MarkRunning(t) \/ RequeueSave(t)
    BY <2>2 DEF MarkRunning, RequeueSave, Command, Goto, GotoWith, Failed, TypeOK, taskVars
  <2>3. CASE HandlerSucceeds(t) \/ HandlerFails(t)
    BY <2>3 DEF HandlerSucceeds, HandlerFails, Goto, GotoWith
  <2>4. CASE PushDeadLetter(t) \/ TrimDeadLetter(t)
    BY <2>4 DEF PushDeadLetter, TrimDeadLetter, Command, Goto, GotoWith, taskVars
  <2>5. CASE DeleteJob(t)
    BY <1>1, <2>5 DEF DeleteJob, Command, Failed, taskVars, TypeOK
  <2>6. CASE RequeueAdd(t)
    BY <2>6 DEF RequeueAdd, Command, Failed, taskVars
  <2> QED
    BY <2>1, <2>2, <2>3, <2>4, <2>5, <2>6 DEF ProcessJob
<1> QED
  BY <1>1, <1>2, <1>3, <1>4, HandsStep

LEMMA StrandedStep ==
    ASSUME TypeOK, TaskInv, NotStranded, [Next]_vars
    PROVE  NotStranded'
<1>1. ASSUME NEW i \in Jobs, Enqueue(i)
      PROVE  NotStranded'
  <2>1. UNCHANGED held /\ due \subseteq due' /\ disturbed \subseteq disturbed'
        /\ \A j \in Jobs : j # i => store'[j] = store[j] /\ client'[j] = client[j]
    BY <1>1 DEF Enqueue, Pipeline, Answered, Failed, SentAgain, taskVars, TypeOK
  <2>2. i \in due' \/ i \in disturbed' \/ client'[i] = "sending"
    BY <1>1 DEF Enqueue, Pipeline, Answered, Failed, SentAgain, TypeOK
  <2> QED
    BY <2>1, <2>2 DEF NotStranded, HeldBy
<1>2. ASSUME NEW t \in Tasks, PollOnce(t)
      PROVE  NotStranded'
  <2>1. PICK i \in Jobs :
          /\ due' = due \ {i}
          /\ \/ pc[t] = "idle" /\ held' = [held EXCEPT ![t] = i] /\ UNCHANGED disturbed
             \/ UNCHANGED held /\ disturbed' = disturbed \union {i}
    BY <1>2 DEF PollOnce, Answered, Failed, taskVars
  <2>2. UNCHANGED <<store, client>>
    BY <1>2 DEF PollOnce
  <2>3. pc[t] = "idle" => held[t] = NoJob
    BY DEF TaskInv
  <2> SUFFICES ASSUME NEW j \in Jobs, j \notin disturbed', store'[j] # Absent,
                      j \notin due', client'[j] # "sending"
               PROVE  \E u \in Tasks : held'[u] = j
    BY DEF NotStranded, HeldBy
  <2>4. CASE j = i
    BY <2>1, <2>4 DEF TypeOK
  <2>5. CASE j # i
    <3>1. PICK u \in Tasks : held[u] = j
      BY <2>1, <2>2, <2>5 DEF NotStranded, HeldBy
    <3> QED
      BY <2>1, <2>3, <3>1, JobQueueAssumption DEF TypeOK
  <2> QED
    BY <2>4, <2>5
<1>3. ASSUME NEW p \in Procs, Kill(p)
      PROVE  NotStranded'
  <2> SUFFICES ASSUME NEW j \in Jobs, j \notin disturbed', store'[j] # Absent,
                      j \notin due', client'[j] # "sending"
               PROVE  \E u \in Tasks : held'[u] = j
    BY DEF NotStranded, HeldBy
  <2>1. PICK u \in Tasks : held[u] = j
    BY <1>3 DEF Kill, redisVars, NotStranded, HeldBy
  <2>2. pc[u] # "idle"
    BY <2>1, JobQueueAssumption DEF TaskInv
  <2>3. Host[u] # p
    BY <1>3, <2>1, <2>2 DEF Kill, InFlight
  <2> QED
    BY <1>3, <2>1, <2>3 DEF Kill
<1>4. CASE UNCHANGED <<store, due, held, client, disturbed>>
  BY <1>4 DEF NotStranded, HeldBy
<1>5. Tick \/ UNCHANGED vars => UNCHANGED <<store, due, held, client, disturbed>>
  BY DEF Tick, vars, redisVars, taskVars, historyVars
<1>6. \A p \in Procs : Shutdown(p) \/ Restart(p) => UNCHANGED <<store, due, held, client, disturbed>>
  BY DEF Shutdown, Restart, redisVars, taskVars, historyVars
<1> QED
  BY <1>1, <1>2, <1>3, <1>4, <1>5, <1>6, StrandedTaskStep DEF Next, Crash, ExitDrained, ExitTimedOut

-----------------------------------------------------------------------------
(* The theorems.                                                           *)

\* The whole strengthened invariant holds in every reachable state.
THEOREM Inductive == Spec => []IInv
<1> DEFINE Inv == Good /\ EraseInv /\ Recoverable
<1>1. Init => Inv
  BY InitIInv DEF IInv, Good, JobInv
<1>2. Inv /\ [Next]_vars => Inv'
  BY GoodStep, EraseStep, RecoverableStep DEF Good
<1>3. Inv => IInv
  BY DEF IInv, Good, JobInv
<1> QED
  BY <1>1, <1>2, <1>3, PTL DEF Spec

\* No two goroutines ever work on the same job, and a job in a goroutine's hands
\* is not scheduled, unless the client sent one of its commands twice.
THEOREM ExclusiveHolds == Spec => []Exclusive
<1>1. IInv => Exclusive
  BY DEF IInv, HeldInv, Exclusive, HeldBy
<1> QED
  BY <1>1, Inductive, PTL

\* Every scheduled id has its envelope.
THEOREM DueIsBackedHolds == Spec => []DueIsBacked
<1>1. IInv => DueIsBacked
  BY DEF IInv, DueInv, DueOK, DueIsBacked
<1> QED
  BY <1>1, Inductive, PTL

\* No handler is dispatched more often than the job's budget allows.
THEOREM BudgetHolds == Spec => []BudgetRespected
<1>1. IInv => BudgetRespected
  BY DEF IInv, TypeOK, DueInv, DueOK, RunsInv, RunsOK, BudgetRespected
<1> QED
  BY <1>1, Inductive, PTL

\* Only a job that used its budget, or has no handler, is dead-lettered.
THEOREM DeadMeansExhaustedHolds == Spec => []DeadMeansExhausted
<1>1. IInv => DeadMeansExhausted
  BY DEF IInv, RunsInv, RunsOK, DeadMeansExhausted
<1> QED
  BY <1>1, Inductive, PTL

\* A job whose handler returned nil is neither dispatched again nor dead-lettered.
THEOREM SuccessIsFinalHolds == Spec => SuccessIsFinal
<1>1. ASSUME IInv, IInv', [Next]_vars
      PROVE  \A j \in succeeded \ resent' : runs'[j] = runs[j] /\ ~InDlq(j)'
  <2> SUFFICES ASSUME NEW j \in succeeded, j \notin resent'
               PROVE  runs'[j] = runs[j] /\ ~InDlq(j)'
    OBVIOUS
  <2>1. j \in Jobs /\ j \in succeeded'
    BY <1>1 DEF IInv, TypeOK, Next, vars, redisVars, taskVars, budgetVars, historyVars, Enqueue, Tick,
       PollOnce, ProcessJob, LoadJob, MarkRunning, HandlerSucceeds, HandlerFails, Terminal, PushDeadLetter,
       TrimDeadLetter, DeleteJob, RequeueSave, RequeueAdd, Crash, ExitDrained, ExitTimedOut, Kill,
       Shutdown, Restart
  <2>2. ~InDlq(j)'
    BY <1>1, <2>1 DEF IInv, RunsInv, RunsOK, InDlq
  <2>3. CASE UNCHANGED runs
    BY <2>2, <2>3
  <2>4. ASSUME NEW t \in Tasks, MarkRunning(t)
        PROVE  runs'[j] = runs[j]
    <3>1. held[t] \in Jobs /\ pc[t] = "mark"
      BY <1>1, <2>4 DEF IInv, TypeOK, TaskInv, MarkRunning
    <3>2. j \notin resent
      BY <2>4 DEF MarkRunning, Command, Answered, Failed, SentAgain
    <3>3. held[t] # j
      BY <1>1, <2>1, <3>1, <3>2 DEF IInv, HeldInv, Stage, Final
    <3> QED
      BY <1>1, <2>1, <2>4, <3>3 DEF MarkRunning, IInv, TypeOK
  <2>5. UNCHANGED runs \/ \E t \in Tasks : MarkRunning(t)
    BY <1>1 DEF Next, vars, historyVars, Enqueue, Tick,
       PollOnce, ProcessJob, LoadJob, HandlerSucceeds, HandlerFails, Terminal, PushDeadLetter,
       TrimDeadLetter, DeleteJob, RequeueSave, RequeueAdd, Crash, ExitDrained, ExitTimedOut, Kill,
       Shutdown, Restart
  <2> QED
    BY <2>2, <2>3, <2>4, <2>5
<1>2. IInv /\ IInv' /\ [Next]_vars => [\A j \in succeeded \ resent' : runs'[j] = runs[j] /\ ~InDlq(j)']_vars
  BY <1>1
<1> QED
  BY <1>2, Inductive, PTL DEF Spec, SuccessIsFinal

\* A job whose key exists is scheduled, in a goroutine's hands or still being
\* enqueued, unless an error or a killed process left it behind.  The invariant
\* needs nothing but the types: no step lets go of a job it has not finished.
THEOREM NotStrandedHolds == Spec => []NotStranded
<1> DEFINE Inv == TypeOK /\ TaskInv /\ NotStranded
<1>1. Init => NotStranded
  BY DEF Init, NotStranded
<1>2. Init => Inv
  BY <1>1, InitIInv DEF IInv
<1>3. Inv /\ [Next]_vars => Inv'
  BY TypeStep, StrandedStep
<1> QED
  BY <1>2, <1>3, PTL DEF Spec

-----------------------------------------------------------------------------
(* JobQueue implements JobLifecycle, as long as the client never sends a   *)
(* command twice.                                                          *)

\* A job whose snapshot was trimmed is over: only its key may still have to go.
TrimmedInv ==
    \A j \in evicted :
        /\ j \notin succeeded /\ j \notin due
        /\ client[j] # "new"
        /\ \A t \in Tasks : held[t] = j => pc[t] \in {"trim", "erase"}

LifeInv == Good /\ resent = {} /\ TrimmedInv

\* In a step of a client that never repeats a command.
Once == MaxResends = 0 /\ LifeInv

LEMMA NoRepeat ==
    ASSUME Once, NEW j
    PROVE  /\ ~SentAgain(j)
           /\ Answered => resent' = {}
           /\ Failed(j) => resent' = {}
BY DEF Once, LifeInv, Good, TypeOK, SentAgain, Answered, Failed

\* What a command of goroutine t about job j does to its control.
LEMMA Outcome ==
    ASSUME Once, NEW t \in Tasks, pc[t] # "idle", NEW ok \in Labels, NEW err \in Labels,
           NEW written, NEW skipped, Command(t, written, skipped, ok, err)
    PROVE  /\ written \/ skipped
           /\ resent' = {}
           /\ \/ Goto(t, ok) /\ written
              \/ Goto(t, err)
BY NoRepeat DEF Command

-----------------------------------------------------------------------------
(* The mapping.                                                            *)

\* All that the phase of job k depends on stays.
SameLife(k) ==
    /\ k \in succeeded' <=> k \in succeeded
    /\ InDlq(k)' <=> InDlq(k)
    /\ k \in evicted' <=> k \in evicted
    /\ k \in due' <=> k \in due
    /\ HeldBy(k)' # {} <=> HeldBy(k) # {}
    /\ client'[k] = "new" <=> client[k] = "new"

LEMMA SamePhase ==
    ASSUME NEW k \in Jobs, SameLife(k)
    PROVE  LifePhase'[k] = LifePhase[k]
BY DEF SameLife, LifePhase

\* A step about one job moves it alone.
LEMMA OneJob ==
    ASSUME NEW j \in Jobs, \A k \in Jobs \ {j} : SameLife(k)
    PROVE  LifePhase' = [LifePhase EXCEPT ![j] = LifePhase'[j]]
<1>1. \A k \in Jobs \ {j} : LifePhase'[k] = LifePhase[k]
  BY SamePhase
<1>2. LifePhase' = [k \in Jobs |-> LifePhase'[k]] /\ LifePhase = [k \in Jobs |-> LifePhase[k]]
  BY DEF LifePhase
<1> QED
  BY <1>1, <1>2

\* A step that moves no job.
LEMMA NoJobMoves ==
    ASSUME \A k \in Jobs : SameLife(k), UNCHANGED runs
    PROVE  UNCHANGED Life!lifeVars
<1>1. \A k \in Jobs : LifePhase'[k] = LifePhase[k]
  BY SamePhase
<1>2. LifePhase' = [k \in Jobs |-> LifePhase'[k]] /\ LifePhase = [k \in Jobs |-> LifePhase[k]]
  BY DEF LifePhase
<1>3. LifePhase' = LifePhase
  BY <1>1, <1>2
<1> QED
  BY <1>3 DEF Life!lifeVars

\* One job moves from one phase to another.
LEMMA OneMoves ==
    ASSUME NEW j \in Jobs, \A k \in Jobs \ {j} : SameLife(k),
           NEW from, NEW to, LifePhase[j] = from, LifePhase'[j] = to
    PROVE  Life!Move(j, from, to)
BY OneJob DEF Life!Move

LEMMA OneIsLost ==
    ASSUME NEW j \in Jobs, \A k \in Jobs \ {j} : SameLife(k), UNCHANGED runs,
           LifePhase[j] \in {"new", "ready", "busy"}, LifePhase'[j] = "lost"
    PROVE  Life!Next
<1>1. LifePhase' = [k \in Jobs |-> IF k \in {j} THEN "lost" ELSE LifePhase[k]]
  <2>1. \A k \in Jobs \ {j} : LifePhase'[k] = LifePhase[k]
    BY SamePhase
  <2>2. LifePhase' = [k \in Jobs |-> LifePhase'[k]]
    BY DEF LifePhase
  <2> QED
    BY <2>1, <2>2
<1>2. Life!Lose({j})
  BY <1>1 DEF Life!Lose
<1> QED
  BY <1>2 DEF Life!Next

-----------------------------------------------------------------------------
(* Where a job is when a step is about it.                                 *)

LEMMA HeldFacts ==
    ASSUME Once, NEW t \in Tasks, pc[t] # "idle"
    PROVE  /\ held[t] \in Jobs /\ HeldBy(held[t]) = {t}
           /\ held[t] \notin due
           /\ pc[t] \notin {"trim", "erase"} => /\ ~Final(held[t]) /\ held[t] \notin evicted
                                                /\ LifePhase[held[t]] = "busy"
           /\ client[held[t]] # "new"
           /\ OwnInv(t)
<1>1. held[t] \in Jobs /\ OwnInv(t) /\ \A u \in Tasks : held[u] = held[t] => u = t
  BY OwnBefore DEF Once, LifeInv, Good, TypeOK, TaskInv
<1>2. HeldBy(held[t]) = {t}
  BY <1>1 DEF HeldBy
<1>3. held[t] \notin due
  BY <1>1 DEF OwnInv
<1>4. pc[t] \notin {"trim", "erase"} => ~Final(held[t]) /\ held[t] \notin evicted
  BY <1>1 DEF OwnInv, Stage, Once, LifeInv, TrimmedInv
<1>5. client[held[t]] # "new"
  BY <1>1 DEF Once, LifeInv, Good, JobInv, FreshInv
<1> QED
  BY <1>1, <1>2, <1>3, <1>4, <1>5 DEF LifePhase, Final

\* Goroutine t keeps its job j, or drops it; the others keep theirs.
LEMMA HandsAfter ==
    ASSUME Once, NEW t \in Tasks, pc[t] # "idle", NEW j \in Jobs, j = held[t],
           NEW l \in Labels, NEW n, GotoWith(t, l, n)
    PROVE  /\ \A k \in Jobs \ {j} : HeldBy(k)' # {} <=> HeldBy(k) # {}
           /\ HeldBy(j)' # {} <=> l # "idle"
           /\ HeldBy(j) # {}
           /\ \A u \in Tasks \ {t} : held'[u] = held[u] /\ pc'[u] = pc[u]
           /\ pc'[t] = l /\ (held'[t] = IF l = "idle" THEN NoJob ELSE j)
<1>1. /\ \A u \in Tasks \ {t} : held'[u] = held[u] /\ pc'[u] = pc[u]
      /\ pc'[t] = l /\ (held'[t] = IF l = "idle" THEN NoJob ELSE j)
  BY DEF GotoWith, Once, LifeInv, Good, TypeOK
<1>2. HeldBy(j) = {t}
  BY HeldFacts
<1>3. \A k \in Jobs \ {j} : HeldBy(k)' # {} <=> HeldBy(k) # {}
  BY <1>1, <1>2, JobQueueAssumption DEF HeldBy
<1>4. HeldBy(j)' # {} <=> l # "idle"
  BY <1>1, <1>2, JobQueueAssumption DEF HeldBy
<1> QED
  BY <1>1, <1>2, <1>3, <1>4

-----------------------------------------------------------------------------
(* Each action is a step of JobLifecycle or none.                          *)

Lives ==
    /\ Life!Next \/ UNCHANGED Life!lifeVars
    /\ resent' = {}
    /\ TrimmedInv'

LEMMA NothingMoves ==
    ASSUME Once, UNCHANGED <<due, dlq, client, held, pc, runs, succeeded, evicted, resent>>
    PROVE  Lives
<1>1. \A k \in Jobs : SameLife(k)
  BY DlqUnchanged DEF SameLife, HeldBy
<1>2. UNCHANGED Life!lifeVars
  BY <1>1, NoJobMoves
<1>3. resent' = {} /\ TrimmedInv'
  BY DEF Once, LifeInv, TrimmedInv
<1> QED
  BY <1>2, <1>3 DEF Lives

\* Jobs whose snapshots were trimmed are none of a goroutine's business before
\* its own trim.
LEMMA OverStaysOver ==
    ASSUME Once, NEW t \in Tasks, pc[t] # "idle", NEW j \in Jobs, j = held[t],
           NEW l \in Labels, NEW n, GotoWith(t, l, n),
           UNCHANGED <<evicted, client>>,
           \A k \in Jobs \ {j} : /\ k \in succeeded' => k \in succeeded
                                 /\ k \in due' => k \in due,
           j \in evicted => /\ j \notin succeeded' /\ j \notin due'
                            /\ l \in {"trim", "erase", "idle"}
    PROVE  TrimmedInv'
<1>1. /\ \A u \in Tasks \ {t} : held'[u] = held[u] /\ pc'[u] = pc[u]
      /\ pc'[t] = l /\ (held'[t] = IF l = "idle" THEN NoJob ELSE j)
  BY HandsAfter
<1>2. evicted \subseteq Jobs
  BY DEF Once, LifeInv, Good, TypeOK
<1> SUFFICES ASSUME NEW k \in evicted
             PROVE  /\ k \notin succeeded' /\ k \notin due'
                    /\ client'[k] # "new"
                    /\ \A u \in Tasks : held'[u] = k => pc'[u] \in {"trim", "erase"}
  BY DEF TrimmedInv
<1>3. /\ k \notin succeeded /\ k \notin due
      /\ client[k] # "new"
      /\ \A u \in Tasks : held[u] = k => pc[u] \in {"trim", "erase"}
  BY DEF Once, LifeInv, TrimmedInv
<1>4. k # NoJob
  BY <1>2, JobQueueAssumption
<1> QED
  BY <1>1, <1>2, <1>3, <1>4

LEMMA EnqueueLives == ASSUME Once, NEW j \in Jobs, Enqueue(j) PROVE Lives
<1>1. client[j] = "new"
  BY DEF Enqueue, Once, LifeInv, Good, JobInv, Sending
<1>2. /\ j \notin due /\ j \notin succeeded /\ ~InDlq(j) /\ HeldBy(j) = {}
      /\ j \notin evicted
  BY <1>1 DEF Once, LifeInv, Good, JobInv, FreshInv, TrimmedInv, HeldBy
<1>3. /\ UNCHANGED <<dlq, taskVars, runs, succeeded, evicted>>
      /\ due' = due \/ due' = due \union {j}
      /\ \E c \in {"accepted", "failed"} : client' = [client EXCEPT ![j] = c]
      /\ resent' = {}
  BY NoRepeat DEF Enqueue, Pipeline
<1>4. client'[j] # "new" /\ \A k \in Jobs \ {j} : client'[k] = client[k]
  BY <1>3 DEF Once, LifeInv, Good, TypeOK
<1>5. \A k \in Jobs : (InDlq(k)' <=> InDlq(k)) /\ HeldBy(k)' = HeldBy(k)
  BY <1>3, DlqUnchanged DEF HeldBy, taskVars
<1>6. \A k \in Jobs \ {j} : SameLife(k)
  BY <1>3, <1>4, <1>5 DEF SameLife
<1>7. LifePhase[j] = "new"
  BY <1>1, <1>2 DEF LifePhase
<1>8. LifePhase'[j] = IF j \in due' THEN "ready" ELSE "lost"
  BY <1>2, <1>3, <1>4, <1>5 DEF LifePhase
<1>9. ASSUME j \in due' PROVE Life!Next
  <2>1. Life!Submit(j)
    BY <1>3, <1>6, <1>7, <1>8, <1>9, OneMoves DEF Life!Submit
  <2> QED
    BY <2>1 DEF Life!Next
<1>10. ASSUME j \notin due' PROVE Life!Next
  BY <1>3, <1>6, <1>7, <1>8, <1>10, OneIsLost
<1>11. TrimmedInv'
  BY <1>2, <1>3, <1>4 DEF TrimmedInv, Once, LifeInv, Good, TypeOK, taskVars
<1>12. Life!Next
  BY <1>9, <1>10
<1> QED
  BY <1>3, <1>11, <1>12 DEF Lives

LEMMA PollLives == ASSUME Once, NEW t \in Tasks, PollOnce(t) PROVE Lives
<1>1. PICK j \in Jobs :
        /\ Earliest(j)
        /\ due' = due \ {j}
        /\ \/ /\ pc' = [pc EXCEPT ![t] = "load"]
              /\ held' = [held EXCEPT ![t] = j]
              /\ Answered
           \/ UNCHANGED taskVars /\ Failed(j)
  BY DEF PollOnce
<1>2. /\ UNCHANGED <<dlq, client, runs, succeeded, evicted>>
      /\ resent' = {} /\ pc[t] = "idle"
  BY <1>1, NoRepeat DEF PollOnce
<1>3. /\ j \in due /\ j \notin succeeded /\ ~InDlq(j) /\ HeldBy(j) = {}
      /\ client[j] # "new" /\ j \notin evicted /\ held[t] = NoJob
  BY <1>1, <1>2 DEF Earliest, Once, LifeInv, Good, TypeOK, TaskInv, JobInv, DueInv, DueOK, HeldInv, Final,
     FreshInv, TrimmedInv, HeldBy
<1>4. \/ held'[t] = j /\ pc'[t] = "load" /\ \A u \in Tasks \ {t} : held'[u] = held[u] /\ pc'[u] = pc[u]
      \/ UNCHANGED <<held, pc>>
  BY <1>1 DEF Once, LifeInv, Good, TypeOK, taskVars
<1>5. \A k \in Jobs : (InDlq(k)' <=> InDlq(k))
  BY <1>2, DlqUnchanged
<1>6. \A k \in Jobs \ {j} : HeldBy(k)' # {} <=> HeldBy(k) # {}
  BY <1>3, <1>4, JobQueueAssumption DEF HeldBy
<1>7. \A k \in Jobs \ {j} : SameLife(k)
  BY <1>1, <1>2, <1>5, <1>6 DEF SameLife
<1>8. LifePhase[j] = "ready"
  BY <1>3 DEF LifePhase
<1>9. ASSUME HeldBy(j)' # {} PROVE Life!Next
  <2>1. LifePhase'[j] = "busy"
    BY <1>1, <1>2, <1>3, <1>5, <1>9 DEF LifePhase
  <2>2. Life!Pop(j)
    BY <1>2, <1>7, <1>8, <2>1, OneMoves DEF Life!Pop
  <2> QED
    BY <2>2 DEF Life!Next
<1>10. ASSUME HeldBy(j)' = {} PROVE Life!Next
  <2>1. LifePhase'[j] = "lost"
    BY <1>1, <1>2, <1>3, <1>5, <1>10 DEF LifePhase
  <2> QED
    BY <1>2, <1>7, <1>8, <2>1, OneIsLost
<1>11. TrimmedInv'
  BY <1>1, <1>2, <1>3, <1>4 DEF TrimmedInv, Once, LifeInv
<1>12. Life!Next
  BY <1>9, <1>10
<1> QED
  BY <1>2, <1>11, <1>12 DEF Lives

\* A step of goroutine t about its job j alone.
Own(t, j, l, n) ==
    /\ pc[t] # "idle"
    /\ GotoWith(t, l, n)
    /\ UNCHANGED client
    /\ \A k \in Jobs \ {j} : /\ k \in succeeded' <=> k \in succeeded
                             /\ InDlq(k)' <=> InDlq(k)
                             /\ k \in evicted' <=> k \in evicted
                             /\ k \in due' <=> k \in due

LEMMA OthersStay ==
    ASSUME Once, NEW t \in Tasks, NEW j \in Jobs, j = held[t], NEW l \in Labels, NEW n, Own(t, j, l, n)
    PROVE  \A k \in Jobs \ {j} : SameLife(k)
BY HandsAfter DEF Own, SameLife

\* The goroutine goes on with its job.
LEMMA GoesOn ==
    ASSUME Once, NEW t \in Tasks, NEW j \in Jobs, j = held[t], NEW l \in Labels, NEW n, Own(t, j, l, n),
           l # "idle",
           UNCHANGED <<due, dlq, succeeded, evicted>>
    PROVE  LifePhase' = LifePhase
<1>1. \A k \in Jobs : (InDlq(k)' <=> InDlq(k))
  BY DlqUnchanged
<1>2. SameLife(j)
  BY <1>1, HandsAfter DEF SameLife, Own
<1>3. \A k \in Jobs : LifePhase'[k] = LifePhase[k]
  BY <1>2, OthersStay, SamePhase
<1>4. LifePhase' = [k \in Jobs |-> LifePhase'[k]] /\ LifePhase = [k \in Jobs |-> LifePhase[k]]
  BY DEF LifePhase
<1> QED
  BY <1>3, <1>4

\* The goroutine returns from processJob before its job is settled.
LEMMA GivesUp ==
    ASSUME Once, NEW t \in Tasks, NEW j \in Jobs, j = held[t], NEW n, Own(t, j, "idle", n),
           LifePhase[j] = "busy",
           UNCHANGED <<due, dlq, succeeded, evicted, runs>>
    PROVE  Life!Next
<1>1. InDlq(j)' <=> InDlq(j)
  BY DlqUnchanged
<1>2. ~Final(j) /\ j \notin evicted /\ j \notin due /\ client[j] # "new"
  BY HeldFacts DEF LifePhase, Final, Own
<1>3. HeldBy(j)' = {} /\ client'[j] # "new"
  BY <1>2, HandsAfter DEF Own, Labels
<1>4. LifePhase'[j] = "lost"
  BY <1>1, <1>2, <1>3 DEF LifePhase, Final
<1> QED
  BY <1>4, OthersStay, OneIsLost DEF Labels

LEMMA LoadLives == ASSUME Once, NEW t \in Tasks, LoadJob(t) PROVE Lives
<1>1. /\ pc[t] = "load"
      /\ UNCHANGED <<store, due, dlq, client, runs, succeeded, evicted>>
  BY DEF LoadJob, redisVars
<1>2. PICK j \in Jobs : j = held[t]
  BY <1>1, HeldFacts
<1>3. store[j] # Absent /\ LifePhase[j] = "busy" /\ j \notin evicted
  BY <1>1, <1>2, HeldFacts DEF OwnInv
<1>4. \/ GotoWith(t, "mark", store[j].attempts) /\ Answered
      \/ GotoWith(t, "idle", att[t]) /\ Failed(j)
  BY <1>2, <1>3 DEF LoadJob, Goto
<1>5. \A l, n : GotoWith(t, l, n) => Own(t, j, l, n)
  BY <1>1, DlqUnchanged DEF Own
<1>6. resent' = {}
  BY <1>4, NoRepeat
<1>7. TrimmedInv'
  BY <1>1, <1>2, <1>3, <1>4, OverStaysOver DEF Labels, Once, LifeInv, TrimmedInv
<1>8. CASE GotoWith(t, "mark", store[j].attempts)
  <2>1. LifePhase' = LifePhase
    BY <1>1, <1>2, <1>5, <1>8, GoesOn DEF Labels
  <2> QED
    BY <1>1, <1>6, <1>7, <2>1 DEF Lives, Life!lifeVars
<1>9. CASE GotoWith(t, "idle", att[t])
  BY <1>1, <1>2, <1>3, <1>5, <1>6, <1>7, <1>9, GivesUp DEF Lives
<1> QED
  BY <1>4, <1>8, <1>9

LEMMA MarkLives == ASSUME Once, NEW t \in Tasks, MarkRunning(t) PROVE Lives
<1>1. /\ pc[t] = "mark"
      /\ UNCHANGED <<due, dlq, client, succeeded, evicted>>
  BY DEF MarkRunning, Command, SaveJob, redisVars
<1>2. PICK j \in Jobs : j = held[t]
  BY <1>1, HeldFacts
<1>3. LifePhase[j] = "busy" /\ j \notin evicted /\ runs[j] < MaxAttempts[j]
  BY <1>1, <1>2, HeldFacts DEF OwnInv, Stage
<1>4. resent' = {} /\ (GotoWith(t, "run", att[t]) \/ GotoWith(t, "idle", att[t]))
  BY <1>1, Outcome DEF MarkRunning, Labels, Goto
<1>5. \A l, n : GotoWith(t, l, n) => Own(t, j, l, n)
  BY <1>1, DlqUnchanged DEF Own
<1>6. TrimmedInv'
  BY <1>1, <1>2, <1>3, <1>4, OverStaysOver DEF Labels, Once, LifeInv, TrimmedInv
<1>7. CASE GotoWith(t, "run", att[t])
  <2>1. LifePhase' = LifePhase
    BY <1>1, <1>2, <1>5, <1>7, GoesOn DEF Labels
  <2>2. pc'[t] = "run"
    BY <1>1, <1>2, <1>7, HandsAfter DEF Labels
  <2>3. runs[j] < MaxRuns
    BY <1>3, JobQueueAssumption DEF Once, LifeInv, Good, TypeOK
  <2>4. runs' = [runs EXCEPT ![j] = @ + 1]
    BY <1>2, <2>2, <2>3 DEF MarkRunning
  <2>5. Life!Dispatch(j)
    BY <1>3, <2>1, <2>4 DEF Life!Dispatch
  <2> QED
    BY <1>4, <1>6, <2>5 DEF Lives, Life!Next
<1>8. CASE GotoWith(t, "idle", att[t])
  <2>1. pc'[t] = "idle"
    BY <1>1, <1>2, <1>8, HandsAfter DEF Labels
  <2>2. UNCHANGED runs
    BY <2>1 DEF MarkRunning
  <2> QED
    BY <1>1, <1>2, <1>3, <1>4, <1>5, <1>6, <1>8, <2>2, GivesUp DEF Lives
<1> QED
  BY <1>4, <1>7, <1>8

LEMMA SucceedLives == ASSUME Once, NEW t \in Tasks, HandlerSucceeds(t) PROVE Lives
<1>1. /\ pc[t] = "run"
      /\ UNCHANGED <<due, dlq, client, runs, evicted, resent>>
      /\ succeeded' = succeeded \union {held[t]}
      /\ GotoWith(t, "erase", att[t])
  BY DEF HandlerSucceeds, redisVars, Goto
<1>2. PICK j \in Jobs : j = held[t]
  BY <1>1, HeldFacts
<1>3. LifePhase[j] = "busy" /\ j \notin evicted /\ j \notin due /\ runs[j] = att[t] + 1
  BY <1>1, <1>2, HeldFacts DEF OwnInv, Stage
<1>4. Own(t, j, "erase", att[t])
  BY <1>1, <1>2, DlqUnchanged DEF Own
<1>5. LifePhase'[j] = "succeeded"
  BY <1>1, <1>2 DEF LifePhase
<1>6. runs[j] > 0
  BY <1>3 DEF Once, LifeInv, Good, TypeOK
<1>7. Life!Move(j, "busy", "succeeded")
  BY <1>2, <1>3, <1>4, <1>5, OthersStay, OneMoves DEF Labels
<1>8. Life!Succeed(j)
  BY <1>1, <1>6, <1>7 DEF Life!Succeed
<1>9. TrimmedInv'
  BY <1>1, <1>2, <1>3, OverStaysOver DEF Labels
<1> QED
  BY <1>1, <1>8, <1>9 DEF Lives, Life!Next, Once, LifeInv

LEMMA FailLives == ASSUME Once, NEW t \in Tasks, HandlerFails(t) PROVE Lives
<1>1. /\ pc[t] = "run"
      /\ UNCHANGED <<due, dlq, client, runs, succeeded, evicted, resent>>
      /\ GotoWith(t, "push", att[t] + 1) \/ GotoWith(t, "save", att[t] + 1)
  BY DEF HandlerFails, redisVars, historyVars
<1>2. PICK j \in Jobs : j = held[t]
  BY <1>1, HeldFacts
<1>3. j \notin evicted
  BY <1>1, <1>2, HeldFacts
<1>4. \A l, n : GotoWith(t, l, n) => Own(t, j, l, n)
  BY <1>1, DlqUnchanged DEF Own
<1>5. LifePhase' = LifePhase
  BY <1>1, <1>2, <1>4, GoesOn DEF Labels
<1>6. TrimmedInv'
  BY <1>1, <1>2, <1>3, OverStaysOver DEF Labels, Once, LifeInv, TrimmedInv
<1> QED
  BY <1>1, <1>5, <1>6 DEF Lives, Life!lifeVars, Once, LifeInv

LEMMA PushLives == ASSUME Once, NEW t \in Tasks, PushDeadLetter(t) PROVE Lives
<1>1. /\ pc[t] = "push"
      /\ UNCHANGED <<due, client, runs, succeeded, evicted>>
  BY DEF PushDeadLetter, Command, redisVars
<1>2. PICK j \in Jobs : j = held[t]
  BY <1>1, HeldFacts
<1>3. /\ LifePhase[j] = "busy" /\ j \notin evicted /\ j \notin due /\ j \notin succeeded
      /\ runs[j] = MaxAttempts[j] \/ j \in UnknownJobs
  BY <1>1, <1>2, HeldFacts DEF OwnInv, Stage, Final
<1>4. resent' = {} /\ (GotoWith(t, "trim", att[t]) \/ GotoWith(t, "erase", att[t]))
  BY <1>1, Outcome DEF PushDeadLetter, Labels, Goto
<1>5. \A k \in Jobs : InDlq(k)' <=> InDlq(k) \/ (dlq' # dlq /\ k = j)
  BY <1>2, PushEffect DEF Once, LifeInv, Good
<1>6. PICK l \in {"trim", "erase"} : Own(t, j, l, att[t])
  BY <1>1, <1>4, <1>5 DEF Own
<1>7. TrimmedInv'
  BY <1>1, <1>2, <1>3, <1>6, OverStaysOver DEF Labels, Own
<1>8. CASE dlq' = dlq
  <2>1. LifePhase' = LifePhase
    BY <1>1, <1>2, <1>6, <1>8, GoesOn DEF Labels
  <2> QED
    BY <1>1, <1>4, <1>7, <2>1 DEF Lives, Life!lifeVars
<1>9. CASE dlq' # dlq
  <2>1. LifePhase'[j] = "dead"
    BY <1>1, <1>3, <1>5, <1>9 DEF LifePhase
  <2>2. Life!Move(j, "busy", "dead")
    <3>1. \A k \in Jobs \ {j} : SameLife(k)
      BY <1>2, <1>6, OthersStay DEF Labels
    <3> QED
      BY <1>3, <2>1, <3>1, OneMoves
  <2>3. Life!Bury(j)
    BY <1>1, <1>3, <2>2 DEF Life!Bury
  <2> QED
    BY <1>4, <1>7, <2>3 DEF Lives, Life!Next
<1> QED
  BY <1>8, <1>9

\* What LTRIM evicts had a snapshot.
LEMMA EvictedWasDead ==
    ASSUME TypeOK, NEW t \in Tasks, TrimDeadLetter(t)
    PROVE  \A k \in evicted' \ evicted : k \in Jobs /\ InDlq(k)
<1>1. \A k \in evicted' \ evicted : \E i \in DeadLetterCap + 1 .. Len(dlq) : k = dlq[i].job
  BY DEF TrimDeadLetter
<1>2. dlq \in Seq(Snapshot) /\ DeadLetterCap \in Nat
  BY JobQueueAssumption DEF TypeOK
<1>3. \A i \in DeadLetterCap + 1 .. Len(dlq) : i \in 1..Len(dlq) /\ dlq[i] \in Snapshot
  BY <1>2
<1> QED
  BY <1>1, <1>3 DEF InDlq, Snapshot

LEMMA TrimLives == ASSUME Once, NEW t \in Tasks, TrimDeadLetter(t) PROVE Lives
<1> DEFINE S == {k \in Jobs : InDlq(k) /\ ~InDlq(k)'}
<1>1. /\ pc[t] = "trim"
      /\ UNCHANGED <<due, client, runs, succeeded>>
  BY DEF TrimDeadLetter, Command, redisVars
<1>2. PICK j \in Jobs : j = held[t]
  BY <1>1, HeldFacts
<1>3. resent' = {} /\ GotoWith(t, "erase", att[t])
  BY <1>1, Outcome DEF TrimDeadLetter, Labels, Goto
<1>4. /\ \A k \in Jobs : InDlq(k) => InDlq(k)' \/ k \in evicted'
      /\ \A k \in Jobs : InDlq(k)' => InDlq(k)
      /\ evicted \subseteq evicted'
      /\ \A k \in evicted' \ evicted : k \in Jobs /\ InDlq(k)
  BY TrimEffect, EvictedWasDead DEF Once, LifeInv, Good
<1>5. \A k \in Jobs : InDlq(k) =>
        /\ k \notin succeeded /\ k \notin due /\ client[k] # "new"
        /\ \A u \in Tasks : held[u] = k => pc[u] \in {"trim", "erase"}
  <2> SUFFICES ASSUME NEW k \in Jobs, InDlq(k)
               PROVE  /\ k \notin succeeded /\ k \notin due /\ client[k] # "new"
                      /\ \A u \in Tasks : held[u] = k => pc[u] \in {"trim", "erase"}
    OBVIOUS
  <2>1. k \notin succeeded /\ k \notin due /\ client[k] # "new"
    BY DEF Once, LifeInv, Good, JobInv, RunsInv, RunsOK, DueInv, DueOK, Final, FreshInv
  <2>2. ASSUME NEW u \in Tasks, held[u] = k
        PROVE  pc[u] \in {"trim", "erase"}
    <3>1. pc[u] # "idle"
      BY <2>2, JobQueueAssumption DEF Once, LifeInv, Good, TaskInv
    <3> QED
      BY <2>2, <3>1, HeldFacts DEF Final
  <2> QED
    BY <2>1, <2>2
<1>6. /\ \A u \in Tasks : held'[u] = held[u]
      /\ \A u \in Tasks : pc'[u] = pc[u] \/ (u = t /\ pc'[u] = "erase")
  BY <1>1, <1>2, <1>3, HandsAfter DEF Labels
<1>7. \A k \in Jobs : HeldBy(k)' = HeldBy(k)
  BY <1>6 DEF HeldBy
<1>8. ASSUME NEW k \in Jobs
      PROVE  /\ k \in S => LifePhase[k] = "dead" /\ LifePhase'[k] = "trimmed"
             /\ k \notin S => LifePhase'[k] = LifePhase[k]
  <2>1. CASE k \in S
    BY <1>1, <1>4, <1>5, <2>1 DEF LifePhase
  <2>2. CASE InDlq(k)'
    BY <1>1, <1>4, <2>2 DEF LifePhase
  <2>3. CASE ~InDlq(k)
    <3>1. ~InDlq(k)' /\ (k \in evicted' <=> k \in evicted)
      BY <1>4, <2>3
    <3> QED
      BY <1>1, <1>7, <2>3, <3>1 DEF LifePhase
  <2> QED
    BY <2>1, <2>2, <2>3
<1>9. LifePhase' = [k \in Jobs |-> IF k \in S THEN "trimmed" ELSE LifePhase[k]]
  <2>1. LifePhase' = [k \in Jobs |-> LifePhase'[k]]
    BY DEF LifePhase
  <2> QED
    BY <1>8, <2>1
<1>10. Life!Trim(S) /\ S \in SUBSET Jobs
  BY <1>1, <1>8, <1>9 DEF Life!Trim
<1>11. TrimmedInv'
  <2>1. \A k \in evicted' : /\ k \notin succeeded /\ k \notin due /\ client[k] # "new"
                            /\ \A u \in Tasks : held[u] = k => pc[u] \in {"trim", "erase"}
    BY <1>4, <1>5 DEF Once, LifeInv, TrimmedInv
  <2> QED
    BY <1>1, <1>6, <2>1 DEF TrimmedInv
<1> QED
  BY <1>3, <1>10, <1>11 DEF Lives, Life!Next

LEMMA DeleteLives == ASSUME Once, NEW t \in Tasks, DeleteJob(t) PROVE Lives
<1>1. /\ pc[t] = "erase"
      /\ UNCHANGED <<due, dlq, client, runs, succeeded, evicted>>
  BY DEF DeleteJob, Command, redisVars
<1>2. PICK j \in Jobs : j = held[t]
  BY <1>1, HeldFacts
<1>3. resent' = {} /\ GotoWith(t, "idle", att[t])
  BY <1>1, Outcome DEF DeleteJob, Labels, Goto
<1>4. Own(t, j, "idle", att[t])
  BY <1>1, <1>3, DlqUnchanged DEF Own
<1>5. TrimmedInv'
  BY <1>1, <1>2, <1>3, OverStaysOver DEF Labels, Once, LifeInv, TrimmedInv
<1>6. CASE Final(j) \/ j \in evicted
  <2>1. LifePhase'[j] = LifePhase[j]
    BY <1>1, <1>6, DlqUnchanged DEF LifePhase, Final
  <2>2. \A k \in Jobs : LifePhase'[k] = LifePhase[k]
    BY <1>2, <1>4, <2>1, OthersStay, SamePhase DEF Labels
  <2>3. LifePhase' = [k \in Jobs |-> LifePhase'[k]] /\ LifePhase = [k \in Jobs |-> LifePhase[k]]
    BY DEF LifePhase
  <2>4. LifePhase' = LifePhase
    BY <2>2, <2>3
  <2> QED
    BY <1>1, <1>3, <1>5, <2>4 DEF Lives, Life!lifeVars
<1>7. CASE ~(Final(j) \/ j \in evicted)
  <2>1. LifePhase[j] = "busy"
    BY <1>1, <1>2, <1>3, <1>7, HeldFacts, HandsAfter DEF LifePhase, Final, Labels
  <2> QED
    BY <1>1, <1>2, <1>3, <1>4, <1>5, <2>1, GivesUp DEF Lives
<1> QED
  BY <1>6, <1>7

LEMMA RequeueSaveLives == ASSUME Once, NEW t \in Tasks, RequeueSave(t) PROVE Lives
<1>1. /\ pc[t] = "save"
      /\ UNCHANGED <<due, dlq, client, runs, succeeded, evicted>>
  BY DEF RequeueSave, Command, SaveJob, redisVars
<1>2. PICK j \in Jobs : j = held[t]
  BY <1>1, HeldFacts
<1>3. LifePhase[j] = "busy" /\ j \notin evicted
  BY <1>1, <1>2, HeldFacts
<1>4. resent' = {} /\ (GotoWith(t, "add", att[t]) \/ GotoWith(t, "idle", att[t]))
  BY <1>1, Outcome DEF RequeueSave, Labels, Goto
<1>5. \A l, n : GotoWith(t, l, n) => Own(t, j, l, n)
  BY <1>1, DlqUnchanged DEF Own
<1>6. TrimmedInv'
  BY <1>1, <1>2, <1>3, <1>4, OverStaysOver DEF Labels, Once, LifeInv, TrimmedInv
<1>7. CASE GotoWith(t, "add", att[t])
  <2>1. LifePhase' = LifePhase
    BY <1>1, <1>2, <1>5, <1>7, GoesOn DEF Labels
  <2> QED
    BY <1>1, <1>4, <1>6, <2>1 DEF Lives, Life!lifeVars
<1>8. CASE GotoWith(t, "idle", att[t])
  BY <1>1, <1>2, <1>3, <1>4, <1>5, <1>6, <1>8, GivesUp DEF Lives
<1> QED
  BY <1>4, <1>7, <1>8

LEMMA RequeueAddLives == ASSUME Once, NEW t \in Tasks, RequeueAdd(t) PROVE Lives
<1>1. /\ pc[t] = "add"
      /\ UNCHANGED <<dlq, client, runs, succeeded, evicted>>
      /\ due' = due \/ due' = due \union {held[t]}
  BY DEF RequeueAdd, Command, redisVars
<1>2. PICK j \in Jobs : j = held[t]
  BY <1>1, HeldFacts
<1>3. LifePhase[j] = "busy" /\ j \notin evicted /\ ~Final(j) /\ runs[j] = att[t]
  BY <1>1, <1>2, HeldFacts DEF OwnInv, Stage
<1>4. runs[j] < MaxAttempts[j]
  BY <1>1, <1>2, <1>3, JobQueueAssumption DEF Once, LifeInv, Good, TaskInv
<1>5. resent' = {} /\ GotoWith(t, "idle", att[t])
  BY <1>1, Outcome DEF RequeueAdd, Labels, Goto
<1>6. Own(t, j, "idle", att[t])
  BY <1>1, <1>2, <1>5, DlqUnchanged DEF Own
<1>7. TrimmedInv'
  BY <1>1, <1>2, <1>3, <1>5, OverStaysOver DEF Labels, Once, LifeInv, TrimmedInv
<1>8. CASE due' = due
  BY <1>1, <1>2, <1>3, <1>5, <1>6, <1>7, <1>8, GivesUp DEF Lives
<1>9. CASE due' = due \union {j}
  <2>1. LifePhase'[j] = "ready"
    BY <1>1, <1>3, <1>9, DlqUnchanged DEF LifePhase, Final
  <2>2. Life!Move(j, "busy", "ready")
    BY <1>2, <1>3, <1>6, <2>1, OthersStay, OneMoves DEF Labels
  <2>3. Life!Retry(j)
    BY <1>1, <1>4, <2>2 DEF Life!Retry
  <2> QED
    BY <1>5, <1>7, <2>3 DEF Lives, Life!Next
<1> QED
  BY <1>1, <1>2, <1>8, <1>9

\* A killed process loses the jobs in its goroutines' hands, no other.
LEMMA KillLives == ASSUME Once, NEW p \in Procs, Kill(p) PROVE Lives
<1> DEFINE S == {k \in Jobs : LifePhase[k] = "busy" /\ HeldBy(k)' = {}}
<1>1. UNCHANGED <<due, dlq, client, runs, succeeded, evicted, resent>>
  BY DEF Kill, redisVars
<1>2. \A u \in Tasks : held'[u] = NoJob \/ (held'[u] = held[u] /\ pc'[u] = pc[u])
  BY DEF Kill
<1>3. \A k \in Jobs : /\ HeldBy(k)' \subseteq HeldBy(k)
                      /\ InDlq(k)' <=> InDlq(k)
  BY <1>1, <1>2, DlqUnchanged, JobQueueAssumption DEF HeldBy
<1>4. \A k \in Jobs : HeldBy(k) # {} => client[k] # "new"
  BY DEF HeldBy, Once, LifeInv, Good, JobInv, FreshInv
<1>5. ASSUME NEW k \in Jobs
      PROVE  LifePhase'[k] = IF k \in S THEN "lost" ELSE LifePhase[k]
  <2>1. CASE k \in S
    <3>1. k \notin succeeded /\ ~InDlq(k) /\ k \notin evicted /\ k \notin due /\ HeldBy(k) # {}
      BY <2>1 DEF LifePhase
    <3> QED
      BY <1>1, <1>3, <1>4, <2>1, <3>1 DEF LifePhase
  <2>2. CASE LifePhase[k] # "busy"
    BY <1>1, <1>3, <2>2 DEF LifePhase
  <2>3. CASE HeldBy(k)' # {}
    BY <1>1, <1>3, <2>3 DEF LifePhase
  <2> QED
    BY <2>1, <2>2, <2>3
<1>6. LifePhase' = [k \in Jobs |-> IF k \in S THEN "lost" ELSE LifePhase[k]]
  <2>1. LifePhase' = [k \in Jobs |-> LifePhase'[k]]
    BY DEF LifePhase
  <2> QED
    BY <1>5, <2>1
<1>7. Life!Lose(S) /\ S \in SUBSET Jobs
  BY <1>1, <1>6 DEF Life!Lose
<1>8. TrimmedInv'
  <2>1. TrimmedInv /\ NoJob \notin evicted
    BY JobQueueAssumption DEF Once, LifeInv, Good, TypeOK
  <2>2. ASSUME NEW k \in evicted, NEW u \in Tasks, held'[u] = k
        PROVE  pc'[u] \in {"trim", "erase"}
    <3>1. held'[u] = held[u] /\ pc'[u] = pc[u]
      BY <1>2, <2>1, <2>2
    <3> QED
      BY <2>1, <2>2, <3>1 DEF TrimmedInv
  <2> QED
    BY <1>1, <2>1, <2>2 DEF TrimmedInv
<1> QED
  BY <1>1, <1>7, <1>8 DEF Lives, Life!Next, Once, LifeInv

-----------------------------------------------------------------------------
(* The theorem.                                                            *)

LEMMA StepLives == Once /\ [Next]_vars => Lives
<1> SUFFICES ASSUME Once, [Next]_vars
             PROVE  Lives
  OBVIOUS
<1>1. ASSUME NEW t \in Tasks, ProcessJob(t)
      PROVE  Lives
  BY <1>1, LoadLives, MarkLives, SucceedLives, FailLives, PushLives, TrimLives, DeleteLives,
     RequeueSaveLives, RequeueAddLives DEF ProcessJob
<1>2. ASSUME NEW p \in Procs, Shutdown(p) \/ Restart(p)
      PROVE  Lives
  BY <1>2, NothingMoves DEF Shutdown, Restart, redisVars, taskVars, historyVars
<1>3. Tick \/ UNCHANGED vars => Lives
  BY NothingMoves DEF Tick, vars, redisVars, taskVars, historyVars
<1> QED
  BY <1>1, <1>2, <1>3, EnqueueLives, PollLives, KillLives DEF Next, Crash, ExitDrained, ExitTimedOut

LEMMA InitLives == Init => LifeInv /\ Life!Init
<1> SUFFICES ASSUME Init
             PROVE  LifeInv /\ Life!Init
  OBVIOUS
<1>1. Good
  BY InitIInv DEF IInv, Good, JobInv
<1>2. resent = {} /\ TrimmedInv
  BY DEF Init, TrimmedInv
<1>3. \A j \in Jobs : LifePhase[j] = "new"
  BY JobQueueAssumption DEF Init, LifePhase, InDlq, HeldBy
<1>4. LifePhase = [j \in Jobs |-> "new"]
  BY <1>3 DEF LifePhase
<1> QED
  BY <1>1, <1>2, <1>4 DEF LifeInv, Life!Init, Init

\* With a client that sends each command once, whatever Redis, the workers and
\* their processes do, every job lives the life JobLifecycle describes.
THEOREM QueueImplementsLifecycle ==
    ASSUME MaxResends = 0
    PROVE  Spec => ImplementsLifecycle
<1>1. Init => LifeInv /\ Life!Init
  BY InitLives
<1>2. LifeInv /\ [Next]_vars => LifeInv' /\ [Life!Next]_(Life!lifeVars)
  BY GoodStep, StepLives DEF Once, LifeInv, Lives
<1> QED
  BY <1>1, <1>2, PTL DEF Spec, ImplementsLifecycle, Life!Spec
=============================================================================
