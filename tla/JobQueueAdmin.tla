---------------------------- MODULE JobQueueAdmin ----------------------------
(***************************************************************************)
(* The queue of JobQueue together with administrators that retry jobs      *)
(* (POST /api/v1/admin/jobs/:id/retry): AdminRetryJob first looks for a    *)
(* dead-letter snapshot to replay and otherwise requeues the job key.  It  *)
(* reads and then writes, with no lock shared with the worker.             *)
(***************************************************************************)
EXTENDS JobQueue

CONSTANTS
    Admins,         \* concurrent AdminRetryJob requests
    MaxRetries      \* bound: AdminRetryJob requests

ASSUME AdminAssumption ==
    /\ MaxRetries \in Nat
    /\ \A j \in Jobs : (MaxRetries + 1) * MaxAttempts[j] <= MaxRuns    \* every dispatch counts

VARIABLES
    apc,        \* next command of each request
    target,     \* the job id it was given
    found,      \* the snapshot LRANGE returned for that id
    retries,    \* requests started
    base,       \* history: runs of a job when an administrator last reset it
    raced,      \* history: jobs an administrator wrote while they were in use
    overrun     \* history: jobs taken off the dead-letter list before their worker
                \* had deleted the key

seenByAdmins == <<base, raced, overrun>>
adminVars == <<apc, target, found, retries, seenByAdmins>>
allVars == <<vars, adminVars>>

NoSnapshot == [job |-> NoJob, stamp |-> 0]

AdminTypeOK ==
    /\ TypeOK
    /\ apc \in [Admins -> {"idle", "range", "replay", "load", "save", "add"}]
    /\ target \in [Admins -> Jobs \union {NoJob}]
    /\ found \in [Admins -> Snapshot \union {NoSnapshot}]
    /\ retries \in Nat
    /\ base \in [Jobs -> Nat]
    /\ raced \subseteq Jobs
    /\ overrun \subseteq Jobs

AdminInit ==
    /\ Init
    /\ apc = [a \in Admins |-> "idle"]
    /\ target = [a \in Admins |-> NoJob]
    /\ found = [a \in Admins |-> NoSnapshot]
    /\ retries = 0
    /\ base = [j \in Jobs |-> 0]
    /\ raced = {}
    /\ overrun = {}

-----------------------------------------------------------------------------

AdminGoto(a, l) ==
    /\ apc' = [apc EXCEPT ![a] = l]
    /\ target' = IF l = "idle" THEN [target EXCEPT ![a] = NoJob] ELSE target
    /\ found' = IF l = "replay" THEN found ELSE [found EXCEPT ![a] = NoSnapshot]

\* The job is scheduled, in a goroutine's hands, or being retried by another.
InUse(a) ==
    \/ HeldBy(target[a]) # {}
    \/ target[a] \in due
    \/ \E b \in Admins \ {a} : target[b] = target[a]

\* A writing command of request a, with the outcomes of JobQueue's Command.
AdminCommand(a, written, skipped, ok) ==
    /\ \/ written /\ AdminGoto(a, ok) /\ Answered
       \/ (written \/ skipped) /\ AdminGoto(a, "idle") /\ Failed(target[a])
       \/ written /\ UNCHANGED <<apc, target, found>> /\ SentAgain(target[a])
    /\ raced' = IF InUse(a) THEN raced \union {target[a]} ELSE raced
    /\ UNCHANGED <<retries, client, taskVars, proc, stops, runs, succeeded, evicted, dropped>>

AdminRetryJob(a, j) ==
    /\ apc[a] = "idle"
    /\ retries < MaxRetries
    /\ retries' = retries + 1
    /\ apc' = [apc EXCEPT ![a] = "range"]
    /\ target' = [target EXCEPT ![a] = j]
    /\ UNCHANGED <<vars, found, seenByAdmins>>

\* LRANGE 0 -1: the newest snapshot of the id, if there is one.
FindSnapshot(a) ==
    /\ apc[a] = "range"
    /\ LET hits == {i \in 1..Len(dlq) : dlq[i].job = target[a]}
           newest == CHOOSE i \in hits : \A k \in hits : i <= k
       IN  \/ /\ hits # {}
              /\ apc' = [apc EXCEPT ![a] = "replay"]
              /\ found' = [found EXCEPT ![a] = dlq[newest]]
              /\ UNCHANGED target
              /\ Answered
           \/ hits = {} /\ AdminGoto(a, "load") /\ Answered
           \/ AdminGoto(a, "idle") /\ Failed(target[a])
    /\ UNCHANGED <<redisVars, client, taskVars, proc, stops, runs, succeeded, evicted, dropped,
                   retries, seenByAdmins>>

\* LREM key 1 raw: the first element equal to the snapshot, if any is left.
Remove(s, x) ==
    LET hits == {i \in 1..Len(s) : s[i] = x}
        first == CHOOSE i \in hits : \A k \in hits : i <= k
    IN  IF hits = {} THEN s
        ELSE SubSeq(s, 1, first - 1) \o SubSeq(s, first + 1, Len(s))

\* MULTI: LREM, SET with attempts reset, ZADD now.
Replay(a, envelopes) ==
    /\ dlq' = Remove(dlq, found[a])
    /\ store' = envelopes
    /\ due' = due \union {target[a]}
    /\ wait' = [wait EXCEPT ![target[a]] = 0]

ReplayedSpent(a) ==                                                     \* mutant
    Replay(a, [store EXCEPT ![target[a]] = Queued(MaxAttempts[target[a]])])
ReplayedUnsaved(a) == Replay(a, store)                                  \* mutant
Replayed(a) == Replay(a, [store EXCEPT ![target[a]] = Queued(0)])

\* failJob has put the snapshot on the list and will delete the key.
Erasing(j) == \E t \in HeldBy(j) : pc[t] \in {"trim", "erase"}

\* The number of elements LREM removed is not looked at.
ReplayDeadLetter(a) ==
    /\ apc[a] = "replay"
    /\ LET j == target[a] IN
          /\ AdminCommand(a, Replayed(a), UNCHANGED redisVars, "idle")
          /\ base' = IF store' = store /\ dlq' = dlq THEN base
                     ELSE [base EXCEPT ![j] = runs[j]]
          /\ overrun' = IF dlq' # dlq /\ Erasing(j) THEN overrun \union {j} ELSE overrun

AdminLoad(a) ==
    /\ apc[a] = "load"
    /\ \/ store[target[a]] = Absent /\ AdminGoto(a, "idle") /\ Answered
       \/ store[target[a]] # Absent /\ AdminGoto(a, "save") /\ Answered
       \/ AdminGoto(a, "idle") /\ Failed(target[a])
    /\ UNCHANGED <<redisVars, client, taskVars, proc, stops, runs, succeeded, evicted, dropped,
                   retries, seenByAdmins>>

\* Requeue of the envelope read before, attempts reset: SET, then ZADD now.
AdminSave(a) ==
    /\ apc[a] = "save"
    /\ AdminCommand(a, SaveJob(target[a], "queued", 0), UNCHANGED redisVars, "add")
    /\ base' = IF store'[target[a]] = Queued(0) THEN [base EXCEPT ![target[a]] = runs[target[a]]]
               ELSE base
    /\ UNCHANGED overrun

AdminAdd(a) ==
    /\ apc[a] = "add"
    /\ AdminCommand(a,
          /\ due' = due \union {target[a]}
          /\ wait' = [wait EXCEPT ![target[a]] = 0]
          /\ UNCHANGED <<store, dlq>>,
          UNCHANGED redisVars, "idle")
    /\ UNCHANGED <<base, overrun>>

AdminStep(a) ==
    \/ \E j \in Jobs : AdminRetryJob(a, j)
    \/ FindSnapshot(a)
    \/ ReplayDeadLetter(a)
    \/ AdminLoad(a)
    \/ AdminSave(a)
    \/ AdminAdd(a)

AdminNext ==
    \/ Next /\ UNCHANGED adminVars
    \/ \E a \in Admins : AdminStep(a)

AdminSpec == AdminInit /\ [][AdminNext]_allVars

-----------------------------------------------------------------------------

\* Whatever administrators retry, together or while the job is scheduled, running
\* or failing, and whatever is lost on the way to Redis: an accepted job is run to
\* success, or its key, a dead-letter snapshot or the eviction of one is there.
\* Only a snapshot replayed before its worker has deleted the key takes the job
\* with it: the DEL then hits the key that the replay restored.
RetriesLoseNothing ==
    \A j \in Jobs \ overrun : client[j] = "accepted" =>
        \/ store[j] # Absent
        \/ InDlq(j)
        \/ j \in succeeded \union evicted \union dropped

\* Jobs no administrator wrote while they were scheduled, running or being retried
\* by someone else.
Calm == Jobs \ (resent \union raced)

\* A retry grants exactly one fresh budget: since the last one the handler was
\* dispatched at most MaxAttempts times, all of them counted in the envelope.
RetryBudget ==
    \A j \in Calm :
        /\ runs[j] - base[j] <= MaxAttempts[j]
        /\ j \in due => store[j].attempts = runs[j] - base[j]

=============================================================================
