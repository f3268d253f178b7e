------------------------------ MODULE JobQueue ------------------------------
(***************************************************************************)
(* The Redis-backed background queue of the Go API: RedisQueue.Enqueue,    *)
(* the worker processes that poll it, and the goroutine that carries each  *)
(* popped job through load, handler, retry and dead letter.                *)
(*                                                                         *)
(* Redis keeps three structures: the job keys ("store"), the sorted set of *)
(* due job ids ("due" with its scores in "wait") and the dead-letter list  *)
(* ("dlq").  A step is one Redis command, the only thing two goroutines    *)
(* can interleave on.  Each command may succeed, fail before or after it   *)
(* was applied, or be applied and sent again by the client (go-redis       *)
(* repeats a command whose reply it did not get; initializers.go leaves    *)
(* its MaxRetries at the default).                                         *)
(***************************************************************************)
EXTENDS Integers, Sequences, FiniteSets

CONSTANTS
    Jobs,           \* job ids: each is a uuid, enqueued at most once
    Tasks,          \* slots for processJob goroutines (the code has no limit)
    Procs,          \* worker processes
    Host,           \* Host[t] is the process task t runs in
    UnknownJobs,    \* jobs whose type no handler is registered for
    MaxAttempts,    \* MaxAttempts[j]: the envelope's attempt budget
    Backoff,        \* Backoff[n]: clock units between attempt n and n+1
    DeadLetterCap,  \* cfg.Queue.DeadLetterMaxCap
    MaxLag,         \* bound: lateness beyond which scores are not told apart
    MaxFaults,      \* bound: Redis commands that return an error
    MaxResends,     \* bound: Redis commands the client sends twice
    MaxStops,       \* bound: crashes and shutdowns of worker processes
    MaxRuns,        \* bound: dispatches of a job that are counted
    NoJob

ASSUME JobQueueAssumption ==
    /\ NoJob \notin Jobs
    /\ UnknownJobs \subseteq Jobs
    /\ Host \in [Tasks -> Procs]
    /\ MaxAttempts \in [Jobs -> Nat \ {0}]
    /\ \A j \in Jobs : \A n \in 1..MaxAttempts[j] : Backoff[n] \in Nat
    /\ DeadLetterCap \in Nat \ {0}
    /\ MaxLag \in Nat /\ MaxFaults \in Nat /\ MaxResends \in Nat
    /\ MaxStops \in Nat /\ MaxRuns \in Nat
    /\ \A j \in Jobs : MaxAttempts[j] < MaxRuns

VARIABLES
    store,      \* queue:v1:job:{id}: the envelope, or Absent
    due,        \* members of the sorted set queue:v1:due
    wait,       \* score of a due job minus the clock
    dlq,        \* queue:v1:dlq, newest snapshot first
    client,     \* what the caller of Enqueue knows about its job
    pc,         \* next command of each processJob goroutine
    held,       \* the job the goroutine popped
    att,        \* job.Attempts in the goroutine's copy of the envelope
    proc,       \* worker process: "up", "draining" or "down"
    faults, resends, stops,     \* how much of each bound is used
    runs,       \* history: how often each job's handler was dispatched
    succeeded,  \* history: jobs whose handler returned nil
    disturbed,  \* history: jobs hit by a Redis error or a killed goroutine
    resent,     \* history: jobs of which a command was sent twice
    evicted,    \* history: jobs of which LTRIM cut a snapshot
    dropped     \* history: jobs whose dead-letter push failed, nothing written

redisVars   == <<store, due, wait, dlq>>
taskVars    == <<pc, held, att>>
budgetVars  == <<faults, resends, stops>>
historyVars == <<runs, succeeded, disturbed, resent, evicted, dropped>>
vars == <<redisVars, client, taskVars, proc, budgetVars, historyVars>>

-----------------------------------------------------------------------------

Absent == [status |-> "absent", attempts |-> 0]

\* The fields of the JSON envelope that decide anything.  StatusSucceeded and
\* StatusFailed are never stored; StatusDeadLetter only appears in snapshots.
Envelope == [status : {"queued", "running"}, attempts : Nat]

\* A dead-letter snapshot; the run count stands for its updated_at stamp.
Snapshot == [job : Jobs, stamp : Nat]

Labels == {"idle", "load", "mark", "run", "push", "trim", "erase", "save", "add"}

TypeOK ==
    /\ store \in [Jobs -> Envelope \union {Absent}]
    /\ due \subseteq Jobs
    /\ wait \in [Jobs -> Int]
    /\ dlq \in Seq(Snapshot)
    /\ client \in [Jobs -> {"new", "sending", "accepted", "failed"}]
    /\ pc \in [Tasks -> Labels]
    /\ held \in [Tasks -> Jobs \union {NoJob}]
    /\ att \in [Tasks -> Nat]
    /\ proc \in [Procs -> {"up", "draining", "down"}]
    /\ faults \in Nat /\ resends \in Nat /\ stops \in Nat
    /\ runs \in [Jobs -> Nat]
    /\ succeeded \subseteq Jobs
    /\ disturbed \subseteq Jobs
    /\ resent \subseteq Jobs
    /\ evicted \subseteq Jobs
    /\ dropped \subseteq Jobs

InDlq(j) == \E i \in 1..Len(dlq) : dlq[i].job = j

Init ==
    /\ store = [j \in Jobs |-> Absent]
    /\ due = {}
    /\ wait = [j \in Jobs |-> 0]
    /\ dlq = <<>>
    /\ client = [j \in Jobs |-> "new"]
    /\ pc = [t \in Tasks |-> "idle"]
    /\ held = [t \in Tasks |-> NoJob]
    /\ att = [t \in Tasks |-> 0]
    /\ proc = [p \in Procs |-> "up"]
    /\ faults = 0 /\ resends = 0 /\ stops = 0
    /\ runs = [j \in Jobs |-> 0]
    /\ succeeded = {} /\ disturbed = {} /\ resent = {}
    /\ evicted = {} /\ dropped = {}

-----------------------------------------------------------------------------
(* How a command about job j can end besides returning its result.         *)

Answered == UNCHANGED <<faults, resends, disturbed, resent>>

Failed(j) ==
    /\ faults < MaxFaults
    /\ faults' = faults + 1
    /\ disturbed' = disturbed \union {j}
    /\ UNCHANGED <<resends, resent>>

SentAgain(j) ==
    /\ resends < MaxResends
    /\ resends' = resends + 1
    /\ resent' = resent \union {j}
    /\ UNCHANGED <<faults, disturbed>>

\* The goroutine goes to label l with n attempts in its copy; returning from
\* processJob frees the slot.
GotoWith(t, l, n) ==
    /\ pc' = [pc EXCEPT ![t] = l]
    /\ held' = IF l = "idle" THEN [held EXCEPT ![t] = NoJob] ELSE held
    /\ att' = [att EXCEPT ![t] = IF l = "idle" THEN 0 ELSE n]

Goto(t, l) == GotoWith(t, l, att[t])

\* Task t executes a writing command: "written" is its effect on Redis,
\* "skipped" the absence of one; the code goes on at ok or at err.
Command(t, written, skipped, ok, err) ==
    \/ written /\ Goto(t, ok) /\ Answered
    \/ (written \/ skipped) /\ Goto(t, err) /\ Failed(held[t])
    \/ written /\ UNCHANGED taskVars /\ SentAgain(held[t])

-----------------------------------------------------------------------------
(* The caller of Enqueue: SET and ZADD in one pipeline, not a transaction. *)

Queued(n) == [status |-> "queued", attempts |-> n]

Pipeline(j, set, add) ==
    /\ store' = IF set THEN [store EXCEPT ![j] = Queued(0)] ELSE store
    /\ due' = IF add THEN due \union {j} ELSE due
    /\ wait' = IF add THEN [wait EXCEPT ![j] = 0] ELSE wait
    /\ UNCHANGED dlq

Enqueue(j) ==
    /\ client[j] \in {"new", "sending"}
    /\ \/ /\ Pipeline(j, TRUE, TRUE)
          /\ client' = [client EXCEPT ![j] = "accepted"]
          /\ Answered
       \/ /\ \/ Pipeline(j, FALSE, FALSE)
             \/ Pipeline(j, TRUE, FALSE)
             \/ Pipeline(j, TRUE, TRUE)
          /\ client' = [client EXCEPT ![j] = "failed"]
          /\ Failed(j)
       \/ /\ Pipeline(j, TRUE, FALSE) \/ Pipeline(j, TRUE, TRUE)
          /\ client' = [client EXCEPT ![j] = "sending"]
          /\ SentAgain(j)
    /\ UNCHANGED <<taskVars, proc, stops, runs, succeeded, evicted, dropped>>

\* One unit of time passes while some score still matters.
Tick ==
    /\ \E j \in due : wait[j] > -MaxLag
    /\ wait' = [j \in Jobs |-> IF j \in due /\ wait[j] > -MaxLag
                               THEN wait[j] - 1 ELSE wait[j]]
    /\ UNCHANGED <<store, due, dlq, client, taskVars, proc, budgetVars, historyVars>>

-----------------------------------------------------------------------------
(* The worker: pollOnce and processJob.                                    *)

\* ZRANGEBYSCORE -inf now LIMIT 0 1 followed by ZREM, in one script.
Earliest(j) == j \in due /\ wait[j] <= 0 /\ \A k \in due : wait[j] <= wait[k]

PollOnce(t) ==
    /\ proc[Host[t]] = "up"
    /\ pc[t] = "idle"
    /\ \E j \in Jobs :
          /\ Earliest(j)
          /\ due' = due \ {j}
          /\ wait' = [wait EXCEPT ![j] = 0]
          /\ \/ /\ pc' = [pc EXCEPT ![t] = "load"]
                /\ held' = [held EXCEPT ![t] = j]
                /\ UNCHANGED att
                /\ Answered
             \/ /\ UNCHANGED taskVars       \* popped, but the reply is lost
                /\ Failed(j)
    /\ UNCHANGED <<store, dlq, client, proc, stops, runs, succeeded, evicted, dropped>>

LoadJob(t) ==
    /\ pc[t] = "load"
    /\ LET j == held[t] IN
          \/ /\ store[j] = Absent
             /\ Goto(t, "idle")
             /\ Answered
          \/ /\ store[j] # Absent
             /\ GotoWith(t, "mark", store[j].attempts)
             /\ Answered
          \/ Goto(t, "idle") /\ Failed(j)
    /\ UNCHANGED <<redisVars, client, proc, stops, runs, succeeded, evicted, dropped>>

\* Mutant: saving an envelope also puts it on the schedule.
SaveJobScheduled(j, status, n) ==
    /\ store' = [store EXCEPT ![j] = [status |-> status, attempts |-> n]]
    /\ due' = due \union {j}
    /\ UNCHANGED <<wait, dlq>>

\* SET of the goroutine's copy of the envelope.
SaveJob(j, status, n) ==
    /\ store' = [store EXCEPT ![j] = [status |-> status, attempts |-> n]]
    /\ UNCHANGED <<due, wait, dlq>>

\* Persist StatusRunning; once it is acknowledged the handler starts.
MarkRunning(t) ==
    /\ pc[t] = "mark"
    /\ Command(t, SaveJob(held[t], "running", att[t]), UNCHANGED redisVars, "run", "idle")
    /\ runs' = IF pc'[t] = "run" /\ runs[held[t]] < MaxRuns
               THEN [runs EXCEPT ![held[t]] = @ + 1] ELSE runs
    /\ UNCHANGED <<client, proc, stops, succeeded, evicted, dropped>>

\* Mutant: no return after the success branch.
HandlerSucceedsOn(t) ==
    /\ pc[t] = "run"
    /\ held[t] \notin UnknownJobs
    /\ succeeded' = succeeded \union {held[t]}
    /\ GotoWith(t, "save", att[t] + 1)
    /\ UNCHANGED <<redisVars, client, proc, budgetVars, runs, disturbed, resent, evicted, dropped>>

HandlerSucceeds(t) ==
    /\ pc[t] = "run"
    /\ held[t] \notin UnknownJobs
    /\ succeeded' = succeeded \union {held[t]}
    /\ Goto(t, "erase")
    /\ UNCHANGED <<redisVars, client, proc, budgetVars, runs, disturbed, resent, evicted, dropped>>

\* No attempt is left after n of them, or none would help.
TerminalLate(j, n) == n > MaxAttempts[j] \/ j \in UnknownJobs      \* mutant
TerminalEarly(j, n) == n + 1 >= MaxAttempts[j] \/ j \in UnknownJobs \* mutant
Terminal(j, n) == n >= MaxAttempts[j] \/ j \in UnknownJobs

\* failJob up to its first command: count the attempt, decide on the outcome.
HandlerFails(t) ==
    /\ pc[t] = "run"
    /\ LET n == att[t] + 1
       IN  GotoWith(t, IF Terminal(held[t], n) THEN "push" ELSE "save", n)
    /\ UNCHANGED <<redisVars, client, proc, budgetVars, historyVars>>

\* LPUSH of the snapshot.  An error skips LTRIM, is logged, and the job key is
\* deleted all the same.
PushDeadLetter(t) ==
    /\ pc[t] = "push"
    /\ Command(t,
               /\ dlq' = <<[job |-> held[t], stamp |-> runs[held[t]]]>> \o dlq
               /\ UNCHANGED <<store, due, wait>>,
               UNCHANGED redisVars, "trim", "erase")
    /\ dropped' = IF dlq' = dlq THEN dropped \union {held[t]} ELSE dropped
    /\ UNCHANGED <<client, proc, stops, runs, succeeded, evicted>>

\* Mutant: the oldest are kept.
KeptOldest ==
    IF Len(dlq) > DeadLetterCap THEN SubSeq(dlq, Len(dlq) - DeadLetterCap + 1, Len(dlq)) ELSE dlq
Kept == IF Len(dlq) > DeadLetterCap THEN SubSeq(dlq, 1, DeadLetterCap) ELSE dlq

TrimDeadLetter(t) ==
    /\ pc[t] = "trim"
    /\ Command(t, dlq' = Kept /\ UNCHANGED <<store, due, wait>>,
               UNCHANGED redisVars, "erase", "erase")
    /\ evicted' = IF dlq' = dlq THEN evicted
                  ELSE evicted \union {dlq[i].job : i \in DeadLetterCap + 1 .. Len(dlq)}
    /\ UNCHANGED <<client, proc, stops, runs, succeeded, dropped>>

\* DEL of the job key, after success and after dead-lettering alike.
DeleteJob(t) ==
    /\ pc[t] = "erase"
    /\ Command(t, store' = [store EXCEPT ![held[t]] = Absent] /\ UNCHANGED <<due, wait, dlq>>,
               UNCHANGED redisVars, "idle", "idle")
    /\ UNCHANGED <<client, proc, stops, runs, succeeded, evicted, dropped>>

\* Requeue: SET, then a separate ZADD at now + delay.
RequeueSave(t) ==
    /\ pc[t] = "save"
    /\ Command(t, SaveJob(held[t], "queued", att[t]), UNCHANGED redisVars, "add", "idle")
    /\ UNCHANGED <<client, proc, stops, runs, succeeded, evicted, dropped>>

\* Mutant: the ZADD of Requeue is forgotten.
RequeueAddNothing(t) ==
    /\ pc[t] = "add"
    /\ Command(t, UNCHANGED redisVars, UNCHANGED redisVars, "idle", "idle")
    /\ UNCHANGED <<client, proc, stops, runs, succeeded, evicted, dropped>>

RequeueAdd(t) ==
    /\ pc[t] = "add"
    /\ Command(t,
               /\ due' = due \union {held[t]}
               /\ wait' = [wait EXCEPT ![held[t]] = Backoff[att[t]]]
               /\ UNCHANGED <<store, dlq>>,
               UNCHANGED redisVars, "idle", "idle")
    /\ UNCHANGED <<client, proc, stops, runs, succeeded, evicted, dropped>>

ProcessJob(t) ==
    \/ LoadJob(t)
    \/ MarkRunning(t)
    \/ HandlerSucceeds(t)
    \/ HandlerFails(t)
    \/ PushDeadLetter(t)
    \/ TrimDeadLetter(t)
    \/ DeleteJob(t)
    \/ RequeueSave(t)
    \/ RequeueAdd(t)

-----------------------------------------------------------------------------
(* Worker processes: Start, shutdown, crash.                               *)

InFlight(p) == {t \in Tasks : Host[t] = p /\ pc[t] # "idle"}

\* The process is gone, and every goroutine of it with it.
Kill(p) ==
    /\ proc' = [proc EXCEPT ![p] = "down"]
    /\ pc' = [t \in Tasks |-> IF Host[t] = p THEN "idle" ELSE pc[t]]
    /\ held' = [t \in Tasks |-> IF Host[t] = p THEN NoJob ELSE held[t]]
    /\ att' = [t \in Tasks |-> IF Host[t] = p THEN 0 ELSE att[t]]
    /\ disturbed' = disturbed \union {held[t] : t \in InFlight(p)}
    /\ UNCHANGED <<redisVars, client, faults, resends, runs, succeeded, resent, evicted, dropped>>

Crash(p) ==
    /\ stops < MaxStops
    /\ stops' = stops + 1
    /\ proc[p] # "down"
    /\ Kill(p)

\* workerCancel: polling stops; the handlers see a cancelled context but their
\* Redis commands use context.WithoutCancel.
Shutdown(p) ==
    /\ stops < MaxStops
    /\ stops' = stops + 1
    /\ proc[p] = "up"
    /\ proc' = [proc EXCEPT ![p] = "draining"]
    /\ UNCHANGED <<redisVars, client, taskVars, faults, resends, historyVars>>

\* Start returns when procWG is empty or ShutdownTimeout has passed; run.go
\* then closes Redis and exits.
ExitDrained(p) ==
    /\ proc[p] = "draining"
    /\ InFlight(p) = {}
    /\ Kill(p)
    /\ UNCHANGED stops

ExitTimedOut(p) ==
    /\ proc[p] = "draining"
    /\ InFlight(p) # {}
    /\ Kill(p)
    /\ UNCHANGED stops

Restart(p) ==
    /\ proc[p] = "down"
    /\ proc' = [proc EXCEPT ![p] = "up"]
    /\ UNCHANGED <<redisVars, client, taskVars, budgetVars, historyVars>>

Next ==
    \/ \E j \in Jobs : Enqueue(j)
    \/ Tick
    \/ \E t \in Tasks : PollOnce(t) \/ ProcessJob(t)
    \/ \E p \in Procs : \/ Crash(p)
                        \/ Shutdown(p)
                        \/ ExitDrained(p)
                        \/ ExitTimedOut(p)
                        \/ Restart(p)

Spec == Init /\ [][Next]_vars

\* Goroutines are scheduled, tickers fire, handlers return (each is bounded by
\* an SMTP or HTTP timeout), and a stopped process is started again.
Fairness ==
    /\ WF_vars(Tick)
    /\ \A t \in Tasks : WF_vars(PollOnce(t)) /\ WF_vars(ProcessJob(t))
    /\ \A p \in Procs : WF_vars(Restart(p)) /\ WF_vars(ExitDrained(p) \/ ExitTimedOut(p))

FairSpec == Spec /\ Fairness

-----------------------------------------------------------------------------
(* Safety.  Each property says what a command sent twice may break, and so  *)
(* is claimed for the jobs that had none.                                   *)

HeldBy(j) == {t \in Tasks : held[t] = j}

\* Popping moves a job from the schedule to one goroutine: no two goroutines,
\* of one process or of two, work on the same job, and a job being worked on is
\* not scheduled, whatever fails or crashes (popDueScript, failJob).
Exclusive ==
    \A j \in Jobs \ resent :
        /\ \A t, u \in HeldBy(j) : t = u
        /\ j \in due => HeldBy(j) = {}

\* A job whose Enqueue returned nil is never silently gone: it succeeded, or its
\* key or a snapshot still exists, or the trim cut it, or the push that should
\* have saved it failed (failJob ignores that error and deletes the key).
Recoverable ==
    \A j \in Jobs : client[j] = "accepted" =>
        \/ j \in succeeded
        \/ store[j] # Absent
        \/ InDlq(j)
        \/ j \in evicted \union dropped

\* Every scheduled id has its envelope, so that a poll is never wasted on an id
\* LoadJob cannot find: SET precedes ZADD in Enqueue and in Requeue.
DueIsBacked ==
    \A j \in due \ resent : store[j] # Absent

\* The attempt budget holds across processes, restarts and failed commands: a
\* handler is dispatched at most MaxAttempts times, and a scheduled job has
\* counted all its dispatches and has one left.
BudgetRespected ==
    \A j \in Jobs \ resent :
        /\ runs[j] <= MaxAttempts[j]
        /\ j \in due => runs[j] = store[j].attempts /\ runs[j] < MaxAttempts[j]

\* A snapshot in the dead-letter list means the job used its whole budget, or
\* has no handler, and never succeeded.
DeadMeansExhausted ==
    \A j \in Jobs \ resent : InDlq(j) =>
        /\ runs[j] = MaxAttempts[j] \/ j \in UnknownJobs
        /\ j \notin succeeded

\* Only an error or a killed process strands a job: otherwise one whose key
\* exists is scheduled or in a goroutine's hands.
NotStranded ==
    \A j \in Jobs \ disturbed :
        store[j] # Absent => \/ j \in due
                             \/ HeldBy(j) # {}
                             \/ client[j] = "sending"

\* Success is final: the handler of a job that returned nil is not dispatched
\* again, nor does the job reach the dead-letter list.
SuccessIsFinal ==
    [][\A j \in succeeded \ resent' : runs'[j] = runs[j] /\ ~InDlq(j)']_vars

\* Every accepted job that no error and no kill disturbs is run to success or
\* to the dead-letter list, through retries, other jobs' faults, and crashes,
\* drains and restarts of the worker processes.
Finishes ==
    \A j \in Jobs : client[j] = "accepted" ~>
        j \in succeeded \union evicted \union disturbed \union resent \/ InDlq(j)

-----------------------------------------------------------------------------

\* What the documentation says: "retries, scheduling via Redis sorted sets, and
\* dead-letter capture after max attempts".  A job that used up its attempts in
\* vain and that nothing will run any more has a snapshot, unless trimmed.
DeadLetterCaptured ==
    \A j \in Jobs :
        /\ runs[j] >= MaxAttempts[j] /\ j \notin succeeded
        /\ store[j] = Absent /\ HeldBy(j) = {}
        => InDlq(j) \/ j \in evicted

=============================================================================
