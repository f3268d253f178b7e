----------------------------- MODULE JobQueueInv -----------------------------
(***************************************************************************)
(* The inductive invariant of JobQueue: what each goroutine's position in  *)
(* processJob says about Redis.  It strengthens the safety properties, is  *)
(* checked by TLC and proved inductive in JobQueue_proofs.                 *)
(***************************************************************************)
EXTENDS JobQueue

\* The local variables of processJob agree with its position.
TaskInv ==
    \A t \in Tasks :
        /\ held[t] = NoJob <=> pc[t] = "idle"
        /\ pc[t] \in {"save", "add"} => att[t] \in 1 .. MaxAttempts[held[t]] - 1

\* A job whose key may go: its outcome is on record.
Settled(j) == InDlq(j) \/ j \in succeeded \union evicted \union dropped

\* A goroutine that is about to delete a key, or will be after the trim, holds
\* a settled job.
EraseInv ==
    \A t \in Tasks : pc[t] \in {"trim", "erase"} => Settled(held[t])

\* Nothing exists of a job before its Enqueue.
FreshInv ==
    \A j \in Jobs : client[j] = "new" =>
        /\ j \notin due
        /\ j \notin succeeded
        /\ store[j] = Absent
        /\ runs[j] = 0
        /\ \A t \in Tasks : held[t] # j
        /\ ~InDlq(j)

Sending == \A j \in Jobs : client[j] = "sending" => j \in resent

\* A job with an outcome; InDlq and succeeded exclude each other.
Final(j) == InDlq(j) \/ j \in succeeded

DueOK(j) ==
    /\ store[j] # Absent
    /\ runs[j] = store[j].attempts
    /\ runs[j] < MaxAttempts[j]
    /\ ~Final(j)

DueInv == \A j \in due \ resent : DueOK(j)

\* What holds of the job j of a goroutine at label l whose copy has n attempts.
Stage(j, l, n) ==
    /\ l \in {"load", "mark"} =>
           /\ runs[j] = store[j].attempts
           /\ runs[j] < MaxAttempts[j]
    /\ l = "mark" => runs[j] = n
    /\ l = "run" => runs[j] = n + 1 /\ runs[j] <= MaxAttempts[j]
    /\ l = "push" => runs[j] = MaxAttempts[j] \/ j \in UnknownJobs
    /\ l \in {"push", "trim", "save", "add"} => runs[j] = n
    /\ l = "add" => store[j].attempts = n
    /\ l \notin {"trim", "erase"} => ~Final(j)
    /\ l = "trim" => j \notin succeeded

HeldInv ==
    \A t \in Tasks : held[t] \in Jobs \ resent =>
        /\ held[t] \notin due
        /\ \A u \in Tasks : held[u] = held[t] => u = t
        /\ store[held[t]] # Absent
        /\ Stage(held[t], pc[t], att[t])

RunsOK(j) ==
    /\ runs[j] <= MaxAttempts[j]
    /\ InDlq(j) => /\ runs[j] = MaxAttempts[j] \/ j \in UnknownJobs
                   /\ j \notin succeeded

RunsInv == \A j \in Jobs \ resent : RunsOK(j)

IInv ==
    /\ TypeOK
    /\ TaskInv
    /\ EraseInv
    /\ FreshInv
    /\ Sending
    /\ DueInv
    /\ HeldInv
    /\ RunsInv
    /\ Recoverable
=============================================================================
