---------------------------- MODULE JobLifecycle ----------------------------
(***************************************************************************)
(* What the background queue promises whoever enqueues a job, without      *)
(* Redis, goroutines or processes: a job waits, is run by one worker at a  *)
(* time, comes back at most as often as its budget allows, and ends for    *)
(* good, or is lost.  JobQueueLife shows that JobQueue implements it;      *)
(* WebhookDelivery is built on it.                                         *)
(***************************************************************************)
EXTENDS Naturals

CONSTANTS
    Jobs,
    Hopeless,       \* jobs no handler exists for
    MaxAttempts     \* MaxAttempts[j]: dispatches job j is allowed

VARIABLES
    phase,      \* where each job is in its life
    tries       \* how often its handler was dispatched

lifeVars == <<phase, tries>>

Phases == {"new", "ready", "busy", "succeeded", "dead", "trimmed", "lost"}

Init ==
    /\ phase = [j \in Jobs |-> "new"]
    /\ tries = [j \in Jobs |-> 0]

Move(j, from, to) ==
    /\ phase[j] = from
    /\ phase' = [phase EXCEPT ![j] = to]

Submit(j) == Move(j, "new", "ready") /\ UNCHANGED tries

Pop(j) == Move(j, "ready", "busy") /\ UNCHANGED tries

Dispatch(j) ==
    /\ phase[j] = "busy"
    /\ tries[j] < MaxAttempts[j]
    /\ tries' = [tries EXCEPT ![j] = @ + 1]
    /\ UNCHANGED phase

Succeed(j) == tries[j] > 0 /\ Move(j, "busy", "succeeded") /\ UNCHANGED tries

Retry(j) ==
    /\ tries[j] < MaxAttempts[j]
    /\ Move(j, "busy", "ready")
    /\ UNCHANGED tries

Bury(j) ==
    /\ tries[j] = MaxAttempts[j] \/ j \in Hopeless
    /\ Move(j, "busy", "dead")
    /\ UNCHANGED tries

\* The dead-letter list forgets its oldest snapshots.
Trim(S) ==
    /\ \A j \in S : phase[j] = "dead"
    /\ phase' = [j \in Jobs |-> IF j \in S THEN "trimmed" ELSE phase[j]]
    /\ UNCHANGED tries

\* Errors and killed processes lose jobs without an outcome; nothing else.
Lose(S) ==
    /\ \A j \in S : phase[j] \in {"new", "ready", "busy"}
    /\ phase' = [j \in Jobs |-> IF j \in S THEN "lost" ELSE phase[j]]
    /\ UNCHANGED tries

Next ==
    \/ \E j \in Jobs :
          Submit(j) \/ Pop(j) \/ Dispatch(j) \/ Succeed(j) \/ Retry(j) \/ Bury(j)
    \/ \E S \in SUBSET Jobs : Trim(S) \/ Lose(S)

Spec == Init /\ [][Next]_lifeVars
=============================================================================
