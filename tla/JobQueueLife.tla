---------------------------- MODULE JobQueueLife ----------------------------
(* JobQueue implements JobLifecycle as long as no command is sent twice.     *)
EXTENDS JobQueueInv

\* The refinement mapping: the life of a job is spread over Redis, the
\* goroutines and the caller of Enqueue.
LifePhase ==
    [j \in Jobs |->
        IF j \in succeeded THEN "succeeded"
        ELSE IF InDlq(j) THEN "dead"
        ELSE IF j \in evicted THEN "trimmed"
        ELSE IF j \in due THEN "ready"
        ELSE IF HeldBy(j) # {} THEN "busy"
        ELSE IF client[j] = "new" THEN "new"
        ELSE "lost"]

Life == INSTANCE JobLifecycle WITH Hopeless <- UnknownJobs, phase <- LifePhase, tries <- runs

\* Whatever the workers, crashes, drains and Redis errors do, each job lives the
\* life the queue promises: run by one worker at a time, buried only when its
\* budget is used up, never run again once it succeeded or was buried.
ImplementsLifecycle == Life!Spec
=============================================================================
