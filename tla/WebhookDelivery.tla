--------------------------- MODULE WebhookDelivery ---------------------------
(***************************************************************************)
(* Outbound webhooks of an organization: managers create, change, rotate   *)
(* and delete subscriptions; an event creates one delivery row for each    *)
(* subscription and hands it to the queue (JobLifecycle); the handler      *)
(* posts it and writes back what became of it.  A step is one SQL          *)
(* statement, one POST or one step of the queue.  As in JobLifecycle one   *)
(* worker at a time runs a job and nobody retries a finished one by hand.  *)
(***************************************************************************)
EXTENDS Integers, FiniteSets

CONSTANTS
    Hooks,          \* subscriptions (uuids: each is created at most once)
    Events,         \* occurrences of one event type
    Admins,         \* concurrent UpdateOrganizationWebhook requests
    MaxAttempts,    \* cfg.Queue.MaxAttempts, of the rows and of their jobs
    Inline,         \* events emitted where the handler runs inside the request:
                    \* inline queue or synchronous fallback, no retries
    MaxFaults,      \* bound: statements that fail, lost jobs
    MaxUpdates,     \* bound: UpdateOrganizationWebhook requests
    NoRow

HookRows == [enabled : BOOLEAN, subscribed : BOOLEAN, key : Nat, version : Nat]

Rows == [status : {"pending", "delivered", "failed"}, attempts : Nat,
         error : {"none", "attempt", "disabled", "secret"}]

ASSUME WebhookAssumption ==
    /\ MaxAttempts \in Nat \ {0}
    /\ Inline \subseteq Events
    /\ MaxFaults \in Nat /\ MaxUpdates \in Nat
    /\ NoRow \notin HookRows \union Rows

Deliveries == Events \X Hooks

VARIABLES
    hooks,      \* organization_webhooks
    rows,       \* organization_webhook_deliveries
    phase,      \* life of each delivery's job
    tries,      \* dispatches of each delivery's job
    epc,        \* next statement of each emission
    todo,       \* subscriptions it has still to serve
    current,    \* the one it is serving
    pc,         \* next statement of each delivery's handler
    copy,       \* the handler's copy of the delivery row
    apc,        \* next statement of each update request
    draft,      \* its copy of the webhook row, with the changes asked for
    faults, updates,    \* how much of each bound is used
    keys,       \* history: secrets generated so far
    shown,      \* history: the secret last shown to a manager
    undone,     \* history: hooks with updates that overlapped
    posts,      \* history: POSTs sent for each delivery
    acked,      \* history: deliveries a receiver answered with 2xx
    unkeyed,    \* history: deliveries a process without encryption key skipped
    harmed      \* history: deliveries of which a statement failed

hookVars == <<hooks, apc, draft, updates, keys, shown, undone>>
emitVars == <<epc, todo, current>>
jobVars == <<phase, tries>>
runVars == <<pc, copy>>
seenVars == <<posts, acked, unkeyed>>
vars == <<hookVars, rows, jobVars, emitVars, runVars, faults, seenVars, harmed>>

Q == INSTANCE JobLifecycle WITH
         Jobs <- Deliveries, Hopeless <- {}, MaxAttempts <- [d \in Deliveries |-> MaxAttempts]

\* "unretried": a handler outside the queue returned an error.
JobPhases == Q!Phases \union {"unretried"}

Drafts == [hook : Hooks, row : HookRows, rotated : BOOLEAN]

TypeOK ==
    /\ hooks \in [Hooks -> HookRows \union {NoRow}]
    /\ rows \in [Deliveries -> Rows \union {NoRow}]
    /\ phase \in [Deliveries -> JobPhases]
    /\ tries \in [Deliveries -> 0 .. MaxAttempts]
    /\ epc \in [Events -> {"new", "loop", "enqueue", "inside", "done"}]
    /\ todo \in [Events -> SUBSET Hooks]
    /\ current \in [Events -> Hooks \union {NoRow}]
    /\ pc \in [Deliveries -> {"idle", "hook", "post", "save", "fail", "giveup"}]
    /\ copy \in [Deliveries -> Rows \union {NoRow}]
    /\ apc \in [Admins -> {"idle", "write"}]
    /\ draft \in [Admins -> Drafts \union {NoRow}]
    /\ faults \in Nat /\ updates \in Nat /\ keys \in Nat
    /\ shown \in [Hooks -> Nat]
    /\ undone \subseteq Hooks
    /\ posts \in [Deliveries -> Nat]
    /\ acked \subseteq Deliveries
    /\ unkeyed \subseteq Deliveries
    /\ harmed \subseteq Deliveries

Init ==
    /\ hooks = [h \in Hooks |-> NoRow]
    /\ rows = [d \in Deliveries |-> NoRow]
    /\ Q!Init
    /\ epc = [e \in Events |-> "new"]
    /\ todo = [e \in Events |-> {}]
    /\ current = [e \in Events |-> NoRow]
    /\ pc = [d \in Deliveries |-> "idle"]
    /\ copy = [d \in Deliveries |-> NoRow]
    /\ apc = [a \in Admins |-> "idle"]
    /\ draft = [a \in Admins |-> NoRow]
    /\ faults = 0 /\ updates = 0 /\ keys = 0
    /\ shown = [h \in Hooks |-> 0]
    /\ undone = {}
    /\ posts = [d \in Deliveries |-> 0]
    /\ acked = {} /\ unkeyed = {} /\ harmed = {}

Fault ==
    /\ faults < MaxFaults
    /\ faults' = faults + 1

\* A statement about delivery d is answered, or fails.
Answered == UNCHANGED <<faults, harmed>>
Failed(d) == Fault /\ harmed' = harmed \union {d}

-----------------------------------------------------------------------------
(* Subscriptions.  A request that requireOrgManager or the validation of   *)
(* URL and events refuses changes nothing and is not a step.               *)

CreateWebhook(h) ==
    /\ hooks[h] = NoRow /\ shown[h] = 0
    /\ hooks' = [hooks EXCEPT ![h] =
          [enabled |-> TRUE, subscribed |-> TRUE, key |-> keys + 1, version |-> 1]]
    /\ keys' = keys + 1
    /\ shown' = [shown EXCEPT ![h] = keys + 1]
    /\ UNCHANGED <<apc, draft, updates, undone, rows, jobVars, emitVars, runVars, faults,
                   seenVars, harmed>>

\* What a request may ask for; each changes one field here.
Change(row, field) ==
    CASE field = "enabled" -> [row EXCEPT !.enabled = ~@]
      [] field = "events" -> [row EXCEPT !.subscribed = ~@]
      [] field = "rotate" -> [row EXCEPT !.key = keys + 1, !.version = @ + 1]

ReadForUpdate(a, h) ==
    /\ apc[a] = "idle" /\ updates < MaxUpdates
    /\ hooks[h] # NoRow
    /\ \E field \in {"enabled", "events", "rotate"} :
          /\ draft' = [draft EXCEPT ![a] = [hook |-> h, row |-> Change(hooks[h], field),
                                            rotated |-> field = "rotate"]]
          /\ keys' = IF field = "rotate" THEN keys + 1 ELSE keys
    /\ updates' = updates + 1
    /\ apc' = [apc EXCEPT ![a] = "write"]
    /\ UNCHANGED <<hooks, shown, undone, rows, jobVars, emitVars, runVars, faults, seenVars, harmed>>

ColumnsWithoutSecret(old, new) == [new EXCEPT !.key = old.key]              \* mutant
Columns(old, new) == new

\* Every column is written, WHERE id: a hook deleted meanwhile stays deleted.
WriteUpdate(a) ==
    /\ apc[a] = "write"
    /\ LET h == draft[a].hook IN
          /\ IF hooks[h] = NoRow
             THEN UNCHANGED <<hooks, shown>>
             ELSE /\ hooks' = [hooks EXCEPT ![h] = Columns(@, draft[a].row)]
                  /\ shown' = IF draft[a].rotated THEN [shown EXCEPT ![h] = draft[a].row.key]
                              ELSE shown
          /\ undone' = IF \E b \in Admins \ {a} : apc[b] = "write" /\ draft[b].hook = h
                       THEN undone \union {h} ELSE undone
    /\ apc' = [apc EXCEPT ![a] = "idle"]
    /\ draft' = [draft EXCEPT ![a] = NoRow]
    /\ UNCHANGED <<updates, keys, rows, jobVars, emitVars, runVars, faults, seenVars, harmed>>

\* The deliveries go with the hook (ON DELETE CASCADE).
DeleteWebhook(h) ==
    /\ hooks[h] # NoRow
    /\ hooks' = [hooks EXCEPT ![h] = NoRow]
    /\ rows' = [d \in Deliveries |-> IF d[2] = h THEN NoRow ELSE rows[d]]
    /\ UNCHANGED <<apc, draft, updates, keys, shown, undone, jobVars, emitVars, runVars, faults,
                   seenVars, harmed>>

-----------------------------------------------------------------------------
(* EmitOrganizationWebhookEvent, and enqueueOne for each hook it listed.   *)

ListEnabledWebhooks(e) ==
    /\ epc[e] = "new"
    /\ \/ /\ todo' = [todo EXCEPT ![e] =
                {h \in Hooks : hooks[h] # NoRow /\ hooks[h].enabled /\ hooks[h].subscribed}]
          /\ epc' = [epc EXCEPT ![e] = "loop"]
          /\ UNCHANGED faults
       \/ /\ epc' = [epc EXCEPT ![e] = "done"]
          /\ Fault
          /\ UNCHANGED todo
    /\ UNCHANGED <<hookVars, rows, jobVars, current, runVars, seenVars, harmed>>

NewDelivery == [status |-> "pending", attempts |-> 0, error |-> "none"]

\* The row refers to the hook: without the hook the INSERT fails.
CreateDelivery(e) ==
    /\ epc[e] = "loop"
    /\ \E h \in todo[e] :
          /\ todo' = [todo EXCEPT ![e] = @ \ {h}]
          /\ \/ /\ hooks[h] # NoRow
                /\ rows' = [rows EXCEPT ![<<e, h>>] = NewDelivery]
                /\ current' = [current EXCEPT ![e] = h]
                /\ epc' = [epc EXCEPT ![e] = "enqueue"]
                /\ Answered
             \/ /\ hooks[h] = NoRow
                /\ UNCHANGED <<rows, current, epc>>
                /\ Answered
             \/ /\ hooks[h] # NoRow
                /\ rows' \in {rows, [rows EXCEPT ![<<e, h>>] = NewDelivery]}
                /\ UNCHANGED <<current, epc>>
                /\ Failed(<<e, h>>)
    /\ UNCHANGED <<hookVars, jobVars, runVars, seenVars>>

EmitNext(e, l) ==
    /\ epc' = [epc EXCEPT ![e] = l]
    /\ current' = IF l = "loop" THEN [current EXCEPT ![e] = NoRow] ELSE current

\* Without a queue to retry it, the handler runs inside the emission.
EnqueueDelivery(e) ==
    /\ epc[e] = "enqueue"
    /\ LET d == <<e, current[e]>> IN
          \/ /\ e \notin Inline
             /\ EmitNext(e, "loop")
             /\ \/ Q!Submit(d) /\ Answered
                \/ (Q!Submit(d) \/ Q!Lose({d})) /\ Failed(d)
          \/ /\ e \in Inline
             /\ EmitNext(e, "inside")
             /\ Q!Move(d, "new", "busy")
             /\ UNCHANGED tries
             /\ Answered
    /\ UNCHANGED <<hookVars, rows, todo, runVars, seenVars>>

ReturnInside(e) ==
    /\ epc[e] = "inside"
    /\ phase[<<e, current[e]>>] # "busy"
    /\ EmitNext(e, "loop")
    /\ UNCHANGED <<hookVars, rows, jobVars, todo, runVars, faults, seenVars, harmed>>

EmitDone(e) ==
    /\ epc[e] = "loop" /\ todo[e] = {}
    /\ epc' = [epc EXCEPT ![e] = "done"]
    /\ UNCHANGED <<hookVars, rows, jobVars, todo, current, runVars, faults, seenVars, harmed>>

-----------------------------------------------------------------------------
(* handleWebhookDeliver, once for each dispatch of the job.                *)

RunTo(d, l, row) ==
    /\ pc' = [pc EXCEPT ![d] = l]
    /\ copy' = [copy EXCEPT ![d] = row]
    /\ UNCHANGED jobVars

\* The handler returns nil or an error: the worker ends, retries or buries the
\* job, outside the queue nobody tries again.
Return(d, ok) ==
    /\ pc' = [pc EXCEPT ![d] = "idle"]
    /\ copy' = [copy EXCEPT ![d] = NoRow]
    /\ \/ ok /\ Q!Succeed(d)
       \/ ~ok /\ d[1] \notin Inline /\ (Q!Retry(d) \/ Q!Bury(d))
       \/ ~ok /\ d[1] \in Inline /\ Q!Move(d, "busy", "unretried") /\ UNCHANGED tries

PopDelivery(d) ==
    /\ Q!Pop(d)
    /\ UNCHANGED <<hookVars, rows, emitVars, runVars, faults, seenVars, harmed>>

\* The worker dispatches the handler, which is to look for its row.
Dispatch(d) ==
    /\ pc[d] = "idle" /\ phase[d] = "busy"
    /\ Q!Dispatch(d)
    /\ pc' = [pc EXCEPT ![d] = "hook"]
    /\ copy' = [copy EXCEPT ![d] = rows[d]]
    /\ UNCHANGED <<hookVars, rows, emitVars, faults, seenVars, harmed>>

\* WebhooksEncryptionConfigured is false: nil, whatever the row says.  A process
\* that emits has the key, so this is a worker of another configuration.
SkipUnconfigured(d) ==
    /\ pc[d] = "hook" /\ d[1] \notin Inline
    /\ Return(d, TRUE)
    /\ unkeyed' = unkeyed \union {d}
    /\ UNCHANGED <<hookVars, rows, emitVars, faults, posts, acked, harmed>>

EverPending(row) == row # NoRow                                             \* mutant
Pending(row) == row # NoRow /\ row.status = "pending"

\* The URL is validated again: its host may resolve to a forbidden address by now.
BlockURL(d, counted) == RunTo(d, "fail", [counted EXCEPT !.error = "attempt"])

\* With the hook at hand: disabled, undecipherable secret, blocked, or go.
Decide(d, row, enabled) ==
    IF ~enabled
    THEN RunTo(d, "giveup", [row EXCEPT !.status = "failed", !.error = "disabled"])
    ELSE LET counted == [row EXCEPT !.attempts = @ + 1]
         IN  \/ RunTo(d, "giveup", [counted EXCEPT !.status = "failed", !.error = "secret"])
             \/ BlockURL(d, counted)
             \/ RunTo(d, "post", counted)

\* From the row it found: nothing to do, or read the hook and decide.
FindWebhook(d) ==
    /\ pc[d] = "hook"
    /\ \/ Return(d, FALSE) /\ Failed(d)
       \/ /\ IF Pending(copy[d]) /\ hooks[d[2]] # NoRow
             THEN Decide(d, copy[d], hooks[d[2]].enabled)
             ELSE Return(d, TRUE)
          /\ Answered
    /\ UNCHANGED <<hookVars, rows, emitVars, seenVars>>

Accepted(row) == [row EXCEPT !.status = "delivered", !.error = "none"]

\* Mutant: any answer counts as delivered.
PostAnyAnswer(d) ==
    /\ pc[d] = "post"
    /\ posts' = [posts EXCEPT ![d] = @ + 1]
    /\ RunTo(d, "save", Accepted(copy[d]))
    /\ acked' \in {acked, acked \union {d}}
    /\ UNCHANGED <<hookVars, rows, emitVars, faults, unkeyed, harmed>>

\* The POST is answered with 2xx, or with something else or not at all.
Post(d) ==
    /\ pc[d] = "post"
    /\ posts' = [posts EXCEPT ![d] = @ + 1]
    /\ \/ RunTo(d, "save", Accepted(copy[d])) /\ acked' = acked \union {d}
       \/ RunTo(d, "fail", [copy[d] EXCEPT !.error = "attempt"]) /\ UNCHANGED acked
    /\ UNCHANGED <<hookVars, rows, emitVars, faults, unkeyed, harmed>>

\* Save updates by primary key and inserts if no row was hit; the insert of a
\* deleted hook's delivery breaks the foreign key.
Saved(d) == rows[d] # NoRow /\ rows' = [rows EXCEPT ![d] = copy[d]] /\ Answered
NotSaved(d) ==
    \/ rows[d] = NoRow /\ UNCHANGED rows /\ Answered
    \/ rows[d] # NoRow /\ rows' \in {rows, [rows EXCEPT ![d] = copy[d]]} /\ Failed(d)

SaveDelivered(d) ==
    /\ pc[d] = "save"
    /\ \/ Saved(d) /\ Return(d, TRUE)
       \/ NotSaved(d) /\ Return(d, FALSE)
    /\ UNCHANGED <<hookVars, emitVars, seenVars>>

ExhaustedLate(row) == row.attempts > MaxAttempts                            \* mutant
ExhaustedEarly(row) == row.attempts + 1 >= MaxAttempts                      \* mutant
Exhausted(row) == row.attempts >= MaxAttempts

\* The attempt and its error are saved first, then a last one ends the row.
SaveFailure(d) ==
    /\ pc[d] = "fail"
    /\ \/ NotSaved(d) /\ Return(d, FALSE)
       \/ /\ Saved(d)
          /\ IF Exhausted(copy[d])
             THEN RunTo(d, "giveup", [copy[d] EXCEPT !.status = "failed"])
             ELSE Return(d, FALSE)
    /\ UNCHANGED <<hookVars, emitVars, seenVars>>

\* The error of this update is ignored.
GiveUp(d) ==
    /\ pc[d] = "giveup"
    /\ Saved(d) \/ NotSaved(d)
    /\ Return(d, TRUE)
    /\ UNCHANGED <<hookVars, emitVars, seenVars>>

\* A crash or a Redis error loses the job (JobQueue, NotStranded); an emission
\* that runs the handler itself ends with it.
LoseJob(d) ==
    /\ phase[d] \in {"ready", "busy"}
    /\ Fault
    /\ Q!Lose({d})
    /\ pc' = [pc EXCEPT ![d] = "idle"]
    /\ copy' = [copy EXCEPT ![d] = NoRow]
    /\ epc' = IF epc[d[1]] = "inside" /\ current[d[1]] = d[2]
              THEN [epc EXCEPT ![d[1]] = "done"] ELSE epc
    /\ UNCHANGED <<hookVars, rows, todo, current, seenVars, harmed>>

Handler(d) ==
    \/ Dispatch(d)
    \/ SkipUnconfigured(d)
    \/ FindWebhook(d)
    \/ Post(d)
    \/ SaveDelivered(d)
    \/ SaveFailure(d)
    \/ GiveUp(d)

Next ==
    \/ \E h \in Hooks : CreateWebhook(h) \/ DeleteWebhook(h)
    \/ \E a \in Admins : WriteUpdate(a) \/ \E h \in Hooks : ReadForUpdate(a, h)
    \/ \E e \in Events :
          \/ ListEnabledWebhooks(e)
          \/ CreateDelivery(e)
          \/ EnqueueDelivery(e)
          \/ ReturnInside(e)
          \/ EmitDone(e)
    \/ \E d \in Deliveries : PopDelivery(d) \/ Handler(d) \/ LoseJob(d)

Spec == Init /\ [][Next]_vars

-----------------------------------------------------------------------------

IsTerminal(row) == row.status \in {"delivered", "failed"}

\* What the delivery history shows is what happened: a row is "delivered" only
\* if the receiver answered 2xx, and, unless a statement about it failed, the
\* row of a delivery the receiver accepted never says "failed".
StatusIsTrue ==
    \A d \in Deliveries : rows[d] # NoRow =>
        /\ rows[d].status = "delivered" => d \in acked
        /\ rows[d].status = "failed" /\ d \notin harmed => d \notin acked

\* A delivered or failed row is final, and nothing is posted for it any more,
\* even when the update that ended it was reported as failed and the job is
\* dispatched again (the status check of handleWebhookDeliver).
TerminalIsFinal ==
    [][\A d \in Deliveries :
          rows[d] # NoRow /\ IsTerminal(rows[d]) =>
              rows'[d] \in {rows[d], NoRow} /\ posts'[d] = posts[d]]_vars

\* The row's own count and the job's count are two counters kept by two stores:
\* a receiver gets at most MaxAttempts POSTs as long as no administrator retries
\* the job, and a row given up for failed attempts really had them all.
AttemptsHonest ==
    \A d \in Deliveries :
        /\ posts[d] <= tries[d]
        /\ rows[d] # NoRow =>
              /\ rows[d].attempts <= tries[d]
              /\ rows[d].status = "failed" /\ rows[d].error = "attempt" =>
                     rows[d].attempts = MaxAttempts

\* When the handler has run for the last time the row says how the delivery
\* ended, unless a statement failed.  Two kinds of delivery stay pending for
\* ever: those that reach a process without the encryption key, and those that
\* fail outside the queue with budget left, which get a single attempt.  No
\* delivery job reaches the dead-letter list while its row exists.
EndsSettled ==
    \A d \in Deliveries \ harmed : rows[d] # NoRow =>
        /\ phase[d] = "succeeded" => IsTerminal(rows[d]) \/ d \in unkeyed
        /\ phase[d] = "unretried" =>
               d[1] \in Inline /\ rows[d].attempts = 1 /\ 1 < MaxAttempts
        /\ phase[d] # "dead"

\* The secret that signs the POSTs is the one last shown to a manager, unless
\* two updates of the hook overlapped: the update writes every column of the
\* row it read, so it may put a rotated secret back.
KeyIsLastShown ==
    \A h \in Hooks \ undone : hooks[h] # NoRow => hooks[h].key = shown[h]

=============================================================================
