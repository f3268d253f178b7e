---------------------- MODULE WebhookDelivery_proofs ----------------------
(***************************************************************************)
(* Proofs about WebhookDelivery, for any subscriptions, events,            *)
(* administrators, faults and number of attempts: the history of           *)
(* deliveries is true and final, both counters of attempts agree, and POSTs *)
(* are signed with the secret last shown.                                  *)
(***************************************************************************)
EXTENDS WebhookDelivery, TLAPS

\* A secret that was not rotated is the row's own, unless updates overlap.
DraftOK(a) ==
    LET h == draft[a].hook IN
    /\ draft[a] \in Drafts
    /\ shown[h] # 0
    /\ draft[a].rotated => draft[a].row.key # 0
    /\ h \notin undone /\ hooks[h] # NoRow /\ ~draft[a].rotated => draft[a].row.key = hooks[h].key

HookInv ==
    /\ \A h \in Hooks : hooks[h] # NoRow => shown[h] # 0
    /\ \A a \in Admins : apc[a] = "write" => DraftOK(a)
    /\ KeyIsLastShown

\* Until an emission gets to it, a delivery has neither row nor job.
EmitInv ==
    /\ \A d \in Deliveries :
          epc[d[1]] = "new" \/ d[2] \in todo[d[1]] => phase[d] = "new" /\ rows[d] = NoRow
    /\ \A e \in Events :
          /\ epc[e] \in {"enqueue", "inside"} => current[e] \in Hooks \ todo[e]
          /\ epc[e] = "enqueue" => phase[<<e, current[e]>>] = "new"

\* Before its job was popped nothing has happened to a delivery but its INSERT.
UnrunOK(d) ==
    phase[d] = "new" =>
        /\ tries[d] = 0 /\ posts[d] = 0 /\ d \notin acked
        /\ rows[d] # NoRow => rows[d] = NewDelivery

\* What a row says of the receiver and of the attempts.
RowOK(d) ==
    rows[d] # NoRow =>
        /\ hooks[d[2]] # NoRow
        /\ rows[d].status = "delivered" => d \in acked
        /\ rows[d].status = "failed" /\ rows[d].error = "attempt" => rows[d].attempts = MaxAttempts
        /\ rows[d].attempts <= tries[d]
        /\ pc[d] \in {"post", "save", "fail", "giveup"} => rows[d].status = "pending"
        /\ pc[d] = "hook" => rows[d] = copy[d] /\ rows[d].attempts < tries[d]

\* What the handler's copy says at each of its statements.
CopyOK(d) ==
    /\ pc[d] = "hook" /\ copy[d] # NoRow => copy[d].attempts < tries[d]
    /\ pc[d] \in {"post", "save", "fail", "giveup"} =>
          copy[d] \in Rows /\ copy[d].attempts <= tries[d]
    /\ pc[d] = "post" => copy[d].status = "pending"
    /\ pc[d] = "save" => copy[d].status = "delivered" /\ d \in acked
    /\ pc[d] = "fail" => copy[d].status = "pending" /\ copy[d].error = "attempt"
    /\ pc[d] = "giveup" =>
          copy[d].status = "failed"
          /\ (copy[d].error = "attempt" => copy[d].attempts = MaxAttempts)

\* The handler runs in a dispatch of the job that has sent no POST yet; outside
\* the queue there is one dispatch.
RunOK(d) ==
    /\ pc[d] # "idle" => phase[d] = "busy" /\ tries[d] > 0
    /\ posts[d] <= tries[d]
    /\ pc[d] \in {"hook", "post"} => posts[d] < tries[d]
    /\ phase[d] = "unretried" => d[1] \in Inline
    /\ d[1] \in Inline =>
          /\ phase[d] # "ready"
          /\ phase[d] = "busy" => tries[d] = IF pc[d] = "idle" THEN 0 ELSE 1

\* Unless a statement failed, a pending row has counted every dispatch but the
\* present one, and is still somebody's.
PendingOK(d) ==
    d \notin harmed /\ rows[d] # NoRow =>
        /\ rows[d].status = "pending" =>
              /\ d \in acked => pc[d] = "save" \/ phase[d] = "lost"
              /\ pc[d] = "idle" /\ phase[d] \in {"ready", "busy"} => rows[d].attempts = tries[d]
              /\ pc[d] = "hook" => rows[d].attempts + 1 = tries[d]
              /\ pc[d] \in {"post", "fail"} => copy[d].attempts = tries[d]
              /\ phase[d] = "succeeded" => d \in unkeyed
        /\ phase[d] = "unretried" => rows[d].attempts = 1 /\ 1 < MaxAttempts
        /\ rows[d].status = "failed" => d \notin acked
        /\ phase[d] # "dead"

DeliveryInv(d) == UnrunOK(d) /\ RowOK(d) /\ CopyOK(d) /\ RunOK(d) /\ PendingOK(d)

WebhookInv == TypeOK /\ HookInv /\ EmitInv /\ \A d \in Deliveries : DeliveryInv(d)

LEMMA WebhookFacts ==
    /\ MaxAttempts \in Nat \ {0} /\ MaxFaults \in Nat /\ MaxUpdates \in Nat
    /\ NoRow \notin HookRows /\ NoRow \notin Rows
    /\ NewDelivery \in Rows /\ NewDelivery.attempts = 0 /\ NewDelivery.status = "pending"
BY WebhookAssumption DEF NewDelivery, Rows

LEMMA DeliveryParts ==
    /\ \A d \in Deliveries : d[1] \in Events /\ d[2] \in Hooks /\ d = <<d[1], d[2]>>
    /\ \A e \in Events, h \in Hooks : <<e, h>> \in Deliveries /\ <<e, h>>[1] = e /\ <<e, h>>[2] = h
BY DEF Deliveries

LEMMA WebhookInitInv == Init => WebhookInv
<1> SUFFICES ASSUME Init PROVE WebhookInv
  OBVIOUS
<1> USE DEF Init, Q!Init
<1>1. TypeOK
  BY WebhookFacts DEF TypeOK, JobPhases, Q!Phases
<1>2. HookInv
  BY DEF HookInv, KeyIsLastShown
<1>3. EmitInv
  BY DeliveryParts DEF EmitInv
<1>4. ASSUME NEW d \in Deliveries PROVE DeliveryInv(d)
  BY DEF DeliveryInv, UnrunOK, RowOK, CopyOK, RunOK, PendingOK
<1> QED
  BY <1>1, <1>2, <1>3, <1>4 DEF WebhookInv

-----------------------------------------------------------------------------
(* Frames.                                                                 *)

\* A step that leaves delivery k alone.
Spared(k) ==
    /\ rows'[k] = rows[k] /\ phase'[k] = phase[k] /\ tries'[k] = tries[k]
    /\ pc'[k] = pc[k] /\ copy'[k] = copy[k] /\ posts'[k] = posts[k]
    /\ k \in acked' <=> k \in acked
    /\ k \in unkeyed => k \in unkeyed'
    /\ k \in harmed => k \in harmed'

LEMMA SparedKeeps ==
    ASSUME NEW k \in Deliveries, DeliveryInv(k), Spared(k),
           rows[k] # NoRow => hooks'[k[2]] # NoRow
    PROVE  DeliveryInv(k)'
<1> USE DEF Spared, DeliveryInv
<1>1. UnrunOK(k)'
  BY DEF UnrunOK, NewDelivery
<1>2. RowOK(k)'
  BY DEF RowOK
<1>3. CopyOK(k)'
  BY DEF CopyOK
<1>4. RunOK(k)'
  BY DEF RunOK
<1>5. PendingOK(k)'
  BY DEF PendingOK
<1> QED
  BY <1>1, <1>2, <1>3, <1>4, <1>5

\* A step of the job or the handler of delivery d.
RunStep(d) ==
    /\ \A k \in Deliveries \ {d} : Spared(k)
    /\ UNCHANGED <<hookVars, emitVars>>
    /\ phase[d] # "new"

LEMMA RunStepKeeps ==
    ASSUME WebhookInv, NEW d \in Deliveries, RunStep(d), TypeOK', DeliveryInv(d)'
    PROVE  WebhookInv'
<1>1. HookInv'
  BY DEF WebhookInv, HookInv, KeyIsLastShown, DraftOK, Drafts, RunStep, hookVars
<1>2. EmitInv'
  <2>1. \A k \in Deliveries : phase[k] = "new" => phase'[k] = "new" /\ rows'[k] = rows[k]
    BY DEF RunStep, Spared
  <2> QED
    BY <2>1, DeliveryParts DEF WebhookInv, EmitInv, RunStep, emitVars
<1>3. ASSUME NEW k \in Deliveries \ {d} PROVE DeliveryInv(k)'
  <2>1. DeliveryInv(k) /\ Spared(k)
    BY DEF WebhookInv, RunStep
  <2>2. rows[k] # NoRow => hooks'[k[2]] # NoRow
    BY <2>1 DEF DeliveryInv, RowOK, RunStep, hookVars
  <2> QED
    BY <2>1, <2>2, SparedKeeps
<1> QED
  BY <1>1, <1>2, <1>3 DEF WebhookInv

-----------------------------------------------------------------------------
(* What the parts of a handler's step do.                                  *)

LEMMA ReturnOutcome ==
    ASSUME TypeOK, NEW d \in Deliveries, NEW ok \in BOOLEAN, Return(d, ok)
    PROVE  /\ pc' = [pc EXCEPT ![d] = "idle"] /\ copy' = [copy EXCEPT ![d] = NoRow]
           /\ tries' = tries
           /\ phase' \in [Deliveries -> JobPhases]
           /\ \A k \in Deliveries \ {d} : phase'[k] = phase[k]
           /\ ok => phase'[d] = "succeeded"
           /\ ~ok => \/ phase'[d] = "ready" /\ tries[d] < MaxAttempts /\ d[1] \notin Inline
                     \/ phase'[d] = "dead" /\ tries[d] = MaxAttempts
                     \/ phase'[d] = "unretried" /\ d[1] \in Inline
BY DEF Return, TypeOK, JobPhases, Q!Phases, Q!Succeed, Q!Retry, Q!Bury, Q!Lose, Q!Move

LEMMA SaveOutcome ==
    ASSUME TypeOK, NEW d \in Deliveries, copy[d] \in Rows, Saved(d) \/ NotSaved(d)
    PROVE  /\ rows' \in [Deliveries -> Rows \union {NoRow}]
           /\ faults' \in Nat
           /\ harmed \subseteq harmed' /\ harmed' \subseteq Deliveries
           /\ \A k \in Deliveries \ {d} : rows'[k] = rows[k]
           /\ rows'[d] \in {rows[d], copy[d]}
           /\ rows[d] = NoRow => rows'[d] = NoRow
           /\ Saved(d) => rows[d] # NoRow /\ rows'[d] = copy[d]
           /\ NotSaved(d) => rows'[d] = NoRow \/ d \in harmed'
<1>1. CASE Saved(d)
  BY <1>1 DEF Saved, NotSaved, Answered, Failed, Fault, TypeOK
<1>2. CASE NotSaved(d)
  BY <1>2 DEF Saved, NotSaved, Answered, Failed, Fault, TypeOK
<1> QED
  BY <1>1, <1>2

-----------------------------------------------------------------------------
(* The queue's steps and the handler's.                                    *)

LEMMA PopKeeps ==
    ASSUME WebhookInv, NEW d \in Deliveries, PopDelivery(d)
    PROVE  WebhookInv'
<1> USE DEF PopDelivery, Q!Pop, Q!Move, hookVars, emitVars, runVars, seenVars
<1>1. TypeOK'
  BY DEF WebhookInv, TypeOK, JobPhases, Q!Phases
<1>2. RunStep(d)
  BY DEF WebhookInv, TypeOK, RunStep, Spared
<1>3. DeliveryInv(d)'
  BY DEF WebhookInv, TypeOK, DeliveryInv, UnrunOK, RowOK, CopyOK, RunOK, PendingOK
<1> QED
  BY <1>1, <1>2, <1>3, RunStepKeeps

LEMMA DispatchKeeps ==
    ASSUME WebhookInv, NEW d \in Deliveries, Dispatch(d)
    PROVE  WebhookInv'
<1> USE DEF Dispatch, Q!Dispatch, hookVars, emitVars, seenVars
<1>1. TypeOK'
  BY WebhookFacts DEF WebhookInv, TypeOK
<1>2. RunStep(d)
  BY DEF WebhookInv, TypeOK, RunStep, Spared
<1>3. DeliveryInv(d)'
  <2>1. /\ TypeOK /\ DeliveryInv(d)
        /\ pc'[d] = "hook" /\ copy'[d] = rows[d] /\ tries'[d] = tries[d] + 1
        /\ rows' = rows /\ phase' = phase /\ tries[d] \in Nat
    BY DEF WebhookInv, TypeOK
  <2>2. UnrunOK(d)' /\ RunOK(d)'
    BY <2>1 DEF TypeOK, DeliveryInv, UnrunOK, RunOK
  <2>3. RowOK(d)' /\ CopyOK(d)'
    BY <2>1 DEF TypeOK, Rows, DeliveryInv, RowOK, CopyOK
  <2>4. PendingOK(d)'
    BY <2>1 DEF TypeOK, Rows, DeliveryInv, PendingOK
  <2> QED
    BY <2>2, <2>3, <2>4 DEF DeliveryInv
<1> QED
  BY <1>1, <1>2, <1>3, RunStepKeeps

\* A handler that goes on to another statement with a changed copy.
LEMMA RunToOutcome ==
    ASSUME TypeOK, NEW d \in Deliveries, NEW row \in Rows,
           NEW l \in {"post", "save", "fail", "giveup"}, RunTo(d, l, row)
    PROVE  /\ pc' = [pc EXCEPT ![d] = l] /\ copy' = [copy EXCEPT ![d] = row]
           /\ tries' = tries /\ phase' = phase
           /\ pc' \in [Deliveries -> {"idle", "hook", "post", "save", "fail", "giveup"}]
           /\ copy' \in [Deliveries -> Rows \union {NoRow}]
BY DEF RunTo, TypeOK, jobVars

\* What the handler decides about a pending row: the attempt is counted, unless
\* the hook is disabled.
LEMMA DecideOutcome ==
    ASSUME TypeOK, NEW d \in Deliveries, NEW row \in Rows, NEW enabled \in BOOLEAN,
           Decide(d, row, enabled), row.status = "pending"
    PROVE  \E l \in {"post", "fail", "giveup"}, new \in Rows :
              /\ RunTo(d, l, new)
              /\ new.attempts <= row.attempts + 1
              /\ l # "giveup" => new.status = "pending" /\ new.attempts = row.attempts + 1
              /\ l = "fail" => new.error = "attempt"
              /\ l = "giveup" => new.status = "failed" /\ new.error # "attempt"
<1> DEFINE counted == [row EXCEPT !.attempts = @ + 1]
           blocked == [counted EXCEPT !.error = "attempt"]
           disabled == [row EXCEPT !.status = "failed", !.error = "disabled"]
           sealed == [counted EXCEPT !.status = "failed", !.error = "secret"]
<1>1. row.attempts \in Nat /\ row.error \in {"none", "attempt", "disabled", "secret"}
  BY DEF Rows
<1>2. counted \in Rows /\ counted.attempts = row.attempts + 1 /\ counted.status = "pending"
  BY <1>1 DEF Rows
<1>3. /\ blocked \in Rows /\ blocked.attempts = row.attempts + 1
      /\ blocked.status = "pending" /\ blocked.error = "attempt"
  BY <1>2 DEF Rows
<1>4. /\ disabled \in Rows /\ disabled.attempts = row.attempts
      /\ disabled.status = "failed" /\ disabled.error = "disabled"
  BY <1>1 DEF Rows
<1>5. /\ sealed \in Rows /\ sealed.attempts = row.attempts + 1
      /\ sealed.status = "failed" /\ sealed.error = "secret"
  BY <1>2 DEF Rows
<1> HIDE DEF counted, blocked, disabled, sealed
<1>6. \/ RunTo(d, "giveup", disabled) \/ RunTo(d, "giveup", sealed)
      \/ RunTo(d, "fail", blocked) \/ RunTo(d, "post", counted)
  BY DEF Decide, BlockURL, counted, blocked, disabled, sealed
<1> QED
  BY <1>1, <1>2, <1>3, <1>4, <1>5, <1>6

LEMMA SkipKeeps ==
    ASSUME WebhookInv, NEW d \in Deliveries, SkipUnconfigured(d)
    PROVE  WebhookInv'
<1> USE DEF hookVars, emitVars
<1>0. /\ TypeOK /\ DeliveryInv(d) /\ pc[d] = "hook" /\ phase[d] = "busy"
      /\ UNCHANGED <<hookVars, rows, emitVars, faults, posts, acked, harmed>>
      /\ unkeyed' = unkeyed \union {d}
  BY DEF SkipUnconfigured, WebhookInv, DeliveryInv, RunOK
<1>1. /\ pc' = [pc EXCEPT ![d] = "idle"] /\ copy' = [copy EXCEPT ![d] = NoRow]
      /\ tries' = tries
      /\ phase' \in [Deliveries -> JobPhases]
      /\ \A k \in Deliveries \ {d} : phase'[k] = phase[k]
      /\ phase'[d] = "succeeded"
  BY <1>0, ReturnOutcome DEF SkipUnconfigured
<1>2. pc'[d] = "idle" /\ \A k \in Deliveries \ {d} : pc'[k] = pc[k] /\ copy'[k] = copy[k]
  BY <1>0, <1>1 DEF TypeOK
<1>3. TypeOK'
  BY <1>0, <1>1 DEF TypeOK
<1>4. RunStep(d)
  BY <1>0, <1>1, <1>2 DEF RunStep, Spared
<1>5. UnrunOK(d)' /\ RunOK(d)' /\ CopyOK(d)'
  BY <1>0, <1>1, <1>2 DEF TypeOK, DeliveryInv, UnrunOK, RunOK, CopyOK
<1>6. RowOK(d)'
  BY <1>0, <1>1, <1>2 DEF DeliveryInv, RowOK
<1>7. PendingOK(d)'
  BY <1>0, <1>1, <1>2 DEF DeliveryInv, PendingOK
<1> QED
  BY <1>3, <1>4, <1>5, <1>6, <1>7, RunStepKeeps DEF DeliveryInv

LEMMA FindKeeps ==
    ASSUME WebhookInv, NEW d \in Deliveries, FindWebhook(d)
    PROVE  WebhookInv'
<1> USE DEF hookVars, emitVars, seenVars
<1>0. /\ TypeOK /\ DeliveryInv(d)
      /\ pc[d] = "hook" /\ rows' = rows /\ posts' = posts /\ acked' = acked /\ unkeyed' = unkeyed
      /\ UNCHANGED <<hookVars, emitVars>>
      /\ phase[d] = "busy"
  BY DEF FindWebhook, WebhookInv, DeliveryInv, RunOK
<1>1. CASE Return(d, FALSE) /\ Failed(d)
  <2>1. harmed' = harmed \union {d} /\ faults' \in Nat
    BY <1>0, <1>1 DEF Failed, Fault, TypeOK
  <2>2. /\ pc' = [pc EXCEPT ![d] = "idle"] /\ copy' = [copy EXCEPT ![d] = NoRow]
        /\ tries' = tries
        /\ phase' \in [Deliveries -> JobPhases]
        /\ \A k \in Deliveries \ {d} : phase'[k] = phase[k]
        /\ \/ phase'[d] = "ready" /\ tries[d] < MaxAttempts /\ d[1] \notin Inline
           \/ phase'[d] = "dead" /\ tries[d] = MaxAttempts
           \/ phase'[d] = "unretried" /\ d[1] \in Inline
    BY <1>0, <1>1, ReturnOutcome
  <2>3. pc'[d] = "idle" /\ \A k \in Deliveries \ {d} : pc'[k] = pc[k] /\ copy'[k] = copy[k]
    BY <1>0, <2>2 DEF TypeOK
  <2>4. TypeOK'
    BY <1>0, <2>1, <2>2 DEF TypeOK
  <2>5. RunStep(d)
    BY <1>0, <2>1, <2>2, <2>3 DEF RunStep, Spared
  <2>7. UnrunOK(d)' /\ RunOK(d)' /\ CopyOK(d)'
    BY <1>0, <2>2, <2>3 DEF TypeOK, DeliveryInv, UnrunOK, RunOK, CopyOK
  <2>8. RowOK(d)'
    BY <1>0, <2>2, <2>3 DEF DeliveryInv, RowOK
  <2>9. PendingOK(d)'
    BY <1>0, <2>1, <2>2, <2>3 DEF DeliveryInv, PendingOK
  <2> QED
    BY <2>4, <2>5, <2>7, <2>8, <2>9, RunStepKeeps DEF DeliveryInv
<1>2. CASE Return(d, TRUE) /\ Answered /\ ~(Pending(copy[d]) /\ hooks[d[2]] # NoRow)
  <2>1. harmed' = harmed /\ faults' = faults
    BY <1>2 DEF Answered
  <2>2. /\ pc' = [pc EXCEPT ![d] = "idle"] /\ copy' = [copy EXCEPT ![d] = NoRow]
        /\ tries' = tries
        /\ phase' \in [Deliveries -> JobPhases]
        /\ \A k \in Deliveries \ {d} : phase'[k] = phase[k]
        /\ phase'[d] = "succeeded"
    BY <1>0, <1>2, ReturnOutcome
  <2>3. pc'[d] = "idle" /\ \A k \in Deliveries \ {d} : pc'[k] = pc[k] /\ copy'[k] = copy[k]
    BY <1>0, <2>2 DEF TypeOK
  <2>4. TypeOK'
    BY <1>0, <2>1, <2>2 DEF TypeOK
  <2>5. RunStep(d)
    BY <1>0, <2>1, <2>2, <2>3 DEF RunStep, Spared
  <2>6. rows[d] # NoRow => rows[d].status # "pending"
    BY <1>0, <1>2 DEF Pending, DeliveryInv, RowOK
  <2>7. UnrunOK(d)' /\ RunOK(d)' /\ CopyOK(d)'
    BY <1>0, <2>2, <2>3 DEF TypeOK, DeliveryInv, UnrunOK, RunOK, CopyOK
  <2>8. RowOK(d)'
    BY <1>0, <2>2, <2>3 DEF DeliveryInv, RowOK
  <2>9. PendingOK(d)'
    BY <1>0, <2>1, <2>2, <2>3, <2>6 DEF DeliveryInv, PendingOK
  <2> QED
    BY <2>4, <2>5, <2>7, <2>8, <2>9, RunStepKeeps DEF DeliveryInv
<1>3. CASE Decide(d, copy[d], hooks[d[2]].enabled) /\ Answered
           /\ Pending(copy[d]) /\ hooks[d[2]] # NoRow
  <2>1. harmed' = harmed /\ faults' = faults
    BY <1>3 DEF Answered
  <2>2. copy[d] \in Rows /\ hooks[d[2]].enabled \in BOOLEAN /\ copy[d].status = "pending"
    BY <1>0, <1>3, DeliveryParts DEF TypeOK, Pending, HookRows
  <2>3. PICK l \in {"post", "fail", "giveup"}, new \in Rows :
              /\ RunTo(d, l, new)
              /\ new.attempts <= copy[d].attempts + 1
              /\ l # "giveup" => new.status = "pending" /\ new.attempts = copy[d].attempts + 1
              /\ l = "fail" => new.error = "attempt"
              /\ l = "giveup" => new.status = "failed" /\ new.error # "attempt"
    BY <1>0, <1>3, <2>2, DecideOutcome
  <2>4. /\ pc' = [pc EXCEPT ![d] = l] /\ copy' = [copy EXCEPT ![d] = new]
        /\ tries' = tries /\ phase' = phase
        /\ pc' \in [Deliveries -> {"idle", "hook", "post", "save", "fail", "giveup"}]
        /\ copy' \in [Deliveries -> Rows \union {NoRow}]
    BY <1>0, <2>3, RunToOutcome
  <2>5. TypeOK'
    BY <1>0, <2>1, <2>4 DEF TypeOK
  <2>6. RunStep(d)
    BY <1>0, <2>1, <2>4 DEF TypeOK, RunStep, Spared
  <2>7. pc'[d] = l /\ copy'[d] = new /\ new.attempts \in Nat /\ tries[d] \in Nat
        /\ copy[d].attempts \in Nat /\ copy[d] # NoRow
    BY <1>0, <2>2, <2>4, WebhookFacts DEF TypeOK, Rows
  <2>8. UnrunOK(d)' /\ RowOK(d)' /\ RunOK(d)'
    BY <1>0, <2>1, <2>2, <2>4, <2>7 DEF DeliveryInv, UnrunOK, RowOK, RunOK
  <2>9. CopyOK(d)'
    BY <1>0, <2>2, <2>3, <2>4, <2>7 DEF DeliveryInv, CopyOK
  <2>10. PendingOK(d)'
    BY <1>0, <2>1, <2>2, <2>3, <2>4, <2>7 DEF DeliveryInv, RowOK, PendingOK
  <2> QED
    BY <2>5, <2>6, <2>8, <2>9, <2>10, RunStepKeeps DEF DeliveryInv
<1> QED
  BY <1>1, <1>2, <1>3 DEF FindWebhook

LEMMA PostKeeps ==
    ASSUME WebhookInv, NEW d \in Deliveries, Post(d)
    PROVE  WebhookInv'
<1> USE DEF hookVars, emitVars, seenVars
<1>0. /\ TypeOK /\ DeliveryInv(d)
      /\ pc[d] = "post" /\ rows' = rows /\ harmed' = harmed /\ faults' = faults
      /\ posts' = [posts EXCEPT ![d] = @ + 1]
      /\ UNCHANGED <<hookVars, emitVars>>
      /\ phase[d] = "busy" /\ copy[d] \in Rows /\ tries[d] \in Nat /\ posts[d] \in Nat
      /\ unkeyed' = unkeyed
  BY DEF Post, WebhookInv, TypeOK, DeliveryInv, RunOK, CopyOK
<1>1. \E l \in {"save", "fail"}, new \in Rows :
         /\ RunTo(d, l, new)
         /\ new.attempts = copy[d].attempts
         /\ l = "save" => new.status = "delivered" /\ acked' = acked \union {d}
         /\ l = "fail" => new.status = "pending" /\ new.error = "attempt" /\ acked' = acked
  <2>1. Accepted(copy[d]) \in Rows /\ [copy[d] EXCEPT !.error = "attempt"] \in Rows
    BY <1>0 DEF Accepted, Rows
  <2>2. copy[d].status = "pending"
    BY <1>0 DEF DeliveryInv, CopyOK
  <2>3. CASE RunTo(d, "save", Accepted(copy[d])) /\ acked' = acked \union {d}
    BY <1>0, <2>1, <2>3 DEF Accepted, Rows
  <2>4. CASE RunTo(d, "fail", [copy[d] EXCEPT !.error = "attempt"]) /\ UNCHANGED acked
    BY <1>0, <2>1, <2>2, <2>4 DEF Rows
  <2> QED
    BY <2>3, <2>4 DEF Post
<1>2. PICK l \in {"save", "fail"}, new \in Rows :
         /\ RunTo(d, l, new)
         /\ new.attempts = copy[d].attempts
         /\ l = "save" => new.status = "delivered" /\ acked' = acked \union {d}
         /\ l = "fail" => new.status = "pending" /\ new.error = "attempt" /\ acked' = acked
  BY <1>1
<1>3. /\ pc' = [pc EXCEPT ![d] = l] /\ copy' = [copy EXCEPT ![d] = new]
      /\ tries' = tries /\ phase' = phase
      /\ pc' \in [Deliveries -> {"idle", "hook", "post", "save", "fail", "giveup"}]
      /\ copy' \in [Deliveries -> Rows \union {NoRow}]
  BY <1>0, <1>2, RunToOutcome
<1>4. TypeOK'
  BY <1>0, <1>2, <1>3 DEF TypeOK
<1>5. RunStep(d)
  BY <1>0, <1>2, <1>3 DEF TypeOK, RunStep, Spared
<1>6. pc'[d] = l /\ copy'[d] = new /\ posts'[d] = posts[d] + 1
  BY <1>0, <1>3 DEF TypeOK
<1>7. UnrunOK(d)' /\ RunOK(d)'
  BY <1>0, <1>3, <1>6 DEF DeliveryInv, UnrunOK, RunOK
<1>8. RowOK(d)' /\ CopyOK(d)'
  BY <1>0, <1>2, <1>3, <1>6 DEF DeliveryInv, RowOK, CopyOK
<1>9. PendingOK(d)'
  BY <1>0, <1>2, <1>3, <1>6 DEF DeliveryInv, RowOK, PendingOK
<1> QED
  BY <1>4, <1>5, <1>7, <1>8, <1>9, RunStepKeeps DEF DeliveryInv

\* A handler that writes its copy back, or fails to, and returns: nil only after
\* the end of the row, an error only if the write failed or attempts are left.
LEMMA SettleKeeps ==
    ASSUME WebhookInv, NEW d \in Deliveries, NEW ok \in BOOLEAN,
           Saved(d) \/ NotSaved(d), Return(d, ok), UNCHANGED <<hookVars, emitVars, seenVars>>,
           pc[d] \in {"save", "fail", "giveup"},
           ok => pc[d] # "fail",
           ~ok => NotSaved(d) \/ (pc[d] = "fail" /\ Saved(d) /\ copy[d].attempts < MaxAttempts)
    PROVE  WebhookInv'
<1>0. /\ TypeOK /\ DeliveryInv(d) /\ copy[d] \in Rows /\ phase[d] = "busy"
      /\ tries[d] \in 0 .. MaxAttempts /\ copy[d].attempts \in Nat /\ MaxAttempts \in Nat
      /\ posts' = posts /\ acked' = acked /\ unkeyed' = unkeyed
  BY WebhookFacts DEF WebhookInv, TypeOK, Rows, DeliveryInv, CopyOK, RunOK, seenVars
<1>1. /\ rows' \in [Deliveries -> Rows \union {NoRow}]
      /\ faults' \in Nat
      /\ harmed \subseteq harmed' /\ harmed' \subseteq Deliveries
      /\ \A k \in Deliveries \ {d} : rows'[k] = rows[k]
      /\ rows'[d] \in {rows[d], copy[d]}
      /\ rows[d] = NoRow => rows'[d] = NoRow
      /\ Saved(d) => rows[d] # NoRow /\ rows'[d] = copy[d]
      /\ NotSaved(d) => rows'[d] = NoRow \/ d \in harmed'
  BY <1>0, SaveOutcome
<1>2. /\ pc' = [pc EXCEPT ![d] = "idle"] /\ copy' = [copy EXCEPT ![d] = NoRow]
      /\ tries' = tries
      /\ phase' \in [Deliveries -> JobPhases]
      /\ \A k \in Deliveries \ {d} : phase'[k] = phase[k]
      /\ ok => phase'[d] = "succeeded"
      /\ ~ok => \/ phase'[d] = "ready" /\ tries[d] < MaxAttempts /\ d[1] \notin Inline
                \/ phase'[d] = "dead" /\ tries[d] = MaxAttempts
                \/ phase'[d] = "unretried" /\ d[1] \in Inline
  BY <1>0, ReturnOutcome
<1>3. pc'[d] = "idle" /\ \A k \in Deliveries \ {d} : pc'[k] = pc[k] /\ copy'[k] = copy[k]
  BY <1>0, <1>2 DEF TypeOK
<1>4. TypeOK'
  BY <1>0, <1>1, <1>2 DEF TypeOK, hookVars, emitVars
<1>5. RunStep(d)
  BY <1>0, <1>1, <1>2, <1>3 DEF RunStep, Spared
<1>6. UnrunOK(d)' /\ RunOK(d)' /\ CopyOK(d)'
  BY <1>0, <1>2, <1>3 DEF DeliveryInv, UnrunOK, RunOK, CopyOK
<1>7. RowOK(d)'
  BY <1>0, <1>1, <1>2, <1>3 DEF DeliveryInv, RowOK, CopyOK, hookVars
<1>8. PendingOK(d)'
  <2> SUFFICES ASSUME d \notin harmed', rows'[d] # NoRow
               PROVE  /\ rows'[d].status = "pending" =>
                            /\ d \notin acked
                            /\ phase'[d] \in {"ready", "busy"} => rows'[d].attempts = tries[d]
                            /\ phase'[d] # "succeeded"
                      /\ phase'[d] = "unretried" => rows'[d].attempts = 1 /\ 1 < MaxAttempts
                      /\ rows'[d].status = "failed" => d \notin acked
                      /\ phase'[d] # "dead"
    BY <1>0, <1>2, <1>3 DEF PendingOK
  <2>1. Saved(d) /\ rows'[d] = copy[d] /\ rows[d] # NoRow /\ d \notin harmed
    BY <1>1
  <2>2. rows[d].status = "pending"
    BY <1>0, <2>1 DEF DeliveryInv, RowOK
  <2>3. d \in acked => pc[d] = "save"
    BY <1>0, <2>1, <2>2 DEF DeliveryInv, PendingOK
  <2>4. CASE ok
    <3>1. pc[d] \in {"save", "giveup"} /\ phase'[d] = "succeeded"
      BY <1>2, <2>4
    <3> QED
      BY <1>0, <2>1, <2>3, <3>1 DEF DeliveryInv, CopyOK
  <2>5. CASE ~ok
    <3>1. pc[d] = "fail" /\ copy[d].attempts < MaxAttempts
      BY <1>1, <2>1, <2>5
    <3>2. /\ copy[d].attempts = tries[d] /\ copy[d].status = "pending"
          /\ d[1] \in Inline => tries[d] = 1
      BY <1>0, <2>1, <2>2, <3>1 DEF DeliveryInv, PendingOK, CopyOK, RunOK
    <3> QED
      BY <1>0, <1>2, <2>1, <2>3, <2>5, <3>1, <3>2
  <2> QED
    BY <2>4, <2>5
<1> QED
  BY <1>4, <1>5, <1>6, <1>7, <1>8, RunStepKeeps DEF DeliveryInv

LEMMA SaveDeliveredKeeps ==
    ASSUME WebhookInv, NEW d \in Deliveries, SaveDelivered(d)
    PROVE  WebhookInv'
<1>1. CASE Saved(d) /\ Return(d, TRUE)
  BY <1>1, SettleKeeps DEF SaveDelivered
<1>2. CASE NotSaved(d) /\ Return(d, FALSE)
  BY <1>2, SettleKeeps DEF SaveDelivered
<1> QED
  BY <1>1, <1>2 DEF SaveDelivered

LEMMA GiveUpKeeps ==
    ASSUME WebhookInv, NEW d \in Deliveries, GiveUp(d)
    PROVE  WebhookInv'
BY SettleKeeps DEF GiveUp

LEMMA SaveFailureKeeps ==
    ASSUME WebhookInv, NEW d \in Deliveries, SaveFailure(d)
    PROVE  WebhookInv'
<1> DEFINE ended == [copy[d] EXCEPT !.status = "failed"]
<1>0. /\ TypeOK /\ DeliveryInv(d) /\ copy[d] \in Rows /\ phase[d] = "busy" /\ pc[d] = "fail"
      /\ tries[d] \in 0 .. MaxAttempts /\ copy[d].attempts \in Nat /\ MaxAttempts \in Nat
      /\ UNCHANGED <<hookVars, emitVars, seenVars>> /\ UNCHANGED <<posts, acked, unkeyed>>
  BY WebhookFacts DEF SaveFailure, WebhookInv, TypeOK, Rows, DeliveryInv, CopyOK, RunOK, seenVars
<1>1. CASE NotSaved(d) /\ Return(d, FALSE)
  BY <1>0, <1>1, SettleKeeps
<1>2. CASE Saved(d) /\ ~Exhausted(copy[d]) /\ Return(d, FALSE)
  <2>1. copy[d].attempts < MaxAttempts
    BY <1>0, <1>2 DEF Exhausted
  <2> QED
    BY <1>0, <1>2, <2>1, SettleKeeps
<1>3. CASE Saved(d) /\ Exhausted(copy[d]) /\ RunTo(d, "giveup", ended)
  <2>1. /\ ended \in Rows /\ ended.status = "failed" /\ ended.attempts = copy[d].attempts
        /\ copy[d].attempts = MaxAttempts /\ tries[d] = MaxAttempts
    BY <1>0, <1>3 DEF Rows, Exhausted, DeliveryInv, CopyOK
  <2> HIDE DEF ended
  <2>2. /\ pc' = [pc EXCEPT ![d] = "giveup"] /\ copy' = [copy EXCEPT ![d] = ended]
        /\ tries' = tries /\ phase' = phase
        /\ pc' \in [Deliveries -> {"idle", "hook", "post", "save", "fail", "giveup"}]
        /\ copy' \in [Deliveries -> Rows \union {NoRow}]
    BY <1>0, <1>3, <2>1, RunToOutcome
  <2>3. pc'[d] = "giveup" /\ copy'[d] = ended
        /\ \A k \in Deliveries \ {d} : pc'[k] = pc[k] /\ copy'[k] = copy[k]
    BY <1>0, <2>2 DEF TypeOK
  <2>4. rows[d] # NoRow /\ rows' = [rows EXCEPT ![d] = copy[d]] /\ rows'[d] = copy[d]
        /\ harmed' = harmed /\ faults' = faults
    BY <1>0, <1>3 DEF Saved, Answered, TypeOK
  <2>5. TypeOK'
    BY <1>0, <2>2, <2>4 DEF TypeOK, hookVars, emitVars
  <2>6. RunStep(d)
    BY <1>0, <2>2, <2>3, <2>4 DEF RunStep, Spared, TypeOK
  <2>7. UnrunOK(d)' /\ RunOK(d)' /\ CopyOK(d)'
    BY <1>0, <2>1, <2>2, <2>3 DEF DeliveryInv, UnrunOK, RunOK, CopyOK
  <2>8. RowOK(d)'
    BY <1>0, <2>1, <2>2, <2>3, <2>4 DEF DeliveryInv, RowOK, CopyOK, hookVars
  <2>9. PendingOK(d)'
    BY <1>0, <2>1, <2>2, <2>3, <2>4 DEF DeliveryInv, RowOK, CopyOK, PendingOK
  <2> QED
    BY <2>5, <2>6, <2>7, <2>8, <2>9, RunStepKeeps DEF DeliveryInv
<1> QED
  BY <1>1, <1>2, <1>3 DEF SaveFailure

\* A lost job is nobody's any more, and its emission ends with it.
LEMMA LoseJobKeeps ==
    ASSUME WebhookInv, NEW d \in Deliveries, LoseJob(d)
    PROVE  WebhookInv'
<1>a. TypeOK /\ HookInv /\ EmitInv /\ \A k \in Deliveries : DeliveryInv(k)
  BY DEF WebhookInv
<1>b. phase' = [phase EXCEPT ![d] = "lost"] /\ tries' = tries
  BY <1>a DEF LoseJob, Q!Lose, TypeOK
<1>c. epc' \in {epc, [epc EXCEPT ![d[1]] = "done"]} /\ faults' \in Nat
  BY <1>a DEF LoseJob, Fault, TypeOK
<1>d. /\ phase[d] \in {"ready", "busy"}
       /\ pc' = [pc EXCEPT ![d] = "idle"] /\ copy' = [copy EXCEPT ![d] = NoRow]
       /\ UNCHANGED <<hookVars, rows, todo, current, posts, acked, unkeyed, harmed>>
  BY DEF LoseJob, seenVars
<1>1. TypeOK'
  BY <1>a, <1>b, <1>c, <1>d, DeliveryParts DEF TypeOK, hookVars, JobPhases, Q!Phases
<1>2. HookInv'
  BY <1>a, <1>b, <1>c, <1>d DEF HookInv, KeyIsLastShown, DraftOK, Drafts, hookVars
<1>3. EmitInv'
  <2>1. \A k \in Deliveries : phase[k] = "new" => phase'[k] = "new"
    BY <1>a, <1>b, <1>c, <1>d DEF TypeOK
  <2>2. \A e \in Events : epc'[e] \in {epc[e], "done"}
    BY <1>a, <1>b, <1>c, <1>d DEF TypeOK
  <2> QED
    BY <1>a, <1>b, <1>c, <1>d, <2>1, <2>2, DeliveryParts DEF EmitInv
<1>4. \A k \in Deliveries \ {d} : DeliveryInv(k)'
  <2>1. \A k \in Deliveries \ {d} : Spared(k)
    BY <1>a, <1>b, <1>c, <1>d DEF TypeOK, Spared
  <2> QED
    BY <1>a, <1>b, <1>c, <1>d, <2>1, SparedKeeps DEF DeliveryInv, RowOK, hookVars
<1>5. phase'[d] = "lost" /\ pc'[d] = "idle"
  BY <1>a, <1>b, <1>c, <1>d DEF TypeOK
<1>6. DeliveryInv(d)'
  BY <1>a, <1>b, <1>c, <1>d, <1>5 DEF DeliveryInv, UnrunOK, RowOK, CopyOK, RunOK, PendingOK, hookVars
<1> QED
  BY <1>1, <1>2, <1>3, <1>4, <1>6 DEF WebhookInv

-----------------------------------------------------------------------------
(* The emission's steps.                                                   *)

\* A step of the emission of event e: other events' deliveries are spared, and
\* those still to serve keep neither row nor job.
LEMMA EmitStepKeeps ==
    ASSUME WebhookInv, NEW e \in Events, TypeOK', UNCHANGED <<hookVars, pc, copy, posts, acked, unkeyed>>,
           harmed \subseteq harmed',
           \A x \in Events \ {e} : epc'[x] = epc[x] /\ todo'[x] = todo[x] /\ current'[x] = current[x],
           \A d \in Deliveries : ~Spared(d) => d[1] = e /\ DeliveryInv(d)',
           epc'[e] # "new",
           \A h \in todo'[e] :
              phase'[<<e, h>>] = "new" /\ rows'[<<e, h>>] = NoRow /\ Spared(<<e, h>>),
           epc'[e] \in {"enqueue", "inside"} => current'[e] \in Hooks \ todo'[e],
           epc'[e] = "enqueue" => phase'[<<e, current'[e]>>] = "new"
    PROVE  WebhookInv'
<1>1. HookInv'
  BY DEF WebhookInv, HookInv, KeyIsLastShown, DraftOK, Drafts, hookVars
<1>2. EmitInv'
  <2>1. \A d \in Deliveries : d[1] # e => Spared(d)
    OBVIOUS
  <2>2. ASSUME NEW d \in Deliveries, epc'[d[1]] = "new" \/ d[2] \in todo'[d[1]]
        PROVE  phase'[d] = "new" /\ rows'[d] = NoRow
    <3>1. CASE d[1] = e
      BY <2>2, <3>1, DeliveryParts
    <3>2. CASE d[1] # e
      BY <2>1, <2>2, <3>2, DeliveryParts DEF WebhookInv, EmitInv, Spared
    <3> QED
      BY <3>1, <3>2
  <2>3. ASSUME NEW x \in Events
        PROVE  /\ epc'[x] \in {"enqueue", "inside"} => current'[x] \in Hooks \ todo'[x]
               /\ epc'[x] = "enqueue" => phase'[<<x, current'[x]>>] = "new"
    <3>1. CASE x = e
      BY <3>1
    <3>2. CASE x # e
      <4>1. \A h \in Hooks : phase'[<<x, h>>] = phase[<<x, h>>]
        BY <2>1, <3>2, DeliveryParts DEF Spared
      <4> QED
        BY <3>2, <4>1 DEF WebhookInv, EmitInv
    <3> QED
      BY <3>1, <3>2
  <2> QED
    BY <2>2, <2>3 DEF EmitInv
<1>3. ASSUME NEW d \in Deliveries PROVE DeliveryInv(d)'
  <2>1. CASE Spared(d)
    <3>1. DeliveryInv(d) /\ hooks' = hooks
      BY DEF WebhookInv, hookVars
    <3> QED
      BY <2>1, <3>1, SparedKeeps DEF DeliveryInv, RowOK
  <2> QED
    BY <2>1
<1> QED
  BY <1>1, <1>2, <1>3 DEF WebhookInv

LEMMA ListKeeps ==
    ASSUME WebhookInv, NEW e \in Events, ListEnabledWebhooks(e)
    PROVE  WebhookInv'
<1>1. /\ UNCHANGED <<hookVars, rows, phase, tries, current, pc, copy, posts, acked, unkeyed, harmed>>
      /\ epc[e] = "new"
  BY DEF ListEnabledWebhooks, jobVars, runVars, seenVars
<1>2. /\ epc' \in {[epc EXCEPT ![e] = "loop"], [epc EXCEPT ![e] = "done"]}
      /\ todo' \in {todo, [todo EXCEPT ![e] =
                {h \in Hooks : hooks[h] # NoRow /\ hooks[h].enabled /\ hooks[h].subscribed}]}
      /\ faults' \in {faults, faults + 1}
  BY DEF ListEnabledWebhooks, Fault
<1>3. TypeOK'
  BY <1>1, <1>2 DEF WebhookInv, TypeOK, hookVars
<1>4. /\ \A x \in Events \ {e} : epc'[x] = epc[x] /\ todo'[x] = todo[x] /\ current'[x] = current[x]
      /\ epc'[e] \in {"loop", "done"} /\ todo'[e] \subseteq Hooks
  BY <1>1, <1>2 DEF WebhookInv, TypeOK
<1>5. \A d \in Deliveries : Spared(d)
  BY <1>1 DEF Spared
<1>6. \A h \in Hooks : phase[<<e, h>>] = "new" /\ rows[<<e, h>>] = NoRow
  BY <1>1, DeliveryParts DEF WebhookInv, EmitInv
<1>7. \A h \in todo'[e] :
         phase'[<<e, h>>] = "new" /\ rows'[<<e, h>>] = NoRow /\ Spared(<<e, h>>)
  BY <1>1, <1>4, <1>5, <1>6, DeliveryParts
<1>8. UNCHANGED <<hookVars, pc, copy, posts, acked, unkeyed>> /\ harmed \subseteq harmed'
  BY <1>1
<1>9. /\ \A d \in Deliveries : ~Spared(d) => d[1] = e /\ DeliveryInv(d)'
      /\ epc'[e] # "new" /\ epc'[e] \notin {"enqueue", "inside"} /\ epc'[e] # "enqueue"
  BY <1>4, <1>5
<1> QED
  BY <1>3, <1>4, <1>7, <1>8, <1>9, EmitStepKeeps

LEMMA CreateDeliveryKeeps ==
    ASSUME WebhookInv, NEW e \in Events, CreateDelivery(e)
    PROVE  WebhookInv'
<1>1. PICK h \in todo[e] :
         /\ todo' = [todo EXCEPT ![e] = @ \ {h}]
         /\ \/ /\ hooks[h] # NoRow
               /\ rows' = [rows EXCEPT ![<<e, h>>] = NewDelivery]
               /\ current' = [current EXCEPT ![e] = h]
               /\ epc' = [epc EXCEPT ![e] = "enqueue"]
               /\ Answered
            \/ /\ hooks[h] = NoRow
               /\ UNCHANGED <<rows, current, epc>>
               /\ Answered
            \/ /\ hooks[h] # NoRow
               /\ rows' \in {rows, [rows EXCEPT ![<<e, h>>] = NewDelivery]}
               /\ UNCHANGED <<current, epc>>
               /\ Failed(<<e, h>>)
  BY DEF CreateDelivery
<1> DEFINE d == <<e, h>>
<1>2. TypeOK /\ EmitInv /\ DeliveryInv(d) /\ h \in Hooks /\ d \in Deliveries /\ d[1] = e /\ d[2] = h
  BY <1>1, DeliveryParts DEF WebhookInv, TypeOK
<1>3. UNCHANGED <<hookVars, phase, tries, pc, copy, posts, acked, unkeyed>> /\ epc[e] = "loop"
  BY DEF CreateDelivery, jobVars, runVars, seenVars
<1>4. \A g \in todo[e] : phase[<<e, g>>] = "new" /\ rows[<<e, g>>] = NoRow
  <2> TAKE g \in todo[e]
  <2>1. <<e, g>> \in Deliveries /\ <<e, g>>[1] = e /\ <<e, g>>[2] = g
    BY <1>2, DeliveryParts DEF TypeOK
  <2> QED
    BY <1>2, <2>1 DEF EmitInv
<1>5. /\ rows' \in {rows, [rows EXCEPT ![d] = NewDelivery]}
      /\ rows' = rows \/ hooks[h] # NoRow
      /\ harmed' \in {harmed, harmed \union {d}} /\ faults' \in Nat
      /\ \/ current' = [current EXCEPT ![e] = h] /\ epc' = [epc EXCEPT ![e] = "enqueue"]
         \/ current' = current /\ epc' = epc
  BY <1>1, <1>2 DEF Answered, Failed, Fault, TypeOK
<1>6. TypeOK'
  BY <1>1, <1>2, <1>3, <1>5, WebhookFacts DEF TypeOK, hookVars
<1>7. \A k \in Deliveries : k # d => Spared(k)
  BY <1>2, <1>3, <1>5 DEF TypeOK, Spared
<1>8. DeliveryInv(d)'
  <2>1. pc[d] = "idle" /\ tries[d] = 0 /\ posts[d] = 0 /\ d \notin acked
    BY <1>1, <1>2, <1>4 DEF DeliveryInv, UnrunOK, RunOK
  <2>2. rows'[d] # NoRow => rows'[d] = NewDelivery /\ hooks[h] # NoRow
    BY <1>1, <1>2, <1>4, <1>5 DEF TypeOK
  <2>3. hooks' = hooks
    BY <1>3 DEF hookVars
  <2>4. UnrunOK(d)' /\ RunOK(d)' /\ CopyOK(d)'
    BY <1>1, <1>3, <1>4, <2>1, <2>2 DEF UnrunOK, RunOK, CopyOK, NewDelivery
  <2>5. RowOK(d)'
    BY <1>2, <1>3, <2>1, <2>2, <2>3, WebhookFacts DEF RowOK
  <2>6. PendingOK(d)'
    BY <1>1, <1>3, <1>4, <2>1, <2>2, WebhookFacts DEF PendingOK
  <2> QED
    BY <2>4, <2>5, <2>6 DEF DeliveryInv
<1>9. /\ \A x \in Events \ {e} : epc'[x] = epc[x] /\ todo'[x] = todo[x] /\ current'[x] = current[x]
      /\ todo'[e] = todo[e] \ {h}
      /\ epc'[e] = "loop" \/ (epc'[e] = "enqueue" /\ current'[e] = h)
  BY <1>1, <1>2, <1>3, <1>5 DEF TypeOK
<1>10. \A g \in todo'[e] :
          phase'[<<e, g>>] = "new" /\ rows'[<<e, g>>] = NoRow /\ Spared(<<e, g>>)
  <2> SUFFICES ASSUME NEW g \in todo[e] \ {h}
               PROVE  phase'[<<e, g>>] = "new" /\ rows'[<<e, g>>] = NoRow /\ Spared(<<e, g>>)
    BY <1>9
  <2>1. <<e, g>> \in Deliveries /\ <<e, g>> # d /\ g \in Hooks
    BY <1>2, DeliveryParts DEF TypeOK
  <2> QED
    BY <1>4, <1>7, <2>1 DEF Spared
<1>11. harmed \subseteq harmed'
  BY <1>5
<1>12. \A k \in Deliveries : ~Spared(k) => k[1] = e /\ DeliveryInv(k)'
  BY <1>2, <1>7, <1>8
<1> QED
  BY <1>2, <1>3, <1>4, <1>6, <1>9, <1>10, <1>11, <1>12, EmitStepKeeps

LEMMA EnqueueKeeps ==
    ASSUME WebhookInv, NEW e \in Events, EnqueueDelivery(e)
    PROVE  WebhookInv'
<1>0. PICK h : h = current[e]
  OBVIOUS
<1> DEFINE d == <<e, h>>
<1>1. /\ UNCHANGED <<hookVars, rows, todo, pc, copy, posts, acked, unkeyed>>
      /\ epc[e] = "enqueue"
  BY DEF EnqueueDelivery, runVars, seenVars
<1>2. /\ TypeOK /\ EmitInv /\ DeliveryInv(d) /\ h \in Hooks \ todo[e]
      /\ d \in Deliveries /\ d[1] = e /\ d[2] = h /\ phase[d] = "new"
  BY <1>0, <1>1, DeliveryParts DEF WebhookInv, EmitInv
<1>3. /\ phase' \in {[phase EXCEPT ![d] = "ready"], [phase EXCEPT ![d] = "lost"],
                     [phase EXCEPT ![d] = "busy"]}
      /\ phase' = [phase EXCEPT ![d] = "ready"] => e \notin Inline
      /\ tries' = tries
      /\ harmed' \in {harmed, harmed \union {d}} /\ faults' \in Nat
  BY <1>0, <1>2 DEF EnqueueDelivery, Q!Submit, Q!Lose, Q!Move, Answered, Failed, Fault, TypeOK
<1>4. \/ epc' = [epc EXCEPT ![e] = "loop"] /\ current' = [current EXCEPT ![e] = NoRow]
      \/ epc' = [epc EXCEPT ![e] = "inside"] /\ current' = current
  BY DEF EnqueueDelivery, EmitNext
<1>5. TypeOK'
  BY <1>1, <1>2, <1>3, <1>4 DEF TypeOK, hookVars, JobPhases, Q!Phases
<1>6. \A k \in Deliveries : k # d => Spared(k)
  BY <1>1, <1>2, <1>3 DEF TypeOK, Spared
<1>7. DeliveryInv(d)'
  <2>1. pc[d] = "idle" /\ tries[d] = 0 /\ posts[d] = 0 /\ d \notin acked
        /\ (rows[d] # NoRow => rows[d] = NewDelivery)
    BY <1>2 DEF DeliveryInv, UnrunOK, RunOK
  <2>2. /\ phase'[d] \in {"ready", "lost", "busy"} /\ harmed \subseteq harmed'
        /\ phase'[d] = "ready" => d[1] \notin Inline
    BY <1>2, <1>3 DEF TypeOK
  <2>3. UnrunOK(d)' /\ RunOK(d)' /\ CopyOK(d)'
    BY <1>1, <1>3, <2>1, <2>2 DEF UnrunOK, RunOK, CopyOK
  <2>4. RowOK(d)'
    BY <1>1, <1>2, <1>3, <2>1 DEF DeliveryInv, RowOK, hookVars
  <2>5. PendingOK(d)'
    BY <1>1, <1>2, <1>3, <2>1, <2>2, WebhookFacts DEF PendingOK
  <2> QED
    BY <2>3, <2>4, <2>5 DEF DeliveryInv
<1>8. /\ \A x \in Events \ {e} : epc'[x] = epc[x] /\ current'[x] = current[x]
      /\ epc'[e] = "loop" \/ (epc'[e] = "inside" /\ current'[e] = h)
  BY <1>0, <1>2, <1>4 DEF TypeOK
<1>9. \A g \in todo'[e] :
         phase'[<<e, g>>] = "new" /\ rows'[<<e, g>>] = NoRow /\ Spared(<<e, g>>)
  <2> SUFFICES ASSUME NEW g \in todo[e]
               PROVE  phase'[<<e, g>>] = "new" /\ rows'[<<e, g>>] = NoRow /\ Spared(<<e, g>>)
    BY <1>1
  <2>1. <<e, g>> \in Deliveries /\ <<e, g>> # d /\ g \in Hooks
    BY <1>2, DeliveryParts DEF TypeOK
  <2>2. phase[<<e, g>>] = "new" /\ rows[<<e, g>>] = NoRow
    BY <1>2, <2>1, DeliveryParts DEF EmitInv
  <2> QED
    BY <1>6, <2>1, <2>2 DEF Spared
<1>10. harmed \subseteq harmed'
  BY <1>3
<1>11. \A k \in Deliveries : ~Spared(k) => k[1] = e /\ DeliveryInv(k)'
  BY <1>2, <1>6, <1>7
<1> QED
  BY <1>1, <1>2, <1>5, <1>8, <1>9, <1>10, <1>11, EmitStepKeeps

\* The emission goes on after a handler it ran itself, or ends.
LEMMA EmitOnKeeps ==
    ASSUME WebhookInv, NEW e \in Events, ReturnInside(e) \/ EmitDone(e)
    PROVE  WebhookInv'
<1>1. /\ UNCHANGED <<hookVars, rows, phase, tries, todo, pc, copy, posts, acked, unkeyed, faults,
                  harmed>>
      /\ epc[e] # "new"
      /\ epc' \in {[epc EXCEPT ![e] = "loop"], [epc EXCEPT ![e] = "done"]}
      /\ current' \in {current, [current EXCEPT ![e] = NoRow]}
  BY DEF ReturnInside, EmitDone, EmitNext, jobVars, runVars, seenVars
<1>2. TypeOK'
  BY <1>1 DEF WebhookInv, TypeOK, hookVars
<1>3. /\ \A x \in Events \ {e} : epc'[x] = epc[x] /\ current'[x] = current[x]
      /\ epc'[e] \in {"loop", "done"} /\ todo[e] \subseteq Hooks
  BY <1>1 DEF WebhookInv, TypeOK
<1>4. \A d \in Deliveries : Spared(d)
  BY <1>1 DEF Spared
<1>5. \A h \in todo[e] : phase[<<e, h>>] = "new" /\ rows[<<e, h>>] = NoRow
  BY <1>3, DeliveryParts DEF WebhookInv, EmitInv
<1>6. \A h \in todo'[e] :
         phase'[<<e, h>>] = "new" /\ rows'[<<e, h>>] = NoRow /\ Spared(<<e, h>>)
  BY <1>1, <1>3, <1>4, <1>5, DeliveryParts
<1>7. UNCHANGED <<hookVars, pc, copy, posts, acked, unkeyed>> /\ harmed \subseteq harmed'
  BY <1>1
<1>8. /\ \A x \in Events \ {e} : epc'[x] = epc[x] /\ todo'[x] = todo[x] /\ current'[x] = current[x]
      /\ \A d \in Deliveries : ~Spared(d) => d[1] = e /\ DeliveryInv(d)'
      /\ epc'[e] # "new" /\ epc'[e] \notin {"enqueue", "inside"} /\ epc'[e] # "enqueue"
  BY <1>1, <1>3, <1>4
<1> QED
  BY <1>2, <1>6, <1>7, <1>8, EmitStepKeeps

-----------------------------------------------------------------------------
(* The managers' steps.                                                    *)

\* A step of a manager that leaves deliveries alone, but for those it deletes.
LEMMA HookStepKeeps ==
    ASSUME WebhookInv, TypeOK', HookInv', UNCHANGED <<jobVars, emitVars, runVars, seenVars, harmed>>,
           \A d \in Deliveries :
              rows'[d] = NoRow \/ (rows'[d] = rows[d] /\ hooks'[d[2]] # NoRow)
    PROVE  WebhookInv'
<1> USE DEF jobVars, emitVars, runVars, seenVars
<1>1. EmitInv'
  BY DEF WebhookInv, EmitInv
<1>2. ASSUME NEW d \in Deliveries PROVE DeliveryInv(d)'
  <2>1. DeliveryInv(d)
    BY DEF WebhookInv
  <2>2. CASE rows'[d] = NoRow
    BY <2>1, <2>2 DEF DeliveryInv, UnrunOK, RowOK, CopyOK, RunOK, PendingOK
  <2>3. CASE rows'[d] = rows[d] /\ hooks'[d[2]] # NoRow
    BY <2>1, <2>3, SparedKeeps DEF Spared
  <2> QED
    BY <2>2, <2>3
<1> QED
  BY <1>1, <1>2 DEF WebhookInv

LEMMA RowHasHook ==
    ASSUME WebhookInv, NEW d \in Deliveries, rows[d] # NoRow
    PROVE  hooks[d[2]] # NoRow
BY DEF WebhookInv, DeliveryInv, RowOK

LEMMA CreateWebhookKeeps ==
    ASSUME WebhookInv, NEW h \in Hooks, CreateWebhook(h)
    PROVE  WebhookInv'
<1> DEFINE row == [enabled |-> TRUE, subscribed |-> TRUE, key |-> keys + 1, version |-> 1]
<1>0. TypeOK /\ HookInv /\ keys \in Nat /\ row.key = keys + 1 /\ row \in HookRows
  BY DEF WebhookInv, TypeOK, HookRows
<1>1. row # NoRow
  BY <1>0, WebhookFacts
<1> HIDE DEF row
<1>2. /\ hooks' = [hooks EXCEPT ![h] = row] /\ keys' = keys + 1
      /\ shown' = [shown EXCEPT ![h] = keys + 1] /\ shown[h] = 0
      /\ UNCHANGED <<apc, draft, updates, undone, rows, jobVars, emitVars, runVars, faults, seenVars, harmed>>
  BY DEF CreateWebhook, row
<1>3. TypeOK'
  BY <1>0, <1>1, <1>2 DEF TypeOK, jobVars, emitVars, runVars, seenVars
<1>4. hooks'[h] = row /\ shown'[h] = keys + 1
      /\ \A g \in Hooks \ {h} : hooks'[g] = hooks[g] /\ shown'[g] = shown[g]
  BY <1>0, <1>1, <1>2 DEF TypeOK
<1>5. HookInv'
  <2>1. \A a \in Admins : apc[a] = "write" => draft[a].hook \in Hooks \ {h}
    BY <1>0, <1>1, <1>2 DEF HookInv, DraftOK, Drafts
  <2> QED
    BY <1>0, <1>1, <1>2, <1>4, <2>1 DEF HookInv, KeyIsLastShown, DraftOK
<1>6. \A d \in Deliveries : rows'[d] = NoRow \/ (rows'[d] = rows[d] /\ hooks'[d[2]] # NoRow)
  BY <1>0, <1>1, <1>2, <1>4, DeliveryParts, RowHasHook
<1> QED
  BY <1>2, <1>3, <1>5, <1>6, HookStepKeeps

LEMMA DeleteWebhookKeeps ==
    ASSUME WebhookInv, NEW h \in Hooks, DeleteWebhook(h)
    PROVE  WebhookInv'
<1>1. /\ TypeOK /\ HookInv /\ hooks' = [hooks EXCEPT ![h] = NoRow]
      /\ rows' = [d \in Deliveries |-> IF d[2] = h THEN NoRow ELSE rows[d]]
      /\ UNCHANGED <<apc, draft, updates, keys, shown, undone, jobVars, emitVars, runVars, faults, seenVars, harmed>>
  BY DEF DeleteWebhook, WebhookInv
<1>2. TypeOK'
  BY <1>1 DEF TypeOK, jobVars, emitVars, runVars, seenVars
<1>3. \A g \in Hooks : hooks'[g] # NoRow => hooks'[g] = hooks[g] /\ g # h
  BY <1>1 DEF TypeOK
<1>4. HookInv'
  BY <1>1, <1>3 DEF HookInv, KeyIsLastShown, DraftOK, Drafts
<1>5. \A d \in Deliveries : rows'[d] = NoRow \/ (rows'[d] = rows[d] /\ hooks'[d[2]] # NoRow)
  <2> SUFFICES ASSUME NEW d \in Deliveries, rows'[d] # NoRow
               PROVE  rows'[d] = rows[d] /\ hooks'[d[2]] # NoRow
    OBVIOUS
  <2>1. d[2] # h /\ rows'[d] = rows[d]
    BY <1>1
  <2>2. hooks'[d[2]] = hooks[d[2]]
    BY <1>1, <2>1, DeliveryParts DEF TypeOK
  <2> QED
    BY <2>1, <2>2, RowHasHook
<1> QED
  BY <1>1, <1>2, <1>4, <1>5, HookStepKeeps

LEMMA ReadForUpdateKeeps ==
    ASSUME WebhookInv, NEW a \in Admins, NEW h \in Hooks, ReadForUpdate(a, h)
    PROVE  WebhookInv'
<1>1. TypeOK /\ HookInv /\ hooks[h] \in HookRows /\ hooks[h] # NoRow /\ keys \in Nat /\ updates \in Nat
  BY DEF ReadForUpdate, WebhookInv, TypeOK
<1>2. PICK field \in {"enabled", "events", "rotate"} :
         /\ draft' = [draft EXCEPT ![a] = [hook |-> h, row |-> Change(hooks[h], field),
                                           rotated |-> field = "rotate"]]
         /\ keys' = IF field = "rotate" THEN keys + 1 ELSE keys
  BY DEF ReadForUpdate
<1>3. /\ updates' = updates + 1 /\ apc' = [apc EXCEPT ![a] = "write"]
      /\ UNCHANGED <<hooks, shown, undone, rows, jobVars, emitVars, runVars, faults, seenVars, harmed>>
  BY DEF ReadForUpdate
<1>4. PICK row : row = Change(hooks[h], field)
  OBVIOUS
<1>5. /\ row \in HookRows
      /\ field = "rotate" => row.key = keys + 1
      /\ field # "rotate" => row.key = hooks[h].key
  <2>1. CASE field = "enabled"
    BY <1>1, <1>4, <2>1 DEF Change, HookRows
  <2>2. CASE field = "events"
    BY <1>1, <1>4, <2>2 DEF Change, HookRows
  <2>3. CASE field = "rotate"
    <3>1. hooks[h].version + 1 \in Nat /\ keys + 1 \in Nat
      BY <1>1 DEF HookRows
    <3>2. row = [hooks[h] EXCEPT !.key = keys + 1, !.version = @ + 1]
      BY <1>4, <2>3 DEF Change
    <3> QED
      BY <1>1, <2>3, <3>1, <3>2 DEF HookRows
  <2> QED
    BY <2>1, <2>2, <2>3
<1>6. PICK new \in Drafts :
         /\ new.hook = h /\ new.row = row /\ (new.rotated <=> field = "rotate")
         /\ draft' = [draft EXCEPT ![a] = new]
  <2>1. [hook |-> h, row |-> row, rotated |-> field = "rotate"] \in Drafts
    BY <1>5 DEF Drafts
  <2> QED
    BY <1>2, <1>4, <2>1
<1>7. TypeOK'
  BY <1>1, <1>2, <1>3, <1>6 DEF TypeOK, jobVars, emitVars, runVars, seenVars
<1>8. HookInv'
  <2>1. shown[h] # 0
    BY <1>1 DEF HookInv
  <2>2. draft'[a] = new /\ \A b \in Admins \ {a} : draft'[b] = draft[b] /\ apc'[b] = apc[b]
    BY <1>1, <1>3, <1>6 DEF TypeOK
  <2>3. DraftOK(a)'
    <3>1. row.key # 0 \/ ~new.rotated
      BY <1>1, <1>5, <1>6
    <3>2. ~new.rotated => row.key = hooks[h].key
      BY <1>5, <1>6
    <3> QED
      BY <1>3, <1>6, <2>1, <2>2, <3>1, <3>2 DEF DraftOK
  <2>4. ASSUME NEW b \in Admins \ {a}, apc'[b] = "write" PROVE DraftOK(b)'
    BY <1>1, <1>3, <2>2, <2>4 DEF HookInv, DraftOK, Drafts
  <2> QED
    BY <1>1, <1>3, <2>3, <2>4 DEF HookInv, KeyIsLastShown
<1>9. \A d \in Deliveries : rows'[d] = NoRow \/ (rows'[d] = rows[d] /\ hooks'[d[2]] # NoRow)
  BY <1>3, RowHasHook
<1> QED
  BY <1>3, <1>7, <1>8, <1>9, HookStepKeeps

LEMMA WriteUpdateKeeps ==
    ASSUME WebhookInv, NEW a \in Admins, WriteUpdate(a)
    PROVE  WebhookInv'
<1>1. PICK h : h = draft[a].hook
  OBVIOUS
<1>2. /\ TypeOK /\ HookInv /\ apc[a] = "write" /\ DraftOK(a)
      /\ h \in Hooks /\ draft[a].row \in HookRows /\ draft[a].row # NoRow
      /\ shown[h] # 0 /\ draft[a].row.key \in Nat
  BY <1>1, WebhookFacts DEF WriteUpdate, WebhookInv, HookInv, DraftOK, Drafts, HookRows
<1>3. /\ apc' = [apc EXCEPT ![a] = "idle"] /\ draft' = [draft EXCEPT ![a] = NoRow]
      /\ UNCHANGED <<updates, keys, rows, jobVars, emitVars, runVars, faults, seenVars, harmed>>
      /\ undone \subseteq undone' /\ undone' \subseteq undone \union {h}
      /\ (\E b \in Admins \ {a} : apc[b] = "write" /\ draft[b].hook = h) => h \in undone'
  BY <1>1 DEF WriteUpdate
<1>4. \/ hooks[h] = NoRow /\ hooks' = hooks /\ shown' = shown
      \/ /\ hooks[h] # NoRow /\ hooks' = [hooks EXCEPT ![h] = draft[a].row]
         /\ \/ draft[a].rotated /\ shown' = [shown EXCEPT ![h] = draft[a].row.key]
            \/ ~draft[a].rotated /\ shown' = shown
  BY <1>1 DEF WriteUpdate, Columns
<1>5. TypeOK'
  BY <1>2, <1>3, <1>4 DEF TypeOK, jobVars, emitVars, runVars, seenVars
<1>6. \A g \in Hooks \ {h} : hooks'[g] = hooks[g] /\ shown'[g] = shown[g]
  BY <1>2, <1>4 DEF TypeOK
<1>7. /\ hooks'[h] # NoRow => hooks[h] # NoRow /\ hooks'[h] = draft[a].row
      /\ hooks[h] # NoRow => hooks'[h] # NoRow
      /\ shown'[h] # 0
      /\ hooks'[h] # NoRow /\ h \notin undone' => hooks'[h].key = shown'[h]
  <2>1. CASE hooks[h] = NoRow
    BY <1>2, <1>4, <2>1
  <2>2. CASE hooks[h] # NoRow /\ draft[a].rotated
    BY <1>1, <1>2, <1>4, <2>2 DEF TypeOK, DraftOK
  <2>3. CASE hooks[h] # NoRow /\ ~draft[a].rotated
    BY <1>1, <1>2, <1>3, <1>4, <2>3 DEF TypeOK, DraftOK, HookInv, KeyIsLastShown
  <2> QED
    BY <2>1, <2>2, <2>3
<1>8. HookInv'
  <2>1. \A b \in Admins : apc'[b] = "write" => b # a /\ apc[b] = "write" /\ draft'[b] = draft[b]
    BY <1>2, <1>3 DEF TypeOK
  <2>2. ASSUME NEW b \in Admins, apc'[b] = "write" PROVE DraftOK(b)'
    <3>1. b # a /\ apc[b] = "write" /\ draft'[b] = draft[b] /\ DraftOK(b)
      BY <1>2, <2>1, <2>2 DEF HookInv
    <3>2. draft[b].hook \in Hooks /\ (draft[b].hook = h => h \in undone')
      BY <1>3, <3>1 DEF DraftOK, Drafts
    <3> QED
      BY <1>2, <1>3, <1>6, <1>7, <3>1, <3>2 DEF DraftOK
  <2>3. \A g \in Hooks : hooks'[g] # NoRow => shown'[g] # 0
    BY <1>2, <1>6, <1>7 DEF HookInv
  <2>4. KeyIsLastShown'
    BY <1>2, <1>3, <1>6, <1>7 DEF HookInv, KeyIsLastShown
  <2> QED
    BY <2>2, <2>3, <2>4 DEF HookInv
<1>9. \A d \in Deliveries : rows'[d] = NoRow \/ (rows'[d] = rows[d] /\ hooks'[d[2]] # NoRow)
  BY <1>3, <1>6, <1>7, DeliveryParts, RowHasHook
<1> QED
  BY <1>3, <1>5, <1>8, <1>9, HookStepKeeps

-----------------------------------------------------------------------------
(* The theorems.                                                           *)

LEMMA WebhookStep == WebhookInv /\ [Next]_vars => WebhookInv'
<1> SUFFICES ASSUME WebhookInv, [Next]_vars PROVE WebhookInv'
  OBVIOUS
<1>1. CASE \E h \in Hooks : CreateWebhook(h) \/ DeleteWebhook(h)
  BY <1>1, CreateWebhookKeeps, DeleteWebhookKeeps
<1>2. CASE \E a \in Admins : WriteUpdate(a) \/ \E h \in Hooks : ReadForUpdate(a, h)
  BY <1>2, WriteUpdateKeeps, ReadForUpdateKeeps
<1>3. CASE \E e \in Events : ListEnabledWebhooks(e) \/ CreateDelivery(e) \/ EnqueueDelivery(e)
                             \/ ReturnInside(e) \/ EmitDone(e)
  BY <1>3, ListKeeps, CreateDeliveryKeeps, EnqueueKeeps, EmitOnKeeps
<1>4. CASE \E d \in Deliveries : PopDelivery(d) \/ Handler(d) \/ LoseJob(d)
  <2> PICK d \in Deliveries : PopDelivery(d) \/ Handler(d) \/ LoseJob(d)
    BY <1>4
  <2>1. CASE Dispatch(d) \/ SkipUnconfigured(d) \/ FindWebhook(d) \/ Post(d)
    BY <2>1, DispatchKeeps, SkipKeeps, FindKeeps, PostKeeps
  <2>2. CASE SaveDelivered(d) \/ SaveFailure(d) \/ GiveUp(d)
    BY <2>2, SaveDeliveredKeeps, SaveFailureKeeps, GiveUpKeeps
  <2>3. CASE PopDelivery(d) \/ LoseJob(d)
    BY <2>3, PopKeeps, LoseJobKeeps
  <2> QED
    BY <2>1, <2>2, <2>3 DEF Handler
<1>5. CASE UNCHANGED vars
  <2>1. TypeOK'
    BY <1>5 DEF WebhookInv, TypeOK, vars, hookVars, jobVars, emitVars, runVars, seenVars
  <2>2. HookInv'
    BY <1>5 DEF WebhookInv, HookInv, KeyIsLastShown, DraftOK, vars, hookVars
  <2>3. \A d \in Deliveries : rows'[d] = NoRow \/ (rows'[d] = rows[d] /\ hooks'[d[2]] # NoRow)
    BY <1>5, RowHasHook DEF vars, hookVars
  <2> QED
    BY <1>5, <2>1, <2>2, <2>3, HookStepKeeps DEF vars
<1> QED
  BY <1>1, <1>2, <1>3, <1>4, <1>5 DEF Next

\* The types, the managers' drafts, the deliveries still to serve, and what rows,
\* copies and jobs of deliveries know of each other hold in every reachable state.
THEOREM WebhookInductive == Spec => []WebhookInv
BY WebhookInitInv, WebhookStep, PTL DEF Spec

\* Every reachable state of subscriptions and deliveries is well typed.
THEOREM WebhookTypeCorrect == Spec => []TypeOK
<1>1. WebhookInv => TypeOK
  BY DEF WebhookInv
<1> QED
  BY <1>1, WebhookInductive, PTL

\* The history of deliveries says "delivered" only of what a receiver accepted,
\* and "failed" of nothing it accepted, unless a statement about it failed.
THEOREM StatusIsTrueHolds == Spec => []StatusIsTrue
<1>1. WebhookInv => StatusIsTrue
  BY DEF WebhookInv, DeliveryInv, RowOK, PendingOK, StatusIsTrue
<1> QED
  BY <1>1, WebhookInductive, PTL

\* A receiver gets at most one POST per dispatch, and a row that gave up after
\* failed attempts had all of them, whatever statements failed in between.
THEOREM AttemptsHonestHolds == Spec => []AttemptsHonest
<1>1. WebhookInv => AttemptsHonest
  BY DEF WebhookInv, DeliveryInv, RowOK, RunOK, AttemptsHonest
<1> QED
  BY <1>1, WebhookInductive, PTL

\* Whatever statements fail and processes run without the key, the delivery of a
\* handler that has run for the last time is settled, skipped for want of the key,
\* or left pending with its one attempt outside the queue counted.
THEOREM EndsSettledHolds == Spec => []EndsSettled
<1>1. WebhookInv => EndsSettled
  <2> SUFFICES ASSUME WebhookInv, NEW d \in Deliveries \ harmed, rows[d] # NoRow
               PROVE  /\ phase[d] = "succeeded" => IsTerminal(rows[d]) \/ d \in unkeyed
                      /\ phase[d] = "unretried" =>
                             d[1] \in Inline /\ rows[d].attempts = 1 /\ 1 < MaxAttempts
                      /\ phase[d] # "dead"
    BY DEF EndsSettled
  <2>1. PendingOK(d) /\ RunOK(d)
    BY DEF WebhookInv, DeliveryInv
  <2>2. rows[d].status \in {"pending", "delivered", "failed"}
    BY DEF WebhookInv, TypeOK, Rows
  <2> QED
    BY <2>1, <2>2 DEF PendingOK, RunOK, IsTerminal
<1> QED
  BY <1>1, WebhookInductive, PTL

\* POSTs are signed with the secret last shown, unless updates overlapped.
THEOREM KeyIsLastShownHolds == Spec => []KeyIsLastShown
<1>1. WebhookInv => KeyIsLastShown
  BY DEF WebhookInv, HookInv
<1> QED
  BY <1>1, WebhookInductive, PTL

\* A step about the row of d finds it pending, or not there.
LEMMA TerminalStays ==
    ASSUME WebhookInv, [Next]_vars, NEW d \in Deliveries, rows[d] # NoRow, IsTerminal(rows[d])
    PROVE  rows'[d] \in {rows[d], NoRow} /\ posts'[d] = posts[d]
<1>1. /\ TypeOK /\ EmitInv /\ DeliveryInv(d)
      /\ pc[d] \notin {"post", "save", "fail", "giveup"}
  BY DEF WebhookInv, DeliveryInv, RowOK, IsTerminal
<1>2. CASE UNCHANGED <<rows, posts>>
  BY <1>2
<1>3. CASE \E h \in Hooks : DeleteWebhook(h)
  BY <1>3 DEF DeleteWebhook, seenVars
<1>4. CASE \E e \in Events : CreateDelivery(e)
  <2> PICK e \in Events : CreateDelivery(e)
    BY <1>4
  <2>1. PICK h \in todo[e] : rows' \in {rows, [rows EXCEPT ![<<e, h>>] = NewDelivery]}
    BY DEF CreateDelivery
  <2>2. <<e, h>> \in Deliveries /\ <<e, h>>[1] = e /\ <<e, h>>[2] = h
    BY <1>1, DeliveryParts DEF TypeOK
  <2>3. <<e, h>> # d
    BY <1>1, <2>2 DEF EmitInv
  <2> QED
    BY <1>1, <2>1, <2>2, <2>3 DEF CreateDelivery, TypeOK, seenVars
<1>5. CASE \E k \in Deliveries : Post(k) \/ SaveDelivered(k) \/ SaveFailure(k) \/ GiveUp(k)
  <2> PICK k \in Deliveries : Post(k) \/ SaveDelivered(k) \/ SaveFailure(k) \/ GiveUp(k)
    BY <1>5
  <2>1. k # d
    BY <1>1 DEF Post, SaveDelivered, SaveFailure, GiveUp
  <2>2. CASE Post(k)
    BY <1>1, <2>1, <2>2 DEF Post, TypeOK
  <2>3. CASE SaveDelivered(k) \/ SaveFailure(k) \/ GiveUp(k)
    <3>1. Saved(k) \/ NotSaved(k)
      BY <2>3 DEF SaveDelivered, SaveFailure, GiveUp
    <3>2. rows' \in {rows, [rows EXCEPT ![k] = copy[k]]}
      BY <3>1 DEF Saved, NotSaved
    <3>3. posts' = posts
      BY <2>3 DEF SaveDelivered, SaveFailure, GiveUp, seenVars
    <3> QED
      BY <1>1, <2>1, <3>2, <3>3 DEF TypeOK
  <2> QED
    BY <2>2, <2>3
<1>6. CASE \E h \in Hooks : CreateWebhook(h)
  BY <1>2, <1>6 DEF CreateWebhook, seenVars
<1>7. CASE \E a \in Admins : WriteUpdate(a) \/ \E h \in Hooks : ReadForUpdate(a, h)
  BY <1>2, <1>7 DEF WriteUpdate, ReadForUpdate, seenVars
<1>8. CASE \E e \in Events : ListEnabledWebhooks(e) \/ EnqueueDelivery(e)
                             \/ ReturnInside(e) \/ EmitDone(e)
  BY <1>2, <1>8 DEF ListEnabledWebhooks, EnqueueDelivery, ReturnInside, EmitDone, seenVars
<1>9. CASE \E k \in Deliveries : PopDelivery(k) \/ Dispatch(k) \/ SkipUnconfigured(k) \/ FindWebhook(k)
                                   \/ LoseJob(k)
  BY <1>2, <1>9 DEF PopDelivery, Dispatch, SkipUnconfigured, FindWebhook, LoseJob, seenVars
<1>10. CASE UNCHANGED vars
  BY <1>2, <1>10 DEF vars, seenVars
<1> QED
  BY <1>3, <1>4, <1>5, <1>6, <1>7, <1>8, <1>9, <1>10 DEF Next, Handler

\* The row of a delivery that ended is never written again but deleted, and
\* nothing more is posted for it, however often its job is dispatched again.
THEOREM TerminalIsFinalHolds == Spec => TerminalIsFinal
<1>1. WebhookInv /\ [Next]_vars =>
         [\A d \in Deliveries :
             rows[d] # NoRow /\ IsTerminal(rows[d]) =>
                 rows'[d] \in {rows[d], NoRow} /\ posts'[d] = posts[d]]_vars
  BY TerminalStays
<1> QED
  BY <1>1, WebhookInductive, PTL DEF Spec, TerminalIsFinal
=============================================================================
