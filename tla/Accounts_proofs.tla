-------------------------- MODULE Accounts_proofs ---------------------------
(***************************************************************************)
(* Proofs about MailTokens and LoginFactors, for any number of requests,   *)
(* rows and faults.  Mailed links: they work once, at most one of a kind   *)
(* is usable, and a reset of the password ends the sessions of the old     *)
(* one.  Sign-in: each single-use row is worth one thing, and a user of    *)
(* whom a second factor is demanded has one and is asked for it.           *)
(***************************************************************************)
EXTENDS LoginFactors, MailTokens, FiniteSetTheorems, TLAPS

-----------------------------------------------------------------------------
(* Mailed links (MailTokens).                                              *)

\* A request that mails or opens a link has one in hand.
LinkInHand == \A m \in Mailers : doing[m].step \in {"enqueue", "consume"} => doing[m].on \in Links

TypedInv == MailTypeOK /\ LinkInHand

\* A link was used as often as its row says, which a transaction that is about
\* to delete the row keeps at never.
UsesInv ==
    /\ \A t \in Links :
          /\ uses[t] \in {0, 1}
          /\ uses[t] = 1 => link[t] # NoLink /\ link[t].used
          /\ t \in deleted => link[t] = NoLink /\ uses[t] = 0
    /\ \A m \in Mailers : \A t \in doing[m].doomed :
          /\ doing[m].step = "insert"
          /\ link[t] # NoLink /\ uses[t] = 0
          /\ link[t].kind = doing[m].kind
          /\ \A n \in Mailers : t \in doing[n].doomed => n = m

\* A sign-in that checked an old password is known to be late.
SessionInv ==
    /\ ResetRevokes
    /\ \A m \in Mailers : doing[m].step = "session" => doing[m].with = password \/ doing[m].late

IssueSteps == {"throttle", "issue", "wait", "insert"}

\* Between its throttle and its insert a request that issues a link alone finds
\* no young row, waits for nobody, and deletes every unused link that could stay
\* beside the new one.
IssueInv ==
    /\ \A m \in Mailers : doing[m].step \in IssueSteps =>
          /\ account # "none"
          /\ doing[m].kind \in overlapped
             \/ /\ \A n \in Mailers :
                       doing[n].step \in IssueSteps /\ doing[n].kind = doing[m].kind => n = m
                /\ doing[m].step # "throttle" => ~Recent(doing[m].kind)
                /\ doing[m].step # "wait"
                /\ doing[m].step = "insert" => Unused(doing[m].kind) \subseteq doing[m].doomed
    /\ account = "none" => Rowed = {}
    /\ \A k \in Kinds \ overlapped :
          /\ \A t, u \in Unused(k) : t = u
          /\ \A t, u \in OfKind(k) : link[t].age = 0 /\ link[u].age = 0 => t = u

LEMMA MailFacts == NoLink \notin Rows /\ NoLink \notin Links /\ MaxMailFaults \in Nat
BY MailAssumption

LEMMA RestingFacts ==
    /\ Resting \in Doing /\ Resting.step = "idle" /\ Resting.doomed = {}
    /\ \A s \in Steps : [Resting EXCEPT !.step = s] \in Doing
    /\ \A s \in Steps, k \in Kinds : [Resting EXCEPT !.step = s, !.kind = k] \in Doing
BY DEF Resting, Doing, Steps, Kinds

LEMMA MailInitTyped == MailInit => TypedInv
<1> SUFFICES ASSUME MailInit PROVE TypedInv
  OBVIOUS
<1>1. \A m \in Mailers : doing[m] = Resting
  BY DEF MailInit
<1>2. doing \in [Mailers -> Doing] /\ LinkInHand
  BY <1>1, RestingFacts DEF MailInit, LinkInHand
<1> QED
  BY <1>2 DEF MailInit, TypedInv, MailTypeOK

LEMMA MailInitUses == MailInit => UsesInv
<1> SUFFICES ASSUME MailInit PROVE UsesInv
  OBVIOUS
<1>1. \A m \in Mailers : doing[m].doomed = {}
  BY RestingFacts DEF MailInit
<1>2. \A t \in Links : uses[t] = 0 /\ link[t] = NoLink /\ t \notin deleted
  BY DEF MailInit
<1> QED
  BY <1>1, <1>2 DEF UsesInv

LEMMA MailInitSession == MailInit => SessionInv
BY RestingFacts DEF MailInit, SessionInv, ResetRevokes

-----------------------------------------------------------------------------
(* Types.                                                                  *)

\* Requests stay typed when one of them goes on with d.
LEMMA BecomeTyped ==
    ASSUME TypedInv, NEW m \in Mailers, NEW d \in Doing, Become(m, d),
           d.step \in {"enqueue", "consume"} => d.on \in Links
    PROVE  doing' \in [Mailers -> Doing] /\ LinkInHand'
BY DEF TypedInv, MailTypeOK, LinkInHand, Become

\* A DELETE that meets a held row goes on with rows of its own snapshot, none
\* of them held any more.
LEMMA WaitFacts ==
    ASSUME TypedInv, NEW m \in Mailers, AwaitRows(m) \/ DeleteSeen(m)
    PROVE  \E d \in Doing :
             /\ Become(m, d) /\ d.kind = doing[m].kind /\ d.step \in {"wait", "insert"}
             /\ d.step = "wait" =>
                   /\ doing[m].step = "issue" /\ d.doomed = doing[m].doomed
                   /\ \E t \in Unused(doing[m].kind) : LinkLocked(t)
             /\ d.step = "insert" =>
                   /\ doing[m].step = "wait" /\ d.doomed \subseteq Unused(doing[m].kind)
                   /\ \A t \in d.doomed : ~LinkLocked(t)
<1>1. doing[m] \in Doing
  BY DEF TypedInv, MailTypeOK
<1>2. /\ Doomed(doing[m].kind) = Unused(doing[m].kind)
      /\ Unused(doing[m].kind) \subseteq Links
  BY DEF Doomed, Unused, OfKind, Rowed
<1>3. CASE AwaitRows(m)
  <2> DEFINE d == [doing[m] EXCEPT !.step = "wait", !.sees = Doomed(doing[m].kind)]
  <2>1. d \in Doing /\ d.kind = doing[m].kind /\ d.step = "wait" /\ d.doomed = doing[m].doomed
    BY <1>1, <1>2 DEF Doing, Steps
  <2>2. /\ Become(m, d) /\ doing[m].step = "issue"
        /\ \E t \in Unused(doing[m].kind) : LinkLocked(t)
    BY <1>2, <1>3 DEF AwaitRows, On
  <2> HIDE DEF d
  <2> QED
    BY <2>1, <2>2
<1>4. CASE DeleteSeen(m)
  <2> DEFINE D == doing[m].sees \intersect Doomed(doing[m].kind)
             d == [doing[m] EXCEPT !.step = "insert", !.sees = {}, !.doomed = D]
  <2>1. D \subseteq Unused(doing[m].kind) /\ D \subseteq doing[m].sees /\ D \subseteq Links
    BY <1>2
  <2>2. Become(m, d) /\ doing[m].step = "wait" /\ \A t \in doing[m].sees : ~LinkLocked(t)
    BY <1>4 DEF DeleteSeen, On
  <2> HIDE DEF D
  <2>3. d \in Doing /\ d.kind = doing[m].kind /\ d.step = "insert" /\ d.doomed = D
    BY <1>1, <2>1 DEF Doing, Steps
  <2> HIDE DEF d
  <2> QED
    BY <2>1, <2>2, <2>3
<1> QED
  BY <1>3, <1>4

LEMMA IssueTyped ==
    ASSUME TypedInv, NEW m \in Mailers,
           \/ SignUp(m) \/ (\E k \in Kinds : Ask(m, k)) \/ CheckThrottle(m) \/ DeleteUnused(m)
           \/ AwaitRows(m) \/ DeleteSeen(m)
    PROVE  TypedInv'
<1>1. CASE SignUp(m)
  <2>1. doing' \in [Mailers -> Doing] /\ LinkInHand'
    <3>1. [Resting EXCEPT !.step = "issue"] \in Doing /\ [Resting EXCEPT !.step = "issue"].step = "issue"
      BY DEF Resting, Doing, Steps, Kinds
    <3> QED
      BY <1>1, <3>1, BecomeTyped DEF SignUp
  <2> QED
    BY <1>1, <2>1 DEF SignUp, NoteIssue, TypedInv, MailTypeOK, Kinds
<1>2. ASSUME NEW k \in Kinds, Ask(m, k) PROVE TypedInv'
  <2> DEFINE d == [Resting EXCEPT !.step = "throttle", !.kind = k]
  <2>1. d \in Doing /\ d.step = "throttle"
    BY DEF Resting, Doing, Steps, Kinds
  <2>2. Become(m, d)
    BY <1>2 DEF Ask
  <2> HIDE DEF d
  <2>3. doing' \in [Mailers -> Doing] /\ LinkInHand'
    BY <2>1, <2>2, BecomeTyped
  <2> QED
    BY <1>2, <2>3 DEF Ask, NoteIssue, TypedInv, MailTypeOK, Kinds
<1>3. CASE CheckThrottle(m)
  <2> DEFINE d == [doing[m] EXCEPT !.step = "issue"]
  <2>1. d \in Doing /\ d.step = "issue" /\ doing[m].kind \in Kinds
    BY DEF TypedInv, MailTypeOK, Doing, Steps
  <2>2. Become(m, d) \/ Become(m, Resting)
    BY <1>3 DEF CheckThrottle, Rest
  <2> HIDE DEF d
  <2>3. doing' \in [Mailers -> Doing] /\ LinkInHand'
    BY <2>1, <2>2, BecomeTyped, RestingFacts
  <2>4. mailFaults' \in Nat /\ overlapped' \subseteq Kinds
    BY <1>3, <2>1 DEF CheckThrottle, MayFail, TypedInv, MailTypeOK
  <2> QED
    BY <1>3, <2>3, <2>4 DEF CheckThrottle, TypedInv, MailTypeOK
<1>4. CASE DeleteUnused(m)
  <2> DEFINE d == [doing[m] EXCEPT !.step = "insert", !.doomed = Doomed(doing[m].kind)]
  <2>1. Doomed(doing[m].kind) \subseteq Links
    BY DEF Doomed, Unused, OfKind, Rowed
  <2>2. d \in Doing /\ d.step = "insert"
    BY <2>1 DEF TypedInv, MailTypeOK, Doing, Steps
  <2>3. Become(m, d)
    BY <1>4 DEF DeleteUnused
  <2> HIDE DEF d
  <2>4. doing' \in [Mailers -> Doing] /\ LinkInHand'
    BY <2>2, <2>3, BecomeTyped
  <2> QED
    BY <1>4, <2>4 DEF DeleteUnused, TypedInv, MailTypeOK
<1>5. CASE AwaitRows(m) \/ DeleteSeen(m)
  <2>1. PICK d \in Doing : Become(m, d) /\ d.step \in {"wait", "insert"}
    BY <1>5, WaitFacts
  <2>2. doing' \in [Mailers -> Doing] /\ LinkInHand'
    BY <2>1, BecomeTyped
  <2> QED
    BY <1>5, <2>2 DEF AwaitRows, DeleteSeen, TypedInv, MailTypeOK
<1> QED
  BY <1>1, <1>2, <1>3, <1>4, <1>5

LEMMA CreateTyped ==
    ASSUME TypedInv, NEW m \in Mailers, CreateLink(m)
    PROVE  TypedInv'
<1>1. doing[m] \in Doing
  BY DEF TypedInv, MailTypeOK
<1>2. CASE MayFail /\ Rest(m) /\ UNCHANGED <<link, deleted>>
  <2>1. doing' \in [Mailers -> Doing] /\ LinkInHand'
    BY <1>2, BecomeTyped, RestingFacts DEF Rest
  <2>2. UNCHANGED <<account, password, link, inbox, live, uses, deleted, overlapped>>
    BY <1>2 DEF CreateLink
  <2> QED
    BY <1>2, <2>1, <2>2 DEF MayFail, TypedInv, MailTypeOK
<1>3. ASSUME NEW t \in Links,
             link' = [u \in Links |->
                   IF u = t THEN [kind |-> doing[m].kind, used |-> FALSE, age |-> 0]
                   ELSE IF u \in doing[m].doomed THEN NoLink ELSE link[u]],
             deleted' = deleted \union doing[m].doomed,
             Become(m, [doing[m] EXCEPT !.step = "enqueue", !.on = t, !.doomed = {}]),
             UNCHANGED mailFaults
      PROVE  TypedInv'
  <2> DEFINE d == [doing[m] EXCEPT !.step = "enqueue", !.on = t, !.doomed = {}]
  <2>1. d \in Doing /\ d.on = t
    BY <1>1 DEF Doing, Steps
  <2>2. doing' \in [Mailers -> Doing] /\ LinkInHand'
    <3> HIDE DEF d
    <3>1. Become(m, d)
      BY <1>3 DEF d
    <3> QED
      BY <2>1, <3>1, BecomeTyped
  <2>3. [kind |-> doing[m].kind, used |-> FALSE, age |-> 0] \in Rows
    BY <1>1 DEF Doing, Rows
  <2>4. link' \in [Links -> Rows \union {NoLink}]
    BY <1>3, <2>3 DEF TypedInv, MailTypeOK
  <2>5. deleted' \subseteq Links
    BY <1>1, <1>3 DEF TypedInv, MailTypeOK, Doing
  <2> QED
    BY <1>3, <2>2, <2>4, <2>5 DEF CreateLink, TypedInv, MailTypeOK
<1> QED
  BY <1>2, <1>3 DEF CreateLink

LEMMA ConsumeTyped ==
    ASSUME TypedInv, NEW m \in Mailers, Consume(m)
    PROVE  TypedInv'
<1> DEFINE t == doing[m].on
<1>1. doing[m] \in Doing /\ t \in Links
  BY DEF Consume, On, TypedInv, MailTypeOK, LinkInHand
<1>2. CASE ~StillActive(t)
  <2>1. Rest(m) /\ UNCHANGED <<account, password, link, live, uses, inbox, mailFaults, deleted, overlapped>>
    BY <1>2 DEF Consume
  <2>2. doing' \in [Mailers -> Doing] /\ LinkInHand'
    BY <2>1, BecomeTyped, RestingFacts DEF Rest
  <2> QED
    BY <2>1, <2>2 DEF TypedInv, MailTypeOK
<1>3. CASE StillActive(t)
  <2>1. link[t] \in Rows
    BY <1>1, <1>3 DEF StillActive, Rowed, TypedInv, MailTypeOK
  <2>2. link' = [link EXCEPT ![t] = [link[t] EXCEPT !.used = TRUE]]
    BY <1>3 DEF Consume, StillActive
  <2>3. [link[t] EXCEPT !.used = TRUE] \in Rows
    BY <2>1 DEF Rows
  <2>4. link' \in [Links -> Rows \union {NoLink}]
    BY <2>2, <2>3 DEF TypedInv, MailTypeOK
  <2>5. uses' = [uses EXCEPT ![t] = uses[t] + 1]
    BY <1>3 DEF Consume
  <2>6. uses' \in [Links -> Nat]
    BY <1>1, <2>5 DEF TypedInv, MailTypeOK
  <2>7. CASE doing[m].kind = "verify"
    <3>1. Rest(m) /\ account' = "verified" /\ UNCHANGED <<password, live, inbox, mailFaults, deleted, overlapped>>
      BY <1>3, <2>7 DEF Consume
    <3>2. doing' \in [Mailers -> Doing] /\ LinkInHand'
      BY <3>1, BecomeTyped, RestingFacts DEF Rest
    <3> QED
      BY <2>4, <2>6, <3>1, <3>2 DEF TypedInv, MailTypeOK
  <2>8. CASE doing[m].kind # "verify"
    <3>1. /\ password' = password + 1 /\ live' = {}
          /\ doing' = [n \in Mailers |-> IF n = m THEN Resting
                                         ELSE [doing[n] EXCEPT !.late = On(n, "session")]]
          /\ UNCHANGED <<account, inbox, mailFaults, deleted, overlapped>>
      BY <1>3, <2>8 DEF Consume, Revoked
    <3>2. ASSUME NEW n \in Mailers
          PROVE  /\ [doing[n] EXCEPT !.late = On(n, "session")] \in Doing
                 /\ [doing[n] EXCEPT !.late = On(n, "session")].step = doing[n].step
                 /\ [doing[n] EXCEPT !.late = On(n, "session")].on = doing[n].on
      <4>1. doing[n] \in Doing /\ On(n, "session") \in BOOLEAN
        BY DEF TypedInv, MailTypeOK, On
      <4> QED
        BY <4>1 DEF Doing
    <3>3. doing' \in [Mailers -> Doing] /\ LinkInHand'
      BY <3>1, <3>2, RestingFacts DEF TypedInv, LinkInHand
    <3> QED
      BY <2>4, <2>6, <3>1, <3>3 DEF TypedInv, MailTypeOK
  <2> QED
    BY <2>7, <2>8
<1> QED
  BY <1>2, <1>3

LEMMA RestTyped ==
    ASSUME TypedInv, NEW m \in Mailers,
           \/ EnqueueMail(m) \/ (\E t \in Links : OpenLink(m, t)) \/ ConsumeFails(m)
           \/ CheckPassword(m) \/ CreateSession(m)
    PROVE  TypedInv'
<1>1. doing[m] \in Doing /\ password \in Nat
  BY DEF TypedInv, MailTypeOK
<1>2. CASE EnqueueMail(m)
  <2>1. doing' \in [Mailers -> Doing] /\ LinkInHand'
    BY <1>2, BecomeTyped, RestingFacts DEF EnqueueMail, Rest
  <2>2. doing[m].on \in Links
    BY <1>2 DEF EnqueueMail, On, TypedInv, LinkInHand
  <2> QED
    BY <1>2, <2>1, <2>2 DEF EnqueueMail, MayFail, TypedInv, MailTypeOK
<1>3. ASSUME NEW t \in Links, OpenLink(m, t) PROVE TypedInv'
  <2> DEFINE d == [Resting EXCEPT !.step = "consume", !.kind = link[t].kind, !.on = t]
  <2>1. link[t] \in Rows
    BY <1>3 DEF OpenLink, Rowed, TypedInv, MailTypeOK
  <2>2. d \in Doing /\ d.on = t
    BY <2>1 DEF Resting, Doing, Steps, Kinds, Rows
  <2>3. Become(m, d)
    BY <1>3 DEF OpenLink
  <2> HIDE DEF d
  <2>4. doing' \in [Mailers -> Doing] /\ LinkInHand'
    BY <2>2, <2>3, BecomeTyped
  <2> QED
    BY <1>3, <2>4 DEF OpenLink, TypedInv, MailTypeOK
<1>4. CASE ConsumeFails(m)
  <2>1. doing' \in [Mailers -> Doing] /\ LinkInHand'
    BY <1>4, BecomeTyped, RestingFacts DEF ConsumeFails, Rest
  <2> QED
    BY <1>4, <2>1 DEF ConsumeFails, MayFail, TypedInv, MailTypeOK
<1>5. CASE CheckPassword(m)
  <2> DEFINE d == [Resting EXCEPT !.step = "session", !.with = password]
  <2>1. d \in Doing /\ d.step = "session"
    BY <1>1 DEF Resting, Doing, Steps, Kinds
  <2>2. Become(m, d)
    BY <1>5 DEF CheckPassword
  <2> HIDE DEF d
  <2>3. doing' \in [Mailers -> Doing] /\ LinkInHand'
    BY <2>1, <2>2, BecomeTyped
  <2> QED
    BY <1>5, <2>3 DEF CheckPassword, TypedInv, MailTypeOK
<1>6. CASE CreateSession(m)
  <2>1. doing' \in [Mailers -> Doing] /\ LinkInHand'
    BY <1>6, BecomeTyped, RestingFacts DEF CreateSession, Rest
  <2>2. live' \subseteq [with : Nat, late : BOOLEAN]
    BY <1>1, <1>6 DEF CreateSession, TypedInv, MailTypeOK, Doing
  <2> QED
    BY <1>6, <2>1, <2>2 DEF CreateSession, TypedInv, MailTypeOK
<1> QED
  BY <1>2, <1>3, <1>4, <1>5, <1>6

\* Time passes for the rows there are, and for no other field of theirs.
LEMMA TickEffect ==
    ASSUME TypedInv, MailTick
    PROVE  /\ link' \in [Links -> Rows \union {NoLink}]
           /\ \A t \in Links : /\ link'[t] # NoLink <=> link[t] # NoLink
                               /\ link[t] # NoLink => /\ link'[t].used = link[t].used
                                                      /\ link'[t].kind = link[t].kind
                                                      /\ link'[t].age # 0
<1> DEFINE Aged(r) == [r EXCEPT !.age = IF r.age < 2 THEN r.age + 1 ELSE 2]
<1>1. \A r \in Rows : /\ Aged(r) \in Rows /\ Aged(r).used = r.used /\ Aged(r).kind = r.kind
                      /\ Aged(r).age # 0
  BY DEF Rows
<1>2. link' = [t \in Links |-> IF link[t] # NoLink THEN Aged(link[t]) ELSE NoLink]
  BY DEF MailTick, Rowed
<1> HIDE DEF Aged
<1> QED
  BY <1>1, <1>2, MailFacts DEF TypedInv, MailTypeOK

LEMMA TypedStep == TypedInv /\ [MailNext]_mailVars => TypedInv'
<1> SUFFICES ASSUME TypedInv, [MailNext]_mailVars PROVE TypedInv'
  OBVIOUS
<1>1. CASE UNCHANGED mailVars
  BY <1>1 DEF mailVars, TypedInv, MailTypeOK, LinkInHand
<1>2. CASE MailTick
  BY <1>2, TickEffect DEF MailTick, TypedInv, MailTypeOK, LinkInHand
<1>3. ASSUME NEW m \in Mailers, MailNext, ~MailTick PROVE TypedInv'
  BY <1>3, IssueTyped, CreateTyped, ConsumeTyped, RestTyped DEF MailNext
<1> QED
  BY <1>1, <1>2, <1>3 DEF MailNext

-----------------------------------------------------------------------------
(* Uses.                                                                   *)

\* A request that goes on without rows it will delete.
LEMMA FreeUses ==
    ASSUME TypedInv, UsesInv, NEW m \in Mailers, NEW d \in Doing, Become(m, d), d.doomed = {},
           UNCHANGED <<link, uses, deleted>>
    PROVE  UsesInv'
<1>1. \A n \in Mailers : doing'[n] = IF n = m THEN d ELSE doing[n]
  BY DEF Become, TypedInv, MailTypeOK
<1> QED
  BY <1>1 DEF UsesInv

LEMMA QuietUses ==
    ASSUME TypedInv, UsesInv, NEW m \in Mailers,
           \/ SignUp(m) \/ (\E k \in Kinds : Ask(m, k)) \/ CheckThrottle(m) \/ EnqueueMail(m)
           \/ (\E t \in Links : OpenLink(m, t)) \/ ConsumeFails(m) \/ CheckPassword(m)
           \/ CreateSession(m)
    PROVE  UsesInv'
<1> DEFINE Free(d) == d \in Doing /\ d.doomed = {}
<1>1. UNCHANGED <<link, uses, deleted>>
  BY DEF SignUp, Ask, CheckThrottle, EnqueueMail, OpenLink, ConsumeFails, CheckPassword, CreateSession
<1>2. CASE \E d \in Doing : Become(m, d) /\ d.doomed = {}
  BY <1>1, <1>2, FreeUses
<1>3. CASE SignUp(m)
  <2>1. Free([Resting EXCEPT !.step = "issue"])
    BY DEF Resting, Doing, Steps, Kinds
  <2> QED
    BY <1>2, <1>3, <2>1 DEF SignUp
<1>4. ASSUME NEW k \in Kinds, Ask(m, k) PROVE UsesInv'
  <2>1. Free([Resting EXCEPT !.step = "throttle", !.kind = k])
    BY DEF Resting, Doing, Steps, Kinds
  <2> QED
    BY <1>2, <1>4, <2>1 DEF Ask
<1>5. CASE CheckThrottle(m)
  <2>1. doing[m] \in Doing /\ doing[m].doomed = {}
    BY <1>5 DEF CheckThrottle, On, UsesInv, TypedInv, MailTypeOK
  <2>2. Free([doing[m] EXCEPT !.step = "issue"])
    BY <2>1 DEF Doing, Steps
  <2> QED
    BY <1>2, <1>5, <2>2, RestingFacts DEF CheckThrottle, Rest
<1>6. CASE EnqueueMail(m) \/ ConsumeFails(m) \/ CreateSession(m)
  BY <1>2, <1>6, RestingFacts DEF EnqueueMail, ConsumeFails, CreateSession, Rest
<1>7. ASSUME NEW t \in Links, OpenLink(m, t) PROVE UsesInv'
  <2>1. link[t] \in Rows
    BY <1>7 DEF OpenLink, Rowed, TypedInv, MailTypeOK
  <2>2. Free([Resting EXCEPT !.step = "consume", !.kind = link[t].kind, !.on = t])
    BY <2>1 DEF Resting, Doing, Steps, Kinds, Rows
  <2> QED
    BY <1>2, <1>7, <2>2 DEF OpenLink
<1>8. CASE CheckPassword(m)
  <2>1. Free([Resting EXCEPT !.step = "session", !.with = password])
    BY DEF Resting, Doing, Steps, Kinds, TypedInv, MailTypeOK
  <2> QED
    BY <1>2, <1>8, <2>1 DEF CheckPassword
<1> QED
  BY <1>3, <1>4, <1>5, <1>6, <1>7, <1>8

LEMMA DeleteUses ==
    ASSUME TypedInv, UsesInv, NEW m \in Mailers, DeleteUnused(m)
    PROVE  UsesInv'
<1> DEFINE D == Doomed(doing[m].kind)
           d == [doing[m] EXCEPT !.step = "insert", !.doomed = D]
<1>1. doing[m] \in Doing
  BY DEF TypedInv, MailTypeOK
<1>2. d.step = "insert" /\ d.doomed = D /\ d.kind = doing[m].kind
  BY <1>1 DEF Doing
<1>3. \A t \in D : /\ t \in Links /\ link[t] # NoLink /\ uses[t] = 0 /\ link[t].kind = doing[m].kind
                  /\ \A n \in Mailers : t \notin doing[n].doomed
  BY DEF DeleteUnused, LinkLocked, Doomed, Unused, OfKind, Rowed, UsesInv
<1>4. \A n \in Mailers : doing'[n] = IF n = m THEN d ELSE doing[n]
  BY DEF DeleteUnused, Become, TypedInv, MailTypeOK
<1>5. UNCHANGED <<link, uses, deleted>>
  BY DEF DeleteUnused
<1> HIDE DEF d, D
<1> QED
  BY <1>2, <1>3, <1>4, <1>5 DEF UsesInv

LEMMA WaitUses ==
    ASSUME TypedInv, UsesInv, NEW m \in Mailers, AwaitRows(m) \/ DeleteSeen(m)
    PROVE  UsesInv'
<1>1. PICK d \in Doing :
        /\ Become(m, d) /\ d.kind = doing[m].kind
        /\ d.step = "wait" => doing[m].step = "issue" /\ d.doomed = doing[m].doomed
        /\ d.step = "insert" => /\ d.doomed \subseteq Unused(doing[m].kind)
                               /\ \A t \in d.doomed : ~LinkLocked(t)
        /\ d.step \in {"wait", "insert"}
  BY WaitFacts
<1>2. UNCHANGED <<link, uses, deleted>>
  BY DEF AwaitRows, DeleteSeen
<1>3. CASE d.step = "wait"
  <2>1. d.doomed = {}
    BY <1>1, <1>3 DEF UsesInv
  <2> QED
    BY <1>1, <1>2, <2>1, FreeUses
<1>4. CASE d.step = "insert"
  <2>1. \A n \in Mailers : doing'[n] = IF n = m THEN d ELSE doing[n]
    BY <1>1 DEF Become, TypedInv, MailTypeOK
  <2>2. \A t \in d.doomed : /\ t \in Links /\ link[t] # NoLink /\ uses[t] = 0
                            /\ link[t].kind = doing[m].kind
                            /\ \A n \in Mailers : t \notin doing[n].doomed
    BY <1>1, <1>4 DEF LinkLocked, Unused, OfKind, Rowed, UsesInv
  <2> QED
    BY <1>1, <1>2, <1>4, <2>1, <2>2 DEF UsesInv
<1> QED
  BY <1>1, <1>3, <1>4

LEMMA CreateUses ==
    ASSUME TypedInv, UsesInv, NEW m \in Mailers, CreateLink(m)
    PROVE  UsesInv'
<1>1. doing[m] \in Doing /\ UNCHANGED uses
  BY DEF CreateLink, TypedInv, MailTypeOK
<1>2. CASE MayFail /\ Rest(m) /\ UNCHANGED <<link, deleted>>
  BY <1>1, <1>2, FreeUses, RestingFacts DEF Rest
<1>3. ASSUME NEW t \in Links, link[t] = NoLink, t \notin deleted,
             link' = [u \in Links |->
                   IF u = t THEN [kind |-> doing[m].kind, used |-> FALSE, age |-> 0]
                   ELSE IF u \in doing[m].doomed THEN NoLink ELSE link[u]],
             deleted' = deleted \union doing[m].doomed,
             Become(m, [doing[m] EXCEPT !.step = "enqueue", !.on = t, !.doomed = {}])
      PROVE  UsesInv'
  <2> DEFINE d == [doing[m] EXCEPT !.step = "enqueue", !.on = t, !.doomed = {}]
             row == [kind |-> doing[m].kind, used |-> FALSE, age |-> 0]
  <2>1. d.doomed = {} /\ row # NoLink
    <3>1. row \in Rows
      BY <1>1 DEF Doing, Rows
    <3>2. d.doomed = {}
      BY <1>1 DEF Doing
    <3> QED
      BY <3>1, <3>2, MailFacts
  <2>2. \A n \in Mailers : doing'[n] = IF n = m THEN d ELSE doing[n]
    BY <1>3 DEF Become, TypedInv, MailTypeOK
  <2>3. \A n \in Mailers : t \notin doing[n].doomed
    BY <1>3 DEF UsesInv
  <2>4. \A u \in Links : link'[u] = IF u = t THEN row
                                    ELSE IF u \in doing[m].doomed THEN NoLink ELSE link[u]
    BY <1>3
  <2>5. \A u \in doing[m].doomed : u \in Links /\ uses[u] = 0
    BY <1>1 DEF UsesInv, Doing
  <2>6. uses[t] = 0
    BY <1>3 DEF UsesInv
  <2> HIDE DEF d, row
  <2>7. ASSUME NEW u \in Links
        PROVE  /\ uses[u] = 1 => link'[u] # NoLink /\ link'[u].used
               /\ u \in deleted' => link'[u] = NoLink /\ uses[u] = 0
    BY <1>3, <2>3, <2>4, <2>5, <2>6 DEF UsesInv
  <2>8. ASSUME NEW n \in Mailers, NEW u \in doing'[n].doomed
        PROVE  /\ doing'[n].step = "insert"
               /\ link'[u] # NoLink /\ uses[u] = 0
               /\ link'[u].kind = doing'[n].kind
               /\ \A o \in Mailers : u \in doing'[o].doomed => o = n
    <3>1. n # m /\ doing'[n] = doing[n]
      BY <2>1, <2>2, <2>8
    <3>2. u \in Links /\ u # t /\ u \notin doing[m].doomed
      BY <2>3, <2>8, <3>1 DEF UsesInv, TypedInv, MailTypeOK, Doing
    <3>3. link'[u] = link[u]
      BY <2>4, <3>2
    <3> QED
      BY <2>1, <2>2, <2>8, <3>1, <3>3 DEF UsesInv
  <2> QED
    BY <1>1, <2>7, <2>8 DEF UsesInv
<1> QED
  BY <1>2, <1>3 DEF CreateLink

LEMMA ConsumeUses ==
    ASSUME TypedInv, UsesInv, NEW m \in Mailers, Consume(m)
    PROVE  UsesInv'
<1> DEFINE t == doing[m].on
<1>1. t \in Links /\ UNCHANGED deleted
  BY DEF Consume, On, TypedInv, LinkInHand
<1>2. CASE ~StillActive(t)
  <2>1. Rest(m) /\ UNCHANGED <<link, uses, deleted>>
    BY <1>2 DEF Consume
  <2> QED
    BY <2>1, FreeUses, RestingFacts DEF Rest
<1>3. CASE StillActive(t)
  <2>1. link[t] \in Rows /\ link[t] # NoLink /\ ~link[t].used
    BY <1>1, <1>3 DEF StillActive, Rowed, TypedInv, MailTypeOK
  <2>2. uses[t] = 0 /\ t \notin deleted
    BY <1>1, <2>1 DEF UsesInv
  <2>3. \A n \in Mailers : t \notin doing[n].doomed
    BY DEF Consume, LinkLocked
  <2>4. \A u \in Links : /\ uses'[u] = IF u = t THEN 1 ELSE uses[u]
                         /\ u # t => link'[u] = link[u]
    BY <1>1, <1>3, <2>2 DEF Consume, StillActive, TypedInv, MailTypeOK
  <2>5. link'[t] # NoLink /\ link'[t].used
    <3>1. link'[t] = [link[t] EXCEPT !.used = TRUE]
      BY <1>1, <1>3 DEF Consume, StillActive, TypedInv, MailTypeOK
    <3>2. [link[t] EXCEPT !.used = TRUE] \in Rows /\ [link[t] EXCEPT !.used = TRUE].used
      BY <2>1 DEF Rows
    <3> QED
      BY <3>1, <3>2, MailFacts
  <2>6. \A n \in Mailers : \/ doing'[n].doomed = {}
                           \/ /\ doing'[n].doomed = doing[n].doomed /\ doing'[n].step = doing[n].step
                              /\ doing'[n].kind = doing[n].kind
    <3>1. CASE doing[m].kind = "verify"
      <4>1. Become(m, Resting)
        BY <1>3, <3>1 DEF Consume, Rest
      <4> QED
        BY <4>1, RestingFacts DEF Become, TypedInv, MailTypeOK
    <3>2. CASE doing[m].kind # "verify"
      <4>1. doing' = [n \in Mailers |-> IF n = m THEN Resting
                                        ELSE [doing[n] EXCEPT !.late = On(n, "session")]]
        BY <1>3, <3>2 DEF Consume
      <4>2. \A n \in Mailers : doing[n] \in Doing
        BY DEF TypedInv, MailTypeOK
      <4> QED
        BY <4>1, <4>2, RestingFacts DEF Doing
    <3> QED
      BY <3>1, <3>2
  <2> HIDE DEF t
  <2>7. ASSUME NEW u \in Links
        PROVE  /\ uses'[u] \in {0, 1}
               /\ uses'[u] = 1 => link'[u] # NoLink /\ link'[u].used
               /\ u \in deleted' => link'[u] = NoLink /\ uses'[u] = 0
    BY <1>1, <2>2, <2>4, <2>5 DEF UsesInv
  <2>8. ASSUME NEW n \in Mailers, NEW u \in doing'[n].doomed
        PROVE  /\ doing'[n].step = "insert"
               /\ link'[u] # NoLink /\ uses'[u] = 0
               /\ link'[u].kind = doing'[n].kind
               /\ \A o \in Mailers : u \in doing'[o].doomed => o = n
    <3>1. u \in doing[n].doomed /\ doing'[n].step = doing[n].step /\ doing'[n].kind = doing[n].kind
      BY <2>6, <2>8
    <3>2. u # t /\ u \in Links
      BY <2>3, <3>1 DEF TypedInv, MailTypeOK, Doing
    <3> QED
      BY <2>4, <2>6, <3>1, <3>2 DEF UsesInv
  <2> QED
    BY <2>7, <2>8 DEF UsesInv
<1> QED
  BY <1>2, <1>3

LEMMA UsesStep == TypedInv /\ UsesInv /\ [MailNext]_mailVars => UsesInv'
<1> SUFFICES ASSUME TypedInv, UsesInv, [MailNext]_mailVars PROVE UsesInv'
  OBVIOUS
<1>1. CASE UNCHANGED mailVars
  BY <1>1 DEF mailVars, UsesInv
<1>2. CASE MailTick
  <2>1. UNCHANGED <<doing, uses, deleted>> /\ \A m \in Mailers : doing[m].doomed \subseteq Links
    BY <1>2 DEF MailTick, TypedInv, MailTypeOK, Doing
  <2>2. \A t \in Links : /\ link'[t] # NoLink <=> link[t] # NoLink
                         /\ link[t] # NoLink => /\ link'[t].used = link[t].used
                                                /\ link'[t].kind = link[t].kind
    BY <1>2, TickEffect
  <2> QED
    BY <2>1, <2>2 DEF UsesInv
<1>3. ASSUME NEW m \in Mailers, MailNext, ~MailTick PROVE UsesInv'
  BY <1>3, QuietUses, DeleteUses, WaitUses, CreateUses, ConsumeUses DEF MailNext
<1> QED
  BY <1>1, <1>2, <1>3 DEF MailNext

-----------------------------------------------------------------------------
(* Sessions.                                                               *)

LEMMA FreeSession ==
    ASSUME TypedInv, SessionInv, NEW m \in Mailers, NEW d \in Doing, Become(m, d),
           d.step = "session" => d.with = password,
           UNCHANGED <<password, live>>
    PROVE  SessionInv'
<1>1. \A n \in Mailers : doing'[n] = IF n = m THEN d ELSE doing[n]
  BY DEF Become, TypedInv, MailTypeOK
<1> QED
  BY <1>1 DEF SessionInv, ResetRevokes

LEMMA SessionStep == TypedInv /\ SessionInv /\ [MailNext]_mailVars => SessionInv'
<1> SUFFICES ASSUME TypedInv, SessionInv, [MailNext]_mailVars PROVE SessionInv'
  OBVIOUS
<1>1. CASE UNCHANGED mailVars \/ MailTick
  BY <1>1 DEF mailVars, MailTick, SessionInv, ResetRevokes
<1>2. ASSUME NEW m \in Mailers, CreateSession(m) PROVE SessionInv'
  <2>1. live' = live \union {[with |-> doing[m].with, late |-> doing[m].late]}
    BY <1>2 DEF CreateSession
  <2>2. doing[m].with = password \/ doing[m].late
    BY <1>2 DEF CreateSession, On, SessionInv
  <2>3. UNCHANGED password /\ \A n \in Mailers : doing'[n] = IF n = m THEN Resting ELSE doing[n]
    BY <1>2 DEF CreateSession, Rest, Become, TypedInv, MailTypeOK
  <2>4. \A s \in live' : s.with = password \/ s.late
    BY <2>1, <2>2 DEF SessionInv, ResetRevokes
  <2>5. \A n \in Mailers : doing'[n].step = "session" => doing'[n].with = password \/ doing'[n].late
    BY <2>3, RestingFacts DEF SessionInv
  <2> QED
    BY <2>3, <2>4, <2>5 DEF SessionInv, ResetRevokes
<1>3. ASSUME NEW m \in Mailers, Consume(m) PROVE SessionInv'
  <2>1. CASE StillActive(doing[m].on) /\ doing[m].kind # "verify"
    <3>1. /\ live' = {}
          /\ doing' = [n \in Mailers |-> IF n = m THEN Resting
                                         ELSE [doing[n] EXCEPT !.late = On(n, "session")]]
      BY <1>3, <2>1 DEF Consume, Revoked
    <3>2. \A n \in Mailers : doing[n] \in Doing
      BY DEF TypedInv, MailTypeOK
    <3>3. \A n \in Mailers : doing'[n].step = "session" => doing'[n].late
      BY <3>1, <3>2, RestingFacts DEF Doing, On
    <3> QED
      BY <3>1, <3>3 DEF SessionInv, ResetRevokes
  <2>2. CASE ~(StillActive(doing[m].on) /\ doing[m].kind # "verify")
    <3>1. Become(m, Resting) /\ UNCHANGED <<password, live>>
      BY <1>3, <2>2 DEF Consume, Rest
    <3> QED
      BY <3>1, RestingFacts, FreeSession
  <2> QED
    BY <2>1, <2>2
<1>4. ASSUME NEW m \in Mailers, MailNext, ~MailTick, ~CreateSession(m), ~Consume(m),
             \/ SignUp(m) \/ (\E k \in Kinds : Ask(m, k)) \/ CheckThrottle(m) \/ DeleteUnused(m)
             \/ AwaitRows(m) \/ DeleteSeen(m) \/ CreateLink(m) \/ EnqueueMail(m) \/ (\E t \in Links : OpenLink(m, t))
             \/ ConsumeFails(m) \/ CheckPassword(m)
      PROVE  SessionInv'
  <2>1. UNCHANGED <<password, live>>
    BY <1>4 DEF SignUp, Ask, CheckThrottle, DeleteUnused, AwaitRows, DeleteSeen, CreateLink,
       EnqueueMail, OpenLink, ConsumeFails, CheckPassword
  <2>2. \E d : Become(m, d) /\ (d.step = "session" => d.with = password)
    <3>1. doing[m] \in Doing
      BY DEF TypedInv, MailTypeOK
    <3>2. CASE CheckPassword(m)
      <4>1. [Resting EXCEPT !.step = "session", !.with = password].with = password
        BY DEF Resting
      <4> QED
        BY <3>2, <4>1 DEF CheckPassword
    <3>3. CASE SignUp(m) \/ (\E k \in Kinds : Ask(m, k)) \/ (\E t \in Links : OpenLink(m, t))
      <4>1. [Resting EXCEPT !.step = "issue"].step = "issue"
        BY DEF Resting
      <4>2. \A k : [Resting EXCEPT !.step = "throttle", !.kind = k].step = "throttle"
        BY DEF Resting
      <4>3. \A k, t : [Resting EXCEPT !.step = "consume", !.kind = k, !.on = t].step = "consume"
        BY DEF Resting
      <4> QED
        BY <3>3, <4>1, <4>2, <4>3 DEF SignUp, Ask, OpenLink
    <3>4. CASE EnqueueMail(m) \/ ConsumeFails(m)
      BY <3>4, RestingFacts DEF EnqueueMail, ConsumeFails, Rest
    <3>5. CASE CheckThrottle(m)
      <4>1. [doing[m] EXCEPT !.step = "issue"].step = "issue"
        BY <3>1 DEF Doing
      <4> QED
        BY <3>5, <4>1, RestingFacts DEF CheckThrottle, Rest
    <3>6. CASE DeleteUnused(m)
      <4>1. \A D : [doing[m] EXCEPT !.step = "insert", !.doomed = D].step = "insert"
        BY <3>1 DEF Doing
      <4> QED
        BY <3>6, <4>1 DEF DeleteUnused
    <3>7. CASE CreateLink(m)
      <4>1. \A t : [doing[m] EXCEPT !.step = "enqueue", !.on = t, !.doomed = {}].step = "enqueue"
        BY <3>1 DEF Doing
      <4> QED
        BY <3>7, <4>1, RestingFacts DEF CreateLink, Rest
    <3>8. CASE AwaitRows(m) \/ DeleteSeen(m)
      BY <3>8, WaitFacts
    <3> QED
      BY <1>4, <3>2, <3>3, <3>4, <3>5, <3>6, <3>7, <3>8
  <2>3. PICK d : Become(m, d) /\ (d.step = "session" => d.with = password)
    BY <2>2
  <2>4. d \in Doing
    <3>1. doing'[m] = d
      BY <2>3 DEF Become, TypedInv, MailTypeOK
    <3> QED
      BY <3>1, <1>4, TypedStep DEF TypedInv, MailTypeOK
  <2> QED
    BY <2>1, <2>3, <2>4, FreeSession
<1> QED
  BY <1>1, <1>2, <1>3, <1>4 DEF MailNext

-----------------------------------------------------------------------------
(* One link of each kind.                                                  *)

LEMMA MailInitIssue == MailInit => IssueInv
<1> SUFFICES ASSUME MailInit PROVE IssueInv
  OBVIOUS
<1>1. \A m \in Mailers : doing[m].step = "idle"
  BY RestingFacts DEF MailInit
<1>2. Rowed = {} /\ \A k \in Kinds : OfKind(k) = {} /\ Unused(k) = {}
  BY DEF MailInit, Rowed, OfKind, Unused
<1> QED
  BY <1>1, <1>2 DEF IssueInv, IssueSteps

\* What no request issues: rows only get older and used, and requests stop.
LEMMA NoIssue ==
    ASSUME IssueInv, overlapped \subseteq overlapped', account' = "none" => account = "none",
           \A t \in Links : /\ link'[t] # NoLink <=> link[t] # NoLink
                            /\ link[t] # NoLink => /\ link'[t].kind = link[t].kind
                                                   /\ link[t].used => link'[t].used
                                                   /\ link'[t].age = 0 => link[t].age = 0,
           \A m \in Mailers : doing'[m].step \in IssueSteps =>
                /\ doing'[m].step = doing[m].step /\ doing'[m].kind = doing[m].kind
                /\ doing'[m].doomed = doing[m].doomed
    PROVE  IssueInv'
<1>1. Rowed' = Rowed /\ \A k \in Kinds : OfKind(k)' = OfKind(k) /\ Unused(k)' \subseteq Unused(k)
  BY DEF Rowed, OfKind, Unused
<1>2. \A k : Unused(k)' \subseteq Unused(k) /\ OfKind(k)' = OfKind(k) /\ OfKind(k) \subseteq Links
  BY DEF Rowed, OfKind, Unused
<1>3. \A k : \A t \in OfKind(k) : link'[t].age = 0 => link[t].age = 0
  BY DEF Rowed, OfKind
<1>4. \A k : ~Recent(k) => ~Recent(k)'
  BY <1>2, <1>3 DEF Recent
<1>5. ASSUME NEW m \in Mailers, doing'[m].step \in IssueSteps
      PROVE  /\ account' # "none"
             /\ doing'[m].kind \in overlapped'
                \/ /\ \A n \in Mailers :
                          doing'[n].step \in IssueSteps /\ doing'[n].kind = doing'[m].kind => n = m
                   /\ doing'[m].step # "throttle" => ~Recent(doing[m].kind)'
                   /\ doing'[m].step # "wait"
                   /\ doing'[m].step = "insert" => Unused(doing[m].kind)' \subseteq doing'[m].doomed
  <2> DEFINE k == doing[m].kind
  <2>1. doing[m].step \in IssueSteps /\ doing'[m].step = doing[m].step /\ doing'[m].kind = k
        /\ doing'[m].doomed = doing[m].doomed
    BY <1>5
  <2>2. account' # "none"
    BY <2>1 DEF IssueInv
  <2>3. CASE k \in overlapped
    BY <2>1, <2>2, <2>3
  <2>4. CASE k \notin overlapped
    <3>1. \A n \in Mailers : doing'[n].step \in IssueSteps /\ doing'[n].kind = k => n = m
      BY <2>1, <2>4 DEF IssueInv
    <3>2. (doing[m].step # "throttle" => ~Recent(k)) /\ doing[m].step # "wait"
      BY <2>1, <2>4 DEF IssueInv
    <3>3. doing[m].step = "insert" => Unused(k) \subseteq doing[m].doomed
      BY <2>1, <2>4 DEF IssueInv
    <3> QED
      BY <1>2, <1>4, <2>1, <2>2, <3>1, <3>2, <3>3
  <2> QED
    BY <2>3, <2>4
<1>6. account' = "none" => Rowed' = {}
  BY <1>1 DEF IssueInv
<1>7. \A k \in Kinds \ overlapped' :
          /\ \A t, u \in Unused(k)' : t = u
          /\ \A t, u \in OfKind(k)' : link'[t].age = 0 /\ link'[u].age = 0 => t = u
  BY <1>1, <1>3 DEF IssueInv
<1> QED
  BY <1>5, <1>6, <1>7 DEF IssueInv

LEMMA QuietIssue ==
    ASSUME TypedInv, IssueInv, NEW m \in Mailers,
           \/ EnqueueMail(m) \/ (\E t \in Links : OpenLink(m, t)) \/ Consume(m) \/ ConsumeFails(m)
           \/ CheckPassword(m) \/ CreateSession(m)
           \/ CheckThrottle(m) /\ Rest(m) /\ UNCHANGED overlapped
           \/ CreateLink(m) /\ Rest(m) /\ UNCHANGED link
    PROVE  IssueInv'
<1>1. \A n \in Mailers : doing[n] \in Doing
  BY DEF TypedInv, MailTypeOK
<1>2. CASE Consume(m) /\ StillActive(doing[m].on)
  <2> DEFINE t == doing[m].on
  <2>1. t \in Links /\ link[t] \in Rows /\ UNCHANGED overlapped
    BY <1>2 DEF Consume, StillActive, Rowed, TypedInv, MailTypeOK
  <2>2. link' = [link EXCEPT ![t] = [link[t] EXCEPT !.used = TRUE]]
    BY <1>2 DEF Consume, StillActive
  <2>3. LET r == [link[t] EXCEPT !.used = TRUE]
        IN  r # NoLink /\ r.kind = link[t].kind /\ r.used /\ r.age = link[t].age
    BY <2>1, MailFacts DEF Rows
  <2>4. \A u \in Links : /\ link'[u] # NoLink <=> link[u] # NoLink
                         /\ link[u] # NoLink => /\ link'[u].kind = link[u].kind
                                                /\ link[u].used => link'[u].used
                                                /\ link'[u].age = 0 => link[u].age = 0
    BY <2>1, <2>2, <2>3, MailFacts DEF TypedInv, MailTypeOK
  <2>5. account' = "none" => account = "none"
    BY <1>2 DEF Consume
  <2>6. \A n \in Mailers : doing'[n].step \in IssueSteps =>
                /\ doing'[n].step = doing[n].step /\ doing'[n].kind = doing[n].kind
                /\ doing'[n].doomed = doing[n].doomed
    <3>1. CASE doing[m].kind = "verify"
      <4>1. Become(m, Resting)
        BY <1>2, <3>1 DEF Consume, Rest
      <4> QED
        BY <4>1, RestingFacts DEF Become, IssueSteps, TypedInv, MailTypeOK
    <3>2. CASE doing[m].kind # "verify"
      <4>1. doing' = [n \in Mailers |-> IF n = m THEN Resting
                                        ELSE [doing[n] EXCEPT !.late = On(n, "session")]]
        BY <1>2, <3>2 DEF Consume
      <4> QED
        BY <4>1, <1>1, RestingFacts DEF Doing, IssueSteps
    <3> QED
      BY <3>1, <3>2
  <2> QED
    BY <2>1, <2>4, <2>5, <2>6, NoIssue
<1>3. CASE ~(Consume(m) /\ StillActive(doing[m].on))
  <2>1. UNCHANGED <<link, account, overlapped>>
    BY <1>3 DEF CheckThrottle, EnqueueMail, OpenLink, Consume, ConsumeFails, CheckPassword,
       CreateSession, CreateLink
  <2>2. \E d : Become(m, d) /\ d.step \notin IssueSteps
    <3>1. Resting.step \notin IssueSteps
      BY RestingFacts DEF IssueSteps
    <3>2. CASE Rest(m)
      BY <3>1, <3>2 DEF Rest
    <3>3. CASE \E t \in Links : OpenLink(m, t)
      <4>1. \A k, t : [Resting EXCEPT !.step = "consume", !.kind = k, !.on = t].step \notin IssueSteps
        BY DEF Resting, IssueSteps
      <4> QED
        BY <3>3, <4>1 DEF OpenLink
    <3>4. CASE CheckPassword(m)
      <4>1. [Resting EXCEPT !.step = "session", !.with = password].step \notin IssueSteps
        BY DEF Resting, IssueSteps
      <4> QED
        BY <3>4, <4>1 DEF CheckPassword
    <3> QED
      BY <1>3, <3>2, <3>3, <3>4 DEF EnqueueMail, Consume, ConsumeFails, CreateSession
  <2>3. PICK d : Become(m, d) /\ d.step \notin IssueSteps
    BY <2>2
  <2>4. \A n \in Mailers : doing'[n] = IF n = m THEN d ELSE doing[n]
    BY <2>3 DEF Become, TypedInv, MailTypeOK
  <2> QED
    BY <2>1, <2>3, <2>4, NoIssue
<1> QED
  BY <1>2, <1>3

\* A request starts to issue a link of kind k: alone, or k counts as overlapped.
LEMMA StartIssue ==
    ASSUME TypedInv, IssueInv, NEW m \in Mailers, NEW k \in Kinds, NEW d \in Doing,
           Become(m, d), d.kind = k, doing[m].step = "idle",
           NoteIssue(k), UNCHANGED link, account' # "none", Rowed = {} \/ d.step = "throttle",
           d.step \in {"throttle", "issue"}
    PROVE  IssueInv'
<1>1. \A n \in Mailers : doing'[n] = IF n = m THEN d ELSE doing[n]
  BY DEF Become, TypedInv, MailTypeOK
<1>2. /\ Rowed' = Rowed /\ overlapped \subseteq overlapped'
      /\ \A h : OfKind(h)' = OfKind(h) /\ Unused(h)' = Unused(h) /\ (Recent(h)' <=> Recent(h))
  BY DEF Rowed, OfKind, Unused, Recent, NoteIssue
<1>3. k \notin overlapped' => \A n \in Mailers : ~(doing[n].step \in IssueSteps /\ doing[n].kind = k)
  BY DEF NoteIssue, Issuing, IssueSteps
<1>4. d.step # "throttle" => ~Recent(k)
  BY DEF Recent, OfKind
<1>5. ASSUME NEW n \in Mailers, doing'[n].step \in IssueSteps
      PROVE  doing'[n].kind \in overlapped'
             \/ /\ \A o \in Mailers :
                       doing'[o].step \in IssueSteps /\ doing'[o].kind = doing'[n].kind => o = n
                /\ doing'[n].step # "throttle" => ~Recent(doing'[n].kind)
                /\ doing'[n].step # "wait"
                /\ doing'[n].step = "insert" => Unused(doing'[n].kind) \subseteq doing'[n].doomed
  <2>1. CASE n = m
    BY <1>1, <1>3, <1>4, <2>1
  <2>2. CASE n # m
    <3>1. doing'[n] = doing[n]
      BY <1>1, <2>2
    <3>2. CASE doing[n].kind = k
      BY <1>3, <1>5, <3>1, <3>2
    <3>3. CASE doing[n].kind # k
      BY <1>1, <1>2, <1>5, <3>1, <3>3 DEF IssueInv
    <3> QED
      BY <3>2, <3>3
  <2> QED
    BY <2>1, <2>2
<1>6. \A h \in Kinds \ overlapped' :
          /\ \A t, u \in Unused(h)' : t = u
          /\ \A t, u \in OfKind(h)' : link'[t].age = 0 /\ link'[u].age = 0 => t = u
  BY <1>2 DEF IssueInv
<1> QED
  BY <1>2, <1>5, <1>6 DEF IssueInv

LEMMA AskIssue ==
    ASSUME TypedInv, IssueInv, NEW m \in Mailers, SignUp(m) \/ \E k \in Kinds : Ask(m, k)
    PROVE  IssueInv'
<1>1. CASE SignUp(m)
  <2> DEFINE d == [Resting EXCEPT !.step = "issue"]
  <2>1. d \in Doing /\ d.kind = "verify" /\ d.step = "issue"
    BY DEF Resting, Doing, Steps, Kinds
  <2>2. /\ Become(m, d) /\ NoteIssue("verify") /\ doing[m].step = "idle"
        /\ UNCHANGED link /\ account' # "none" /\ Rowed = {}
    BY <1>1 DEF SignUp, On, IssueInv
  <2> HIDE DEF d
  <2> QED
    BY <2>1, <2>2, StartIssue DEF Kinds
<1>2. ASSUME NEW k \in Kinds, Ask(m, k) PROVE IssueInv'
  <2> DEFINE d == [Resting EXCEPT !.step = "throttle", !.kind = k]
  <2>1. d \in Doing /\ d.kind = k /\ d.step = "throttle"
    BY DEF Resting, Doing, Steps, Kinds
  <2>2. /\ Become(m, d) /\ NoteIssue(k) /\ doing[m].step = "idle"
        /\ UNCHANGED link /\ account' # "none"
    BY <1>2 DEF Ask, On
  <2> HIDE DEF d
  <2> QED
    BY <2>1, <2>2, StartIssue
<1> QED
  BY <1>1, <1>2

\* A request goes on from one step of its issue to the next.
LEMMA AdvanceIssue ==
    ASSUME TypedInv, IssueInv, NEW m \in Mailers, NEW d \in Doing, Become(m, d),
           doing[m].step \in IssueSteps, d.kind = doing[m].kind,
           d.step \in {"issue", "wait", "insert"},
           UNCHANGED <<link, account>>, overlapped \subseteq overlapped',
           d.kind \notin overlapped' => ~Recent(d.kind),
           d.step = "wait" => d.kind \in overlapped,
           d.step = "insert" /\ d.kind \notin overlapped => Unused(d.kind) \subseteq d.doomed
    PROVE  IssueInv'
<1>1. \A n \in Mailers : doing'[n] = IF n = m THEN d ELSE doing[n]
  BY DEF Become, TypedInv, MailTypeOK
<1>2. /\ Rowed' = Rowed
      /\ \A h : OfKind(h)' = OfKind(h) /\ Unused(h)' = Unused(h) /\ (Recent(h)' <=> Recent(h))
  BY DEF Rowed, OfKind, Unused, Recent
<1>3. ASSUME NEW n \in Mailers, doing'[n].step \in IssueSteps
      PROVE  /\ account # "none"
             /\ doing'[n].kind \in overlapped'
                \/ /\ \A o \in Mailers :
                          doing'[o].step \in IssueSteps /\ doing'[o].kind = doing'[n].kind => o = n
                   /\ doing'[n].step # "throttle" => ~Recent(doing'[n].kind)
                   /\ doing'[n].step # "wait"
                   /\ doing'[n].step = "insert" => Unused(doing'[n].kind) \subseteq doing'[n].doomed
  <2>1. CASE doing'[n].kind \in overlapped
    BY <1>1, <1>3, <2>1 DEF IssueInv
  <2>2. CASE doing'[n].kind \notin overlapped
    <3>1. \A o \in Mailers : /\ doing'[o].kind = doing[o].kind
                             /\ doing'[o].step \in IssueSteps => doing[o].step \in IssueSteps
      BY <1>1
    <3>2. \A o \in Mailers :
            doing'[o].step \in IssueSteps /\ doing'[o].kind = doing'[n].kind => o = n
      BY <1>3, <2>2, <3>1 DEF IssueInv
    <3>3. CASE n = m
      BY <1>1, <1>3, <3>1, <3>2, <3>3 DEF IssueInv
    <3>4. CASE n # m
      BY <1>1, <1>3, <2>2, <3>2, <3>4 DEF IssueInv
    <3> QED
      BY <3>3, <3>4
  <2> QED
    BY <2>1, <2>2
<1> QED
  BY <1>2, <1>3 DEF IssueInv

LEMMA ThrottleIssue ==
    ASSUME TypedInv, IssueInv, NEW m \in Mailers, CheckThrottle(m) \/ DeleteUnused(m)
    PROVE  IssueInv'
<1>1. doing[m] \in Doing
  BY DEF TypedInv, MailTypeOK
<1>2. CASE CheckThrottle(m)
  <2> DEFINE d == [doing[m] EXCEPT !.step = "issue"]
  <2>1. d \in Doing /\ d.step = "issue" /\ d.kind = doing[m].kind
    BY <1>1 DEF Doing, Steps
  <2>2. \/ Rest(m) /\ UNCHANGED overlapped
        \/ Become(m, d) /\ ~Recent(doing[m].kind) /\ UNCHANGED overlapped
        \/ Become(m, d) /\ overlapped' = overlapped \union {doing[m].kind}
    BY <1>2 DEF CheckThrottle
  <2>3. doing[m].step \in IssueSteps /\ UNCHANGED <<link, account>>
    BY <1>2 DEF CheckThrottle, On, IssueSteps
  <2> HIDE DEF d
  <2>4. CASE Rest(m) /\ UNCHANGED overlapped
    BY <1>2, <2>4, QuietIssue
  <2>5. CASE Become(m, d) /\ ~Recent(doing[m].kind) /\ UNCHANGED overlapped
    BY <2>1, <2>3, <2>5, AdvanceIssue
  <2>6. CASE Become(m, d) /\ overlapped' = overlapped \union {doing[m].kind}
    BY <2>1, <2>3, <2>6, AdvanceIssue
  <2> QED
    BY <2>2, <2>4, <2>5, <2>6
<1>3. CASE DeleteUnused(m)
  <2> DEFINE d == [doing[m] EXCEPT !.step = "insert", !.doomed = Doomed(doing[m].kind)]
  <2>1. Doomed(doing[m].kind) = Unused(doing[m].kind) /\ Unused(doing[m].kind) \subseteq Links
    BY DEF Doomed, Unused, OfKind, Rowed
  <2>2. /\ d \in Doing /\ d.step = "insert" /\ d.kind = doing[m].kind
        /\ d.doomed = Unused(doing[m].kind)
    BY <1>1, <2>1 DEF Doing, Steps
  <2>3. /\ Become(m, d) /\ doing[m].step = "issue" /\ UNCHANGED <<link, account, overlapped>>
    BY <1>3 DEF DeleteUnused, On
  <2>4. doing[m].kind \notin overlapped => ~Recent(doing[m].kind)
    BY <2>3 DEF IssueInv, IssueSteps
  <2> HIDE DEF d
  <2> QED
    BY <2>2, <2>3, <2>4, AdvanceIssue DEF IssueSteps
<1> QED
  BY <1>2, <1>3

\* A DELETE waits only for another request that issues the same kind of link.
LEMMA WaitIssue ==
    ASSUME TypedInv, UsesInv, IssueInv, NEW m \in Mailers, AwaitRows(m) \/ DeleteSeen(m)
    PROVE  IssueInv'
<1>1. PICK d \in Doing :
        /\ Become(m, d) /\ d.kind = doing[m].kind /\ d.step \in {"wait", "insert"}
        /\ d.step = "wait" => /\ doing[m].step = "issue"
                             /\ \E t \in Unused(doing[m].kind) : LinkLocked(t)
        /\ d.step = "insert" => doing[m].step = "wait"
  BY WaitFacts
<1>2. UNCHANGED <<link, account, overlapped>> /\ doing[m].step \in IssueSteps
  BY <1>1 DEF AwaitRows, DeleteSeen, IssueSteps
<1>3. d.kind \in overlapped
  <2>1. CASE d.step = "wait"
    <3>1. PICK t \in Unused(doing[m].kind), n \in Mailers : t \in doing[n].doomed
      BY <1>1, <2>1 DEF LinkLocked
    <3>2. doing[n].step = "insert" /\ doing[n].kind = doing[m].kind
      BY <3>1 DEF UsesInv, Unused, OfKind
    <3>3. n # m /\ doing[n].step \in IssueSteps
      BY <1>1, <2>1, <3>2 DEF IssueSteps
    <3> QED
      BY <1>1, <1>2, <3>2, <3>3 DEF IssueInv
  <2>2. CASE d.step = "insert"
    BY <1>1, <1>2, <2>2 DEF IssueInv
  <2> QED
    BY <1>1, <2>1, <2>2
<1> QED
  BY <1>1, <1>2, <1>3, AdvanceIssue

\* The new link is the only young one, and the only unused one.
LEMMA CreateIssue ==
    ASSUME TypedInv, IssueInv, NEW m \in Mailers, CreateLink(m)
    PROVE  IssueInv'
<1> DEFINE k == doing[m].kind
           row == [kind |-> k, used |-> FALSE, age |-> 0]
<1>1. doing[m] \in Doing /\ doing[m].step = "insert" /\ k \in Kinds
      /\ UNCHANGED <<account, overlapped>>
  BY DEF CreateLink, On, TypedInv, MailTypeOK, Doing
<1>2. CASE MayFail /\ Rest(m) /\ UNCHANGED <<link, deleted>>
  BY <1>2, QuietIssue
<1>3. ASSUME NEW t \in Links, link[t] = NoLink,
             link' = [u \in Links |->
                   IF u = t THEN [kind |-> doing[m].kind, used |-> FALSE, age |-> 0]
                   ELSE IF u \in doing[m].doomed THEN NoLink ELSE link[u]],
             Become(m, [doing[m] EXCEPT !.step = "enqueue", !.on = t, !.doomed = {}])
      PROVE  IssueInv'
  <2> DEFINE d == [doing[m] EXCEPT !.step = "enqueue", !.on = t, !.doomed = {}]
  <2>1. d.step \notin IssueSteps
    BY <1>1 DEF Doing, IssueSteps
  <2>2. row \in Rows /\ row # NoLink /\ row.kind = k /\ ~row.used
    <3>1. row \in Rows
      BY <1>1 DEF Rows
    <3> QED
      BY <3>1, MailFacts
  <2>3. \A u \in Links : link'[u] = IF u = t THEN row
                                    ELSE IF u \in doing[m].doomed THEN NoLink ELSE link[u]
    BY <1>3
  <2>4. \A n \in Mailers : doing'[n] = IF n = m THEN d ELSE doing[n]
    BY <1>3 DEF Become, TypedInv, MailTypeOK
  <2>5. account # "none"
    BY <1>1 DEF IssueInv, IssueSteps
  <2> HIDE DEF d, row
  <2>6. \A h : /\ h # k => OfKind(h)' \subseteq OfKind(h) /\ Unused(h)' \subseteq Unused(h)
              /\ OfKind(h)' \subseteq OfKind(h) \union {t}
              /\ Unused(h)' \subseteq (Unused(h) \ doing[m].doomed) \union {t}
    BY <2>2, <2>3 DEF OfKind, Unused, Rowed
  <2>7. \A h : \A u \in OfKind(h)' : u # t => u \in OfKind(h) /\ link'[u] = link[u]
    BY <2>2, <2>3 DEF OfKind, Rowed
  <2>8. \A h : h # k /\ ~Recent(h) => ~Recent(h)'
    <3>1. \A h : h # k => t \notin OfKind(h)'
      BY <2>2, <2>3 DEF OfKind
    <3> QED
      BY <2>7, <3>1 DEF Recent
  <2>9. k \notin overlapped =>
            /\ \A n \in Mailers \ {m} : ~(doing[n].step \in IssueSteps /\ doing[n].kind = k)
            /\ ~Recent(k) /\ Unused(k) \subseteq doing[m].doomed
    BY <1>1 DEF IssueInv, IssueSteps
  <2>10. ASSUME NEW n \in Mailers, doing'[n].step \in IssueSteps
         PROVE  doing[n].kind \in overlapped
                \/ /\ \A o \in Mailers :
                          doing'[o].step \in IssueSteps /\ doing'[o].kind = doing'[n].kind => o = n
                   /\ doing'[n].step # "throttle" => ~Recent(doing[n].kind)'
                   /\ doing'[n].step # "wait"
                   /\ doing'[n].step = "insert" => Unused(doing[n].kind)' \subseteq doing'[n].doomed
    <3> DEFINE h == doing[n].kind
    <3>1. n # m /\ doing'[n] = doing[n]
      BY <2>1, <2>4, <2>10
    <3>2. CASE h = k
      BY <2>9, <2>10, <3>1, <3>2
    <3>3. CASE h # k /\ h \notin overlapped
      <4>1. /\ \A o \in Mailers : doing[o].step \in IssueSteps /\ doing[o].kind = h => o = n
            /\ doing[n].step # "throttle" => ~Recent(h)
            /\ doing[n].step # "wait"
            /\ doing[n].step = "insert" => Unused(h) \subseteq doing[n].doomed
        BY <2>10, <3>1, <3>3 DEF IssueInv
      <4>2. \A o \in Mailers : doing'[o].step \in IssueSteps /\ doing'[o].kind = h => o = n
        BY <2>1, <2>4, <4>1
      <4> QED
        BY <2>6, <2>8, <3>1, <3>3, <4>1, <4>2
    <3> QED
      BY <3>2, <3>3
  <2>11. ASSUME NEW h \in Kinds \ overlapped
         PROVE  /\ \A u, v \in Unused(h)' : u = v
                /\ \A u, v \in OfKind(h)' : link'[u].age = 0 /\ link'[v].age = 0 => u = v
    <3>1. CASE h = k
      <4>1. Unused(h)' \subseteq {t}
        BY <2>6, <2>9, <2>11, <3>1
      <4>2. \A u \in OfKind(h)' : link'[u].age = 0 => u = t
        BY <2>7, <2>9, <2>11, <3>1 DEF Recent
      <4> QED
        BY <4>1, <4>2
    <3>2. CASE h # k
      <4>1. OfKind(h)' \subseteq OfKind(h) /\ Unused(h)' \subseteq Unused(h)
        BY <2>6, <3>2
      <4>2. \A u \in OfKind(h)' : link'[u] = link[u]
        <5>1. t \notin OfKind(h)'
          BY <2>2, <2>3, <3>2 DEF OfKind
        <5> QED
          BY <2>7, <5>1
      <4> QED
        BY <2>11, <4>1, <4>2 DEF IssueInv
    <3> QED
      BY <3>1, <3>2
  <2>12. \A n \in Mailers : doing'[n].step \in IssueSteps => doing'[n].kind = doing[n].kind
    BY <2>1, <2>4
  <2> QED
    BY <1>1, <2>5, <2>10, <2>11, <2>12 DEF IssueInv
<1> QED
  BY <1>2, <1>3 DEF CreateLink

LEMMA IssueStep == TypedInv /\ UsesInv /\ IssueInv /\ [MailNext]_mailVars => IssueInv'
<1> SUFFICES ASSUME TypedInv, UsesInv, IssueInv, [MailNext]_mailVars PROVE IssueInv'
  OBVIOUS
<1>1. CASE UNCHANGED mailVars
  BY <1>1, NoIssue DEF mailVars
<1>2. CASE MailTick
  BY <1>2, TickEffect, NoIssue DEF MailTick
<1>3. ASSUME NEW m \in Mailers, MailNext, ~MailTick PROVE IssueInv'
  BY <1>3, QuietIssue, AskIssue, ThrottleIssue, WaitIssue, CreateIssue DEF MailNext
<1> QED
  BY <1>1, <1>2, <1>3 DEF MailNext

-----------------------------------------------------------------------------

\* Types, uses, sessions and issues hold together in every state.
THEOREM MailInductive == MailSpec => [](TypedInv /\ UsesInv /\ SessionInv /\ IssueInv)
BY MailInitTyped, MailInitUses, MailInitSession, MailInitIssue,
   TypedStep, UsesStep, SessionStep, IssueStep, PTL DEF MailSpec

\* The variables keep their types.
THEOREM MailTypeCorrect == MailSpec => []MailTypeOK
<1>1. TypedInv => MailTypeOK
  BY DEF TypedInv
<1> QED
  BY <1>1, MailInductive, PTL

\* A link works once, and never after a newer one replaced it, for any number of
\* requests that found it unused.
THEOREM LinkUsedOnceHolds == MailSpec => []LinkUsedOnce
<1>1. UsesInv => LinkUsedOnce
  BY DEF UsesInv, LinkUsedOnce
<1> QED
  BY <1>1, MailInductive, PTL

\* A reset ends every session of the old password whose sign-in it did not race.
THEOREM ResetRevokesHolds == MailSpec => []ResetRevokes
<1>1. SessionInv => ResetRevokes
  BY DEF SessionInv
<1> QED
  BY <1>1, MailInductive, PTL

LEMMA AtMostOne ==
    ASSUME NEW S, \A x, y \in S : x = y
    PROVE  Cardinality(S) <= 1
<1>1. CASE S = {}
  BY <1>1, FS_EmptySet
<1>2. ASSUME NEW x \in S PROVE Cardinality(S) <= 1
  <2>1. S = {x}
    BY <1>2
  <2> QED
    BY <2>1, FS_Singleton
<1> QED
  BY <1>1, <1>2

\* One usable link of each kind, and one per resend interval, unless two requests
\* issued at once or the throttle could not be read.
THEOREM OneLinkHolds == MailSpec => []OneLink
<1>1. IssueInv => OneLink
  <2> SUFFICES ASSUME IssueInv, NEW k \in Kinds \ overlapped
               PROVE  /\ Cardinality(Unused(k)) <= 1
                      /\ Cardinality({t \in OfKind(k) : link[t].age = 0}) <= 1
    BY DEF OneLink
  <2>1. \A t, u \in Unused(k) : t = u
    BY DEF IssueInv
  <2>2. \A t, u \in {v \in OfKind(k) : link[v].age = 0} : t = u
    BY DEF IssueInv
  <2> QED
    BY <2>1, <2>2, AtMostOne
<1> QED
  BY <1>1, MailInductive, PTL

-----------------------------------------------------------------------------
(* Sign-in (LoginFactors).                                                 *)

\* Steps of a request that the signed-in user, or one whose password was right,
\* has sent; the row is never deleted.
OwnSteps == {"setup", "store", "confirm", "enable", "disable"}

\* Steps of a callback that works for an OAuth state, and of an exchange that
\* holds the lock of a code.
CallbackSteps == {"provider", "resolve", "prepare", "deliver"}
ExchangeSteps == {"session", "commit"}

\* What a request is about exists.
HeldOK ==
    /\ linked => user # None
    /\ \A s \in States : state[s] # None /\ state[s].link => user # None
    /\ \A r \in Requests :
          /\ req[r].at \in OwnSteps => user # None
          /\ req[r].at \in CallbackSteps => req[r].on \in States /\ state[req[r].on] # None
          /\ req[r].at \in ExchangeSteps =>
                req[r].on \in Codes /\ code[req[r].on] # None /\ ~code[req[r].on].used

\* A challenge is used before its session is created, by one request.
ChallengeOK(c) ==
    /\ sessions[c] \in {0, 1}
    /\ sessions[c] = 1 => challenge[c] = "used"
    /\ \A r \in Requests : At(r, "issue") /\ req[r].with = c =>
          /\ challenge[c] = "used" /\ sessions[c] = 0
          /\ \A q \in Requests : At(q, "issue") /\ req[q].with = c => q = r

\* The lock of a code admits one exchange; its session is created before the
\* code is marked, but marked or not it is in one request's hands.
CodeOK(x) ==
    /\ \A r \in Requests : req[r].at \in ExchangeSteps /\ req[r].on = x =>
          \A q \in Requests : req[q].at \in ExchangeSteps /\ req[q].on = x => q = r
    /\ code[x] = None => sessions[x] = 0
    /\ x \notin torn =>
          /\ sessions[x] \in {0, 1}
          /\ sessions[x] = 1 =>
                code[x].used \/ \E r \in Requests : At(r, "commit") /\ req[r].on = x

\* A state that no two callbacks read at once has one callback, until it is used.
StateOK(s) ==
    s \notin crossed =>
        /\ yield[s] \in {0, 1}
        /\ yield[s] = 1 => state[s] # None /\ state[s].used
        /\ \A r \in Requests : req[r].at \in CallbackSteps /\ req[r].on = s =>
              /\ yield[s] = 0
              /\ state[s].used <=> ~At(r, "provider")
              /\ \A q \in Requests : req[q].at \in CallbackSteps /\ req[q].on = s => q = r

\* With TOTP on, whatever may still lead to a session without a challenge was
\* under way when it was turned on.
Leads(r) ==
    \/ At(r, "issue") /\ req[r].with = None
    \/ At(r, "prepare") /\ ~req[r].totp
    \/ At(r, "deliver") /\ req[r].with = None
    \/ At(r, "session")

FlippedOK ==
    user # None /\ user.totp =>
        /\ \A r \in Requests : Leads(r) => r \in flipped
        /\ \A x \in Codes : code[x] # None /\ ~code[x].used /\ code[x].carries = None => x \in flipped

LoginInv ==
    /\ TypeOK
    /\ HeldOK
    /\ EnabledHasSecret
    /\ FlippedOK
    /\ \A c \in Challenges : ChallengeOK(c)
    /\ \A x \in Codes : CodeOK(x)
    /\ \A s \in States : StateOK(s)

LEMMA LoginFacts ==
    /\ MaxSecrets \in Nat /\ MaxConfirms \in Nat /\ MaxFaults \in Nat
    /\ None \notin Challenges /\ None \notin States /\ None \notin Codes
    /\ None \notin UserRows /\ None \notin Factors /\ None \notin CodeRows /\ None \notin StateRows
    /\ \A x \in Codes : x \notin Challenges /\ x \notin Requests /\ x \notin States
BY LoginAssumption

LEMMA IdleFacts ==
    /\ Idle \in Held
    /\ Idle.at = "idle" /\ Idle.on = None /\ Idle.with = None /\ Idle.copy = None /\ ~Idle.totp
BY DEF Idle, Held, Labels

LEMMA LoginInitInv == Init => LoginInv
<1> SUFFICES ASSUME Init PROVE LoginInv
  OBVIOUS
<1>1. \A r \in Requests : req[r] = Idle
  BY DEF Init
<1>2. TypeOK
  <2>1. sessions \in [Challenges \union Codes -> Nat] /\ yield \in [States -> Nat]
    BY DEF Init
  <2>2. req \in [Requests -> Held] /\ drawn \in Secret
    BY IdleFacts, LoginFacts DEF Init, Secret
  <2> QED
    BY <2>1, <2>2 DEF Init, TypeOK
<1>3. HeldOK /\ EnabledHasSecret /\ FlippedOK
  BY <1>1, IdleFacts DEF Init, HeldOK, EnabledHasSecret, FlippedOK, OwnSteps, CallbackSteps, ExchangeSteps
<1>4. \A c \in Challenges : ChallengeOK(c)
  BY <1>1, IdleFacts DEF Init, ChallengeOK, At
<1>5. \A x \in Codes : CodeOK(x)
  BY <1>1, IdleFacts DEF Init, CodeOK, ExchangeSteps
<1>6. \A s \in States : StateOK(s)
  BY <1>1, IdleFacts DEF Init, StateOK, CallbackSteps
<1> QED
  BY <1>2, <1>3, <1>4, <1>5, <1>6 DEF LoginInv

-----------------------------------------------------------------------------
(* Each part of the invariant, under the steps that cannot disturb it.     *)

\* What a step in the hands of one request leaves to all requests: their records
\* are as they were, except that of r, which is now h.
Turns(r, h) == req' = [req EXCEPT ![r] = h]

LEMMA Turned ==
    ASSUME TypeOK, NEW r \in Requests, NEW h, Turns(r, h)
    PROVE  req'[r] = h /\ \A q \in Requests : q # r => req'[q] = req[q]
BY DEF TypeOK, Turns

\* Nobody sets out for the session of a challenge, and none is taken back.
LEMMA ChallengesKeep ==
    ASSUME LoginInv,
           \A q \in Requests : req'[q] = req[q] \/ req'[q].at # "issue" \/ req'[q].with = None,
           \A c \in Challenges : sessions'[c] = sessions[c],
           \A c \in Challenges : challenge[c] = "used" => challenge'[c] = "used"
    PROVE  \A c \in Challenges : ChallengeOK(c)'
BY LoginFacts DEF LoginInv, ChallengeOK, At

\* Nobody takes or gives back the lock of a code; codes may be created.
LEMMA CodesKeep ==
    ASSUME LoginInv,
           \A q \in Requests : req'[q] = req[q]
                               \/ (req'[q].at \notin ExchangeSteps /\ req[q].at # "commit"),
           \A x \in Codes : sessions'[x] = sessions[x] /\ (x \in torn => x \in torn'),
           \A x \in Codes : code[x] # None => code'[x] = code[x]
    PROVE  \A x \in Codes : CodeOK(x)'
BY DEF LoginInv, CodeOK, ExchangeSteps, At

\* Callbacks go on or end, but for the step that marks the state.
LEMMA StatesKeep ==
    ASSUME LoginInv,
           \A q \in Requests : \/ req'[q] = req[q]
                               \/ req'[q].at \notin CallbackSteps
                               \/ /\ req[q].at \in CallbackSteps /\ req'[q].on = req[q].on
                                  /\ req'[q].at = "provider" <=> req[q].at = "provider",
           UNCHANGED <<yield, crossed>>,
           \A s \in States : state[s] # None => state'[s] = state[s]
    PROVE  \A s \in States : StateOK(s)'
BY DEF LoginInv, HeldOK, StateOK, CallbackSteps, At

\* Rows that requests are about stay.
LEMMA HeldKeeps ==
    ASSUME LoginInv,
           user # None => user' # None,
           linked' => user' # None,
           \A s \in States : state[s] # None => state'[s] # None,
           \A s \in States : state'[s] # None /\ state'[s].link => user' # None,
           \A q \in Requests : req'[q].at \in OwnSteps => user' # None,
           \A q \in Requests : req'[q] # req[q] /\ req'[q].at \in CallbackSteps =>
                                  req'[q].on \in States /\ state'[req'[q].on] # None,
           \A q \in Requests : req'[q].at \in ExchangeSteps =>
                                  req'[q].on \in Codes /\ code'[req'[q].on] # None
                                  /\ ~code'[req'[q].on].used
    PROVE  HeldOK'
BY DEF LoginInv, HeldOK

\* TOTP stays as it is, and nobody sets out for a session without a challenge.
LEMMA FlippedKeeps ==
    ASSUME LoginInv, user' # None /\ user'.totp => user # None /\ user.totp,
           \A q \in Requests : req'[q] = req[q] \/ ~Leads(q)' \/ q \in flipped',
           \A q \in Requests : q \in flipped => q \in flipped' \/ ~Leads(q)',
           \A x \in Codes : x \in flipped => x \in flipped',
           \A x \in Codes : code'[x] = code[x] \/ (code'[x] # None /\ (code'[x].used \/ code'[x].carries # None \/ x \in flipped'))
    PROVE  FlippedOK'
BY DEF LoginInv, FlippedOK, Leads, At

-----------------------------------------------------------------------------
(* Steps that move a request and leave the rows alone, or hand out a       *)
(* challenge.                                                              *)

LEMMA HoldsKeep ==
    ASSUME LoginInv, NEW r \in Requests, NEW h \in Held, Hold(r, h),
           ~At(r, "commit"), h.at \notin ExchangeSteps,
           h.at = "issue" => h.with = None,
           h.at \in OwnSteps => user # None,
           h.at \in CallbackSteps =>
              /\ req[r].at \in CallbackSteps /\ h.on = req[r].on
              /\ h.at = "provider" <=> req[r].at = "provider",
           user # None /\ user.totp /\ Leads(r)' => r \in flipped,
           challenge' \in [Challenges -> {"none", "open", "used", "expired"}],
           \A c \in Challenges : challenge[c] = "used" => challenge'[c] = "used",
           UNCHANGED <<userVars, state, code, boundVars, proven, spoiled, sessions, torn, crossed, yield>>
    PROVE  LoginInv'
<1>1. req'[r] = h /\ \A q \in Requests : q # r => req'[q] = req[q]
  BY Turned DEF LoginInv, Hold, Turns
<1>2. TypeOK'
  <2>1. req' \in [Requests -> Held]
    BY DEF LoginInv, TypeOK, Hold
  <2> QED
    BY <2>1 DEF LoginInv, TypeOK, Hold, userVars, boundVars
<1>3. UNCHANGED <<user, linked, factor, flipped, state, code, proven, spoiled, sessions, torn, crossed, yield>>
  BY DEF Hold, userVars
<1>4. HeldOK'
  <2>1. \A q \in Requests : req'[q].at \in ExchangeSteps =>
           req'[q].on \in Codes /\ code'[req'[q].on] # None /\ ~code'[req'[q].on].used
    BY <1>1, <1>3 DEF LoginInv, HeldOK
  <2>2. \A q \in Requests : req'[q].at \in OwnSteps => user' # None
    BY <1>1, <1>3 DEF LoginInv, HeldOK
  <2>3. req'[r].at \in CallbackSteps => req'[r].on \in States /\ state'[req'[r].on] # None
    BY <1>1, <1>3 DEF LoginInv, HeldOK
  <2>4. (linked => user # None) /\ \A s \in States : state[s] # None /\ state[s].link => user # None
    BY DEF LoginInv, HeldOK
  <2> QED
    BY <1>1, <1>3, <2>1, <2>2, <2>3, <2>4, HeldKeeps
<1>5. EnabledHasSecret'
  BY <1>3 DEF LoginInv, EnabledHasSecret, HasSecret
<1>6. FlippedOK'
  <2>1. CASE user # None /\ user.totp
    BY <1>1, <1>3, <2>1, FlippedKeeps
  <2>2. CASE ~(user # None /\ user.totp)
    BY <1>3, <2>2 DEF FlippedOK
  <2> QED
    BY <2>1, <2>2
<1>7. \A c \in Challenges : ChallengeOK(c)'
  BY <1>1, <1>3, ChallengesKeep
<1>8. \A x \in Codes : CodeOK(x)'
  BY <1>1, <1>3, CodesKeep DEF At
<1>9. \A s \in States : StateOK(s)'
  BY <1>1, <1>3, StatesKeep
<1> QED
  BY <1>2, <1>4, <1>5, <1>6, <1>7, <1>8, <1>9 DEF LoginInv

LEMMA EndsKeep ==
    ASSUME LoginInv, NEW r \in Requests, End(r), ~At(r, "commit"),
           challenge' \in [Challenges -> {"none", "open", "used", "expired"}],
           \A c \in Challenges : challenge[c] = "used" => challenge'[c] = "used",
           faults' \in Nat,
           UNCHANGED <<userVars, state, code, drawn, confirms, proven, spoiled, sessions, torn, crossed, yield>>
    PROVE  LoginInv'
<1>1. req'[r] = Idle /\ \A q \in Requests : q # r => req'[q] = req[q]
  BY Turned DEF LoginInv, End, Turns
<1>2. TypeOK'
  <2>1. req' \in [Requests -> Held]
    BY IdleFacts DEF LoginInv, TypeOK, End
  <2> QED
    BY <2>1 DEF LoginInv, TypeOK, End, userVars
<1>3. UNCHANGED <<user, linked, factor, state, code, proven, spoiled, sessions, torn, crossed, yield>>
  BY DEF userVars
<1>4. HeldOK'
  <2>1. \A q \in Requests : req'[q].at \in ExchangeSteps =>
           req'[q].on \in Codes /\ code'[req'[q].on] # None /\ ~code'[req'[q].on].used
    BY <1>1, <1>3, IdleFacts DEF LoginInv, HeldOK, ExchangeSteps
  <2>2. \A q \in Requests : req'[q].at \in OwnSteps => user' # None
    BY <1>1, <1>3, IdleFacts DEF LoginInv, HeldOK, OwnSteps
  <2>3. req'[r].at \notin CallbackSteps
    BY <1>1, IdleFacts DEF CallbackSteps
  <2>4. (linked => user # None) /\ \A s \in States : state[s] # None /\ state[s].link => user # None
    BY DEF LoginInv, HeldOK
  <2> QED
    BY <1>1, <1>3, <2>1, <2>2, <2>3, <2>4, HeldKeeps
<1>5. EnabledHasSecret'
  BY <1>3 DEF LoginInv, EnabledHasSecret, HasSecret
<1>6. FlippedOK'
  <2>1. ~Leads(r)'
    BY <1>1, IdleFacts DEF Leads, At
  <2>2. flipped' = flipped \ {r} /\ r \notin Codes
    BY LoginFacts DEF End
  <2> QED
    BY <1>1, <1>3, <2>1, <2>2, FlippedKeeps
<1>7. \A c \in Challenges : ChallengeOK(c)'
  BY <1>1, <1>3, ChallengesKeep, IdleFacts
<1>8. \A x \in Codes : CodeOK(x)'
  BY <1>1, <1>3, CodesKeep, IdleFacts DEF At, ExchangeSteps
<1>9. \A s \in States : StateOK(s)'
  BY <1>1, <1>3, StatesKeep, IdleFacts DEF CallbackSteps
<1> QED
  BY <1>2, <1>4, <1>5, <1>6, <1>7, <1>8, <1>9 DEF LoginInv

LEMMA FailKeeps ==
    ASSUME LoginInv, NEW r \in Requests, Fail(r)
    PROVE  LoginInv'
BY EndsKeep DEF Fail, LoginInv, TypeOK, rowVars

LEMMA ProviderRefusesKeeps ==
    ASSUME LoginInv, NEW r \in Requests, ProviderRefuses(r)
    PROVE  LoginInv'
<1>1. ~At(r, "commit") /\ End(r)
  BY DEF ProviderRefuses, At
<1>2. UNCHANGED <<userVars, state, code, challenge, boundVars, proven, spoiled, sessions, torn, crossed, yield>>
  BY DEF ProviderRefuses, rowVars
<1> QED
  BY <1>1, <1>2, EndsKeep DEF LoginInv, TypeOK, boundVars

\* A challenge is handed out from those that were never used.
LEMMA IssueChallengeKeeps ==
    ASSUME LoginInv, NEW r \in Requests, IssueChallenge(r)
    PROVE  LoginInv'
<1>1. ~At(r, "commit") /\ End(r)
  BY DEF IssueChallenge, At
<1>2. /\ challenge' \in [Challenges -> {"none", "open", "used", "expired"}]
      /\ \A c \in Challenges : challenge[c] = "used" => challenge'[c] = "used"
  BY DEF IssueChallenge, LoginInv, TypeOK
<1>3. UNCHANGED <<userVars, state, code, boundVars, proven, spoiled, sessions, torn, crossed, yield>>
  BY DEF IssueChallenge
<1> QED
  BY <1>1, <1>2, <1>3, EndsKeep DEF LoginInv, TypeOK, boundVars

LEMMA LoginKeeps ==
    ASSUME LoginInv, NEW r \in Requests, Login(r)
    PROVE  LoginInv'
<1> DEFINE h == [Idle EXCEPT !.at = IF user.totp THEN "factor" ELSE "issue"]
<1>1. h \in Held /\ h.at \in {"factor", "issue"} /\ h.with = None
  BY DEF Idle, Held, Labels
<1>2. (user.totp => h.at = "factor") /\ Hold(r, h)
  BY DEF Idle, Login
<1> HIDE DEF h
<1>3. user # None /\ user.totp => ~Leads(r)'
  BY <1>1, <1>2, Turned DEF LoginInv, Hold, Turns, Leads, At
<1>4. challenge' = challenge /\ ~At(r, "commit")
  BY DEF Login, rowVars, At
<1>5. UNCHANGED <<userVars, state, code, boundVars, proven, spoiled, sessions, torn, crossed, yield>>
  BY DEF Login, rowVars
<1> QED
  BY <1>1, <1>2, <1>3, <1>4, <1>5, HoldsKeep
     DEF LoginInv, TypeOK, OwnSteps, CallbackSteps, ExchangeSteps

\* The steps of a signed-in user that only read.
LEMMA OwnReadKeeps ==
    ASSUME LoginInv, NEW r \in Requests, user # None, ~At(r, "commit"),
           NEW h \in Held, h.at \in OwnSteps, Hold(r, h),
           UNCHANGED <<userVars, rowVars, boundVars, proven, spoiled, sessions, torn, crossed, yield>>
    PROVE  LoginInv'
<1>1. h.at \notin CallbackSteps \union ExchangeSteps /\ h.at # "issue"
  BY DEF OwnSteps, CallbackSteps, ExchangeSteps
<1>2. ~Leads(r)'
  BY <1>1, Turned DEF LoginInv, Hold, Turns, Leads, At, CallbackSteps, ExchangeSteps
<1>3. UNCHANGED <<userVars, challenge, state, code, boundVars, proven, spoiled, sessions, torn, crossed, yield>>
  BY DEF rowVars
<1> QED
  BY <1>1, <1>2, <1>3, HoldsKeep DEF LoginInv, TypeOK

LEMMA SetupTOTPKeeps ==
    ASSUME LoginInv, NEW r \in Requests, SetupTOTP(r)
    PROVE  LoginInv'
<1> DEFINE h == [Idle EXCEPT !.at = "setup"]
<1>1. h \in Held /\ h.at \in OwnSteps
  BY DEF Idle, Held, Labels, OwnSteps
<1> QED
  BY <1>1, OwnReadKeeps DEF SetupTOTP, At

LEMMA ConfirmTOTPKeeps ==
    ASSUME LoginInv, NEW r \in Requests, ConfirmTOTP(r)
    PROVE  LoginInv'
<1> DEFINE h == [Idle EXCEPT !.at = "confirm"]
<1>1. h \in Held /\ h.at \in OwnSteps
  BY DEF Idle, Held, Labels, OwnSteps
<1> QED
  BY <1>1, OwnReadKeeps DEF ConfirmTOTP, At

LEMMA DisableTOTPKeeps ==
    ASSUME LoginInv, NEW r \in Requests, DisableTOTP(r)
    PROVE  LoginInv'
<1> DEFINE h == [Idle EXCEPT !.at = "disable"]
<1>1. h \in Held /\ h.at \in OwnSteps
  BY DEF Idle, Held, Labels, OwnSteps
<1> QED
  BY <1>1, OwnReadKeeps DEF DisableTOTP, At

LEMMA ReadFactorKeeps ==
    ASSUME LoginInv, NEW r \in Requests, NEW from \in OwnSteps, NEW to \in OwnSteps,
           ReadFactor(r, from, to)
    PROVE  LoginInv'
<1> DEFINE h == [req[r] EXCEPT !.at = to, !.copy = factor]
<1>1. h \in Held /\ h.at \in OwnSteps
  BY DEF LoginInv, TypeOK, Held, Labels, OwnSteps
<1>2. user # None /\ ~At(r, "commit")
  BY DEF ReadFactor, At, LoginInv, HeldOK, OwnSteps
<1> QED
  BY <1>1, <1>2, OwnReadKeeps DEF ReadFactor

\* A callback for a user with TOTP goes on with a challenge or not at all.
LEMMA PrepareChallengeKeeps ==
    ASSUME LoginInv, NEW r \in Requests, PrepareChallenge(r)
    PROVE  LoginInv'
<1>1. ~At(r, "commit") /\ req[r] \in Held /\ req[r].at = "prepare"
  BY DEF PrepareChallenge, At, LoginInv, TypeOK
<1>2. UNCHANGED <<userVars, state, code, boundVars, proven, spoiled, sessions, torn, crossed, yield>>
  BY DEF PrepareChallenge
<1>3. challenge \in [Challenges -> {"none", "open", "used", "expired"}] /\ faults \in Nat
  BY DEF LoginInv, TypeOK
<1>4. CASE End(r) /\ UNCHANGED challenge
  BY <1>1, <1>2, <1>3, <1>4, EndsKeep DEF boundVars
<1>5. CASE ~NeedsFactor(req[r]) /\ Goto(r, "deliver") /\ UNCHANGED challenge
  <2> DEFINE h == [req[r] EXCEPT !.at = "deliver"]
  <2>1. h \in Held /\ h.at = "deliver" /\ h.on = req[r].on
    BY <1>1 DEF Held, Labels
  <2>2. Hold(r, h)
    BY <1>5 DEF Goto
  <2>3. user # None /\ user.totp => r \in flipped
    BY <1>1, <1>5 DEF LoginInv, FlippedOK, Leads, At, NeedsFactor
  <2> HIDE DEF h
  <2> QED
    BY <1>1, <1>2, <1>3, <1>5, <2>1, <2>2, <2>3, HoldsKeep DEF OwnSteps, CallbackSteps, ExchangeSteps
<1>6. CASE NeedsFactor(req[r]) /\ HasSecret(factor)
           /\ \E c \in Challenges :
                /\ challenge[c] = "none"
                /\ challenge' = [challenge EXCEPT ![c] = "open"]
                /\ Hold(r, [req[r] EXCEPT !.at = "deliver", !.with = c])
  <2> PICK c \in Challenges :
                /\ challenge[c] = "none"
                /\ challenge' = [challenge EXCEPT ![c] = "open"]
                /\ Hold(r, [req[r] EXCEPT !.at = "deliver", !.with = c])
    BY <1>6
  <2> DEFINE h == [req[r] EXCEPT !.at = "deliver", !.with = c]
  <2>1. h \in Held /\ h.at = "deliver" /\ h.on = req[r].on /\ h.with # None /\ Hold(r, h)
    BY <1>1, LoginFacts DEF Held, Labels
  <2>2. /\ challenge' \in [Challenges -> {"none", "open", "used", "expired"}]
        /\ \A d \in Challenges : challenge[d] = "used" => challenge'[d] = "used"
    BY <1>3
  <2> HIDE DEF h
  <2>3. ~Leads(r)'
    BY <2>1, Turned DEF LoginInv, Hold, Turns, Leads, At
  <2> QED
    BY <1>1, <1>2, <2>1, <2>2, <2>3, HoldsKeep DEF OwnSteps, CallbackSteps, ExchangeSteps
<1> QED
  BY <1>4, <1>5, <1>6 DEF PrepareChallenge

-----------------------------------------------------------------------------
(* Steps that no request is in the middle of.                              *)

LEMMA RegisterKeeps == ASSUME LoginInv, Register PROVE LoginInv'
<1>1. /\ user = None /\ user' \in UserRows /\ ~user'.totp
      /\ UNCHANGED <<linked, factor, challenge, state, code, req, drawn, confirms, faults,
                     proven, spoiled, sessions, flipped, torn, crossed, yield>>
  BY DEF Register, rowVars, boundVars, historyVars, UserRows
<1>2. TypeOK'
  BY <1>1 DEF LoginInv, TypeOK
<1>3. user' # None
  BY <1>1, LoginFacts
<1>4. HeldOK'
  BY <1>1, <1>3 DEF LoginInv, HeldOK
<1>5. EnabledHasSecret' /\ FlippedOK'
  BY <1>1 DEF EnabledHasSecret, FlippedOK
<1>6. /\ \A c \in Challenges : ChallengeOK(c)'
      /\ \A x \in Codes : CodeOK(x)'
      /\ \A s \in States : StateOK(s)'
  BY <1>1 DEF LoginInv, ChallengeOK, CodeOK, StateOK, At
<1> QED
  BY <1>2, <1>4, <1>5, <1>6 DEF LoginInv

LEMMA VerifyEmailKeeps == ASSUME LoginInv, VerifyEmail PROVE LoginInv'
<1>1. UNCHANGED <<linked, factor, challenge, state, code, req, drawn, confirms, faults,
                  proven, spoiled, sessions, flipped, torn, crossed, yield>>
  BY DEF VerifyEmail, rowVars, boundVars, historyVars
<1>2. user # None /\ user \in UserRows
  BY DEF VerifyEmail, LoginInv, TypeOK
<1>3. user' \in UserRows /\ user'.totp = user.totp
  BY <1>2 DEF VerifyEmail, UserRows
<1>4. TypeOK'
  BY <1>1, <1>3 DEF LoginInv, TypeOK
<1>5. user' # None
  BY <1>3, LoginFacts
<1>6. HeldOK'
  BY <1>1, <1>5 DEF LoginInv, HeldOK
<1>7. EnabledHasSecret' /\ FlippedOK'
  BY <1>1, <1>2, <1>3 DEF LoginInv, EnabledHasSecret, HasSecret, FlippedOK, Leads, At
<1>8. /\ \A c \in Challenges : ChallengeOK(c)'
      /\ \A x \in Codes : CodeOK(x)'
      /\ \A s \in States : StateOK(s)'
  BY <1>1 DEF LoginInv, ChallengeOK, CodeOK, StateOK, At
<1> QED
  BY <1>4, <1>6, <1>7, <1>8 DEF LoginInv

LEMMA ExpireKeeps == ASSUME LoginInv, NEW c \in Challenges, Expire(c) PROVE LoginInv'
<1>1. UNCHANGED <<user, linked, factor, state, code, req, drawn, confirms, faults,
                  proven, spoiled, sessions, flipped, torn, crossed, yield>>
  BY DEF Expire, userVars, boundVars, historyVars
<1>2. /\ challenge' \in [Challenges -> {"none", "open", "used", "expired"}]
      /\ \A d \in Challenges : challenge[d] = "used" => challenge'[d] = "used"
  BY DEF Expire, LoginInv, TypeOK
<1>3. TypeOK'
  BY <1>1, <1>2 DEF LoginInv, TypeOK
<1>4. HeldOK' /\ EnabledHasSecret' /\ FlippedOK'
  BY <1>1 DEF LoginInv, HeldOK, EnabledHasSecret, HasSecret, FlippedOK, Leads, At
<1>5. \A d \in Challenges : ChallengeOK(d)'
  BY <1>1, <1>2, ChallengesKeep
<1>6. (\A x \in Codes : CodeOK(x)') /\ (\A s \in States : StateOK(s)')
  BY <1>1 DEF LoginInv, CodeOK, StateOK, At
<1> QED
  BY <1>3, <1>4, <1>5, <1>6 DEF LoginInv

\* A new state has no callback yet: a callback is about a state that exists.
LEMMA OAuthAuthorizeURLKeeps ==
    ASSUME LoginInv, NEW s \in States, NEW on \in BOOLEAN, OAuthAuthorizeURL(s, on)
    PROVE  LoginInv'
<1>1. UNCHANGED <<user, linked, factor, challenge, code, req, drawn, confirms, faults,
                  proven, spoiled, sessions, flipped, torn, crossed, yield>>
  BY DEF OAuthAuthorizeURL, userVars, boundVars, historyVars
<1>2. [used |-> FALSE, link |-> on] \in StateRows
  BY DEF StateRows
<1>3. /\ state' \in [States -> StateRows \union {None}]
      /\ state[s] = None /\ state'[s] # None /\ (state'[s].link => user # None)
      /\ \A t \in States : t # s => state'[t] = state[t]
  BY <1>2, LoginFacts DEF OAuthAuthorizeURL, LoginInv, TypeOK
<1>4. TypeOK'
  BY <1>1, <1>3 DEF LoginInv, TypeOK
<1>5. HeldOK'
  BY <1>1, <1>3 DEF LoginInv, HeldOK
<1>6. EnabledHasSecret' /\ FlippedOK'
  BY <1>1 DEF LoginInv, EnabledHasSecret, HasSecret, FlippedOK, Leads, At
<1>7. (\A c \in Challenges : ChallengeOK(c)') /\ (\A x \in Codes : CodeOK(x)')
  BY <1>1 DEF LoginInv, ChallengeOK, CodeOK, At
<1>8. \A t \in States : StateOK(t)'
  BY <1>1, <1>3, StatesKeep
<1> QED
  BY <1>4, <1>5, <1>6, <1>7, <1>8 DEF LoginInv

-----------------------------------------------------------------------------
(* The session of a challenge.                                             *)

LEMMA VerifyMFALoginKeeps ==
    ASSUME LoginInv, NEW r \in Requests, NEW c \in Challenges, NEW k \in 1 .. MaxSecrets,
           VerifyMFALogin(r, c, k)
    PROVE  LoginInv'
<1> DEFINE h == [Idle EXCEPT !.at = "issue", !.with = c]
<1>1. h \in Held /\ h.at = "issue" /\ h.with = c /\ c # None
  BY LoginFacts DEF Idle, Held, Labels
<1>2. req' = [req EXCEPT ![r] = h] /\ flipped' = flipped /\ req[r].at = "idle"
  BY DEF VerifyMFALogin, Hold, At
<1> HIDE DEF h
<1>3. req'[r] = h /\ \A q \in Requests : q # r => req'[q] = req[q]
  BY <1>2, Turned DEF LoginInv, Turns
<1>4. /\ challenge[c] = "open" /\ challenge'[c] = "used"
      /\ \A d \in Challenges : d # c => challenge'[d] = challenge[d]
      /\ challenge' \in [Challenges -> {"none", "open", "used", "expired"}]
  BY DEF VerifyMFALogin, ChallengeUsed, LoginInv, TypeOK
<1>5. UNCHANGED <<user, linked, factor, state, code, drawn, confirms, faults,
                  proven, spoiled, sessions, flipped, torn, crossed, yield>>
  BY <1>2 DEF VerifyMFALogin, userVars, boundVars
<1>6. TypeOK'
  <2>1. req' \in [Requests -> Held]
    BY <1>1, <1>2 DEF LoginInv, TypeOK
  <2> QED
    BY <1>4, <1>5, <2>1 DEF LoginInv, TypeOK
<1>7. HeldOK'
  BY <1>1, <1>3, <1>5 DEF LoginInv, HeldOK, OwnSteps, CallbackSteps, ExchangeSteps
<1>8. EnabledHasSecret'
  BY <1>5 DEF LoginInv, EnabledHasSecret, HasSecret
<1>9. FlippedOK'
  <2>1. ~Leads(r)'
    BY <1>1, <1>3 DEF Leads, At
  <2> QED
    BY <1>3, <1>5, <2>1, FlippedKeeps
<1>10. \A d \in Challenges : ChallengeOK(d)'
  <2>1. sessions[c] = 0 /\ \A q \in Requests : ~(At(q, "issue") /\ req[q].with = c)
    BY <1>4 DEF LoginInv, ChallengeOK
  <2>2. ChallengeOK(c)'
    BY <1>1, <1>3, <1>4, <1>5, <2>1 DEF ChallengeOK, At
  <2>3. ASSUME NEW d \in Challenges, d # c PROVE ChallengeOK(d)'
    BY <1>1, <1>3, <1>4, <1>5, <2>3 DEF LoginInv, ChallengeOK, At
  <2> QED
    BY <2>2, <2>3
<1>11. \A x \in Codes : CodeOK(x)'
  BY <1>1, <1>2, <1>3, <1>5, CodesKeep DEF At, ExchangeSteps
<1>12. \A s \in States : StateOK(s)'
  BY <1>1, <1>3, <1>5, StatesKeep DEF CallbackSteps
<1> QED
  BY <1>6, <1>7, <1>8, <1>9, <1>10, <1>11, <1>12 DEF LoginInv

LEMMA IssueAuthenticationKeeps ==
    ASSUME LoginInv, NEW r \in Requests, IssueAuthentication(r)
    PROVE  LoginInv'
<1> DEFINE c == req[r].with
<1>1. CASE c = None
  <2>1. ~At(r, "commit") /\ End(r)
    BY DEF IssueAuthentication, At
  <2>2. UNCHANGED <<userVars, state, code, challenge, boundVars, proven, spoiled, sessions, torn, crossed, yield>>
    BY <1>1 DEF IssueAuthentication, rowVars
  <2> QED
    BY <2>1, <2>2, EndsKeep DEF LoginInv, TypeOK, boundVars
<1>2. CASE c # None
  <2> PICK d \in Challenges : d = req[r].with
    BY <1>2 DEF LoginInv, TypeOK, Held
  <2>1. /\ req'[r] = Idle /\ \A q \in Requests : q # r => req'[q] = req[q]
        /\ At(r, "issue") /\ req[r].with = d
    BY Turned DEF IssueAuthentication, LoginInv, End, Turns
  <2>2. UNCHANGED <<user, linked, factor, challenge, state, code, drawn, confirms, faults,
                    proven, spoiled, torn, crossed, yield>>
    BY DEF IssueAuthentication, userVars, rowVars, boundVars
  <2>3. sessions' = [sessions EXCEPT ![d] = @ + 1] /\ sessions \in [Challenges \union Codes -> Nat]
    BY <1>2 DEF IssueAuthentication, LoginInv, TypeOK
  <2>4. sessions[d] = 0 /\ challenge[d] = "used"
    BY <2>1 DEF LoginInv, ChallengeOK
  <2>5. /\ sessions' \in [Challenges \union Codes -> Nat] /\ sessions'[d] = 1
        /\ \A g \in Challenges \union Codes : g # d => sessions'[g] = sessions[g]
        /\ d \notin Codes
    BY <2>3, <2>4, LoginFacts
  <2>6. TypeOK'
    <3>1. req' \in [Requests -> Held] /\ flipped' \subseteq Requests \union Codes
      BY IdleFacts DEF IssueAuthentication, End, LoginInv, TypeOK
    <3> QED
      BY <2>2, <2>5, <3>1 DEF LoginInv, TypeOK
  <2>7. HeldOK'
    BY <2>1, <2>2, IdleFacts DEF LoginInv, HeldOK, OwnSteps, CallbackSteps, ExchangeSteps
  <2>8. EnabledHasSecret'
    BY <2>2 DEF LoginInv, EnabledHasSecret, HasSecret
  <2>9. FlippedOK'
    <3>1. ~Leads(r)' /\ flipped' = flipped \ {r} /\ r \notin Codes
      BY <2>1, IdleFacts, LoginFacts DEF Leads, At, IssueAuthentication, End
    <3> QED
      BY <2>1, <2>2, <3>1, FlippedKeeps
  <2>10. \A e \in Challenges : ChallengeOK(e)'
    <3>1. \A q \in Requests : q # r => ~(At(q, "issue") /\ req[q].with = d)
      BY <2>1 DEF LoginInv, ChallengeOK
    <3>2. ChallengeOK(d)'
      BY <2>1, <2>2, <2>4, <2>5, <3>1, IdleFacts DEF ChallengeOK, At
    <3>3. ASSUME NEW e \in Challenges, e # d PROVE ChallengeOK(e)'
      BY <2>1, <2>2, <2>5, <3>3, IdleFacts DEF LoginInv, ChallengeOK, At
    <3> QED
      BY <3>2, <3>3
  <2>11. \A x \in Codes : CodeOK(x)'
    <3>1. \A x \in Codes : sessions'[x] = sessions[x]
      BY <2>5
    <3> QED
      BY <2>1, <2>2, <3>1, IdleFacts, CodesKeep DEF At, ExchangeSteps
  <2>12. \A s \in States : StateOK(s)'
    BY <2>1, <2>2, IdleFacts, StatesKeep DEF CallbackSteps
  <2> QED
    BY <2>6, <2>7, <2>8, <2>9, <2>10, <2>11, <2>12 DEF LoginInv
<1> QED
  BY <1>1, <1>2

-----------------------------------------------------------------------------
(* Enrollment.                                                             *)

\* A step that ends a request, leaves the rows of a sign-in alone and turns TOTP
\* on for nobody: what remains to be shown is about the factor.
LEMMA FactorStepKeeps ==
    ASSUME LoginInv, NEW r \in Requests, End(r), req[r].at \in OwnSteps,
           user' \in UserRows, user'.totp => user.totp,
           EnabledHasSecret',
           factor' \in Factors \union {None}, drawn' \in Secret, confirms' \in Nat, faults' \in Nat,
           proven' \subseteq Secret, spoiled' \in BOOLEAN,
           UNCHANGED <<linked, rowVars, sessions, torn, crossed, yield>>
    PROVE  LoginInv'
<1>1. req'[r] = Idle /\ \A q \in Requests : q # r => req'[q] = req[q]
  BY Turned DEF LoginInv, End, Turns
<1>2. UNCHANGED <<challenge, state, code>> /\ user' # None /\ user # None
  BY LoginFacts DEF rowVars, LoginInv, HeldOK
<1>3. TypeOK'
  <2>1. req' \in [Requests -> Held] /\ flipped' \subseteq Requests \union Codes
    BY IdleFacts DEF LoginInv, TypeOK, End
  <2> QED
    BY <1>2, <2>1 DEF LoginInv, TypeOK
<1>4. HeldOK'
  BY <1>1, <1>2, IdleFacts DEF LoginInv, HeldOK, OwnSteps, CallbackSteps, ExchangeSteps
<1>5. FlippedOK'
  <2>1. ~Leads(r)' /\ flipped' = flipped \ {r} /\ r \notin Codes
    BY <1>1, IdleFacts, LoginFacts DEF Leads, At, End
  <2> QED
    BY <1>1, <1>2, <2>1, FlippedKeeps
<1>6. \A c \in Challenges : ChallengeOK(c)'
  BY <1>1, <1>2, IdleFacts, ChallengesKeep
<1>7. \A x \in Codes : CodeOK(x)'
  BY <1>1, <1>2, IdleFacts, CodesKeep DEF OwnSteps, ExchangeSteps
<1>8. \A s \in States : StateOK(s)'
  BY <1>1, <1>2, IdleFacts, StatesKeep DEF CallbackSteps
<1> QED
  BY <1>3, <1>4, <1>5, <1>6, <1>7, <1>8 DEF LoginInv

LEMMA WipeTOTPKeeps ==
    ASSUME LoginInv, NEW r \in Requests, WipeTOTP(r)
    PROVE  LoginInv'
<1>1. req[r].at \in OwnSteps /\ user # None /\ user \in UserRows
  BY DEF WipeTOTP, At, OwnSteps, LoginInv, TypeOK, HeldOK
<1>2. user' \in UserRows /\ user'.totp = FALSE
  BY <1>1 DEF WipeTOTP, UserRows
<1>3. EnabledHasSecret'
  BY <1>2 DEF EnabledHasSecret
<1>4. drawn' \in Secret /\ confirms' \in Nat /\ faults' \in Nat /\ proven' \subseteq Secret
  BY DEF WipeTOTP, boundVars, LoginInv, TypeOK
<1> QED
  BY <1>1, <1>2, <1>3, <1>4, FactorStepKeeps DEF WipeTOTP

\* A copy stored over the factor of a user with TOTP spoils it, or changes nothing.
LEMMA StorePendingKeeps ==
    ASSUME LoginInv, NEW r \in Requests, StorePending(r)
    PROVE  LoginInv'
<1> DEFINE fresh == [id |-> drawn + 1, secret |-> 0, pending |-> drawn + 1]
           row == IF req[r].copy = None THEN fresh
                  ELSE [req[r].copy EXCEPT !.pending = drawn + 1]
<1>1. req[r].at \in OwnSteps /\ user # None /\ user \in UserRows
  BY DEF StorePending, At, OwnSteps, LoginInv, TypeOK, HeldOK
<1>2. drawn + 1 \in Secret /\ 0 \in Secret
  BY LoginFacts DEF StorePending, LoginInv, TypeOK, Secret
<1>3. row \in Factors
  BY <1>2 DEF Factors, LoginInv, TypeOK, Held
<1>4. factor' \in Factors \union {None}
  <2>1. factor' = IF Saves(row) THEN row ELSE factor
    BY DEF StorePending
  <2> HIDE DEF row
  <2> QED
    BY <1>3, <2>1 DEF LoginInv, TypeOK
<1>5. drawn' \in Secret /\ confirms' \in Nat /\ faults' \in Nat /\ proven' \subseteq Secret
  BY <1>2 DEF StorePending, LoginInv, TypeOK
<1>6. /\ spoiled' = (spoiled \/ (user.totp /\ factor' # factor))
      /\ UNCHANGED <<user, linked, rowVars, proven, sessions, torn, crossed, yield>> /\ End(r)
  BY DEF StorePending
<1>7. EnabledHasSecret'
  <2> SUFFICES ASSUME user # None, user.totp, ~spoiled' PROVE (HasSecret(factor) /\ factor.secret \in proven)'
    BY <1>6 DEF EnabledHasSecret
  <2>1. ~spoiled /\ factor' = factor
    BY <1>6
  <2> QED
    BY <1>6, <2>1 DEF LoginInv, EnabledHasSecret, HasSecret
<1>8. spoiled' \in BOOLEAN
  BY <1>6
<1> QED
  BY <1>1, <1>4, <1>5, <1>6, <1>7, <1>8, FactorStepKeeps

\* The secret that becomes the factor's is the one the code was checked against.
LEMMA EnableTOTPKeeps ==
    ASSUME LoginInv, NEW r \in Requests, EnableTOTP(r)
    PROVE  LoginInv'
<1>1. req[r] \in Held /\ req[r].at \in OwnSteps /\ user # None /\ user \in UserRows
  BY DEF EnableTOTP, At, OwnSteps, LoginInv, TypeOK, HeldOK
<1>2. CASE ~Confirmable(req[r].copy)
  <2>1. ~At(r, "commit") /\ End(r)
    BY <1>2 DEF EnableTOTP, At
  <2>2. UNCHANGED <<userVars, state, code, challenge, boundVars, proven, spoiled, sessions, torn, crossed, yield>>
    BY <1>2 DEF EnableTOTP, rowVars, userVars, boundVars
  <2> QED
    BY <2>1, <2>2, EndsKeep DEF LoginInv, TypeOK, boundVars
<1>3. CASE Confirmable(req[r].copy)
  <2> DEFINE copy == req[r].copy
  <2>1. copy \in Factors /\ copy.pending # 0 /\ copy.pending \in Secret
    BY <1>1, <1>3 DEF Confirmable, Held, Factors
  <2>2. /\ confirms' = confirms + 1 /\ factor' = Confirmed(copy) /\ proven' = proven \union {copy.pending}
        /\ user' = [user EXCEPT !.totp = TRUE] /\ req' = [req EXCEPT ![r] = Idle]
        /\ UNCHANGED <<linked, rowVars, drawn, faults, spoiled, sessions, torn, crossed, yield>>
    BY <1>3 DEF EnableTOTP
  <2>3. factor' \in Factors /\ factor'.secret = copy.pending /\ factor'.pending = 0
    <3>1. 0 \in Secret
      BY LoginFacts DEF Secret
    <3> QED
      BY <2>1, <2>2, <3>1 DEF Confirmed, Factors
  <2>4. user' \in UserRows /\ user'.totp
    BY <1>1, <2>2 DEF UserRows
  <2>5. EnabledHasSecret'
    BY <2>1, <2>2, <2>3, LoginFacts DEF EnabledHasSecret, HasSecret
  <2>6. confirms' \in Nat /\ proven' \subseteq Secret
    BY <2>1, <2>2 DEF LoginInv, TypeOK
  <2>7. CASE user.totp
    <3>1. End(r)
      BY <1>3, <2>7, <2>2 DEF EnableTOTP, End
    <3>2. drawn' \in Secret /\ faults' \in Nat /\ spoiled' \in BOOLEAN
      BY <2>2 DEF LoginInv, TypeOK
    <3> QED
      BY <1>1, <2>2, <2>3, <2>4, <2>5, <2>6, <2>7, <3>1, <3>2, FactorStepKeeps
  <2>8. CASE ~user.totp
    <3>1. flipped' = {q \in Requests \ {r} : ~At(q, "idle")} \union {x \in Codes : code[x] # None}
      BY <1>3, <2>8 DEF EnableTOTP
    <3>2. req'[r] = Idle /\ \A q \in Requests : q # r => req'[q] = req[q]
      BY <2>2, Turned DEF LoginInv, Turns
    <3>3. UNCHANGED <<linked, challenge, state, code, drawn, faults, spoiled, sessions, torn, crossed, yield>>
      BY <2>2 DEF rowVars
    <3>4. TypeOK'
      <4>1. req' \in [Requests -> Held] /\ flipped' \subseteq Requests \union Codes
        BY <2>2, <3>1, IdleFacts DEF LoginInv, TypeOK
      <4> QED
        BY <2>3, <2>4, <2>6, <3>3, <4>1 DEF LoginInv, TypeOK
    <3>5. user' # None
      BY <2>4, LoginFacts
    <3>6. HeldOK'
      BY <3>2, <3>3, <3>5, IdleFacts DEF LoginInv, HeldOK, OwnSteps, CallbackSteps, ExchangeSteps
    <3>7. FlippedOK'
      <4>1. ~Leads(r)'
        BY <3>2, IdleFacts DEF Leads, At
      <4>2. ASSUME NEW q \in Requests, Leads(q)' PROVE q \in flipped'
        <5>1. q # r /\ ~At(q, "idle")
          BY <3>2, <4>1, <4>2 DEF Leads, At
        <5> QED
          BY <3>1, <5>1
      <4> QED
        BY <3>1, <3>3, <4>2 DEF FlippedOK
    <3>8. \A c \in Challenges : ChallengeOK(c)'
      BY <3>2, <3>3, IdleFacts, ChallengesKeep
    <3>9. \A x \in Codes : CodeOK(x)'
      BY <1>1, <3>2, <3>3, IdleFacts, CodesKeep DEF OwnSteps, ExchangeSteps
    <3>10. \A s \in States : StateOK(s)'
      BY <3>2, <3>3, IdleFacts, StatesKeep DEF CallbackSteps
    <3> QED
      BY <2>5, <3>4, <3>6, <3>7, <3>8, <3>9, <3>10 DEF LoginInv
  <2> QED
    BY <2>7, <2>8
<1> QED
  BY <1>2, <1>3

-----------------------------------------------------------------------------
(* A callback, up to its exchange code.                                    *)

\* Whoever starts on a state that is not used is alone on it, or crosses another.
LEMMA OAuthHandleCallbackKeeps ==
    ASSUME LoginInv, NEW r \in Requests, NEW s \in States, OAuthHandleCallback(r, s)
    PROVE  LoginInv'
<1> DEFINE h == [Idle EXCEPT !.at = "provider", !.on = s]
<1>1. h \in Held /\ h.at = "provider" /\ h.on = s
  BY DEF Idle, Held, Labels
<1>2. req' = [req EXCEPT ![r] = h] /\ flipped' = flipped /\ req[r].at = "idle"
  BY DEF OAuthHandleCallback, Hold, At
<1> HIDE DEF h
<1>3. req'[r] = h /\ \A q \in Requests : q # r => req'[q] = req[q]
  BY <1>2, Turned DEF LoginInv, Turns
<1>4. UNCHANGED <<user, linked, factor, challenge, state, code, drawn, confirms, faults,
                  proven, spoiled, sessions, flipped, torn, yield>>
  BY <1>2 DEF OAuthHandleCallback, userVars, rowVars, boundVars
<1>5. TypeOK'
  <2>1. req' \in [Requests -> Held] /\ crossed' \subseteq States
    BY <1>1, <1>2 DEF LoginInv, TypeOK, OAuthHandleCallback
  <2> QED
    BY <1>4, <2>1 DEF LoginInv, TypeOK
<1>6. state[s] # None /\ ~state[s].used
  BY DEF OAuthHandleCallback
<1>7. HeldOK'
  BY <1>1, <1>3, <1>4, <1>6 DEF LoginInv, HeldOK, OwnSteps, CallbackSteps, ExchangeSteps
<1>8. EnabledHasSecret'
  BY <1>4 DEF LoginInv, EnabledHasSecret, HasSecret
<1>9. FlippedOK'
  <2>1. ~Leads(r)'
    BY <1>1, <1>3 DEF Leads, At
  <2> QED
    BY <1>3, <1>4, <2>1, FlippedKeeps
<1>10. \A c \in Challenges : ChallengeOK(c)'
  BY <1>1, <1>3, <1>4, ChallengesKeep
<1>11. \A x \in Codes : CodeOK(x)'
  BY <1>1, <1>2, <1>3, <1>4, CodesKeep DEF ExchangeSteps
<1>12. \A t \in States : StateOK(t)'
  <2>1. s \notin crossed' =>
           s \notin crossed /\ \A q \in Requests : ~(At(q, "provider") /\ req[q].on = s)
    BY DEF OAuthHandleCallback
  <2>2. s \notin crossed => yield[s] = 0
    BY <1>6 DEF LoginInv, StateOK
  <2>3. s \notin crossed' => \A q \in Requests : ~(req[q].at \in CallbackSteps /\ req[q].on = s)
    BY <1>6, <2>1 DEF LoginInv, StateOK
  <2>4. StateOK(s)'
    BY <1>1, <1>3, <1>4, <1>6, <2>1, <2>2, <2>3 DEF StateOK, At
  <2>5. ASSUME NEW t \in States, t # s PROVE StateOK(t)'
    <3>1. t \in crossed' <=> t \in crossed
      BY <2>5 DEF OAuthHandleCallback
    <3>2. StateOK(t)
      BY DEF LoginInv
    <3> QED
      BY <1>1, <1>3, <1>4, <2>5, <3>1, <3>2 DEF StateOK, At
  <2> QED
    BY <2>4, <2>5
<1> QED
  BY <1>5, <1>7, <1>8, <1>9, <1>10, <1>11, <1>12 DEF LoginInv

LEMMA MarkStateUsedKeeps ==
    ASSUME LoginInv, NEW r \in Requests, MarkStateUsed(r)
    PROVE  LoginInv'
<1>1. req[r] \in Held /\ req[r].at = "provider"
  BY DEF MarkStateUsed, At, LoginInv, TypeOK
<1>2. PICK s \in States : s = req[r].on /\ state[s] # None
  BY <1>1 DEF LoginInv, HeldOK, CallbackSteps
<1> DEFINE h == [req[r] EXCEPT !.at = "resolve"]
<1>3. h \in Held /\ h.at = "resolve" /\ h.on = s
  BY <1>1, <1>2 DEF Held, Labels
<1>4. req' = [req EXCEPT ![r] = h] /\ flipped' = flipped
  BY DEF MarkStateUsed, Goto, Hold
<1>5. state[s] \in StateRows /\ state' = [state EXCEPT ![s].used = TRUE]
  BY <1>2 DEF MarkStateUsed, LoginInv, TypeOK
<1> HIDE DEF h
<1>6. req'[r] = h /\ \A q \in Requests : q # r => req'[q] = req[q]
  BY <1>4, Turned DEF LoginInv, Turns
<1>7. UNCHANGED <<user, linked, factor, challenge, code, drawn, confirms, faults,
                  proven, spoiled, sessions, flipped, torn, crossed, yield>>
  BY <1>4 DEF MarkStateUsed, userVars, boundVars
<1>8. /\ state' \in [States -> StateRows \union {None}]
      /\ state'[s] \in StateRows /\ state'[s].used /\ state'[s].link = state[s].link
      /\ \A t \in States : t # s => state'[t] = state[t]
  <2>1. [state[s] EXCEPT !.used = TRUE] \in StateRows
    BY <1>5 DEF StateRows
  <2>2. state' = [state EXCEPT ![s] = [state[s] EXCEPT !.used = TRUE]]
    BY <1>5
  <2>3. [state[s] EXCEPT !.used = TRUE].used /\ [state[s] EXCEPT !.used = TRUE].link = state[s].link
    BY <1>5 DEF StateRows
  <2> QED
    BY <2>1, <2>2, <2>3 DEF LoginInv, TypeOK
<1>9. state'[s] # None
  BY <1>8, LoginFacts
<1>10. TypeOK'
  <2>1. req' \in [Requests -> Held]
    BY <1>3, <1>4 DEF LoginInv, TypeOK
  <2> QED
    BY <1>7, <1>8, <2>1 DEF LoginInv, TypeOK
<1>11. HeldOK'
  BY <1>2, <1>3, <1>6, <1>7, <1>8, <1>9 DEF LoginInv, HeldOK, OwnSteps, CallbackSteps, ExchangeSteps
<1>12. EnabledHasSecret'
  BY <1>7 DEF LoginInv, EnabledHasSecret, HasSecret
<1>13. FlippedOK'
  <2>1. ~Leads(r)'
    BY <1>3, <1>6 DEF Leads, At
  <2> QED
    BY <1>6, <1>7, <2>1, FlippedKeeps
<1>14. \A c \in Challenges : ChallengeOK(c)'
  BY <1>3, <1>6, <1>7, ChallengesKeep
<1>15. \A x \in Codes : CodeOK(x)'
  BY <1>1, <1>3, <1>6, <1>7, CodesKeep DEF ExchangeSteps
<1>16. \A t \in States : StateOK(t)'
  <2>1. s \notin crossed => /\ yield[s] = 0
                            /\ \A q \in Requests : req[q].at \in CallbackSteps /\ req[q].on = s => q = r
    BY <1>1, <1>2 DEF LoginInv, StateOK, CallbackSteps
  <2>2. StateOK(s)'
    BY <1>3, <1>6, <1>7, <1>8, <1>9, <2>1 DEF StateOK, At
  <2>3. ASSUME NEW t \in States, t # s PROVE StateOK(t)'
    BY <1>2, <1>3, <1>6, <1>7, <1>8, <2>3 DEF LoginInv, StateOK, At
  <2> QED
    BY <2>2, <2>3
<1> QED
  BY <1>10, <1>11, <1>12, <1>13, <1>14, <1>15, <1>16 DEF LoginInv

\* A callback that has found, linked or created the user knows whether the row it
\* read wants a second factor.
LEMMA ResolvesKeep ==
    ASSUME LoginInv, NEW r \in Requests, At(r, "resolve"),
           NEW h \in Held, h.at = "prepare", h.on = req[r].on, Hold(r, h),
           user' \in UserRows, user # None => user' = user, user'.totp => h.totp,
           linked' = TRUE,
           UNCHANGED <<factor, rowVars, boundVars, proven, spoiled, sessions, torn, crossed, yield>>,
           user = None => ~user'.totp
    PROVE  LoginInv'
<1>1. req'[r] = h /\ \A q \in Requests : q # r => req'[q] = req[q]
  BY Turned DEF LoginInv, Turns, Hold
<1>2. UNCHANGED <<factor, challenge, state, code, drawn, confirms, faults,
                  proven, spoiled, sessions, flipped, torn, crossed, yield>>
  BY DEF Hold, rowVars, boundVars
<1>3. user' # None /\ req[r].at = "resolve"
  BY LoginFacts DEF At
<1>4. TypeOK'
  <2>1. req' \in [Requests -> Held]
    BY DEF LoginInv, TypeOK, Hold
  <2> QED
    BY <1>2, <2>1 DEF LoginInv, TypeOK
<1>5. HeldOK'
  BY <1>1, <1>2, <1>3 DEF LoginInv, HeldOK, OwnSteps, CallbackSteps, ExchangeSteps
<1>6. EnabledHasSecret'
  BY <1>2 DEF LoginInv, EnabledHasSecret, HasSecret
<1>7. FlippedOK'
  <2>1. CASE user'.totp
    <3>1. ~Leads(r)'
      BY <1>1, <2>1 DEF Leads, At
    <3> QED
      BY <1>1, <1>2, <3>1, FlippedKeeps
  <2>2. CASE ~user'.totp
    BY <2>2 DEF FlippedOK
  <2> QED
    BY <2>1, <2>2
<1>8. \A c \in Challenges : ChallengeOK(c)'
  BY <1>1, <1>2, ChallengesKeep
<1>9. \A x \in Codes : CodeOK(x)'
  BY <1>1, <1>2, <1>3, CodesKeep DEF ExchangeSteps
<1>10. \A s \in States : StateOK(s)'
  BY <1>1, <1>2, <1>3, StatesKeep DEF CallbackSteps
<1> QED
  BY <1>4, <1>5, <1>6, <1>7, <1>8, <1>9, <1>10 DEF LoginInv

LEMMA ResolveUserKeeps ==
    ASSUME LoginInv, NEW r \in Requests, ResolveUser(r)
    PROVE  LoginInv'
<1>1. /\ req[r] \in Held /\ At(r, "resolve") /\ req[r].on \in States /\ state[req[r].on] # None
      /\ UNCHANGED <<factor, rowVars, boundVars, proven, spoiled, sessions, torn, crossed, yield>>
  BY DEF ResolveUser, At, LoginInv, TypeOK, HeldOK, CallbackSteps
<1>2. CASE /\ linked \/ state[req[r].on].link
           /\ linked' = TRUE
           /\ Hold(r, [req[r] EXCEPT !.at = "prepare", !.totp = user.totp])
           /\ UNCHANGED user
  <2> DEFINE h == [req[r] EXCEPT !.at = "prepare", !.totp = user.totp]
  <2>1. user # None /\ user \in UserRows /\ user.totp \in BOOLEAN
    BY <1>1, <1>2 DEF LoginInv, HeldOK, TypeOK, UserRows
  <2>2. h \in Held /\ h.at = "prepare" /\ h.on = req[r].on /\ h.totp = user.totp
    BY <1>1, <2>1 DEF Held, Labels
  <2>3. Hold(r, h)
    BY <1>2
  <2> HIDE DEF h
  <2> QED
    BY <1>1, <1>2, <2>1, <2>2, <2>3, ResolvesKeep
<1>3. CASE /\ ~linked /\ user = None
           /\ linked' = TRUE
           /\ user' = [verified |-> TRUE, totp |-> FALSE]
           /\ Goto(r, "prepare")
  <2> DEFINE h == [req[r] EXCEPT !.at = "prepare"]
  <2>1. h \in Held /\ h.at = "prepare" /\ h.on = req[r].on
    BY <1>1 DEF Held, Labels
  <2>2. Hold(r, h)
    BY <1>3 DEF Goto
  <2>3. user' \in UserRows /\ ~user'.totp
    BY <1>3 DEF UserRows
  <2> HIDE DEF h
  <2> QED
    BY <1>1, <1>3, <2>1, <2>2, <2>3, ResolvesKeep
<1>4. CASE ~linked /\ End(r) /\ UNCHANGED <<user, linked>>
  <2>1. ~At(r, "commit")
    BY <1>1 DEF At
  <2>2. UNCHANGED <<userVars, state, code, challenge, boundVars, proven, spoiled, sessions, torn, crossed, yield>>
    BY <1>1, <1>4 DEF rowVars, userVars
  <2> QED
    BY <1>4, <2>1, <2>2, EndsKeep DEF LoginInv, TypeOK, boundVars
<1> QED
  BY <1>2, <1>3, <1>4 DEF ResolveUser

LEMMA CreateExchangeCodeKeeps ==
    ASSUME LoginInv, NEW r \in Requests, CreateExchangeCode(r)
    PROVE  LoginInv'
<1>1. req[r] \in Held /\ req[r].at = "deliver"
  BY DEF CreateExchangeCode, At, LoginInv, TypeOK
<1>2. PICK s \in States : s = req[r].on /\ state[s] # None
  BY <1>1 DEF LoginInv, HeldOK, CallbackSteps
<1>3. PICK x \in Codes :
        /\ code[x] = None
        /\ code' = [code EXCEPT ![x] = [used |-> FALSE, carries |-> req[r].with]]
        /\ flipped' = (flipped \ {r}) \union (IF r \in flipped THEN {x} ELSE {})
  BY DEF CreateExchangeCode
<1>4. /\ req'[r] = Idle /\ \A q \in Requests : q # r => req'[q] = req[q]
      /\ req' = [req EXCEPT ![r] = Idle]
  BY Turned DEF CreateExchangeCode, LoginInv, Turns
<1>5. UNCHANGED <<user, linked, factor, challenge, state, drawn, confirms, faults,
                  proven, spoiled, sessions, torn, crossed>>
  BY DEF CreateExchangeCode, userVars, boundVars
<1>6. yield' = [yield EXCEPT ![s] = @ + 1] /\ yield \in [States -> Nat]
  BY <1>2 DEF CreateExchangeCode, LoginInv, TypeOK
<1>7. [used |-> FALSE, carries |-> req[r].with] \in CodeRows
  BY <1>1 DEF CodeRows, Held
<1>8. /\ code' \in [Codes -> CodeRows \union {None}]
      /\ code'[x] # None /\ ~code'[x].used /\ code'[x].carries = req[r].with
      /\ \A y \in Codes : y # x => code'[y] = code[y]
  BY <1>3, <1>7, LoginFacts DEF LoginInv, TypeOK
<1>9. TypeOK'
  <2>1. req' \in [Requests -> Held] /\ flipped' \subseteq Requests \union Codes
    BY <1>3, <1>4, IdleFacts DEF LoginInv, TypeOK
  <2>2. yield' \in [States -> Nat]
    BY <1>6
  <2> QED
    BY <1>5, <1>8, <2>1, <2>2 DEF LoginInv, TypeOK
<1>10. \A y \in Codes : code[y] # None => code'[y] = code[y]
  BY <1>3, <1>8
<1>11. HeldOK'
  BY <1>4, <1>5, <1>10, IdleFacts DEF LoginInv, HeldOK, OwnSteps, CallbackSteps, ExchangeSteps
<1>12. EnabledHasSecret'
  BY <1>5 DEF LoginInv, EnabledHasSecret, HasSecret
<1>13. FlippedOK'
  <2>1. CASE user # None /\ user.totp
    <3>1. ~Leads(r)' /\ r \notin Codes
      BY <1>4, IdleFacts, LoginFacts DEF Leads, At
    <3>2. code'[x].carries = None => x \in flipped'
      BY <1>1, <1>3, <1>8, <2>1 DEF LoginInv, FlippedOK, Leads, At
    <3>3. \A q \in Requests : q \in flipped => q \in flipped' \/ ~Leads(q)'
      BY <1>3, <3>1
    <3>4. \A y \in Codes : y \in flipped => y \in flipped'
      BY <1>3, <3>1
    <3> QED
      BY <1>4, <1>5, <1>8, <2>1, <3>1, <3>2, <3>3, <3>4, FlippedKeeps
  <2>2. CASE ~(user # None /\ user.totp)
    BY <1>5, <2>2 DEF FlippedOK
  <2> QED
    BY <2>1, <2>2
<1>14. \A c \in Challenges : ChallengeOK(c)'
  BY <1>4, <1>5, IdleFacts, ChallengesKeep
<1>15. \A y \in Codes : CodeOK(y)'
  BY <1>1, <1>4, <1>5, <1>10, IdleFacts, CodesKeep DEF ExchangeSteps
<1>16. \A t \in States : StateOK(t)'
  <2>1. s \notin crossed =>
           /\ yield[s] = 0 /\ state[s].used
           /\ \A q \in Requests : req[q].at \in CallbackSteps /\ req[q].on = s => q = r
    BY <1>1, <1>2 DEF LoginInv, StateOK, CallbackSteps, At
  <2>2. s \notin crossed => yield'[s] = 1
    BY <1>6, <2>1
  <2>3. \A t \in States : t # s => yield'[t] = yield[t]
    BY <1>6
  <2>4. StateOK(s)'
    BY <1>2, <1>4, <1>5, <2>1, <2>2, IdleFacts DEF StateOK, CallbackSteps
  <2>5. ASSUME NEW t \in States, t # s PROVE StateOK(t)'
    BY <1>4, <1>5, <2>3, <2>5, IdleFacts DEF LoginInv, StateOK, CallbackSteps, At
  <2> QED
    BY <2>4, <2>5
<1> QED
  BY <1>9, <1>11, <1>12, <1>13, <1>14, <1>15, <1>16 DEF LoginInv

-----------------------------------------------------------------------------
(* An exchange code, locked from the check to the commit.                  *)

LEMMA OAuthCompleteExchangeKeeps ==
    ASSUME LoginInv, NEW r \in Requests, NEW x \in Codes, OAuthCompleteExchange(r, x)
    PROVE  LoginInv'
<1> DEFINE h == [Idle EXCEPT !.at = IF code[x].carries = None THEN "session" ELSE "commit", !.on = x]
<1>1. h \in Held /\ h.at \in ExchangeSteps /\ h.on = x
  BY DEF Idle, Held, Labels, ExchangeSteps
<1>2. h.at = "session" => code[x].carries = None
  BY DEF Idle
<1>3. req' = [req EXCEPT ![r] = h] /\ req[r].at = "idle"
  BY DEF OAuthCompleteExchange, At
<1> HIDE DEF h
<1>4. req'[r] = h /\ \A q \in Requests : q # r => req'[q] = req[q]
  BY <1>3, Turned DEF LoginInv, Turns
<1>5. UNCHANGED <<user, linked, factor, challenge, state, code, drawn, confirms, faults,
                  proven, spoiled, sessions, torn, crossed, yield>>
  BY DEF OAuthCompleteExchange, userVars, rowVars, boundVars
<1>6. flipped' = IF x \in flipped THEN flipped \union {r} ELSE flipped
  BY DEF OAuthCompleteExchange
<1>7. /\ code[x] # None /\ ~code[x].used
      /\ \A q \in Requests : ~(req[q].at \in ExchangeSteps /\ req[q].on = x)
  BY DEF OAuthCompleteExchange, CodeLocked, ExchangeSteps
<1>8. TypeOK'
  <2>1. req' \in [Requests -> Held] /\ flipped' \subseteq Requests \union Codes
    BY <1>1, <1>3, <1>6 DEF LoginInv, TypeOK
  <2> QED
    BY <1>5, <2>1 DEF LoginInv, TypeOK
<1>9. HeldOK'
  BY <1>1, <1>4, <1>5, <1>7 DEF LoginInv, HeldOK, OwnSteps, CallbackSteps, ExchangeSteps
<1>10. EnabledHasSecret'
  BY <1>5 DEF LoginInv, EnabledHasSecret, HasSecret
<1>11. FlippedOK'
  <2>1. CASE user # None /\ user.totp
    <3>1. Leads(r)' => h.at = "session"
      BY <1>1, <1>4 DEF Leads, At, ExchangeSteps
    <3>2. Leads(r)' => r \in flipped'
      BY <1>2, <1>6, <1>7, <2>1, <3>1 DEF LoginInv, FlippedOK
    <3> QED
      BY <1>4, <1>5, <1>6, <2>1, <3>2, FlippedKeeps
  <2>2. CASE ~(user # None /\ user.totp)
    BY <1>5, <2>2 DEF FlippedOK
  <2> QED
    BY <2>1, <2>2
<1>12. \A c \in Challenges : ChallengeOK(c)'
  BY <1>1, <1>4, <1>5, ChallengesKeep DEF ExchangeSteps
<1>13. \A y \in Codes : CodeOK(y)'
  <2>1. x \notin torn => sessions[x] = 0
    BY <1>7 DEF LoginInv, CodeOK, ExchangeSteps, At
  <2>2. CodeOK(x)'
    BY <1>1, <1>4, <1>5, <1>7, <2>1 DEF CodeOK
  <2>3. ASSUME NEW y \in Codes, y # x PROVE CodeOK(y)'
    <3>1. CodeOK(y)
      BY DEF LoginInv
    <3> QED
      BY <1>1, <1>3, <1>4, <1>5, <2>3, <3>1 DEF CodeOK, At
  <2> QED
    BY <2>2, <2>3
<1>14. \A s \in States : StateOK(s)'
  BY <1>1, <1>4, <1>5, StatesKeep DEF CallbackSteps, ExchangeSteps
<1> QED
  BY <1>8, <1>9, <1>10, <1>11, <1>12, <1>13, <1>14 DEF LoginInv

LEMMA SessionForCodeKeeps ==
    ASSUME LoginInv, NEW r \in Requests, SessionForCode(r)
    PROVE  LoginInv'
<1>1. req[r] \in Held /\ req[r].at = "session"
  BY DEF SessionForCode, At, LoginInv, TypeOK
<1>2. PICK x \in Codes : x = req[r].on /\ code[x] # None /\ ~code[x].used
  BY <1>1 DEF LoginInv, HeldOK, ExchangeSteps
<1> DEFINE h == [req[r] EXCEPT !.at = "commit"]
<1>3. h \in Held /\ h.at = "commit" /\ h.on = x
  BY <1>1, <1>2 DEF Held, Labels
<1>4. req' = [req EXCEPT ![r] = h] /\ flipped' = flipped
  BY DEF SessionForCode, Goto, Hold
<1> HIDE DEF h
<1>5. req'[r] = h /\ \A q \in Requests : q # r => req'[q] = req[q]
  BY <1>4, Turned DEF LoginInv, Turns
<1>6. UNCHANGED <<user, linked, factor, challenge, state, code, drawn, confirms, faults,
                  proven, spoiled, flipped, torn, crossed, yield>>
  BY <1>4 DEF SessionForCode, userVars, rowVars, boundVars
<1>7. sessions' = [sessions EXCEPT ![x] = @ + 1] /\ sessions \in [Challenges \union Codes -> Nat]
  BY <1>2 DEF SessionForCode, LoginInv, TypeOK
<1>8. /\ sessions' \in [Challenges \union Codes -> Nat]
      /\ sessions'[x] = sessions[x] + 1
      /\ \A g \in Challenges \union Codes : g # x => sessions'[g] = sessions[g]
      /\ x \notin Challenges
  BY <1>7, LoginFacts
<1>9. TypeOK'
  <2>1. req' \in [Requests -> Held]
    BY <1>3, <1>4 DEF LoginInv, TypeOK
  <2> QED
    BY <1>6, <1>8, <2>1 DEF LoginInv, TypeOK
<1>10. HeldOK'
  BY <1>2, <1>3, <1>5, <1>6 DEF LoginInv, HeldOK, OwnSteps, CallbackSteps, ExchangeSteps
<1>11. EnabledHasSecret'
  BY <1>6 DEF LoginInv, EnabledHasSecret, HasSecret
<1>12. FlippedOK'
  <2>1. ~Leads(r)'
    BY <1>3, <1>5 DEF Leads, At
  <2> QED
    BY <1>5, <1>6, <2>1, FlippedKeeps
<1>13. \A c \in Challenges : ChallengeOK(c)'
  <2>1. \A c \in Challenges : sessions'[c] = sessions[c]
    BY <1>8
  <2> QED
    BY <1>3, <1>5, <1>6, <2>1, ChallengesKeep
<1>14. \A y \in Codes : CodeOK(y)'
  <2>1. \A q \in Requests : req[q].at \in ExchangeSteps /\ req[q].on = x => q = r
    BY <1>1, <1>2 DEF LoginInv, CodeOK, ExchangeSteps
  <2>2. x \notin torn => sessions[x] = 0
    BY <1>1, <1>2, <2>1 DEF LoginInv, CodeOK, ExchangeSteps, At
  <2>3. CodeOK(x)'
    BY <1>2, <1>3, <1>5, <1>6, <1>8, <2>1, <2>2 DEF CodeOK, At
  <2>4. ASSUME NEW y \in Codes, y # x PROVE CodeOK(y)'
    <3>1. CodeOK(y) /\ sessions'[y] = sessions[y]
      BY <1>8, <2>4 DEF LoginInv
    <3> QED
      BY <1>2, <1>3, <1>5, <1>6, <2>4, <3>1 DEF CodeOK, At
  <2> QED
    BY <2>3, <2>4
<1>15. \A s \in States : StateOK(s)'
  BY <1>3, <1>5, <1>6, StatesKeep DEF CallbackSteps
<1> QED
  BY <1>9, <1>10, <1>11, <1>12, <1>13, <1>14, <1>15 DEF LoginInv

LEMMA CommitCodeKeeps ==
    ASSUME LoginInv, NEW r \in Requests, CommitCode(r)
    PROVE  LoginInv'
<1>1. req[r] \in Held /\ req[r].at = "commit"
  BY DEF CommitCode, At, LoginInv, TypeOK
<1>2. PICK x \in Codes : x = req[r].on /\ code[x] # None /\ ~code[x].used
  BY <1>1 DEF LoginInv, HeldOK, ExchangeSteps
<1>3. /\ req'[r] = Idle /\ \A q \in Requests : q # r => req'[q] = req[q]
      /\ req' = [req EXCEPT ![r] = Idle] /\ flipped' = flipped \ {r}
  BY Turned DEF CommitCode, LoginInv, End, Turns
<1>4. UNCHANGED <<user, linked, factor, challenge, state, drawn, confirms,
                  proven, spoiled, sessions, crossed, yield>>
  BY DEF CommitCode, userVars
<1>5. \/ code' = [code EXCEPT ![x].used = TRUE] /\ UNCHANGED <<faults, torn>>
      \/ faults' = faults + 1 /\ torn' = torn \union {x} /\ UNCHANGED code
  BY <1>2 DEF CommitCode
<1>6. code[x] \in CodeRows
  BY <1>2 DEF LoginInv, TypeOK
<1>7. /\ code' \in [Codes -> CodeRows \union {None}] /\ code'[x] \in CodeRows
      /\ code'[x].used \/ (code' = code /\ x \in torn')
      /\ \A y \in Codes : y # x => code'[y] = code[y] /\ (y \in torn' <=> y \in torn)
      /\ x \in torn => x \in torn'
      /\ torn' \subseteq Codes /\ faults' \in Nat
  <2>1. CASE code' = [code EXCEPT ![x].used = TRUE] /\ UNCHANGED <<faults, torn>>
    <3>1. [code[x] EXCEPT !.used = TRUE] \in CodeRows /\ [code[x] EXCEPT !.used = TRUE].used
      BY <1>6 DEF CodeRows
    <3>2. code' = [code EXCEPT ![x] = [code[x] EXCEPT !.used = TRUE]]
      BY <2>1
    <3> QED
      BY <2>1, <3>1, <3>2 DEF LoginInv, TypeOK
  <2>2. CASE faults' = faults + 1 /\ torn' = torn \union {x} /\ UNCHANGED code
    BY <1>6, <2>2 DEF LoginInv, TypeOK
  <2> QED
    BY <1>5, <2>1, <2>2
<1>8. code'[x] # None
  BY <1>7, LoginFacts
<1>9. TypeOK'
  <2>1. req' \in [Requests -> Held] /\ flipped' \subseteq Requests \union Codes
    BY <1>3, IdleFacts DEF LoginInv, TypeOK
  <2> QED
    BY <1>4, <1>7, <2>1 DEF LoginInv, TypeOK
<1>10. \A q \in Requests : req[q].at \in ExchangeSteps /\ req[q].on = x => q = r
  BY <1>1, <1>2 DEF LoginInv, CodeOK, ExchangeSteps
<1>11. HeldOK'
  <2>1. \A q \in Requests : req'[q].at \in ExchangeSteps =>
           /\ req'[q].on \in Codes /\ code'[req'[q].on] # None /\ ~code'[req'[q].on].used
    BY <1>3, <1>7, <1>10, IdleFacts DEF LoginInv, HeldOK, ExchangeSteps
  <2>2. \A q \in Requests : req'[q].at \in OwnSteps => user' # None
    BY <1>3, <1>4, IdleFacts DEF LoginInv, HeldOK, OwnSteps
  <2>3. \A q \in Requests : req'[q] # req[q] => req'[q].at \notin CallbackSteps
    BY <1>3, IdleFacts DEF CallbackSteps
  <2>4. (linked => user # None) /\ \A s \in States : state[s] # None /\ state[s].link => user # None
    BY DEF LoginInv, HeldOK
  <2> QED
    BY <1>4, <2>1, <2>2, <2>3, <2>4, HeldKeeps
<1>12. EnabledHasSecret'
  BY <1>4 DEF LoginInv, EnabledHasSecret, HasSecret
<1>13. FlippedOK'
  <2>1. ~Leads(r)' /\ r \notin Codes
    BY <1>3, IdleFacts, LoginFacts DEF Leads, At
  <2>2. \A y \in Codes : code'[y] = code[y] \/ (code'[y] # None /\ code'[y].used)
    BY <1>7, <1>8
  <2> QED
    BY <1>3, <1>4, <2>1, <2>2, FlippedKeeps
<1>14. \A c \in Challenges : ChallengeOK(c)'
  BY <1>3, <1>4, IdleFacts, ChallengesKeep
<1>15. \A y \in Codes : CodeOK(y)'
  <2>1. CodeOK(x)'
    BY <1>3, <1>4, <1>7, <1>8, <1>10, IdleFacts DEF LoginInv, CodeOK, ExchangeSteps
  <2>2. ASSUME NEW y \in Codes, y # x PROVE CodeOK(y)'
    <3>1. CodeOK(y)
      BY DEF LoginInv
    <3> QED
      BY <1>2, <1>3, <1>4, <1>7, <2>2, <3>1, IdleFacts DEF CodeOK, ExchangeSteps, At
  <2> QED
    BY <2>1, <2>2
<1>16. \A s \in States : StateOK(s)'
  BY <1>3, <1>4, IdleFacts, StatesKeep DEF CallbackSteps
<1> QED
  BY <1>9, <1>11, <1>12, <1>13, <1>14, <1>15, <1>16 DEF LoginInv

-----------------------------------------------------------------------------

LEMMA LoginStutters == ASSUME LoginInv, UNCHANGED vars PROVE LoginInv'
<1>1. UNCHANGED <<user, linked, factor, challenge, state, code, req, drawn, confirms, faults,
                  proven, spoiled, sessions, flipped, torn, crossed, yield>>
  BY DEF vars, userVars, rowVars, boundVars, historyVars
<1>2. TypeOK'
  BY <1>1 DEF LoginInv, TypeOK
<1>3. HeldOK' /\ EnabledHasSecret' /\ FlippedOK'
  BY <1>1 DEF LoginInv, HeldOK, EnabledHasSecret, HasSecret, FlippedOK, Leads, At
<1>4. /\ \A c \in Challenges : ChallengeOK(c)'
      /\ \A x \in Codes : CodeOK(x)'
      /\ \A s \in States : StateOK(s)'
  BY <1>1 DEF LoginInv, ChallengeOK, CodeOK, StateOK, At
<1> QED
  BY <1>2, <1>3, <1>4 DEF LoginInv

\* LoginInv is inductive: it holds when nobody has registered yet, and each of the
\* statements of sign-in, enrollment, callback and exchange, and each that fails,
\* keeps it, whatever the other requests have read before.
THEOREM LoginInductive == Spec => []LoginInv
<1>1. Init => LoginInv
  BY LoginInitInv
<1>2. LoginInv /\ [Next]_vars => LoginInv'
  <2> SUFFICES ASSUME LoginInv, [Next]_vars PROVE LoginInv'
    OBVIOUS
  <2>1. CASE UNCHANGED vars
    BY <2>1, LoginStutters
  <2>2. CASE Register
    BY <2>2, RegisterKeeps
  <2>3. CASE VerifyEmail
    BY <2>3, VerifyEmailKeeps
  <2>4. ASSUME NEW c \in Challenges, Expire(c) PROVE LoginInv'
    BY <2>4, ExpireKeeps
  <2>5. ASSUME NEW s \in States, NEW on \in BOOLEAN, OAuthAuthorizeURL(s, on) PROVE LoginInv'
    BY <2>5, OAuthAuthorizeURLKeeps
  <2>6. ASSUME NEW r \in Requests, PasswordStep(r) PROVE LoginInv'
    BY <2>6, LoginKeeps, IssueChallengeKeeps, IssueAuthenticationKeeps, VerifyMFALoginKeeps DEF PasswordStep
  <2>7. ASSUME NEW r \in Requests, EnrollStep(r) PROVE LoginInv'
    <3>1. CASE ReadFactor(r, "setup", "store") \/ ReadFactor(r, "confirm", "enable")
      BY <3>1, ReadFactorKeeps DEF OwnSteps
    <3>2. CASE SetupTOTP(r) \/ StorePending(r) \/ ConfirmTOTP(r) \/ EnableTOTP(r)
      BY <3>2, SetupTOTPKeeps, StorePendingKeeps, ConfirmTOTPKeeps, EnableTOTPKeeps
    <3>3. CASE DisableTOTP(r) \/ WipeTOTP(r)
      BY <3>3, DisableTOTPKeeps, WipeTOTPKeeps
    <3> QED
      BY <2>7, <3>1, <3>2, <3>3 DEF EnrollStep
  <2>8. ASSUME NEW r \in Requests, OAuthStep(r) PROVE LoginInv'
    BY <2>8, OAuthHandleCallbackKeeps, ProviderRefusesKeeps, MarkStateUsedKeeps, ResolveUserKeeps,
       PrepareChallengeKeeps, CreateExchangeCodeKeeps, OAuthCompleteExchangeKeeps,
       SessionForCodeKeeps, CommitCodeKeeps
       DEF OAuthStep
  <2>9. ASSUME NEW r \in Requests, Fail(r) PROVE LoginInv'
    BY <2>9, FailKeeps
  <2> QED
    BY <2>1, <2>2, <2>3, <2>4, <2>5, <2>6, <2>7, <2>8, <2>9 DEF Next
<1> QED
  BY <1>1, <1>2, PTL DEF Spec

\* The rows of a sign-in and what each request holds of them have their types.
THEOREM LoginTypeCorrect == Spec => []TypeOK
<1>1. LoginInv => TypeOK
  BY DEF LoginInv
<1> QED
  BY <1>1, LoginInductive, PTL

\* A user of whom a second factor is demanded has one that a code was accepted
\* for: EnableTOTP turns the flag on with the factor of its copy, and nothing but
\* the Save of a stale Setup writes the factor while the flag is on.
THEOREM EnabledHasSecretHolds == Spec => []EnabledHasSecret
<1>1. LoginInv => EnabledHasSecret
  BY DEF LoginInv
<1> QED
  BY <1>1, LoginInductive, PTL

\* A challenge is worth one session, an exchange code one session unless its
\* commit failed, an OAuth state one exchange code unless two callbacks crossed.
THEOREM GrantOnceHolds == Spec => []GrantOnce
<1>1. LoginInv => GrantOnce
  <2> SUFFICES ASSUME LoginInv PROVE GrantOnce
    OBVIOUS
  <2>1. \A c \in Challenges : sessions[c] <= 1
    BY DEF LoginInv, ChallengeOK
  <2>2. \A x \in Codes \ torn : sessions[x] <= 1
    BY DEF LoginInv, CodeOK
  <2>3. \A s \in States \ crossed : yield[s] <= 1
    BY DEF LoginInv, StateOK
  <2> QED
    BY <2>1, <2>2, <2>3 DEF GrantOnce
<1> QED
  BY <1>1, LoginInductive, PTL

\* With TOTP on, a session without the second factor comes from a request or a
\* code that was under way when it was turned on.
THEOREM SecondFactorHonouredHolds == Spec => []SecondFactorHonoured
<1>1. LoginInv => SecondFactorHonoured
  BY DEF LoginInv, FlippedOK, SecondFactorHonoured, Unchallenged, Leads, At
<1> QED
  BY <1>1, LoginInductive, PTL
=============================================================================
