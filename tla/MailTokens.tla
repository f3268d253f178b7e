----------------------------- MODULE MailTokens -----------------------------
(***************************************************************************)
(* The links mailed to one address: e-mail verification and password       *)
(* reset.  Their rows, the requests that issue and consume them, and the   *)
(* password sign-ins that a reset has to cut off.  A step is a statement   *)
(* outside a transaction, the first statements of a transaction, or its    *)
(* commit; MailTick is the passing of the resend interval.                 *)
(***************************************************************************)
EXTENDS Naturals, FiniteSets

CONSTANTS
    Mailers,        \* slots for concurrent HTTP requests
    Links,          \* token rows that may be created
    MaxMailFaults,  \* bound: statements, commits and enqueues that fail
    NoLink

VARIABLES
    account,    \* the users row: "none", "unverified" or "verified"
    password,   \* how often the password was reset
    link,       \* token rows; age 0 is younger than the resend interval, 2 expired
    inbox,      \* links whose mail was queued
    doing,      \* what each request is doing and what it has read
    live,       \* refresh sessions, with the password that opened them
    mailFaults,
    uses,       \* history: transactions committed with each link
    deleted,    \* history: links removed unused by a later one
    overlapped  \* history: kinds of which two issues ran at once, or unthrottled

mailVars == <<account, password, link, inbox, doing, live, mailFaults, uses, deleted, overlapped>>

Kinds == {"verify", "reset"}
Rows == [kind : Kinds, used : BOOLEAN, age : 0 .. 2]

ASSUME MailAssumption == MaxMailFaults \in Nat /\ NoLink \notin Links \union Rows

Steps == {"idle", "throttle", "issue", "wait", "insert", "enqueue", "consume", "session"}
Doing == [step : Steps, kind : Kinds, on : Links \union {NoLink}, sees : SUBSET Links,
          doomed : SUBSET Links, with : Nat, late : BOOLEAN]

Resting == [step |-> "idle", kind |-> "verify", on |-> NoLink, sees |-> {}, doomed |-> {},
            with |-> 0, late |-> FALSE]

MailTypeOK ==
    /\ account \in {"none", "unverified", "verified"}
    /\ password \in Nat
    /\ link \in [Links -> Rows \union {NoLink}]
    /\ inbox \subseteq Links
    /\ doing \in [Mailers -> Doing]
    /\ live \subseteq [with : Nat, late : BOOLEAN]
    /\ mailFaults \in Nat
    /\ uses \in [Links -> Nat]
    /\ deleted \subseteq Links
    /\ overlapped \subseteq Kinds

MailInit ==
    /\ account = "none"
    /\ password = 0
    /\ link = [t \in Links |-> NoLink]
    /\ inbox = {}
    /\ doing = [m \in Mailers |-> Resting]
    /\ live = {}
    /\ mailFaults = 0
    /\ uses = [t \in Links |-> 0]
    /\ deleted = {}
    /\ overlapped = {}

On(m, s) == doing[m].step = s
Become(m, d) == doing' = [doing EXCEPT ![m] = d]
Rest(m) == Become(m, Resting)

Rowed == {t \in Links : link[t] # NoLink}
OfKind(k) == {t \in Rowed : link[t].kind = k}
Unused(k) == {t \in OfKind(k) : ~link[t].used}

\* Rows a transaction has deleted or updated stay locked until it ends.
LinkLocked(t) == \E m \in Mailers : t \in doing[m].doomed

MayFail == mailFaults < MaxMailFaults /\ mailFaults' = mailFaults + 1

-----------------------------------------------------------------------------
(* Issuing a link.                                                         *)

Issuing(k) ==
    {m \in Mailers : doing[m].kind = k /\ doing[m].step \in {"throttle", "issue", "wait", "insert"}}
NoteIssue(k) == overlapped' = IF Issuing(k) = {} THEN overlapped ELSE overlapped \union {k}

\* Register: the row, then a verification link without looking at the others.
SignUp(m) ==
    /\ On(m, "idle")
    /\ account = "none"
    /\ account' = "unverified"
    /\ Become(m, [Resting EXCEPT !.step = "issue"])
    /\ NoteIssue("verify")
    /\ UNCHANGED <<password, link, inbox, live, mailFaults, uses, deleted>>

\* ResendVerificationEmail and RequestPasswordReset read the user first.
Ask(m, k) ==
    /\ On(m, "idle")
    /\ account # "none"
    /\ k = "verify" => account = "unverified"
    /\ Become(m, [Resting EXCEPT !.step = "throttle", !.kind = k])
    /\ NoteIssue(k)
    /\ UNCHANGED <<account, password, link, inbox, live, mailFaults, uses, deleted>>

\* The latest row of the user, used or not, is too young.
Recent(k) == \E t \in OfKind(k) : link[t].age = 0

\* Outside the transaction; a read that fails lets the request through.
CheckThrottle(m) ==
    /\ On(m, "throttle")
    /\ LET k == doing[m].kind
           goOn == Become(m, [doing[m] EXCEPT !.step = "issue"])
       IN  \/ Recent(k) /\ Rest(m) /\ UNCHANGED <<mailFaults, overlapped>>
           \/ ~Recent(k) /\ goOn /\ UNCHANGED <<mailFaults, overlapped>>
           \/ MayFail /\ goOn /\ overlapped' = overlapped \union {k}
    /\ UNCHANGED <<account, password, link, inbox, live, uses, deleted>>

DoomedNone(k) == {}                                                         \* mutant
Doomed(k) == Unused(k)

\* DELETE ... WHERE used_at IS NULL, when no row of its snapshot is held.
DeleteUnused(m) ==
    /\ On(m, "issue")
    /\ \A t \in Doomed(doing[m].kind) : ~LinkLocked(t)
    /\ Become(m, [doing[m] EXCEPT !.step = "insert", !.doomed = Doomed(doing[m].kind)])
    /\ UNCHANGED <<account, password, link, inbox, live, mailFaults, uses, deleted, overlapped>>

\* Another transaction holds a row of the snapshot: the statement waits for it.
AwaitRows(m) ==
    /\ On(m, "issue")
    /\ \E t \in Doomed(doing[m].kind) : LinkLocked(t)
    /\ Become(m, [doing[m] EXCEPT !.step = "wait", !.sees = Doomed(doing[m].kind)])
    /\ UNCHANGED <<account, password, link, inbox, live, mailFaults, uses, deleted, overlapped>>

\* READ COMMITTED: the rows it saw are looked at again, and those of a link
\* inserted meanwhile were never seen.
DeleteSeen(m) ==
    /\ On(m, "wait")
    /\ \A t \in doing[m].sees : ~LinkLocked(t)
    /\ Become(m, [doing[m] EXCEPT !.step = "insert", !.sees = {},
                                 !.doomed = doing[m].sees \intersect Doomed(doing[m].kind)])
    /\ UNCHANGED <<account, password, link, inbox, live, mailFaults, uses, deleted, overlapped>>

CreateLink(m) ==
    /\ On(m, "insert")
    /\ \/ \E t \in Links :
             /\ link[t] = NoLink /\ t \notin deleted
             /\ link' = [u \in Links |->
                   IF u = t THEN [kind |-> doing[m].kind, used |-> FALSE, age |-> 0]
                   ELSE IF u \in doing[m].doomed THEN NoLink ELSE link[u]]
             /\ deleted' = deleted \union doing[m].doomed
             /\ Become(m, [doing[m] EXCEPT !.step = "enqueue", !.on = t, !.doomed = {}])
             /\ UNCHANGED mailFaults
       \/ MayFail /\ Rest(m) /\ UNCHANGED <<link, deleted>>      \* rolled back
    /\ UNCHANGED <<account, password, inbox, live, uses, overlapped>>

\* Queued after the commit; an error is logged and the link never reaches anyone.
EnqueueMail(m) ==
    /\ On(m, "enqueue")
    /\ \/ inbox' = inbox \union {doing[m].on} /\ UNCHANGED mailFaults
       \/ MayFail /\ UNCHANGED inbox
    /\ Rest(m)
    /\ UNCHANGED <<account, password, link, live, uses, deleted, overlapped>>

-----------------------------------------------------------------------------
(* Consuming a link.                                                       *)

\* VerifyEmail and ConfirmPasswordReset: the transaction finds the row unused.
OpenLink(m, t) ==
    /\ On(m, "idle")
    /\ t \in inbox /\ t \in Rowed
    /\ ~link[t].used /\ link[t].age < 2
    /\ Become(m, [Resting EXCEPT !.step = "consume", !.kind = link[t].kind, !.on = t])
    /\ UNCHANGED <<account, password, link, inbox, live, mailFaults, uses, deleted, overlapped>>

StillActiveUnchecked(t) == TRUE                                             \* mutant
StillActive(t) == t \in Rowed /\ ~link[t].used

RevokedNone == live                                                         \* mutant
Revoked == {}

\* The account, the sessions and the row in one commit; marking the row again
\* asks for used_at IS NULL, and no row marked rolls everything back.
Consume(m) ==
    /\ On(m, "consume")
    /\ ~LinkLocked(doing[m].on)
    /\ LET t == doing[m].on IN
          IF StillActive(t)
          THEN /\ link' = IF t \in Rowed THEN [link EXCEPT ![t].used = TRUE] ELSE link
               /\ uses' = [uses EXCEPT ![t] = @ + 1]
               /\ IF doing[m].kind = "verify"
                  THEN /\ account' = "verified"
                       /\ Rest(m)
                       /\ UNCHANGED <<password, live>>
                  ELSE /\ password' = password + 1
                       /\ live' = Revoked
                       /\ doing' = [n \in Mailers |->
                             IF n = m THEN Resting
                             ELSE [doing[n] EXCEPT !.late = On(n, "session")]]
                       /\ UNCHANGED account
          ELSE Rest(m) /\ UNCHANGED <<account, password, link, live, uses>>
    /\ UNCHANGED <<inbox, mailFaults, deleted, overlapped>>

ConsumeFails(m) ==
    /\ On(m, "consume")
    /\ MayFail
    /\ Rest(m)
    /\ UNCHANGED <<account, password, link, inbox, live, uses, deleted, overlapped>>

-----------------------------------------------------------------------------
(* Signing in: the password is checked against a row read before the       *)
(* session is inserted.                                                    *)

CheckPassword(m) ==
    /\ On(m, "idle")
    /\ account = "verified"
    /\ Become(m, [Resting EXCEPT !.step = "session", !.with = password])
    /\ UNCHANGED <<account, password, link, inbox, live, mailFaults, uses, deleted, overlapped>>

CreateSession(m) ==
    /\ On(m, "session")
    /\ live' = live \union {[with |-> doing[m].with, late |-> doing[m].late]}
    /\ Rest(m)
    /\ UNCHANGED <<account, password, link, inbox, mailFaults, uses, deleted, overlapped>>

MailTick ==
    /\ Rowed # {}
    /\ link' = [t \in Links |->
          IF t \in Rowed THEN [link[t] EXCEPT !.age = IF @ < 2 THEN @ + 1 ELSE 2] ELSE NoLink]
    /\ UNCHANGED <<account, password, inbox, doing, live, mailFaults, uses, deleted, overlapped>>

MailNext ==
    \/ MailTick
    \/ \E m \in Mailers :
          \/ SignUp(m)
          \/ \E k \in Kinds : Ask(m, k)
          \/ CheckThrottle(m)
          \/ DeleteUnused(m)
          \/ AwaitRows(m)
          \/ DeleteSeen(m)
          \/ CreateLink(m)
          \/ EnqueueMail(m)
          \/ \E t \in Links : OpenLink(m, t)
          \/ Consume(m)
          \/ ConsumeFails(m)
          \/ CheckPassword(m)
          \/ CreateSession(m)

MailSpec == MailInit /\ [][MailNext]_mailVars

-----------------------------------------------------------------------------

\* A link works once, however many requests have found it unused, and never
\* after a newer link has replaced it, even for a request that had found it.
LinkUsedOnce == \A t \in Links : uses[t] <= (IF t \in deleted THEN 0 ELSE 1)

\* One usable link of each kind, and one issued per resend interval: two only
\* when two issues ran at once or the throttle could not be read.
OneLink ==
    \A k \in Kinds \ overlapped :
        /\ Cardinality(Unused(k)) <= 1
        /\ Cardinality({t \in OfKind(k) : link[t].age = 0}) <= 1

\* No session opened with an old password survives its reset, except one whose
\* sign-in had checked the password before the reset and was stored after it.
ResetRevokes == \A s \in live : s.with = password \/ s.late
=============================================================================
