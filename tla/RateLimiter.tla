---------------------------- MODULE RateLimiter ----------------------------
(***************************************************************************)
(* How many requests of one client get past the rate limiter: the token    *)
(* bucket in the memory of one process, the counter of a fixed window in   *)
(* Redis, and what happens when Redis answers with an error.               *)
(*                                                                         *)
(* Time passes in steps of 1/Unit of the time that earns a token.  A step  *)
(* is one critical section of a mutex, or one Redis command.               *)
(***************************************************************************)
EXTENDS Integers, FiniteSets, FiniteSetsExt

CONSTANTS
    Slots,              \* concurrent requests of the client
    Buckets,            \* rateLimiterEntry values that are reachable at once
    BurstSize,
    RequestsPerMinute,  \* allowed in one window of Redis
    Unit,
    IdleLimit,          \* a bucket not updated for longer is forgotten
    Window,
    Horizon,            \* bound: how far time goes
    MaxRequests,        \* bound: requests of the client
    NoBucket

ASSUME LimiterAssumption ==
    /\ {BurstSize, RequestsPerMinute, Unit, IdleLimit, Window} \subseteq Nat \ {0}
    /\ Horizon \in Nat /\ MaxRequests \in Nat
    /\ IsFiniteSet(Slots) /\ Slots # {}
    /\ NoBucket \notin Buckets

VARIABLES
    mode,       \* how the process is configured
    now,
    attached,   \* the bucket the map holds for the client
    bucket,     \* tokens and lastUpdate of the buckets
    counter,    \* the Redis key, with the time it expires
    at,         \* what each request is doing, with the bucket it found
    started,
    passed      \* history: requests let through until each time, by what

limiterVars == <<mode, now, attached, bucket, counter, at, started, passed>>

Modes == {"memory", "fail_closed", "local_fallback", "fail_open"}
Times == 0 .. Horizon
NoCounter == [count |-> 0, ends |-> 0]
Ways == {"bucket", "stray", "redis"}     \* "stray": by a bucket no longer in the map

LimiterTypeOK ==
    /\ mode \in Modes
    /\ now \in Times
    /\ attached \in Buckets \union {NoBucket}
    /\ bucket \in [Buckets -> [tokens : 0 .. BurstSize, last : Times]]
    /\ counter \in [count : Nat, ends : Nat]
    /\ at \in [Slots -> [step : {"idle", "redis", "lookup", "take"}, on : Buckets \union {NoBucket}]]
    /\ started \in Nat
    /\ passed \in [Ways -> [Times -> Nat]]

-----------------------------------------------------------------------------
(* APP_ENV and RATE_LIMIT_REDIS_FAILURE_MODE as the operator wrote them.   *)

RawEnvironments == {"unset", "development", "test", "staging", "production", "prod",
                    "misspelled", "nonsense"}
RawModes == (Modes \ {"memory"}) \union {"unset", "nonsense"}

\* Aliases are normalised, what only looks like production is fatal, and the
\* rest is development.
ResolveEnvironment(raw) ==
    CASE raw = "prod" -> "production"
      [] raw = "misspelled" -> "fatal"
      [] raw \in {"unset", "nonsense"} -> "development"
      [] OTHER -> raw

IsStagingOrProduction(e) == e \in {"staging", "production"}

DefaultMode(e) == IF IsStagingOrProduction(e) THEN "local_fallback" ELSE "fail_open"

\* The process does not start.
Fatal(e, raw) == e = "fatal" \/ (IsStagingOrProduction(e) /\ raw = "fail_open")
ResolveMode(e, raw) == IF raw \in Modes THEN raw ELSE DefaultMode(e)

LimiterInit ==
    /\ \E rawEnv \in RawEnvironments, raw \in RawModes, redis \in BOOLEAN :
          LET e == ResolveEnvironment(rawEnv) IN
             /\ ~Fatal(e, raw)
             /\ mode = IF redis THEN ResolveMode(e, raw) ELSE "memory"
    /\ now = 0
    /\ attached = NoBucket
    /\ bucket = [b \in Buckets |-> [tokens |-> 0, last |-> 0]]
    /\ counter = NoCounter
    /\ at = [p \in Slots |-> [step |-> "idle", on |-> NoBucket]]
    /\ started = 0
    /\ passed = [w \in Ways |-> [t \in Times |-> 0]]

Step(p, s) == at[p].step = s
Continue(p, s, b) == at' = [at EXCEPT ![p] = [step |-> s, on |-> b]]
Finish(p) == Continue(p, "idle", NoBucket)
Pass(w) ==
    passed' = [passed EXCEPT ![w] = [t \in Times |-> IF t < now THEN passed[w][t]
                                                     ELSE passed[w][t] + 1]]

-----------------------------------------------------------------------------

Arrive(p) ==
    /\ Step(p, "idle")
    /\ started < MaxRequests
    /\ started' = started + 1
    /\ Continue(p, IF mode = "memory" THEN "lookup" ELSE "redis", NoBucket)
    /\ UNCHANGED <<mode, now, attached, bucket, counter, passed>>

\* INCR, and PEXPIRE if that made the key: one script.
Counted ==
    IF counter = NoCounter
    THEN [count |-> 1, ends |-> now + Window]
    ELSE [counter EXCEPT !.count = @ + 1]

ExceedsLate(n) == n > RequestsPerMinute + 1                                 \* mutant
OverLimit(n) == n > RequestsPerMinute

IncrementRateLimit(p) ==
    /\ Step(p, "redis")
    /\ counter' = Counted
    /\ IF OverLimit(Counted.count) THEN UNCHANGED passed ELSE Pass("redis")
    /\ Finish(p)
    /\ UNCHANGED <<mode, now, attached, bucket, started>>

\* An error, of a script that ran or did not.
RedisError(p) ==
    /\ Step(p, "redis")
    /\ counter' \in {counter, Counted}
    /\ \/ mode \in {"fail_closed", "fail_open"} /\ Finish(p)       \* 503, or let through
       \/ mode = "local_fallback" /\ Continue(p, "lookup", NoBucket)
    /\ UNCHANGED <<mode, now, attached, bucket, started, passed>>

\* The map's mutex: the entry found, or a full one put there.
Free(b) == b # attached /\ \A p \in Slots : at[p].on # b

Lookup(p) ==
    /\ Step(p, "lookup")
    /\ \/ /\ attached # NoBucket
          /\ Continue(p, "take", attached)
          /\ UNCHANGED <<attached, bucket>>
       \/ /\ attached = NoBucket
          /\ \E b \in Buckets :
                /\ Free(b)
                /\ attached' = b
                /\ bucket' = [bucket EXCEPT ![b] = [tokens |-> BurstSize, last |-> now]]
                /\ Continue(p, "take", b)
    /\ UNCHANGED <<mode, now, counter, started, passed>>

\* Tokens for the time since lastUpdate, which moves only when there is one.
Refill(b) ==
    LET earned == (now - bucket[b].last) \div Unit
    IN  IF earned = 0 THEN bucket[b]
        ELSE [tokens |-> Min({bucket[b].tokens + earned, BurstSize}), last |-> now]

\* The entry's mutex; the entry may no longer be the one in the map.
TakeToken(p) ==
    /\ Step(p, "take")
    /\ LET b == at[p].on IN
          IF Refill(b).tokens > 0
          THEN /\ bucket' = [bucket EXCEPT ![b] = [Refill(b) EXCEPT !.tokens = @ - 1]]
               /\ Pass(IF b = attached THEN "bucket" ELSE "stray")
          ELSE /\ bucket' = [bucket EXCEPT ![b] = Refill(b)]
               /\ UNCHANGED passed
    /\ Finish(p)
    /\ UNCHANGED <<mode, now, attached, counter, started>>

ForgettableFromTheStart(b) == now > IdleLimit                               \* mutant
Forgettable(b) == now - bucket[b].last > IdleLimit

\* Both mutexes; a request may hold the entry without its mutex.
Cleanup ==
    /\ attached # NoBucket
    /\ Forgettable(attached)
    /\ attached' = NoBucket
    /\ UNCHANGED <<mode, now, bucket, counter, at, started, passed>>

\* Time 0 is the client's first request; a key whose time has come is gone.
LimiterTick ==
    /\ now < Horizon /\ started > 0
    /\ now' = now + 1
    /\ counter' = IF counter.ends <= now' THEN NoCounter ELSE counter
    /\ UNCHANGED <<mode, attached, bucket, at, started, passed>>

LimiterNext ==
    \/ LimiterTick
    \/ Cleanup
    \/ \E p \in Slots :
          \/ Arrive(p)
          \/ IncrementRateLimit(p)
          \/ RedisError(p)
          \/ Lookup(p)
          \/ TakeToken(p)

LimiterSpec == LimiterInit /\ [][LimiterNext]_limiterVars

-----------------------------------------------------------------------------

Before(w, t) == IF t = 0 THEN 0 ELSE passed[w][t - 1]
Through(w, from, to) == Before(w, to + 1) - Before(w, from)

\* What time earns, how often a bucket can be forgotten in it, and what a new one
\* holds beyond the tokens its idle time has earned.
Earns(d) == (d + Unit - 1) \div Unit
Renewals(d) == (d + Unit - 1) \div IdleLimit
Gift == Max({BurstSize - IdleLimit \div Unit, 0})

\* In any stretch of time the bucket in the map lets through a burst and what
\* the time earns.  A bucket forgotten before it is full again gives away the
\* difference, which a burst that fills within the idle limit never does; and
\* each time it is forgotten those who hold it still take a token each.
BucketBudget ==
    \A from, to \in Times : from <= to =>
        /\ Through("bucket", from, to) <=
               BurstSize + Earns(to - from) + Renewals(to - from) * Gift
        /\ Through("stray", from, to) <
               Cardinality(Slots) * (2 + (to - from) \div IdleLimit)

\* A minute, wherever it starts, sees at most two windows: twice the limit
\* passes Redis, never more, and the limit itself from the start of a window.
WindowBudget ==
    \A from \in Times :
        /\ Through("redis", from, Min({from + Window - 1, Horizon})) <= 2 * RequestsPerMinute
        /\ counter # NoCounter /\ from >= counter.ends - Window =>
               Through("redis", from, Horizon) <= RequestsPerMinute
=============================================================================
