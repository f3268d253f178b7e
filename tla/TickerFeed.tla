----------------------------- MODULE TickerFeed -----------------------------
(***************************************************************************)
(* The Coinbase ticker adapter (internal/marketdata/coinbase), the store   *)
(* it fills (internal/marketdata/state) and the part of app.Run that       *)
(* starts it and waits for it at shutdown.                                 *)
(*                                                                         *)
(* One goroutine dials the exchange, subscribes, reads messages under a    *)
(* deadline that every message renews, and after a failed session sleeps   *)
(* for a delay that doubles.  The exchange and its connection are external *)
(* to the code: quotes come in order on one connection, the connection may *)
(* be lost with what is in flight, the exchange may be out of reach for a  *)
(* time, and a new subscription is answered with the current quotes.  Time *)
(* is a timer that counts the present blocking call down; the goroutine    *)
(* runs before the clock moves (Urgent).                                   *)
(***************************************************************************)
EXTENDS Integers, SequencesExt

CONSTANTS
    Products,          \* well-formed product identifiers
    Blank, Misspelt,   \* a configured entry of spaces, and one with a bad character
    Configs,           \* the product lists an operator may configure
    HandshakeTimeout,  \* time units of the dialer, the read deadline and the
    ReadDeadline,      \*     first and the longest reconnect delay
    InitialReconnect,
    MaxReconnect,
    MaxQuotes,         \* quotes the exchange publishes for a product
    MaxFaults,         \* losses of the connection, outages and malformed messages
    NoQuote

ASSUME FeedAssumption ==
    /\ Blank \notin Products /\ Misspelt \notin Products /\ Blank # Misspelt
    /\ Configs \subseteq Seq(Products \union {Blank, Misspelt})
    /\ {HandshakeTimeout, ReadDeadline, InitialReconnect, MaxReconnect} \subseteq Nat \ {0}
    /\ InitialReconnect <= MaxReconnect
    /\ MaxQuotes \in Nat /\ MaxFaults \in Nat
    /\ NoQuote \notin Nat

VARIABLES
    config,     \* CoinbaseExchangeWS: whether there is a URL, and the products
    phase,      \* where the adapter's goroutine is
    timer,      \* time left of the call it is blocked in
    attempt,    \* failed sessions so far: Run's counter
    store,      \* Store: product -> latest ticker
    connected,  \* the connection of this session is up
    wire,       \* messages sent on it and not yet read
    quotes,     \* the exchange's current quote of each product
    garbled,    \* products of which the current quote came in malformed
    reachable,  \* the exchange answers a dial
    feedFaults,
    server,     \* app.Run: serving, waiting for the adapter, draining, worker, exited
    waited      \* time since the adapter's context was cancelled

feedVars == <<config, phase, timer, attempt, store, connected, wire, quotes, garbled,
              reachable, feedFaults, server, waited>>

Phases == {"running", "dialing", "checking", "reading", "failed", "waiting", "stopped"}
Stages == {"serving", "stopping", "draining", "worker", "exited"}

(* The longest the adapter may keep the shutdown waiting. *)
LongestCall == IF ReadDeadline > HandshakeTimeout THEN ReadDeadline ELSE HandshakeTimeout

cancelled == server # "serving"

-----------------------------------------------------------------------------
(* reconnectBackoff: doubled once for every attempt, capped. *)
reconnectBackoff(n) ==
    LET delay[i \in Nat] ==
            IF i = 0 THEN InitialReconnect
            ELSE IF delay[i - 1] * 2 > MaxReconnect THEN MaxReconnect ELSE delay[i - 1] * 2
    IN  delay[n]

(* The first attempt at which the delay no longer grows bounds the counter. *)
AttemptCap == CHOOSE n \in 0..MaxReconnect :
                  /\ reconnectBackoff(n) = MaxReconnect
                  /\ \A m \in 0..(n - 1) : reconnectBackoff(m) # MaxReconnect

(* NormalizeProductIDs: blanks and repetitions are dropped; an invalid       *)
(* entry, or nothing left, refuses the whole list, and the session with it.  *)
Wanted(ids) == Range(ids) \ {Blank}
Subscribable(ids) == Wanted(ids) # {} /\ Misspelt \notin Wanted(ids)

Ticker(p, q) == [type |-> "ticker", product |-> p, quote |-> q]
Ack == [type |-> "subscriptions"]
Malformed == [type |-> "malformed"]

(* HandleRawMessage and UpsertTicker: a well-formed ticker replaces the      *)
(* stored one; acknowledgements and malformed messages change nothing.       *)
Handled(m) == IF m.type = "ticker" THEN [store EXCEPT ![m.product] = m.quote] ELSE store

(* Mutants: the context is only tested by Run; any error ends Run. *)
MayReadAlways == TRUE
RetriesNever == FALSE

(* runOnce's test of the context, made before every read. *)
MayRead == ~cancelled

(* Run goes round again after any error but a cancellation. *)
Retries == ~cancelled

-----------------------------------------------------------------------------
FeedTypeOK ==
    /\ config \in [url : BOOLEAN, products : Configs]
    /\ phase \in Phases
    /\ timer \in Nat
    /\ attempt \in Nat
    /\ store \in [Products -> Nat \union {NoQuote}]
    /\ connected \in BOOLEAN /\ reachable \in BOOLEAN
    /\ wire \in Seq([type : {"ticker"}, product : Products, quote : Nat]
                        \union [type : {"subscriptions", "malformed"}])
    /\ quotes \in [Products -> Nat]
    /\ garbled \subseteq Products
    /\ feedFaults \in Nat
    /\ server \in Stages
    /\ waited \in Nat

FeedInit ==
    /\ config \in [url : BOOLEAN, products : Configs]
    /\ phase = "running" /\ timer = 0 /\ attempt = 0
    /\ store = [p \in Products |-> NoQuote]
    /\ connected = FALSE /\ wire = <<>>
    /\ quotes = [p \in Products |-> 0] /\ garbled = {}
    /\ reachable \in BOOLEAN
    /\ feedFaults = 0
    /\ server = "serving" /\ waited = 0

At(p, t) == phase' = p /\ timer' = t

-----------------------------------------------------------------------------
(* The adapter's goroutine. *)

(* The head of Run: no URL or a cancelled context ends it; else it dials. *)
Start ==
    /\ phase = "running"
    /\ IF config.url /\ ~cancelled THEN At("dialing", HandshakeTimeout) ELSE At("stopped", 0)
    /\ UNCHANGED <<config, attempt, store, connected, wire, quotes, garbled, reachable,
                   feedFaults, server, waited>>

(* The dial is answered and the subscription written: the exchange sends     *)
(* its acknowledgement and the current quotes.  A list that cannot be        *)
(* subscribed fails the session, and the deferred Close drops the connection.*)
Dialled ==
    /\ phase = "dialing" /\ reachable
    /\ IF Subscribable(config.products)
       THEN /\ At("checking", 0)
            /\ connected' = TRUE
            /\ wire' = <<Ack>> \o SetToSeq({Ticker(p, quotes[p]) : p \in Wanted(config.products)})
            /\ garbled' = {}
       ELSE At("failed", 0) /\ UNCHANGED <<connected, wire, garbled>>
    /\ UNCHANGED <<config, attempt, store, quotes, reachable, feedFaults, server, waited>>

(* The dial is refused, runs into its timeout, or is aborted by the context. *)
DialFails ==
    /\ phase = "dialing" /\ (~reachable \/ cancelled \/ timer = 0)
    /\ At("failed", 0)
    /\ UNCHANGED <<config, attempt, store, connected, wire, quotes, garbled, reachable,
                   feedFaults, server, waited>>

(* Before each read: a cancelled context ends the session, else the deadline *)
(* is set anew.                                                              *)
CheckContext ==
    /\ phase = "checking"
    /\ IF MayRead THEN At("reading", ReadDeadline) ELSE At("failed", 0)
    /\ UNCHANGED <<config, attempt, store, connected, wire, quotes, garbled, reachable,
                   feedFaults, server, waited>>

Receive ==
    /\ phase = "reading" /\ wire # <<>>
    /\ store' = Handled(Head(wire))
    /\ wire' = Tail(wire)
    /\ At("checking", 0)
    /\ UNCHANGED <<config, attempt, connected, quotes, garbled, reachable, feedFaults, server, waited>>

(* Nothing came before the deadline, or the connection is gone. *)
ReadFails ==
    /\ phase = "reading" /\ wire = <<>> /\ (~connected \/ timer = 0)
    /\ At("failed", 0)
    /\ UNCHANGED <<config, attempt, store, connected, wire, quotes, garbled, reachable,
                   feedFaults, server, waited>>

(* The session's error: the deferred Close drops the connection with what    *)
(* was not read; Run returns on a cancelled context and sleeps otherwise.    *)
(* The counter is never set back.                                            *)
SessionEnds ==
    /\ phase = "failed"
    /\ IF Retries
       THEN /\ At("waiting", reconnectBackoff(attempt))
            /\ attempt' = IF attempt < AttemptCap THEN attempt + 1 ELSE attempt
       ELSE At("stopped", 0) /\ UNCHANGED attempt
    /\ connected' = FALSE /\ wire' = <<>>
    /\ UNCHANGED <<config, store, quotes, garbled, reachable, feedFaults, server, waited>>

(* sleepCtx returns at the end of the delay or at once when cancelled. *)
Wake ==
    /\ phase = "waiting" /\ (cancelled \/ timer = 0)
    /\ IF cancelled THEN At("stopped", 0) ELSE At("running", 0)
    /\ UNCHANGED <<config, attempt, store, connected, wire, quotes, garbled, reachable,
                   feedFaults, server, waited>>

Adapter == \/ Start \/ Dialled \/ DialFails \/ CheckContext \/ Receive
           \/ ReadFails \/ SessionEnds \/ Wake

-----------------------------------------------------------------------------
(* The exchange and the network. *)

Sent(p, q) ==
    IF connected /\ p \in Wanted(config.products)
    THEN wire' = Append(wire, Ticker(p, q)) /\ garbled' = garbled \ {p}
    ELSE UNCHANGED <<wire, garbled>>

Publish(p) ==
    /\ quotes[p] < MaxQuotes
    /\ quotes' = [quotes EXCEPT ![p] = @ + 1]
    /\ Sent(p, quotes[p] + 1)
    /\ UNCHANGED <<config, phase, timer, attempt, store, connected, reachable,
                   feedFaults, server, waited>>

(* A trade at the same price, once nothing is in flight: it renews the       *)
(* deadline, and may do so for ever.                                         *)
Repeat(p) ==
    /\ wire = <<>>
    /\ Sent(p, quotes[p])
    /\ UNCHANGED <<config, phase, timer, attempt, store, connected, quotes, reachable,
                   feedFaults, server, waited>>

Fault == feedFaults < MaxFaults /\ feedFaults' = feedFaults + 1

(* A malformed message comes in addition, or in the place of a quote, which  *)
(* the adapter drops with it.                                                *)
Garble ==
    /\ Fault /\ connected
    /\ \/ wire' = Append(wire, Malformed) /\ UNCHANGED garbled
       \/ \E i \in 1..Len(wire) :
             LET m == wire[i] IN
             /\ m.type = "ticker"
             /\ wire' = [wire EXCEPT ![i] = Malformed]
             /\ garbled' = IF m.quote = quotes[m.product]
                           THEN garbled \union {m.product} ELSE garbled
    /\ UNCHANGED <<config, phase, timer, attempt, store, connected, quotes,
                   reachable, server, waited>>

(* The connection is lost: only some of what is in flight still arrives. *)
Lose ==
    /\ Fault /\ connected
    /\ connected' = FALSE
    /\ \E n \in 0..Len(wire) : wire' = SubSeq(wire, 1, n)
    /\ UNCHANGED <<config, phase, timer, attempt, store, quotes, garbled, reachable, server, waited>>

Outage ==
    /\ Fault /\ reachable
    /\ reachable' = FALSE
    /\ UNCHANGED <<config, phase, timer, attempt, store, connected, wire, quotes, garbled,
                   server, waited>>

Restore ==
    /\ ~reachable /\ reachable' = TRUE
    /\ UNCHANGED <<config, phase, timer, attempt, store, connected, wire, quotes, garbled,
                   feedFaults, server, waited>>

-----------------------------------------------------------------------------
(* app.Run: a signal cancels the adapter and waits for it; requests are      *)
(* answered until then.  Draining and the worker are bounded elsewhere.      *)
Signal ==
    /\ server = "serving"
    /\ server' = "stopping"
    /\ UNCHANGED <<config, phase, timer, attempt, store, connected, wire, quotes, garbled,
                   reachable, feedFaults, waited>>

NextStage == [stopping |-> "draining", draining |-> "worker", worker |-> "exited"]

CloseDown ==
    /\ server \in DOMAIN NextStage
    /\ server = "stopping" => phase = "stopped"
    /\ server' = NextStage[server]
    /\ UNCHANGED <<config, phase, timer, attempt, store, connected, wire, quotes, garbled,
                   reachable, feedFaults, waited>>

Urgent ==
    \/ phase \in {"running", "checking", "failed"}
    \/ phase = "dialing" /\ timer = 0
    \/ phase = "reading" /\ (wire # <<>> \/ ~connected \/ timer = 0)
    \/ phase = "waiting" /\ (cancelled \/ timer = 0)

(* The clock; the wait is counted up to one unit more than it may last. *)
Tick ==
    /\ ~Urgent /\ phase # "stopped"
    /\ timer' = timer - 1
    /\ waited' = IF cancelled /\ waited <= LongestCall THEN waited + 1 ELSE waited
    /\ UNCHANGED <<config, phase, attempt, store, connected, wire, quotes, garbled,
                   reachable, feedFaults, server>>

FeedNext ==
    \/ Adapter
    \/ \E p \in Products : Publish(p) \/ Repeat(p)
    \/ Garble \/ Lose \/ Outage \/ Restore
    \/ Signal \/ CloseDown
    \/ Tick

(* The goroutines of the process and the clock go on, an outage ends, and an *)
(* exchange that is dialled for ever answers some dial in time.  Nothing     *)
(* obliges it to publish, or a signal to come.                               *)
FeedFairness ==
    /\ WF_feedVars(Adapter) /\ WF_feedVars(CloseDown)
    /\ WF_feedVars(Tick) /\ WF_feedVars(Restore)
    /\ SF_feedVars(Dialled)

FeedSpec == FeedInit /\ [][FeedNext]_feedVars /\ FeedFairness

-----------------------------------------------------------------------------
(* The shutdown waits for the adapter no longer than one blocking call:      *)
(* coinbaseWG.Wait has no timeout of its own, so a read whose deadline is    *)
(* renewed after the cancellation would hold the HTTP server's shutdown.     *)
StopsInTime == phase # "stopped" => waited <= LongestCall

(* Whatever fails, an adapter with a URL and a usable list of products       *)
(* comes back to the exchange's current quotes, again and again, until the   *)
(* server is told to stop.  A quote that itself came in malformed is missed  *)
(* until the exchange sends the product again or the next session: messages  *)
(* about other products renew the deadline that would end this one.          *)
CatchesUp ==
    \A p \in Products :
        []<>(\/ cancelled \/ ~config.url \/ ~Subscribable(config.products)
             \/ p \notin Wanted(config.products)
             \/ p \in garbled
             \/ store[p] = quotes[p])
=============================================================================
