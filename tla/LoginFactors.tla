---------------------------- MODULE LoginFactors ----------------------------
(***************************************************************************)
(* Signing in with a password, with a one-time code (TOTP) and with an     *)
(* OAuth provider, for one address: the user row, its TOTP factor, and the *)
(* single-use rows that carry a sign-in from one request to the next: MFA  *)
(* challenges, OAuth states and exchange codes.  A step is one SQL         *)
(* statement outside a transaction, or the commit of one; a row locked FOR *)
(* UPDATE stays locked until then.                                         *)
(***************************************************************************)
EXTENDS Naturals, FiniteSets

CONSTANTS
    Requests,       \* slots for concurrent HTTP requests
    Challenges,     \* mfa_challenges rows that may be created
    States,         \* oauth_authorization_states rows
    Codes,          \* oauth_exchange_codes rows
    MaxSecrets,     \* bound: TOTP secrets generated
    MaxConfirms,    \* bound: enrollments confirmed
    MaxFaults,      \* bound: statements and commits that fail
    None

Secret == 0 .. MaxSecrets
UserRows == [verified : BOOLEAN, totp : BOOLEAN]
Factors == [id : Secret, secret : Secret, pending : Secret]
CodeRows == [used : BOOLEAN, carries : Challenges \union {None}]
StateRows == [used : BOOLEAN, link : BOOLEAN]

ASSUME LoginAssumption ==
    /\ MaxSecrets \in Nat /\ MaxConfirms \in Nat /\ MaxFaults \in Nat
    /\ None \notin Challenges \union States \union Codes
    /\ None \notin UserRows \union Factors \union CodeRows \union StateRows
    /\ Codes \intersect (Challenges \union Requests \union States) = {}

VARIABLES
    user,       \* the users row of the address
    linked,     \* whether user_oauth_accounts ties the provider identity to it
    factor,     \* its user_totp_factors row; 0 stands for an empty column
    challenge,  \* "none", "open", "used" or "expired"
    state,      \* OAuth states, with whether they are a link request
    code,       \* exchange codes, with the challenge they carry
    req,        \* what each request is doing, and what it has read
    drawn, confirms, faults,    \* how much of each bound is used
    proven,     \* history: secrets a code was accepted for at enrollment
    spoiled,    \* history: a Setup wrote its copy over a confirmed factor
    sessions,   \* history: sessions created from each challenge and code
    flipped,    \* history: requests and codes under way when TOTP was enabled
    torn,       \* history: codes whose commit failed
    crossed,    \* history: states read by two callbacks before either marked
    yield       \* history: exchange codes created from each state

userVars == <<user, linked, factor>>
rowVars == <<challenge, state, code>>
boundVars == <<drawn, confirms, faults>>
historyVars == <<proven, spoiled, sessions, flipped, torn, crossed, yield>>
vars == <<userVars, rowVars, req, boundVars, historyVars>>

Labels == {"idle", "issue", "factor", "setup", "store", "confirm", "enable", "disable",
           "provider", "resolve", "prepare", "deliver", "session", "commit"}

\* What a request holds between two statements.
Held == [at : Labels, on : States \union Codes \union {None}, totp : BOOLEAN,
         copy : Factors \union {None}, with : Challenges \union {None}]

Idle == [at |-> "idle", on |-> None, totp |-> FALSE, copy |-> None, with |-> None]

TypeOK ==
    /\ user \in UserRows \union {None}
    /\ linked \in BOOLEAN
    /\ factor \in Factors \union {None}
    /\ challenge \in [Challenges -> {"none", "open", "used", "expired"}]
    /\ state \in [States -> StateRows \union {None}]
    /\ code \in [Codes -> CodeRows \union {None}]
    /\ req \in [Requests -> Held]
    /\ drawn \in Secret /\ confirms \in Nat /\ faults \in Nat
    /\ proven \subseteq Secret
    /\ spoiled \in BOOLEAN
    /\ sessions \in [Challenges \union Codes -> Nat]
    /\ flipped \subseteq Requests \union Codes
    /\ torn \subseteq Codes
    /\ crossed \subseteq States
    /\ yield \in [States -> Nat]

Init ==
    /\ user = None
    /\ linked = FALSE
    /\ factor = None
    /\ challenge = [c \in Challenges |-> "none"]
    /\ state = [s \in States |-> None]
    /\ code = [x \in Codes |-> None]
    /\ req = [r \in Requests |-> Idle]
    /\ drawn = 0 /\ confirms = 0 /\ faults = 0
    /\ proven = {} /\ spoiled = FALSE
    /\ sessions = [g \in Challenges \union Codes |-> 0]
    /\ flipped = {} /\ torn = {} /\ crossed = {}
    /\ yield = [s \in States |-> 0]

At(r, l) == req[r].at = l

\* The request ends; what it was flipped about is over too.
End(r) ==
    /\ req' = [req EXCEPT ![r] = Idle]
    /\ flipped' = flipped \ {r}

Hold(r, held) ==
    /\ req' = [req EXCEPT ![r] = held]
    /\ UNCHANGED flipped

Goto(r, l) == Hold(r, [req[r] EXCEPT !.at = l])

\* Any statement may fail; the handler answers with an error.
Fail(r) ==
    /\ ~At(r, "idle") /\ ~At(r, "commit")
    /\ faults < MaxFaults
    /\ faults' = faults + 1
    /\ End(r)
    /\ UNCHANGED <<userVars, rowVars, drawn, confirms, proven, spoiled, sessions, torn, crossed, yield>>

-----------------------------------------------------------------------------
(* The account.                                                            *)

\* Register, when no row has the address (a unique index decides races).
Register ==
    /\ user = None
    /\ user' = [verified |-> FALSE, totp |-> FALSE]
    /\ UNCHANGED <<linked, factor, rowVars, req, boundVars, historyVars>>

VerifyEmail ==
    /\ user # None /\ ~user.verified
    /\ user' = [user EXCEPT !.verified = TRUE]
    /\ UNCHANGED <<linked, factor, rowVars, req, boundVars, historyVars>>

HasSecret(f) == f # None /\ f.secret # 0

-----------------------------------------------------------------------------
(* Password sign-in.                                                       *)

\* The row of a user with the right password, and what it says decides.
Login(r) ==
    /\ At(r, "idle")
    /\ user # None /\ user.verified
    /\ Hold(r, [Idle EXCEPT !.at = IF user.totp THEN "factor" ELSE "issue"])
    /\ UNCHANGED <<userVars, rowVars, boundVars, proven, spoiled, sessions, torn, crossed, yield>>

\* The factor is looked up before a challenge is handed out.
IssueChallenge(r) ==
    /\ At(r, "factor")
    /\ \/ ~HasSecret(factor) /\ UNCHANGED challenge
       \/ /\ HasSecret(factor)
          /\ \E c \in Challenges :
                /\ challenge[c] = "none"
                /\ challenge' = [challenge EXCEPT ![c] = "open"]
    /\ End(r)
    /\ UNCHANGED <<userVars, state, code, boundVars, proven, spoiled, sessions, torn, crossed, yield>>

\* createSession, for a sign-in without a challenge or after one.
IssueAuthentication(r) ==
    /\ At(r, "issue")
    /\ sessions' = IF req[r].with = None THEN sessions ELSE [sessions EXCEPT ![req[r].with] = @ + 1]
    /\ End(r)
    /\ UNCHANGED <<userVars, rowVars, boundVars, proven, spoiled, torn, crossed, yield>>

ChallengeStays(c) == challenge                                              \* mutant
ChallengeUsed(c) == [challenge EXCEPT ![c] = "used"]

\* VerifyMFALogin: the challenge row is locked from its check to its commit; the
\* code given is one of secret k.
VerifyMFALogin(r, c, k) ==
    /\ At(r, "idle")
    /\ challenge[c] = "open"
    /\ user # None /\ user.totp
    /\ HasSecret(factor) /\ factor.secret = k
    /\ challenge' = ChallengeUsed(c)
    /\ Hold(r, [Idle EXCEPT !.at = "issue", !.with = c])
    /\ UNCHANGED <<userVars, state, code, boundVars, proven, spoiled, sessions, torn, crossed, yield>>

Expire(c) ==
    /\ challenge[c] = "open"
    /\ challenge' = [challenge EXCEPT ![c] = "expired"]
    /\ UNCHANGED <<userVars, state, code, req, boundVars, historyVars>>

-----------------------------------------------------------------------------
(* Enrollment of a second factor.                                          *)

SetupTOTP(r) ==
    /\ At(r, "idle")
    /\ user # None /\ ~user.totp
    /\ drawn < MaxSecrets
    /\ Hold(r, [Idle EXCEPT !.at = "setup"])
    /\ UNCHANGED <<userVars, rowVars, boundVars, proven, spoiled, sessions, torn, crossed, yield>>

ReadFactor(r, from, to) ==
    /\ At(r, from)
    /\ Hold(r, [req[r] EXCEPT !.at = to, !.copy = factor])
    /\ UNCHANGED <<userVars, rowVars, boundVars, proven, spoiled, sessions, torn, crossed, yield>>

\* Save: every column from the copy, and an INSERT if its row is gone; a row
\* with another id makes the unique index on the user refuse it.
Saves(copy) == factor = None \/ factor.id = copy.id

\* A copy of no row is an INSERT, which fails if there is one now.
StorePending(r) ==
    /\ At(r, "store")
    /\ drawn < MaxSecrets
    /\ drawn' = drawn + 1
    /\ LET fresh == [id |-> drawn + 1, secret |-> 0, pending |-> drawn + 1]
           row == IF req[r].copy = None THEN fresh
                  ELSE [req[r].copy EXCEPT !.pending = drawn + 1]
       IN  factor' = IF Saves(row) THEN row ELSE factor
    /\ spoiled' = (spoiled \/ (user.totp /\ factor' # factor))
    /\ End(r)
    /\ UNCHANGED <<user, linked, rowVars, confirms, faults, proven, sessions, torn, crossed, yield>>

ConfirmTOTP(r) ==
    /\ At(r, "idle")
    /\ user # None /\ ~user.totp
    /\ confirms < MaxConfirms
    /\ Hold(r, [Idle EXCEPT !.at = "confirm"])
    /\ UNCHANGED <<userVars, rowVars, boundVars, proven, spoiled, sessions, torn, crossed, yield>>

ConfirmedFresh(copy) ==
    [copy EXCEPT !.secret = IF factor = None THEN 0 ELSE factor.pending, !.pending = 0]         \* mutant
Confirmed(copy) == [copy EXCEPT !.secret = copy.pending, !.pending = 0]

Confirmable(copy) == copy # None /\ copy.pending # 0 /\ Saves(copy)

\* The code matches the pending secret of the copy; flag and factor are written
\* in one transaction, the factor from the copy.
EnableTOTP(r) ==
    /\ At(r, "enable")
    /\ confirms < MaxConfirms
    /\ IF Confirmable(req[r].copy)
       THEN /\ confirms' = confirms + 1
            /\ user' = [user EXCEPT !.totp = TRUE]
            /\ factor' = Confirmed(req[r].copy)
            /\ proven' = proven \union {req[r].copy.pending}
            /\ req' = [req EXCEPT ![r] = Idle]
            /\ flipped' = IF user.totp THEN flipped \ {r}
                          ELSE {q \in Requests \ {r} : ~At(q, "idle")}
                               \union {x \in Codes : code[x] # None}
       ELSE End(r) /\ UNCHANGED <<user, factor, confirms, proven>>
    /\ UNCHANGED <<linked, rowVars, drawn, faults, spoiled, sessions, torn, crossed, yield>>

\* DisableTOTP: the password was checked against the row read here.
DisableTOTP(r) ==
    /\ At(r, "idle")
    /\ user # None /\ user.totp
    /\ Hold(r, [Idle EXCEPT !.at = "disable"])
    /\ UNCHANGED <<userVars, rowVars, boundVars, proven, spoiled, sessions, torn, crossed, yield>>

WipeTOTP(r) ==
    /\ At(r, "disable")
    /\ user' = [user EXCEPT !.totp = FALSE]
    /\ factor' = None
    /\ spoiled' = FALSE
    /\ End(r)
    /\ UNCHANGED <<linked, rowVars, boundVars, proven, sessions, torn, crossed, yield>>

-----------------------------------------------------------------------------
(* Sign-in, sign-up and linking with an OAuth provider.                    *)

\* Only a signed-in user asks for a link.
OAuthAuthorizeURL(s, link) ==
    /\ state[s] = None
    /\ link => user # None
    /\ state' = [state EXCEPT ![s] = [used |-> FALSE, link |-> link]]
    /\ UNCHANGED <<userVars, challenge, code, req, boundVars, historyVars>>

\* The state is read without a lock; then the provider is asked for a token and
\* for a profile with a verified address.
OAuthHandleCallback(r, s) ==
    /\ At(r, "idle")
    /\ state[s] # None /\ ~state[s].used
    /\ Hold(r, [Idle EXCEPT !.at = "provider", !.on = s])
    /\ crossed' = IF \E q \in Requests : At(q, "provider") /\ req[q].on = s
                  THEN crossed \union {s} ELSE crossed
    /\ UNCHANGED <<userVars, rowVars, boundVars, proven, spoiled, sessions, torn, yield>>

ProviderRefuses(r) ==
    /\ At(r, "provider")
    /\ End(r)
    /\ UNCHANGED <<userVars, rowVars, boundVars, proven, spoiled, sessions, torn, crossed, yield>>

\* Only after the profile: Save(&st), unconditionally.
MarkStateUsed(r) ==
    /\ At(r, "provider")
    /\ state' = [state EXCEPT ![req[r].on].used = TRUE]
    /\ Goto(r, "resolve")
    /\ UNCHANGED <<userVars, challenge, code, boundVars, proven, spoiled, sessions, torn, crossed, yield>>

\* The transaction that finds, links or creates the user; a unique index rolls
\* back the second of two that create, and so may the database.
ResolveUser(r) ==
    /\ At(r, "resolve")
    /\ \/ /\ linked \/ state[req[r].on].link
          /\ linked' = TRUE
          /\ Hold(r, [req[r] EXCEPT !.at = "prepare", !.totp = user.totp])
          /\ UNCHANGED user
       \/ /\ ~linked /\ user = None
          /\ linked' = TRUE
          /\ user' = [verified |-> TRUE, totp |-> FALSE]
          /\ Goto(r, "prepare")
       \/ ~linked /\ End(r) /\ UNCHANGED <<user, linked>>   \* conflict, mismatch, rollback
    /\ UNCHANGED <<factor, rowVars, boundVars, proven, spoiled, sessions, torn, crossed, yield>>

NeedsFactorNever(held) == FALSE                                             \* mutant
NeedsFactor(held) == held.totp

\* As in Login: by the row read in the transaction, a user with TOTP gets a
\* challenge with the exchange code, or nothing without a usable factor.
PrepareChallenge(r) ==
    /\ At(r, "prepare")
    /\ \/ ~NeedsFactor(req[r]) /\ Goto(r, "deliver") /\ UNCHANGED challenge
       \/ NeedsFactor(req[r]) /\ ~HasSecret(factor) /\ End(r) /\ UNCHANGED challenge
       \/ /\ NeedsFactor(req[r]) /\ HasSecret(factor)
          /\ \E c \in Challenges :
                /\ challenge[c] = "none"
                /\ challenge' = [challenge EXCEPT ![c] = "open"]
                /\ Hold(r, [req[r] EXCEPT !.at = "deliver", !.with = c])
    /\ UNCHANGED <<userVars, state, code, boundVars, proven, spoiled, sessions, torn, crossed, yield>>

CreateExchangeCode(r) ==
    /\ At(r, "deliver")
    /\ \E x \in Codes :
          /\ code[x] = None
          /\ code' = [code EXCEPT ![x] = [used |-> FALSE, carries |-> req[r].with]]
          /\ flipped' = (flipped \ {r}) \union (IF r \in flipped THEN {x} ELSE {})
    /\ yield' = [yield EXCEPT ![req[r].on] = @ + 1]
    /\ req' = [req EXCEPT ![r] = Idle]
    /\ UNCHANGED <<userVars, challenge, state, boundVars, proven, spoiled, sessions, torn, crossed>>

CodeLocked(x) == \E r \in Requests : req[r].at \in {"session", "commit"} /\ req[r].on = x

\* OAuthCompleteExchange: the code row is locked from here to the commit.
OAuthCompleteExchange(r, x) ==
    /\ At(r, "idle")
    /\ code[x] # None /\ ~code[x].used /\ ~CodeLocked(x)
    /\ req' = [req EXCEPT ![r] =
          [Idle EXCEPT !.at = IF code[x].carries = None THEN "session" ELSE "commit", !.on = x]]
    /\ flipped' = IF x \in flipped THEN flipped \union {r} ELSE flipped
    /\ UNCHANGED <<userVars, rowVars, boundVars, proven, spoiled, sessions, torn, crossed, yield>>

\* createSession runs on its own connection and is committed before the code is.
SessionForCode(r) ==
    /\ At(r, "session")
    /\ sessions' = [sessions EXCEPT ![req[r].on] = @ + 1]
    /\ Goto(r, "commit")
    /\ UNCHANGED <<userVars, rowVars, boundVars, proven, spoiled, torn, crossed, yield>>

CommitCode(r) ==
    /\ At(r, "commit")
    /\ LET x == req[r].on IN
          \/ code' = [code EXCEPT ![x].used = TRUE] /\ UNCHANGED <<faults, torn>>
          \/ /\ faults < MaxFaults
             /\ faults' = faults + 1
             /\ torn' = torn \union {x}
             /\ UNCHANGED code
    /\ End(r)
    /\ UNCHANGED <<userVars, challenge, state, drawn, confirms, proven, spoiled, sessions, crossed, yield>>

-----------------------------------------------------------------------------

PasswordStep(r) ==
    \/ Login(r)
    \/ IssueChallenge(r)
    \/ IssueAuthentication(r)
    \/ \E c \in Challenges, k \in 1 .. MaxSecrets : VerifyMFALogin(r, c, k)

EnrollStep(r) ==
    \/ SetupTOTP(r)
    \/ ReadFactor(r, "setup", "store")
    \/ StorePending(r)
    \/ ConfirmTOTP(r)
    \/ ReadFactor(r, "confirm", "enable")
    \/ EnableTOTP(r)
    \/ DisableTOTP(r)
    \/ WipeTOTP(r)

OAuthStep(r) ==
    \/ \E s \in States : OAuthHandleCallback(r, s)
    \/ ProviderRefuses(r)
    \/ MarkStateUsed(r)
    \/ ResolveUser(r)
    \/ PrepareChallenge(r)
    \/ CreateExchangeCode(r)
    \/ \E x \in Codes : OAuthCompleteExchange(r, x)
    \/ SessionForCode(r)
    \/ CommitCode(r)

Next ==
    \/ Register
    \/ VerifyEmail
    \/ \E c \in Challenges : Expire(c)
    \/ \E s \in States, link \in BOOLEAN : OAuthAuthorizeURL(s, link)
    \/ \E r \in Requests : PasswordStep(r) \/ EnrollStep(r) \/ OAuthStep(r) \/ Fail(r)

Spec == Init /\ [][Next]_vars

-----------------------------------------------------------------------------

\* A user for whom a second factor is demanded has one that was proven with a
\* code, so that the demand can be met: unless a SetupTOTP that had read the
\* factor earlier wrote its copy over the confirmed one (StorePending).
EnabledHasSecret ==
    user # None /\ user.totp /\ ~spoiled => HasSecret(factor) /\ factor.secret \in proven

\* A single-use row is worth one thing, whatever fails and whoever presents it
\* twice at once: a challenge one session, an exchange code one session, an OAuth
\* state one exchange code.  For a code this needs its commit to succeed, since
\* its session is committed before, on another connection; for a state, that no
\* two callbacks had read it before one of them marked it used.
GrantOnce ==
    /\ \A c \in Challenges : sessions[c] <= 1
    /\ \A x \in Codes \ torn : sessions[x] <= 1
    /\ \A s \in States \ crossed : yield[s] <= 1

\* Is about to open a session without a challenge.
Unchallenged(r) ==
    \/ At(r, "issue") /\ req[r].with = None
    \/ At(r, "session")

\* Once TOTP is on, a session without the second factor can only come from a
\* sign-in that was already under way when it was turned on.
SecondFactorHonoured ==
    user # None /\ user.totp =>
        \A r \in Requests : Unchallenged(r) => r \in flipped
=============================================================================
