--------------------------- MODULE RefreshSessions ---------------------------
(***************************************************************************)
(* Refresh-token sessions (table auth_sessions) and the requests that race *)
(* over them: createSession (the end of Login, Register, VerifyMFALogin    *)
(* and OAuthCompleteExchange) opens one, RefreshToken rotates one, Logout, *)
(* a reused token and ConfirmPasswordReset revoke all of a user's.         *)
(*                                                                         *)
(* The database is PostgreSQL at READ COMMITTED (no transaction of the     *)
(* code asks for more).  What others can see changes at COMMIT only, so a  *)
(* transaction's writes are one step; what it has read before is not.      *)
(* SELECT ... FOR UPDATE locks the row until the transaction ends.  A bulk *)
(* UPDATE fixes its candidate rows when the statement starts, waits for    *)
(* the transactions that hold them, and then tests its WHERE clause again  *)
(* on each row's newest version; it never sees a row inserted meanwhile.   *)
(***************************************************************************)
EXTENDS Integers, FiniteSets

CONSTANTS
    Users,
    Sessions,       \* rows of auth_sessions, each with a token of its own
    Owner,          \* Owner[s]: user_id
    ResetTokens,    \* password reset tokens that were mailed
    ResetOwner,     \* ResetOwner[r]: user_id
    Requests,       \* concurrent HTTP requests
    None

ASSUME SessionsAssumption ==
    /\ Owner \in [Sessions -> Users]
    /\ ResetOwner \in [ResetTokens -> Users]
    /\ IsFiniteSet(ResetTokens)
    /\ None \notin Users \union Sessions \union ResetTokens \union Requests
    /\ None \notin {"reuse_detected", "logout_all", "password_reset"}

VARIABLES
    row,        \* committed revoked_at and revoke_reason of each session
    next,       \* replaced_by_session
    lock,       \* the transaction that holds the session's row
    userLock,   \* the transaction that holds the user's row
    resetToken, \* "active" or "used"
    pass,       \* how often pass_hash was changed
    pc,         \* next statement of each request
    tok,        \* the refresh or reset token the request presents
    acct,       \* the user it acts for
    reason,     \* revoke_reason of its bulk UPDATE
    seen,       \* candidate rows of its bulk UPDATE
    root,       \* history: the session the chain of rotations began with
    shown, shownAgain,  \* history: tokens given to RefreshToken once, twice
    swept       \* history: candidates of the bulk UPDATEs that were reported done

rowVars == <<row, next, root>>
requestVars == <<pc, tok, acct, reason, seen>>
resetVars == <<resetToken, pass, userLock>>
pastVars == <<shown, shownAgain, swept>>
vars == <<rowVars, lock, resetVars, requestVars, pastVars>>

-----------------------------------------------------------------------------

SweepReasons == {"reuse_detected", "logout_all", "password_reset"}
Revoked == SweepReasons \union {"rotated"}

TypeOK ==
    /\ row \in [Sessions -> {"absent", "live"} \union Revoked]
    /\ next \in [Sessions -> Sessions \union {None}]
    /\ root \in [Sessions -> Sessions \union {None}]
    /\ lock \in [Sessions -> Requests \union {None}]
    /\ userLock \in [Users -> Requests \union {None}]
    /\ resetToken \in [ResetTokens -> {"active", "used"}]
    /\ pass \in [Users -> Nat]
    /\ pc \in [Requests -> {"idle", "lock", "rotate", "reset", "sweep", "apply"}]
    /\ tok \in [Requests -> Sessions \union ResetTokens \union {None}]
    /\ acct \in [Requests -> Users \union {None}]
    /\ reason \in [Requests -> SweepReasons \union {None}]
    /\ seen \in [Requests -> SUBSET Sessions]
    /\ shown \subseteq Sessions /\ shownAgain \subseteq Sessions
    /\ swept \subseteq Sessions

Init ==
    /\ row = [s \in Sessions |-> "absent"]
    /\ next = [s \in Sessions |-> None]
    /\ root = [s \in Sessions |-> None]
    /\ lock = [s \in Sessions |-> None]
    /\ userLock = [u \in Users |-> None]
    /\ resetToken = [r \in ResetTokens |-> "active"]
    /\ pass = [u \in Users |-> 0]
    /\ pc = [p \in Requests |-> "idle"]
    /\ tok = [p \in Requests |-> None]
    /\ acct = [p \in Requests |-> None]
    /\ reason = [p \in Requests |-> None]
    /\ seen = [p \in Requests |-> {}]
    /\ shown = {} /\ shownAgain = {} /\ swept = {}

Known == {s \in Sessions : row[s] # "absent"}

\* A request arrives, with the token x it presents.
Begin(p, label, x, u, why) ==
    /\ pc[p] = "idle"
    /\ pc' = [pc EXCEPT ![p] = label]
    /\ tok' = [tok EXCEPT ![p] = x]
    /\ acct' = [acct EXCEPT ![p] = u]
    /\ reason' = [reason EXCEPT ![p] = why]
    /\ UNCHANGED <<seen, rowVars, lock, resetVars, swept>>

\* The request answers; its transaction, if any, is over and its locks are free.
End(p) ==
    /\ pc' = [pc EXCEPT ![p] = "idle"]
    /\ tok' = [tok EXCEPT ![p] = None]
    /\ acct' = [acct EXCEPT ![p] = None]
    /\ reason' = [reason EXCEPT ![p] = None]
    /\ seen' = [seen EXCEPT ![p] = {}]
    /\ lock' = [s \in Sessions |-> IF lock[s] = p THEN None ELSE lock[s]]
    /\ userLock' = [u \in Users |-> IF userLock[u] = p THEN None ELSE userLock[u]]

\* Any statement may fail (a lost connection, a cancelled request, a deadlock
\* the database breaks, a refused user): the transaction is rolled back.
Rollback(p) ==
    /\ pc[p] # "idle"
    /\ End(p)
    /\ UNCHANGED <<rowVars, resetToken, pass, pastVars>>

-----------------------------------------------------------------------------
\* One INSERT that commits by itself.
CreateSession(u) ==
    /\ \E s \in Sessions :
          /\ row[s] = "absent"
          /\ Owner[s] = u
          /\ row' = [row EXCEPT ![s] = "live"]
          /\ root' = [root EXCEPT ![s] = s]
    /\ UNCHANGED <<next, lock, resetVars, requestVars, pastVars>>

-----------------------------------------------------------------------------
(* RefreshToken.                                                           *)

RefreshToken(p, s) ==
    /\ s \in Known
    /\ Begin(p, "lock", s, Owner[s], None)
    /\ shown' = shown \union {s}
    /\ shownAgain' = IF s \in shown THEN shownAgain \union {s} ELSE shownAgain

\* Mutants: a plain SELECT takes no lock; any revoked token counts as reused.
RowRead(p) == lock
ReusedIfRevoked(s) == row[s] \in Revoked

RowLocked(p) == [lock EXCEPT ![tok[p]] = p]
Reused(s) == row[s] = "rotated"

\* SELECT ... FOR UPDATE, then what the row says.  A rotated token was used
\* before, which revokes every session of the user; an otherwise revoked token
\* is refused, as is (Rollback) an expired one or one of an unverified user.
LockCurrent(p) ==
    /\ pc[p] = "lock"
    /\ LET s == tok[p] IN
          /\ lock[s] = None
          /\ \/ /\ row[s] \in SweepReasons
                /\ End(p)
             \/ /\ Reused(s)
                /\ lock' = RowLocked(p)
                /\ pc' = [pc EXCEPT ![p] = "sweep"]
                /\ reason' = [reason EXCEPT ![p] = "reuse_detected"]
                /\ UNCHANGED <<tok, acct, seen, userLock>>
             \/ /\ row[s] = "live"
                /\ lock' = RowLocked(p)
                /\ pc' = [pc EXCEPT ![p] = "rotate"]
                /\ UNCHANGED <<tok, acct, reason, seen, userLock>>
    /\ UNCHANGED <<rowVars, resetToken, pass, pastVars>>

\* Mutant: the error of the INSERT is ignored.
RotateUnchecked(p) ==
    /\ pc[p] = "rotate"
    /\ row' = [row EXCEPT ![tok[p]] = "rotated"]
    /\ End(p)
    /\ UNCHANGED <<next, root, resetToken, pass, pastVars>>

\* INSERT of the successor, Save of the locked row, COMMIT.
Rotate(p) ==
    /\ pc[p] = "rotate"
    /\ \E n \in Sessions :
          /\ row[n] = "absent"
          /\ Owner[n] = acct[p]
          /\ row' = [row EXCEPT ![tok[p]] = "rotated", ![n] = "live"]
          /\ next' = [next EXCEPT ![tok[p]] = n]
          /\ root' = [root EXCEPT ![n] = root[tok[p]]]
    /\ End(p)
    /\ UNCHANGED <<resetToken, pass, pastVars>>

-----------------------------------------------------------------------------
(* Logout and ConfirmPasswordReset.                                        *)

\* Logout starts with a plain SELECT by hash; any known token will do.
Logout(p, s) ==
    /\ s \in Known
    /\ Begin(p, "sweep", s, Owner[s], "logout_all")
    /\ UNCHANGED <<shown, shownAgain>>

\* FindActivePasswordResetByHash, a plain SELECT.
ConfirmPasswordReset(p, r) ==
    /\ resetToken[r] = "active"
    /\ Begin(p, "reset", r, ResetOwner[r], "password_reset")
    /\ UNCHANGED <<shown, shownAgain>>

\* UPDATE users SET pass_hash locks the user's row until the end.
UpdatePassword(p) ==
    /\ pc[p] = "reset"
    /\ userLock[acct[p]] = None
    /\ userLock' = [userLock EXCEPT ![acct[p]] = p]
    /\ pc' = [pc EXCEPT ![p] = "sweep"]
    /\ UNCHANGED <<tok, acct, reason, seen, rowVars, lock, resetToken, pass, pastVars>>

\* revokeAllUserSessionsTx starts: user_id = ? AND revoked_at IS NULL.
RevokeAllStart(p) ==
    /\ pc[p] = "sweep"
    /\ seen' = [seen EXCEPT ![p] = {s \in Sessions : row[s] = "live" /\ Owner[s] = acct[p]}]
    /\ pc' = [pc EXCEPT ![p] = "apply"]
    /\ UNCHANGED <<tok, acct, reason, rowVars, lock, resetVars, pastVars>>

\* The rows once the WHERE clause was tested again.
SweptRows(p) == [s \in Sessions |-> IF s \in seen[p] /\ row[s] = "live" THEN reason[p] ELSE row[s]]

\* Mutant: the error of a reused token rolls the revocation back.
SweptRowsOrNone(p) == IF reason[p] = "reuse_detected" THEN row ELSE SweptRows(p)

RevokedRows(p) == SweptRows(p)
MarkedUsed(p) == reason[p] = "password_reset" => resetToken[tok[p]] = "active"

\* It ends once nobody else holds a candidate.  MarkPasswordResetUsed changes
\* no row, and so rolls everything back, if the reset token was used meanwhile.
RevokeAllCommit(p) ==
    /\ pc[p] = "apply"
    /\ \A s \in seen[p] : lock[s] \in {None, p}
    /\ MarkedUsed(p)
    /\ row' = RevokedRows(p)
    /\ swept' = swept \union seen[p]
    /\ IF reason[p] = "password_reset"
       THEN /\ resetToken' = [resetToken EXCEPT ![tok[p]] = "used"]
            /\ pass' = [pass EXCEPT ![acct[p]] = @ + 1]
       ELSE UNCHANGED <<resetToken, pass>>
    /\ End(p)
    /\ UNCHANGED <<next, root, shown, shownAgain>>

Request(p) ==
    \/ \E s \in Sessions : RefreshToken(p, s) \/ Logout(p, s)
    \/ LockCurrent(p)
    \/ Rotate(p)
    \/ \E r \in ResetTokens : ConfirmPasswordReset(p, r)
    \/ UpdatePassword(p)
    \/ RevokeAllStart(p)
    \/ RevokeAllCommit(p)
    \/ Rollback(p)

Next ==
    \/ \E u \in Users : CreateSession(u)
    \/ \E p \in Requests : Request(p)

Spec == Init /\ [][Next]_vars

-----------------------------------------------------------------------------

\* Single use: however many requests present the same refresh token at once,
\* a login never has two valid tokens (RefreshToken locks the row it rotates).
OneValidToken ==
    \A s, t \in Sessions :
        row[s] = "live" /\ row[t] = "live" /\ root[s] = root[t] => s = t

\* Rotation is all or nothing: a token is used up exactly if the session that
\* replaces it was committed with it (one transaction in RefreshToken).
RotatedHasSuccessor ==
    \A s \in Sessions :
        /\ row[s] = "rotated" <=> next[s] # None
        /\ next[s] # None => row[next[s]] # "absent" /\ root[next[s]] = root[s]

\* Once a revocation was reported, every session that was valid when it looked
\* is invalid for good, also if it waited for requests rotating them; after
\* reuse this needs the transaction to commit although the request fails.
SweptStayRevoked == \A s \in swept : row[s] \in Revoked

\* Reuse is only ever detected for a user one of whose refresh tokens really was
\* presented twice; a token revoked by a logout or reset is no reuse.
NoFalseAlarm ==
    \A s \in Sessions : row[s] = "reuse_detected" =>
        \E t \in shownAgain : Owner[t] = Owner[s]

\* A reset token changes the password once, however many requests confirm it.
ResetOnce ==
    \A u \in Users :
        pass[u] = Cardinality({r \in ResetTokens : ResetOwner[r] = u /\ resetToken[r] = "used"})

\* A revoked session stays as it is: in particular no logout is undone or
\* relabelled by the full-row Save of a rotation that read the row earlier.
RevokedIsFinal ==
    [][\A s \in Sessions : row[s] \in Revoked => row'[s] = row[s] /\ next'[s] = next[s]]_vars

-----------------------------------------------------------------------------
(* The inductive invariant behind the safety properties.                   *)

Rotating(p) == pc[p] \in {"lock", "rotate"}
Sweeping(p) == pc[p] \in {"sweep", "apply"}

\* A chain of rotations starts at a session that exists.
RootOK ==
    \A s \in Sessions :
        /\ row[s] = "absent" <=> root[s] = None
        /\ root[s] # None => row[root[s]] # "absent"

\* Whoever is about to rotate a session holds its row, and the row is valid.
LockOK ==
    \A p \in Requests : pc[p] = "rotate" =>
        /\ tok[p] \in Sessions
        /\ lock[tok[p]] = p
        /\ row[tok[p]] = "live"

\* What a request presents and whom it acts for.
TokenOK ==
    \A p \in Requests :
        /\ Rotating(p) => /\ tok[p] \in shown
                          /\ row[tok[p]] # "absent"
        /\ pc[p] = "reset" => reason[p] = "password_reset"
        /\ Sweeping(p) => reason[p] # None
        /\ reason[p] = "reuse_detected" =>
              /\ tok[p] \in shownAgain
              /\ acct[p] = Owner[tok[p]]
        /\ Rotating(p) => acct[p] = Owner[tok[p]]
        /\ reason[p] = "password_reset" =>
              /\ tok[p] \in ResetTokens
              /\ acct[p] = ResetOwner[tok[p]]

\* Candidates of a bulk UPDATE are sessions of the user that exist.
SeenOK ==
    \A p \in Requests :
        /\ seen[p] # {} => pc[p] = "apply"
        /\ \A s \in seen[p] : row[s] # "absent" /\ Owner[s] = acct[p]

\* A token that was rotated, or that two requests hold, was presented.
ShownOK ==
    /\ \A s \in Sessions : row[s] = "rotated" => s \in shown
    /\ \A p \in Requests : pc[p] = "lock" /\ row[tok[p]] = "rotated" => tok[p] \in shownAgain
    /\ \A p, q \in Requests :
          p # q /\ Rotating(p) /\ Rotating(q) /\ tok[p] = tok[q] => tok[p] \in shownAgain

Chains == RootOK /\ LockOK /\ OneValidToken /\ RotatedHasSuccessor
Blame == TokenOK /\ SeenOK /\ ShownOK /\ SweptStayRevoked /\ NoFalseAlarm

IInv == TypeOK /\ Chains /\ Blame /\ ResetOnce

=============================================================================
