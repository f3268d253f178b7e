------------------------ MODULE RefreshSessions_proofs ------------------------
(***************************************************************************)
(* Proofs about RefreshSessions, for any number of users, sessions, reset  *)
(* tokens and concurrent requests.  The invariant IInv is shown to be      *)
(* inductive part by part: types, chains of rotations, and who is to blame *)
(* for a revocation; the safety properties and RevokedIsFinal follow.      *)
(***************************************************************************)
EXTENDS RefreshSessions, FiniteSetTheorems, TLAPS

LEMMA InitIInv == Init => IInv
<1>1. Init => \A u \in Users :
          {r \in ResetTokens : ResetOwner[r] = u /\ resetToken[r] = "used"} = {}
  BY DEF Init
<1>2. Init => ResetOnce
  BY <1>1, FS_EmptySet, SMTT(30) DEF Init, ResetOnce
<1>3. Init => TypeOK
  BY DEF Init, TypeOK
<1>4. Init => Chains
  BY SessionsAssumption DEF Init, Chains, RootOK, LockOK, OneValidToken, RotatedHasSuccessor
<1>5. Init => Blame
  BY SessionsAssumption DEF Init, Blame, TokenOK, SeenOK, ShownOK, SweptStayRevoked, NoFalseAlarm, Rotating, Sweeping
<1> QED
  BY <1>2, <1>3, <1>4, <1>5 DEF IInv

-----------------------------------------------------------------------------
(* Types.                                                                  *)

\* Every action keeps the variables in their types.
LEMMA TypeStep == TypeOK /\ TokenOK /\ [Next]_vars => TypeOK'
<1> SUFFICES ASSUME TypeOK, TokenOK, [Next]_vars PROVE TypeOK'
  OBVIOUS
<1> USE SessionsAssumption DEF TypeOK, Revoked, SweepReasons
<1>1. CASE UNCHANGED vars
  BY <1>1 DEF vars, rowVars, requestVars, resetVars, pastVars
<1>2. ASSUME NEW u \in Users, CreateSession(u) PROVE TypeOK'
  BY <1>2 DEF CreateSession, requestVars, resetVars, pastVars
<1>3. ASSUME NEW p \in Requests, Request(p) PROVE TypeOK'
  <2>1. ASSUME NEW s \in Sessions, RefreshToken(p, s) PROVE TypeOK'
    BY <2>1 DEF RefreshToken, Begin, Known, rowVars, resetVars
  <2>2. ASSUME NEW s \in Sessions, Logout(p, s) PROVE TypeOK'
    BY <2>2 DEF Logout, Begin, Known, rowVars, resetVars
  <2>3. CASE LockCurrent(p)
    <3>1. CASE End(p)
      BY <2>3, <3>1 DEF LockCurrent, RowLocked, Reused, End, rowVars, pastVars
    <3>2. CASE ~End(p)
      <4>1. tok[p] \in Sessions
        BY <2>3 DEF LockCurrent, RowLocked, Reused, TokenOK, Rotating
      <4> QED
        BY <2>3, <3>2, <4>1, SMTT(60) DEF LockCurrent, RowLocked, Reused, rowVars, pastVars
    <3> QED BY <3>1, <3>2
  <2>4. CASE Rotate(p)
    <3>1. tok[p] \in Sessions
      BY <2>4 DEF Rotate, TokenOK, Rotating
    <3> QED
      BY <2>4, <3>1 DEF Rotate, End, pastVars
  <2>5. ASSUME NEW r \in ResetTokens, ConfirmPasswordReset(p, r) PROVE TypeOK'
    BY <2>5 DEF ConfirmPasswordReset, Begin, rowVars, resetVars
  <2>6. CASE UpdatePassword(p)
    BY <2>6 DEF UpdatePassword, rowVars, pastVars
  <2>7. CASE RevokeAllStart(p)
    BY <2>7 DEF RevokeAllStart, rowVars, resetVars, pastVars
  <2>8. CASE RevokeAllCommit(p)
    <3>1. reason[p] \in SweepReasons
      BY <2>8 DEF RevokeAllCommit, RevokedRows, SweptRows, MarkedUsed, TokenOK, Sweeping
    <3>2. row' \in [Sessions -> {"absent", "live"} \union Revoked]
      BY <2>8, <3>1 DEF RevokeAllCommit, RevokedRows, SweptRows, MarkedUsed
    <3>3. resetToken' \in [ResetTokens -> {"active", "used"}] /\ pass' \in [Users -> Nat]
      BY <2>8 DEF RevokeAllCommit, RevokedRows, SweptRows, MarkedUsed
    <3> QED
      BY <2>8, <3>2, <3>3 DEF RevokeAllCommit, RevokedRows, SweptRows, MarkedUsed, End
  <2>9. CASE Rollback(p)
    BY <2>9 DEF Rollback, End, rowVars, pastVars
  <2> QED
    BY <1>3, <2>1, <2>2, <2>3, <2>4, <2>5, <2>6, <2>7, <2>8, <2>9 DEF Request
<1> QED
  BY <1>1, <1>2, <1>3 DEF Next
-----------------------------------------------------------------------------
(* Chains of rotations.                                                    *)

\* What speaks of the table only survives a step that leaves it alone.
LEMMA ChainsFrame ==
  ASSUME Chains, UNCHANGED rowVars, LockOK' PROVE Chains'
BY DEF Chains, rowVars, RootOK, OneValidToken, RotatedHasSuccessor

\* A request that ends takes no lock of another with it, and one that begins
\* has none: whoever rotates still holds a valid row.
LEMMA LockFrame ==
  ASSUME TypeOK, LockOK, NEW p \in Requests, row' = row,
         \/ End(p)
         \/ /\ pc'[p] # "rotate" /\ lock' = lock
            /\ \A q \in Requests \ {p} : pc'[q] = pc[q] /\ tok'[q] = tok[q]
  PROVE LockOK'
<1> USE SessionsAssumption DEF TypeOK
<1> SUFFICES ASSUME NEW q \in Requests, pc'[q] = "rotate"
             PROVE /\ tok'[q] \in Sessions
                   /\ lock'[tok'[q]] = q
                   /\ row[tok'[q]] = "live"
  BY DEF LockOK
<1>1. q # p
  BY DEF End
<1>2. pc[q] = "rotate" /\ tok'[q] = tok[q]
  BY <1>1 DEF End
<1>3. tok[q] \in Sessions /\ lock[tok[q]] = q /\ row[tok[q]] = "live"
  BY <1>2 DEF LockOK
<1> QED
  BY <1>1, <1>2, <1>3 DEF End

LEMMA CreateChains ==
  ASSUME TypeOK, Chains, NEW u \in Users, CreateSession(u) PROVE Chains'
<1> USE SessionsAssumption DEF TypeOK, Chains
<1> PICK s \in Sessions : /\ row[s] = "absent"
                          /\ row' = [row EXCEPT ![s] = "live"]
                          /\ root' = [root EXCEPT ![s] = s]
  BY DEF CreateSession
<1>1. UNCHANGED <<next, lock, pc, tok>>
  BY DEF CreateSession, requestVars
<1>2. RootOK'
  BY DEF RootOK
<1>3. LockOK'
  BY <1>1 DEF LockOK
<1>4. OneValidToken'
  BY DEF OneValidToken, RootOK
<1>5. RotatedHasSuccessor'
  BY <1>1 DEF RotatedHasSuccessor, RootOK
<1> QED
  BY <1>2, <1>3, <1>4, <1>5

LEMMA RotateChains ==
  ASSUME TypeOK, Chains, NEW p \in Requests, Rotate(p) PROVE Chains'
<1> USE SessionsAssumption DEF TypeOK, Chains
<1> DEFINE s == tok[p]
<1>1. s \in Sessions /\ row[s] = "live" /\ lock[s] = p
  BY DEF Rotate, LockOK
<1> PICK n \in Sessions : /\ row[n] = "absent"
                          /\ row' = [row EXCEPT ![s] = "rotated", ![n] = "live"]
                          /\ next' = [next EXCEPT ![s] = n]
                          /\ root' = [root EXCEPT ![n] = root[s]]
  BY DEF Rotate
<1>2. End(p)
  BY DEF Rotate
<1> HIDE DEF s
<1>3. n # s /\ root[s] # None /\ root[s] \in Sessions
  BY <1>1 DEF RootOK
<1>4. RootOK'
  BY <1>1, <1>3 DEF RootOK
<1>5. ASSUME NEW q \in Requests, pc'[q] = "rotate"
      PROVE tok'[q] \in Sessions /\ lock'[tok'[q]] = q /\ row'[tok'[q]] = "live"
  <2>1. q # p /\ pc[q] = "rotate" /\ tok'[q] = tok[q]
    BY <1>2, <1>5 DEF End
  <2>2. tok[q] \in Sessions /\ lock[tok[q]] = q /\ row[tok[q]] = "live"
    BY <2>1 DEF LockOK
  <2>3. tok[q] # s /\ tok[q] # n
    BY <1>1, <2>1, <2>2
  <2> QED
    BY <1>2, <2>1, <2>2, <2>3 DEF End
<1>6. OneValidToken'
  <2> SUFFICES ASSUME NEW a \in Sessions, NEW b \in Sessions,
                      row'[a] = "live", row'[b] = "live", root'[a] = root'[b]
               PROVE a = b
    BY DEF OneValidToken
  <2>1. ASSUME NEW c \in Sessions, row'[c] = "live", c # n
        PROVE c # s /\ row[c] = "live" /\ root'[c] = root[c] /\ root[c] # root[s]
    BY <1>1, <1>3, <2>1 DEF OneValidToken
  <2>2. root'[n] = root[s]
    OBVIOUS
  <2> QED
    BY <2>1, <2>2 DEF OneValidToken
<1>7. RotatedHasSuccessor'
  <2> SUFFICES ASSUME NEW a \in Sessions
               PROVE /\ row'[a] = "rotated" <=> next'[a] # None
                     /\ next'[a] # None =>
                           row'[next'[a]] # "absent" /\ root'[next'[a]] = root'[a]
    BY DEF RotatedHasSuccessor
  <2>1. CASE a = s
    BY <2>1, <1>1, <1>3
  <2>2. CASE a = n
    BY <2>2, <1>1, <1>3 DEF RotatedHasSuccessor
  <2>3. CASE a # s /\ a # n
    <3>1. /\ row'[a] = row[a] /\ next'[a] = next[a] /\ root'[a] = root[a]
      BY <2>3
    <3>2. next[a] # None => next[a] \in Sessions /\ next[a] # n
      BY DEF RotatedHasSuccessor
    <3> QED
      BY <3>1, <3>2, <1>1, <1>3 DEF RotatedHasSuccessor
  <2> QED
    BY <2>1, <2>2, <2>3
<1> QED
  BY <1>4, <1>5, <1>6, <1>7 DEF LockOK

\* The bulk UPDATE waits for whoever holds a candidate, so it never revokes a
\* row under a request that is rotating it.
LEMMA RevokeChains ==
  ASSUME TypeOK, Chains, TokenOK, NEW p \in Requests, RevokeAllCommit(p) PROVE Chains'
<1> USE SessionsAssumption DEF TypeOK, Chains
<1>1. reason[p] \in SweepReasons
  BY DEF RevokeAllCommit, RevokedRows, SweptRows, MarkedUsed, TokenOK, Sweeping
<1>2. End(p) /\ next' = next /\ root' = root
  BY DEF RevokeAllCommit, RevokedRows, SweptRows, MarkedUsed
<1>3. \A s \in Sessions :
         \/ row'[s] = row[s]
         \/ /\ s \in seen[p] /\ row[s] = "live" /\ row'[s] \in SweepReasons
  BY <1>1 DEF RevokeAllCommit, RevokedRows, SweptRows, MarkedUsed
<1>4. RootOK'
  BY <1>2, <1>3 DEF RootOK, SweepReasons
<1>5. ASSUME NEW q \in Requests, pc'[q] = "rotate"
      PROVE tok'[q] \in Sessions /\ lock'[tok'[q]] = q /\ row'[tok'[q]] = "live"
  <2>1. q # p /\ pc[q] = "rotate" /\ tok'[q] = tok[q]
    BY <1>2, <1>5 DEF End
  <2>2. tok[q] \in Sessions /\ lock[tok[q]] = q /\ row[tok[q]] = "live"
    BY <2>1 DEF LockOK
  <2>3. tok[q] \notin seen[p]
    BY <2>1, <2>2 DEF RevokeAllCommit, RevokedRows, SweptRows, MarkedUsed
  <2> QED
    BY <1>2, <1>3, <2>1, <2>2, <2>3 DEF End
<1>6. OneValidToken'
  BY <1>2, <1>3 DEF OneValidToken, SweepReasons
<1>7. RotatedHasSuccessor'
  BY <1>2, <1>3 DEF RotatedHasSuccessor, SweepReasons
<1> QED
  BY <1>4, <1>5, <1>6, <1>7 DEF LockOK

LEMMA ChainsStep == TypeOK /\ Chains /\ TokenOK /\ [Next]_vars => Chains'
<1> SUFFICES ASSUME TypeOK, Chains, TokenOK, [Next]_vars PROVE Chains'
  OBVIOUS
<1> USE SessionsAssumption DEF TypeOK
<1>0. LockOK
  BY DEF Chains
<1>1. CASE UNCHANGED vars
  <2>1. LockOK'
    BY <1>0, <1>1 DEF vars, rowVars, requestVars, LockOK
  <2> QED
    BY <1>1, <2>1, ChainsFrame DEF vars
<1>2. ASSUME NEW u \in Users, CreateSession(u) PROVE Chains'
  BY <1>2, CreateChains
<1>3. ASSUME NEW p \in Requests, Request(p) PROVE Chains'
  <2>1. ASSUME NEW label, NEW x, NEW u, NEW why, label # "rotate",
               Begin(p, label, x, u, why) PROVE Chains'
    <3>1. LockOK'
      BY <1>0, <2>1, LockFrame DEF Begin, rowVars
    <3> QED
      BY <2>1, <3>1, ChainsFrame DEF Begin
  <2>2. ASSUME NEW s \in Sessions, RefreshToken(p, s) \/ Logout(p, s) PROVE Chains'
    BY <2>1, <2>2 DEF RefreshToken, Logout
  <2>3. CASE LockCurrent(p)
    <3>1. UNCHANGED rowVars
      BY <2>3 DEF LockCurrent, RowLocked, Reused
    <3>2. CASE End(p)
      BY <3>1, <3>2, <1>0, LockFrame, ChainsFrame DEF rowVars
    <3>3. CASE ~End(p)
      <4>1. tok[p] \in Sessions /\ lock[tok[p]] = None /\ tok' = tok
        BY <2>3, <3>3 DEF LockCurrent, RowLocked, Reused, TokenOK, Rotating
      <4>2. /\ lock' = [lock EXCEPT ![tok[p]] = p]
            /\ pc' \in {[pc EXCEPT ![p] = "rotate"], [pc EXCEPT ![p] = "sweep"]}
            /\ pc'[p] = "rotate" => row[tok[p]] = "live"
        BY <2>3, <3>3 DEF LockCurrent, RowLocked, Reused
      <4>3. ASSUME NEW q \in Requests, pc'[q] = "rotate"
            PROVE tok'[q] \in Sessions /\ lock'[tok'[q]] = q /\ row'[tok'[q]] = "live"
        BY <1>0, <3>1, <4>1, <4>2, <4>3 DEF LockOK, rowVars
      <4> QED
        BY <3>1, <4>3, ChainsFrame DEF LockOK
    <3> QED
      BY <3>2, <3>3
  <2>4. CASE Rotate(p)
    BY <2>4, RotateChains
  <2>5. ASSUME NEW r \in ResetTokens, ConfirmPasswordReset(p, r) PROVE Chains'
    BY <2>1, <2>5 DEF ConfirmPasswordReset
  <2>6. CASE UpdatePassword(p) \/ RevokeAllStart(p)
    <3>1. UNCHANGED rowVars /\ lock' = lock /\ tok' = tok
      BY <2>6 DEF UpdatePassword, RevokeAllStart
    <3>2. pc'[p] # "rotate" /\ \A q \in Requests \ {p} : pc'[q] = pc[q]
      BY <2>6 DEF UpdatePassword, RevokeAllStart
    <3>3. LockOK'
      BY <1>0, <3>1, <3>2, LockFrame DEF rowVars
    <3> QED
      BY <3>1, <3>3, ChainsFrame
  <2>7. CASE RevokeAllCommit(p)
    BY <2>7, RevokeChains
  <2>8. CASE Rollback(p)
    <3>1. UNCHANGED rowVars /\ End(p)
      BY <2>8 DEF Rollback
    <3> QED
      BY <1>0, <3>1, LockFrame, ChainsFrame DEF rowVars
  <2> QED
    BY <1>3, <2>2, <2>3, <2>4, <2>5, <2>6, <2>7, <2>8 DEF Request
<1> QED
  BY <1>1, <1>2, <1>3 DEF Next
-----------------------------------------------------------------------------
(* Who is to blame for a revocation.                                       *)

\* A request that ends and changes no row.
LEMMA EndBlame ==
  ASSUME TypeOK, Blame, NEW p \in Requests, End(p), row' = row, UNCHANGED pastVars
  PROVE Blame'
<1> USE SessionsAssumption DEF TypeOK, Blame, End, pastVars, Rotating, Sweeping
<1>1. TokenOK'
  BY DEF TokenOK
<1>2. SeenOK'
  BY DEF SeenOK
<1>3. ShownOK'
  BY DEF ShownOK
<1>4. SweptStayRevoked' /\ NoFalseAlarm'
  BY DEF SweptStayRevoked, NoFalseAlarm
<1> QED
  BY <1>1, <1>2, <1>3, <1>4

LEMMA CreateBlame ==
  ASSUME TypeOK, Blame, NEW u \in Users, CreateSession(u) PROVE Blame'
<1> USE SessionsAssumption DEF TypeOK, Blame, pastVars, requestVars, Rotating, Sweeping
<1> PICK n \in Sessions : row[n] = "absent" /\ row' = [row EXCEPT ![n] = "live"]
  BY DEF CreateSession
<1>1. UNCHANGED requestVars /\ UNCHANGED pastVars
  BY DEF CreateSession
<1>2. TokenOK'
  BY <1>1 DEF TokenOK
<1>3. SeenOK'
  BY <1>1 DEF SeenOK
<1>4. ShownOK'
  BY <1>1 DEF ShownOK, TokenOK
<1>5. SweptStayRevoked' /\ NoFalseAlarm'
  BY <1>1 DEF SweptStayRevoked, NoFalseAlarm, Revoked, SweepReasons
<1> QED
  BY <1>2, <1>3, <1>4, <1>5

LEMMA RefreshBlame ==
  ASSUME TypeOK, Blame, NEW p \in Requests, NEW s \in Sessions, RefreshToken(p, s)
  PROVE Blame'
<1> USE SessionsAssumption DEF TypeOK, Blame, RefreshToken, Begin, rowVars, Rotating, Sweeping
<1>1. TokenOK'
  BY DEF TokenOK, Known
<1>4. SweptStayRevoked' /\ NoFalseAlarm'
  BY DEF SweptStayRevoked, NoFalseAlarm
<1>5. /\ UNCHANGED <<row, seen>> /\ pc[p] = "idle" /\ pc'[p] = "lock" /\ tok'[p] = s
      /\ \A q \in Requests \ {p} : pc'[q] = pc[q] /\ tok'[q] = tok[q] /\ acct'[q] = acct[q]
      /\ shown' = shown \union {s} /\ shownAgain \subseteq shownAgain'
      /\ s \in shown => s \in shownAgain'
  OBVIOUS
<1> HIDE DEF RefreshToken, Begin, TypeOK
<1>2. SeenOK'
  BY <1>5 DEF SeenOK
<1>3. ShownOK'
  <2>1. \A q \in Requests : Rotating(q) => tok[q] \in shown
    BY DEF TokenOK
  <2>2. \A q \in Requests : pc'[q] = "lock" /\ row'[tok'[q]] = "rotated" => tok'[q] \in shownAgain'
    BY <1>5 DEF ShownOK
  <2>3. \A q, o \in Requests :
           q # o /\ Rotating(q)' /\ Rotating(o)' /\ tok'[q] = tok'[o] => tok'[q] \in shownAgain'
    BY <1>5, <2>1 DEF ShownOK
  <2> QED
    BY <1>5, <2>2, <2>3 DEF ShownOK
<1> QED
  BY <1>1, <1>2, <1>3, <1>4

LEMMA BeginBlame ==
  ASSUME TypeOK, Blame, NEW p \in Requests,
         \/ \E s \in Sessions : Logout(p, s)
         \/ \E r \in ResetTokens : ConfirmPasswordReset(p, r)
  PROVE Blame'
<1> USE SessionsAssumption
    DEF TypeOK, Blame, Logout, ConfirmPasswordReset, Begin, rowVars, Rotating, Sweeping
<1>1. TokenOK'
  BY DEF TokenOK
<1>4. SweptStayRevoked' /\ NoFalseAlarm'
  BY DEF SweptStayRevoked, NoFalseAlarm
<1>5. /\ UNCHANGED <<row, seen>> /\ pc[p] = "idle" /\ ~Rotating(p)'
      /\ \A q \in Requests \ {p} : pc'[q] = pc[q] /\ tok'[q] = tok[q] /\ acct'[q] = acct[q]
      /\ shown \subseteq shown' /\ shownAgain \subseteq shownAgain'
  OBVIOUS
<1> HIDE DEF Logout, ConfirmPasswordReset, Begin, TypeOK
<1>2. SeenOK'
  BY <1>5 DEF SeenOK
<1>3. ShownOK'
  BY <1>5 DEF ShownOK
<1> QED
  BY <1>1, <1>2, <1>3, <1>4

\* Finding the row rotated proves that its token was presented before.
LEMMA LockBlame ==
  ASSUME TypeOK, Blame, NEW p \in Requests, LockCurrent(p) PROVE Blame'
<1> USE SessionsAssumption DEF TypeOK, Blame, pastVars, rowVars, Rotating, Sweeping
<1>1. UNCHANGED rowVars /\ UNCHANGED pastVars
  BY DEF LockCurrent, RowLocked, Reused
<1>2. CASE End(p)
  BY <1>1, <1>2, EndBlame
<1>3. CASE ~End(p)
  <2>1. /\ pc[p] = "lock" /\ UNCHANGED <<tok, acct, seen>>
        /\ \/ /\ row[tok[p]] = "rotated"
              /\ pc' = [pc EXCEPT ![p] = "sweep"]
              /\ reason' = [reason EXCEPT ![p] = "reuse_detected"]
           \/ pc' = [pc EXCEPT ![p] = "rotate"] /\ reason' = reason
    BY <1>3 DEF LockCurrent, RowLocked, Reused
  <2>2. TokenOK'
    BY <1>1, <2>1 DEF TokenOK, ShownOK
  <2>3. SeenOK'
    BY <1>1, <2>1 DEF SeenOK
  <2>4. ShownOK'
    <3>1. \A q \in Requests : /\ Rotating(q)' => Rotating(q)
                              /\ pc'[q] = "lock" => pc[q] = "lock"
      BY <2>1
    <3> QED
      BY <1>1, <2>1, <3>1 DEF ShownOK
  <2>5. SweptStayRevoked' /\ NoFalseAlarm'
    BY <1>1 DEF SweptStayRevoked, NoFalseAlarm
  <2> QED
    BY <2>2, <2>3, <2>4, <2>5
<1> QED
  BY <1>2, <1>3

\* Another request that waits for the row being rotated presented its token too.
LEMMA RotateBlame ==
  ASSUME TypeOK, Blame, LockOK, NEW p \in Requests, Rotate(p) PROVE Blame'
<1> USE SessionsAssumption DEF TypeOK, Blame
<1> DEFINE s == tok[p]
<1>1. s \in Sessions /\ row[s] = "live" /\ s \in shown /\ Rotating(p)
  BY DEF Rotate, LockOK, TokenOK, Rotating
<1> PICK n \in Sessions : /\ row[n] = "absent"
                          /\ row' = [row EXCEPT ![s] = "rotated", ![n] = "live"]
  BY DEF Rotate
<1>2. End(p) /\ UNCHANGED pastVars
  BY DEF Rotate
<1>3. \A x \in Sessions : /\ row[x] # "absent" => row'[x] # "absent"
                          /\ x # s /\ row'[x] = "rotated" => row[x] = "rotated"
                          /\ row[x] \in Revoked => row'[x] = row[x]
  BY <1>1 DEF Revoked, SweepReasons
<1>4. \A q \in Requests : Rotating(q) => tok[q] \in Sessions
  BY DEF TokenOK
<1>5. TokenOK'
  BY <1>2, <1>3, <1>4 DEF TokenOK, End, pastVars, Rotating, Sweeping
<1>6. SeenOK'
  BY <1>2, <1>3 DEF SeenOK, End
<1>7. ShownOK'
  <2>1. \A x \in Sessions : row'[x] = "rotated" => x \in shown
    BY <1>1, <1>3 DEF ShownOK
  <2>2. \A q \in Requests : pc'[q] = "lock" /\ row'[tok'[q]] = "rotated" => tok[q] \in shownAgain
    BY <1>1, <1>2, <1>3, <1>4 DEF ShownOK, End, Rotating
  <2>3. \A q, r \in Requests :
           q # r /\ Rotating(q)' /\ Rotating(r)' /\ tok'[q] = tok'[r] => tok[q] \in shownAgain
    BY <1>2 DEF ShownOK, End, Rotating
  <2> QED
    BY <1>2, <2>1, <2>2, <2>3 DEF ShownOK, End, pastVars, Rotating
<1>8. SweptStayRevoked'
  BY <1>2, <1>3 DEF SweptStayRevoked, pastVars
<1>9. NoFalseAlarm'
  <2>1. \A x \in Sessions : row'[x] = "reuse_detected" => row[x] = "reuse_detected"
    BY <1>1
  <2> QED
    BY <1>2, <2>1 DEF NoFalseAlarm, pastVars
<1> QED
  BY <1>5, <1>6, <1>7, <1>8, <1>9

LEMMA SweepBlame ==
  ASSUME TypeOK, Blame, NEW p \in Requests, UpdatePassword(p) \/ RevokeAllStart(p)
  PROVE Blame'
<1> USE SessionsAssumption
    DEF TypeOK, Blame, UpdatePassword, RevokeAllStart, rowVars, pastVars, Rotating, Sweeping
<1>1. TokenOK'
  BY DEF TokenOK
<1>2. SeenOK'
  BY DEF SeenOK
<1>3. ShownOK'
  BY DEF ShownOK
<1>4. SweptStayRevoked' /\ NoFalseAlarm'
  BY DEF SweptStayRevoked, NoFalseAlarm
<1> QED
  BY <1>1, <1>2, <1>3, <1>4

LEMMA RevokeBlame ==
  ASSUME TypeOK, Blame, NEW p \in Requests, RevokeAllCommit(p) PROVE Blame'
<1> USE SessionsAssumption DEF TypeOK, Blame
<1>1. reason[p] \in SweepReasons
  BY DEF RevokeAllCommit, RevokedRows, SweptRows, MarkedUsed, TokenOK, Sweeping
<1>2. End(p) /\ UNCHANGED <<shown, shownAgain>> /\ swept' = swept \union seen[p]
  BY DEF RevokeAllCommit, RevokedRows, SweptRows, MarkedUsed
<1>3. \A x \in Sessions :
         \/ row'[x] = row[x] /\ (x \in seen[p] => row[x] # "live")
         \/ x \in seen[p] /\ row[x] = "live" /\ row'[x] = reason[p]
  BY DEF RevokeAllCommit, RevokedRows, SweptRows, MarkedUsed
<1>4. \A x \in Sessions : /\ row[x] # "absent" => row'[x] # "absent"
                          /\ row'[x] = "rotated" => row[x] = "rotated"
                          /\ row[x] \in Revoked => row'[x] = row[x]
  BY <1>1, <1>3 DEF Revoked, SweepReasons
<1>5. \A q \in Requests : Rotating(q) => tok[q] \in Sessions
  BY DEF TokenOK
<1>6. TokenOK'
  BY <1>2, <1>4, <1>5 DEF TokenOK, End, Rotating, Sweeping
<1>7. SeenOK'
  BY <1>2, <1>4 DEF SeenOK, End
<1>8. ShownOK'
  BY <1>2, <1>4, <1>5 DEF ShownOK, End, Rotating
<1>9. SweptStayRevoked'
  <2>1. \A x \in seen[p] : row'[x] \in Revoked
    BY <1>1, <1>3 DEF SeenOK, Revoked
  <2> QED
    BY <1>2, <1>4, <2>1 DEF SweptStayRevoked
<1>10. NoFalseAlarm'
  <2>1. reason[p] = "reuse_detected" => \A x \in seen[p] : \E t \in shownAgain : Owner[t] = Owner[x]
    BY DEF TokenOK, SeenOK
  <2> QED
    BY <1>2, <1>3, <2>1 DEF NoFalseAlarm
<1> QED
  BY <1>6, <1>7, <1>8, <1>9, <1>10

LEMMA BlameStep == TypeOK /\ Blame /\ LockOK /\ [Next]_vars => Blame'
<1> SUFFICES ASSUME TypeOK, Blame, LockOK, [Next]_vars PROVE Blame'
  OBVIOUS
<1>1. CASE UNCHANGED vars
  BY <1>1 DEF vars, rowVars, requestVars, pastVars, Blame, TokenOK, SeenOK, ShownOK,
              SweptStayRevoked, NoFalseAlarm, Rotating, Sweeping
<1>2. ASSUME NEW u \in Users, CreateSession(u) PROVE Blame'
  BY <1>2, CreateBlame
<1>3. ASSUME NEW p \in Requests, Request(p) PROVE Blame'
  <2>1. CASE Rollback(p)
    BY <2>1, EndBlame DEF Rollback, rowVars
  <2> QED
    BY <1>3, <2>1, RefreshBlame, BeginBlame, LockBlame, RotateBlame, SweepBlame, RevokeBlame
    DEF Request
<1> QED
  BY <1>1, <1>2, <1>3 DEF Next

-----------------------------------------------------------------------------
(* Password resets.                                                        *)

LEMMA ResetStep == TypeOK /\ TokenOK /\ ResetOnce /\ [Next]_vars => ResetOnce'
<1> SUFFICES ASSUME TypeOK, TokenOK, ResetOnce, [Next]_vars PROVE ResetOnce'
  OBVIOUS
<1> USE SessionsAssumption DEF TypeOK
<1> DEFINE Used(u) == {r \in ResetTokens : ResetOwner[r] = u /\ resetToken[r] = "used"}
<1>1. CASE UNCHANGED <<resetToken, pass>>
  BY <1>1 DEF ResetOnce
<1>2. ASSUME NEW p \in Requests, RevokeAllCommit(p), reason[p] = "password_reset"
      PROVE ResetOnce'
  <2> DEFINE r == tok[p]
  <2>1. /\ r \in ResetTokens
        /\ acct[p] = ResetOwner[r]
        /\ resetToken[r] = "active"
        /\ resetToken' = [resetToken EXCEPT ![r] = "used"]
        /\ pass' = [pass EXCEPT ![acct[p]] = @ + 1]
    BY <1>2 DEF RevokeAllCommit, RevokedRows, SweptRows, MarkedUsed, TokenOK
  <2> SUFFICES ASSUME NEW u \in Users PROVE pass'[u] = Cardinality(Used(u)')
    BY DEF ResetOnce
  <2>2. pass[u] = Cardinality(Used(u))
    BY DEF ResetOnce
  <2>3. CASE u = acct[p]
    <3>1. Used(u)' = Used(u) \union {r} /\ r \notin Used(u)
      BY <2>1, <2>3
    <3>2. IsFiniteSet(Used(u))
      BY FS_Subset
    <3>3. Cardinality(Used(u) \union {r}) = Cardinality(Used(u)) + 1
      BY <3>1, <3>2, FS_AddElement
    <3> QED
      BY <2>1, <2>2, <2>3, <3>1, <3>3
  <2>4. CASE u # acct[p]
    <3>1. Used(u)' = Used(u)
      BY <2>1, <2>4
    <3> QED
      BY <2>1, <2>2, <2>4, <3>1
  <2> QED
    BY <2>3, <2>4
<1>3. ASSUME NEW p \in Requests, RevokeAllCommit(p), reason[p] # "password_reset"
      PROVE UNCHANGED <<resetToken, pass>>
  BY <1>3 DEF RevokeAllCommit, RevokedRows, SweptRows, MarkedUsed
<1>4. ASSUME NEW p \in Requests, Request(p), ~RevokeAllCommit(p)
      PROVE UNCHANGED <<resetToken, pass>>
  BY <1>4 DEF Request, RefreshToken, Logout, LockCurrent, Rotate, ConfirmPasswordReset, Begin,
              UpdatePassword, RevokeAllStart, Rollback, resetVars
<1>5. ASSUME NEW u \in Users, CreateSession(u) PROVE UNCHANGED <<resetToken, pass>>
  BY <1>5 DEF CreateSession, resetVars
<1>6. UNCHANGED vars => UNCHANGED <<resetToken, pass>>
  BY DEF vars, resetVars
<1> QED
  BY <1>1, <1>2, <1>3, <1>4, <1>5, <1>6 DEF Next

-----------------------------------------------------------------------------
(* The theorems.                                                           *)

\* IInv holds in every reachable state.
THEOREM Inductive == Spec => []IInv
<1>1. IInv /\ [Next]_vars => IInv'
  BY TypeStep, ChainsStep, BlameStep, ResetStep DEF IInv, Chains, Blame
<1> QED
  BY <1>1, InitIInv, PTL DEF Spec

\* The variables keep their types.
THEOREM TypeCorrect == Spec => []TypeOK
<1>1. IInv => TypeOK
  BY DEF IInv
<1> QED
  BY <1>1, Inductive, PTL

\* A login never has two valid refresh tokens.
THEOREM OneValidTokenHolds == Spec => []OneValidToken
<1>1. IInv => OneValidToken
  BY DEF IInv, Chains
<1> QED
  BY <1>1, Inductive, PTL

\* A token is used up exactly if its successor was committed with it.
THEOREM RotationIsAtomic == Spec => []RotatedHasSuccessor
<1>1. IInv => RotatedHasSuccessor
  BY DEF IInv, Chains
<1> QED
  BY <1>1, Inductive, PTL

\* What a reported revocation looked at is revoked for good.
THEOREM SweptStayRevokedHolds == Spec => []SweptStayRevoked
<1>1. IInv => SweptStayRevoked
  BY DEF IInv, Blame
<1> QED
  BY <1>1, Inductive, PTL

\* Reuse detection has no false alarms.
THEOREM NoFalseAlarmHolds == Spec => []NoFalseAlarm
<1>1. IInv => NoFalseAlarm
  BY DEF IInv, Blame
<1> QED
  BY <1>1, Inductive, PTL

\* A reset token changes the password once.
THEOREM ResetOnceHolds == Spec => []ResetOnce
<1>1. IInv => ResetOnce
  BY DEF IInv
<1> QED
  BY <1>1, Inductive, PTL

\* A revoked session stays as it is.
THEOREM RevokedIsFinalHolds == Spec => RevokedIsFinal
<1> DEFINE A == \A s \in Sessions : row[s] \in Revoked => row'[s] = row[s] /\ next'[s] = next[s]
<1>1. IInv /\ [Next]_vars => [A]_vars
  <2> SUFFICES ASSUME IInv, Next, NEW s \in Sessions, row[s] \in Revoked
               PROVE row'[s] = row[s] /\ next'[s] = next[s]
    OBVIOUS
  <2> USE DEF IInv, TypeOK, Revoked, SweepReasons
  <2>1. ASSUME NEW u \in Users, CreateSession(u) PROVE row'[s] = row[s] /\ next'[s] = next[s]
    BY <2>1 DEF CreateSession
  <2>2. ASSUME NEW p \in Requests, Rotate(p) PROVE row'[s] = row[s] /\ next'[s] = next[s]
    <3>1. row[tok[p]] = "live"
      BY <2>2 DEF Rotate, LockOK, Chains
    <3> QED
      BY <2>2, <3>1 DEF Rotate
  <2>3. ASSUME NEW p \in Requests, RevokeAllCommit(p)
        PROVE row'[s] = row[s] /\ next'[s] = next[s]
    BY <2>3 DEF RevokeAllCommit, RevokedRows, SweptRows, MarkedUsed
  <2>4. ASSUME NEW p \in Requests, Request(p), ~Rotate(p), ~RevokeAllCommit(p)
        PROVE UNCHANGED rowVars
    BY <2>4 DEF Request, RefreshToken, Logout, LockCurrent, ConfirmPasswordReset, Begin,
                UpdatePassword, RevokeAllStart, Rollback
  <2> QED
    BY <2>1, <2>2, <2>3, <2>4 DEF Next, rowVars
<1>2. Spec => [][A]_vars
  BY <1>1, Inductive, PTL DEF Spec
<1> QED
  BY <1>2 DEF RevokedIsFinal

=============================================================================
