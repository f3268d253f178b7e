--------------------------- MODULE Gateway_proofs ---------------------------
(***************************************************************************)
(* Proofs about what stands before an operation on an organization, for    *)
(* any people, organizations, keys, slugs, limits and number of requests:  *)
(* routes address one organization each, although no lock is held between  *)
(* looking a slug up and writing it; what was done was done by right, and  *)
(* revocation is final; the owner stays and roles come from invitations;   *)
(* and neither rate limiter lets more through than its budget.             *)
(***************************************************************************)
EXTENDS RateLimiter, OrgAccess, OrgDirectory, OrgMembership, FiniteSetTheorems, TLAPS

-----------------------------------------------------------------------------
(* The directory of organizations.                                         *)

\* What a request has in hand at each of its steps.
EditsShaped ==
    \A e \in Editors : edit[e] # Idle =>
        /\ edit[e].step # "find" => edit[e].row \in OrgRows
        /\ edit[e].step \in {"find", "role", "save"} => edit[e].org \in Tenants
        /\ edit[e].step = "free" => edit[e].want \in Slugs

\* No two organizations have the same slug.
SlugsUnique ==
    \A o, p \in Tenants :
        org[o] # NoOrg /\ org[p] # NoOrg /\ org[o].slug = org[p].slug => o = p

DirectoryShape == DirectoryTypeOK /\ EditsShaped /\ SlugsUnique

\* What will be written is what was asked for; and a copy of a row, until somebody
\* else saves the row, agrees with it in the columns left alone.
CopiesTrue ==
    \A e \in Editors : edit[e] # Idle =>
        LET r == edit[e] IN
        /\ r.step = "candidate" => r.want = Same
        /\ r.step \in {"candidate", "insert"} \/ (r.step = "free" /\ r.org = NoOrg) =>
              r.row.name = r.rename /\ (r.want # Same => r.row.slug = r.want)
        /\ \A o \in Tenants : HoldsCopy(e, o) =>
              /\ org[o] # NoOrg
              /\ o \notin overlapped =>
                    /\ r.row.name = IF r.step = "role" \/ r.rename = Same THEN org[o].name
                                    ELSE r.rename
                    /\ r.row.slug = IF r.step = "save" /\ r.want # Same THEN r.want
                                    ELSE org[o].slug

\* The row is the one of the last answer.
AnswersTrue ==
    \A o \in Tenants :
        /\ org[o] # NoOrg <=> told[o] # NoOrg
        /\ org[o] # NoOrg /\ o \notin overlapped =>
              org[o].name = told[o].name /\ org[o].slug = told[o].slug

DirectoryInv == DirectoryShape /\ CopiesTrue /\ AnswersTrue

\* A request that asks for nothing but to keep what a row has is answered with it.
LEMMA AskedTyped ==
    ASSUME NEW r \in Edits, NEW b, b \in OrgRows \/ b \in Answers
    PROVE  Asked(r, b) \in Answers
BY DEF Asked, Edits, OrgRows, Answers

LEMMA RowFacts == NoOrg \notin OrgRows /\ NoOrg \notin Answers /\ NoOrg \notin Tenants /\ Same \notin Slugs /\ Same \notin Names
BY DirectoryAssumption DEF OrgRows, Answers

LEMMA DirectoryInitInv == DirectoryInit => DirectoryInv
BY DirectoryAssumption
DEF DirectoryInit, DirectoryInv, DirectoryShape, CopiesTrue, AnswersTrue, DirectoryTypeOK,
    EditsShaped, SlugsUnique, Idle

\* A request that is under way has all its fields.
LEMMA EditFacts ==
    ASSUME DirectoryTypeOK, NEW e \in Editors, edit[e] # Idle
    PROVE  edit[e] \in Edits
BY DEF DirectoryTypeOK

\* The requests stay typed and shaped when one of them goes on, or ends.
LEMMA AdvanceStep ==
    ASSUME DirectoryTypeOK, EditsShaped, NEW e \in Editors, NEW r \in Edits, Advance(e, r),
           r.step # "find" => r.row \in OrgRows,
           r.step \in {"find", "role", "save"} => r.org \in Tenants,
           r.step = "free" => r.want \in Slugs
    PROVE  edit' \in [Editors -> Edits \union {Idle}] /\ EditsShaped'
BY DEF DirectoryTypeOK, EditsShaped, Advance

LEMMA EndStep ==
    ASSUME DirectoryTypeOK, EditsShaped, NEW e \in Editors, edit' = [edit EXCEPT ![e] = Idle]
    PROVE  edit' \in [Editors -> Edits \union {Idle}] /\ EditsShaped'
BY DEF DirectoryTypeOK, EditsShaped

\* A row that the unique index admits keeps the slugs unique.
LEMMA IndexedStep ==
    ASSUME DirectoryTypeOK, SlugsUnique, NEW o \in Tenants, NEW row \in OrgRows,
           UniqueIndex(row.slug, o), org' = [org EXCEPT ![o] = row]
    PROVE  org' \in [Tenants -> OrgRows \union {NoOrg}] /\ SlugsUnique'
<1>1. \A p \in Tenants \ {o} : org[p] # NoOrg => org[p].slug # row.slug
  BY DEF UniqueIndex, Carry
<1>2. org' \in [Tenants -> OrgRows \union {NoOrg}]
  BY DEF DirectoryTypeOK
<1>3. \A p \in Tenants : org'[p] = IF p = o THEN row ELSE org[p]
  BY DEF DirectoryTypeOK
<1> QED
  BY <1>1, <1>2, <1>3 DEF SlugsUnique

-----------------------------------------------------------------------------

LEMMA CreateStep ==
    ASSUME DirectoryInv, NEW e \in Editors, NEW n \in Names, NEW s \in Slugs \union {Same},
           CreateOrganization(e, n, s)
    PROVE  DirectoryShape'
<1> DEFINE r == [step |-> IF s = Same THEN "candidate" ELSE "free", org |-> NoOrg,
                 row |-> [name |-> n, slug |-> IF s = Same THEN SlugOf[n] ELSE s, by |-> e],
                 rename |-> n, want |-> s, tries |-> SlugTries]
<1>1. r.row \in OrgRows
  BY DirectoryAssumption DEF OrgRows
<1>2. r \in Edits /\ r.step \in {"candidate", "free"} /\ (r.step = "free" => r.want \in Slugs)
  BY <1>1, DirectoryAssumption DEF Edits, Steps
<1>3. Advance(e, r) /\ UNCHANGED <<org, manager, seenDirVars>> /\ edits' = edits + 1 /\ edits < MaxEdits
  BY DEF CreateOrganization, BeginEdit
<1> HIDE DEF r
<1>4. edit' \in [Editors -> Edits \union {Idle}] /\ EditsShaped'
  BY <1>1, <1>2, <1>3, AdvanceStep DEF DirectoryInv, DirectoryShape
<1> QED
  BY <1>3, <1>4, DirectoryAssumption DEF DirectoryInv, DirectoryShape, DirectoryTypeOK, SlugsUnique, seenDirVars

LEMMA CandidateStep ==
    ASSUME DirectoryInv, NEW e \in Editors, TryCandidate(e)
    PROVE  DirectoryShape'
<1>1. edit[e] \in Edits /\ edit[e].row \in OrgRows
  BY EditFacts DEF TryCandidate, DirectoryInv, DirectoryShape, EditsShaped
<1>2. \/ Advance(e, [edit[e] EXCEPT !.step = "insert"])
      \/ Answer409(e)
      \/ /\ edit[e].tries > 1
         /\ \E s \in Slugs : Advance(e, [edit[e] EXCEPT !.row.slug = s, !.tries = @ - 1])
  <2>1. edit[e].tries \in Nat /\ SlugOf[edit[e].row.name] \in Slugs
    BY <1>1, DirectoryAssumption DEF Edits, OrgRows
  <2>2. \A s \in Suffixed[SlugOf[edit[e].row.name]] : s \in Slugs
    BY <2>1, DirectoryAssumption
  <2>3. edit[e].tries <= 1 \/ edit[e].tries > 1
    BY <2>1
  <2> QED
    BY <2>2, <2>3 DEF TryCandidate
<1>3. CASE Answer409(e)
  <2>1. edit' \in [Editors -> Edits \union {Idle}] /\ EditsShaped'
    BY <1>3, EndStep DEF Answer409, DirectoryInv, DirectoryShape
  <2> QED
    BY <2>1 DEF TryCandidate, DirectoryInv, DirectoryShape, DirectoryTypeOK, SlugsUnique, seenDirVars
<1>4. CASE Advance(e, [edit[e] EXCEPT !.step = "insert"])
  <2> DEFINE r == [edit[e] EXCEPT !.step = "insert"]
  <2>1. r \in Edits /\ r.step = "insert" /\ r.row \in OrgRows
    BY <1>1 DEF Edits, Steps
  <2> HIDE DEF r
  <2>2. Advance(e, r)
    BY <1>4 DEF r
  <2>3. edit' \in [Editors -> Edits \union {Idle}] /\ EditsShaped'
    BY <2>1, <2>2, AdvanceStep DEF DirectoryInv, DirectoryShape
  <2> QED
    BY <2>3 DEF TryCandidate, DirectoryInv, DirectoryShape, DirectoryTypeOK, SlugsUnique, seenDirVars
<1>5. ASSUME NEW s \in Slugs, edit[e].tries > 1,
             Advance(e, [edit[e] EXCEPT !.row.slug = s, !.tries = @ - 1])
      PROVE  DirectoryShape'
  <2> DEFINE r == [edit[e] EXCEPT !.row.slug = s, !.tries = @ - 1]
  <2>1. [edit[e].row EXCEPT !.slug = s] \in OrgRows
    BY <1>1 DEF OrgRows
  <2>2. edit[e].tries - 1 \in 0..SlugTries
    BY <1>1, <1>5, DirectoryAssumption, SMTT(30) DEF Edits
  <2>3. r \in Edits /\ r.step = "candidate" /\ r.row \in OrgRows
    BY <1>1, <2>1, <2>2 DEF Edits, TryCandidate
  <2> HIDE DEF r
  <2>4. Advance(e, r)
    BY <1>5 DEF r
  <2>5. edit' \in [Editors -> Edits \union {Idle}] /\ EditsShaped'
    BY <2>3, <2>4, AdvanceStep DEF DirectoryInv, DirectoryShape
  <2> QED
    BY <2>5 DEF TryCandidate, DirectoryInv, DirectoryShape, DirectoryTypeOK, SlugsUnique, seenDirVars
<1> QED
  BY <1>2, <1>3, <1>4, <1>5

LEMMA CheckSlugStep ==
    ASSUME DirectoryInv, NEW e \in Editors, CheckSlug(e)
    PROVE  DirectoryShape'
<1>1. /\ edit[e] \in Edits /\ edit[e].row \in OrgRows /\ edit[e].want \in Slugs
      /\ edit[e].org \in Tenants \union {NoOrg}
  BY EditFacts DEF CheckSlug, DirectoryInv, DirectoryShape, EditsShaped, Edits
<1> DEFINE next == IF edit[e].org = NoOrg THEN "insert" ELSE "save"
           r == [edit[e] EXCEPT !.row.slug = edit[e].want, !.step = next]
<1>2. Answer409(e) \/ Advance(e, r)
  BY DEF CheckSlug
<1>3. CASE Answer409(e)
  <2>1. edit' \in [Editors -> Edits \union {Idle}] /\ EditsShaped'
    BY <1>3, EndStep DEF Answer409, DirectoryInv, DirectoryShape
  <2> QED
    BY <2>1 DEF CheckSlug, DirectoryInv, DirectoryShape, DirectoryTypeOK, SlugsUnique, seenDirVars
<1>4. CASE Advance(e, r)
  <2>1. [edit[e].row EXCEPT !.slug = edit[e].want] \in OrgRows
    BY <1>1 DEF OrgRows
  <2>2. r \in Edits /\ r.step \in {"insert", "save"} /\ r.row \in OrgRows
    BY <1>1, <2>1 DEF Edits, Steps
  <2>3. r.step = "save" => r.org \in Tenants
    BY <1>1 DEF Edits
  <2> HIDE DEF r
  <2>4. edit' \in [Editors -> Edits \union {Idle}] /\ EditsShaped'
    BY <1>4, <2>2, <2>3, AdvanceStep DEF DirectoryInv, DirectoryShape
  <2> QED
    BY <2>4 DEF CheckSlug, DirectoryInv, DirectoryShape, DirectoryTypeOK, SlugsUnique, seenDirVars
<1> QED
  BY <1>2, <1>3, <1>4

LEMMA InsertStep ==
    ASSUME DirectoryInv, NEW e \in Editors, CreateWithOwnerMembership(e)
    PROVE  DirectoryShape'
<1>1. edit[e].row \in OrgRows
  BY DEF CreateWithOwnerMembership, DirectoryInv, DirectoryShape, EditsShaped
<1>2. PICK o \in Tenants : /\ UniqueIndex(edit[e].row.slug, o)
                           /\ org' = [org EXCEPT ![o] = edit[e].row]
                           /\ manager' = [manager EXCEPT ![o] = {e}]
                           /\ told' = [told EXCEPT ![o] = Asked(edit[e], edit[e].row)]
  BY DEF CreateWithOwnerMembership
<1>3. org' \in [Tenants -> OrgRows \union {NoOrg}] /\ SlugsUnique'
  BY <1>1, <1>2, IndexedStep DEF DirectoryInv, DirectoryShape
<1>4. edit' \in [Editors -> Edits \union {Idle}] /\ EditsShaped'
  BY EndStep DEF CreateWithOwnerMembership, DirectoryInv, DirectoryShape
<1>5. told' \in [Tenants -> Answers \union {NoOrg}]
  <2>1. Asked(edit[e], edit[e].row) \in Answers
    BY <1>1, EditFacts, AskedTyped DEF CreateWithOwnerMembership, DirectoryInv, DirectoryShape
  <2> QED
    BY <1>2, <2>1 DEF DirectoryInv, DirectoryShape, DirectoryTypeOK
<1> QED
  BY <1>2, <1>3, <1>4, <1>5 DEF CreateWithOwnerMembership, DirectoryInv, DirectoryShape, DirectoryTypeOK

LEMMA UpdateStep ==
    ASSUME DirectoryInv, NEW e \in Editors, NEW path \in Slugs,
           NEW n \in Names \union {Same}, NEW s \in Slugs \union {Same},
           UpdateOrganization(e, path, n, s)
    PROVE  DirectoryShape'
<1>1. PICK o \in Tenants :
          BeginEdit(e, [step |-> "find", org |-> o, row |-> NoOrg, rename |-> n, want |-> s, tries |-> 0])
  BY DEF UpdateOrganization, Resolved, Carry
<1> DEFINE r == [step |-> "find", org |-> o, row |-> NoOrg, rename |-> n, want |-> s, tries |-> 0]
<1>2. r \in Edits /\ r.step = "find" /\ r.org \in Tenants
  BY DirectoryAssumption DEF Edits, Steps
<1>3. Advance(e, r) /\ UNCHANGED <<org, manager, seenDirVars>> /\ edits' = edits + 1 /\ edits < MaxEdits
  BY <1>1 DEF BeginEdit
<1> HIDE DEF r
<1>4. edit' \in [Editors -> Edits \union {Idle}] /\ EditsShaped'
  BY <1>2, <1>3, AdvanceStep DEF DirectoryInv, DirectoryShape
<1> QED
  BY <1>3, <1>4, DirectoryAssumption DEF DirectoryInv, DirectoryShape, DirectoryTypeOK, SlugsUnique, seenDirVars

LEMMA FindStep ==
    ASSUME DirectoryInv, NEW e \in Editors, FindForUpdate(e)
    PROVE  DirectoryShape'
<1>1. edit[e] \in Edits /\ edit[e].org \in Tenants
  BY EditFacts DEF FindForUpdate, DirectoryInv, DirectoryShape, EditsShaped
<1> DEFINE r == [edit[e] EXCEPT !.step = "role", !.row = org[edit[e].org]]
<1>2. org[edit[e].org] \in OrgRows
  BY <1>1 DEF FindForUpdate, DirectoryInv, DirectoryShape, DirectoryTypeOK
<1>3. r \in Edits /\ r.step = "role" /\ r.row \in OrgRows /\ r.org \in Tenants
  BY <1>1, <1>2 DEF Edits, Steps
<1>4. Advance(e, r)
  BY DEF FindForUpdate
<1> HIDE DEF r
<1>5. edit' \in [Editors -> Edits \union {Idle}] /\ EditsShaped'
  BY <1>3, <1>4, AdvanceStep DEF DirectoryInv, DirectoryShape
<1> QED
  BY <1>5 DEF FindForUpdate, DirectoryInv, DirectoryShape, DirectoryTypeOK, SlugsUnique, seenDirVars

LEMMA ManagerStep ==
    ASSUME DirectoryInv, NEW e \in Editors, CheckManager(e)
    PROVE  DirectoryShape'
<1>1. edit[e] \in Edits /\ edit[e].row \in OrgRows /\ edit[e].org \in Tenants
  BY EditFacts DEF CheckManager, DirectoryInv, DirectoryShape, EditsShaped
<1> DEFINE next == IF edit[e].want \in {Same, edit[e].row.slug} THEN "save" ELSE "free"
           name == IF edit[e].rename = Same THEN edit[e].row.name ELSE edit[e].rename
           r == [edit[e] EXCEPT !.step = next, !.row.name = name]
<1>2. [edit[e].row EXCEPT !.name = name] \in OrgRows
  BY <1>1 DEF OrgRows, Edits
<1>3. r \in Edits /\ r.step = next /\ r.row \in OrgRows /\ r.org \in Tenants
  BY <1>1, <1>2 DEF Edits, Steps
<1>4. r.step = "free" => r.want \in Slugs
  BY <1>1, <1>3 DEF Edits
<1>5. Advance(e, r)
  BY <1>1 DEF CheckManager, OrgRows, Edits
<1> HIDE DEF r
<1>6. edit' \in [Editors -> Edits \union {Idle}] /\ EditsShaped'
  BY <1>3, <1>4, <1>5, AdvanceStep DEF DirectoryInv, DirectoryShape
<1> QED
  BY <1>6 DEF CheckManager, DirectoryInv, DirectoryShape, DirectoryTypeOK, SlugsUnique, seenDirVars

LEMMA SaveRowStep ==
    ASSUME DirectoryInv, NEW e \in Editors, SaveOrganization(e)
    PROVE  DirectoryShape'
<1>1. edit[e].row \in OrgRows /\ edit[e].org \in Tenants
  BY DEF SaveOrganization, DirectoryInv, DirectoryShape, EditsShaped
<1>2. org' \in [Tenants -> OrgRows \union {NoOrg}] /\ SlugsUnique'
  BY <1>1, IndexedStep DEF SaveOrganization, DirectoryInv, DirectoryShape
<1>3. edit' \in [Editors -> Edits \union {Idle}] /\ EditsShaped'
  BY EndStep DEF SaveOrganization, DirectoryInv, DirectoryShape
<1>4. PICK o \in Tenants : o = edit[e].org
  BY <1>1
<1>5. told' \in [Tenants -> Answers \union {NoOrg}]
  <2>1. HoldsCopy(e, o)
    BY <1>4 DEF HoldsCopy, SaveOrganization
  <2>2. told[o] \in Answers
    BY <1>4, <2>1 DEF SaveOrganization, DirectoryInv, DirectoryShape, CopiesTrue, AnswersTrue,
                      DirectoryTypeOK
  <2>3. Asked(edit[e], told[o]) \in Answers
    BY <2>2, EditFacts, AskedTyped DEF SaveOrganization, DirectoryInv, DirectoryShape
  <2>4. told' = [told EXCEPT ![o] = Asked(edit[e], told[o])]
    BY <1>4 DEF SaveOrganization
  <2> QED
    BY <2>3, <2>4 DEF DirectoryInv, DirectoryShape, DirectoryTypeOK
<1>6. overlapped' \subseteq Tenants
  BY <1>1 DEF SaveOrganization, DirectoryInv, DirectoryShape, DirectoryTypeOK
<1> QED
  BY <1>2, <1>3, <1>5, <1>6 DEF SaveOrganization, DirectoryInv, DirectoryShape, DirectoryTypeOK

LEMMA OtherStep ==
    ASSUME DirectoryInv, NEW e \in Editors,
           RefuseEdit(e) \/ (\E o \in Tenants : ChangeManager(o, e)) \/ UNCHANGED dirVars
    PROVE  DirectoryShape'
<1>1. CASE RefuseEdit(e)
  <2>1. edit' \in [Editors -> Edits \union {Idle}] /\ EditsShaped'
    BY <1>1, EndStep DEF RefuseEdit, DirectoryInv, DirectoryShape
  <2> QED
    BY <1>1, <2>1 DEF RefuseEdit, DirectoryInv, DirectoryShape, DirectoryTypeOK, SlugsUnique, seenDirVars
<1>2. ASSUME NEW o \in Tenants, ChangeManager(o, e) PROVE DirectoryShape'
  <2>1. manager' \in [Tenants -> SUBSET Editors]
    BY <1>2 DEF ChangeManager, DirectoryInv, DirectoryShape, DirectoryTypeOK
  <2> QED
    BY <1>2, <2>1, DirectoryAssumption
    DEF ChangeManager, DirectoryInv, DirectoryShape, DirectoryTypeOK, EditsShaped, SlugsUnique, seenDirVars
<1>3. CASE UNCHANGED dirVars
  BY <1>3 DEF dirVars, seenDirVars, DirectoryInv, DirectoryShape, DirectoryTypeOK, EditsShaped, SlugsUnique
<1> QED
  BY <1>1, <1>2, <1>3

-----------------------------------------------------------------------------

\* A step of one request that writes no row leaves what is known of the others.
LEMMA OthersTrue ==
    ASSUME DirectoryInv, NEW e \in Editors, UNCHANGED <<org, told, overlapped>>,
           \A f \in Editors \ {e} : edit'[f] = edit[f],
           edit'[e] # Idle =>
               /\ edit'[e].step = "candidate" => edit'[e].want = Same
               /\ \/ edit'[e].step \in {"candidate", "insert"}
                  \/ edit'[e].step = "free" /\ edit'[e].org = NoOrg
                  => /\ edit'[e].row.name = edit'[e].rename
                     /\ edit'[e].want # Same => edit'[e].row.slug = edit'[e].want
               /\ \A o \in Tenants :
                     edit'[e].step \in {"role", "free", "save"} /\ edit'[e].org = o =>
                        /\ org[o] # NoOrg
                        /\ o \notin overlapped =>
                              /\ edit'[e].row.name =
                                     IF edit'[e].step = "role" \/ edit'[e].rename = Same
                                     THEN org[o].name ELSE edit'[e].rename
                              /\ edit'[e].row.slug =
                                     IF edit'[e].step = "save" /\ edit'[e].want # Same
                                     THEN edit'[e].want ELSE org[o].slug
    PROVE  CopiesTrue' /\ AnswersTrue'
<1>1. AnswersTrue'
  BY DEF DirectoryInv, AnswersTrue
<1>2. CopiesTrue'
  BY DEF DirectoryInv, CopiesTrue, HoldsCopy, Idle
<1> QED
  BY <1>1, <1>2

\* A request that begins, is refused or goes on without writing.
LEMMA QuietTrue ==
    ASSUME DirectoryInv, NEW e \in Editors,
           \/ \E n \in Names, s \in Slugs \union {Same} : CreateOrganization(e, n, s)
           \/ \E path \in Slugs, n \in Names \union {Same}, s \in Slugs \union {Same} :
                 UpdateOrganization(e, path, n, s)
           \/ RefuseEdit(e)
           \/ \E o \in Tenants : ChangeManager(o, e)
    PROVE  CopiesTrue' /\ AnswersTrue'
<1> USE RowFacts DEF DirectoryInv, DirectoryShape, DirectoryTypeOK
<1>1. ASSUME NEW n \in Names, NEW s \in Slugs \union {Same}, CreateOrganization(e, n, s)
      PROVE  CopiesTrue' /\ AnswersTrue'
  <2>1. /\ UNCHANGED <<org, told, overlapped>> /\ \A f \in Editors \ {e} : edit'[f] = edit[f]
        /\ edit'[e] = [step |-> IF s = Same THEN "candidate" ELSE "free", org |-> NoOrg,
                       row |-> [name |-> n, slug |-> IF s = Same THEN SlugOf[n] ELSE s, by |-> e],
                       rename |-> n, want |-> s, tries |-> SlugTries]
    BY <1>1 DEF CreateOrganization, BeginEdit, Advance, seenDirVars
  <2> QED
    BY <2>1, OthersTrue
<1>2. ASSUME NEW path \in Slugs, NEW n \in Names \union {Same}, NEW s \in Slugs \union {Same},
             UpdateOrganization(e, path, n, s)
      PROVE  CopiesTrue' /\ AnswersTrue'
  <2>1. /\ UNCHANGED <<org, told, overlapped>> /\ \A f \in Editors \ {e} : edit'[f] = edit[f]
        /\ edit'[e].step = "find"
    BY <1>2 DEF UpdateOrganization, BeginEdit, Advance, seenDirVars
  <2> QED
    BY <2>1, OthersTrue
<1>3. CASE RefuseEdit(e)
  <2>1. /\ UNCHANGED <<org, told, overlapped>> /\ \A f \in Editors \ {e} : edit'[f] = edit[f]
        /\ edit'[e] = Idle
    BY <1>3 DEF RefuseEdit, seenDirVars
  <2> QED
    BY <2>1, OthersTrue
<1>4. ASSUME NEW o \in Tenants, ChangeManager(o, e)
      PROVE  CopiesTrue' /\ AnswersTrue'
  BY <1>4 DEF ChangeManager, seenDirVars, CopiesTrue, AnswersTrue, HoldsCopy
<1> QED
  BY <1>1, <1>2, <1>3, <1>4

\* What a request reads or checks before it writes.
LEMMA CheckedTrue ==
    ASSUME DirectoryInv, NEW e \in Editors,
           TryCandidate(e) \/ CheckSlug(e) \/ FindForUpdate(e) \/ CheckManager(e)
    PROVE  CopiesTrue' /\ AnswersTrue'
<1>1. /\ edit[e] \in Edits /\ edit[e] # Idle
      /\ UNCHANGED <<org, told, overlapped>> /\ \A f \in Editors \ {e} : edit'[f] = edit[f]
  BY EditFacts DEF DirectoryInv, DirectoryShape, DirectoryTypeOK, TryCandidate, CheckSlug,
                   FindForUpdate, CheckManager, Advance, Answer409, seenDirVars
<1>2. PICK r : r = edit[e]
  OBVIOUS
<1>3. /\ r \in Edits /\ (r.step # "find" => r.row \in OrgRows)
      /\ r.step \in {"find", "role", "save"} => r.org \in Tenants
      /\ r.step = "free" => r.want \in Slugs
  BY <1>1, <1>2 DEF DirectoryInv, DirectoryShape, EditsShaped
<1>4. /\ r.step = "candidate" => r.want = Same
      /\ r.step \in {"candidate", "insert"} \/ (r.step = "free" /\ r.org = NoOrg) =>
            r.row.name = r.rename /\ (r.want # Same => r.row.slug = r.want)
      /\ \A o \in Tenants : r.step \in {"role", "free", "save"} /\ r.org = o =>
            /\ org[o] # NoOrg
            /\ o \notin overlapped =>
                  /\ r.row.name = IF r.step = "role" \/ r.rename = Same THEN org[o].name
                                  ELSE r.rename
                  /\ r.row.slug = IF r.step = "save" /\ r.want # Same THEN r.want
                                  ELSE org[o].slug
  BY <1>1, <1>2 DEF DirectoryInv, CopiesTrue, HoldsCopy
<1>5. edit \in [Editors -> Edits \union {Idle}]
  BY DEF DirectoryInv, DirectoryShape, DirectoryTypeOK
<1>6. CASE edit'[e] = Idle
  BY <1>1, <1>6, OthersTrue
<1>7. CASE TryCandidate(e) /\ edit'[e] # Idle
  <2>1. \/ edit'[e] = [r EXCEPT !.step = "insert"]
        \/ \E s \in Suffixed[SlugOf[r.row.name]] : edit'[e] = [r EXCEPT !.row.slug = s, !.tries = @ - 1]
    BY <1>2, <1>5, <1>7 DEF TryCandidate, Advance, Answer409
  <2>2. r.step = "candidate"
    BY <1>2, <1>7 DEF TryCandidate
  <2>3. CASE edit'[e] = [r EXCEPT !.step = "insert"]
    <3>1. /\ edit'[e].step = "insert" /\ edit'[e].row = r.row /\ edit'[e].rename = r.rename
          /\ edit'[e].want = r.want
      BY <1>3, <2>3 DEF Edits
    <3> QED
      BY <1>1, <1>4, <2>2, <3>1, OthersTrue
  <2>4. ASSUME NEW s, edit'[e] = [r EXCEPT !.row.slug = s, !.tries = @ - 1]
        PROVE  CopiesTrue' /\ AnswersTrue'
    <3>1. /\ edit'[e].step = "candidate" /\ edit'[e].row.name = r.row.name
          /\ edit'[e].rename = r.rename /\ edit'[e].want = r.want
      BY <1>3, <2>2, <2>4 DEF Edits, OrgRows
    <3> QED
      BY <1>1, <1>4, <2>2, <3>1, OthersTrue
  <2> QED
    BY <2>1, <2>3, <2>4
<1>8. CASE CheckSlug(e) /\ edit'[e] # Idle
  <2>1. edit'[e] = [r EXCEPT !.row.slug = r.want,
                             !.step = IF r.org = NoOrg THEN "insert" ELSE "save"]
    BY <1>2, <1>5, <1>8 DEF CheckSlug, Advance, Answer409
  <2>2. r.step = "free" /\ r.row \in OrgRows /\ r.want # Same
    BY <1>2, <1>3, <1>8, RowFacts DEF CheckSlug
  <2>3. /\ edit'[e].step = IF r.org = NoOrg THEN "insert" ELSE "save"
        /\ edit'[e].row.name = r.row.name /\ edit'[e].row.slug = r.want
        /\ edit'[e].rename = r.rename /\ edit'[e].want = r.want /\ edit'[e].org = r.org
    BY <1>3, <2>1, <2>2 DEF Edits, OrgRows
  <2> QED
    BY <1>1, <1>4, <2>2, <2>3, RowFacts, OthersTrue
<1>9. CASE FindForUpdate(e) /\ edit'[e] # Idle
  <2>1. edit'[e] = [r EXCEPT !.step = "role", !.row = org[r.org]] /\ org[r.org] # NoOrg
    BY <1>2, <1>5, <1>9 DEF FindForUpdate, Advance
  <2>2. edit'[e].step = "role" /\ edit'[e].row = org[r.org] /\ edit'[e].org = r.org
    BY <1>3, <2>1 DEF Edits
  <2>3. \A o \in Tenants : edit'[e].org = o =>
           /\ org[o] # NoOrg
           /\ edit'[e].row.name = org[o].name /\ edit'[e].row.slug = org[o].slug
    BY <2>1, <2>2
  <2> QED
    BY <1>1, <2>2, <2>3, OthersTrue
<1>10. CASE CheckManager(e) /\ edit'[e] # Idle
  <2>1. edit'[e] = [r EXCEPT
             !.step = IF r.want \in {Same, r.row.slug} THEN "save" ELSE "free",
             !.row.name = IF r.rename = Same THEN @ ELSE r.rename]
    BY <1>2, <1>5, <1>10 DEF CheckManager, Advance
  <2>2. r.step = "role" /\ r.row \in OrgRows /\ r.org \in Tenants
    BY <1>2, <1>3, <1>10 DEF CheckManager
  <2>3. /\ edit'[e].step = IF r.want \in {Same, r.row.slug} THEN "save" ELSE "free"
        /\ edit'[e].row.name = IF r.rename = Same THEN r.row.name ELSE r.rename
        /\ edit'[e].row.slug = r.row.slug
        /\ edit'[e].rename = r.rename /\ edit'[e].want = r.want /\ edit'[e].org = r.org
    BY <1>3, <2>1, <2>2 DEF Edits, OrgRows
  <2> QED
    BY <1>1, <1>4, <2>2, <2>3, RowFacts, OthersTrue
<1> QED
  BY <1>6, <1>7, <1>8, <1>9, <1>10

\* Nobody holds a copy of an organization that is not there yet.
LEMMA InsertTrue ==
    ASSUME DirectoryInv, NEW e \in Editors, CreateWithOwnerMembership(e)
    PROVE  CopiesTrue' /\ AnswersTrue'
<1>1. PICK o \in Tenants : /\ org[o] = NoOrg
                           /\ org' = [org EXCEPT ![o] = edit[e].row]
                           /\ told' = [told EXCEPT ![o] = Asked(edit[e], edit[e].row)]
  BY DEF CreateWithOwnerMembership
<1>2. /\ edit[e] # Idle /\ edit[e].step = "insert" /\ edit[e] \in Edits /\ edit[e].row \in OrgRows
      /\ edit' = [edit EXCEPT ![e] = Idle] /\ overlapped' = overlapped
      /\ edit[e].row.name = edit[e].rename
      /\ edit[e].want # Same => edit[e].row.slug = edit[e].want
  BY EditFacts DEF CreateWithOwnerMembership, DirectoryInv, DirectoryShape, EditsShaped, CopiesTrue
<1>3. Asked(edit[e], edit[e].row) = [name |-> edit[e].row.name, slug |-> edit[e].row.slug]
  BY <1>2 DEF Asked
<1>4. \A q \in Tenants : /\ org'[q] = IF q = o THEN edit[e].row ELSE org[q]
                         /\ told'[q] = IF q = o THEN Asked(edit[e], edit[e].row) ELSE told[q]
  BY <1>1 DEF DirectoryInv, DirectoryShape, DirectoryTypeOK
<1>5. Asked(edit[e], edit[e].row) \in Answers /\ edit[e].row # NoOrg
  BY <1>2, AskedTyped, RowFacts
<1>6. AnswersTrue'
  <2>1. PICK b, w : b = Asked(edit[e], edit[e].row) /\ w = edit[e].row
    OBVIOUS
  <2>2. b # NoOrg /\ w # NoOrg /\ b.name = w.name /\ b.slug = w.slug
    BY <1>3, <1>5, <2>1, RowFacts
  <2>3. \A q \in Tenants : /\ org'[q] = IF q = o THEN w ELSE org[q]
                           /\ told'[q] = IF q = o THEN b ELSE told[q]
    BY <1>4, <2>1
  <2> QED
    BY <1>2, <2>2, <2>3 DEF DirectoryInv, AnswersTrue
<1>7. CopiesTrue'
  <2>1. \A f \in Editors : edit'[f] # Idle => f # e /\ edit'[f] = edit[f]
    BY <1>2 DEF DirectoryInv, DirectoryShape, DirectoryTypeOK
  <2>2. \A f \in Editors, q \in Tenants : HoldsCopy(f, q) => q # o
    BY <1>1 DEF DirectoryInv, CopiesTrue, HoldsCopy
  <2> QED
    BY <1>2, <1>4, <2>1, <2>2 DEF DirectoryInv, CopiesTrue, HoldsCopy
<1> QED
  BY <1>6, <1>7

\* Whoever holds another copy when a row is saved makes the organization one
\* whose saves overlapped.
LEMMA SaveTrue ==
    ASSUME DirectoryInv, NEW e \in Editors, SaveOrganization(e)
    PROVE  CopiesTrue' /\ AnswersTrue'
<1>1. PICK o, r : o = edit[e].org /\ r = edit[e]
  OBVIOUS
<1>2. /\ o \in Tenants /\ r \in Edits /\ r.row \in OrgRows /\ r.step = "save" /\ r # Idle /\ r.org = o
      /\ org' = [org EXCEPT ![o] = r.row] /\ told' = [told EXCEPT ![o] = Asked(r, told[o])]
      /\ overlapped \subseteq overlapped' /\ overlapped' \subseteq overlapped \union {o}
      /\ \A f \in Editors \ {e} : HoldsCopy(f, o) => o \in overlapped'
      /\ edit' = [edit EXCEPT ![e] = Idle]
  BY <1>1, EditFacts DEF SaveOrganization, DirectoryInv, DirectoryShape, EditsShaped
<1>3. /\ org[o] # NoOrg /\ told[o] \in Answers
      /\ o \notin overlapped =>
            /\ r.row.name = IF r.rename = Same THEN org[o].name ELSE r.rename
            /\ r.row.slug = IF r.want # Same THEN r.want ELSE org[o].slug
            /\ org[o].name = told[o].name /\ org[o].slug = told[o].slug
  <2>1. HoldsCopy(e, o)
    BY <1>1, <1>2 DEF HoldsCopy
  <2>2. org[o] # NoOrg
    BY <1>1, <1>2, <2>1 DEF DirectoryInv, CopiesTrue
  <2> QED
    BY <1>1, <1>2, <2>1, <2>2
    DEF DirectoryInv, DirectoryShape, DirectoryTypeOK, CopiesTrue, AnswersTrue
<1>4. Asked(r, told[o]) \in Answers /\ r.row # NoOrg
  BY <1>2, <1>3, AskedTyped, RowFacts
<1>5. \A q \in Tenants : /\ org'[q] = IF q = o THEN r.row ELSE org[q]
                         /\ told'[q] = IF q = o THEN Asked(r, told[o]) ELSE told[q]
  BY <1>2 DEF DirectoryInv, DirectoryShape, DirectoryTypeOK
<1>6. AnswersTrue'
  <2>1. o \notin overlapped => r.row.name = Asked(r, told[o]).name /\ r.row.slug = Asked(r, told[o]).slug
    BY <1>3 DEF Asked
  <2>2. PICK b, w : b = Asked(r, told[o]) /\ w = r.row
    OBVIOUS
  <2>3. b # NoOrg /\ w # NoOrg /\ (o \notin overlapped => w.name = b.name /\ w.slug = b.slug)
    BY <1>4, <2>1, <2>2, RowFacts
  <2>4. \A q \in Tenants : /\ org'[q] = IF q = o THEN w ELSE org[q]
                           /\ told'[q] = IF q = o THEN b ELSE told[q]
    BY <1>5, <2>2
  <2>5. \A q \in Tenants : q \notin overlapped' => q \notin overlapped
    BY <1>2
  <2> QED
    BY <1>2, <2>3, <2>4, <2>5 DEF DirectoryInv, AnswersTrue
<1>7. CopiesTrue'
  <2>1. \A f \in Editors : edit'[f] # Idle => f # e /\ edit'[f] = edit[f]
    BY <1>2 DEF DirectoryInv, DirectoryShape, DirectoryTypeOK
  <2>2. \A q \in Tenants : (org[q] # NoOrg => org'[q] # NoOrg) /\ (q # o => org'[q] = org[q])
    BY <1>4, <1>5
  <2>3. \A f \in Editors, q \in Tenants :
           /\ HoldsCopy(f, q)' => f # e /\ HoldsCopy(f, q)
           /\ HoldsCopy(f, q)' /\ q \notin overlapped' => q # o /\ q \notin overlapped
    BY <1>2, <2>1 DEF HoldsCopy
  <2> QED
    BY <2>1, <2>2, <2>3 DEF DirectoryInv, CopiesTrue
<1> QED
  BY <1>6, <1>7

LEMMA DirectoryStep == DirectoryInv /\ [DirectoryNext]_dirVars => DirectoryInv'
<1> SUFFICES ASSUME DirectoryInv, [DirectoryNext]_dirVars PROVE DirectoryInv'
  OBVIOUS
<1>1. CASE UNCHANGED dirVars
  BY <1>1 DEF dirVars, seenDirVars, DirectoryInv, DirectoryShape, DirectoryTypeOK, EditsShaped,
              SlugsUnique, CopiesTrue, AnswersTrue, HoldsCopy
<1>2. CASE DirectoryNext
  <2>1. DirectoryShape'
    BY <1>2, CreateStep, CandidateStep, CheckSlugStep, InsertStep, UpdateStep, FindStep,
       ManagerStep, SaveRowStep, OtherStep DEF DirectoryNext
  <2>2. CopiesTrue' /\ AnswersTrue'
    BY <1>2, QuietTrue, CheckedTrue, InsertTrue, SaveTrue DEF DirectoryNext
  <2> QED
    BY <2>1, <2>2 DEF DirectoryInv
<1> QED
  BY <1>1, <1>2

\* Types, the shape of requests, the uniqueness of slugs and what the copies and
\* the answers say hold in every state.
THEOREM DirectoryInductive == DirectorySpec => []DirectoryInv
BY DirectoryInitInv, DirectoryStep, PTL DEF DirectorySpec

\* The variables keep their types.
THEOREM DirectoryTypeCorrect == DirectorySpec => []DirectoryTypeOK
<1>1. DirectoryInv => DirectoryTypeOK
  BY DEF DirectoryInv, DirectoryShape
<1> QED
  BY <1>1, DirectoryInductive, PTL

\* What a manager was answered stands, and the slug leads to that organization
\* alone, for any number of people who create and edit organizations at once,
\* until a save of the same organization answers otherwise or overlaps another.
THEOREM AnswerStandsHolds == DirectorySpec => []AnswerStands
<1>1. DirectoryInv => AnswerStands
  <2> SUFFICES ASSUME DirectoryInv, NEW o \in Tenants, o \notin overlapped, told[o] # NoOrg
               PROVE  /\ org[o] # NoOrg /\ org[o].name = told[o].name /\ org[o].slug = told[o].slug
                      /\ ReadsAs[told[o].slug] = NotAnId => Resolved(told[o].slug) = {o}
    BY DEF AnswerStands
  <2>1. org[o] # NoOrg /\ org[o].name = told[o].name /\ org[o].slug = told[o].slug
    BY DEF DirectoryInv, AnswersTrue
  <2>2. Carry(told[o].slug) = {o}
    BY <2>1 DEF Carry, DirectoryInv, DirectoryShape, SlugsUnique
  <2> QED
    BY <2>1, <2>2 DEF Resolved
<1> QED
  BY <1>1, DirectoryInductive, PTL

-----------------------------------------------------------------------------
(* Access to organizations.                                                *)

\* What a request past the guards of its route may do with its key.
KeyRight(t) ==
    /\ t.org = key[t.with].org
    /\ t.op \in Plain
    /\ t.op = "createNote" => key[t.with].write

\* What the roles its sender has had allow.
PersonRight(t) ==
    /\ t.had # {"none"}
    /\ t.op \in AdminOps => \E r \in t.had : OrgRoleCanManage(r)

\* A request knows who sent it, and has the right once it is past the guards.
CallOK(t) ==
    IF t.with # Nobody
    THEN t.good /\ key[t.with] # NoKey /\ (t.step # "tenant" => KeyRight(t))
    ELSE /\ t.who \in People /\ role[t.org][t.who] \in t.had
         /\ t.step # "tenant" => PersonRight(t)

LastOK ==
    last # NoCall => IF last.with # Nobody
                     THEN last.good /\ key[last.with] # NoKey /\ KeyRight(last)
                     ELSE PersonRight(last)

AccessInv ==
    /\ AccessTypeOK
    /\ \A c \in Calls : call[c] # NoCall => CallOK(call[c])
    /\ LastOK
    /\ \A k \in touching : key[k] # NoKey

LEMMA AccessFacts ==
    /\ NoCall \notin CallRows /\ NoKey \notin KeyRows /\ Nobody \notin Keys /\ Nobody \notin People /\ Nobody \notin Orgs
    /\ Plain \subseteq Ops /\ AdminOps \subseteq Ops
    /\ \A op \in Ops : op \in {"listNotes", "createNote"} <=> op \notin AdminOps
BY AccessAssumption DEF NoCall, CallRows, NoKey, KeyRows, Plain, AdminOps, KeyOps, Ops

LEMMA AccessInitInv == AccessInit => AccessInv
BY AccessAssumption DEF AccessInit, AccessInv, AccessTypeOK, LastOK, Roles, NoCall

-----------------------------------------------------------------------------
(* How the parts of the state may change.                                  *)

\* A key keeps its organization and its scope; a new row takes a free slot.
KeysKept ==
    \A k \in Keys : key[k] # NoKey =>
        key'[k] # NoKey /\ key'[k].org = key[k].org /\ key'[k].write = key[k].write

LEMMA KeptIfRow ==
    ASSUME AccessTypeOK, NEW k \in Keys, NEW row \in KeyRows,
           key' = [key EXCEPT ![k] = row],
           key[k] # NoKey => row.org = key[k].org /\ row.write = key[k].write
    PROVE  KeysKept /\ key' \in [Keys -> KeyRows \union {NoKey}]
<1>1. key' \in [Keys -> KeyRows \union {NoKey}]
  BY DEF AccessTypeOK
<1>2. \A n \in Keys : key'[n] = IF n = k THEN row ELSE key[n]
  BY DEF AccessTypeOK
<1> QED
  BY <1>1, <1>2, AccessFacts DEF KeysKept

\* Steps that only write keys.
LEMMA KeyStep ==
    ASSUME AccessInv, KeysKept, key' \in [Keys -> KeyRows \union {NoKey}],
           UNCHANGED <<role, changes, calls>>, touching' \subseteq touching,
           \A c \in Calls : call'[c] \in {call[c], NoCall}, call' \in [Calls -> CallRows \union {NoCall}],
           last' = last \/ \E c \in Calls : call[c] # NoCall /\ call[c].step = "write" /\ last' = call[c]
    PROVE  AccessInv'
<1>1. ASSUME NEW t \in CallRows, CallOK(t) PROVE CallOK(t)'
  BY <1>1, AccessFacts DEF CallOK, KeyRight, PersonRight, KeysKept, CallRows
<1>2. \A c \in Calls : call[c] # NoCall => call[c] \in CallRows /\ CallOK(call[c])
  BY DEF AccessInv, AccessTypeOK
<1>3. \A c \in Calls : call'[c] # NoCall => CallOK(call[c])'
  BY <1>1, <1>2
<1>6. touching' \subseteq Keys /\ \A k \in touching' : key'[k] # NoKey
  BY DEF AccessInv, AccessTypeOK, KeysKept
<1>4. CASE last' = last
  <2>1. LastOK'
    BY <1>4, AccessFacts DEF AccessInv, AccessTypeOK, LastOK, KeyRight, PersonRight, KeysKept, CallRows
  <2> QED
    BY <1>3, <1>4, <1>6, <2>1 DEF AccessInv, AccessTypeOK
<1>5. ASSUME NEW c \in Calls, call[c] # NoCall, call[c].step = "write", last' = call[c]
      PROVE  AccessInv'
  <2>1. last' \in CallRows /\ CallOK(last)' /\ last'.step = "write"
    BY <1>1, <1>2, <1>5
  <2>2. LastOK'
    BY <2>1 DEF LastOK, CallOK, KeyRight, PersonRight
  <2> QED
    BY <1>3, <1>5, <1>6, <2>1, <2>2 DEF AccessInv, AccessTypeOK
<1> QED
  BY <1>4, <1>5

\* Steps that only move one request.
LEMMA CallStep ==
    ASSUME AccessInv, UNCHANGED <<role, key, changes>>, NEW c \in Calls, NEW t \in CallRows \union {NoCall},
           Serve(c, t), t # NoCall => CallOK(t), calls' \in Nat,
           touching' \subseteq {k \in Keys : key[k] # NoKey},
           last' \in {last, NoCall}
    PROVE  AccessInv'
<1>1. call' \in [Calls -> CallRows \union {NoCall}]
  BY DEF Serve, AccessInv, AccessTypeOK
<1>2. \A d \in Calls : call'[d] = IF d = c THEN t ELSE call[d]
  BY DEF Serve, AccessInv, AccessTypeOK
<1>3. \A d \in Calls : call'[d] # NoCall => CallOK(call[d])'
  BY <1>2 DEF CallOK, KeyRight, PersonRight, AccessInv
<1>4. LastOK'
  BY DEF LastOK, KeyRight, PersonRight, AccessInv
<1> QED
  BY <1>1, <1>3, <1>4 DEF AccessInv, AccessTypeOK

-----------------------------------------------------------------------------

LEMMA PersonStep ==
    ASSUME AccessInv, NEW c \in Calls, NEW u \in People, NEW o \in Orgs, NEW op \in Ops,
           AuthenticatePerson(c, u, o, op)
    PROVE  AccessInv'
<1> DEFINE t == [step |-> "tenant", op |-> op, org |-> o, who |-> u, with |-> Nobody,
                 had |-> {role[o][u]}, good |-> FALSE]
<1>1. t \in CallRows
  BY DEF CallRows, AccessInv, AccessTypeOK
<1>2. CallOK(t)
  BY DEF CallOK
<1>3. Serve(c, t) /\ UNCHANGED <<role, key, touching, changes>> /\ calls' = calls + 1 /\ last' = NoCall
  BY DEF AuthenticatePerson
<1> HIDE DEF t
<1> QED
  BY <1>1, <1>2, <1>3, CallStep DEF AccessInv, AccessTypeOK

LEMMA KeyHolderStep ==
    ASSUME AccessInv, NEW c \in Calls, NEW k \in Keys, NEW o \in Orgs, NEW op \in Ops,
           AuthenticateKey(c, k, o, op)
    PROVE  AccessInv'
<1> DEFINE t == [step |-> "tenant", op |-> op, org |-> o, who |-> Nobody, with |-> k,
                 had |-> {}, good |-> Good(k)]
<1>1. t \in CallRows
  BY DEF CallRows, Good
<1>2. CallOK(t)
  BY AccessFacts DEF CallOK, AuthenticateKey, FindActive, Good
<1>3. /\ Serve(c, t) /\ UNCHANGED <<role, key, changes>> /\ calls' = calls + 1 /\ last' = NoCall
      /\ touching' = touching \union {k} /\ key[k] # NoKey
  BY DEF AuthenticateKey, FindActive
<1> HIDE DEF t
<1> QED
  BY <1>1, <1>2, <1>3, CallStep DEF AccessInv, AccessTypeOK

\* The guards give a request its right.
LEMMA GuardGives ==
    ASSUME AccessInv, NEW t \in CallRows, CallOK(t), Guard(t),
           IF t.with # Nobody THEN key[t.with].org = t.org ELSE role[t.org][t.who] # "none"
    PROVE  IF t.with # Nobody THEN KeyRight(t) ELSE PersonRight(t)
<1>1. CASE t.with # Nobody
  BY <1>1 DEF Guard, MayRead, MayWrite, KeyRight, Plain
<1>2. CASE t.with = Nobody
  <2>1. t.had # {"none"}
    BY <1>2 DEF CallOK
  <2>2. t.op \in AdminOps => OrgRoleCanManage(role[t.org][t.who])
    BY <1>2 DEF Guard, AdminOps, KeyOps
  <2> QED
    BY <1>2, <2>1, <2>2 DEF CallOK, PersonRight
<1> QED
  BY <1>1, <1>2

LEMMA TenantStep ==
    ASSUME AccessInv, NEW c \in Calls, ResolveTenant(c)
    PROVE  AccessInv'
<1>1. call[c] \in CallRows /\ CallOK(call[c])
  BY DEF ResolveTenant, AccessInv, AccessTypeOK
<1>2. IF call[c].with # Nobody THEN KeyRight(call[c]) ELSE PersonRight(call[c])
  BY <1>1, GuardGives DEF ResolveTenant
<1>3. PICK s \in {"recheck", "write"} : To(c, s)
  BY DEF ResolveTenant
<1> DEFINE t == [call[c] EXCEPT !.step = s]
<1>4. t \in CallRows
  BY <1>1 DEF CallRows
<1>5. CallOK(t)
  BY <1>1, <1>2 DEF CallOK, KeyRight, PersonRight, CallRows
<1>6. Serve(c, t)
  BY <1>3 DEF To
<1> HIDE DEF t
<1> QED
  BY <1>4, <1>5, <1>6, CallStep DEF ResolveTenant, AccessInv, AccessTypeOK

LEMMA ManagerAgainStep ==
    ASSUME AccessInv, NEW c \in Calls, RequireOrgManager(c)
    PROVE  AccessInv'
<1>1. call[c] \in CallRows /\ CallOK(call[c]) /\ call[c].step = "recheck"
  BY DEF RequireOrgManager, AccessInv, AccessTypeOK
<1> DEFINE t == [call[c] EXCEPT !.step = "write"]
<1>2. t \in CallRows
  BY <1>1 DEF CallRows
<1>3. CallOK(t)
  BY <1>1 DEF CallOK, KeyRight, PersonRight, CallRows
<1>4. Serve(c, t)
  BY DEF RequireOrgManager, To
<1> HIDE DEF t
<1> QED
  BY <1>2, <1>3, <1>4, CallStep DEF RequireOrgManager, AccessInv, AccessTypeOK

LEMMA RefuseStep ==
    ASSUME AccessInv, NEW c \in Calls, Refuse(c)
    PROVE  AccessInv'
BY CallStep DEF Refuse, Hang, AccessInv, AccessTypeOK

\* The answer of a request that did something.
LEMMA AnsweredStep ==
    ASSUME AccessInv, NEW c \in Calls, NEW ops, At(c, ops), Done(c), KeysKept,
           key' \in [Keys -> KeyRows \union {NoKey}]
    PROVE  AccessInv'
<1>1. call' \in [Calls -> CallRows \union {NoCall}] /\ \A d \in Calls : call'[d] \in {call[d], NoCall}
  BY DEF Done, Hang, Serve, AccessInv, AccessTypeOK
<1>2. call[c] # NoCall /\ call[c].step = "write" /\ last' = call[c]
  BY DEF At, Done
<1>3. UNCHANGED <<role, touching, changes, calls>>
  BY DEF Done
<1> QED
  BY <1>1, <1>2, <1>3, KeyStep

LEMMA ServiceStep ==
    ASSUME AccessInv, NEW c \in Calls,
           \/ CreateOrganizationAPIKey(c) \/ RevokeOrganizationAPIKey(c)
           \/ ServeNotes(c) \/ ServeWebhooks(c)
    PROVE  AccessInv'
<1>1. CASE CreateOrganizationAPIKey(c)
  <2>1. PICK k \in Keys, w \in BOOLEAN :
          /\ key[k] = NoKey
          /\ key' = [key EXCEPT ![k] =
                [NoKey EXCEPT !.org = call[c].org, !.write = w, !.by = call[c].who]]
    BY <1>1 DEF CreateOrganizationAPIKey
  <2>2. call[c] \in CallRows /\ CallOK(call[c]) /\ call[c].step = "write" /\ call[c].op = "createKey"
    BY <1>1 DEF CreateOrganizationAPIKey, At, AccessInv, AccessTypeOK
  <2>3. call[c].with = Nobody
    BY <2>2 DEF CallOK, KeyRight, Plain
  <2>4. call[c].who \in People /\ call[c].org \in Orgs
    BY <2>2, <2>3 DEF CallOK, CallRows
  <2>5. [NoKey EXCEPT !.org = call[c].org, !.write = w, !.by = call[c].who] \in KeyRows
    BY <2>4 DEF NoKey, KeyRows
  <2>6. KeysKept /\ key' \in [Keys -> KeyRows \union {NoKey}]
    BY <2>1, <2>5, KeptIfRow DEF AccessInv
  <2> QED
    BY <1>1, <2>6, AnsweredStep DEF CreateOrganizationAPIKey
<1>2. CASE RevokeOrganizationAPIKey(c)
  <2>1. PICK k \in Keys : /\ Revocable(k, call[c].org)
                          /\ key' = [key EXCEPT ![k].revoked = call[c].who]
    BY <1>2 DEF RevokeOrganizationAPIKey
  <2>2. call[c] \in CallRows
    BY <1>2 DEF RevokeOrganizationAPIKey, At, AccessInv, AccessTypeOK
  <2>3. CASE key[k] = NoKey
    <3>1. CallOK(call[c]) /\ call[c].org \in Orgs /\ call[c].step = "write" /\ call[c].op = "revokeKey"
      BY <1>2, <2>2 DEF RevokeOrganizationAPIKey, At, AccessInv, CallRows
    <3>2. FALSE
      BY <2>1, <2>3, <3>1, AccessFacts DEF Revocable, NoKey
    <3> QED
      BY <3>2
  <2>4. CASE key[k] # NoKey
    <3>1. key[k] \in KeyRows
      BY <2>4 DEF AccessInv, AccessTypeOK
    <3>2. [key[k] EXCEPT !.revoked = call[c].who] \in KeyRows
      BY <2>2, <3>1 DEF KeyRows, CallRows
    <3>3. key' = [key EXCEPT ![k] = [key[k] EXCEPT !.revoked = call[c].who]]
      BY <2>1
    <3>4. KeysKept /\ key' \in [Keys -> KeyRows \union {NoKey}]
      BY <3>1, <3>2, <3>3, KeptIfRow DEF AccessInv, KeyRows
    <3> QED
      BY <1>2, <3>4, AnsweredStep DEF RevokeOrganizationAPIKey
  <2> QED
    BY <2>3, <2>4
<1>3. CASE ServeNotes(c) \/ ServeWebhooks(c)
  <2>1. KeysKept /\ key' \in [Keys -> KeyRows \union {NoKey}]
    BY <1>3 DEF ServeNotes, ServeWebhooks, KeysKept, AccessInv, AccessTypeOK
  <2> QED
    BY <1>3, <2>1, AnsweredStep DEF ServeNotes, ServeWebhooks
<1> QED
  BY <1>1, <1>2, <1>3
-----------------------------------------------------------------------------

LEMMA TouchStep ==
    ASSUME AccessInv, NEW k \in Keys, TouchLastUsed(k)
    PROVE  AccessInv'
<1>1. key[k] \in KeyRows
  BY DEF TouchLastUsed, AccessInv, AccessTypeOK
<1>2. [key[k] EXCEPT !.touched = TRUE] \in KeyRows
  BY <1>1 DEF KeyRows
<1>3. KeysKept /\ key' \in [Keys -> KeyRows \union {NoKey}]
  <2>1. CASE Touchable(k)
    <3>1. key' = [key EXCEPT ![k] = [key[k] EXCEPT !.touched = TRUE]]
      BY <2>1 DEF TouchLastUsed
    <3> QED
      BY <1>1, <1>2, <3>1, KeptIfRow DEF AccessInv, KeyRows
  <2>2. CASE ~Touchable(k)
    BY <2>2 DEF TouchLastUsed, KeysKept, AccessInv, AccessTypeOK
  <2> QED
    BY <2>1, <2>2
<1> QED
  BY <1>3, KeyStep DEF TouchLastUsed, AccessInv, AccessTypeOK

LEMMA ExpireStep ==
    ASSUME AccessInv, NEW k \in Keys, ExpireKey(k)
    PROVE  AccessInv'
<1>1. key[k] \in KeyRows
  BY DEF ExpireKey, AccessInv, AccessTypeOK
<1>2. [key[k] EXCEPT !.expired = TRUE] \in KeyRows
  BY <1>1 DEF KeyRows
<1>3. key' = [key EXCEPT ![k] = [key[k] EXCEPT !.expired = TRUE]]
  BY DEF ExpireKey
<1>4. KeysKept /\ key' \in [Keys -> KeyRows \union {NoKey}]
  BY <1>1, <1>2, <1>3, KeptIfRow DEF AccessInv, KeyRows
<1> QED
  BY <1>4, KeyStep DEF ExpireKey, AccessInv, AccessTypeOK

\* The requests of the person remember the new role; no right is lost.
LEMMA RoleStep ==
    ASSUME AccessInv, NEW o \in Orgs, NEW u \in People, NEW r \in Roles, ChangeRole(o, u, r)
    PROVE  AccessInv'
<1> DEFINE Grown(t) == IF t # NoCall /\ t.org = o /\ t.who = u
                       THEN [t EXCEPT !.had = @ \union {r}] ELSE t
<1>1. call' = [c \in Calls |-> Grown(call[c])] /\ role' = [role EXCEPT ![o][u] = r] /\ r # role[o][u]
      /\ UNCHANGED <<key, touching, calls, last>> /\ changes' = changes + 1
  BY DEF ChangeRole
<1>2. role' \in [Orgs -> [People -> Roles]]
  BY <1>1 DEF AccessInv, AccessTypeOK
<1>3. \A p \in Orgs, v \in People : role'[p][v] = IF p = o /\ v = u THEN r ELSE role[p][v]
  BY <1>1 DEF AccessInv, AccessTypeOK
<1>4. ASSUME NEW t \in CallRows, CallOK(t)
      PROVE  Grown(t) \in CallRows /\ Grown(t) # NoCall /\ CallOK(Grown(t))'
  <2>1. t # NoCall
    BY AccessFacts
  <2>2. CASE ~(t.org = o /\ t.who = u)
    BY <1>1, <1>3, <1>4, <2>1, <2>2, AccessFacts DEF CallOK, KeyRight, PersonRight, CallRows
  <2>3. CASE t.org = o /\ t.who = u
    <3> DEFINE g == [t EXCEPT !.had = t.had \union {r}]
    <3>1. Grown(t) = g
      BY <2>1, <2>3
    <3>2. /\ g \in CallRows /\ g.step = t.step /\ g.op = t.op /\ g.org = o /\ g.who = u
          /\ g.with = t.with /\ g.good = t.good /\ g.had = t.had \union {r}
      BY <2>3 DEF CallRows
    <3> HIDE DEF g, Grown
    <3>3. CASE t.with # Nobody
      BY <1>1, <1>4, <3>1, <3>2, <3>3, <2>3, AccessFacts DEF CallOK, KeyRight
    <3>4. CASE t.with = Nobody
      <4>1. u \in People /\ o \in Orgs /\ role[o][u] \in t.had
        BY <1>4, <2>3, <3>4 DEF CallOK
      <4>2. role'[o][u] = r
        BY <1>3, <4>1
      <4>3. g.had # {"none"}
        BY <1>1, <3>2, <4>1
      <4>4. g.step # "tenant" => PersonRight(g)
        BY <1>4, <2>3, <3>2, <3>4, <4>3 DEF CallOK, PersonRight
      <4>5. PersonRight(g)' <=> PersonRight(g)
        BY DEF PersonRight, g, OrgRoleCanManage
      <4>6. CallOK(g)'
        BY <3>2, <3>4, <4>1, <4>2, <4>4 DEF CallOK, PersonRight
      <4> QED
        BY <3>1, <3>2, <4>6, AccessFacts
    <3> QED
      BY <3>3, <3>4
  <2> QED
    BY <2>2, <2>3
<1>5. \A c \in Calls : call[c] # NoCall => call[c] \in CallRows /\ CallOK(call[c])
  BY DEF AccessInv, AccessTypeOK
<1>6. Grown(NoCall) = NoCall
  OBVIOUS
<1> HIDE DEF Grown
<1>7. \A c \in Calls : call'[c] = Grown(call[c])
  BY <1>1
<1>8. call' \in [Calls -> CallRows \union {NoCall}]
  BY <1>1, <1>4, <1>5, <1>6
<1>9. \A c \in Calls : call'[c] # NoCall => CallOK(call[c])'
  BY <1>4, <1>5, <1>6, <1>7
<1>10. LastOK'
  BY <1>1 DEF AccessInv, LastOK, KeyRight, PersonRight
<1> QED
  BY <1>1, <1>2, <1>8, <1>9, <1>10 DEF AccessInv, AccessTypeOK

LEMMA AccessStep == AccessInv /\ [AccessNext]_accessVars => AccessInv'
<1> SUFFICES ASSUME AccessInv, [AccessNext]_accessVars PROVE AccessInv'
  OBVIOUS
<1>1. CASE UNCHANGED accessVars
  BY <1>1 DEF accessVars, AccessInv, AccessTypeOK, CallOK, LastOK, KeyRight, PersonRight
<1>2. CASE AccessNext
  BY <1>2, PersonStep, KeyHolderStep, TenantStep, ManagerAgainStep, RefuseStep, ServiceStep,
     TouchStep, ExpireStep, RoleStep DEF AccessNext
<1> QED
  BY <1>1, <1>2

-----------------------------------------------------------------------------

\* Types, the rights of requests under way and of the last one hold in every state.
THEOREM AccessInductive == AccessSpec => []AccessInv
BY AccessInitInv, AccessStep, PTL DEF AccessSpec

\* The variables keep their types.
THEOREM AccessTypeCorrect == AccessSpec => []AccessTypeOK
<1>1. AccessInv => AccessTypeOK
  BY DEF AccessInv
<1> QED
  BY <1>1, AccessInductive, PTL

\* Whatever was done was done by right, for any number of requests, keys, people
\* and changes of roles between the guards and the write.
THEOREM EntitledHolds == AccessSpec => []Entitled
<1>1. AccessInv => Entitled
  BY DEF AccessInv, LastOK, Entitled, KeyRight, PersonRight
<1> QED
  BY <1>1, AccessInductive, PTL

\* No step of any interleaving touches the row of a revoked key.
THEOREM RevokedStaysHolds == AccessSpec => RevokedStays
<1>1. ASSUME AccessInv, [AccessNext]_accessVars, NEW k \in Keys, key[k].revoked # Nobody
      PROVE  key'[k].revoked = key[k].revoked /\ key'[k].touched = key[k].touched
  <2>1. key[k] # NoKey /\ key[k] \in KeyRows
    BY <1>1 DEF NoKey, AccessInv, AccessTypeOK
  <2>2. CASE key' = key
    BY <2>2
  <2>3. ASSUME NEW n \in Keys, TouchLastUsed(n) PROVE key'[k] = key[k]
    BY <1>1, <2>3 DEF TouchLastUsed, Touchable, AccessInv, AccessTypeOK
  <2>4. ASSUME NEW n \in Keys, ExpireKey(n)
        PROVE  key'[k].revoked = key[k].revoked /\ key'[k].touched = key[k].touched
    BY <1>1, <2>1, <2>4 DEF ExpireKey, AccessInv, AccessTypeOK, KeyRows
  <2>5. ASSUME NEW c \in Calls, CreateOrganizationAPIKey(c) PROVE key'[k] = key[k]
    BY <1>1, <2>1, <2>5 DEF CreateOrganizationAPIKey, AccessInv, AccessTypeOK
  <2>6. ASSUME NEW c \in Calls, RevokeOrganizationAPIKey(c) PROVE key'[k] = key[k]
    BY <1>1, <2>6 DEF RevokeOrganizationAPIKey, Revocable, AccessInv, AccessTypeOK
  <2>7. \/ key' = key
        \/ \E n \in Keys : TouchLastUsed(n) \/ ExpireKey(n)
        \/ \E c \in Calls : CreateOrganizationAPIKey(c) \/ RevokeOrganizationAPIKey(c)
    BY <1>1 DEF AccessNext, accessVars, AuthenticatePerson, AuthenticateKey, ResolveTenant, Refuse,
       RequireOrgManager, ServeNotes, ServeWebhooks, ChangeRole
  <2> QED
    BY <2>2, <2>3, <2>4, <2>5, <2>6, <2>7
<1>2. AccessInv /\ [AccessNext]_accessVars =>
        [\A k \in Keys : key[k].revoked # Nobody =>
          /\ key'[k].revoked = key[k].revoked
          /\ key'[k].touched = key[k].touched]_accessVars
  BY <1>1
<1> QED
  BY <1>2, AccessInductive, PTL DEF AccessSpec, RevokedStays

-----------------------------------------------------------------------------
(* Memberships and invitations.                                            *)

\* The rows an operation changes keep who was invited, and to which role.
RowsKept ==
    \A i \in Invitations : inv[i] # NoInvitation =>
        /\ inv'[i] # NoInvitation
        /\ inv'[i].addr = inv[i].addr
        /\ inv'[i].role = inv[i].role

\* How a step may change the role of u: it goes, or an invitation raises it.
Leaves(u) ==
    /\ member'[u] = "none"
    /\ u = Creator => Creator \notin alive'

Joins(u) ==
    /\ u # Creator
    /\ member[u] \in {"none", "member"} \/ member'[u] = member[u]
    /\ \E i \in Invitations : /\ inv[i] # NoInvitation
                             /\ inv[i].role = member'[u]
                             /\ <<u, inv[i].addr>> \in held

\* Only the creator has the owner's role, so the count of owners is at most one.
LEMMA OwnersCounted ==
    ASSUME SoleOwner, Creator \in Users
    PROVE  /\ IsFiniteSet(Owners)
           /\ Cardinality(Owners) <= 1
<1>1. Owners = {} \/ Owners = {Creator}
  BY DEF SoleOwner, Owners
<1>2. CASE Owners = {}
  BY <1>2, FS_EmptySet
<1>3. CASE Owners = {Creator}
  <2>1. IsFiniteSet({Creator}) /\ Cardinality({Creator}) = 1
    BY FS_Singleton
  <2> QED
    BY <1>3, <2>1
<1> QED
  BY <1>1, <1>2, <1>3

\* The initial states satisfy the invariant.
LEMMA InitInv == Init => IInv
<1> SUFFICES ASSUME Init
             PROVE  IInv
  OBVIOUS
<1> USE MembershipAssumption DEF Init
<1>1. TypeOK
  BY DEF TypeOK
<1>2. LocalsOK /\ AcceptOK /\ RemoveOK
  BY DEF LocalsOK, AcceptOK, RemoveOK, Inviting, Accepting
<1>3. AddressesHeld
  BY DEF AddressesHeld
<1>4. SoleOwner /\ Earned
  BY DEF SoleOwner, Earned
<1> QED
  BY <1>1, <1>2, <1>3, <1>4 DEF IInv

\* Whatever a step does to the rows of invitations, it keeps them typed and
\* true to what was sent.
LEMMA RowStep ==
    ASSUME TypeOK, LocalsOK, AcceptOK, [Next]_vars
    PROVE  /\ inv' \in [Invitations -> Invitation \union {NoInvitation}]
           /\ RowsKept
<1> USE DEF requestVars, tableVars
<1>1. \A i \in Invitations, st \in {"pending", "accepted", "deleted"} :
         inv[i] # NoInvitation =>
            /\ [inv[i] EXCEPT !.status = st] \in Invitation
            /\ [inv[i] EXCEPT !.status = st] # NoInvitation
            /\ [inv[i] EXCEPT !.status = st].addr = inv[i].addr
            /\ [inv[i] EXCEPT !.status = st].role = inv[i].role
  BY DEF TypeOK, Invitation, NoInvitation
<1>2. CASE UNCHANGED inv
  BY <1>2 DEF TypeOK, RowsKept
<1>3. ASSUME NEW p \in Requests, SupersedePending(p)
      PROVE  inv' \in [Invitations -> Invitation \union {NoInvitation}] /\ RowsKept
  <2>1. \A i \in Invitations :
           \/ inv'[i] = inv[i]
           \/ (inv[i] # NoInvitation /\ inv'[i] = [inv[i] EXCEPT !.status = "deleted"])
    BY <1>3 DEF SupersedePending, NoInvitation
  <2>2. inv' = [i \in Invitations |-> inv'[i]]
    BY <1>3 DEF SupersedePending
  <2>3. ASSUME NEW i \in Invitations PROVE inv'[i] \in Invitation \union {NoInvitation}
    <3>1. CASE inv'[i] = inv[i]
      BY <3>1 DEF TypeOK
    <3>2. CASE inv[i] # NoInvitation /\ inv'[i] = [inv[i] EXCEPT !.status = "deleted"]
      BY <1>1, <3>2
    <3> QED
      BY <2>1, <3>1, <3>2
  <2> QED
    BY <1>1, <2>1, <2>2, <2>3 DEF RowsKept
<1>4. ASSUME NEW p \in Requests, CreateInvitation(p)
      PROVE  inv' \in [Invitations -> Invitation \union {NoInvitation}] /\ RowsKept
  <2>1. PICK i \in Invitations :
           /\ inv[i] = NoInvitation
           /\ inv' = [inv EXCEPT ![i] = [status |-> "pending", addr |-> Invited(p),
                                         role |-> grant[p], by |-> actor[p]]]
    BY <1>4 DEF CreateInvitation
  <2>2. [status |-> "pending", addr |-> Invited(p), role |-> grant[p], by |-> actor[p]]
           \in Invitation
    BY <1>4 DEF CreateInvitation, LocalsOK, Inviting, Invitation, Invited
  <2> QED
    BY <2>1, <2>2 DEF TypeOK, RowsKept
<1>5. ASSUME NEW p \in Requests, AcceptCommit(p)
      PROVE  inv' \in [Invitations -> Invitation \union {NoInvitation}] /\ RowsKept
  <2>1. token[p] \in Invitations /\ inv[token[p]] # NoInvitation
    BY <1>5 DEF AcceptCommit, LocalsOK, AcceptOK, Accepting
  <2>2. inv[token[p]].status \in {"pending", "accepted", "deleted"}
    BY <2>1 DEF TypeOK, Invitation
  <2>3. PICK st \in {"pending", "accepted", "deleted"} :
           inv' = [inv EXCEPT ![token[p]] = [inv[token[p]] EXCEPT !.status = st]]
    <3>1. inv' = [inv EXCEPT ![token[p]].status =
                     IF inv[token[p]].status = "deleted" THEN inv[token[p]].status ELSE "accepted"]
      BY <1>5 DEF AcceptCommit
    <3> QED
      BY <2>2, <3>1
  <2>4. [inv[token[p]] EXCEPT !.status = st] \in Invitation
    BY <2>1, <2>3 DEF TypeOK, Invitation
  <2>5. \A i \in Invitations :
           inv'[i] = IF i = token[p] THEN [inv[token[p]] EXCEPT !.status = st] ELSE inv[i]
    BY <2>1, <2>3 DEF TypeOK
  <2>6. RowsKept
    <3>1. inv[token[p]] \in Invitation
      BY <2>1 DEF TypeOK
    <3>2. /\ [inv[token[p]] EXCEPT !.status = st].addr = inv[token[p]].addr
          /\ [inv[token[p]] EXCEPT !.status = st].role = inv[token[p]].role
      BY <3>1 DEF Invitation
    <3>3. [inv[token[p]] EXCEPT !.status = st] # NoInvitation
      BY <2>4 DEF Invitation, NoInvitation
    <3> QED
      BY <2>5, <3>2, <3>3 DEF RowsKept
  <2> QED
    BY <2>1, <2>3, <2>4, <2>6 DEF TypeOK
<1>6. ASSUME NEW u \in Users, DeleteUser(u)
      PROVE  inv' \in [Invitations -> Invitation \union {NoInvitation}] /\ RowsKept
  <2>1. \A i \in Invitations :
           \/ inv'[i] = inv[i]
           \/ (inv[i] # NoInvitation /\ inv'[i] = [inv[i] EXCEPT !.status = "deleted"])
    BY <1>6 DEF DeleteUser
  <2>2. inv' = [i \in Invitations |-> inv'[i]]
    BY <1>6 DEF DeleteUser
  <2>3. ASSUME NEW i \in Invitations PROVE inv'[i] \in Invitation \union {NoInvitation}
    <3>1. CASE inv'[i] = inv[i]
      BY <3>1 DEF TypeOK
    <3>2. CASE inv[i] # NoInvitation /\ inv'[i] = [inv[i] EXCEPT !.status = "deleted"]
      BY <1>1, <3>2
    <3> QED
      BY <2>1, <3>1, <3>2
  <2> QED
    BY <1>1, <2>1, <2>2, <2>3 DEF RowsKept
<1>7. ASSUME NEW p \in Requests, Request(p), ~SupersedePending(p), ~CreateInvitation(p), ~AcceptCommit(p)
      PROVE  UNCHANGED inv
  BY <1>7 DEF Request, Invite, CheckNotMember, AcceptInvitation, ReadInvitation, ReadMembership,
              RemoveMember, CheckTarget, DeleteMembership, Refused, Begin
<1>8. ASSUME NEW u \in Users, NEW a \in Addresses, ChangeEmail(u, a)
      PROVE  UNCHANGED inv
  BY <1>8 DEF ChangeEmail
<1> QED
  BY <1>2, <1>3, <1>4, <1>5, <1>6, <1>7, <1>8 DEF Next, vars

-----------------------------------------------------------------------------
(* Steps.                                                                  *)

\* What the acceptance of an invitation writes: the role of an invitation sent
\* to an address of the actor's, and never over a higher one.
LEMMA AcceptedRole ==
    ASSUME IInv, NEW p \in Requests, AcceptCommit(p)
    PROVE  /\ actor[p] \in Users /\ token[p] \in Invitations
           /\ grant[p] \in InviteRoles
           /\ UNCHANGED member \/ (Joins(actor[p]) /\ member' = [member EXCEPT ![actor[p]] = grant[p]])
<1> USE DEF IInv
<1> DEFINE u == actor[p]  i == token[p]
<1>1. u \in Users /\ i \in Invitations /\ pc[p] = "accept"
  BY DEF AcceptCommit, LocalsOK, Accepting
<1>2. /\ inv[i] # NoInvitation
      /\ <<u, inv[i].addr>> \in held
      /\ inv[i].role = grant[p]
      /\ u = Creator => was[p] = "owner" \/ Creator \notin alive
  BY <1>1 DEF AcceptOK, Accepting
<1>3. grant[p] \in InviteRoles
  BY <1>1, <1>2 DEF TypeOK, Invitation
<1>4. CASE Inserts(p) \/ Upgrades(p)
  <2>1. Creator \in alive /\ member' = [member EXCEPT ![u] = grant[p]]
    BY <1>4 DEF AcceptCommit
  <2>2. u # Creator
    BY <1>2, <1>4, <2>1 DEF Inserts, Upgrades
  <2>3. member'[u] = grant[p]
    BY <1>1, <2>1 DEF TypeOK
  <2>4. member[u] \in {"none", "member"} \/ member'[u] = member[u]
    <3>1. CASE Inserts(p)
      BY <3>1 DEF AcceptCommit, KeyFree
    <3>2. CASE Upgrades(p)
      <4>1. grant[p] = "admin"
        BY <1>3, <3>2 DEF Upgrades, OrgInviteRank, InviteRoles, TypeOK
      <4>2. member[u] # "owner"
        BY <1>1, <2>2 DEF SoleOwner
      <4> QED
        BY <1>1, <2>3, <4>1, <4>2 DEF TypeOK
    <3> QED
      BY <1>4, <3>1, <3>2
  <2> QED
    BY <1>1, <1>2, <1>3, <2>1, <2>2, <2>3, <2>4 DEF Joins
<1>5. CASE ~(Inserts(p) \/ Upgrades(p))
  BY <1>1, <1>3, <1>5 DEF AcceptCommit
<1> QED
  BY <1>4, <1>5

\* Accounts only go, addresses are only added to the history, and roles change
\* only as they may.
LEMMA MemberRoleStep ==
    ASSUME IInv, [Next]_vars
    PROVE  /\ alive' \subseteq alive
           /\ held \subseteq held'
           /\ member' \in [Users -> {"none", "member", "admin", "owner"}]
           /\ \A u \in Users : member'[u] = member[u] \/ Leaves(u) \/ Joins(u)
           /\ Creator \notin alive' /\ Creator \in alive => \A u \in Users : member'[u] = "none"
<1> USE MembershipAssumption DEF IInv, requestVars, tableVars
<1>1. ASSUME NEW p \in Requests, AcceptCommit(p)
      PROVE  /\ alive' = alive /\ held' = held
             /\ member' \in [Users -> {"none", "member", "admin", "owner"}]
             /\ \A u \in Users : member'[u] = member[u] \/ Joins(u)
  <2>1. UNCHANGED member \/ (Joins(actor[p]) /\ member' = [member EXCEPT ![actor[p]] = grant[p]])
    BY <1>1, AcceptedRole
  <2>2. grant[p] \in {"admin", "member"} /\ actor[p] \in Users
    BY <1>1, AcceptedRole DEF InviteRoles
  <2>3. alive' = alive /\ held' = held
    BY <1>1 DEF AcceptCommit
  <2> QED
    BY <2>1, <2>2, <2>3 DEF TypeOK
<1>2. ASSUME NEW p \in Requests, DeleteMembership(p)
      PROVE  /\ alive' = alive /\ held' = held
             /\ member' \in [Users -> {"none", "member", "admin", "owner"}]
             /\ \A u \in Users : member'[u] = member[u] \/ Leaves(u)
  <2>1. target[p] # Creator \/ Creator \notin alive
    BY <1>2 DEF DeleteMembership, RemoveOK
  <2>2. alive' = alive /\ held' = held /\ member' = [member EXCEPT ![target[p]] = "none"]
    BY <1>2 DEF DeleteMembership
  <2> QED
    BY <2>1, <2>2 DEF TypeOK, Leaves
<1>3. ASSUME NEW u \in Users, DeleteUser(u)
      PROVE  /\ alive' \subseteq alive /\ held' = held
             /\ member' \in [Users -> {"none", "member", "admin", "owner"}]
             /\ \A v \in Users : member'[v] = member[v] \/ Leaves(v)
             /\ Creator \notin alive' /\ Creator \in alive => \A v \in Users : member'[v] = "none"
  BY <1>3 DEF DeleteUser, TypeOK, Leaves
<1>4. ASSUME NEW u \in Users, NEW a \in Addresses, ChangeEmail(u, a)
      PROVE  alive' = alive /\ held \subseteq held' /\ member' = member
  BY <1>4 DEF ChangeEmail
<1>5. ASSUME NEW p \in Requests, Request(p), ~AcceptCommit(p), ~DeleteMembership(p)
      PROVE  alive' = alive /\ held' = held /\ member' = member
  BY <1>5 DEF Request, Invite, CheckNotMember, SupersedePending, CreateInvitation, AcceptInvitation,
              ReadInvitation, ReadMembership, RemoveMember, CheckTarget, Refused, Begin
<1>6. CASE UNCHANGED vars
  BY <1>6 DEF vars, TypeOK
<1> QED
  BY <1>1, <1>2, <1>3, <1>4, <1>5, <1>6 DEF Next, TypeOK

\* What a step does to each request: nothing, an end, a start, or one statement.
LEMMA LocalsStep ==
    ASSUME IInv, [Next]_vars
    PROVE  /\ LocalsOK'
           /\ pc' \in [Requests -> {"idle", "check", "supersede", "create", "read", "existing",
                                    "accept", "target", "delete"}]
           /\ actor' \in [Requests -> Users \union {None}]
           /\ target' \in [Requests -> Users \union Addresses \union {None}]
           /\ token' \in [Requests -> Invitations \union {None}]
           /\ grant' \in [Requests -> InviteRoles \union {"none"}]
           /\ was' \in [Requests -> {"none", "member", "admin", "owner"}]
<1> USE DEF IInv, TypeOK, LocalsOK, Inviting, Accepting, requestVars, tableVars
<1> DEFINE Fine == /\ LocalsOK'
                   /\ pc' \in [Requests -> {"idle", "check", "supersede", "create", "read", "existing",
                                            "accept", "target", "delete"}]
                   /\ actor' \in [Requests -> Users \union {None}]
                   /\ target' \in [Requests -> Users \union Addresses \union {None}]
                   /\ token' \in [Requests -> Invitations \union {None}]
                   /\ grant' \in [Requests -> InviteRoles \union {"none"}]
                   /\ was' \in [Requests -> {"none", "member", "admin", "owner"}]
<1>1. CASE UNCHANGED requestVars
  BY <1>1
<1>2. ASSUME NEW p \in Requests, End(p) PROVE Fine
  BY <1>2 DEF End, Goto
<1>3. ASSUME NEW p \in Requests, NEW u \in Users, NEW a \in Addresses, NEW r \in InviteRoles,
             Invite(p, u, a, r)
      PROVE  Fine
  BY <1>3 DEF Invite, Begin, Goto
<1>4. ASSUME NEW p \in Requests, NEW u \in Users, NEW i \in Invitations, AcceptInvitation(p, u, i)
      PROVE  Fine
  BY <1>4 DEF AcceptInvitation, Begin, Goto
<1>5. ASSUME NEW p \in Requests, NEW u \in Users, NEW v \in Users, RemoveMember(p, u, v)
      PROVE  Fine
  BY <1>5 DEF RemoveMember, Begin, Goto
<1>6. ASSUME NEW p \in Requests, CheckNotMember(p) \/ SupersedePending(p) PROVE Fine
  BY <1>6 DEF CheckNotMember, SupersedePending, Goto
<1>7. ASSUME NEW p \in Requests, ReadInvitation(p) PROVE Fine
  <2>1. token[p] \in Invitations /\ inv[token[p]] \in Invitation
    BY <1>7 DEF ReadInvitation, NoInvitation
  <2>2. inv[token[p]].role \in InviteRoles
    BY <2>1 DEF Invitation
  <2> QED
    BY <1>7, <2>2 DEF ReadInvitation, Goto
<1>8. ASSUME NEW p \in Requests, ReadMembership(p) PROVE Fine
  <2>1. member[actor[p]] \in {"none", "member", "admin", "owner"}
    BY <1>8 DEF ReadMembership
  <2> QED
    BY <1>8, <2>1 DEF ReadMembership, Goto
<1>9. ASSUME NEW p \in Requests, CheckTarget(p) PROVE Fine
  BY <1>9 DEF CheckTarget, Goto
<1>10. ASSUME NEW p \in Requests, CreateInvitation(p) \/ AcceptCommit(p) \/ DeleteMembership(p) \/ Refused(p)
       PROVE  End(p)
  BY <1>10 DEF CreateInvitation, AcceptCommit, DeleteMembership, Refused
<1>11. ASSUME NEW u \in Users, DeleteUser(u) \/ \E a \in Addresses : ChangeEmail(u, a)
       PROVE  UNCHANGED requestVars
  BY <1>11 DEF DeleteUser, ChangeEmail
<1> QED
  BY <1>1, <1>2, <1>3, <1>4, <1>5, <1>6, <1>7, <1>8, <1>9, <1>10, <1>11 DEF Next, Request, vars

\* Every action keeps the variables in their types, and knows each address.
LEMMA TypeStep ==
    ASSUME IInv, [Next]_vars PROVE TypeOK' /\ AddressesHeld'
<1> USE DEF IInv
<1>1. /\ address' \in [Users -> Addresses]
      /\ held' \subseteq Users \X Addresses
      /\ AddressesHeld'
  <2>1. CASE UNCHANGED <<address, held>>
    BY <2>1 DEF TypeOK, AddressesHeld
  <2>2. ASSUME NEW u \in Users, NEW a \in Addresses, ChangeEmail(u, a)
        PROVE  /\ address' \in [Users -> Addresses]
               /\ held' \subseteq Users \X Addresses
               /\ AddressesHeld'
    BY <2>2 DEF ChangeEmail, TypeOK, AddressesHeld
  <2>3. ASSUME NEW p \in Requests, Request(p) PROVE UNCHANGED <<address, held>>
    BY <2>3 DEF Request, Invite, CheckNotMember, SupersedePending, CreateInvitation,
                AcceptInvitation, ReadInvitation, ReadMembership, AcceptCommit, RemoveMember,
                CheckTarget, DeleteMembership, Refused, Begin, tableVars
  <2>4. ASSUME NEW u \in Users, DeleteUser(u) PROVE UNCHANGED <<address, held>>
    BY <2>4 DEF DeleteUser
  <2> QED
    BY <2>1, <2>2, <2>3, <2>4 DEF Next, vars, tableVars
<1>2. alive' \subseteq Users
  BY MemberRoleStep DEF TypeOK
<1> QED
  BY <1>1, <1>2, MemberRoleStep, LocalsStep, RowStep DEF TypeOK

\* What an acceptance under way has read stays true of the row and the account.
LEMMA AcceptStep ==
    ASSUME IInv, [Next]_vars PROVE AcceptOK'
<1> USE DEF IInv
<1> DEFINE Fine(p) ==
      Accepting(p)' =>
        /\ inv'[token'[p]] # NoInvitation
        /\ <<actor'[p], target'[p]>> \in held'
        /\ pc'[p] # "read" => /\ inv'[token'[p]].addr = target'[p]
                              /\ inv'[token'[p]].role = grant'[p]
        /\ pc'[p] = "accept" /\ actor'[p] = Creator => was'[p] = "owner" \/ Creator \notin alive'
<1> SUFFICES ASSUME NEW p \in Requests PROVE Fine(p)
  BY DEF AcceptOK
<1>1. RowsKept /\ held \subseteq held' /\ alive' \subseteq alive
  BY RowStep, MemberRoleStep
<1>2. Accepting(p) => /\ token[p] \in Invitations
                      /\ inv[token[p]] # NoInvitation
                      /\ <<actor[p], target[p]>> \in held
                      /\ pc[p] # "read" => /\ inv[token[p]].addr = target[p]
                                           /\ inv[token[p]].role = grant[p]
                      /\ pc[p] = "accept" /\ actor[p] = Creator =>
                            was[p] = "owner" \/ Creator \notin alive
  BY DEF AcceptOK, LocalsOK
<1>3. CASE /\ pc'[p] = pc[p] /\ actor'[p] = actor[p] /\ target'[p] = target[p]
           /\ token'[p] = token[p] /\ grant'[p] = grant[p] /\ was'[p] = was[p]
  BY <1>1, <1>2, <1>3 DEF RowsKept, Accepting
<1>4. CASE pc'[p] \in {"idle", "check", "supersede", "create", "target", "delete"}
  BY <1>4 DEF Accepting
<1>5. ASSUME NEW u \in Users, NEW i \in Invitations, AcceptInvitation(p, u, i) PROVE Fine(p)
  <2>1. /\ inv[i] # NoInvitation /\ pc'[p] = "read" /\ token'[p] = i
        /\ actor'[p] = u /\ target'[p] = address[u]
    BY <1>5 DEF AcceptInvitation, Begin, Goto, TypeOK
  <2>2. <<u, address[u]>> \in held
    BY DEF AddressesHeld
  <2> QED
    BY <1>1, <2>1, <2>2 DEF RowsKept
<1>6. CASE ReadInvitation(p)
  <2>1. /\ pc[p] = "read" /\ pc'[p] = "existing" /\ inv[token[p]].addr = target[p]
        /\ grant'[p] = inv[token[p]].role
        /\ UNCHANGED <<actor, target, token>>
    BY <1>6 DEF ReadInvitation, Goto, EmailMatches, TypeOK
  <2> QED
    BY <1>1, <1>2, <2>1 DEF RowsKept, Accepting
<1>7. CASE ReadMembership(p)
  <2>1. /\ pc[p] = "existing" /\ pc'[p] = "accept" /\ was'[p] = member[actor[p]]
        /\ UNCHANGED <<actor, target, token, grant>>
    BY <1>7 DEF ReadMembership, Goto, TypeOK
  <2>2. actor[p] = Creator => was'[p] = "owner" \/ Creator \notin alive
    BY <2>1, MembershipAssumption DEF SoleOwner
  <2> QED
    BY <1>1, <1>2, <2>1, <2>2 DEF RowsKept, Accepting
<1>8. ASSUME NEW q \in Requests, Request(q), q # p
      PROVE  /\ pc'[p] = pc[p] /\ actor'[p] = actor[p] /\ target'[p] = target[p]
             /\ token'[p] = token[p] /\ grant'[p] = grant[p] /\ was'[p] = was[p]
  BY <1>8 DEF Request, Invite, CheckNotMember, SupersedePending, CreateInvitation,
              AcceptInvitation, ReadInvitation, ReadMembership, AcceptCommit, RemoveMember,
              CheckTarget, DeleteMembership, Refused, Begin, End, Goto, TypeOK
<1>9. ASSUME Request(p), ~ReadInvitation(p), ~ReadMembership(p),
             ~\E u \in Users, i \in Invitations : AcceptInvitation(p, u, i)
      PROVE  pc'[p] \in {"idle", "check", "supersede", "create", "target", "delete"}
  BY <1>9 DEF Request, Invite, CheckNotMember, SupersedePending, CreateInvitation,
              AcceptCommit, RemoveMember, CheckTarget, DeleteMembership, Refused, Begin, End,
              Goto, TypeOK
<1>10. ASSUME UNCHANGED requestVars
       PROVE  /\ pc'[p] = pc[p] /\ actor'[p] = actor[p] /\ target'[p] = target[p]
              /\ token'[p] = token[p] /\ grant'[p] = grant[p] /\ was'[p] = was[p]
  BY <1>10 DEF requestVars
<1>11. ASSUME NEW u \in Users, DeleteUser(u) \/ \E a \in Addresses : ChangeEmail(u, a)
       PROVE  UNCHANGED requestVars
  BY <1>11 DEF DeleteUser, ChangeEmail
<1> QED
  BY <1>3, <1>4, <1>5, <1>6, <1>7, <1>8, <1>9, <1>10, <1>11 DEF Next, vars

\* The owner passes no check of the last owner, and does not become one later.
LEMMA RemoveStep ==
    ASSUME IInv, [Next]_vars PROVE RemoveOK'
<1> USE DEF IInv
<1> SUFFICES ASSUME NEW p \in Requests, pc'[p] = "delete"
             PROVE  target'[p] # Creator \/ Creator \notin alive'
  BY DEF RemoveOK
<1>1. alive' \subseteq alive
  BY MemberRoleStep
<1>2. CASE CheckTarget(p)
  <2>1. target'[p] = target[p] /\ ~LastOwner(target[p])
    BY <1>2 DEF CheckTarget, KeptOwner
  <2>2. LastOwner(Creator) \/ Creator \notin alive
    BY OwnersCounted, MembershipAssumption DEF LastOwner, SoleOwner
  <2> QED
    BY <1>1, <2>1, <2>2
<1>3. CASE pc[p] = "delete" /\ target'[p] = target[p]
  BY <1>1, <1>3 DEF RemoveOK
<1>4. ASSUME NEW q \in Requests, Request(q), ~CheckTarget(p)
      PROVE  pc[p] = "delete" /\ target'[p] = target[p]
  BY <1>4 DEF Request, Invite, CheckNotMember, SupersedePending, CreateInvitation,
              AcceptInvitation, ReadInvitation, ReadMembership, AcceptCommit, RemoveMember,
              CheckTarget, DeleteMembership, Refused, Begin, End, Goto, TypeOK
<1>5. ASSUME UNCHANGED requestVars
      PROVE  pc[p] = "delete" /\ target'[p] = target[p]
  BY <1>5 DEF requestVars
<1>6. ASSUME NEW u \in Users, DeleteUser(u) \/ \E a \in Addresses : ChangeEmail(u, a)
      PROVE  UNCHANGED requestVars
  BY <1>6 DEF DeleteUser, ChangeEmail
<1> QED
  BY <1>2, <1>3, <1>4, <1>5, <1>6 DEF Next, vars

\* Roles stay where an invitation put them, and the owner's with the creator.
LEMMA MembersStep ==
    ASSUME IInv, [Next]_vars PROVE SoleOwner' /\ Earned'
<1> USE MembershipAssumption DEF IInv
<1>1. /\ alive' \subseteq alive
      /\ held \subseteq held'
      /\ \A u \in Users : member'[u] = member[u] \/ Leaves(u) \/ Joins(u)
      /\ Creator \notin alive' /\ Creator \in alive => \A u \in Users : member'[u] = "none"
  BY MemberRoleStep
<1>2. SoleOwner'
  <2> SUFFICES ASSUME NEW u \in Users
               PROVE  member'[u] = "owner" <=> u = Creator /\ Creator \in alive'
    BY DEF SoleOwner
  <2>1. CASE member'[u] = member[u]
    BY <1>1, <2>1 DEF SoleOwner
  <2>2. CASE Leaves(u)
    BY <2>2 DEF Leaves
  <2>3. CASE Joins(u)
    <3>1. u # Creator
      BY <2>3 DEF Joins
    <3>2. member'[u] \in InviteRoles
      BY <2>3 DEF Joins, TypeOK, Invitation
    <3> QED
      BY <3>1, <3>2 DEF InviteRoles
  <2> QED
    BY <1>1, <2>1, <2>2, <2>3
<1>3. Earned'
  <2> SUFFICES ASSUME NEW u \in Users \ {Creator}, member'[u] # "none"
               PROVE  \E i \in Invitations :
                         inv'[i].role = member'[u] /\ <<u, inv'[i].addr>> \in held'
    BY DEF Earned
  <2>1. PICK i \in Invitations : /\ inv[i] # NoInvitation
                                 /\ inv[i].role = member'[u]
                                 /\ <<u, inv[i].addr>> \in held
    <3>1. CASE member'[u] = member[u]
      BY <3>1 DEF Earned, NoInvitation
    <3>2. CASE Joins(u)
      BY <3>2 DEF Joins
    <3> QED
      BY <1>1, <3>1, <3>2 DEF Leaves
  <2> QED
    BY <1>1, <2>1, RowStep DEF RowsKept
<1> QED
  BY <1>2, <1>3

-----------------------------------------------------------------------------
(* The theorems.                                                           *)

\* The invariant is inductive: a step of any request, change of address or
\* deletion of an account keeps all of its parts.
THEOREM Inductive == Spec => []IInv
<1>1. IInv /\ [Next]_vars => IInv'
  BY TypeStep, LocalsStep, AcceptStep, RemoveStep, MembersStep DEF IInv
<1> QED
  BY <1>1, InitInv, PTL DEF Spec

\* The variables of the membership model keep their types.
THEOREM TypeCorrect == Spec => []TypeOK
<1>1. IInv => TypeOK
  BY DEF IInv
<1> QED
  BY <1>1, Inductive, PTL

\* As long as the creator's account exists the organization has an owner, and
\* nobody else ever becomes one (OrgInviteRank, the last-owner check).
THEOREM SoleOwnerHolds == Spec => []SoleOwner
<1>1. IInv => SoleOwner
  BY DEF IInv
<1> QED
  BY <1>1, Inductive, PTL

\* A role comes from an invitation to it, sent to an address of the member's
\* (the e-mail check of AcceptOrganizationInvitation).
THEOREM EarnedHolds == Spec => []Earned
<1>1. IInv => Earned
  BY DEF IInv
<1> QED
  BY <1>1, Inductive, PTL

\* However stale the membership an acceptance has read, what it writes is not a
\* lower role (the rank comparison and the primary key of the INSERT).
THEOREM NeverDemotedHolds == Spec => NeverDemoted
<1>1. IInv /\ [Next]_vars =>
        [\A u \in Users : member[u] \in Managers => member'[u] \in {member[u], "none"}]_vars
  BY MemberRoleStep DEF Joins, Leaves, Managers
<1> QED
  BY <1>1, Inductive, PTL DEF Spec, NeverDemoted

-----------------------------------------------------------------------------
(* The rate limiter.                                                       *)

\* Requests let through from a time until now, and what a stretch of time allows
\* beyond a burst.
Since(w, from) == passed[w][now] - Before(w, from)
Allowance(d) == Earns(d) + Renewals(d) * Gift
StrayAllowance(d) == Cardinality(Slots) * (2 + d \div IdleLimit)

\* The counts only grow, and nothing has passed in the future.
HistoryOK ==
    \A w \in Ways, t \in Times :
        /\ now <= t => passed[w][t] = passed[w][now]
        /\ \A s \in Times : s <= t => passed[w][s] <= passed[w][t]

BucketsOK ==
    /\ \A b \in Buckets : bucket[b].last <= now
    /\ \A p \in Slots : at[p].step = "take" => at[p].on \in Buckets

\* What passed since a time and what the bucket r still holds: a burst, and what
\* was earned up to the last refill.  Without a refill, no token is spent later
\* than the time it takes to earn one.
WithinBurst(r) ==
    \A from \in 0 .. now :
        IF from <= r.last
        THEN Since("bucket", from) + r.tokens <= BurstSize + Allowance(r.last - from)
        ELSE /\ Since("bucket", from) + r.tokens <= BurstSize
             /\ Since("bucket", from) = 0 \/ from < r.last + Unit

\* A bucket is forgotten only when the time since allows a new burst.
BucketInv ==
    IF attached = NoBucket
    THEN \A from \in 0 .. now : Since("bucket", from) <= Allowance(now - from)
    ELSE WithinBurst(bucket[attached])

\* Requests that hold a bucket that is not, or no longer, in the map.
Strays == {p \in Slots : at[p].step = "take" /\ at[p].on # attached}

\* Tokens taken from forgotten buckets and those that may still be: with a bucket
\* in the map, all but the request that put it there may hold an older one, and
\* after its last refill nothing is forgotten.
StraysWithin(n, refilled) ==
    \A from \in 0 .. now :
        Since("stray", from) + n <
            (IF from <= refilled THEN StrayAllowance(refilled - from) ELSE Cardinality(Slots))

StrayInv ==
    IF attached = NoBucket
    THEN StraysWithin(Cardinality(Strays), now)
    ELSE /\ Cardinality(Strays) < Cardinality(Slots)
         /\ StraysWithin(Cardinality(Strays), bucket[attached].last)

\* The window of the counter, and the stretch of a window's length before it.
WindowInv ==
    IF counter = NoCounter
    THEN /\ Since("redis", now) = 0
         /\ \A from \in 0 .. now : now - Window < from => Since("redis", from) <= RequestsPerMinute
    ELSE LET start == counter.ends - Window IN
         /\ start \in 0 .. now /\ now < counter.ends
         /\ Since("redis", start) <= RequestsPerMinute
         /\ Since("redis", start) <= counter.count
         /\ \A from \in 0 .. start : start - Window < from =>
               Before("redis", start) - Before("redis", from) <= RequestsPerMinute

\* The budgets of the stretches of time that are over.
Settled ==
    /\ \A from, to \in Times : from <= to /\ to < now =>
          /\ Through("bucket", from, to) <= BurstSize + Allowance(to - from)
          /\ Through("stray", from, to) < StrayAllowance(to - from)
    /\ \A from \in Times : from + Window - 1 < now =>
          Through("redis", from, from + Window - 1) <= 2 * RequestsPerMinute

LimiterInv ==
    /\ LimiterTypeOK /\ HistoryOK /\ BucketsOK
    /\ BucketInv /\ StrayInv /\ WindowInv
    /\ Settled

\* What is known of a quotient.
LEMMA Quotient ==
    ASSUME NEW a \in Nat
    PROVE  /\ a \div Unit \in Nat
           /\ Unit * (a \div Unit) <= a
           /\ a < Unit * (a \div Unit) + Unit
BY LimiterAssumption

LEMMA QuotientsCompare ==
    ASSUME NEW p \in Nat, NEW q \in Nat, Unit * p < Unit * q + Unit
    PROVE  p <= q
<1> SUFFICES ASSUME ~(p <= q) PROVE FALSE
  OBVIOUS
<1>1. PICK d \in Nat : p = q + 1 + d
  <2>1. p - q - 1 \in Nat /\ p = q + 1 + (p - q - 1)
    OBVIOUS
  <2> QED
    BY <2>1
<1>2. Unit * p = Unit * q + Unit + Unit * d
  BY <1>1, LimiterAssumption
<1>3. Unit * d \in Nat /\ Unit * p \in Nat /\ Unit * q \in Nat
  BY <1>1, LimiterAssumption
<1> QED
  BY <1>2, <1>3, LimiterAssumption

LEMMA SmallerOfTwo ==
    ASSUME NEW a \in Int, NEW b \in Int
    PROVE  Min({a, b}) = IF a <= b THEN a ELSE b
<1>1. \E x \in {a, b} : \A y \in {a, b} : x <= y
  OBVIOUS
<1>2. Min({a, b}) \in {a, b} /\ \A y \in {a, b} : Min({a, b}) <= y
  BY <1>1 DEF Min
<1> QED
  BY <1>2

LEMMA LargerOfTwo ==
    ASSUME NEW a \in Int, NEW b \in Int
    PROVE  Max({a, b}) = IF a <= b THEN b ELSE a
<1>1. \E x \in {a, b} : \A y \in {a, b} : x >= y
  OBVIOUS
<1>2. Max({a, b}) \in {a, b} /\ \A y \in {a, b} : Max({a, b}) >= y
  BY <1>1 DEF Max
<1> QED
  BY <1>2

LEMMA ProductGrows ==
    ASSUME NEW m \in Nat, NEW n \in Nat, NEW g \in Nat, m <= n
    PROVE  m * g <= n * g /\ (m + 1 <= n => m * g + g <= n * g)
<1>1. PICK d \in Nat : n = m + d
  <2>1. n - m \in Nat /\ n = m + (n - m)
    OBVIOUS
  <2> QED
    BY <2>1
<1>2. n * g = m * g + d * g /\ m * g \in Nat /\ d * g \in Nat
  BY <1>1
<1>3. ASSUME m + 1 <= n PROVE m * g + g <= n * g
  <2>1. PICK k \in Nat : d = k + 1
    <3>1. d - 1 \in Nat /\ d = (d - 1) + 1
      BY <1>1, <1>3
    <3> QED
      BY <3>1
  <2>2. d * g = k * g + g /\ k * g \in Nat
    BY <2>1
  <2> QED
    BY <1>2, <2>2
<1> QED
  BY <1>2, <1>3

LEMMA EarnsNat == ASSUME NEW d \in Nat PROVE Earns(d) \in Nat
<1>1. d + Unit - 1 \in Nat
  BY LimiterAssumption
<1> QED
  BY <1>1, Quotient DEF Earns

\* Two stretches of time earn no more than the two together.
LEMMA EarnsMore ==
    ASSUME NEW c \in Nat, NEW d \in Nat
    PROVE  Earns(c) + (d \div Unit) <= Earns(c + d)
<1> DEFINE x == c + Unit - 1
           y == c + d + Unit - 1
           p == x \div Unit
           q == d \div Unit
           r == y \div Unit
<1>1. x \in Nat /\ y \in Nat /\ y = x + d /\ Unit \in Nat /\ Unit > 0
  BY LimiterAssumption
<1>2. p \in Nat /\ Unit * p <= x
  BY <1>1, Quotient
<1>3. q \in Nat /\ Unit * q <= d
  BY Quotient
<1>4. r \in Nat /\ y < Unit * r + Unit
  BY <1>1, Quotient
<1>5. Earns(c) = p /\ Earns(c + d) = r
  BY DEF Earns
<1> HIDE DEF x, y, p, q, r
<1>6. Unit * (p + q) = Unit * p + Unit * q
  BY <1>1, <1>2, <1>3
<1>7. Unit * p \in Nat /\ Unit * q \in Nat /\ Unit * r \in Nat
  BY <1>1, <1>2, <1>3, <1>4
<1>8. Unit * (p + q) < Unit * r + Unit
  BY <1>1, <1>2, <1>3, <1>4, <1>6, <1>7
<1>9. p + q <= r
  BY <1>2, <1>3, <1>4, <1>8, QuotientsCompare
<1> QED
  BY <1>5, <1>9 DEF q

LEMMA EarnsGrow ==
    ASSUME NEW c \in Nat, NEW d \in Nat, c <= d
    PROVE  Earns(c) <= Earns(d)
<1>1. d - c \in Nat /\ c + (d - c) = d
  OBVIOUS
<1>2. (d - c) \div Unit \in Nat
  BY <1>1, Quotient
<1>3. Earns(c) \in Nat /\ Earns(d) \in Nat
  BY EarnsNat
<1>4. Earns(c) + ((d - c) \div Unit) <= Earns(c + (d - c))
  BY <1>1, EarnsMore
<1> QED
  BY <1>1, <1>2, <1>3, <1>4

\* All that was earned, when less than a token's time is left out.
LEMMA EarnsWithin ==
    ASSUME NEW c \in Nat, NEW d \in Nat, d < c + Unit
    PROVE  d \div Unit <= Earns(c)
<1> DEFINE x == c + Unit - 1
           p == d \div Unit
           q == x \div Unit
<1>1. x \in Nat /\ d <= x /\ Unit \in Nat
  BY LimiterAssumption
<1>2. p \in Nat /\ Unit * p <= d
  BY Quotient
<1>3. q \in Nat /\ x < Unit * q + Unit
  BY <1>1, Quotient
<1>4. Earns(c) = q
  BY DEF Earns
<1> HIDE DEF x, p, q
<1>5. Unit * p \in Nat /\ Unit * q \in Nat
  BY <1>1, <1>2, <1>3
<1>6. p <= q
  BY <1>1, <1>2, <1>3, <1>5, QuotientsCompare
<1> QED
  BY <1>4, <1>6 DEF p

\* A bucket renewed after its idle time: what the time has earned and the gift
\* make up a burst.
LEMMA GiftCompletes ==
    /\ Gift \in Nat
    /\ \A d \in Nat : IdleLimit < d => BurstSize <= (d \div Unit) + Gift
<1>1. BurstSize \in Nat /\ IdleLimit \in Nat /\ Unit \in Nat \ {0}
  BY LimiterAssumption
<1>2. PICK i : i = IdleLimit \div Unit
  OBVIOUS
<1>3. i \in Nat /\ Unit * i <= IdleLimit
  BY <1>1, <1>2, Quotient
<1>4. Gift \in Nat /\ BurstSize - i <= Gift
  <2>1. BurstSize - i \in Int
    BY <1>1, <1>3
  <2>2. Gift = Max({BurstSize - i, 0})
    BY <1>2 DEF Gift
  <2>3. Max({BurstSize - i, 0}) = IF BurstSize - i <= 0 THEN 0 ELSE BurstSize - i
    BY <2>1, LargerOfTwo
  <2> QED
    BY <1>1, <1>3, <2>1, <2>2, <2>3
<1>5. ASSUME NEW d \in Nat, IdleLimit < d PROVE BurstSize <= (d \div Unit) + Gift
  <2>1. PICK q : q = d \div Unit
    OBVIOUS
  <2>2. q \in Nat /\ d < Unit * q + Unit
    BY <2>1, Quotient
  <2>3. Unit * i \in Nat /\ Unit * q \in Nat
    BY <1>1, <1>3, <2>2
  <2>4. i <= q
    BY <1>1, <1>3, <1>5, <2>2, <2>3, QuotientsCompare
  <2> QED
    BY <1>1, <1>3, <1>4, <2>1, <2>2, <2>4
<1> QED
  BY <1>4, <1>5

\* Idle times fit into a stretch of time at most as often as it is long.
LEMMA IdleQuotient ==
    ASSUME NEW a \in Nat
    PROVE  /\ a \div IdleLimit \in Nat
           /\ IdleLimit * (a \div IdleLimit) <= a
           /\ a < IdleLimit * (a \div IdleLimit) + IdleLimit
BY LimiterAssumption

LEMMA IdleGrows ==
    ASSUME NEW a \in Nat, NEW b \in Nat, a <= b
    PROVE  /\ (a \div IdleLimit) <= (b \div IdleLimit)
           /\ a + IdleLimit <= b => (a \div IdleLimit) + 1 <= (b \div IdleLimit)
<1>1. PICK p, q : p = a \div IdleLimit /\ q = b \div IdleLimit
  OBVIOUS
<1>2. /\ p \in Nat /\ q \in Nat /\ IdleLimit \in Nat \ {0}
      /\ IdleLimit * p <= a /\ b < IdleLimit * q + IdleLimit
  BY <1>1, IdleQuotient, LimiterAssumption
<1>3. ASSUME NEW d \in Nat, p = q + 1 + d PROVE IdleLimit * p >= IdleLimit * q + IdleLimit
  <2>1. IdleLimit * p = IdleLimit * q + IdleLimit + IdleLimit * d
    BY <1>2, <1>3
  <2>2. IdleLimit * d \in Nat /\ IdleLimit * q \in Nat
    BY <1>2, <1>3
  <2> QED
    BY <1>2, <2>1, <2>2
<1>4. IdleLimit * p \in Nat /\ IdleLimit * q \in Nat
  BY <1>2
<1>5. p <= q
  <2> SUFFICES ASSUME ~(p <= q) PROVE FALSE
    OBVIOUS
  <2>1. p - q - 1 \in Nat /\ p = q + 1 + (p - q - 1)
    BY <1>2
  <2>2. IdleLimit * p >= IdleLimit * q + IdleLimit
    BY <1>3, <2>1
  <2> QED
    BY <1>2, <1>4, <2>2
<1>6. ASSUME a + IdleLimit <= b PROVE p + 1 <= q
  <2> SUFFICES ASSUME p = q PROVE FALSE
    BY <1>2, <1>5
  <2> QED
    BY <1>2, <1>4, <1>6
<1> QED
  BY <1>1, <1>5, <1>6

\* The allowance grows with time: by what more time earns, and by a burst with
\* every idle time.
LEMMA AllowanceNat ==
    ASSUME NEW d \in Nat
    PROVE  Allowance(d) \in Nat /\ Renewals(d) \in Nat /\ Renewals(d) * Gift \in Nat
<1>1. d + Unit - 1 \in Nat
  BY LimiterAssumption
<1>2. Renewals(d) \in Nat
  BY <1>1, IdleQuotient DEF Renewals
<1>3. Gift \in Nat /\ Earns(d) \in Nat
  BY GiftCompletes, EarnsNat
<1>4. Renewals(d) * Gift \in Nat
  BY <1>2, <1>3
<1> QED
  BY <1>2, <1>3, <1>4 DEF Allowance

LEMMA AllowanceMore ==
    ASSUME NEW c \in Nat, NEW d \in Nat
    PROVE  /\ Allowance(c) + (d \div Unit) <= Allowance(c + d)
           /\ IdleLimit < d => Allowance(c) + BurstSize <= Allowance(c + d)
<1>1. Earns(c) + (d \div Unit) <= Earns(c + d)
  BY EarnsMore
<1>2. PICK g, m, n, x, y, q :
         /\ g = Gift /\ m = Renewals(c) /\ n = Renewals(c + d)
         /\ x = Earns(c) /\ y = Earns(c + d) /\ q = d \div Unit
  OBVIOUS
<1>3. /\ c + d \in Nat /\ x \in Nat /\ y \in Nat /\ m \in Nat /\ n \in Nat /\ g \in Nat
      /\ q \in Nat /\ BurstSize \in Nat
  BY <1>2, EarnsNat, AllowanceNat, GiftCompletes, Quotient, LimiterAssumption
<1>4. m <= n /\ (IdleLimit < d => m + 1 <= n)
  <2>1. /\ c + Unit - 1 \in Nat /\ c + d + Unit - 1 \in Nat /\ IdleLimit \in Nat
        /\ c + Unit - 1 <= c + d + Unit - 1
        /\ IdleLimit < d => c + Unit - 1 + IdleLimit <= c + d + Unit - 1
    BY LimiterAssumption
  <2> QED
    BY <1>2, <2>1, IdleGrows DEF Renewals
<1>5. m * g <= n * g /\ (m + 1 <= n => m * g + g <= n * g)
  BY <1>3, <1>4, ProductGrows
<1>6. m * g \in Nat /\ n * g \in Nat
  BY <1>3
<1>7. IdleLimit < d => BurstSize <= q + g
  BY <1>2, GiftCompletes
<1>8. Allowance(c) = x + m * g /\ Allowance(c + d) = y + n * g
  BY <1>2 DEF Allowance
<1> QED
  BY <1>1, <1>2, <1>3, <1>4, <1>5, <1>6, <1>7, <1>8

LEMMA AllowanceGrows ==
    ASSUME NEW c \in Nat, NEW d \in Nat, c <= d
    PROVE  Allowance(c) <= Allowance(d)
<1>1. d - c \in Nat /\ c + (d - c) = d
  OBVIOUS
<1>2. (d - c) \div Unit \in Nat
  BY <1>1, Quotient
<1>3. Allowance(c) \in Nat /\ Allowance(d) \in Nat
  BY AllowanceNat
<1>4. Allowance(c) + ((d - c) \div Unit) <= Allowance(c + (d - c))
  BY <1>1, AllowanceMore
<1> QED
  BY <1>1, <1>2, <1>3, <1>4

LEMMA AllowanceWithin ==
    ASSUME NEW c \in Nat, NEW d \in Nat, d < c + Unit
    PROVE  /\ d \div Unit <= Allowance(c)
           /\ IdleLimit < d => BurstSize <= Allowance(c)
<1>1. d \div Unit <= Earns(c)
  BY EarnsWithin
<1>2. PICK g, m, x, q : g = Gift /\ m = Renewals(c) /\ x = Earns(c) /\ q = d \div Unit
  OBVIOUS
<1>3. /\ x \in Nat /\ m \in Nat /\ g \in Nat /\ q \in Nat /\ BurstSize \in Nat /\ m * g \in Nat
  BY <1>2, EarnsNat, AllowanceNat, GiftCompletes, Quotient, LimiterAssumption
<1>4. IdleLimit < d => 1 <= m
  <2> SUFFICES ASSUME IdleLimit < d PROVE 1 <= m
    OBVIOUS
  <2>1. c + Unit - 1 \in Nat /\ 0 + IdleLimit <= c + Unit - 1 /\ IdleLimit \in Nat \ {0}
    BY LimiterAssumption
  <2>2. 0 \div IdleLimit \in Nat
    BY IdleQuotient
  <2>3. (0 \div IdleLimit) + 1 <= (c + Unit - 1) \div IdleLimit
    BY <2>1, IdleGrows
  <2> QED
    BY <1>2, <1>3, <2>2, <2>3 DEF Renewals
<1>5. 0 * g <= m * g /\ (0 + 1 <= m => 0 * g + g <= m * g) /\ 0 * g = 0
  BY <1>3, ProductGrows
<1>6. IdleLimit < d => BurstSize <= q + g
  BY <1>2, GiftCompletes
<1>7. Allowance(c) = x + m * g
  BY <1>2 DEF Allowance
<1> QED
  BY <1>1, <1>2, <1>3, <1>4, <1>5, <1>6, <1>7

-----------------------------------------------------------------------------

\* What may be taken from forgotten buckets grows with time, by a token for each
\* request with every idle time.
LEMMA StrayAllowanceMore ==
    ASSUME NEW c \in Nat, NEW d \in Nat, c <= d
    PROVE  /\ StrayAllowance(c) \in Nat /\ StrayAllowance(d) \in Nat
           /\ Cardinality(Slots) \in Nat \ {0}
           /\ Cardinality(Slots) + Cardinality(Slots) <= StrayAllowance(c)
           /\ StrayAllowance(c) <= StrayAllowance(d)
           /\ c + IdleLimit <= d =>
                 StrayAllowance(c) + Cardinality(Slots) <= StrayAllowance(d)
<1>1. Cardinality(Slots) \in Nat \ {0}
  BY LimiterAssumption, FS_CardinalityType, FS_EmptySet
<1>2. PICK n, p, q : /\ n = Cardinality(Slots)
                     /\ p = c \div IdleLimit /\ q = d \div IdleLimit
  OBVIOUS
<1>3. n \in Nat \ {0} /\ p \in Nat /\ q \in Nat /\ p <= q /\ (c + IdleLimit <= d => p + 1 <= q)
  BY <1>1, <1>2, IdleQuotient, IdleGrows
<1>4. p * n <= q * n /\ (p + 1 <= q => p * n + n <= q * n)
  BY <1>3, ProductGrows
<1>5. /\ StrayAllowance(c) = n + n + p * n /\ StrayAllowance(d) = n + n + q * n
      /\ p * n \in Nat /\ q * n \in Nat
  BY <1>2, <1>3 DEF StrayAllowance
<1> QED
  BY <1>1, <1>2, <1>3, <1>4, <1>5

\* Strays are among the requests, and those that are none are missing there.
LEMMA StraysCounted ==
    /\ IsFiniteSet(Strays) /\ Cardinality(Strays) \in Nat
    /\ Cardinality(Slots) \in Nat \ {0}
    /\ Cardinality(Strays) <= Cardinality(Slots)
    /\ \A p \in Slots : p \notin Strays => Cardinality(Strays) < Cardinality(Slots)
<1>1. Strays \subseteq Slots /\ IsFiniteSet(Slots)
  BY LimiterAssumption DEF Strays
<1>2. /\ IsFiniteSet(Strays) /\ Cardinality(Strays) \in Nat /\ Cardinality(Slots) \in Nat
      /\ Cardinality(Strays) <= Cardinality(Slots)
      /\ Cardinality(Strays) = Cardinality(Slots) => Strays = Slots
  BY <1>1, FS_Subset, FS_CardinalityType
<1>3. Cardinality(Slots) # 0
  BY LimiterAssumption, FS_EmptySet
<1> QED
  BY <1>1, <1>2, <1>3

-----------------------------------------------------------------------------

LEMMA SinceFacts ==
    ASSUME LimiterTypeOK, HistoryOK, NEW w \in Ways, NEW from \in 0 .. now
    PROVE  /\ now \in Nat /\ from \in Nat /\ from \in Times /\ now \in Times
           /\ passed[w][now] \in Nat
           /\ Before(w, from) \in Nat
           /\ Since(w, from) \in Nat
<1>1. now \in Times /\ Times \subseteq Nat /\ from \in Times /\ Horizon \in Nat
  BY LimiterAssumption DEF LimiterTypeOK, Times
<1>2. \A t \in Times : passed[w][t] \in Nat
  BY DEF LimiterTypeOK
<1>3. CASE from = 0
  BY <1>1, <1>2, <1>3 DEF Before, Since
<1>4. CASE from # 0
  <2>1. from - 1 \in Times /\ from - 1 <= now
    BY <1>1, <1>4 DEF Times
  <2>2. passed[w][from - 1] <= passed[w][now]
    BY <1>1, <2>1 DEF HistoryOK
  <2> QED
    BY <1>1, <1>2, <1>4, <2>1, <2>2 DEF Before, Since
<1> QED
  BY <1>3, <1>4

\* A later refill leaves room for no fewer tokens of forgotten buckets.
LEMMA StraysLonger ==
    ASSUME LimiterTypeOK, HistoryOK, NEW n \in Nat, NEW k \in 0 .. now, NEW l \in 0 .. now,
           k <= l, StraysWithin(n, k)
    PROVE  StraysWithin(n, l)
<1> SUFFICES ASSUME NEW from \in 0 .. now
             PROVE  Since("stray", from) + n <
                        (IF from <= l THEN StrayAllowance(l - from) ELSE Cardinality(Slots))
  BY DEF StraysWithin
<1>1. from \in Nat /\ k \in Nat /\ l \in Nat /\ Since("stray", from) \in Nat
  BY SinceFacts DEF Ways
<1>2. Since("stray", from) + n <
          (IF from <= k THEN StrayAllowance(k - from) ELSE Cardinality(Slots))
  BY DEF StraysWithin
<1>3. CASE from <= k
  <2>1. k - from \in Nat /\ l - from \in Nat /\ k - from <= l - from /\ from <= l
    BY <1>1, <1>3
  <2>2. /\ StrayAllowance(k - from) \in Nat /\ StrayAllowance(l - from) \in Nat
        /\ StrayAllowance(k - from) <= StrayAllowance(l - from)
    BY <2>1, StrayAllowanceMore
  <2> QED
    BY <1>1, <1>2, <1>3, <2>1, <2>2
<1>4. CASE k < from /\ from <= l
  <2>1. l - from \in Nat
    BY <1>1, <1>4
  <2>2. /\ StrayAllowance(l - from) \in Nat /\ Cardinality(Slots) \in Nat
        /\ Cardinality(Slots) + Cardinality(Slots) <= StrayAllowance(l - from)
    BY <2>1, StrayAllowanceMore
  <2> QED
    BY <1>1, <1>2, <1>4, <2>2
<1>5. CASE k < from /\ l < from
  BY <1>1, <1>2, <1>5
<1> QED
  BY <1>1, <1>3, <1>4, <1>5

\* The later the start, the less has passed since.
LEMMA SinceShrinks ==
    ASSUME LimiterTypeOK, HistoryOK, NEW w \in Ways, NEW s \in 0 .. now, NEW t \in 0 .. now, s <= t
    PROVE  Since(w, t) <= Since(w, s) /\ Before(w, s) <= Before(w, t)
<1>1. /\ Before(w, s) \in Nat /\ Before(w, t) \in Nat /\ passed[w][now] \in Nat
      /\ s \in Nat /\ t \in Nat /\ now \in Nat /\ now \in Times
  BY SinceFacts
<1>2. Before(w, s) <= Before(w, t)
  <2>1. CASE s = 0
    <3>1. Before(w, s) = 0
      BY <2>1 DEF Before
    <3> QED
      BY <1>1, <3>1
  <2>2. CASE s # 0
    <3>1. s - 1 \in Times /\ t - 1 \in Times /\ s - 1 <= t - 1 /\ t # 0
      BY <1>1, <2>2, LimiterAssumption DEF Times
    <3>2. passed[w][s - 1] <= passed[w][t - 1]
      BY <3>1 DEF HistoryOK
    <3> QED
      BY <2>2, <3>1, <3>2 DEF Before
  <2> QED
    BY <2>1, <2>2
<1> QED
  BY <1>1, <1>2 DEF Since

\* A stretch of time that is not over ends now.
LEMMA ThroughNow ==
    ASSUME LimiterTypeOK, HistoryOK, NEW w \in Ways, NEW from \in Times, NEW to \in Times,
           from <= to, now <= to
    PROVE  /\ from <= now => Through(w, from, to) = Since(w, from)
           /\ now < from => Through(w, from, to) = 0
<1>1. now \in Nat /\ now \in Times /\ from \in Nat /\ to \in Nat /\ passed[w][now] \in Nat
  BY LimiterAssumption DEF LimiterTypeOK, Times
<1>2. to + 1 # 0 /\ (to + 1) - 1 = to
  BY <1>1
<1>3. Before(w, to + 1) = passed[w][now]
  <2>1. passed[w][to] = passed[w][now]
    BY DEF HistoryOK
  <2> QED
    BY <1>2, <2>1 DEF Before
<1>4. ASSUME now < from
      PROVE  Before(w, from) = passed[w][now]
  <2>1. from # 0 /\ from - 1 \in Times /\ now <= from - 1
    BY <1>1, <1>4, LimiterAssumption DEF Times
  <2>2. passed[w][from - 1] = passed[w][now]
    BY <2>1 DEF HistoryOK
  <2> QED
    BY <2>1, <2>2 DEF Before
<1> QED
  BY <1>1, <1>3, <1>4 DEF Through, Since

\* What the history looks like after a request was let through.
LEMMA PassStep ==
    ASSUME LimiterTypeOK, HistoryOK, now' = now, NEW w \in Ways, Pass(w)
    PROVE  /\ passed' \in [Ways -> [Times -> Nat]]
           /\ HistoryOK'
           /\ \A from \in 0 .. now : Since(w, from)' = Since(w, from) + 1
           /\ \A v \in Ways, from \in 0 .. now : Before(v, from)' = Before(v, from)
           /\ \A v \in Ways \ {w}, from \in 0 .. now : Since(v, from)' = Since(v, from)
           /\ \A v \in Ways, from, to \in Times : from <= to /\ to < now =>
                 Through(v, from, to)' = Through(v, from, to)
<1>1. now \in Nat /\ now \in Times /\ Horizon \in Nat
  BY LimiterAssumption DEF LimiterTypeOK, Times
<1>2. /\ \A v \in Ways \ {w} : passed'[v] = passed[v]
      /\ \A t \in Times : passed'[w][t] = IF t < now THEN passed[w][t] ELSE passed[w][t] + 1
      /\ passed' \in [Ways -> [Times -> Nat]]
  BY DEF Pass, LimiterTypeOK
<1>3. \A v \in Ways, t \in Times : t < now => passed'[v][t] = passed[v][t]
  BY <1>2
<1>4. \A v \in Ways, t \in 0 .. now : Before(v, t)' = Before(v, t)
  <2> TAKE v \in Ways, t \in 0 .. now
  <2>1. t # 0 => t - 1 \in Times /\ t - 1 < now
    BY <1>1 DEF Times
  <2> QED
    BY <1>3, <2>1 DEF Before
<1>5. \A from \in 0 .. now : Since(w, from)' = Since(w, from) + 1
  <2> TAKE from \in 0 .. now
  <2>1. passed'[w][now] = passed[w][now] + 1 /\ passed[w][now] \in Nat
    BY <1>1, <1>2 DEF LimiterTypeOK
  <2>2. Before(w, from)' = Before(w, from) /\ Before(w, from) \in Nat
    BY <1>4, SinceFacts
  <2> QED
    BY <2>1, <2>2 DEF Since
<1>6. \A v \in Ways \ {w}, from \in 0 .. now : Since(v, from)' = Since(v, from)
  BY <1>2, <1>4 DEF Since
<1>7. ASSUME NEW v \in Ways, NEW from \in Times, NEW to \in Times, from <= to, to < now
      PROVE  Through(v, from, to)' = Through(v, from, to)
  <2>1. from \in 0 .. now /\ to + 1 \in 0 .. now
    BY <1>1, <1>7 DEF Times
  <2> QED
    BY <1>4, <2>1 DEF Through
<1>8. HistoryOK'
  <2>1. \A v \in Ways, t \in Times : passed[v][t] \in Nat /\ t \in Nat
    BY <1>1 DEF LimiterTypeOK, Times
  <2>2. \A t \in Times : now <= t => passed'[w][t] = passed'[w][now]
    BY <1>1, <1>2, <2>1 DEF HistoryOK
  <2>3. \A s, t \in Times : s <= t => passed'[w][s] <= passed'[w][t]
    BY <1>1, <1>2, <2>1 DEF HistoryOK
  <2> QED
    BY <1>2, <2>2, <2>3 DEF HistoryOK
<1> QED
  BY <1>2, <1>4, <1>5, <1>6, <1>7, <1>8

\* Nothing passes while time does.
LEMMA TickStep ==
    ASSUME LimiterTypeOK, HistoryOK, now < Horizon, now' = now + 1, passed' = passed
    PROVE  /\ HistoryOK'
           /\ \A w \in Ways, from \in 0 .. now : Since(w, from)' = Since(w, from)
           /\ \A w \in Ways : Since(w, now)' = 0
<1>1. now \in Nat /\ now \in Times /\ Horizon \in Nat /\ now' \in Times
  BY LimiterAssumption DEF LimiterTypeOK, Times
<1>2. \A w \in Ways : passed[w][now'] = passed[w][now]
  BY <1>1 DEF HistoryOK
<1>3. HistoryOK'
  <2>1. \A w \in Ways, t \in Times : now' <= t => passed[w][t] = passed[w][now']
    BY <1>1, <1>2 DEF HistoryOK, Times
  <2> QED
    BY <2>1 DEF HistoryOK
<1>4. \A w \in Ways, from \in 0 .. now : Since(w, from)' = Since(w, from)
  BY <1>2 DEF Since, Before
<1>5. ASSUME NEW w \in Ways
      PROVE  Since(w, now)' = 0
  <2>1. now' # 0 /\ now' - 1 = now /\ passed[w][now] \in Nat
    BY <1>1 DEF LimiterTypeOK
  <2> QED
    BY <1>2, <2>1 DEF Since, Before
<1> QED
  BY <1>3, <1>4, <1>5

\* Both bounds of the budget in terms of what the proof calls an allowance.
LEMMA BudgetIsAllowance ==
    ASSUME NEW d \in Nat
    PROVE  /\ BurstSize + Earns(d) + Renewals(d) * Gift = BurstSize + Allowance(d)
           /\ Cardinality(Slots) * (2 + d \div IdleLimit) = StrayAllowance(d)
<1>1. BurstSize \in Nat /\ Earns(d) \in Nat /\ Renewals(d) * Gift \in Nat
  BY LimiterAssumption, EarnsNat, AllowanceNat
<1> QED
  BY <1>1 DEF Allowance, StrayAllowance

\* The budget of the buckets follows.
LEMMA BucketBudgetFollows == LimiterInv => BucketBudget
<1> SUFFICES ASSUME LimiterInv, NEW from \in Times, NEW to \in Times, from <= to
             PROVE  /\ Through("bucket", from, to) <= BurstSize + Allowance(to - from)
                    /\ Through("stray", from, to) < StrayAllowance(to - from)
  <2>1. ASSUME NEW from \in Times, NEW to \in Times, from <= to
        PROVE  to - from \in Nat
    BY <2>1, LimiterAssumption DEF Times
  <2> QED
    BY <2>1, BudgetIsAllowance DEF BucketBudget
<1> USE DEF LimiterInv
<1>1. now \in Nat /\ now \in Times /\ from \in Nat /\ to \in Nat /\ Horizon \in Nat /\ BurstSize \in Nat
  BY LimiterAssumption DEF LimiterTypeOK, Times
<1>2. to - from \in Nat /\ Allowance(to - from) \in Nat
  BY <1>1, AllowanceNat
<1>3. CASE to < now
  BY <1>3 DEF Settled
<1>4. CASE now <= to /\ now < from
  <2>1. Through("bucket", from, to) = 0 /\ Through("stray", from, to) = 0
    BY <1>4, ThroughNow DEF Ways
  <2>2. 0 < StrayAllowance(to - from)
    BY <1>2, StrayAllowanceMore
  <2> QED
    BY <1>1, <1>2, <2>1, <2>2
<1>5. CASE from <= now /\ now <= to
  <2>1. Through("bucket", from, to) = Since("bucket", from) /\ from \in 0 .. now
    BY <1>1, <1>5, ThroughNow DEF Ways
  <2>2. Since("bucket", from) \in Nat
    BY <2>1, SinceFacts DEF Ways
  <2>3. now - from \in Nat /\ Allowance(now - from) \in Nat /\ Allowance(now - from) <= Allowance(to - from)
    <3>1. now - from \in Nat /\ now - from <= to - from
      BY <1>1, <1>5
    <3> QED
      BY <1>2, <3>1, AllowanceGrows, AllowanceNat
  <2>4. ASSUME attached = NoBucket
        PROVE  Through("bucket", from, to) <= BurstSize + Allowance(to - from)
    <3>1. Since("bucket", from) <= Allowance(now - from)
      BY <2>1, <2>4 DEF BucketInv
    <3> QED
      BY <1>1, <1>2, <2>1, <2>2, <2>3, <3>1
  <2>5. ASSUME attached # NoBucket
        PROVE  Through("bucket", from, to) <= BurstSize + Allowance(to - from)
    <3>1. PICK r : r = bucket[attached]
      OBVIOUS
    <3>2. r.tokens \in Nat /\ r.last \in Nat /\ r.last <= now /\ WithinBurst(r)
      BY <1>1, <2>5, <3>1 DEF LimiterTypeOK, BucketsOK, BucketInv, Times
    <3>3. CASE from <= r.last
      <4>1. Since("bucket", from) + r.tokens <= BurstSize + Allowance(r.last - from)
        BY <2>1, <3>2, <3>3 DEF WithinBurst
      <4>2. r.last - from \in Nat /\ Allowance(r.last - from) \in Nat /\ Allowance(r.last - from) <= Allowance(now - from)
        <5>1. r.last - from \in Nat /\ r.last - from <= now - from
          BY <1>1, <3>2, <3>3
        <5> QED
          BY <2>3, <5>1, AllowanceGrows, AllowanceNat
      <4> QED
        BY <1>1, <1>2, <2>1, <2>2, <2>3, <3>2, <4>1, <4>2
    <3>4. CASE ~(from <= r.last)
      <4>1. Since("bucket", from) + r.tokens <= BurstSize
        BY <2>1, <3>2, <3>4 DEF WithinBurst
      <4> QED
        BY <1>1, <1>2, <2>1, <2>2, <3>2, <4>1
    <3> QED
      BY <3>3, <3>4
  <2>6. Through("stray", from, to) < StrayAllowance(to - from)
    <3>1. Through("stray", from, to) = Since("stray", from) /\ Since("stray", from) \in Nat
      BY <1>1, <1>5, <2>1, ThroughNow, SinceFacts DEF Ways
    <3>2. PICK m, l : /\ m = Cardinality(Strays)
                      /\ l = IF attached = NoBucket THEN now ELSE bucket[attached].last
      OBVIOUS
    <3>3. m \in Nat /\ l \in 0 .. now
      <4>1. ASSUME attached # NoBucket PROVE bucket[attached].last \in 0 .. now
        BY <1>1, <4>1 DEF LimiterTypeOK, BucketsOK, Times
      <4> QED
        BY <1>1, <3>2, <4>1, StraysCounted
    <3>4. StraysWithin(m, now)
      <4>1. StraysWithin(m, l) /\ l <= now /\ now \in 0 .. now
        BY <1>1, <3>2, <3>3 DEF StrayInv
      <4> QED
        BY <3>3, <4>1, StraysLonger
    <3>5. Since("stray", from) + m < StrayAllowance(now - from)
      BY <1>5, <2>1, <3>4 DEF StraysWithin
    <3>6. /\ StrayAllowance(now - from) \in Nat /\ StrayAllowance(to - from) \in Nat
          /\ StrayAllowance(now - from) <= StrayAllowance(to - from)
      <4>1. now - from <= to - from
        BY <1>1, <1>5
      <4> QED
        BY <1>2, <2>3, <4>1, StrayAllowanceMore
    <3> QED
      BY <3>1, <3>3, <3>5, <3>6
  <2> QED
    BY <2>4, <2>5, <2>6
<1> QED
  BY <1>1, <1>3, <1>4, <1>5

\* From the start of the window that is open, the limit; from any time less
\* than a window before that, twice the limit.
LEMMA WindowNow ==
    ASSUME LimiterInv, NEW from \in 0 .. now
    PROVE  /\ now - Window < from => Since("redis", from) <= 2 * RequestsPerMinute
           /\ counter # NoCounter /\ counter.ends - Window <= from =>
                 Since("redis", from) <= RequestsPerMinute
<1> USE DEF LimiterInv
<1>1. RequestsPerMinute \in Nat /\ Window \in Nat
  BY LimiterAssumption
<1>2. from \in Nat /\ now \in Nat /\ Since("redis", from) \in Nat /\ Before("redis", from) \in Nat
      /\ passed["redis"][now] \in Nat
  BY SinceFacts DEF Ways
<1>3. CASE counter = NoCounter
  <2>1. now - Window < from => Since("redis", from) <= RequestsPerMinute
    BY <1>3 DEF WindowInv
  <2> QED
    BY <1>1, <1>2, <1>3, <2>1
<1>4. CASE counter # NoCounter
  <2>1. PICK s : s = counter.ends - Window
    OBVIOUS
  <2>2. /\ s \in 0 .. now
        /\ Since("redis", s) <= RequestsPerMinute
        /\ \A t \in 0 .. s : s - Window < t => Before("redis", s) - Before("redis", t) <= RequestsPerMinute
    BY <1>4, <2>1 DEF WindowInv
  <2>3. Since("redis", s) \in Nat /\ Before("redis", s) \in Nat /\ s \in Nat
    BY <2>2, SinceFacts DEF Ways
  <2>4. CASE s <= from
    <3>1. Since("redis", from) <= Since("redis", s)
      BY <2>2, <2>4, SinceShrinks DEF Ways
    <3> QED
      BY <1>1, <1>2, <2>2, <2>3, <3>1
  <2>5. CASE from < s
    <3>1. from \in 0 .. s
      BY <1>2, <2>3, <2>5
    <3>2. now - Window < from => s - Window < from
      BY <1>1, <1>2, <2>2, <2>3
    <3>3. now - Window < from => Before("redis", s) - Before("redis", from) <= RequestsPerMinute
      BY <2>2, <3>1, <3>2
    <3> QED
      BY <1>1, <1>2, <2>1, <2>2, <2>3, <2>5, <3>3 DEF Since
  <2> QED
    BY <1>2, <2>3, <2>4, <2>5
<1> QED
  BY <1>3, <1>4

LEMMA WindowBudgetFollows == LimiterInv => WindowBudget
<1> SUFFICES ASSUME LimiterInv, NEW from \in Times
             PROVE  /\ Through("redis", from, Min({from + Window - 1, Horizon})) <= 2 * RequestsPerMinute
                    /\ counter # NoCounter /\ from >= counter.ends - Window =>
                          Through("redis", from, Horizon) <= RequestsPerMinute
  BY DEF WindowBudget
<1>1. /\ now \in Nat /\ now \in Times /\ from \in Nat /\ from \in Times /\ from <= Horizon
      /\ now <= Horizon /\ Horizon \in Nat /\ Horizon \in Times
      /\ Window \in Nat \ {0} /\ RequestsPerMinute \in Nat
  BY LimiterAssumption DEF LimiterInv, LimiterTypeOK, Times
<1> DEFINE e == from + Window - 1
           to == IF e <= Horizon THEN e ELSE Horizon
<1>2. /\ to \in Times /\ to \in Nat /\ from <= to
      /\ e \in Nat
  BY <1>1 DEF Times
<1>3. Min({e, Horizon}) = to
  BY <1>1, <1>2, SmallerOfTwo
<1>4. Through("redis", from, to) <= 2 * RequestsPerMinute
  <2>1. CASE to < now
    <3>1. to = e /\ e < now
      BY <1>1, <1>2, <2>1
    <3> QED
      BY <3>1 DEF LimiterInv, Settled
  <2>2. CASE now <= to /\ now < from
    <3>1. Through("redis", from, to) = 0
      BY <1>1, <1>2, <2>2, ThroughNow DEF LimiterInv, Ways
    <3> QED
      BY <1>1, <3>1
  <2>3. CASE now <= to /\ from <= now
    <3>1. Through("redis", from, to) = Since("redis", from) /\ from \in 0 .. now
      BY <1>1, <1>2, <2>3, ThroughNow DEF LimiterInv, Ways
    <3>2. now - Window < from
      BY <1>1, <1>2, <2>3
    <3> QED
      BY <3>1, <3>2, WindowNow
  <2> QED
    BY <1>1, <1>2, <2>1, <2>2, <2>3
<1>5. ASSUME counter # NoCounter, from >= counter.ends - Window
      PROVE  Through("redis", from, Horizon) <= RequestsPerMinute
  <2>1. CASE now < from
    <3>1. Through("redis", from, Horizon) = 0
      BY <1>1, <2>1, ThroughNow DEF LimiterInv, Ways
    <3> QED
      BY <1>1, <3>1
  <2>2. CASE from <= now
    <3>1. Through("redis", from, Horizon) = Since("redis", from) /\ from \in 0 .. now
      BY <1>1, <2>2, ThroughNow DEF LimiterInv, Ways
    <3>2. counter.ends - Window <= from
      BY <1>1, <1>5 DEF LimiterInv, LimiterTypeOK
    <3> QED
      BY <1>5, <3>1, <3>2, WindowNow
  <2> QED
    BY <1>1, <2>1, <2>2
<1> QED
  BY <1>3, <1>4, <1>5

\* A refill is a row of its own: up to date to less than a token's time.
LEMMA RefillRow ==
    ASSUME LimiterTypeOK, BucketsOK, NEW b \in Buckets
    PROVE  /\ Refill(b) \in [tokens : 0 .. BurstSize, last : Times]
           /\ Refill(b).last <= now /\ now < Refill(b).last + Unit
           /\ now - bucket[b].last \in Nat
           /\ \/ Refill(b) = bucket[b]
              \/ /\ Refill(b).last = now
                 /\ Refill(b).tokens <= bucket[b].tokens + ((now - bucket[b].last) \div Unit)
<1> DEFINE d == now - bucket[b].last
           earned == d \div Unit
           sum == bucket[b].tokens + earned
<1>1. /\ now \in Nat /\ now \in Times /\ Unit \in Nat \ {0} /\ BurstSize \in Nat
      /\ bucket[b] \in [tokens : 0 .. BurstSize, last : Times]
      /\ bucket[b].tokens \in 0 .. BurstSize /\ bucket[b].last \in Nat /\ bucket[b].last <= now
  BY LimiterAssumption DEF LimiterTypeOK, BucketsOK, Times
<1>2. d \in Nat /\ earned \in Nat /\ d < Unit * earned + Unit
  <2>1. d \in Nat
    BY <1>1
  <2> QED
    BY <2>1, Quotient
<1>3. CASE earned = 0
  <2>1. Refill(b) = bucket[b]
    BY <1>3 DEF Refill
  <2>2. d < Unit
    <3>1. Unit * earned = 0
      BY <1>1, <1>3
    <3> HIDE DEF d, earned
    <3> QED
      BY <1>1, <1>2, <3>1
  <2>3. now < bucket[b].last + Unit
    BY <1>1, <2>2
  <2> QED
    BY <1>1, <1>2, <2>1, <2>3
<1>4. CASE earned # 0
  <2>1. sum \in Nat
    BY <1>1, <1>2
  <2>2. Refill(b) = [tokens |-> Min({sum, BurstSize}), last |-> now]
    BY <1>4 DEF Refill
  <2>3. Min({sum, BurstSize}) \in 0 .. BurstSize /\ Min({sum, BurstSize}) <= sum
    BY <1>1, <2>1, SmallerOfTwo
  <2> HIDE DEF d, earned, sum
  <2>4. Refill(b).last = now /\ Refill(b).tokens = Min({sum, BurstSize})
    BY <2>2
  <2>5. Refill(b) \in [tokens : 0 .. BurstSize, last : Times]
    BY <1>1, <2>2, <2>3
  <2>6. Refill(b).tokens <= sum
    BY <2>3, <2>4
  <2>7. Refill(b).last <= now /\ now < Refill(b).last + Unit
    BY <1>1, <2>4
  <2> QED
    BY <1>2, <2>4, <2>5, <2>6, <2>7 DEF d, earned, sum
<1> QED
  BY <1>3, <1>4

\* A refill keeps a bucket within its budget.
LEMMA RefillFits ==
    ASSUME LimiterTypeOK, HistoryOK, BucketsOK, NEW b \in Buckets, WithinBurst(bucket[b])
    PROVE  WithinBurst(Refill(b))
<1>1. PICK r : r = Refill(b)
  OBVIOUS
<1>2. PICK k, l : k = bucket[b].tokens /\ l = bucket[b].last
  OBVIOUS
<1>3. /\ now \in Nat /\ Unit \in Nat \ {0} /\ BurstSize \in Nat /\ k \in 0 .. BurstSize
      /\ l \in Nat /\ l <= now /\ k \in Nat
  BY <1>2, LimiterAssumption DEF LimiterTypeOK, BucketsOK, Times
<1>4. /\ r.tokens \in Nat /\ r.tokens <= BurstSize
      /\ \/ r = bucket[b]
         \/ r.last = now /\ r.tokens <= k + ((now - l) \div Unit)
  BY <1>1, <1>2, RefillRow, LimiterAssumption
<1>5. PICK q : q = (now - l) \div Unit
  OBVIOUS
<1>6. now - l \in Nat /\ q \in Nat
  <2>1. now - l \in Nat
    BY <1>3
  <2> QED
    BY <1>5, <2>1, Quotient
<1>7. CASE r = bucket[b]
  BY <1>1, <1>7
<1>8. CASE r.last = now /\ r.tokens <= k + q
  <2> SUFFICES ASSUME NEW from \in 0 .. now
               PROVE  Since("bucket", from) + r.tokens <= BurstSize + Allowance(now - from)
    BY <1>1, <1>3, <1>8 DEF WithinBurst
  <2>1. Since("bucket", from) \in Nat /\ from \in Nat
    BY SinceFacts DEF Ways
  <2>2. now - from \in Nat /\ Allowance(now - from) \in Nat
    BY <1>3, <2>1, AllowanceNat
  <2>3. CASE from <= l
    <3>1. Since("bucket", from) + k <= BurstSize + Allowance(l - from)
      BY <1>2, <2>3 DEF WithinBurst
    <3>2. l - from \in Nat /\ Allowance(l - from) \in Nat /\ (l - from) + (now - l) = now - from
      BY <1>3, <2>1, <2>3, AllowanceNat
    <3>3. Allowance(l - from) + q <= Allowance(now - from)
      <4>1. Allowance(l - from) + ((now - l) \div Unit) <= Allowance((l - from) + (now - l))
        BY <1>6, <3>2, AllowanceMore
      <4> QED
        BY <1>5, <3>2, <4>1
    <3> QED
      BY <1>3, <1>4, <1>6, <1>8, <2>1, <2>2, <3>1, <3>2, <3>3
  <2>4. CASE l < from
    <3>1. /\ Since("bucket", from) + k <= BurstSize
          /\ Since("bucket", from) = 0 \/ from < l + Unit
      BY <1>2, <1>3, <2>1, <2>4 DEF WithinBurst
    <3>2. CASE Since("bucket", from) = 0
      BY <1>3, <1>4, <2>2, <3>2
    <3>3. CASE from < l + Unit
      <4>1. now - l < (now - from) + Unit
        BY <1>3, <2>1, <3>3
      <4>2. q <= Allowance(now - from)
        BY <1>5, <1>6, <2>2, <4>1, AllowanceWithin
      <4> QED
        BY <1>3, <1>4, <1>6, <1>8, <2>1, <2>2, <3>1, <4>2
    <3> QED
      BY <3>1, <3>2, <3>3
  <2> QED
    BY <1>3, <2>1, <2>3, <2>4
<1> QED
  BY <1>4, <1>5, <1>7, <1>8

-----------------------------------------------------------------------------

\* What holds until time or a request moves on: most steps touch neither the
\* history nor the clock.
LEMMA QuietStep ==
    ASSUME LimiterInv, UNCHANGED <<now, passed>>, LimiterTypeOK'
    PROVE  HistoryOK' /\ Settled'
BY DEF LimiterInv, HistoryOK, Settled, Through, Before

LEMMA LimiterStart == LimiterInit => LimiterInv
<1> SUFFICES ASSUME LimiterInit PROVE LimiterInv
  OBVIOUS
<1>1. 0 \in Times /\ Times \subseteq Nat /\ BurstSize \in Nat /\ now = 0
  BY LimiterAssumption DEF LimiterInit, Times
<1>2. \A w \in Ways, t \in Times : passed[w][t] = 0
  BY DEF LimiterInit
<1>3. LimiterTypeOK
  <2>1. mode \in Modes
    BY DEF LimiterInit, ResolveMode, DefaultMode, Modes, RawModes
  <2>2. /\ bucket \in [Buckets -> [tokens : 0 .. BurstSize, last : Times]]
        /\ counter \in [count : Nat, ends : Nat]
        /\ at \in [Slots -> [step : {"idle", "redis", "lookup", "take"}, on : Buckets \union {NoBucket}]]
        /\ passed \in [Ways -> [Times -> Nat]]
    BY <1>1 DEF LimiterInit, NoCounter
  <2> QED
    BY <1>1, <2>1, <2>2 DEF LimiterInit, LimiterTypeOK
<1>4. HistoryOK /\ BucketsOK
  BY <1>1, <1>2 DEF HistoryOK, BucketsOK, LimiterInit
<1>5. ASSUME NEW w \in Ways PROVE Since(w, 0) = 0
  BY <1>1, <1>2 DEF Since, Before
<1>6. BucketInv
  <2>1. 0 - 0 \in Nat /\ Allowance(0 - 0) \in Nat
    BY AllowanceNat
  <2>2. \A from \in 0 .. now : from = 0 /\ Since("bucket", from) <= Allowance(now - from)
    BY <1>1, <1>5, <2>1 DEF Ways
  <2> QED
    BY <2>2 DEF BucketInv, LimiterInit
<1>7. WindowInv
  <2>1. \A from \in 0 .. now : from = 0
    BY <1>1
  <2> QED
    BY <1>1, <1>5, <2>1, LimiterAssumption DEF WindowInv, LimiterInit, Ways
<1>8. Settled
  <2>1. \A t \in Times : t \in Nat /\ ~(t < now) /\ ~(t + Window - 1 < now)
    BY <1>1, LimiterAssumption
  <2> QED
    BY <2>1 DEF Settled
<1>9. StrayInv
  <2>1. Strays = {}
    BY DEF Strays, LimiterInit
  <2>2. Cardinality(Strays) = 0
    BY <2>1, FS_EmptySet
  <2>3. 0 - 0 \in Nat /\ 0 - 0 <= 0 - 0
    OBVIOUS
  <2>4. StrayAllowance(0 - 0) \in Nat /\ 0 < StrayAllowance(0 - 0)
    BY <2>3, StrayAllowanceMore
  <2>5. \A from \in 0 .. now : from = 0
    BY <1>1
  <2> QED
    BY <1>1, <1>5, <2>2, <2>4, <2>5 DEF StrayInv, StraysWithin, LimiterInit, Ways
<1> QED
  BY <1>3, <1>4, <1>6, <1>7, <1>8, <1>9 DEF LimiterInv

LEMMA StrayKept ==
    ASSUME LimiterInv, UNCHANGED <<now, attached>>, Strays' = Strays,
           attached # NoBucket => bucket'[attached].last = bucket[attached].last,
           \A from \in 0 .. now : Since("stray", from)' = Since("stray", from)
    PROVE  StrayInv'
<1>1. StrayInv
  BY DEF LimiterInv
<1>2. PICK n, N : n = Cardinality(Strays) /\ N = Cardinality(Slots)
  OBVIOUS
<1>3. n = Cardinality(Strays)'
  BY <1>2
<1>4. CASE attached = NoBucket
  BY <1>1, <1>2, <1>3, <1>4 DEF StrayInv, StraysWithin, StrayAllowance
<1>5. CASE attached # NoBucket
  BY <1>1, <1>2, <1>3, <1>5 DEF StrayInv, StraysWithin, StrayAllowance
<1> QED
  BY <1>4, <1>5

LEMMA BucketKept ==
    ASSUME LimiterInv, UNCHANGED <<now, attached, bucket>>,
           \A from \in 0 .. now : Since("bucket", from)' = Since("bucket", from)
    PROVE  BucketInv'
<1>1. BucketInv
  BY DEF LimiterInv
<1>2. CASE attached = NoBucket
  BY <1>1, <1>2 DEF BucketInv
<1>3. CASE attached # NoBucket
  <2>1. WithinBurst(bucket[attached])
    BY <1>1, <1>3 DEF BucketInv
  <2>2. WithinBurst(bucket[attached])'
    BY <2>1 DEF WithinBurst
  <2> QED
    BY <1>3, <2>2 DEF BucketInv
<1> QED
  BY <1>2, <1>3

LEMMA WindowKept ==
    ASSUME LimiterInv, UNCHANGED <<now, counter>>,
           \A from \in 0 .. now : /\ Since("redis", from)' = Since("redis", from)
                                  /\ Before("redis", from)' = Before("redis", from)
    PROVE  WindowInv'
<1>1. WindowInv /\ now \in Nat
  BY LimiterAssumption DEF LimiterInv, LimiterTypeOK, Times
<1>2. CASE counter = NoCounter
  <2>1. now \in 0 .. now
    BY <1>1
  <2> QED
    BY <1>1, <1>2, <2>1 DEF WindowInv
<1>3. CASE counter # NoCounter
  <2>1. PICK s : s = counter.ends - Window
    OBVIOUS
  <2>2. /\ s \in 0 .. now /\ now < counter.ends
        /\ Since("redis", s) <= RequestsPerMinute
        /\ Since("redis", s) <= counter.count
        /\ \A from \in 0 .. s : s - Window < from =>
              Before("redis", s) - Before("redis", from) <= RequestsPerMinute
    BY <1>1, <1>3, <2>1 DEF WindowInv
  <2>3. \A from \in 0 .. s : from \in 0 .. now
    BY <1>1, <2>2
  <2>4. \A from \in 0 .. s : s - Window < from =>
           Before("redis", s)' - Before("redis", from)' <= RequestsPerMinute
    BY <2>2, <2>3
  <2> QED
    BY <1>3, <2>1, <2>2, <2>4 DEF WindowInv
<1> QED
  BY <1>2, <1>3

\* The script counts a request; it may pass if the count is within the limit.
LEMMA WindowCounted ==
    ASSUME LimiterInv, now' = now, counter' = Counted,
           passed' = passed \/ (~OverLimit(Counted.count) /\ Pass("redis"))
    PROVE  WindowInv' /\ counter' \in [count : Nat, ends : Nat]
<1> USE DEF Ways
<1>1. /\ LimiterTypeOK /\ HistoryOK /\ WindowInv
      /\ now \in Nat /\ Window \in Nat \ {0} /\ RequestsPerMinute \in Nat \ {0}
      /\ counter \in [count : Nat, ends : Nat]
  <2>1. LimiterTypeOK /\ HistoryOK /\ WindowInv
    BY DEF LimiterInv
  <2>2. /\ now \in 0 .. Horizon
        /\ counter \in [count : Nat, ends : Nat]
    BY <2>1 DEF LimiterTypeOK, Times
  <2>3. now \in Nat
    BY <2>2
  <2>4. Window \in Nat \ {0} /\ RequestsPerMinute \in Nat \ {0}
    BY LimiterAssumption
  <2> QED
    BY <2>1, <2>2, <2>3, <2>4
<1>2. PICK n \in {0, 1} :
         /\ \A from \in 0 .. now : /\ Since("redis", from)' = Since("redis", from) + n
                                   /\ Before("redis", from)' = Before("redis", from)
         /\ n = 0 \/ Counted.count <= RequestsPerMinute
  <2>1. CASE passed' = passed
    <3>1. \A from \in 0 .. now : Since("redis", from) \in Nat
      BY <1>1, SinceFacts
    <3>2. \A from \in 0 .. now : /\ Since("redis", from)' = Since("redis", from) + 0
                                 /\ Before("redis", from)' = Before("redis", from)
      BY <2>1, <3>1 DEF Since, Before
    <3> QED
      BY <3>2
  <2>2. CASE ~OverLimit(Counted.count) /\ Pass("redis")
    <3>1. \A from \in 0 .. now : /\ Since("redis", from)' = Since("redis", from) + 1
                                 /\ Before("redis", from)' = Before("redis", from)
      BY <1>1, <2>2, PassStep
    <3>2. Counted.count \in Nat
      BY <1>1 DEF Counted
    <3>3. Counted.count <= RequestsPerMinute
      BY <1>1, <2>2, <3>2 DEF OverLimit
    <3> QED
      BY <3>1, <3>3
  <2> QED
    BY <2>1, <2>2
<1>3. CASE counter = NoCounter
  <2>1. Counted = [count |-> 1, ends |-> now + Window] /\ counter' # NoCounter
    BY <1>3 DEF Counted, NoCounter
  <2>2. counter'.ends = now + Window /\ counter'.count = 1 /\ counter'.ends - Window = now
    BY <1>1, <2>1
  <2>3. now \in 0 .. now /\ Since("redis", now) = 0 /\ Since("redis", now)' = n /\ now < now + Window
    BY <1>1, <1>2, <1>3 DEF WindowInv
  <2>4. ASSUME NEW from \in 0 .. now, now - Window < from
        PROVE  Before("redis", now)' - Before("redis", from)' <= RequestsPerMinute
    <3>1. Since("redis", from) <= RequestsPerMinute
      BY <1>1, <1>3, <2>4 DEF WindowInv
    <3>2. /\ Before("redis", now) \in Nat /\ Before("redis", from) \in Nat
          /\ passed["redis"][now] \in Nat
      BY <1>1, <2>3, SinceFacts
    <3>3. Before("redis", now) <= passed["redis"][now]
      BY <1>1, <2>3, <3>2, SinceFacts DEF Since
    <3>4. Before("redis", now) - Before("redis", from) <= RequestsPerMinute
      BY <1>1, <3>1, <3>2, <3>3 DEF Since
    <3> QED
      BY <1>2, <2>3, <3>4
  <2>5. n <= RequestsPerMinute /\ n <= 1
    BY <1>1
  <2>6. WindowInv'
    BY <2>1, <2>2, <2>3, <2>4, <2>5 DEF WindowInv
  <2> QED
    BY <1>1, <2>1, <2>6
<1>4. CASE counter # NoCounter
  <2>1. PICK s : s = counter.ends - Window
    OBVIOUS
  <2>2. /\ s \in 0 .. now /\ now < counter.ends
        /\ Since("redis", s) <= RequestsPerMinute
        /\ Since("redis", s) <= counter.count
        /\ \A from \in 0 .. s : s - Window < from =>
              Before("redis", s) - Before("redis", from) <= RequestsPerMinute
    BY <1>1, <1>4, <2>1 DEF WindowInv
  <2>3. /\ Counted = [counter EXCEPT !.count = counter.count + 1]
        /\ Counted.count = counter.count + 1 /\ Counted.ends = counter.ends
        /\ Counted \in [count : Nat, ends : Nat]
    BY <1>1, <1>4 DEF Counted
  <2>4. counter' # NoCounter
    BY <1>1, <2>3 DEF NoCounter
  <2>5. Since("redis", s) \in Nat /\ counter.count \in Nat
    BY <1>1, <2>2, SinceFacts
  <2>6. Since("redis", s)' <= RequestsPerMinute /\ Since("redis", s)' <= counter'.count
    BY <1>1, <1>2, <2>2, <2>3, <2>5
  <2>7. \A from \in 0 .. s : from \in 0 .. now
    BY <1>1, <2>2
  <2>8. \A from \in 0 .. s : s - Window < from =>
           Before("redis", s)' - Before("redis", from)' <= RequestsPerMinute
    BY <1>2, <2>2, <2>7
  <2>9. WindowInv'
    BY <2>1, <2>2, <2>3, <2>4, <2>6, <2>8 DEF WindowInv
  <2> QED
    BY <2>3, <2>9
<1> QED
  BY <1>3, <1>4

\* What a request leaves of the history it adds to.
LEMMA SettledPass ==
    ASSUME LimiterInv, now' = now, NEW w \in Ways, Pass(w)
    PROVE  Settled'
<1>1. Settled /\ LimiterTypeOK /\ HistoryOK
  BY DEF LimiterInv
<1>2. now \in Nat /\ Horizon \in Nat /\ now \in Times /\ Window \in Nat \ {0}
  BY <1>1, LimiterAssumption DEF LimiterTypeOK, Times
<1>3. \A v \in Ways, from, to \in Times : from <= to /\ to < now =>
         Through(v, from, to)' = Through(v, from, to)
  BY <1>1, PassStep
<1>4. \A from \in Times : from + Window - 1 < now => from + Window - 1 \in Times /\ from <= from + Window - 1
  BY <1>2 DEF Times
<1> QED
  BY <1>1, <1>3, <1>4 DEF Settled, Ways

\* A request starts or ends one of its steps.
LEMMA RequestMoves ==
    ASSUME LimiterInv, NEW p \in Slots, NEW s \in {"idle", "redis", "lookup", "take"},
           NEW b \in Buckets \union {NoBucket}, Continue(p, s, b),
           s = "take" => b \in Buckets
    PROVE  /\ at' \in [Slots -> [step : {"idle", "redis", "lookup", "take"},
                                 on : Buckets \union {NoBucket}]]
           /\ \A q \in Slots : at'[q].step = "take" => at'[q].on \in Buckets
<1>1. [step |-> s, on |-> b] \in [step : {"idle", "redis", "lookup", "take"},
                                 on : Buckets \union {NoBucket}]
  OBVIOUS
<1>2. at \in [Slots -> [step : {"idle", "redis", "lookup", "take"}, on : Buckets \union {NoBucket}]]
  BY DEF LimiterInv, LimiterTypeOK
<1>3. at' = [at EXCEPT ![p] = [step |-> s, on |-> b]]
  BY DEF Continue
<1>4. \A q \in Slots : at[q].step = "take" => at[q].on \in Buckets
  BY DEF LimiterInv, BucketsOK
<1> QED
  BY <1>1, <1>2, <1>3, <1>4

LEMMA ArriveStep ==
    ASSUME LimiterInv, NEW p \in Slots, Arrive(p)
    PROVE  LimiterInv'
<1>1. /\ started' = started + 1
      /\ Continue(p, IF mode = "memory" THEN "lookup" ELSE "redis", NoBucket)
      /\ UNCHANGED <<mode, now, attached, bucket, counter, passed>>
  BY DEF Arrive
<1>2. /\ at' \in [Slots -> [step : {"idle", "redis", "lookup", "take"}, on : Buckets \union {NoBucket}]]
      /\ \A q \in Slots : at'[q].step = "take" => at'[q].on \in Buckets
  BY <1>1, RequestMoves
<1>3. LimiterTypeOK'
  BY <1>1, <1>2 DEF LimiterInv, LimiterTypeOK
<1>4. HistoryOK' /\ Settled'
  BY <1>1, <1>3, QuietStep
<1>5. BucketsOK'
  BY <1>1, <1>2 DEF LimiterInv, BucketsOK
<1>6. BucketInv' /\ WindowInv'
  <2>1. \A w \in Ways, from \in 0 .. now : /\ Since(w, from)' = Since(w, from)
                                          /\ Before(w, from)' = Before(w, from)
    BY <1>1 DEF Since, Before
  <2> QED
    BY <1>1, <2>1, BucketKept, WindowKept DEF Ways
<1>7. StrayInv'
  <2>1. Strays' = Strays
    BY <1>1 DEF Arrive, Step, Continue, Strays, LimiterInv, LimiterTypeOK
  <2>2. \A from \in 0 .. now : Since("stray", from)' = Since("stray", from)
    BY <1>1 DEF Since, Before
  <2> QED
    BY <1>1, <2>1, <2>2, StrayKept
<1> QED
  BY <1>3, <1>4, <1>5, <1>6, <1>7 DEF LimiterInv

\* A command of Redis, answered or not.
LEMMA RedisStep ==
    ASSUME LimiterInv, NEW p \in Slots, IncrementRateLimit(p) \/ RedisError(p)
    PROVE  LimiterInv'
<1>1. /\ UNCHANGED <<mode, now, attached, bucket, started>>
      /\ \/ counter' = Counted /\ (passed' = passed \/ (~OverLimit(Counted.count) /\ Pass("redis")))
         \/ counter' = counter /\ passed' = passed
      /\ passed' = passed \/ Pass("redis")
      /\ \E s \in {"idle", "lookup"} : Continue(p, s, NoBucket)
  BY DEF IncrementRateLimit, RedisError, Finish
<1>2. /\ at' \in [Slots -> [step : {"idle", "redis", "lookup", "take"}, on : Buckets \union {NoBucket}]]
      /\ \A q \in Slots : at'[q].step = "take" => at'[q].on \in Buckets
  BY <1>1, RequestMoves
<1>3. LimiterTypeOK /\ HistoryOK
  BY DEF LimiterInv
<1>4. WindowInv' /\ counter' \in [count : Nat, ends : Nat]
  <2>1. CASE counter' = Counted
    BY <1>1, <2>1, WindowCounted
  <2>2. CASE counter' = counter /\ passed' = passed
    <3>1. \A from \in 0 .. now : /\ Since("redis", from)' = Since("redis", from)
                                 /\ Before("redis", from)' = Before("redis", from)
      BY <1>1, <2>2 DEF Since, Before
    <3> QED
      BY <1>1, <1>3, <2>2, <3>1, WindowKept DEF LimiterTypeOK
  <2> QED
    BY <1>1, <2>1, <2>2
<1>5. /\ passed' \in [Ways -> [Times -> Nat]]
      /\ HistoryOK'
      /\ \A from \in 0 .. now : /\ Since("bucket", from)' = Since("bucket", from)
                                /\ Since("stray", from)' = Since("stray", from)
      /\ Settled'
  <2>1. CASE passed' = passed
    BY <1>1, <1>3, <2>1 DEF LimiterTypeOK, LimiterInv, HistoryOK, Settled, Through, Since, Before
  <2>2. CASE Pass("redis")
    BY <1>1, <1>3, <2>2, PassStep, SettledPass DEF Ways
  <2> QED
    BY <1>1, <2>1, <2>2
<1>6. LimiterTypeOK'
  BY <1>1, <1>2, <1>3, <1>4, <1>5 DEF LimiterTypeOK
<1>7. BucketsOK'
  BY <1>1, <1>2 DEF LimiterInv, BucketsOK
<1>8. BucketInv'
  BY <1>1, <1>5, BucketKept
<1>9. StrayInv'
  <2>1. at[p].step = "redis"
    BY DEF IncrementRateLimit, RedisError, Step
  <2>2. Strays' = Strays
    BY <1>1, <1>3, <2>1 DEF Continue, Strays, LimiterTypeOK
  <2> QED
    BY <1>1, <1>5, <2>2, StrayKept
<1> QED
  BY <1>4, <1>5, <1>6, <1>7, <1>8, <1>9 DEF LimiterInv

LEMMA LookupStep ==
    ASSUME LimiterInv, NEW p \in Slots, Lookup(p)
    PROVE  LimiterInv'
<1>1. /\ UNCHANGED <<mode, now, counter, started, passed>>
      /\ \/ /\ attached # NoBucket
            /\ Continue(p, "take", attached)
            /\ UNCHANGED <<attached, bucket>>
         \/ /\ attached = NoBucket
            /\ \E b \in Buckets :
                  /\ Free(b)
                  /\ attached' = b
                  /\ bucket' = [bucket EXCEPT ![b] = [tokens |-> BurstSize, last |-> now]]
                  /\ Continue(p, "take", b)
      /\ at[p].step = "lookup"
  BY DEF Lookup, Step
<1>2. /\ now \in Nat /\ now \in Times /\ Times \subseteq Nat /\ BurstSize \in Nat
      /\ LimiterTypeOK /\ HistoryOK
  BY LimiterAssumption DEF LimiterInv, LimiterTypeOK, Times
<1>3. \A w \in Ways, from \in 0 .. now : /\ Since(w, from)' = Since(w, from)
                                        /\ Before(w, from)' = Before(w, from)
  BY <1>1 DEF Since, Before
<1>4. WindowInv'
  BY <1>1, <1>3, WindowKept DEF Ways
<1>5. CASE attached # NoBucket
  <2>1. attached \in Buckets /\ Continue(p, "take", attached) /\ UNCHANGED <<attached, bucket>>
    BY <1>1, <1>2, <1>5 DEF LimiterTypeOK
  <2>2. /\ at' \in [Slots -> [step : {"idle", "redis", "lookup", "take"}, on : Buckets \union {NoBucket}]]
        /\ \A q \in Slots : at'[q].step = "take" => at'[q].on \in Buckets
    BY <2>1, RequestMoves
  <2>3. LimiterTypeOK' /\ BucketsOK'
    BY <1>1, <2>1, <2>2 DEF LimiterInv, LimiterTypeOK, BucketsOK
  <2>4. HistoryOK' /\ Settled'
    BY <1>1, <2>3, QuietStep
  <2>5. BucketInv'
    BY <1>1, <1>3, <2>1, BucketKept DEF Ways
  <2>6. StrayInv'
    <3>1. Strays' = Strays
      BY <1>1, <1>2, <2>1 DEF Continue, Strays, LimiterTypeOK
    <3> QED
      BY <1>1, <1>3, <2>1, <3>1, StrayKept DEF Ways
  <2> QED
    BY <1>4, <2>3, <2>4, <2>5, <2>6 DEF LimiterInv
<1>6. CASE attached = NoBucket
  <2>1. PICK b \in Buckets :
           /\ Free(b)
           /\ attached' = b
           /\ bucket' = [bucket EXCEPT ![b] = [tokens |-> BurstSize, last |-> now]]
           /\ Continue(p, "take", b)
    BY <1>1, <1>6
  <2>2. /\ at' \in [Slots -> [step : {"idle", "redis", "lookup", "take"}, on : Buckets \union {NoBucket}]]
        /\ \A q \in Slots : at'[q].step = "take" => at'[q].on \in Buckets
    BY <2>1, RequestMoves
  <2>3. /\ bucket' \in [Buckets -> [tokens : 0 .. BurstSize, last : Times]]
        /\ bucket'[b] = [tokens |-> BurstSize, last |-> now]
        /\ \A c \in Buckets : bucket'[c].last <= now
    <3>1. [tokens |-> BurstSize, last |-> now] \in [tokens : 0 .. BurstSize, last : Times]
      BY <1>2
    <3> QED
      BY <1>2, <2>1, <3>1 DEF LimiterInv, LimiterTypeOK, BucketsOK
  <2>4. LimiterTypeOK' /\ BucketsOK'
    BY <1>1, <1>2, <2>1, <2>2, <2>3 DEF LimiterTypeOK, BucketsOK
  <2>5. HistoryOK' /\ Settled'
    BY <1>1, <2>4, QuietStep
  <2>6. BucketInv'
    <3>1. ASSUME NEW from \in 0 .. now
          PROVE  from <= now /\ Since("bucket", from)' + BurstSize <= BurstSize + Allowance(now - from)
      <4>1. Since("bucket", from) <= Allowance(now - from)
        BY <1>6 DEF LimiterInv, BucketInv
      <4>2. Since("bucket", from) \in Nat /\ now - from \in Nat /\ Allowance(now - from) \in Nat
        BY <1>2, SinceFacts, AllowanceNat DEF Ways
      <4> QED
        BY <1>2, <1>3, <4>1, <4>2 DEF Ways
    <3>2. bucket'[attached'].last = now /\ bucket'[attached'].tokens = BurstSize /\ now' = now
      BY <1>1, <2>1, <2>3
    <3>3. WithinBurst(bucket[attached])'
      BY <3>1, <3>2 DEF WithinBurst, Allowance, Earns, Renewals, Gift
    <3>4. attached' # NoBucket
      BY <2>1, LimiterAssumption
    <3> QED
      BY <3>3, <3>4 DEF BucketInv
  <2>7. StrayInv'
    <3>1. Strays' = Strays /\ p \notin Strays
      <4>1. \A q \in Slots : at[q].step = "take" => at[q].on # NoBucket /\ at[q].on # b
        BY <2>1, LimiterAssumption DEF Free, LimiterInv, BucketsOK
      <4>2. at'[p] = [step |-> "take", on |-> b] /\ \A q \in Slots \ {p} : at'[q] = at[q]
        BY <1>2, <2>1 DEF Continue, LimiterTypeOK
      <4> QED
        BY <1>1, <1>6, <2>1, <4>1, <4>2 DEF Strays
    <3>2. PICK n, N : n = Cardinality(Strays) /\ N = Cardinality(Slots)
      OBVIOUS
    <3>3. n = Cardinality(Strays)' /\ n < N
      BY <3>1, <3>2, StraysCounted
    <3>4. \A from \in 0 .. now : Since("stray", from)' + n < StrayAllowance(now - from)
      BY <1>2, <1>3, <1>6, <3>2 DEF LimiterInv, StrayInv, StraysWithin, Ways
    <3>5. bucket'[attached'].last = now /\ now' = now /\ attached' # NoBucket
      BY <1>1, <2>1, <2>3, LimiterAssumption
    <3>6. \A from \in 0 .. now : from <= now
      BY <1>2
    <3> QED
      BY <3>2, <3>3, <3>4, <3>5, <3>6 DEF StrayInv, StraysWithin, StrayAllowance
  <2> QED
    BY <1>4, <2>4, <2>5, <2>6, <2>7 DEF LimiterInv
<1> QED
  BY <1>5, <1>6

LEMMA TakeStep ==
    ASSUME LimiterInv, NEW p \in Slots, TakeToken(p)
    PROVE  LimiterInv'
<1>1. PICK b \in Buckets : b = at[p].on
  BY DEF TakeToken, Step, LimiterInv, BucketsOK
<1>2. PICK r : r = Refill(b)
  OBVIOUS
<1>3. /\ UNCHANGED <<mode, now, attached, counter, started>>
      /\ Finish(p)
      /\ \/ /\ r.tokens > 0
            /\ bucket' = [bucket EXCEPT ![b] = [r EXCEPT !.tokens = r.tokens - 1]]
            /\ Pass(IF b = attached THEN "bucket" ELSE "stray")
         \/ bucket' = [bucket EXCEPT ![b] = r] /\ passed' = passed
  BY <1>1, <1>2 DEF TakeToken
<1>4. /\ LimiterTypeOK /\ HistoryOK /\ BucketsOK
      /\ now \in Nat /\ now \in Times /\ BurstSize \in Nat /\ Unit \in Nat
  BY LimiterAssumption DEF LimiterInv, LimiterTypeOK, Times
<1>5. /\ r \in [tokens : 0 .. BurstSize, last : Times]
      /\ r.last <= now /\ now < r.last + Unit
  BY <1>2, <1>4, RefillRow
<1>6. PICK k \in 0 .. BurstSize :
         /\ bucket' = [bucket EXCEPT ![b] = [tokens |-> k, last |-> r.last]]
         /\ \/ /\ r.tokens = k + 1
               /\ Pass(IF b = attached THEN "bucket" ELSE "stray")
            \/ r.tokens = k /\ passed' = passed
  <2>1. r = [tokens |-> r.tokens, last |-> r.last] /\ r.tokens \in 0 .. BurstSize /\ r.last \in Times
    BY <1>5
  <2>2. CASE /\ r.tokens > 0
             /\ bucket' = [bucket EXCEPT ![b] = [r EXCEPT !.tokens = r.tokens - 1]]
             /\ Pass(IF b = attached THEN "bucket" ELSE "stray")
    <3>1. [r EXCEPT !.tokens = r.tokens - 1] = [tokens |-> r.tokens - 1, last |-> r.last]
      BY <2>1
    <3>2. r.tokens - 1 \in 0 .. BurstSize /\ r.tokens = (r.tokens - 1) + 1
      BY <1>4, <2>1, <2>2
    <3> QED
      BY <2>2, <3>1, <3>2
  <2>3. CASE bucket' = [bucket EXCEPT ![b] = r] /\ passed' = passed
    BY <2>1, <2>3
  <2> QED
    BY <1>3, <2>2, <2>3
<1>7. /\ at' \in [Slots -> [step : {"idle", "redis", "lookup", "take"}, on : Buckets \union {NoBucket}]]
      /\ \A q \in Slots : at'[q].step = "take" => at'[q].on \in Buckets
  BY <1>3, RequestMoves DEF Finish
<1>8. /\ bucket' \in [Buckets -> [tokens : 0 .. BurstSize, last : Times]]
      /\ bucket'[b] = [tokens |-> k, last |-> r.last]
      /\ \A c \in Buckets \ {b} : bucket'[c] = bucket[c]
      /\ \A c \in Buckets : bucket'[c].last <= now
  <2>1. [tokens |-> k, last |-> r.last] \in [tokens : 0 .. BurstSize, last : Times]
    BY <1>5
  <2> QED
    BY <1>4, <1>5, <1>6, <2>1 DEF LimiterTypeOK, BucketsOK
<1>9. StrayInv'
  <2>1. at[p].step = "take" /\ at'[p].step = "idle" /\ \A q \in Slots \ {p} : at'[q] = at[q]
    BY <1>3, <1>4 DEF TakeToken, Step, Finish, Continue, LimiterTypeOK
  <2>2. CASE b = attached
    <3>1. Strays' = Strays
      BY <1>1, <1>3, <2>1, <2>2 DEF Strays
    <3>2. \A from \in 0 .. now : Since("stray", from)' = Since("stray", from)
      <4>1. CASE passed' = passed
        BY <1>3, <4>1 DEF Since, Before
      <4>2. CASE Pass("bucket")
        BY <1>3, <1>4, <4>2, PassStep DEF Ways
      <4> QED
        BY <1>6, <2>2, <4>1, <4>2
    <3>3. PICK n, N, l : n = Cardinality(Strays) /\ N = Cardinality(Slots) /\ l = bucket[b].last
      OBVIOUS
    <3>4. attached # NoBucket /\ n < N /\ StraysWithin(n, l)
      BY <2>2, <3>3, LimiterAssumption DEF LimiterInv, StrayInv
    <3>5. n \in Nat /\ l \in 0 .. now /\ r.last \in 0 .. now /\ l <= r.last
      <4>1. n \in Nat
        BY <3>3, StraysCounted
      <4>2. l \in Nat /\ l <= now /\ r.last \in Nat /\ r.last <= now
        BY <1>4, <1>5, <3>3 DEF LimiterTypeOK, BucketsOK, Times
      <4>3. r.last = l \/ r.last = now
        BY <1>2, <1>4, <3>3, RefillRow
      <4> QED
        BY <1>4, <4>1, <4>2, <4>3
    <3>6. StraysWithin(n, r.last)
      BY <1>4, <3>4, <3>5, StraysLonger
    <3>7. bucket'[attached'].last = r.last /\ n = Cardinality(Strays)' /\ now' = now
      BY <1>3, <1>8, <2>2, <3>1, <3>3
    <3> QED
      BY <1>3, <3>2, <3>3, <3>4, <3>6, <3>7 DEF StrayInv, StraysWithin, StrayAllowance
  <2>3. CASE b # attached
    <3>1. p \in Strays /\ Strays' = Strays \ {p}
      BY <1>1, <1>3, <2>1, <2>3 DEF Strays
    <3>2. PICK m, n, N : m = Cardinality(Strays) /\ n = Cardinality(Strays)' /\ N = Cardinality(Slots)
      OBVIOUS
    <3>3. m \in Nat /\ n = m - 1
      BY <3>1, <3>2, StraysCounted, FS_RemoveElement
    <3>4. \A from \in 0 .. now : /\ Since("stray", from) \in Nat
                                 /\ \/ Since("stray", from)' = Since("stray", from)
                                    \/ Since("stray", from)' = Since("stray", from) + 1
      <4>1. CASE passed' = passed
        BY <1>3, <1>4, <4>1, SinceFacts DEF Since, Before, Ways
      <4>2. CASE Pass("stray")
        BY <1>3, <1>4, <4>2, PassStep, SinceFacts DEF Ways
      <4> QED
        BY <1>6, <2>3, <4>1, <4>2
    <3>5. CASE attached = NoBucket
      <4>1. \A from \in 0 .. now : from <= now /\ Since("stray", from) + m < StrayAllowance(now - from)
        BY <1>4, <3>2, <3>5 DEF LimiterInv, StrayInv, StraysWithin
      <4>2. \A from \in 0 .. now : Since("stray", from)' + n < StrayAllowance(now - from)
        <5> TAKE from \in 0 .. now
        <5>1. StrayAllowance(now - from) \in Nat
          <6>1. now - from \in Nat
            BY <1>4
          <6> QED
            BY <6>1, StrayAllowanceMore
        <5> QED
          BY <3>3, <3>4, <4>1, <5>1
      <4> QED
        BY <1>3, <3>2, <3>5, <4>1, <4>2 DEF StrayInv, StraysWithin, StrayAllowance
    <3>6. CASE attached # NoBucket
      <4>1. PICK l : l = bucket[attached].last
        OBVIOUS
      <4>2. attached \in Buckets /\ bucket'[attached'].last = l /\ l \in Nat
        BY <1>3, <1>4, <1>8, <2>3, <3>6, <4>1 DEF LimiterTypeOK, Times
      <4>3. m < N /\ StraysWithin(m, l) /\ N \in Nat
        BY <3>2, <3>6, <4>1, StraysCounted DEF LimiterInv, StrayInv
      <4>4. n < N
        BY <3>3, <4>3
      <4>5. \A from \in 0 .. now : Since("stray", from)' + n <
                                      (IF from <= l THEN StrayAllowance(l - from) ELSE N)
        <5> TAKE from \in 0 .. now
        <5>1. Since("stray", from) + m <
                  (IF from <= l THEN StrayAllowance(l - from) ELSE N)
          BY <3>2, <4>3 DEF StraysWithin
        <5>2. from <= l => StrayAllowance(l - from) \in Nat
          <6>1. from <= l => l - from \in Nat
            BY <1>4, <4>2
          <6> QED
            BY <6>1, StrayAllowanceMore
        <5> QED
          BY <3>3, <3>4, <4>3, <5>1, <5>2
      <4> QED
        BY <1>3, <3>2, <3>6, <4>2, <4>4, <4>5 DEF StrayInv, StraysWithin, StrayAllowance
    <3> QED
      BY <3>5, <3>6
  <2> QED
    BY <2>2, <2>3
<1>10. CASE IF b = attached THEN r.tokens = k /\ passed' = passed
           ELSE passed' = passed \/ Pass("stray")
  <2>1. /\ passed' \in [Ways -> [Times -> Nat]]
        /\ HistoryOK' /\ Settled'
        /\ \A w \in Ways \ {"stray"}, from \in 0 .. now : Since(w, from)' = Since(w, from)
        /\ \A w \in Ways, from \in 0 .. now : Before(w, from)' = Before(w, from)
    <3>1. CASE passed' = passed
      BY <1>3, <1>4, <3>1 DEF LimiterTypeOK, LimiterInv, HistoryOK, Settled, Through, Since, Before
    <3>2. CASE Pass("stray")
      BY <1>3, <1>4, <3>2, PassStep, SettledPass DEF Ways
    <3> QED
      BY <1>10, <3>1, <3>2
  <2>2. LimiterTypeOK' /\ BucketsOK'
    BY <1>3, <1>4, <1>7, <1>8, <2>1 DEF LimiterTypeOK, BucketsOK
  <2>3. \A w \in {"bucket", "redis"}, from \in 0 .. now :
           /\ Since(w, from)' = Since(w, from)
           /\ Before(w, from)' = Before(w, from)
    BY <2>1 DEF Ways
  <2>4. WindowInv'
    BY <1>3, <2>3, WindowKept DEF Ways
  <2>5. BucketInv'
    <3>1. CASE attached = NoBucket
      BY <1>3, <2>3, <3>1 DEF LimiterInv, BucketInv, Allowance, Earns, Renewals, Gift, Ways
    <3>2. CASE attached # NoBucket /\ attached # b
      <4>1. attached \in Buckets /\ bucket'[attached] = bucket[attached]
        BY <1>4, <1>8, <3>2 DEF LimiterTypeOK
      <4>2. WithinBurst(bucket[attached])
        BY <3>2 DEF LimiterInv, BucketInv
      <4>3. WithinBurst(bucket[attached])'
        BY <1>3, <2>3, <4>1, <4>2 DEF WithinBurst, Allowance, Earns, Renewals, Gift, Ways
      <4> QED
        BY <1>3, <3>2, <4>3 DEF BucketInv
    <3>3. CASE attached # NoBucket /\ attached = b
      <4>1. WithinBurst(bucket[b])
        BY <3>3 DEF LimiterInv, BucketInv
      <4>2. WithinBurst(r)
        BY <1>2, <1>4, <4>1, RefillFits
      <4>3. bucket'[attached'].last = r.last /\ bucket'[attached'].tokens = r.tokens
        BY <1>3, <1>8, <1>10, <3>3
      <4>4. WithinBurst(bucket[attached])'
        BY <1>3, <2>3, <4>2, <4>3 DEF WithinBurst, Allowance, Earns, Renewals, Gift, Ways
      <4> QED
        BY <1>3, <3>3, <4>4 DEF BucketInv
    <3> QED
      BY <3>1, <3>2, <3>3
  <2> QED
    BY <1>9, <2>1, <2>2, <2>4, <2>5 DEF LimiterInv
<1>11. CASE b = attached /\ r.tokens = k + 1 /\ Pass("bucket")
  <2>1. /\ passed' \in [Ways -> [Times -> Nat]]
        /\ HistoryOK'
        /\ \A from \in 0 .. now : Since("bucket", from)' = Since("bucket", from) + 1
        /\ \A from \in 0 .. now : /\ Since("redis", from)' = Since("redis", from)
                                  /\ Before("redis", from)' = Before("redis", from)
    BY <1>3, <1>4, <1>11, PassStep DEF Ways
  <2>2. LimiterTypeOK' /\ BucketsOK'
    BY <1>3, <1>4, <1>7, <1>8, <2>1 DEF LimiterTypeOK, BucketsOK
  <2>3. Settled'
    BY <1>3, <1>11, SettledPass DEF Ways
  <2>4. WindowInv'
    BY <1>3, <2>1, WindowKept
  <2>5. BucketInv'
    <3>1. attached # NoBucket /\ WithinBurst(bucket[b])
      BY <1>11, LimiterAssumption DEF LimiterInv, BucketInv
    <3>2. WithinBurst(r)
      BY <1>2, <1>4, <3>1, RefillFits
    <3>3. bucket'[attached'].last = r.last /\ bucket'[attached'].tokens = k /\ now' = now
      BY <1>3, <1>8, <1>11
    <3>4. ASSUME NEW from \in 0 .. now
          PROVE  IF from <= r.last
                 THEN Since("bucket", from)' + k <= BurstSize + Allowance(r.last - from)
                 ELSE /\ Since("bucket", from)' + k <= BurstSize
                      /\ Since("bucket", from)' = 0 \/ from < r.last + Unit
      <4>1. /\ Since("bucket", from) \in Nat /\ k \in Nat /\ from \in Nat
            /\ Since("bucket", from)' + k = Since("bucket", from) + r.tokens
        BY <1>4, <1>11, <2>1, SinceFacts DEF Ways
      <4>2. r.last \in Nat /\ from < r.last + Unit
        BY <1>4, <1>5, <4>1, LimiterAssumption DEF Times
      <4> QED
        BY <3>2, <4>1, <4>2 DEF WithinBurst
    <3>5. WithinBurst(bucket[attached])'
      BY <3>3, <3>4 DEF WithinBurst, Allowance, Earns, Renewals, Gift
    <3> QED
      BY <1>3, <3>1, <3>5 DEF BucketInv
  <2> QED
    BY <1>9, <2>1, <2>2, <2>3, <2>4, <2>5 DEF LimiterInv
<1> QED
  BY <1>6, <1>10, <1>11

LEMMA CleanupStep ==
    ASSUME LimiterInv, Cleanup
    PROVE  LimiterInv'
<1>1. /\ attached # NoBucket /\ now - bucket[attached].last > IdleLimit
      /\ attached' = NoBucket
      /\ UNCHANGED <<mode, now, bucket, counter, at, started, passed>>
  BY DEF Cleanup, Forgettable
<1>2. LimiterTypeOK' /\ BucketsOK'
  BY <1>1 DEF LimiterInv, LimiterTypeOK, BucketsOK
<1>3. HistoryOK' /\ Settled'
  BY <1>1, <1>2, QuietStep
<1>4. \A w \in Ways, from \in 0 .. now : /\ Since(w, from)' = Since(w, from)
                                        /\ Before(w, from)' = Before(w, from)
  BY <1>1 DEF Since, Before
<1>5. WindowInv'
  BY <1>1, <1>4, WindowKept DEF Ways
<1>6. PICK r : r = bucket[attached]
  OBVIOUS
<1>7. /\ WithinBurst(r) /\ r.tokens \in Nat /\ r.last \in Nat /\ r.last <= now /\ now \in Nat
      /\ BurstSize \in Nat /\ Unit \in Nat /\ IdleLimit \in Nat /\ IdleLimit < now - r.last
      /\ now - r.last \in Nat
  BY <1>1, <1>6, LimiterAssumption DEF LimiterInv, LimiterTypeOK, BucketsOK, BucketInv, Times
<1>8. ASSUME NEW from \in 0 .. now
      PROVE  Since("bucket", from) <= Allowance(now - from)
  <2>1. Since("bucket", from) \in Nat /\ from \in Nat /\ now - from \in Nat /\ Allowance(now - from) \in Nat
    BY <1>7, SinceFacts, AllowanceNat DEF LimiterInv, Ways
  <2>2. CASE from <= r.last
    <3>1. Since("bucket", from) + r.tokens <= BurstSize + Allowance(r.last - from)
      BY <1>7, <2>2 DEF WithinBurst
    <3>2. r.last - from \in Nat /\ Allowance(r.last - from) \in Nat
          /\ (r.last - from) + (now - r.last) = now - from
      BY <1>7, <2>1, <2>2, AllowanceNat
    <3>3. Allowance(r.last - from) + BurstSize <= Allowance((r.last - from) + (now - r.last))
      BY <1>7, <3>2, AllowanceMore
    <3>4. Allowance(r.last - from) + BurstSize <= Allowance(now - from)
      BY <3>2, <3>3
    <3> QED
      BY <1>7, <2>1, <3>1, <3>2, <3>4
  <2>3. CASE r.last < from
    <3>1. /\ Since("bucket", from) + r.tokens <= BurstSize
          /\ Since("bucket", from) = 0 \/ from < r.last + Unit
      BY <1>7, <2>1, <2>3 DEF WithinBurst
    <3>2. CASE Since("bucket", from) = 0
      BY <2>1, <3>2
    <3>3. CASE from < r.last + Unit
      <4>1. now - r.last < (now - from) + Unit
        BY <1>7, <2>1, <3>3
      <4>2. BurstSize <= Allowance(now - from)
        BY <1>7, <2>1, <4>1, AllowanceWithin
      <4> QED
        BY <1>7, <2>1, <3>1, <4>2
    <3> QED
      BY <3>1, <3>2, <3>3
  <2> QED
    BY <1>7, <2>1, <2>2, <2>3
<1>9. BucketInv'
  BY <1>1, <1>4, <1>8 DEF BucketInv, Allowance, Earns, Renewals, Gift, Ways
<1>10. PICK m, n, N : m = Cardinality(Strays) /\ n = Cardinality(Strays)' /\ N = Cardinality(Slots)
  OBVIOUS
<1>11. m \in Nat /\ n \in Nat /\ N \in Nat /\ n <= N
  <2>1. Strays' \subseteq Slots /\ IsFiniteSet(Slots)
    BY LimiterAssumption DEF Strays
  <2> QED
    BY <1>10, <2>1, StraysCounted, FS_Subset, FS_CardinalityType
<1>12. ASSUME NEW from \in 0 .. now
       PROVE  from <= now /\ Since("stray", from) + n < StrayAllowance(now - from)
  <2>1. Since("stray", from) \in Nat /\ from \in Nat /\ now - from \in Nat /\ from <= now
    BY <1>7, SinceFacts DEF LimiterInv, Ways
  <2>2. Since("stray", from) + m <
           (IF from <= r.last THEN StrayAllowance(r.last - from) ELSE N)
    BY <1>1, <1>6, <1>10 DEF LimiterInv, StrayInv, StraysWithin
  <2>3. CASE from <= r.last
    <3>1. /\ r.last - from \in Nat /\ r.last - from <= now - from
          /\ (r.last - from) + IdleLimit <= now - from
      BY <1>7, <2>1, <2>3
    <3>2. /\ StrayAllowance(r.last - from) \in Nat /\ StrayAllowance(now - from) \in Nat
          /\ StrayAllowance(r.last - from) + N <= StrayAllowance(now - from)
      BY <1>10, <2>1, <3>1, StrayAllowanceMore
    <3> QED
      BY <1>11, <2>1, <2>2, <2>3, <3>2
  <2>4. CASE ~(from <= r.last)
    <3>1. StrayAllowance(now - from) \in Nat /\ N + N <= StrayAllowance(now - from)
      BY <1>10, <2>1, StrayAllowanceMore
    <3> QED
      BY <1>11, <2>1, <2>2, <2>4, <3>1
  <2> QED
    BY <2>3, <2>4
<1>13. StrayInv'
  BY <1>1, <1>4, <1>10, <1>12 DEF StrayInv, StraysWithin, StrayAllowance, Ways
<1> QED
  BY <1>2, <1>3, <1>5, <1>9, <1>13 DEF LimiterInv

\* Stretches of time that end now are over; the rest of the budgets stands.
LEMMA TimeStep ==
    ASSUME LimiterInv, LimiterTick
    PROVE  LimiterInv'
<1> USE DEF Ways
<1>1. /\ now < Horizon /\ now' = now + 1
      /\ counter' = IF counter.ends <= now' THEN NoCounter ELSE counter
      /\ UNCHANGED <<mode, attached, bucket, at, started, passed>>
  BY DEF LimiterTick
<1>2. /\ LimiterTypeOK /\ HistoryOK /\ BucketsOK /\ BucketInv /\ WindowInv /\ Settled
      /\ now \in Nat /\ now \in Times /\ now' \in Times /\ Times \subseteq Nat /\ Horizon \in Nat
      /\ Window \in Nat \ {0} /\ RequestsPerMinute \in Nat /\ BurstSize \in Nat
  <2>1. LimiterTypeOK /\ HistoryOK /\ BucketsOK /\ BucketInv /\ WindowInv /\ Settled
    BY DEF LimiterInv
  <2>2. now \in Nat /\ now \in Times /\ Times \subseteq Nat /\ Horizon \in Nat
    BY <2>1, LimiterAssumption DEF LimiterTypeOK, Times
  <2>3. now' \in Times
    BY <1>1, <2>2 DEF Times
  <2> QED
    BY <2>1, <2>2, <2>3, LimiterAssumption
<1>3. /\ HistoryOK'
      /\ \A w \in Ways, from \in 0 .. now : Since(w, from)' = Since(w, from)
      /\ \A w \in Ways : Since(w, now)' = 0
  BY <1>1, <1>2, TickStep
<1>4. \A w \in Ways, from \in Times : Before(w, from)' = Before(w, from)
  BY <1>1 DEF Before
<1>5. LimiterTypeOK'
  BY <1>1, <1>2 DEF LimiterTypeOK, NoCounter
<1>6. BucketsOK'
  <2>1. \A b \in Buckets : bucket[b].last \in Nat /\ bucket[b].last <= now
    BY <1>2 DEF BucketsOK, LimiterTypeOK
  <2>2. \A b \in Buckets : bucket[b].last <= now'
    BY <1>1, <1>2, <2>1
  <2> QED
    BY <1>1, <1>2, <2>2 DEF BucketsOK
<1>7. \A from \in 0 .. now' : from \in 0 .. now \/ from = now'
  BY <1>1, <1>2
<1>8. BucketInv'
  <2>1. CASE attached = NoBucket
    <3>1. ASSUME NEW from \in 0 .. now'
          PROVE  Since("bucket", from)' <= Allowance(now' - from)
      <4>1. now' - from \in Nat /\ Allowance(now' - from) \in Nat
        BY <1>1, <1>2, AllowanceNat
      <4>2. CASE from \in 0 .. now
        <5>1. Since("bucket", from) <= Allowance(now - from) /\ Since("bucket", from) \in Nat
          BY <1>2, <2>1, <4>2, SinceFacts DEF BucketInv
        <5>2. now - from \in Nat /\ now - from <= now' - from /\ Allowance(now - from) \in Nat
          BY <1>1, <1>2, <4>2, AllowanceNat
        <5>3. Allowance(now - from) <= Allowance(now' - from)
          BY <4>1, <5>2, AllowanceGrows
        <5> QED
          BY <1>3, <4>1, <4>2, <5>1, <5>2, <5>3
      <4>3. CASE from = now'
        BY <1>3, <4>1, <4>3
      <4> QED
        BY <1>7, <4>2, <4>3
    <3> QED
      BY <1>1, <2>1, <3>1 DEF BucketInv, Allowance, Earns, Renewals, Gift
  <2>2. CASE attached # NoBucket
    <3>1. PICK r : r = bucket[attached]
      OBVIOUS
    <3>2. /\ WithinBurst(r) /\ r.tokens \in Nat /\ r.tokens <= BurstSize
          /\ r.last \in Nat /\ r.last <= now
      <4>1. attached \in Buckets /\ r \in [tokens : 0 .. BurstSize, last : Times]
        BY <1>2, <2>2, <3>1 DEF LimiterTypeOK
      <4>2. WithinBurst(r) /\ r.last <= now
        BY <1>2, <2>2, <3>1, <4>1 DEF BucketsOK, BucketInv
      <4>3. r.tokens \in 0 .. BurstSize /\ r.last \in Times
        BY <4>1
      <4>4. r.tokens \in Nat /\ r.tokens <= BurstSize /\ r.last \in Nat
        <5>1. BurstSize \in Nat /\ Horizon \in Nat
          BY LimiterAssumption
        <5> QED
          BY <4>3, <5>1 DEF Times
      <4> QED
        BY <4>2, <4>4
    <3>3. ASSUME NEW from \in 0 .. now'
          PROVE  IF from <= r.last
                 THEN Since("bucket", from)' + r.tokens <= BurstSize + Allowance(r.last - from)
                 ELSE /\ Since("bucket", from)' + r.tokens <= BurstSize
                      /\ Since("bucket", from)' = 0 \/ from < r.last + Unit
      <4>1. CASE from \in 0 .. now
        BY <1>3, <3>2, <4>1 DEF WithinBurst
      <4>2. CASE from = now'
        <5>1. Since("bucket", from)' = 0 /\ ~(from <= r.last)
          BY <1>1, <1>2, <1>3, <3>2, <4>2
        <5> QED
          BY <1>2, <3>2, <5>1
      <4> QED
        BY <1>7, <4>1, <4>2
    <3>4. bucket'[attached'] = r
      BY <1>1, <3>1
    <3>5. WithinBurst(bucket[attached])'
      BY <3>3, <3>4 DEF WithinBurst, Allowance, Earns, Renewals, Gift
    <3> QED
      BY <1>1, <2>2, <3>5 DEF BucketInv
  <2> QED
    BY <2>1, <2>2
<1>9. WindowInv'
  <2>1. CASE counter = NoCounter
    <3>1. counter' = NoCounter
      BY <1>1, <2>1
    <3>2. ASSUME NEW from \in 0 .. now', now' - Window < from
          PROVE  Since("redis", from)' <= RequestsPerMinute
      <4>1. CASE from \in 0 .. now
        <5>1. now - Window < from
          BY <1>1, <1>2, <3>2, <4>1
        <5>2. Since("redis", from) <= RequestsPerMinute
          BY <1>2, <2>1, <4>1, <5>1 DEF WindowInv
        <5> QED
          BY <1>3, <4>1, <5>2
      <4>2. CASE from = now'
        BY <1>2, <1>3, <4>2
      <4> QED
        BY <1>7, <4>1, <4>2
    <3> QED
      BY <1>3, <3>1, <3>2 DEF WindowInv
  <2>2. CASE counter # NoCounter
    <3>1. PICK s : s = counter.ends - Window
      OBVIOUS
    <3>2. /\ s \in 0 .. now /\ now < counter.ends
          /\ Since("redis", s) <= RequestsPerMinute
          /\ Since("redis", s) <= counter.count
          /\ \A from \in 0 .. s : s - Window < from =>
                Before("redis", s) - Before("redis", from) <= RequestsPerMinute
      BY <1>2, <2>2, <3>1 DEF WindowInv
    <3>3. counter.ends \in Nat /\ s \in Nat /\ Since("redis", s) \in Nat
      BY <1>2, <3>2, SinceFacts DEF LimiterTypeOK
    <3>4. CASE counter.ends <= now'
      <4>1. counter' = NoCounter /\ counter.ends = now' /\ s = now' - Window
        BY <1>1, <1>2, <3>1, <3>2, <3>3, <3>4
      <4>2. ASSUME NEW from \in 0 .. now', now' - Window < from
            PROVE  Since("redis", from)' <= RequestsPerMinute
        <5>1. CASE from \in 0 .. now
          <6>1. s <= from /\ Since("redis", from) \in Nat
            <7>1. s <= from
              BY <1>1, <1>2, <3>3, <4>1, <4>2, <5>1
            <7> QED
              BY <1>2, <5>1, <7>1, SinceFacts
          <6>2. Since("redis", from) <= Since("redis", s)
            BY <1>2, <3>2, <5>1, <6>1, SinceShrinks
          <6> QED
            BY <1>2, <1>3, <3>2, <3>3, <5>1, <6>1, <6>2
        <5>2. CASE from = now'
          BY <1>2, <1>3, <5>2
        <5> QED
          BY <1>7, <5>1, <5>2
      <4> QED
        BY <1>3, <4>1, <4>2 DEF WindowInv
    <3>5. CASE ~(counter.ends <= now')
      <4>1. counter' = counter /\ now' < counter.ends /\ s \in 0 .. now'
        BY <1>1, <1>2, <3>2, <3>3, <3>5
      <4>2. \A from \in 0 .. s : from \in Times /\ s \in Times
        BY <1>2, <3>2 DEF Times
      <4>3. \A from \in 0 .. s : s - Window < from =>
               Before("redis", s)' - Before("redis", from)' <= RequestsPerMinute
        BY <1>4, <3>2, <4>2
      <4>4. Since("redis", s)' <= RequestsPerMinute /\ Since("redis", s)' <= counter'.count
        BY <1>3, <3>2, <4>1
      <4> QED
        BY <2>2, <3>1, <4>1, <4>3, <4>4 DEF WindowInv
    <3> QED
      BY <3>4, <3>5
  <2> QED
    BY <2>1, <2>2
<1>10. Settled'
  <2>1. \A w \in Ways, from, to \in Times : Through(w, from, to)' = Through(w, from, to)
    BY <1>1 DEF Through, Before
  <2>2. ASSUME NEW from \in Times, NEW to \in Times, from <= to, to < now'
        PROVE  /\ Through("bucket", from, to) <= BurstSize + Allowance(to - from)
               /\ Through("stray", from, to) < StrayAllowance(to - from)
    <3>1. to - from \in Nat
      BY <1>2, <2>2
    <3> QED
      BY <2>2, <3>1, BucketBudgetFollows, BudgetIsAllowance DEF BucketBudget
  <2>3. ASSUME NEW from \in Times, from + Window - 1 < now'
        PROVE  Through("redis", from, from + Window - 1) <= 2 * RequestsPerMinute
    <3>1. from + Window - 1 \in Int /\ from + Window - 1 <= Horizon
      BY <1>1, <1>2, <2>3
    <3>2. Min({from + Window - 1, Horizon}) = from + Window - 1
      BY <1>2, <3>1, SmallerOfTwo
    <3> QED
      BY <2>3, <3>2, WindowBudgetFollows DEF WindowBudget
  <2>4. \A from \in Times : from + Window - 1 < now' => from + Window - 1 \in Times
    BY <1>1, <1>2 DEF Times
  <2> QED
    BY <2>1, <2>2, <2>3, <2>4 DEF Settled, Allowance, Earns, Renewals, Gift, StrayAllowance
<1>11. StrayInv'
  <2>1. Strays' = Strays
    BY <1>1 DEF Strays
  <2>2. PICK n, N : n = Cardinality(Strays) /\ N = Cardinality(Slots)
    OBVIOUS
  <2>3. n = Cardinality(Strays)' /\ n \in Nat /\ N \in Nat \ {0} /\ n <= N
    BY <2>1, <2>2, StraysCounted
  <2>4. CASE attached = NoBucket
    <3>1. ASSUME NEW from \in 0 .. now'
          PROVE  from <= now' /\ Since("stray", from)' + n < StrayAllowance(now' - from)
      <4>1. now' - from \in Nat /\ from \in Nat /\ from <= now'
        BY <1>1, <1>2
      <4>2. StrayAllowance(now' - from) \in Nat /\ N + N <= StrayAllowance(now' - from)
        BY <2>2, <4>1, StrayAllowanceMore
      <4>3. CASE from \in 0 .. now
        <5>1. Since("stray", from) + n < StrayAllowance(now - from) /\ Since("stray", from) \in Nat
          BY <1>2, <2>2, <2>4, <4>3, SinceFacts DEF LimiterInv, StrayInv, StraysWithin
        <5>2. now - from \in Nat /\ now - from <= now' - from
          BY <1>1, <1>2, <4>3
        <5>3. /\ StrayAllowance(now - from) \in Nat
              /\ StrayAllowance(now - from) <= StrayAllowance(now' - from)
          BY <4>1, <5>2, StrayAllowanceMore
        <5> QED
          BY <1>3, <2>3, <4>1, <4>2, <4>3, <5>1, <5>3
      <4>4. CASE from = now'
        BY <1>3, <2>3, <4>1, <4>2, <4>4
      <4> QED
        BY <1>7, <4>3, <4>4
    <3> QED
      BY <1>1, <2>2, <2>3, <2>4, <3>1 DEF StrayInv, StraysWithin, StrayAllowance
  <2>5. CASE attached # NoBucket
    <3>1. PICK l : l = bucket[attached].last
      OBVIOUS
    <3>2. l \in Nat /\ l <= now
      BY <1>2, <2>5, <3>1 DEF LimiterTypeOK, BucketsOK
    <3>3. n < N
      BY <2>2, <2>5 DEF LimiterInv, StrayInv
    <3>4. ASSUME NEW from \in 0 .. now'
          PROVE  Since("stray", from)' + n <
                     (IF from <= l THEN StrayAllowance(l - from) ELSE N)
      <4>1. CASE from \in 0 .. now
        BY <1>3, <2>2, <2>5, <3>1, <4>1 DEF LimiterInv, StrayInv, StraysWithin
      <4>2. CASE from = now'
        <5>1. Since("stray", from)' = 0 /\ ~(from <= l)
          BY <1>1, <1>2, <1>3, <3>2, <4>2
        <5> QED
          BY <2>3, <3>3, <5>1
      <4> QED
        BY <1>7, <4>1, <4>2
    <3> QED
      BY <1>1, <2>2, <2>3, <2>5, <3>1, <3>3, <3>4 DEF StrayInv, StraysWithin, StrayAllowance
  <2> QED
    BY <2>4, <2>5
<1> QED
  BY <1>3, <1>5, <1>6, <1>8, <1>9, <1>10, <1>11 DEF LimiterInv

LEMMA LimiterStep == LimiterInv /\ [LimiterNext]_limiterVars => LimiterInv'
<1> SUFFICES ASSUME LimiterInv, [LimiterNext]_limiterVars
             PROVE  LimiterInv'
  OBVIOUS
<1>1. CASE UNCHANGED limiterVars
  BY <1>1 DEF limiterVars, LimiterInv, LimiterTypeOK, HistoryOK, BucketsOK, BucketInv, WithinBurst,
              StrayInv, StraysWithin, Strays, WindowInv, Settled, Since, Before, Through,
              Allowance, Earns, Renewals, Gift, StrayAllowance
<1>2. ASSUME NEW p \in Slots, Arrive(p) PROVE LimiterInv'
  BY <1>2, ArriveStep
<1>3. ASSUME NEW p \in Slots, IncrementRateLimit(p) \/ RedisError(p) PROVE LimiterInv'
  BY <1>3, RedisStep
<1>4. ASSUME NEW p \in Slots, Lookup(p) PROVE LimiterInv'
  BY <1>4, LookupStep
<1>5. ASSUME NEW p \in Slots, TakeToken(p) PROVE LimiterInv'
  BY <1>5, TakeStep
<1> QED
  BY <1>1, <1>2, <1>3, <1>4, <1>5, CleanupStep, TimeStep DEF LimiterNext

-----------------------------------------------------------------------------

\* The strengthening of both budgets is kept by every step.
THEOREM LimiterInductive == LimiterSpec => []LimiterInv
BY LimiterStart, LimiterStep, PTL DEF LimiterSpec

\* Tokens stay between none and a burst, however long the client was away.
THEOREM LimiterTypeCorrect == LimiterSpec => []LimiterTypeOK
<1>1. LimiterInv => LimiterTypeOK
  BY DEF LimiterInv
<1> QED
  BY <1>1, LimiterInductive, PTL

\* In no stretch of time do the buckets let more through than a burst, what the
\* time earns and what forgetting a bucket gives away, whether it is the one in
\* the map or one that the cleanup took from under a request: for every rate,
\* burst and idle limit, also for a burst that takes longer to earn than the
\* idle limit, which the configuration accepts.
THEOREM BucketBudgetHolds == LimiterSpec => []BucketBudget
BY BucketBudgetFollows, LimiterInductive, PTL

\* No stretch of a window's length sees more than twice the limit pass Redis.
THEOREM WindowBudgetHolds == LimiterSpec => []WindowBudget
BY WindowBudgetFollows, LimiterInductive, PTL
=============================================================================
