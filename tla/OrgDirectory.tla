---------------------------- MODULE OrgDirectory ----------------------------
(***************************************************************************)
(* Names and slugs of organizations: CreateOrganization, UpdateOrganization *)
(* and the resolution of the :id of a route (services/organization_service, *)
(* organization_slug, repositories/organizationRepository).  A step is one  *)
(* statement.  An update reads a row, checks, and saves every column of the *)
(* row it read; slugs are looked up outside a transaction, and the unique   *)
(* index has the last word.                                                 *)
(*                                                                          *)
(* A slug is a text in normal form.  An id written out is such a text, and  *)
(* uuid.Parse reads other texts as ids too.                                 *)
(***************************************************************************)
EXTENDS Naturals

CONSTANTS
    Tenants,      \* organization ids
    Editors,      \* people, each with one request at a time
    Names,
    Slugs,
    SlugOf,       \* name -> the slug made of it
    Suffixed,     \* slug -> what a random suffix may make of it
    ReadsAs,      \* slug -> the id uuid.Parse reads in it, or NotAnId
    SlugTries,
    MaxEdits,     \* bound: requests and changes of managers
    NoOrg, NotAnId, Same

ASSUME DirectoryAssumption ==
    /\ SlugOf \in [Names -> Slugs]
    /\ Suffixed \in [Slugs -> SUBSET Slugs]
    /\ NotAnId \notin Tenants
    /\ SlugTries \in Nat \ {0} /\ MaxEdits \in Nat
    /\ Same \notin Slugs \union Names
    /\ NoOrg \notin Tenants \union [name : Names, slug : Slugs, by : Editors]
    /\ NoOrg \notin [name : Names, slug : Slugs]

VARIABLES
    org,      \* organizations
    manager,  \* members whose role may manage the organization
    edit,     \* the request of each person
    edits,
    told,       \* history: name and slug of each organization as last answered
    overlapped  \* history: saved while another request held a copy of the row

seenDirVars == <<told, overlapped>>
dirVars == <<org, manager, edit, edits, seenDirVars>>

OrgRows == [name : Names, slug : Slugs, by : Editors]
Answers == [name : Names, slug : Slugs]
Steps == {"candidate", "free", "insert", "find", "role", "save"}

\* row is what will be written; rename and want are what an update asks for.
Edits == [step : Steps, org : Tenants \union {NoOrg}, row : OrgRows \union {NoOrg},
          rename : Names \union {Same}, want : Slugs \union {Same}, tries : 0..SlugTries]
Idle == [step |-> "idle"]

DirectoryTypeOK ==
    /\ org \in [Tenants -> OrgRows \union {NoOrg}]
    /\ manager \in [Tenants -> SUBSET Editors]
    /\ edit \in [Editors -> Edits \union {Idle}]
    /\ edits \in 0..MaxEdits
    /\ told \in [Tenants -> Answers \union {NoOrg}]
    /\ overlapped \subseteq Tenants

DirectoryInit ==
    /\ org = [o \in Tenants |-> NoOrg]
    /\ manager = [o \in Tenants |-> {}]
    /\ edit = [e \in Editors |-> Idle]
    /\ edits = 0
    /\ told = [o \in Tenants |-> NoOrg]
    /\ overlapped = {}

Answer409(e) == edit' = [edit EXCEPT ![e] = Idle]
Advance(e, r) == edit' = [edit EXCEPT ![e] = r]

BeginEdit(e, r) ==
    /\ edit[e] = Idle
    /\ edits < MaxEdits /\ edits' = edits + 1
    /\ Advance(e, r)
    /\ UNCHANGED <<org, manager, seenDirVars>>

Carry(s) == {o \in Tenants : org[o] # NoOrg /\ org[o].slug = s}

\* Existing organizations with the slug, but the one excluded.
ExistsSlugLower(s, but) == Carry(s) \ {but} # {}

\* An id is read first: a slug that reads as one never finds its organization.
Resolved(s) == IF ReadsAs[s] = NotAnId THEN Carry(s) ELSE {ReadsAs[s]} \intersect Tenants

-----------------------------------------------------------------------------

\* s is the slug asked for, or Same when the request leaves it to the name.
CreateOrganization(e, n, s) ==
    BeginEdit(e, [step |-> IF s = Same THEN "candidate" ELSE "free", org |-> NoOrg,
                  row |-> [name |-> n, slug |-> IF s = Same THEN SlugOf[n] ELSE s, by |-> e],
                  rename |-> n, want |-> s, tries |-> SlugTries])

\* resolveCreateSlug without a slug: another suffix until one is free.
TryCandidate(e) ==
    /\ edit[e] # Idle /\ edit[e].step = "candidate"
    /\ LET r == edit[e] IN
          IF ~ExistsSlugLower(r.row.slug, NoOrg)
          THEN Advance(e, [r EXCEPT !.step = "insert"])
          ELSE IF r.tries <= 1 THEN Answer409(e)
          ELSE \E s \in Suffixed[SlugOf[r.row.name]] :
                  Advance(e, [r EXCEPT !.row.slug = s, !.tries = @ - 1])
    /\ UNCHANGED <<org, manager, edits, seenDirVars>>

\* With a slug: free when looked up, of an update whoever but itself carries it.
CheckSlug(e) ==
    /\ edit[e] # Idle /\ edit[e].step = "free"
    /\ LET r == edit[e] IN
          IF ExistsSlugLower(r.want, r.org) THEN Answer409(e)
          ELSE Advance(e, [r EXCEPT !.row.slug = r.want,
                                    !.step = IF r.org = NoOrg THEN "insert" ELSE "save"])
    /\ UNCHANGED <<org, manager, edits, seenDirVars>>

\* ux_organizations_slug_lower
AnySlug(s, o) == TRUE                                                       \* mutant
UniqueIndex(s, o) == Carry(s) \subseteq {o}

\* What a request that is answered asked for: a column it left out stays as it
\* was, or on creation is what was made for it.
Asked(r, before) ==
    [name |-> IF r.rename = Same THEN before.name ELSE r.rename,
     slug |-> IF r.want = Same THEN before.slug ELSE r.want]

\* The organization and its owner in one transaction.
CreateWithOwnerMembership(e) ==
    /\ edit[e] # Idle /\ edit[e].step = "insert"
    /\ \E o \in Tenants :
          /\ org[o] = NoOrg
          /\ UniqueIndex(edit[e].row.slug, o)
          /\ org' = [org EXCEPT ![o] = edit[e].row]
          /\ manager' = [manager EXCEPT ![o] = {e}]
          /\ told' = [told EXCEPT ![o] = Asked(edit[e], edit[e].row)]
    /\ edit' = [edit EXCEPT ![e] = Idle]
    /\ UNCHANGED <<edits, overlapped>>

-----------------------------------------------------------------------------

\* The route is resolved before the body is looked at.
UpdateOrganization(e, path, rename, want) ==
    /\ rename # Same \/ want # Same
    /\ \E o \in Resolved(path) :
          BeginEdit(e, [step |-> "find", org |-> o, row |-> NoOrg, rename |-> rename,
                        want |-> want, tries |-> 0])

FindForUpdate(e) ==
    /\ edit[e] # Idle /\ edit[e].step = "find"
    /\ org[edit[e].org] # NoOrg
    /\ Advance(e, [edit[e] EXCEPT !.step = "role", !.row = org[edit[e].org]])
    /\ UNCHANGED <<org, manager, edits, seenDirVars>>

\* The slug is looked up only when it differs from the one that was read.
CheckManager(e) ==
    /\ edit[e] # Idle /\ edit[e].step = "role"
    /\ e \in manager[edit[e].org]
    /\ LET r == edit[e] IN
          Advance(e, [r EXCEPT
              !.step = IF r.want \in {Same, r.row.slug} THEN "save" ELSE "free",
              !.row.name = IF r.rename = Same THEN @ ELSE r.rename])
    /\ UNCHANGED <<org, manager, edits, seenDirVars>>

HoldsCopy(e, o) == edit[e] # Idle /\ edit[e].step \in {"role", "free", "save"} /\ edit[e].org = o

\* Save writes every column, changed since or not.
SaveOrganization(e) ==
    /\ edit[e] # Idle /\ edit[e].step = "save"
    /\ LET o == edit[e].org IN
          /\ UniqueIndex(edit[e].row.slug, o)
          /\ org' = [org EXCEPT ![o] = edit[e].row]
          /\ told' = [told EXCEPT ![o] = Asked(edit[e], told[o])]
          /\ overlapped' = IF \E f \in Editors \ {e} : HoldsCopy(f, o)
                           THEN overlapped \union {o} ELSE overlapped
    /\ edit' = [edit EXCEPT ![e] = Idle]
    /\ UNCHANGED <<manager, edits>>

\* 400, 403, 404, 409, or an error of a statement.
RefuseEdit(e) ==
    /\ edit[e] # Idle
    /\ edit' = [edit EXCEPT ![e] = Idle]
    /\ UNCHANGED <<org, manager, edits, seenDirVars>>

-----------------------------------------------------------------------------

\* An administrator comes or goes (see OrgMembership); the owner stays.
ChangeManager(o, e) ==
    /\ org[o] # NoOrg /\ org[o].by # e
    /\ edits < MaxEdits /\ edits' = edits + 1
    /\ \E there \in BOOLEAN :
          manager' = [manager EXCEPT ![o] = IF there THEN @ \union {e} ELSE @ \ {e}]
    /\ UNCHANGED <<org, edit, seenDirVars>>

DirectoryNext ==
    \/ \E o \in Tenants, e \in Editors : ChangeManager(o, e)
    \/ \E e \in Editors :
          \/ \E n \in Names, s \in Slugs \union {Same} : CreateOrganization(e, n, s)
          \/ \E path \in Slugs, n \in Names \union {Same}, s \in Slugs \union {Same} :
                UpdateOrganization(e, path, n, s)
          \/ TryCandidate(e)
          \/ CheckSlug(e)
          \/ CreateWithOwnerMembership(e)
          \/ FindForUpdate(e)
          \/ CheckManager(e)
          \/ SaveOrganization(e)
          \/ RefuseEdit(e)

DirectorySpec == DirectoryInit /\ [][DirectoryNext]_dirVars

-----------------------------------------------------------------------------

\* What a manager was answered stands until a manager of the same organization is
\* answered otherwise: the name, and the slug, which leads there and nowhere else
\* unless it reads as an id.  Slugs are looked up before they are written, in
\* creations and renames that know nothing of each other, and a save writes back
\* every column it read.  Where saves of one organization overlap, the later may
\* undo the earlier, and the answer to that one is void.
AnswerStands ==
    \A o \in Tenants \ overlapped : told[o] # NoOrg =>
        /\ org[o] # NoOrg /\ org[o].name = told[o].name /\ org[o].slug = told[o].slug
        /\ ReadsAs[told[o].slug] = NotAnId => Resolved(told[o].slug) = {o}
=============================================================================
