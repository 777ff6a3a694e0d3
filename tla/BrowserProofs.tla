---------------------------- MODULE BrowserProofs ----------------------------
(***************************************************************************)
(* Proofs about Browser for any lists, forms and tabs.                     *)
(***************************************************************************)
EXTENDS Browser, FiniteSetTheorems, TLAPS

-----------------------------------------------------------------------------
(* The log page.                                                           *)

\* What the two sections ask for was asked for in this drawer; without a
\* drawer there is neither a summary nor anything asked for.
AskedHere ==
    /\ \A k \in Kind : \A p \in requested[k] :
          [log |-> logShown, kind |-> k, part |-> p] \in asked
    /\ logShown = None => summary = None /\ requested = Untouched

LogInv == LogTypeOK /\ AskedHere /\ BodyOnDemand

LEMMA LogInitially == LogInit => LogInv
BY DEF LogInit, LogInv, LogTypeOK, AskedHere, BodyOnDemand, Untouched

\* The drawer that closes drops its sections and aborts their reads; only a
\* button, for the log that is shown, adds to what is asked for.
LEMMA LogStep == LogInv /\ [LogNext]_logVars => LogInv'
<1> SUFFICES ASSUME LogInv, [LogNext]_logVars PROVE LogInv'
  OBVIOUS
<1> USE LogAssumption DEF LogInv, LogTypeOK, AskedHere, BodyOnDemand, Kind
<1>1. ASSUME NEW l \in Log, OpenLog(l) PROVE LogInv'
  BY <1>1 DEF OpenLog, Untouched
<1>2. CASE SummaryRead
  BY <1>2 DEF SummaryRead
<1>3. CASE CloseLog
  BY <1>3 DEF CloseLog, Untouched
<1>4. ASSUME NEW k \in Kind, NEW p \in Part, AskBody(k, p) PROVE LogInv'
  <2>1. logShown \in Log /\ [log |-> logShown, kind |-> k, part |-> p] \in Wanted
    BY <1>4 DEF AskBody, BodyEnabled, Wanted
  <2>2. QED
    BY <1>4, <2>1 DEF AskBody, BodyEnabled
<1>5. ASSUME NEW k \in Kind, FoldItem(k) PROVE LogInv'
  BY <1>5 DEF FoldItem, BodyEnabled
<1>6. ASSUME NEW k \in Kind, NEW p \in Part, ReadBody(k, p) PROVE LogInv'
  BY <1>6 DEF ReadBody, BodyEnabled
<1>7. CASE BodyRead \/ CapabilityChanges
  BY <1>7 DEF BodyRead, CapabilityChanges
<1>8. CASE UNCHANGED logVars
  BY <1>8 DEF logVars
<1>9. QED
  BY <1>1, <1>2, <1>3, <1>4, <1>5, <1>6, <1>7, <1>8 DEF LogNext

-----------------------------------------------------------------------------
(* The dialogs of the API key page.                                        *)

\* What is typed is for the key its dialog was opened for, which stays shown
\* until a key is removed; then no other is shown before the dialog is closed.
TypedForShown ==
    resetTyped # None => dialog = "reset" /\ shownKey \in {resetTyped, None}

DialogsInv == DialogsTypeOK /\ TypedForShown /\ SecretForItsKey

LEMMA DialogsInitially == DialogsInit => DialogsInv
<1> SUFFICES ASSUME DialogsInit PROVE DialogsInv
  OBVIOUS
<1> USE DialogsAssumption DEF DialogsInit
<1>1. DialogsTypeOK
  <2>1. /\ shownKey \in Key \union {None} /\ loaded \in BOOLEAN
        /\ createTyped \in BOOLEAN /\ resetTyped \in Key \union {None}
    OBVIOUS
  <2>2. dialog \in {"create", "reset", None} /\ made \in 0..MaxCalls
    OBVIOUS
  <2>3. /\ revealed \in {"created", "replaced", None}
        /\ snapshot \in Key \union {None} /\ plan \in Key \union {None}
    OBVIOUS
  <2>4. errors \subseteq CallKind /\ calls \subseteq Call
    OBVIOUS
  <2>5. QED
    BY <2>1, <2>2, <2>3, <2>4, Zenon DEF DialogsTypeOK
<1>2. TypedForShown /\ SecretForItsKey
  BY DEF TypedForShown, SecretForItsKey
<1>3. QED
  BY <1>1, <1>2 DEF DialogsInv

\* A call that is forgotten stays the call it was.
LEMMA CallsForgotten ==
    ASSUME NEW kinds, calls \subseteq Call, SecretForItsKey
    PROVE  /\ Forgotten(kinds) \subseteq Call
           /\ \A c \in Forgotten(kinds) : c.kind = "replace" => c.typed = c.key
BY DEF SecretForItsKey, Forgotten, Call

\* A call that is started names the key that is shown.
LEMMA CallStarted ==
    ASSUME NEW kind \in CallKind, NEW key \in Key \union {None},
           NEW typed \in Key \union {None}, DialogsTypeOK, SecretForItsKey,
           Start(kind, key, typed), kind = "replace" => typed = key
    PROVE  /\ calls' \subseteq Call /\ made' \in 0..MaxCalls /\ errors' \subseteq CallKind
           /\ \A c \in calls' : c.kind = "replace" => c.typed = c.key
<1> DEFINE call == [id |-> made', kind |-> kind, key |-> key,
                    typed |-> typed, watched |-> TRUE]
<1>1. made' \in 1..MaxCalls
  BY DialogsAssumption DEF DialogsTypeOK, Start
<1>2. call \in Call
  BY <1>1 DEF Call
<1>3. calls' = Forgotten({kind}) \union {call}
  BY DEF Start
<1>4. calls' \subseteq Call
  BY <1>2, <1>3, CallsForgotten DEF DialogsTypeOK
<1>5. made' \in 0..MaxCalls
  BY <1>1, DialogsAssumption
<1>6. errors' \subseteq CallKind
  BY DEF DialogsTypeOK, Start
<1>7. \A c \in calls' : c.kind = "replace" => c.typed = c.key
  BY <1>3, CallsForgotten DEF DialogsTypeOK
<1>8. QED
  BY <1>4, <1>5, <1>6, <1>7

LEMMA DialogsStep == DialogsInv /\ [DialogsNext]_dialogVars => DialogsInv'
<1> SUFFICES ASSUME DialogsInv, [DialogsNext]_dialogVars PROVE DialogsInv'
  OBVIOUS
<1> USE DialogsAssumption
    DEF DialogsInv, DialogsTypeOK, TypedForShown, SecretForItsKey
<1>1. ASSUME NEW k \in Key, NEW ready \in BOOLEAN, ShowKey(k, ready) PROVE DialogsInv'
  BY <1>1 DEF ShowKey, Clear
<1>2. CASE KeyRead \/ HideKey
  BY <1>2 DEF KeyRead, HideKey, Clear
<1>3. CASE ResetLimiter \/ MakePlan \/ Revoke
  BY <1>3, CallStarted DEF ResetLimiter, MakePlan, Revoke, CallKind
<1>4. CASE ShowCreate \/ TypeCreate \/ DismissSecret
  BY <1>4 DEF ShowCreate, TypeCreate, DismissSecret, Clear
<1>5. CASE SubmitCreate
  BY <1>5, CallStarted DEF SubmitCreate, CallKind
<1>6. CASE CancelCreate
  BY <1>6, CallsForgotten DEF CancelCreate
<1>7. CASE ShowReset \/ TypeSecret
  BY <1>7 DEF ShowReset, TypeSecret, InDrawer, Clear
<1>8. CASE SubmitSecret
  BY <1>8, CallStarted DEF SubmitSecret, CallKind
<1>9. CASE CancelReset
  BY <1>9, CallsForgotten DEF CancelReset
<1>10. CASE ReloadAfterConflict
  BY <1>10, CallsForgotten DEF ReloadAfterConflict
<1>11. ASSUME NEW c \in calls,
              \/ Created(c) \/ Replaced(c) \/ LimiterReset(c) \/ Planned(c)
              \/ Revoked(c) \/ Failed(c)
       PROVE  DialogsInv'
  BY <1>11 DEF Created, Replaced, LimiterReset, Planned, Revoked, Failed, Ends, Call
<1>12. CASE UNCHANGED dialogVars
  BY <1>12 DEF dialogVars
<1>13. QED
  BY <1>1, <1>2, <1>3, <1>4, <1>5, <1>6, <1>7, <1>8, <1>9, <1>10, <1>11, <1>12
     DEF DialogsNext

-----------------------------------------------------------------------------
(* The model page.                                                         *)

\* The choice is one of the view that is shown: ticks and the confirmation go
\* with it.
ChosenHere == (\A t \in selected : t.view = view) /\ confirmed \in {None, view}

ListInv == ListTypeOK /\ ChosenHere /\ BatchAsChosen

LEMMA ListInitially == ListInit => ListInv
<1> SUFFICES ASSUME ListInit PROVE ListInv
  OBVIOUS
<1> USE ListAssumption DEF ListInit
<1>1. ListTypeOK
  <2>1. listRev \in 0..MaxList /\ view \in View
    OBVIOUS
  <2>2. list \in Listing \union {None} /\ listing \in Listing \union {None}
    OBVIOUS
  <2>3. selected \in Ticks /\ mode \in {"ids", "filter"}
    BY DEF Ticks
  <2>4. /\ confirmed \in View \union {None} /\ batch \in Batch \union {None}
        /\ single \in 0..MaxList \union {None}
    OBVIOUS
  <2>5. QED
    BY <2>1, <2>2, <2>3, <2>4, Zenon DEF ListTypeOK
<1>2. ChosenHere /\ BatchAsChosen
  BY DEF ChosenHere, BatchAsChosen
<1>3. QED
  BY <1>1, <1>2 DEF ListInv

\* What is sent says what was chosen where it was sent from.
LEMMA BatchSent ==
    ASSUME ListTypeOK, NEW kind \in {"ids", "filter"}, NEW ticks \in Ticks,
           NEW filter \in View \union {None}, SendBatch(kind, ticks, filter),
           \A t \in ticks : t.view = view,
           kind = "filter" => filter = view /\ view \in Filtered
    PROVE  batch' \in Batch \union {None} /\ BatchAsChosen'
<1>1. list \in Listing /\ view \in View
  BY DEF SendBatch, ListTypeOK
<1>2. list.rev \in 0..MaxList
  BY <1>1 DEF Listing
<1>3. batch' \in Batch
  BY <1>1, <1>2 DEF SendBatch, Batch
<1>4. BatchAsChosen'
  BY DEF SendBatch, BatchAsChosen
<1>5. QED
  BY <1>3, <1>4

LEMMA ListStep == ListInv /\ [ListNext]_listVars => ListInv'
<1> SUFFICES ASSUME ListInv, [ListNext]_listVars PROVE ListInv'
  OBVIOUS
<1> USE ListAssumption DEF ListInv, ListTypeOK, ChosenHere, BatchAsChosen
<1>1. ASSUME NEW v \in View, ShowView(v) PROVE ListInv'
  BY <1>1 DEF ShowView, Ticks
<1>2. ASSUME NEW M \in SUBSET Model, Tick(M) PROVE ListInv'
  <2>1. selected' \in Ticks /\ \A t \in selected' : t.view = view
    BY <1>2 DEF Tick, Ticks
  <2>2. QED
    BY <1>2, <2>1 DEF Tick
<1>3. ASSUME NEW m \in {"ids", "filter"}, SetMode(m) PROVE ListInv'
  BY <1>3 DEF SetMode
<1>4. CASE ReadList
  <2>1. listing' \in Listing
    BY <1>4 DEF ReadList, Listing
  <2>2. QED
    BY <1>4, <2>1 DEF ReadList
<1>5. CASE ListRead \/ Confirm \/ ListChanges
  BY <1>5 DEF ListRead, Confirm, ListChanges
<1>6. CASE SubmitBatch
  <2>1. batch' \in Batch \union {None} /\ BatchAsChosen'
    BY <1>6, BatchSent DEF SubmitBatch, HasSelection, Ticks
  <2>2. QED
    BY <1>6, <2>1 DEF SubmitBatch, SendBatch
<1>7. CASE SubmitSingle \/ SingleAnswered
  BY <1>7 DEF SubmitSingle, SingleAnswered
<1>8. CASE BatchAnswered
  <2>1. PICK p \in {"done", "accepted", "failed"} : batch' = [batch EXCEPT !.phase = p]
    BY <1>8 DEF BatchAnswered
  <2>2. batch \in Batch
    BY <1>8 DEF BatchAnswered
  <2>3. batch' \in Batch
    BY <2>1, <2>2 DEF Batch
  <2>4. /\ batch'.kind = batch.kind /\ batch'.chosen = batch.chosen
        /\ batch'.filter = batch.filter /\ batch'.view = batch.view
    BY <2>1, <2>2 DEF Batch
  <2>5. BatchAsChosen'
    BY <1>8, <2>4 DEF BatchAnswered
  <2>6. QED
    BY <1>8, <2>3, <2>5 DEF BatchAnswered
<1>9. CASE BatchTold
  BY <1>9 DEF BatchTold, Ticks
<1>10. CASE UNCHANGED listVars
  BY <1>10 DEF listVars
<1>11. QED
  BY <1>1, <1>2, <1>3, <1>4, <1>5, <1>6, <1>7, <1>8, <1>9, <1>10 DEF ListNext

-----------------------------------------------------------------------------
(* The import panel.                                                       *)

\* The secret that is kept came with the preview that is shown, whose
\* conflicts are overwritten where the operator said so.
PreviewKept ==
    /\ secret # None => preview # None /\ secret = preview.import
    /\ preview # None =>
          \A x \in decisions.overwrite \intersect preview.conflicts :
             <<preview.import, x>> \in chosen
    /\ previewing # None => imports < MaxImport

ImportInv == ImportTypeOK /\ PreviewKept

\* The step property of ImportAsChosen.
CommitAsChosen ==
    committing = None /\ committing' # None =>
       LET c == committing' IN
       /\ \A x \in c.overwrite \intersect c.preview.conflicts :
             <<c.preview.import, x>> \in chosen
       /\ c.secret = c.preview.import

LEMMA ImportInitially == ImportInit => ImportInv
<1> SUFFICES ASSUME ImportInit PROVE ImportInv
  OBVIOUS
<1> USE ImportAssumption DEF ImportInit
<1>1. payload \in BOOLEAN /\ preview \in Preview \union {None}
  OBVIOUS
<1>2. secret \in Import \union {None} /\ result \in Import \union {None}
  OBVIOUS
<1>3. decisions \in Decisions /\ chosen \in Pairs
  BY DEF Decisions, Undecided, Pairs
<1>4. previewing \in {"sent", None} /\ committing \in Commit \union {None}
  OBVIOUS
<1>5. imports \in 0..MaxImport
  OBVIOUS
<1>6. PreviewKept
  BY DEF PreviewKept
<1>7. QED
  BY <1>1, <1>2, <1>3, <1>4, <1>5, <1>6, Zenon DEF ImportInv, ImportTypeOK

LEMMA ImportStep == ImportInv /\ [ImportNext]_importVars => ImportInv'
<1> SUFFICES ASSUME ImportInv, [ImportNext]_importVars PROVE ImportInv'
  OBVIOUS
<1> USE ImportAssumption DEF ImportInv, ImportTypeOK, PreviewKept
<1>1. Undecided \in Decisions /\ Undecided.overwrite = {}
  BY DEF Undecided, Decisions
<1>2. CASE SetPayload
  BY <1>2 DEF SetPayload
<1>3. CASE ClearContent \/ RunPreview
  BY <1>1, <1>3 DEF ClearContent, RunPreview, ResetPreviewState
<1>4. CASE PreviewAnswered
  <2>1. CASE UNCHANGED <<imports, preview, secret, decisions>>
    BY <1>4, <2>1 DEF PreviewAnswered
  <2>2. ASSUME NEW C \in SUBSET Candidate, imports' = imports + 1,
               preview' = [import |-> imports', conflicts |-> C], secret' = imports',
               decisions' = [keep |-> {}, overwrite |-> Preselected(C)]
        PROVE  ImportInv'
    <3>1. imports' \in Import /\ imports' \in 0..MaxImport
      BY <1>4, <2>2 DEF PreviewAnswered, Import
    <3>2. preview' \in Preview /\ preview'.conflicts = C /\ preview'.import = imports'
      BY <2>2, <3>1 DEF Preview
    <3>3. decisions' \in Decisions /\ decisions'.overwrite = Candidate \ C
      BY <2>2 DEF Decisions, Preselected
    <3>4. QED
      BY <1>4, <2>2, <3>1, <3>2, <3>3 DEF PreviewAnswered
  <2>3. QED
    BY <1>4, <2>1, <2>2 DEF PreviewAnswered
<1>5. ASSUME NEW c \in Candidate, NEW o \in BOOLEAN, Decide(c, o) PROVE ImportInv'
  <2>1. preview \in Preview /\ decisions \in Decisions
    BY <1>5 DEF Decide
  <2>2. preview.import \in Import
    BY <2>1 DEF Preview
  <2>3. decisions' \in Decisions /\ chosen' \in Pairs
    BY <1>5, <2>1, <2>2 DEF Decide, Decisions, Pairs
  <2>4. IF o THEN /\ decisions'.overwrite = decisions.overwrite \union {c}
                  /\ chosen' = chosen \union {<<preview.import, c>>}
        ELSE /\ decisions'.overwrite = decisions.overwrite \ {c}
             /\ chosen' = chosen \ {<<preview.import, c>>}
    BY <1>5 DEF Decide
  <2>5. PreviewKept'
    BY <1>5, <2>4 DEF Decide
  <2>6. QED
    BY <1>5, <2>3, <2>5 DEF Decide
<1>6. CASE RunCommit
  <2>1. committing' \in Commit
    BY <1>6 DEF RunCommit, Commit, Decisions
  <2>2. QED
    BY <1>6, <2>1 DEF RunCommit
<1>7. CASE CommitCarriedOut
  <2>1. committing' \in Commit
    BY <1>7 DEF CommitCarriedOut, Commit
  <2>2. QED
    BY <1>7, <2>1 DEF CommitCarriedOut
<1>8. CASE CommitAnswered
  <2>1. committing.preview.import \in Import
    BY <1>8 DEF CommitAnswered, Commit, Preview
  <2>2. QED
    BY <1>8, <2>1 DEF CommitAnswered
<1>9. CASE UNCHANGED importVars
  BY <1>9 DEF importVars
<1>10. QED
  BY <1>2, <1>3, <1>4, <1>5, <1>6, <1>7, <1>8, <1>9 DEF ImportNext

\* Only RunCommit starts a commit, with what is kept then.
LEMMA CommitChosen == ImportInv /\ [ImportNext]_importVars => CommitAsChosen
<1> SUFFICES ASSUME ImportInv, [ImportNext]_importVars,
                    committing = None, committing' # None
             PROVE  CommitAsChosen
  BY DEF CommitAsChosen
<1>1. RunCommit
  BY DEF ImportNext, SetPayload, ClearContent, RunPreview, PreviewAnswered, Decide,
         CommitCarriedOut, CommitAnswered, importVars
<1>2. QED
  BY <1>1 DEF RunCommit, CommitAsChosen, ImportInv, PreviewKept

-----------------------------------------------------------------------------
(* The dialog that creates a channel.                                      *)

CreationInv == CreationTypeOK /\ (apiKey => modal)

LEMMA CreationInitially == CreationInit => CreationInv
<1> SUFFICES ASSUME CreationInit PROVE CreationInv
  OBVIOUS
<1>1. modal \in BOOLEAN /\ apiKey \in BOOLEAN /\ (apiKey => modal)
  BY DEF CreationInit
<1>2. sending \in {"create", "draft", None} /\ active \in {"new", "other", None}
  BY DEF CreationInit
<1>3. sent \in 0..MaxCreations
  BY CreationAssumption DEF CreationInit
<1>4. QED
  BY <1>1, <1>2, <1>3, Zenon DEF CreationInv, CreationTypeOK

LEMMA CreationStep == CreationInv /\ [CreationNext]_creationVars => CreationInv'
<1> SUFFICES ASSUME CreationInv, [CreationNext]_creationVars PROVE CreationInv'
  OBVIOUS
<1> USE CreationAssumption DEF CreationInv, CreationTypeOK
<1>1. CASE ShowModal \/ TypeApiKey \/ CloseModal
  BY <1>1 DEF ShowModal, TypeApiKey, CloseModal
<1>2. ASSUME NEW what \in {"create", "draft"}, SendCreation(what) PROVE CreationInv'
  BY <1>2 DEF SendCreation
<1>3. CASE ChannelCreated
  <2>1. sending' \in {"create", "draft", None} /\ active' \in {"new", "other", None}
    BY <1>3 DEF ChannelCreated
  <2>2. modal' \in BOOLEAN /\ apiKey' = FALSE /\ sent' \in 0..MaxCreations
    BY <1>3 DEF ChannelCreated
  <2>3. QED
    BY <2>1, <2>2
<1>4. CASE CreationTold
  BY <1>4 DEF CreationTold
<1>5. CASE ShowOther \/ LeaveDrawer
  BY <1>5 DEF ShowOther, LeaveDrawer
<1>6. CASE UNCHANGED creationVars
  BY <1>6 DEF creationVars
<1>7. QED
  BY <1>1, <1>2, <1>3, <1>4, <1>5, <1>6 DEF CreationNext

-----------------------------------------------------------------------------
(* The pages of the tab.                                                   *)

PagesInv == LogInv /\ DialogsInv /\ ListInv /\ ImportInv /\ CreationInv

LEMMA PagesInitially == Init => PagesInv
BY LogInitially, DialogsInitially, ListInitially, ImportInitially, CreationInitially
   DEF Init, PagesInv

\* One page moves and the others stay as they are.
LEMMA PagesStep == PagesInv /\ [Next]_browserVars => PagesInv'
<1> SUFFICES ASSUME PagesInv, [Next]_browserVars PROVE PagesInv'
  OBVIOUS
<1>1. /\ [LogNext]_logVars /\ [DialogsNext]_dialogVars /\ [ListNext]_listVars
      /\ [ImportNext]_importVars /\ [CreationNext]_creationVars
  BY DEF Next, browserVars
<1>2. QED
  BY <1>1, LogStep, DialogsStep, ListStep, ImportStep, CreationStep DEF PagesInv

LEMMA PagesInvariant == Spec => []PagesInv
BY PagesInitially, PagesStep, PTL DEF Spec

\* A body is read only for the log and the part that a button was pressed for
\* in the drawer that is open (LogBodySection.tsx, whose state goes with it).
THEOREM BodiesOnDemand == Spec => []BodyOnDemand
<1>1. PagesInv => BodyOnDemand
  BY DEF PagesInv, LogInv
<1>2. QED
  BY <1>1, PagesInvariant, PTL

\* A replacement secret goes to the key it was typed for, in whatever order
\* calls are answered, dialogs cancelled and drawers closed (ApiKeysPage.tsx).
THEOREM SecretsForTheirKeys == Spec => []SecretForItsKey
<1>1. PagesInv => SecretForItsKey
  BY DEF PagesInv, DialogsInv
<1>2. QED
  BY <1>1, PagesInvariant, PTL

\* Two typed secrets go with their dialogs, whichever answers come late: the
\* apiKey state of CreateChannelModal.tsx and the resetForm of ApiKeysPage.tsx.
\* It says nothing of the form that creates a key, which CancelCreate leaves
\* filled, nor of the variables the query client keeps of a mutation.
THEOREM ApiKeyAndReplacementDropped == Spec => []SecretsDropped
<1>1. PagesInv => SecretsDropped
  BY DEF PagesInv, DialogsInv, CreationInv, TypedForShown, SecretsDropped
<1>2. QED
  BY <1>1, PagesInvariant, PTL

\* A batch change names rows and filters of the view it is sent from, however
\* many pages were turned and reads landed between choice and submission.
THEOREM BatchesAsChosen == Spec => []BatchAsChosen
<1>1. PagesInv => BatchAsChosen
  BY DEF PagesInv, ListInv
<1>2. QED
  BY <1>1, PagesInvariant, PTL

\* A commit carries the secret and the choices of the preview it is about,
\* though previews and commits do not wait for each other (ImportPanel.tsx).
THEOREM ImportsAsChosen == Spec => ImportAsChosen
<1>1. PagesInv /\ [Next]_browserVars => [CommitAsChosen]_importVars
  BY CommitChosen DEF PagesInv, Next, browserVars
<1>2. Spec => [][CommitAsChosen]_importVars
  BY <1>1, PagesInvariant, PTL DEF Spec
<1>3. QED
  BY <1>2 DEF ImportAsChosen, CommitAsChosen

-----------------------------------------------------------------------------
(* The editing pages.                                                      *)

\* The marks for nothing and for a deleted resource are no versions or forms.
LEMMA MarksApart == None \notin Version /\ Gone \notin Version /\ None \notin Draft
<1>1. 0..MaxRev \subseteq Nat
  OBVIOUS
<1>2. Version \subseteq [rev : Nat, of : [Field -> Nat]]
  BY <1>1 DEF Version
<1>3. Draft \subseteq [id : Res, base : [rev : Nat, of : [Field -> Nat]],
                       edited : SUBSET Field, rev : Nat, adopted : BOOLEAN]
  BY <1>1, <1>2 DEF Draft
<1>4. QED
  BY <1>2, <1>3, EditingAssumption

\* v is a version that the server s has had of the resource: one with the
\* revision it has now is the version it has now.
Known(s, r, v) ==
    s[r] # Gone =>
       v \in Version /\ v.rev <= s[r].rev /\ (v.rev = s[r].rev => v.of = s[r].of)

\* A form was filled from a version known, and is to be saved with its
\* revision or one that was taken over.  The API key page breaks this.
FormOK(s, d) ==
    /\ d \in Draft
    /\ screen # "key" => Known(s, d.id, d.base) /\ (d.rev = d.base.rev \/ d.adopted)

ServerOK == server \in [Res -> Version \cup {Gone}]

CacheOK ==
    /\ cache \in [Res -> Version \cup {None}]
    /\ \A r \in Res : cache[r] # None => Known(server, r, cache[r])

ReadingOK ==
    /\ open \in Res \cup {None}
    /\ reading # None =>
          /\ open # None
          /\ reading \in [id : {open}, found : Version \cup {Gone}]
          /\ reading.found # Gone => Known(server, open, reading.found)

DraftOK == draft # None => FormOK(server, draft)

RequestOK ==
    request # None =>
       /\ request \in Request /\ FormOK(server, request.form)
       /\ request.phase = "done" =>
             /\ Known(server, request.form.id, request.answer)
             /\ request.kind # "delete" => request.answer # None

\* The forms of account and settings follow what is shown.
FormFollows ==
    screen \in {"account", "settings"} /\ Shown # None =>
       draft # None /\ draft.id = open /\ draft.base.rev = Shown.rev

\* The key page's form is untouched until the key is shown.
UntouchedBefore ==
    screen = "key" /\ draft # None /\ Shown = None => draft.edited = {}

\* The compatibility section sends one kind of request, and has been read
\* when there is a form or a request of this form.
SectionRead ==
    screen = "compatibility" =>
       /\ request # None => request.kind = "save"
       /\ draft # None \/ (request # None /\ request.mounted) => Shown # None

BaseInv == ServerOK /\ CacheOK /\ ReadingOK /\ RequestOK
EditInv == BaseInv /\ DraftOK /\ FormFollows /\ UntouchedBefore /\ SectionRead

\* What the server does to a resource: nothing, a new revision, or its end.
ServerMoves ==
    \A r \in Res :
       \/ server'[r] = server[r]
       \/ server'[r] = Gone
       \/ server[r] # Gone /\ server'[r].rev > server[r].rev

\* What was known stays known.
LEMMA KnownLater ==
    ASSUME NEW r \in Res, NEW v, Known(server, r, v), ServerOK, ServerOK', ServerMoves
    PROVE  Known(server', r, v)
<1> SUFFICES ASSUME server'[r] # Gone PROVE Known(server', r, v)
  BY DEF Known
<1>1. CASE server'[r] = server[r]
  BY <1>1 DEF Known
<1>2. CASE server[r] # Gone /\ server'[r].rev > server[r].rev
  <2>1. server[r] \in Version /\ server'[r] \in Version
    BY <1>2 DEF ServerOK
  <2>2. server[r].rev \in Nat /\ server'[r].rev \in Nat
    BY <2>1 DEF Version
  <2>3. v \in Version /\ v.rev \in Nat /\ v.rev <= server[r].rev
    BY <1>2 DEF Known, Version
  <2>4. v.rev <= server'[r].rev /\ v.rev # server'[r].rev
    BY <1>2, <2>2, <2>3
  <2>5. QED
    BY <2>3, <2>4 DEF Known
<1>3. QED
  BY <1>1, <1>2 DEF ServerMoves

\* The version the server has now is known.
LEMMA KnownNow ==
    ASSUME NEW s \in [Res -> Version \cup {Gone}], NEW r \in Res
    PROVE  Known(s, r, s[r])
<1> SUFFICES ASSUME s[r] # Gone PROVE Known(s, r, s[r])
  BY DEF Known
<1>1. s[r] \in Version /\ s[r].rev \in Nat
  BY DEF Version
<1>2. QED
  BY <1>1 DEF Known

LEMMA FormLater ==
    ASSUME NEW d, FormOK(server, d), ServerOK, ServerOK', ServerMoves, UNCHANGED screen
    PROVE  FormOK(server, d)'
<1>1. d.id \in Res
  BY DEF FormOK, Draft
<1>2. QED
  BY <1>1, KnownLater DEF FormOK

\* A form that was just filled, also with one field edited as a switch does.
LEMMA FreshOK ==
    ASSUME NEW s, NEW r \in Res, NEW v \in Version, Known(s, r, v)
    PROVE  /\ FormOK(s, Fresh(r, v))
           /\ \A f \in Field : FormOK(s, [Fresh(r, v) EXCEPT !.edited = {f}])
<1>1. v.rev \in 0..MaxRev
  BY DEF Version
<1>2. Fresh(r, v) \in Draft
  BY <1>1 DEF Fresh, Draft
<1>3. FormOK(s, Fresh(r, v))
  BY <1>2 DEF FormOK, Fresh
<1>4. ASSUME NEW f \in Field
      PROVE  FormOK(s, [Fresh(r, v) EXCEPT !.edited = {f}])
  <2> DEFINE d == [Fresh(r, v) EXCEPT !.edited = {f}]
  <2>1. d \in Draft
    BY <1>2 DEF Draft
  <2>2. d.id = r /\ d.base = v /\ d.rev = v.rev
    BY DEF Fresh
  <2>3. QED
    BY <2>1, <2>2 DEF FormOK
<1>5. QED
  BY <1>3, <1>4

\* Editing leaves where the form comes from alone.
LEMMA EditedOK ==
    ASSUME NEW s, NEW d, FormOK(s, d), NEW f \in Field
    PROVE  LET e == [d EXCEPT !.edited = @ \union {f}]
           IN  FormOK(s, e) /\ e.edited = d.edited \union {f} /\ e.id = d.id /\ e.base = d.base
<1> DEFINE e == [d EXCEPT !.edited = @ \union {f}]
<1>1. d \in Draft
  BY DEF FormOK
<1>2. /\ e \in Draft /\ e.id = d.id /\ e.base = d.base /\ e.rev = d.rev
      /\ e.adopted = d.adopted /\ e.edited = d.edited \union {f}
  BY <1>1 DEF Draft
<1>3. QED
  BY <1>2 DEF FormOK

\* So does taking a newer revision over.
LEMMA AdoptedOK ==
    ASSUME NEW s, NEW d, FormOK(s, d), NEW n \in 0..MaxRev
    PROVE  LET e == [d EXCEPT !.rev = n, !.adopted = TRUE]
           IN  FormOK(s, e) /\ e.edited = d.edited
<1> DEFINE e == [d EXCEPT !.rev = n, !.adopted = TRUE]
<1>1. d \in Draft
  BY DEF FormOK
<1>2. /\ e \in Draft /\ e.id = d.id /\ e.base = d.base /\ e.adopted
      /\ e.edited = d.edited
  BY <1>1 DEF Draft
<1>3. QED
  BY <1>2 DEF FormOK

\* A request that is sent with a good form is a good request.
LEMMA SendOK ==
    ASSUME NEW kind \in {"save", "update", "switch", "delete", "action"}, NEW d,
           FormOK(server, d)', NEW whole \in BOOLEAN, Send(kind, d, whole)
    PROVE  RequestOK' /\ request'.kind = kind
<1>1. d \in Draft
  BY DEF FormOK
<1>2. request' \in Request
  BY <1>1 DEF Send, Request
<1>3. request'.form = d /\ request'.phase = "sent" /\ request'.kind = kind
  BY DEF Send
<1>4. QED
  BY <1>2, <1>3 DEF RequestOK

\* A read that is sent finds what the server has.
LEMMA FetchOK ==
    ASSUME NEW r \in Res \cup {None}, open' = r, ServerOK', Fetch(r)
    PROVE  ReadingOK'
<1>1. CASE r = None
  BY <1>1 DEF Fetch, ReadingOK
<1>2. CASE r # None
  <2>1. Known(server', r, server'[r]) /\ server'[r] \in Version \cup {Gone}
    BY <1>2, KnownNow DEF ServerOK
  <2>2. reading' = [id |-> r, found |-> server'[r]]
    BY <1>2 DEF Fetch
  <2>3. QED
    BY <1>2, <2>1, <2>2 DEF ReadingOK
<1>3. QED
  BY <1>1, <1>2

\* The parts of the invariant that a step leaves alone, whatever the server
\* does meanwhile.
LEMMA Later ==
    ASSUME ServerOK, ServerOK', ServerMoves, UNCHANGED screen
    PROVE  /\ CacheOK /\ UNCHANGED cache => CacheOK'
           /\ ReadingOK /\ UNCHANGED <<reading, open>> => ReadingOK'
           /\ DraftOK /\ UNCHANGED draft => DraftOK'
           /\ RequestOK /\ UNCHANGED request => RequestOK'
<1>1. CacheOK /\ UNCHANGED cache => CacheOK'
  BY KnownLater DEF CacheOK
<1>2. ASSUME ReadingOK, UNCHANGED <<reading, open>> PROVE ReadingOK'
  <2>1. SUFFICES ASSUME reading # None, reading.found # Gone
                 PROVE  Known(server', open, reading.found)
    BY <1>2 DEF ReadingOK
  <2>2. open \in Res
    BY <1>2, <2>1 DEF ReadingOK
  <2>3. QED
    BY <1>2, <2>1, <2>2, KnownLater DEF ReadingOK
<1>3. DraftOK /\ UNCHANGED draft => DraftOK'
  BY FormLater DEF DraftOK
<1>4. ASSUME RequestOK, UNCHANGED request PROVE RequestOK'
  <2>1. SUFFICES ASSUME request # None PROVE RequestOK'
    BY <1>4 DEF RequestOK
  <2>2. FormOK(server, request.form)'
    BY <1>4, <2>1, FormLater DEF RequestOK
  <2>3. request.form.id \in Res
    BY <1>4, <2>1 DEF RequestOK, Request, Draft
  <2>4. request.phase = "done" => Known(server', request.form.id, request.answer)
    BY <1>4, <2>1, <2>3, KnownLater DEF RequestOK
  <2>5. QED
    BY <1>4, <2>1, <2>2, <2>4 DEF RequestOK
<1>5. QED
  BY <1>1, <1>2, <1>3, <1>4

LEMMA ServerStill == ServerOK /\ UNCHANGED server => ServerOK' /\ ServerMoves
BY DEF ServerOK, ServerMoves

\* A form stays good while the server stands still.
LEMMA FormStill ==
    ASSUME NEW d, FormOK(server, d), UNCHANGED <<server, screen>>
    PROVE  FormOK(server, d)'
BY DEF FormOK

\* The steps every page shares.
LEMMA RefetchStep ==
    ASSUME BaseInv, DraftOK, Refetch, UNCHANGED screen
    PROVE  BaseInv' /\ DraftOK'
<1>1. ServerOK' /\ ServerMoves
  BY ServerStill DEF BaseInv, Refetch
<1>2. open' \in Res \cup {None} /\ Fetch(open')
  BY DEF Refetch, BaseInv, ReadingOK
<1>3. ReadingOK'
  BY <1>1, <1>2, FetchOK
<1>4. QED
  BY <1>1, <1>3, Later DEF Refetch, BaseInv

\* The answer of a read is what the server had.
LEMMA LandStep ==
    ASSUME BaseInv, Land, UNCHANGED screen
    PROVE  BaseInv'
<1>1. ServerOK' /\ ServerMoves
  BY ServerStill DEF BaseInv, Land
<1>2. ReadingOK'
  BY DEF Land, ReadingOK, BaseInv
<1>3. CacheOK'
  <2>1. CASE UNCHANGED cache
    BY <1>1, <2>1, Later DEF BaseInv
  <2>2. CASE reading.found # Gone /\ cache' = [cache EXCEPT ![reading.id] = reading.found]
    <3>1. reading.id = open /\ open \in Res /\ reading.found \in Version
      BY <2>2 DEF Land, BaseInv, ReadingOK
    <3>2. Known(server', open, reading.found)
      BY <2>2 DEF Land, BaseInv, ReadingOK
    <3>3. \A r \in Res : cache[r] # None => Known(server', r, cache[r])
      BY DEF Land, BaseInv, CacheOK
    <3>4. QED
      BY <2>2, <3>1, <3>2, <3>3 DEF BaseInv, CacheOK
  <2>3. QED
    BY <2>1, <2>2 DEF Land
<1>4. RequestOK'
  BY <1>1, Later DEF Land, BaseInv
<1>5. QED
  BY <1>1, <1>2, <1>3, <1>4 DEF BaseInv

LEMMA SessionEndsStep ==
    ASSUME BaseInv, SessionEnds, UNCHANGED screen
    PROVE  BaseInv' /\ draft' = None /\ request' = None
<1>1. ServerOK'
  BY ServerStill DEF BaseInv, SessionEnds
<1>2. QED
  BY <1>1 DEF SessionEnds, BaseInv, CacheOK, ReadingOK, RequestOK

\* While fewer than MaxRev writes were made no revision is MaxRev.
LEMMA RoomToWrite ==
    ASSUME ServerOK, MayWrite, NEW r \in Res, server[r] # Gone
    PROVE  server[r].rev < MaxRev
<1>1. server[r].rev \in 0..MaxRev
  BY DEF ServerOK, Version
<1>2. SUFFICES ASSUME server[r].rev = MaxRev PROVE FALSE
  BY <1>1, EditingAssumption
<1> DEFINE Mine == {r} \X (1..MaxRev)
<1>3. Mine \subseteq Writes
  BY <1>2 DEF Writes
<1>4. IsFiniteSet(Writes)
  <2>1. IsFiniteSet(1..MaxRev)
    BY FS_Interval, EditingAssumption
  <2>2. IsFiniteSet(Res \X (1..MaxRev))
    BY <2>1, FS_Product, EditingAssumption
  <2>3. Writes \subseteq Res \X (1..MaxRev)
    BY DEF Writes
  <2>4. QED
    BY <2>2, <2>3, FS_Subset
<1>5. Cardinality(Mine) = MaxRev
  <2>1. IsFiniteSet(1..MaxRev) /\ Cardinality(1..MaxRev) = MaxRev
    <3>1. /\ IsFiniteSet(1..MaxRev)
          /\ Cardinality(1..MaxRev) = IF 1 > MaxRev THEN 0 ELSE MaxRev - 1 + 1
      BY FS_Interval, EditingAssumption
    <3>2. QED
      BY <3>1, EditingAssumption
  <2>2. IsFiniteSet({r}) /\ Cardinality({r}) = 1
    BY FS_Singleton
  <2>3. Cardinality(Mine) = Cardinality({r}) * Cardinality(1..MaxRev)
    BY <2>1, <2>2, FS_Product
  <2>4. QED
    BY <2>1, <2>2, <2>3, EditingAssumption
<1>6. Cardinality(Mine) <= Cardinality(Writes)
  BY <1>3, <1>4, FS_Subset
<1>7. Cardinality(Writes) \in Nat
  BY <1>4, FS_CardinalityType
<1>8. QED
  BY <1>5, <1>6, <1>7, EditingAssumption DEF MayWrite

\* Another administrator makes a new revision or deletes the resource.
LEMMA OtherAdminStep ==
    ASSUME BaseInv, DraftOK, OtherAdmin, UNCHANGED screen
    PROVE  BaseInv' /\ DraftOK'
<1>1. ServerOK' /\ ServerMoves
  <2>1. PICK r \in Res :
           /\ server[r] # Gone /\ MayWrite
           /\ \/ \E F \in SUBSET Field \ {{}} :
                    server' = [server EXCEPT ![r] =
                       [rev |-> @.rev + 1,
                        of  |-> [f \in Field |-> IF f \in F THEN @.rev + 1 ELSE @.of[f]]]]
              \/ server' = [server EXCEPT ![r] = Gone]
    BY DEF OtherAdmin
  <2>2. server[r] \in Version
    BY <2>1 DEF BaseInv, ServerOK
  <2>3. CASE server' = [server EXCEPT ![r] = Gone]
    BY <2>3 DEF BaseInv, ServerOK, ServerMoves
  <2>4. ASSUME NEW F \in SUBSET Field \ {{}},
               server' = [server EXCEPT ![r] =
                  [rev |-> @.rev + 1,
                   of  |-> [f \in Field |-> IF f \in F THEN @.rev + 1 ELSE @.of[f]]]]
        PROVE  ServerOK' /\ ServerMoves
    <3> DEFINE w == [rev |-> server[r].rev + 1,
                     of  |-> [f \in Field |-> IF f \in F THEN server[r].rev + 1
                                               ELSE server[r].of[f]]]
    <3>1. w \in Version /\ w.rev > server[r].rev
      <4>1. server[r].rev \in Nat /\ server[r].rev < MaxRev
        BY <2>1, <2>2, RoomToWrite DEF Version, BaseInv
      <4>2. server[r].rev + 1 \in 0..MaxRev
        BY <4>1, EditingAssumption
      <4>3. QED
        BY <2>2, <4>1, <4>2 DEF Version
    <3>2. server' = [server EXCEPT ![r] = w]
      BY <2>4 DEF BaseInv, ServerOK
    <3> HIDE DEF w
    <3>3. QED
      BY <2>1, <3>1, <3>2 DEF BaseInv, ServerOK, ServerMoves
  <2>5. QED
    BY <2>1, <2>3, <2>4
<1>2. QED
  BY <1>1, Later DEF OtherAdmin, BaseInv

LEMMA MountStep ==
    ASSUME BaseInv, NEW r \in Res, Mount(r), UNCHANGED screen
    PROVE  BaseInv'
<1>1. ServerOK' /\ ServerMoves
  BY ServerStill DEF BaseInv, Mount
<1>2. CacheOK' /\ RequestOK'
  BY <1>1, Later DEF BaseInv, Mount
<1>3. ReadingOK'
  <2>1. CASE Fetch(r)
    BY <1>1, <2>1, FetchOK DEF Mount
  <2>2. CASE UNCHANGED reading
    BY <2>2 DEF Mount, BaseInv, ReadingOK
  <2>3. QED
    BY <2>1, <2>2 DEF Mount
<1>4. QED
  BY <1>1, <1>2, <1>3 DEF BaseInv

LEMMA UnmountStep ==
    ASSUME BaseInv, Unmount, UNCHANGED screen
    PROVE  BaseInv' /\ draft' = None
<1>1. ServerOK' /\ CacheOK' /\ ReadingOK'
  BY DEF Unmount, BaseInv, ServerOK, CacheOK, ReadingOK
<1>2. RequestOK'
  <2>1. SUFFICES ASSUME request # None PROVE RequestOK'
    BY DEF Unmount, Pending, RequestOK
  <2>2. request \in Request /\ request' = [request EXCEPT !.mounted = FALSE]
    BY <2>1 DEF Unmount, Pending, BaseInv, RequestOK
  <2>3. /\ request' \in Request /\ request'.form = request.form
        /\ request'.phase = request.phase /\ request'.answer = request.answer
        /\ request'.kind = request.kind
    BY <2>2 DEF Request
  <2>4. FormOK(server, request.form)'
    BY <2>1, <2>3, FormStill DEF Unmount, BaseInv, RequestOK
  <2>5. QED
    BY <2>1, <2>3, <2>4 DEF Unmount, BaseInv, RequestOK
<1>3. QED
  BY <1>1, <1>2 DEF BaseInv, Unmount

\* A switch in a row is sent with the version the row was read with.
LEMMA SwitchStep ==
    ASSUME BaseInv, DraftOK, NEW r \in Res, NEW f \in Field, SwitchRow(r, f),
           UNCHANGED screen
    PROVE  BaseInv' /\ DraftOK'
<1>1. ServerOK' /\ ServerMoves
  BY ServerStill DEF BaseInv, SwitchRow
<1>2. cache[r] \in Version /\ Known(server, r, cache[r])
  BY DEF SwitchRow, BaseInv, CacheOK
<1>3. FormOK(server, [Fresh(r, cache[r]) EXCEPT !.edited = {f}])
  BY <1>2, FreshOK
<1>4. FormOK(server, [Fresh(r, cache[r]) EXCEPT !.edited = {f}])'
  BY <1>3 DEF FormOK, SwitchRow, Fresh
<1>5. RequestOK'
  BY <1>4, SendOK DEF SwitchRow
<1>6. QED
  BY <1>1, <1>5, Later DEF SwitchRow, BaseInv

\* What a write makes of a version has the next revision.
LEMMA WrittenNext ==
    ASSUME NEW q \in Request, NEW v \in Version, v.rev < MaxRev
    PROVE  Written(q, v) \in Version /\ Written(q, v).rev = v.rev + 1
<1>1. v.rev + 1 \in 0..MaxRev /\ \A f \in Field : v.of[f] \in 0..MaxRev
  BY EditingAssumption DEF Version
<1>2. \A f \in Field : q.form.base.of[f] \in 0..MaxRev
  BY DEF Request, Draft, Version
<1>3. [f \in Field |-> IF f \in q.form.edited THEN v.rev + 1
                       ELSE IF q.whole THEN q.form.base.of[f]
                       ELSE v.of[f]] \in [Field -> 0..MaxRev]
  BY <1>1, <1>2
<1>4. QED
  BY <1>1, <1>3 DEF Written, Version

\* A reply leaves the request what it was but for its phase and answer.
LEMMA RepliedOK ==
    ASSUME BaseInv, Pending, ServerOK', ServerMoves, UNCHANGED screen,
           NEW phase \in {"done", "accepted", "conflict", "failed"},
           NEW answer \in Version \cup {None}, Replied(phase, answer),
           phase = "done" => /\ Known(server', request.form.id, answer)
                             /\ request.kind # "delete" => answer # None
    PROVE  /\ RequestOK' /\ request'.kind = request.kind
           /\ request'.mounted = request.mounted
<1>1. request \in Request /\ FormOK(server, request.form)
  BY DEF BaseInv, RequestOK, Pending
<1>2. /\ request' \in Request /\ request'.form = request.form
      /\ request'.kind = request.kind /\ request'.phase = phase
      /\ request'.mounted = request.mounted
      /\ request'.answer = answer
  BY <1>1 DEF Replied, Request
<1>3. FormOK(server, request.form)'
  BY <1>1, <1>2, FormLater DEF BaseInv
<1>4. QED
  BY <1>2, <1>3 DEF RequestOK

LEMMA ApplyStep ==
    ASSUME BaseInv, DraftOK, Pending, Apply, UNCHANGED <<cache, open, draft, conflict, screen>>
    PROVE  /\ BaseInv' /\ DraftOK' /\ request'.kind = request.kind
           /\ request'.mounted = request.mounted
<1> DEFINE id == request.form.id
           v == IF request.kind = "delete" THEN Gone ELSE Written(request, server[id])
<1>1. request \in Request
  BY DEF BaseInv, RequestOK, Pending
<1>2. id \in Res
  BY <1>1 DEF Request, Draft
<1>3. server[id] \in Version
  BY <1>2 DEF Apply, Accepts, BaseInv, ServerOK
<1>4. \/ request.kind = "delete" /\ v = Gone
      \/ request.kind # "delete" /\ v \in Version /\ v.rev > server[id].rev /\ v # Gone
  <2>1. server[id].rev \in Nat /\ server[id].rev < MaxRev
    BY <1>2, <1>3, RoomToWrite, MarksApart DEF Version, Apply, BaseInv
  <2>2. QED
    BY <1>1, <1>3, <2>1, WrittenNext, MarksApart
<1>5. /\ server' = [server EXCEPT ![id] = v]
      /\ \/ Replied("done", IF v = Gone THEN None ELSE v) /\ Fetch(open)
         \/ Replied("failed", None) /\ UNCHANGED reading
  BY DEF Apply
<1> HIDE DEF v, id
<1>6. ServerOK' /\ ServerMoves /\ server'[id] = v
  BY <1>2, <1>3, <1>4, <1>5, MarksApart DEF BaseInv, ServerOK, ServerMoves
<1>7. ReadingOK'
  <2>1. CASE Fetch(open)
    BY <1>6, <2>1, FetchOK DEF BaseInv, ReadingOK
  <2>2. CASE UNCHANGED reading
    BY <1>6, <2>2, Later DEF BaseInv
  <2>3. QED
    BY <1>5, <2>1, <2>2
<1>8. RequestOK' /\ request'.kind = request.kind /\ request'.mounted = request.mounted
  <2>1. CASE Replied("failed", None)
    BY <1>6, <2>1, RepliedOK
  <2>2. CASE Replied("done", IF v = Gone THEN None ELSE v)
    <3>1. Known(server', id, IF v = Gone THEN None ELSE v)
      BY <1>2, <1>6, KnownNow DEF Known, ServerOK
    <3>2. /\ (IF v = Gone THEN None ELSE v) \in Version \cup {None}
          /\ request.kind # "delete" => (IF v = Gone THEN None ELSE v) # None
      BY <1>4, MarksApart
    <3>3. QED
      BY <1>6, <2>2, <3>1, <3>2, RepliedOK DEF id
  <2>3. QED
    BY <1>5, <2>1, <2>2
<1>9. QED
  BY <1>6, <1>7, <1>8, Later DEF BaseInv

LEMMA DeclineStep ==
    ASSUME BaseInv, DraftOK, Pending, Decline, UNCHANGED <<cache, open, draft, conflict, screen>>
    PROVE  /\ BaseInv' /\ DraftOK' /\ request'.kind = request.kind
           /\ request'.mounted = request.mounted
<1>1. ServerOK' /\ ServerMoves
  BY ServerStill DEF BaseInv, Decline
<1>2. ReadingOK'
  <2>1. CASE Fetch(open)
    BY <1>1, <2>1, FetchOK DEF BaseInv, ReadingOK
  <2>2. CASE UNCHANGED reading
    BY <1>1, <2>2, Later DEF BaseInv
  <2>3. QED
    BY <2>1, <2>2 DEF Decline
<1>3. RequestOK' /\ request'.kind = request.kind /\ request'.mounted = request.mounted
  <2>1. PICK p \in {"conflict", "failed", "accepted"} : Replied(p, None)
    BY DEF Decline
  <2>2. QED
    BY <1>1, <2>1, RepliedOK
<1>4. QED
  BY <1>1, <1>2, <1>3, Later DEF BaseInv

LEMMA AnswerStep ==
    ASSUME BaseInv, DraftOK, Answer, UNCHANGED screen
    PROVE  /\ BaseInv' /\ DraftOK' /\ request'.kind = request.kind /\ request # None
           /\ request'.mounted = request.mounted /\ UNCHANGED <<cache, open, draft>>
BY ApplyStep, DeclineStep DEF Answer, Pending

LEMMA ToldStep ==
    ASSUME BaseInv, DraftOK, Told, UNCHANGED screen
    PROVE  BaseInv' /\ DraftOK'
<1>1. ServerOK' /\ ServerMoves
  BY ServerStill DEF BaseInv, Told
<1>2. QED
  BY <1>1, Later DEF BaseInv, Told, RequestOK

LEMMA ShownKnown ==
    BaseInv /\ Shown # None =>
       /\ open \in Res /\ Shown = cache[open] /\ Shown \in Version /\ Shown.rev \in 0..MaxRev
       /\ Known(server, open, Shown)
<1> SUFFICES ASSUME BaseInv, Shown # None
             PROVE  /\ open \in Res /\ Shown = cache[open] /\ Shown \in Version
                    /\ Shown.rev \in 0..MaxRev /\ Known(server, open, Shown)
  OBVIOUS
<1>1. open \in Res /\ Shown = cache[open]
  BY DEF Shown, BaseInv, ReadingOK
<1>2. Shown \in Version /\ Known(server, open, Shown)
  BY <1>1 DEF BaseInv, CacheOK
<1>3. QED
  BY <1>1, <1>2 DEF Version

\* A request that is sent with what is shown: a switch, a delete, an action.
LEMMA SendShown ==
    ASSUME BaseInv, DraftOK, Shown # None, UNCHANGED <<server, cache, reading, open, draft, screen>>,
           NEW kind \in {"switch", "delete", "action"}, NEW d,
           \/ d = Fresh(open, Shown)
           \/ \E f \in Field : d = [Fresh(open, Shown) EXCEPT !.edited = {f}],
           Send(kind, d, FALSE)
    PROVE  BaseInv' /\ DraftOK'
<1>1. ServerOK' /\ ServerMoves
  BY ServerStill DEF BaseInv
<1>2. FormOK(server, d)
  BY ShownKnown, FreshOK
<1>3. FormOK(server, d)'
  BY <1>2, FormStill
<1>4. RequestOK'
  BY <1>3, SendOK
<1>5. QED
  BY <1>1, <1>4, Later DEF BaseInv

\* A request that is sent with a form that is kept.
LEMMA SendDraft ==
    ASSUME BaseInv, DraftOK, UNCHANGED <<server, cache, reading, open, draft, screen>>,
           NEW whole \in BOOLEAN, NEW kind \in {"save", "update"},
           NEW d, FormOK(server, d), Send(kind, d, whole)
    PROVE  BaseInv' /\ DraftOK' /\ request'.kind = kind
<1>1. ServerOK' /\ ServerMoves
  BY ServerStill DEF BaseInv
<1>2. FormOK(server, d)'
  BY FormStill
<1>3. RequestOK' /\ request'.kind = kind
  BY <1>2, SendOK
<1>4. QED
  BY <1>1, <1>3, Later DEF BaseInv

\* Steps that touch neither the server nor the request but the form.
LEMMA DraftStep ==
    ASSUME BaseInv, UNCHANGED <<server, cache, reading, open, screen>>,
           request' = request \/ request' = None
    PROVE  BaseInv' /\ (draft' # None /\ FormOK(server, draft)' => DraftOK')
<1>1. ServerOK' /\ ServerMoves
  BY ServerStill DEF BaseInv
<1>2. RequestOK'
  BY <1>1, Later DEF BaseInv, RequestOK
<1>3. QED
  BY <1>1, <1>2, Later DEF BaseInv, DraftOK

\* Steps that read again what is shown, or leave the read as it is.
LEMMA FetchedStep ==
    ASSUME BaseInv, DraftOK, UNCHANGED <<server, cache, open, draft, screen>>,
           request' = request \/ request' = None, Fetch(open) \/ UNCHANGED reading
    PROVE  BaseInv' /\ DraftOK'
<1>1. ServerOK' /\ ServerMoves
  BY ServerStill DEF BaseInv
<1>2. RequestOK'
  BY <1>1, Later DEF BaseInv, RequestOK
<1>3. ReadingOK'
  BY <1>1, Later, FetchOK DEF BaseInv, ReadingOK
<1>4. QED
  BY <1>1, <1>2, <1>3, Later DEF BaseInv

\* A page that closes with its read.
LEMMA ClosedStep ==
    ASSUME BaseInv, UNCHANGED <<server, cache, screen>>, open' = None, reading' = None,
           request' = request \/ request' = None
    PROVE  BaseInv' /\ (UNCHANGED draft /\ DraftOK => DraftOK')
<1>1. ServerOK' /\ ServerMoves
  BY ServerStill DEF BaseInv
<1>2. RequestOK'
  BY <1>1, Later DEF BaseInv, RequestOK
<1>3. ReadingOK'
  BY DEF ReadingOK
<1>4. QED
  BY <1>1, <1>2, <1>3, Later DEF BaseInv

LEMMA ChannelStep ==
    ASSUME EditInv, ChannelNext, UNCHANGED screen
    PROVE  BaseInv' /\ DraftOK'
<1> USE DEF EditInv
<1>1. ASSUME NEW r \in Res, OpenChannel(r) PROVE BaseInv' /\ DraftOK'
  <2>1. BaseInv'
    BY <1>1, MountStep DEF OpenChannel
  <2>2. ServerOK' /\ ServerMoves
    BY <1>1, ServerStill DEF OpenChannel, Mount, BaseInv
  <2>3. QED
    BY <1>1, <2>1, <2>2, Later DEF OpenChannel, BaseInv
<1>2. ASSUME NEW f \in Field, EditChannel(f) PROVE BaseInv' /\ DraftOK'
  <2>1. BaseInv'
    BY <1>2, DraftStep DEF EditChannel
  <2>2. FormOK(server, draft')
    BY <1>2, EditedOK DEF EditChannel, DraftOK
  <2>3. QED
    BY <1>2, <2>1, <2>2 DEF EditChannel, DraftOK, FormOK
<1>3. ASSUME NEW f \in Field, ToggleEnabled(f) PROVE BaseInv' /\ DraftOK'
  BY <1>3, SendShown DEF ToggleEnabled, ChannelShown
<1>4. ASSUME NEW r \in Res, NEW f \in Field, ToggleRow(r, f) PROVE BaseInv' /\ DraftOK'
  BY <1>4, SwitchStep DEF ToggleRow
<1>5. CASE CloseChannel
  BY <1>5, UnmountStep DEF CloseChannel, DraftOK
<1>6. CASE StartEdit
  <2>1. BaseInv'
    BY <1>6, DraftStep DEF StartEdit
  <2>2. FormOK(server, Fresh(open, Shown))
    BY <1>6, ShownKnown, FreshOK DEF StartEdit, ChannelShown
  <2>3. QED
    BY <1>6, <2>1, <2>2 DEF StartEdit, DraftOK, FormOK
<1>7. CASE CancelEdit
  BY <1>7, DraftStep DEF CancelEdit, DraftOK
<1>8. CASE SubmitEdit
  BY <1>8, SendDraft DEF SubmitEdit, DraftOK
<1>9. CASE AdoptRevision
  <2>1. BaseInv'
    BY <1>9, DraftStep DEF AdoptRevision
  <2>2. FormOK(server, draft')
    BY <1>9, ShownKnown, AdoptedOK DEF AdoptRevision, ChannelShown, DraftOK
  <2>3. QED
    BY <1>9, <2>1, <2>2 DEF AdoptRevision, DraftOK, FormOK
<1>10. CASE ReloadChannel
  BY <1>10, FetchedStep DEF ReloadChannel
<1>11. CASE RemoveChannel \/ RunAction
  BY <1>11, SendShown DEF RemoveChannel, RunAction, ChannelShown
<1>12. CASE ChannelSaved
  BY <1>12, DraftStep, FormStill DEF ChannelSaved, DraftOK
<1>13. CASE ChannelRemoved
  BY <1>13, ClosedStep DEF ChannelRemoved, DraftOK
<1>14. CASE ChannelConflict
  BY <1>14, FetchedStep DEF ChannelConflict
<1>15. CASE ChannelAnswered
  BY <1>15, ToldStep DEF ChannelAnswered
<1>16. CASE Refetch
  BY <1>16, RefetchStep
<1>17. CASE Land /\ UNCHANGED draft
  BY <1>17, LandStep, FormStill DEF Land, DraftOK
<1>18. CASE Answer
  BY <1>18, AnswerStep
<1>19. CASE SessionEnds
  BY <1>19, SessionEndsStep DEF DraftOK
<1>20. CASE OtherAdmin
  BY <1>20, OtherAdminStep
<1>21. QED
  BY <1>1, <1>2, <1>3, <1>4, <1>5, <1>6, <1>7, <1>8, <1>9, <1>10, <1>11, <1>12,
     <1>13, <1>14, <1>15, <1>16, <1>17, <1>18, <1>19, <1>20 DEF ChannelNext

\* What is shown stays shown while its drawer is open.
LEMMA ShownLanded ==
    ASSUME BaseInv, Land
    PROVE  /\ open \in Res /\ UNCHANGED open /\ (Shown # None => Shown' # None)
           /\ open # None /\ Shown' = cache'[open]
<1>1. /\ open \in Res /\ open # None /\ reading.id = open
      /\ reading.found \in Version \cup {Gone}
  BY DEF BaseInv, ReadingOK, Land
<1>2. cache' = cache \/ (reading.found \in Version
                          /\ cache' = [cache EXCEPT ![open] = reading.found])
  BY <1>1 DEF Land
<1>3. cache \in [Res -> Version \cup {None}]
  BY DEF BaseInv, CacheOK
<1>4. QED
  BY <1>1, <1>2, <1>3, MarksApart DEF Shown, Land

\* A form that is filled from what has just been read.
LEMMA FilledOK ==
    ASSUME BaseInv', open' \in Res, cache'[open'] # None
    PROVE  FormOK(server, Fresh(open, cache[open]))'
<1>1. cache'[open'] \in Version /\ Known(server', open', cache'[open'])
  BY DEF BaseInv, CacheOK
<1>2. QED
  BY <1>1 DEF FormOK, Fresh, Draft, Version

LEMMA CompatibilityStep ==
    ASSUME EditInv, screen = "compatibility", CompatibilityNext, UNCHANGED screen
    PROVE  BaseInv' /\ DraftOK' /\ SectionRead'
<1> USE DEF EditInv
<1>1. ASSUME NEW r \in Res, LoadSection(r) PROVE BaseInv' /\ DraftOK' /\ SectionRead'
  <2>1. BaseInv'
    BY <1>1, MountStep DEF LoadSection
  <2>2. draft' = None /\ ~(request' # None /\ request'.mounted)
    BY <1>1 DEF LoadSection, Mount, SectionRead, Shown
  <2>3. QED
    BY <1>1, <2>1, <2>2 DEF LoadSection, Mount, DraftOK, SectionRead
<1>2. ASSUME NEW f \in Field, PatchFeature(f) PROVE BaseInv' /\ DraftOK' /\ SectionRead'
  <2>1. BaseInv'
    BY <1>2, DraftStep DEF PatchFeature
  <2>2. FormOK(server, draft')
    BY <1>2, EditedOK DEF PatchFeature, DraftOK
  <2>3. SectionRead'
    BY <1>2 DEF PatchFeature, SectionRead, Shown
  <2>4. QED
    BY <1>2, <2>1, <2>2, <2>3 DEF PatchFeature, DraftOK, FormOK
<1>3. CASE LandSection
  <2>1. BaseInv'
    BY <1>3, LandStep DEF LandSection
  <2>2. /\ open \in Res /\ UNCHANGED open /\ (Shown # None => Shown' # None)
        /\ open # None /\ Shown' = cache'[open]
    BY <1>3, ShownLanded DEF LandSection
  <2>3. CASE draft' = draft
    BY <1>3, <2>1, <2>2, <2>3, FormStill DEF LandSection, Land, DraftOK, SectionRead
  <2>4. CASE cache'[open] # None /\ draft' = Fresh(open, cache'[open])
    BY <1>3, <2>1, <2>2, <2>4, FilledOK DEF LandSection, Land, DraftOK, SectionRead, Fresh
  <2>5. QED
    BY <1>3, <2>3, <2>4 DEF LandSection, FirstFill
<1>4. CASE FillFromCache
  <2>1. BaseInv'
    BY <1>4, DraftStep DEF FillFromCache
  <2>2. FormOK(server, Fresh(open, Shown))
    BY <1>4, ShownKnown, FreshOK DEF FillFromCache
  <2>3. draft' = Fresh(open, Shown) /\ Shown' = Shown /\ Shown # None
    BY <1>4 DEF FillFromCache, FirstFill, Shown
  <2>4. SectionRead'
    BY <1>4, <2>3 DEF FillFromCache, SectionRead
  <2>5. QED
    BY <1>4, <2>1, <2>2, <2>3, <2>4 DEF FillFromCache, DraftOK, FormOK
<1>5. CASE SubmitSection
  <2>1. BaseInv' /\ DraftOK' /\ request'.kind = "save"
    BY <1>5, SendDraft DEF SubmitSection, DraftOK
  <2>2. QED
    BY <1>5, <2>1 DEF SubmitSection, SectionRead, Shown
<1>6. CASE AdoptLatest
  <2>1. BaseInv'
    BY <1>6, DraftStep DEF AdoptLatest
  <2>2. Shown.rev \in 0..MaxRev
    BY <1>6, ShownKnown DEF AdoptLatest, SectionRead
  <2>3. FormOK(server, draft')
    BY <1>6, <2>2, AdoptedOK DEF AdoptLatest, DraftOK
  <2>4. SectionRead'
    BY <1>6 DEF AdoptLatest, SectionRead, Shown
  <2>5. QED
    BY <1>6, <2>1, <2>3, <2>4 DEF AdoptLatest, DraftOK, FormOK
<1>7. CASE ReloadSection \/ SectionRefused
  <2>1. BaseInv' /\ DraftOK'
    BY <1>7, FetchedStep DEF ReloadSection, SectionRefused
  <2>2. QED
    BY <1>7, <2>1 DEF ReloadSection, SectionRefused, SectionRead, Shown
<1>8. CASE SectionSaved
  <2>1. BaseInv'
    BY <1>8, DraftStep DEF SectionSaved
  <2>2. /\ request \in Request /\ request.answer # None
        /\ Known(server, request.form.id, request.answer)
    BY <1>8 DEF SectionSaved, Resumes, Pending, BaseInv, RequestOK, SectionRead
  <2>3. request.form.id \in Res /\ request.answer \in Version
    BY <2>2 DEF Request, Draft
  <2>4. FormOK(server, draft')
    BY <1>8, <2>2, <2>3, FreshOK DEF SectionSaved
  <2>5. SectionRead'
    BY <1>8 DEF SectionSaved, Resumes, Pending, SectionRead, Shown
  <2>6. QED
    BY <1>8, <2>1, <2>4, <2>5 DEF SectionSaved, DraftOK, FormOK
<1>9. CASE SectionGone
  BY <1>9, ToldStep DEF SectionGone, Told, SectionRead, Shown
<1>10. CASE Unmount
  <2>1. BaseInv' /\ draft' = None
    BY <1>10, UnmountStep
  <2>2. request' # None => request'.kind = request.kind /\ ~request'.mounted /\ request # None
    BY <1>10 DEF Unmount, Pending, BaseInv, RequestOK, Request
  <2>3. QED
    BY <2>1, <2>2 DEF DraftOK, SectionRead
<1>11. CASE Refetch
  BY <1>11, RefetchStep DEF Refetch, SectionRead, Shown
<1>12. CASE Answer
  BY <1>12, AnswerStep DEF SectionRead, Shown
<1>13. CASE SessionEnds
  BY <1>13, SessionEndsStep DEF DraftOK, SectionRead
<1>14. CASE OtherAdmin
  BY <1>14, OtherAdminStep DEF OtherAdmin, SectionRead, Shown
<1>15. QED
  BY <1>1, <1>2, <1>3, <1>4, <1>5, <1>6, <1>7, <1>8, <1>9, <1>10, <1>11, <1>12,
     <1>13, <1>14 DEF CompatibilityNext

\* What the effect of account and settings leaves in the form.
LEMMA ReseededOK ==
    ASSUME DraftOK, UNCHANGED <<server, screen>>, NEW r \in Res, NEW v \in Version \cup {None},
           Known(server, r, v), draft' = Reseeded(r, v)
    PROVE  /\ DraftOK'
           /\ r # None /\ v # None => draft' # None /\ draft'.id = r /\ draft'.base.rev = v.rev
<1>1. CASE \/ r = None \/ v = None
           \/ draft # None /\ draft.id = r /\ draft.base.rev = v.rev
  <2>1. draft' = draft
    BY <1>1 DEF Reseeded
  <2>2. QED
    BY <1>1, <2>1, FormStill DEF DraftOK
<1>2. CASE v # None /\ draft' = Fresh(r, v)
  <2>1. FormOK(server, Fresh(r, v)) /\ Fresh(r, v) \in Draft
    BY <1>2, FreshOK DEF FormOK
  <2>2. draft' # None
    BY <1>2, <2>1, MarksApart
  <2>3. DraftOK'
    BY <1>2, <2>1 DEF DraftOK, FormOK
  <2>4. QED
    BY <1>2, <2>2, <2>3 DEF Fresh
<1>3. QED
  BY <1>1, <1>2 DEF Reseeded

\* Steps that leave the form and what is shown alone.
LEMMA FollowStill ==
    ASSUME UNCHANGED <<screen, draft, cache, open>>
    PROVE  (FormFollows => FormFollows') /\ (UntouchedBefore => UntouchedBefore')
BY DEF FormFollows, UntouchedBefore, Shown

LEMMA MountedFollows ==
    ASSUME EditInv, NEW r \in Res, Mount(r), draft' = Reseeded(r, cache[r]), UNCHANGED screen
    PROVE  BaseInv' /\ DraftOK' /\ FormFollows'
<1>1. BaseInv'
  BY MountStep DEF EditInv
<1>2. UNCHANGED <<server, cache>> /\ open' = r
  BY DEF Mount
<1>3. cache[r] \in Version \cup {None}
  BY DEF EditInv, BaseInv, CacheOK
<1>4. CASE cache[r] = None
  <2>1. draft' = draft
    BY <1>4 DEF Reseeded
  <2>2. DraftOK'
    BY <1>2, <2>1, FormStill DEF EditInv, DraftOK
  <2>3. QED
    BY <1>1, <1>2, <1>4, <2>2 DEF FormFollows, Shown
<1>5. CASE cache[r] # None
  <2>1. Known(server, r, cache[r])
    BY <1>5 DEF EditInv, BaseInv, CacheOK
  <2>2. /\ DraftOK'
        /\ r # None => draft' # None /\ draft'.id = r /\ draft'.base.rev = cache[r].rev
    BY <1>2, <1>3, <1>5, <2>1, ReseededOK DEF EditInv
  <2>3. QED
    BY <1>1, <1>2, <2>2 DEF FormFollows, Shown
<1>6. QED
  BY <1>4, <1>5

LEMMA LandedFollows ==
    ASSUME EditInv, LandAccount, UNCHANGED screen
    PROVE  BaseInv' /\ DraftOK' /\ FormFollows'
<1>1. BaseInv'
  BY LandStep DEF EditInv, LandAccount
<1>2. open \in Res /\ UNCHANGED open /\ open # None /\ Shown' = cache'[open]
  BY ShownLanded DEF EditInv, LandAccount
<1>3. /\ cache'[open] \in Version \cup {None}
      /\ cache'[open] # None => Known(server, open, cache'[open])
  BY <1>1, <1>2 DEF BaseInv, CacheOK, Known, LandAccount, Land
<1>4. draft' = Reseeded(open, cache'[open]) /\ UNCHANGED server
  BY <1>2 DEF LandAccount, Land
<1>5. CASE cache'[open] = None
  <2>1. draft' = draft
    BY <1>4, <1>5 DEF Reseeded
  <2>2. DraftOK'
    BY <1>4, <2>1, FormStill DEF EditInv, DraftOK
  <2>3. QED
    BY <1>1, <1>2, <1>5, <2>2 DEF FormFollows
<1>6. CASE cache'[open] # None
  <2>1. /\ DraftOK' /\ draft' # None /\ draft'.id = open
        /\ draft'.base.rev = cache'[open].rev
    BY <1>2, <1>3, <1>4, <1>6, ReseededOK DEF EditInv
  <2>2. QED
    BY <1>1, <1>2, <2>1 DEF FormFollows
<1>7. QED
  BY <1>5, <1>6

\* The inputs of both forms.
LEMMA EditedFollows ==
    ASSUME EditInv, screen \in {"account", "settings"}, NEW f \in Field, Shown # None,
           draft' = [draft EXCEPT !.edited = @ \union {f}],
           UNCHANGED <<server, cache, reading, open, request, screen>>
    PROVE  BaseInv' /\ DraftOK' /\ FormFollows'
<1>1. BaseInv'
  BY DraftStep DEF EditInv
<1>2. draft # None /\ FormOK(server, draft)
  BY DEF EditInv, FormFollows, DraftOK
<1>3. /\ FormOK(server, draft') /\ draft'.id = draft.id /\ draft'.base = draft.base
      /\ draft' \in Draft
  BY <1>2, EditedOK DEF FormOK
<1>4. draft' # None
  BY <1>3, MarksApart
<1>5. FormFollows'
  BY <1>3, <1>4 DEF EditInv, FormFollows, Shown
<1>6. QED
  BY <1>1, <1>3, <1>5 DEF DraftOK, FormOK

\* The form is saved with the revision that is shown, which is its own.
LEMMA SavedFollows ==
    ASSUME EditInv, screen \in {"account", "settings"}, SaveAccount, UNCHANGED screen
    PROVE  BaseInv' /\ DraftOK' /\ FormFollows'
<1> DEFINE d == [draft EXCEPT !.rev = Shown.rev]
<1>1. draft # None /\ FormOK(server, draft) /\ Shown.rev = draft.base.rev
  BY DEF EditInv, SaveAccount, FormFollows, DraftOK
<1>2. draft \in Draft /\ Shown.rev \in 0..MaxRev
  BY <1>1, ShownKnown DEF FormOK, EditInv, SaveAccount
<1>3. d \in Draft /\ d.id = draft.id /\ d.base = draft.base /\ d.rev = Shown.rev
  BY <1>2 DEF Draft
<1>4. FormOK(server, d)
  BY <1>1, <1>3 DEF FormOK
<1>5. BaseInv' /\ DraftOK'
  BY <1>4, SendDraft DEF EditInv, SaveAccount
<1>6. QED
  BY <1>5, FollowStill DEF EditInv, SaveAccount

LEMMA AccountStep ==
    ASSUME EditInv, screen = "account", AccountNext, UNCHANGED screen
    PROVE  BaseInv' /\ DraftOK' /\ FormFollows'
<1> USE DEF EditInv
<1>1. ASSUME NEW r \in Res, OpenAccount(r) PROVE BaseInv' /\ DraftOK' /\ FormFollows'
  BY <1>1, MountedFollows DEF OpenAccount
<1>2. ASSUME NEW f \in Field, EditAccount(f) PROVE BaseInv' /\ DraftOK' /\ FormFollows'
  BY <1>2, EditedFollows DEF EditAccount
<1>3. ASSUME NEW r \in Res, NEW f \in Field, ToggleAccount(r, f)
      PROVE  BaseInv' /\ DraftOK' /\ FormFollows'
  BY <1>3, SwitchStep, FollowStill DEF ToggleAccount, SwitchRow
<1>4. CASE CloseAccount \/ AccountRemoved
  BY <1>4, ClosedStep DEF CloseAccount, AccountRemoved, FormFollows, Shown
<1>5. CASE LandAccount
  BY <1>5, LandedFollows
<1>6. CASE SaveAccount
  BY <1>6, SavedFollows
<1>7. CASE RemoveAccount \/ RunAccountAction
  BY <1>7, SendShown, FollowStill DEF RemoveAccount, RunAccountAction
<1>8. CASE AccountAnswered
  BY <1>8, ToldStep, FollowStill DEF AccountAnswered, Told
<1>9. CASE AccountConflict
  BY <1>9, FetchedStep, FollowStill DEF AccountConflict
<1>10. CASE Refetch
  BY <1>10, RefetchStep, FollowStill DEF Refetch
<1>11. CASE Answer
  BY <1>11, AnswerStep, FollowStill
<1>12. CASE SessionEnds
  BY <1>12, SessionEndsStep DEF SessionEnds, DraftOK, FormFollows, Shown
<1>13. CASE OtherAdmin
  BY <1>13, OtherAdminStep, FollowStill DEF OtherAdmin
<1>14. QED
  BY <1>1, <1>2, <1>3, <1>4, <1>5, <1>6, <1>7, <1>8, <1>9, <1>10, <1>11, <1>12, <1>13
     DEF AccountNext

LEMMA SettingsStep ==
    ASSUME EditInv, screen = "settings", SettingsNext, UNCHANGED screen
    PROVE  BaseInv' /\ DraftOK' /\ FormFollows'
<1> USE DEF EditInv
<1>1. ASSUME NEW r \in Res, OpenSettings(r) PROVE BaseInv' /\ DraftOK' /\ FormFollows'
  BY <1>1, MountedFollows DEF OpenSettings
<1>2. ASSUME NEW f \in Field, EditSettings(f) PROVE BaseInv' /\ DraftOK' /\ FormFollows'
  BY <1>2, EditedFollows DEF EditSettings
<1>3. CASE LandAccount
  BY <1>3, LandedFollows
<1>4. CASE SaveSettings
  BY <1>4, SavedFollows DEF SaveSettings
<1>5. CASE SettingsAnswered
  BY <1>5, ToldStep, FollowStill DEF SettingsAnswered, AccountAnswered, Told
<1>6. CASE SettingsConflict
  BY <1>6, FetchedStep, FollowStill DEF SettingsConflict, AccountConflict
<1>7. CASE Unmount
  BY <1>7, UnmountStep DEF Unmount, DraftOK, FormFollows, Shown
<1>8. CASE Refetch
  BY <1>8, RefetchStep, FollowStill DEF Refetch
<1>9. CASE Answer
  BY <1>9, AnswerStep, FollowStill
<1>10. CASE SessionEnds
  BY <1>10, SessionEndsStep DEF SessionEnds, DraftOK, FormFollows, Shown
<1>11. CASE OtherAdmin
  BY <1>11, OtherAdminStep, FollowStill DEF OtherAdmin
<1>12. QED
  BY <1>1, <1>2, <1>3, <1>4, <1>5, <1>6, <1>7, <1>8, <1>9, <1>10, <1>11 DEF SettingsNext

LEMMA KeyStep ==
    ASSUME EditInv, screen = "key", KeyNext, UNCHANGED screen
    PROVE  BaseInv' /\ DraftOK' /\ UntouchedBefore'
<1> USE DEF EditInv
<1>1. ASSUME NEW r \in Res, OpenKey(r) PROVE BaseInv' /\ DraftOK' /\ UntouchedBefore'
  <2>1. BaseInv'
    BY <1>1, MountStep DEF OpenKey
  <2>2. CASE draft' = None
    BY <2>1, <2>2 DEF DraftOK, UntouchedBefore
  <2>3. CASE cache[r] # None /\ draft' = Fresh(r, cache[r])
    <3>1. cache[r] \in Version /\ Known(server, r, cache[r])
      BY <2>3 DEF BaseInv, CacheOK
    <3>2. FormOK(server, Fresh(r, cache[r]))
      BY <3>1, FreshOK
    <3>3. DraftOK'
      BY <1>1, <2>3, <3>2 DEF DraftOK, FormOK, OpenKey, Mount
    <3>4. QED
      BY <2>1, <2>3, <3>3 DEF UntouchedBefore, Fresh
  <2>4. QED
    BY <1>1, <2>2, <2>3 DEF OpenKey
<1>2. ASSUME NEW f \in Field, EditKey(f) PROVE BaseInv' /\ DraftOK' /\ UntouchedBefore'
  <2>1. BaseInv'
    BY <1>2, DraftStep DEF EditKey
  <2>2. FormOK(server, draft')
    BY <1>2, EditedOK DEF EditKey, DraftOK
  <2>3. QED
    BY <1>2, <2>1, <2>2 DEF EditKey, DraftOK, FormOK, UntouchedBefore, Shown
<1>3. ASSUME NEW r \in Res, NEW f \in Field, SwitchKey(r, f)
      PROVE  BaseInv' /\ DraftOK' /\ UntouchedBefore'
  BY <1>3, SwitchStep, FollowStill DEF SwitchKey, SwitchRow
<1>4. CASE CloseKey \/ KeyRemoved
  BY <1>4, ClosedStep DEF CloseKey, KeyRemoved, DraftOK, UntouchedBefore
<1>5. CASE LandKey
  <2>1. BaseInv'
    BY <1>5, LandStep DEF LandKey
  <2>2. /\ open \in Res /\ UNCHANGED open /\ (Shown # None => Shown' # None)
        /\ open # None /\ Shown' = cache'[open]
    BY <1>5, ShownLanded DEF LandKey
  <2>3. CASE draft' = draft
    BY <1>5, <2>1, <2>2, <2>3, FormStill DEF LandKey, Land, DraftOK, UntouchedBefore
  <2>4. CASE cache'[open] # None /\ draft' = Fresh(open, cache'[open])
    BY <1>5, <2>1, <2>2, <2>4, FilledOK DEF LandKey, Land, DraftOK, UntouchedBefore, Fresh
  <2>5. QED
    BY <1>5, <2>2, <2>3, <2>4 DEF LandKey, Filled
<1>6. CASE SaveKey
  <2> DEFINE d == [draft EXCEPT !.id = open, !.rev = Shown.rev]
  <2>1. draft \in Draft /\ open \in Res /\ Shown.rev \in 0..MaxRev
    BY <1>6, ShownKnown DEF SaveKey, DraftOK, FormOK
  <2>2. d \in Draft
    BY <2>1 DEF Draft
  <2>3. FormOK(server, d)
    BY <2>2 DEF FormOK
  <2>4. BaseInv' /\ DraftOK'
    BY <1>6, <2>3, SendDraft DEF SaveKey
  <2>5. QED
    BY <1>6, <2>4, FollowStill DEF SaveKey
<1>7. CASE RemoveKey
  BY <1>7, SendShown, FollowStill DEF RemoveKey
<1>8. CASE KeySaved
  <2>1. BaseInv'
    BY <1>8, DraftStep DEF KeySaved
  <2>2. CASE draft' = None
    BY <2>1, <2>2 DEF DraftOK, UntouchedBefore
  <2>3. CASE draft' = Fresh(request.form.id, request.answer)
    <3>1. /\ request \in Request /\ request.answer # None
          /\ Known(server, request.form.id, request.answer)
      BY <1>8 DEF KeySaved, Resumes, Pending, BaseInv, RequestOK
    <3>2. request.form.id \in Res /\ request.answer \in Version
      BY <3>1 DEF Request, Draft
    <3>3. FormOK(server, draft')
      BY <2>3, <3>1, <3>2, FreshOK
    <3>4. QED
      BY <1>8, <2>1, <2>3, <3>3 DEF KeySaved, DraftOK, FormOK, UntouchedBefore, Fresh
  <2>4. QED
    BY <1>8, <2>2, <2>3 DEF KeySaved
<1>9. CASE KeyAnswered
  BY <1>9, ToldStep, FollowStill DEF KeyAnswered, Told
<1>10. CASE Refetch
  BY <1>10, RefetchStep, FollowStill DEF Refetch
<1>11. CASE Answer
  BY <1>11, AnswerStep, FollowStill
<1>12. CASE SessionEnds
  BY <1>12, SessionEndsStep DEF SessionEnds, DraftOK, UntouchedBefore
<1>13. CASE OtherAdmin
  BY <1>13, OtherAdminStep, FollowStill DEF OtherAdmin
<1>14. QED
  BY <1>1, <1>2, <1>3, <1>4, <1>5, <1>6, <1>7, <1>8, <1>9, <1>10, <1>11, <1>12, <1>13
     DEF KeyNext

LEMMA EditInitially == Init => EditInv
<1> SUFFICES ASSUME Init PROVE EditInv
  OBVIOUS
<1>1. PICK R \in SUBSET Res : EditingInit(R)
  BY DEF Init
<1>2. [rev |-> 0, of |-> [f \in Field |-> 0]] \in Version
  BY EditingAssumption DEF Version
<1>3. ServerOK
  BY <1>1, <1>2 DEF EditingInit, ServerOK
<1>4. CacheOK
  BY <1>1 DEF EditingInit, CacheOK
<1>5. ReadingOK /\ RequestOK /\ DraftOK
  BY <1>1 DEF EditingInit, ReadingOK, RequestOK, DraftOK
<1>6. FormFollows /\ UntouchedBefore /\ SectionRead
  BY <1>1 DEF EditingInit, FormFollows, UntouchedBefore, SectionRead, Shown
<1>7. QED
  BY <1>3, <1>4, <1>5, <1>6 DEF EditInv, BaseInv

\* The pages that are not looked at stay as they are.
LEMMA EditStill == EditInv /\ UNCHANGED <<screen, editVars>> => EditInv'
<1> SUFFICES ASSUME EditInv, UNCHANGED <<screen, editVars>> PROVE EditInv'
  OBVIOUS
<1>1. ServerOK' /\ ServerMoves
  BY ServerStill DEF EditInv, BaseInv, editVars
<1>2. BaseInv' /\ DraftOK'
  BY <1>1, Later DEF EditInv, BaseInv, editVars
<1>3. FormFollows' /\ UntouchedBefore'
  BY FollowStill DEF EditInv, editVars
<1>4. SectionRead'
  BY DEF EditInv, editVars, SectionRead, Shown
<1>5. QED
  BY <1>2, <1>3, <1>4 DEF EditInv

LEMMA EditStep == EditInv /\ [Next]_browserVars => EditInv'
<1> SUFFICES ASSUME EditInv, [Next]_browserVars PROVE EditInv'
  OBVIOUS
<1>1. UNCHANGED screen /\ (EditingNext \/ UNCHANGED editVars)
  BY DEF Next, browserVars
<1>2. CASE UNCHANGED editVars
  BY <1>1, <1>2, EditStill
<1>3. CASE EditingNext
  <2>1. screen \notin {"account", "settings"} => FormFollows'
    BY <1>1 DEF FormFollows
  <2>2. screen # "key" => UntouchedBefore'
    BY <1>1 DEF UntouchedBefore
  <2>3. screen # "compatibility" => SectionRead'
    BY <1>1 DEF SectionRead
  <2>4. CASE screen = "channel" /\ ChannelNext
    BY <1>1, <2>1, <2>2, <2>3, <2>4, ChannelStep DEF EditInv
  <2>5. CASE screen = "compatibility" /\ CompatibilityNext
    BY <1>1, <2>1, <2>2, <2>5, CompatibilityStep DEF EditInv
  <2>6. CASE screen = "account" /\ AccountNext
    BY <1>1, <2>2, <2>3, <2>6, AccountStep DEF EditInv
  <2>7. CASE screen = "settings" /\ SettingsNext
    BY <1>1, <2>2, <2>3, <2>7, SettingsStep DEF EditInv
  <2>8. CASE screen = "key" /\ KeyNext
    BY <1>1, <2>1, <2>3, <2>8, KeyStep DEF EditInv
  <2>9. QED
    BY <1>3, <2>4, <2>5, <2>6, <2>7, <2>8 DEF EditingNext
<1>4. QED
  BY <1>1, <1>2, <1>3

LEMMA EditInvariant == Spec => []EditInv
BY EditInitially, EditStep, PTL DEF Spec

\* Nothing but an answer and another administrator changes what the server has.
LEMMA WhoWrites == EditingNext => Answer \/ OtherAdmin \/ UNCHANGED server
<1> SUFFICES ASSUME EditingNext PROVE Answer \/ OtherAdmin \/ UNCHANGED server
  OBVIOUS
<1> USE DEF Refetch, Land, Told, Mount, Unmount, SwitchRow, SessionEnds
<1>1. CASE ChannelNext
  BY <1>1 DEF ChannelNext, OpenChannel, EditChannel, ToggleEnabled, ToggleRow, CloseChannel,
     StartEdit, CancelEdit, SubmitEdit, AdoptRevision, ReloadChannel, RemoveChannel,
     RunAction, ChannelSaved, ChannelRemoved, ChannelConflict, ChannelAnswered
<1>2. CASE CompatibilityNext
  BY <1>2 DEF CompatibilityNext, LoadSection, PatchFeature, LandSection, FillFromCache,
     SubmitSection, AdoptLatest, ReloadSection, SectionSaved, SectionRefused, SectionGone
<1>3. CASE AccountNext
  BY <1>3 DEF AccountNext, OpenAccount, EditAccount, ToggleAccount, CloseAccount, LandAccount,
     SaveAccount, RemoveAccount, RunAccountAction, AccountAnswered, AccountRemoved,
     AccountConflict
<1>4. CASE SettingsNext
  BY <1>4 DEF SettingsNext, OpenSettings, EditSettings, LandAccount, SaveSettings, SaveAccount,
     SettingsAnswered, AccountAnswered, SettingsConflict, AccountConflict
<1>5. CASE KeyNext
  BY <1>5 DEF KeyNext, OpenKey, EditKey, SwitchKey, CloseKey, LandKey, SaveKey, RemoveKey,
     KeySaved, KeyRemoved, KeyAnswered
<1>6. QED
  BY <1>1, <1>2, <1>3, <1>4, <1>5 DEF EditingNext

\* The server takes a write that names the revision it has, which is then the
\* one the form was filled from or one that was taken over.
LEMMA WritesSeen ==
    EditInv /\ [Next]_browserVars /\ screen # "key" => OverwritesSeenOnly
<1> SUFFICES ASSUME EditInv, [Next]_browserVars, screen # "key", CarriedOut
             PROVE  OverwritesSeenOnly
  BY DEF OverwritesSeenOnly
<1> DEFINE id == request.form.id
<1>1. /\ request # None /\ request.phase = "sent" /\ request' # None
      /\ request'.phase # "sent" /\ server'[id] # Gone /\ server'[id] # server[id]
  BY DEF CarriedOut, Pending
<1>2. request \in Request /\ FormOK(server, request.form)
  BY <1>1 DEF EditInv, BaseInv, RequestOK
<1>3. id \in Res
  BY <1>2 DEF Request, Draft
<1>4. EditingNext
  BY <1>1 DEF Next, browserVars, editVars
<1>5. Answer
  BY <1>1, <1>4, WhoWrites DEF OtherAdmin
<1>6. /\ Accepts(request)
      /\ server' = [server EXCEPT ![id] = IF request.kind = "delete" THEN Gone
                                         ELSE Written(request, server[id])]
  BY <1>1, <1>5 DEF Answer, Apply, Decline
<1>7. server[id] \in Version /\ server[id].rev = request.form.rev
  BY <1>3, <1>6 DEF Accepts, EditInv, BaseInv, ServerOK
<1>8. server'[id] = Written(request, server[id])
  BY <1>1, <1>3, <1>6 DEF EditInv, BaseInv, ServerOK
<1>9. request.form.base.of = server[id].of \/ request.form.adopted
  BY <1>1, <1>2, <1>3, <1>6, <1>7 DEF FormOK, Known, Accepts
<1>10. \A f \in Field :
          server'[id].of[f] # server[id].of[f] => request.whole \/ f \in request.form.edited
  BY <1>8 DEF Written
<1>11. QED
  BY <1>9, <1>10 DEF OverwritesSeenOnly

\* No save of the channel, compatibility, account and settings screens takes
\* back what another administrator wrote and the operator has not seen.
THEOREM OverwritesAreSeen == Spec => NoSilentOverwrite
<1>1. EditInv /\ [Next]_browserVars => [screen # "key" => OverwritesSeenOnly]_browserVars
  BY WritesSeen
<1>2. QED
  BY <1>1, EditInvariant, PTL DEF Spec, NoSilentOverwrite

\* The step property of EditsKept.
KeepsEdits ==
    (/\ screen \in {"channel", "compatibility", "key"}
     /\ open # None /\ open' = open /\ draft # None /\ draft' # None
     /\ ~(Pending /\ request.phase = "done" /\ request' = None))
    => draft.edited \subseteq draft'.edited

\* What a page may do to a form that is kept, short of an answer that saves it.
LEMMA FormChanges ==
    ASSUME EditInv, screen \in {"channel", "compatibility", "key"}, EditingNext,
           open # None, open' = open, draft # None, draft' # None,
           ~(Pending /\ request.phase = "done" /\ request' = None)
    PROVE  \/ draft' = draft
           \/ \E f \in Field : draft' = [draft EXCEPT !.edited = @ \union {f}]
           \/ \E n \in 0..MaxRev : draft' = [draft EXCEPT !.rev = n, !.adopted = TRUE]
           \/ draft.edited = {}
<1> USE DEF Refetch, Land, Told, Mount, Unmount, SwitchRow, SessionEnds, Answer, OtherAdmin, Resumes
<1>1. CASE ChannelNext
  <2>1. ASSUME AdoptRevision PROVE Shown.rev \in 0..MaxRev
    BY <2>1, ShownKnown DEF AdoptRevision, ChannelShown, EditInv
  <2>2. QED
    BY <1>1, <2>1 DEF ChannelNext, OpenChannel, EditChannel, ToggleEnabled, ToggleRow,
     CloseChannel, StartEdit, CancelEdit, SubmitEdit, AdoptRevision, ReloadChannel,
     RemoveChannel, RunAction, ChannelSaved, ChannelRemoved, ChannelConflict, ChannelAnswered
<1>2. CASE screen = "compatibility" /\ CompatibilityNext
  <2>1. Shown.rev \in 0..MaxRev
    BY <1>2, ShownKnown DEF SectionRead, EditInv
  <2>2. QED
    BY <1>2, <2>1 DEF CompatibilityNext, LoadSection, PatchFeature, LandSection, FirstFill,
     FillFromCache, SubmitSection, AdoptLatest, ReloadSection, SectionSaved, SectionRefused,
     SectionGone
<1>3. CASE screen = "key" /\ KeyNext
  <2>1. Shown = None => draft.edited = {}
    BY <1>3 DEF EditInv, UntouchedBefore
  <2>2. QED
    BY <1>3, <2>1 DEF KeyNext, OpenKey, EditKey, SwitchKey, CloseKey, LandKey, Filled, SaveKey,
     RemoveKey, KeySaved, KeyRemoved, KeyAnswered
<1>4. QED
  BY <1>1, <1>2, <1>3 DEF EditingNext

LEMMA EditsKeptStep == EditInv /\ [Next]_browserVars => KeepsEdits
<1> SUFFICES ASSUME EditInv, [Next]_browserVars,
                    screen \in {"channel", "compatibility", "key"},
                    open # None, open' = open, draft # None, draft' # None,
                    ~(Pending /\ request.phase = "done" /\ request' = None)
             PROVE  draft.edited \subseteq draft'.edited
  BY DEF KeepsEdits
<1>1. FormOK(server, draft) /\ draft \in Draft
  BY DEF EditInv, DraftOK, FormOK
<1>2. CASE draft' = draft
  BY <1>2
<1>3. ASSUME NEW f \in Field, draft' = [draft EXCEPT !.edited = @ \union {f}]
      PROVE  draft.edited \subseteq draft'.edited
  BY <1>1, <1>3, EditedOK
<1>4. ASSUME NEW n \in 0..MaxRev, draft' = [draft EXCEPT !.rev = n, !.adopted = TRUE]
      PROVE  draft.edited \subseteq draft'.edited
  BY <1>1, <1>4, AdoptedOK
<1>5. CASE draft.edited = {}
  BY <1>5
<1>6. EditingNext \/ UNCHANGED draft
  BY DEF Next, browserVars, editVars
<1>7. QED
  BY <1>2, <1>3, <1>4, <1>5, <1>6, FormChanges

\* What was typed is lost to a completed save only: neither a poll nor a
\* conflict or another refusal takes it from the form.
THEOREM EditsAreKept == Spec => EditsKept
<1>1. EditInv /\ [Next]_browserVars => [KeepsEdits]_browserVars
  BY EditsKeptStep
<1>2. Spec => [][KeepsEdits]_browserVars
  BY <1>1, EditInvariant, PTL DEF Spec
<1>3. QED
  BY <1>2 DEF EditsKept, KeepsEdits

-----------------------------------------------------------------------------
(* The session in the tabs.                                                *)

TabState == [status : AuthStatus, token : CsrfToken \cup {None},
             shown : SessionId \cup {None}, bootstrapped : BOOLEAN]
CallState == [tab : Tab, kind : BffCallKind, mounted : BOOLEAN, answer : BffAnswer,
              shown : SessionId \cup {None}, session : SessionId \cup {None},
              prelogin : PreloginId \cup {None}, token : CsrfToken \cup {None}]

\* A token of a session is one of the session that is shown.
OwnToken(token, shown) == \A s \in SessionId : token = SessionToken(s) => shown = s

\* A tab that shows somebody has a token, and no other session's.
TabHonest(state) ==
    state.status = "authenticated" => state.token # None /\ OwnToken(state.token, state.shown)

\* A write carries what its tab had; an answer that brings a token brings the
\* one of the session it tells of; what was carried out was accepted.
CallHonest(c) ==
    /\ c.answer = "none" /\ c.kind \in {"write", "logout"} => OwnToken(c.token, c.shown)
    /\ c.answer = "ok" /\ c.kind \in {"initSession", "session", "login"} =>
          c.session \in SessionId /\ c.token = SessionToken(c.session)
    /\ c.answer = "ok" /\ c.kind \in BootstrapKind =>
          c.prelogin \in PreloginId /\ c.token = PreloginToken(c.prelogin)
    /\ (c.kind = "write" /\ c.answer = "ok") \/ c.answer = "ended" => c.shown = c.session

GoodCall(c) == c \in CallState /\ c.tab \in OpenTabs /\ CallHonest(c)
GoodTab(state) == state \in TabState /\ TabHonest(state)

BffOK ==
    /\ DOMAIN bff = {"sessions", "logins", "prelogins", "made"}
    /\ bff.sessions \subseteq 1..bff.logins /\ bff.logins \in 0..MaxLogins
    /\ bff.prelogins \subseteq 1..bff.made /\ bff.made \in 0..MaxPrelogins

CookiesOK == cookies \in [session : SessionId \cup {None}, prelogin : PreloginId \cup {None}]

TabsOK ==
    /\ OpenTabs \subseteq Tab /\ tabs = [t \in OpenTabs |-> tabs[t]]
    /\ \A t \in OpenTabs : GoodTab(tabs[t])

WireOK == \A c \in wire : GoodCall(c)

SessionInv == TabsOK /\ WireOK /\ BffOK /\ CookiesOK /\ news \subseteq OpenTabs

LEMMA Tokens ==
    /\ \A s \in SessionId : SessionToken(s) \in CsrfToken /\ SessionToken(s) # None
    /\ \A p \in PreloginId : PreloginToken(p) \in CsrfToken /\ PreloginToken(p) # None
    /\ \A s, r \in SessionId : SessionToken(s) = SessionToken(r) => s = r
    /\ \A s \in SessionId, p \in PreloginId : SessionToken(s) # PreloginToken(p)
<1>1. \A s \in SessionId : SessionToken(s) \in CsrfToken
  BY DEF CsrfToken
<1>2. \A p \in PreloginId : PreloginToken(p) \in CsrfToken
  BY DEF CsrfToken
<1>3. \A s, r \in SessionId : SessionToken(s) = SessionToken(r) => s = r
  BY DEF SessionToken
<1>4. \A s \in SessionId, p \in PreloginId : SessionToken(s) # PreloginToken(p)
  BY DEF SessionToken, PreloginToken
<1>5. QED
  BY <1>1, <1>2, <1>3, <1>4, TokenAssumption

\* A call that is sent carries what the jar and the tab have.
LEMMA CallSent ==
    ASSUME TabsOK, NEW t \in OpenTabs, NEW kind \in BffCallKind,
           NEW token \in CsrfToken \cup {None},
           NEW jar \in [session : SessionId \cup {None}, prelogin : PreloginId \cup {None}],
           kind \in {"write", "logout"} => OwnToken(token, tabs[t].shown)
    PROVE  GoodCall(BffCall(t, kind, token, jar))
<1> DEFINE call == BffCall(t, kind, token, jar)
<1>1. t \in Tab /\ tabs[t].shown \in SessionId \cup {None}
  BY DEF TabsOK, GoodTab, TabState
<1>2. jar.session \in SessionId \cup {None} /\ jar.prelogin \in PreloginId \cup {None}
  OBVIOUS
<1>3. call \in CallState
  BY <1>1, <1>2 DEF BffCall, CallState, BffAnswer
<1>4. /\ call.tab = t /\ call.answer = "none" /\ call.kind = kind /\ call.token = token
      /\ kind \in {"write", "logout"} => call.shown = tabs[t].shown
  BY DEF BffCall
<1>5. CallHonest(call)
  BY <1>4 DEF CallHonest
<1>6. QED
  BY <1>3, <1>4, <1>5 DEF GoodCall

\* An answer keeps who asked and what the tab showed.
LEMMA CallAnswered ==
    ASSUME WireOK, NEW c \in wire, UNCHANGED tabs,
           NEW answer \in BffAnswer \ {"none"}, NEW token \in CsrfToken \cup {None},
           NEW session \in SessionId \cup {None}, NEW prelogin \in PreloginId \cup {None},
           answer = "ok" /\ c.kind \in {"initSession", "session", "login"} =>
              session \in SessionId /\ token = SessionToken(session),
           answer = "ok" /\ c.kind \in BootstrapKind =>
              prelogin \in PreloginId /\ token = PreloginToken(prelogin),
           (c.kind = "write" /\ answer = "ok") \/ answer = "ended" => c.shown = session,
           Reply(c, answer, token, session, prelogin)
    PROVE  WireOK'
<1> DEFINE d == [c EXCEPT !.answer = answer, !.token = token,
                          !.session = session, !.prelogin = prelogin]
<1>1. c \in CallState /\ c.tab \in OpenTabs
  BY DEF WireOK, GoodCall
<1>2. /\ d \in CallState /\ d.tab = c.tab /\ d.kind = c.kind /\ d.answer = answer
      /\ d.shown = c.shown /\ d.session = session /\ d.prelogin = prelogin
      /\ d.token = token
  BY <1>1 DEF CallState
<1>3. CallHonest(d)
  BY <1>2 DEF CallHonest
<1>4. wire' = (wire \ {c}) \cup {d} /\ OpenTabs' = OpenTabs
  BY DEF Reply, OpenTabs
<1>5. GoodCall(d)
  BY <1>1, <1>2, <1>3 DEF GoodCall
<1> HIDE DEF d
<1>6. QED
  BY <1>4, <1>5 DEF WireOK, GoodCall

\* Forgetting that a form is mounted changes nothing else of a call.
LEMMA CallsUnmounted ==
    ASSUME NEW group, \A c \in group : GoodCall(c), NEW t, NEW status
    PROVE  \A c \in Unmounted(group, t, status) : GoodCall(c)
<1>1. ASSUME NEW c \in group PROVE GoodCall([c EXCEPT !.mounted = FALSE])
  <2> DEFINE d == [c EXCEPT !.mounted = FALSE]
  <2>1. c \in CallState /\ GoodCall(c)
    BY DEF GoodCall
  <2>2. /\ d \in CallState /\ d.tab = c.tab /\ d.kind = c.kind /\ d.answer = c.answer
        /\ d.shown = c.shown /\ d.session = c.session /\ d.prelogin = c.prelogin
        /\ d.token = c.token
    BY <2>1 DEF CallState
  <2>3. QED
    BY <2>1, <2>2 DEF GoodCall, CallHonest
<1>2. QED
  BY <1>1 DEF Unmounted

\* A tab that goes on with a good state, and what it sends then.
LEMMA AnswerReceived ==
    ASSUME SessionInv, NEW c, NEW next, GoodTab(next), NEW sends,
           \A d \in sends : GoodCall(d), Receive(c, next, sends)
    PROVE  TabsOK' /\ WireOK' /\ BffOK' /\ CookiesOK' /\ OpenTabs' = OpenTabs
<1>1. c \in wire /\ c \in CallState /\ c.tab \in OpenTabs
  BY DEF Receive, SessionInv, WireOK, GoodCall
<1>2. tabs' = [tabs EXCEPT ![c.tab] = next] /\ OpenTabs' = OpenTabs
  BY DEF Receive, OpenTabs
<1>3. TabsOK'
  BY <1>1, <1>2 DEF SessionInv, TabsOK, OpenTabs
<1>4. \A d \in Unmounted(wire \ {c}, c.tab, next.status) \cup sends : GoodCall(d)
  BY CallsUnmounted DEF SessionInv, WireOK
<1>5. WireOK'
  BY <1>2, <1>4 DEF Receive, WireOK, GoodCall
<1>6. CookiesOK'
  BY <1>1 DEF SessionInv, CookiesOK, Receive, NextCookies, CallState
<1>7. BffOK'
  BY DEF Receive, SessionInv, BffOK
<1>8. QED
  BY <1>2, <1>3, <1>5, <1>6, <1>7

LEMMA NextCookiesOK ==
    ASSUME CookiesOK, NEW c \in CallState
    PROVE  NextCookies(c) \in [session : SessionId \cup {None}, prelogin : PreloginId \cup {None}]
BY DEF CookiesOK, NextCookies, CallState

LEMMA SessionInitially == ASSUME NEW T \in SUBSET Tab, SessionInit(T) PROVE SessionInv
<1>1. tabs = [t \in T |-> Opened] /\ OpenTabs = T
  BY DEF SessionInit, OpenTabs
<1>2. GoodTab(Opened)
  BY DEF Opened, GoodTab, TabState, TabHonest, AuthStatus
<1>3. TabsOK
  BY <1>1, <1>2 DEF TabsOK
<1>4. CookiesOK
  BY DEF SessionInit, CookiesOK
<1>5. WireOK
  <2>1. ASSUME NEW t \in T PROVE GoodCall(BffCall(t, "init", None, cookies))
    BY <1>1, <1>3, <1>4, CallSent DEF CookiesOK, BffCallKind, BootstrapKind
  <2>2. QED
    BY <2>1 DEF SessionInit, WireOK
<1>6. BffOK /\ news \subseteq OpenTabs
  BY TabSessionAssumption DEF SessionInit, BffOK
<1>7. QED
  BY <1>3, <1>4, <1>5, <1>6 DEF SessionInv

\* Steps of the BFF answer a call and leave the tabs and the cookies alone.
LEMMA BffStep ==
    ASSUME SessionInv, WireOK', BffOK', UNCHANGED <<tabs, cookies, news>>
    PROVE  SessionInv'
BY DEF SessionInv, TabsOK, CookiesOK, OpenTabs

LEMMA PassedTyped ==
    ASSUME SessionInv, NEW kinds, NEW c, Passed(c, kinds)
    PROVE  /\ c \in wire /\ c \in CallState /\ c.kind \in kinds /\ CallHonest(c)
           /\ c.answer = "none" /\ c.session \in SessionId \cup {None}
           /\ c.prelogin \in PreloginId \cup {None}
BY DEF SessionInv, WireOK, GoodCall, Passed, CallState

\* An answer that brings neither a token nor a session.
LEMMA PlainAnswer ==
    ASSUME SessionInv, NEW kinds, NEW c, Passed(c, kinds), UNCHANGED tabs,
           NEW answer \in BffAnswer \ {"none"}, Answers(c, answer),
           answer = "ok" => c.kind \in {"logout", "read", "write"},
           (c.kind = "write" /\ answer = "ok") \/ answer = "ended" => c.shown = c.session
    PROVE  WireOK'
<1>1. /\ c \in wire /\ c.session \in SessionId \cup {None}
      /\ c.prelogin \in PreloginId \cup {None}
  BY PassedTyped
<1>2. answer = "ok" => c.kind \notin {"initSession", "session", "login"} \cup BootstrapKind
  BY DEF BootstrapKind
<1>3. QED
  BY <1>1, <1>2, CallAnswered DEF Answers, SessionInv

\* A write that passes assertCsrf acts for the session its tab showed.
LEMMA AcceptedAsShown ==
    ASSUME SessionInv, NEW kinds, NEW c, Passed(c, kinds), c.kind \in {"write", "logout"},
           Live(c), CsrfAccepted(c)
    PROVE  c.shown = c.session
<1>1. c.session \in SessionId
  BY TabSessionAssumption DEF Live, SessionInv, BffOK, SessionId
<1>2. OwnToken(c.token, c.shown)
  BY PassedTyped DEF CallHonest
<1>3. QED
  BY <1>1, <1>2 DEF OwnToken, CsrfAccepted

LEMMA FewerSessions ==
    ASSUME BffOK, NEW s, bff' = [bff EXCEPT !.sessions = @ \ {s}] \/ bff' = bff
    PROVE  BffOK'
BY DEF BffOK

LEMMA RefusedStep == ASSUME SessionInv, NEW c, Refused(c) PROVE SessionInv'
<1>1. WireOK'
  BY PlainAnswer DEF Refused, BffAnswer
<1>2. BffOK'
  BY DEF Refused, SessionInv, BffOK
<1>3. QED
  BY <1>1, <1>2, BffStep DEF Refused

LEMMA BootstrapsStep == ASSUME SessionInv, NEW c, Bootstraps(c) PROVE SessionInv'
<1>1. /\ c \in wire /\ c.kind \in BootstrapKind /\ c.session \in SessionId \cup {None}
      /\ c.kind \notin {"initSession", "session", "login", "write"}
  BY PassedTyped DEF Bootstraps, BootstrapKind
<1>2. CASE c.prelogin \in bff.prelogins
  <2>1. c.prelogin \in PreloginId
    BY <1>2, TabSessionAssumption DEF SessionInv, BffOK, PreloginId
  <2>2. WireOK'
    BY <1>1, <1>2, <2>1, Tokens, CallAnswered DEF Bootstraps, SessionInv, BffAnswer
  <2>3. BffOK'
    BY <1>2 DEF Bootstraps, SessionInv, BffOK
  <2>4. QED
    BY <2>2, <2>3, BffStep DEF Bootstraps
<1>3. CASE c.prelogin \notin bff.prelogins
  <2>1. bff.made + 1 \in PreloginId
    BY <1>3, TabSessionAssumption DEF Bootstraps, SessionInv, BffOK, PreloginId
  <2>2. WireOK'
    BY <1>1, <1>3, <2>1, Tokens, CallAnswered DEF Bootstraps, SessionInv, BffAnswer
  <2>3. bff' = [bff EXCEPT !.made = @ + 1, !.prelogins = @ \cup {bff.made + 1}]
    BY <1>3 DEF Bootstraps
  <2>4. /\ bff'.made = bff.made + 1 /\ bff'.prelogins = bff.prelogins \cup {bff.made + 1}
        /\ bff'.logins = bff.logins /\ bff'.sessions = bff.sessions
        /\ DOMAIN bff' = DOMAIN bff
    BY <2>3 DEF SessionInv, BffOK
  <2>5. BffOK'
    BY <2>1, <2>4, TabSessionAssumption DEF SessionInv, BffOK, PreloginId
  <2>6. QED
    BY <2>2, <2>5, BffStep DEF Bootstraps
<1>4. QED
  BY <1>2, <1>3

LEMMA LogsInStep == ASSUME SessionInv, NEW c, LogsIn(c) PROVE SessionInv'
<1>1. c \in wire /\ c.kind = "login"
  BY PassedTyped DEF LogsIn
<1>2. bff.logins + 1 \in SessionId
  BY TabSessionAssumption DEF LogsIn, SessionInv, BffOK, SessionId
<1>3. WireOK'
  BY <1>1, <1>2, Tokens, CallAnswered DEF LogsIn, SessionInv, BffAnswer, BootstrapKind
<1>4. /\ bff'.logins = bff.logins + 1 /\ bff'.sessions = bff.sessions \cup {bff.logins + 1}
      /\ bff'.made = bff.made /\ bff'.prelogins = bff.prelogins \ {c.prelogin}
      /\ DOMAIN bff' = DOMAIN bff
  BY DEF LogsIn, SessionInv, BffOK
<1>5. BffOK'
  BY <1>2, <1>4, TabSessionAssumption DEF SessionInv, BffOK, SessionId
<1>6. QED
  BY <1>3, <1>5, BffStep DEF LogsIn

LEMMA TellsSessionStep == ASSUME SessionInv, NEW c, TellsSession(c) PROVE SessionInv'
<1>1. /\ c \in wire /\ c.kind \in {"initSession", "session"}
      /\ c.prelogin \in PreloginId \cup {None}
  BY PassedTyped DEF TellsSession
<1>2. WireOK'
  <2>1. CASE Answers(c, "anonymous")
    BY <2>1, PlainAnswer DEF TellsSession, BffAnswer
  <2>2. CASE Live(c) /\ Reply(c, "ok", SessionToken(c.session), c.session, c.prelogin)
    <3>1. c.session \in SessionId
      BY <2>2, TabSessionAssumption DEF Live, SessionInv, BffOK, SessionId
    <3>2. QED
      BY <1>1, <2>2, <3>1, Tokens, CallAnswered
         DEF TellsSession, SessionInv, BffAnswer, BootstrapKind
  <2>3. QED
    BY <2>1, <2>2 DEF TellsSession
<1>3. BffOK'
  BY FewerSessions DEF TellsSession, SessionInv
<1>4. QED
  BY <1>2, <1>3, BffStep DEF TellsSession

LEMMA LogsOutStep == ASSUME SessionInv, NEW c, LogsOut(c) PROVE SessionInv'
<1>1. c.kind = "logout"
  BY PassedTyped DEF LogsOut
<1>2. WireOK'
  <2>1. CASE Live(c) /\ CsrfAccepted(c) /\ Answers(c, "ended")
    BY <1>1, <2>1, PlainAnswer, AcceptedAsShown DEF LogsOut, BffAnswer
  <2>2. CASE Answers(c, "error") \/ Answers(c, "ok")
    BY <1>1, <2>2, PlainAnswer DEF LogsOut, BffAnswer
  <2>3. QED
    BY <2>1, <2>2 DEF LogsOut
<1>3. BffOK'
  BY FewerSessions DEF LogsOut, SessionInv
<1>4. QED
  BY <1>2, <1>3, BffStep DEF LogsOut

LEMMA ProxiesStep == ASSUME SessionInv, NEW c, Proxies(c) PROVE SessionInv'
<1>1. c.kind \in {"read", "write"}
  BY PassedTyped DEF Proxies
<1>2. WireOK'
  <2>1. CASE Live(c) /\ (c.kind = "write" => CsrfAccepted(c)) /\ Answers(c, "ok")
    BY <1>1, <2>1, PlainAnswer, AcceptedAsShown DEF Proxies, BffAnswer
  <2>2. CASE Answers(c, "error") \/ Answers(c, "lost")
    BY <2>2, PlainAnswer DEF Proxies, BffAnswer
  <2>3. QED
    BY <2>1, <2>2 DEF Proxies
<1>3. BffOK'
  BY FewerSessions DEF Proxies, SessionInv
<1>4. QED
  BY <1>2, <1>3, BffStep DEF Proxies

LEMMA EndsStep ==
    ASSUME SessionInv, NEW s, EndsSession(s) \/ EndsPrelogin(s)
    PROVE  SessionInv'
<1>1. BffOK'
  BY DEF EndsSession, EndsPrelogin, SessionInv, BffOK
<1>2. WireOK'
  BY DEF EndsSession, EndsPrelogin, SessionInv, WireOK, GoodCall, OpenTabs
<1>3. QED
  BY <1>1, <1>2, BffStep DEF EndsSession, EndsPrelogin

-----------------------------------------------------------------------------
(* What answers and the operator do to a tab.                              *)

LEMMA ReceiveTyped ==
    ASSUME SessionInv, NEW c, NEW next, NEW sends, Receive(c, next, sends)
    PROVE  /\ c \in wire /\ c \in CallState /\ c.answer # "none" /\ CallHonest(c)
           /\ c.tab \in OpenTabs /\ GoodTab(tabs[c.tab]) /\ tabs[c.tab] \in TabState
BY DEF Receive, SessionInv, WireOK, GoodCall, TabsOK, GoodTab

\* A tab that is not shown as signed in is good whatever its token.
LEMMA Anonymous ==
    ASSUME NEW state \in TabState, NEW status \in AuthStatus, status # "authenticated"
    PROVE  /\ GoodTab([state EXCEPT !.status = status, !.token = None, !.shown = None])
           /\ GoodTab([state EXCEPT !.status = status, !.shown = None])
           /\ GoodTab([state EXCEPT !.status = status])
<1>1. /\ [state EXCEPT !.status = status, !.token = None, !.shown = None] \in TabState
      /\ [state EXCEPT !.status = status, !.token = None, !.shown = None].status = status
  BY DEF TabState
<1>2. /\ [state EXCEPT !.status = status, !.shown = None] \in TabState
      /\ [state EXCEPT !.status = status, !.shown = None].status = status
  BY DEF TabState
<1>3. /\ [state EXCEPT !.status = status] \in TabState
      /\ [state EXCEPT !.status = status].status = status
  BY DEF TabState
<1>4. QED
  BY <1>1, <1>2, <1>3 DEF GoodTab, TabHonest

\* An error or an answer that nobody is signed in.
LEMMA StatusSet ==
    ASSUME NEW state, GoodTab(state), NEW status \in AuthStatus,
           status = "authenticated" => state.status = "authenticated"
    PROVE  GoodTab([state EXCEPT !.status = status])
<1>1. state \in TabState
  BY DEF GoodTab
<1>2. /\ [state EXCEPT !.status = status] \in TabState
      /\ [state EXCEPT !.status = status].status = status
      /\ [state EXCEPT !.status = status].token = state.token
      /\ [state EXCEPT !.status = status].shown = state.shown
  BY <1>1 DEF TabState
<1>3. QED
  BY <1>2 DEF GoodTab, TabHonest

LEMMA ClearedOK ==
    ASSUME TabsOK, NEW t \in OpenTabs
    PROVE  GoodTab(Cleared(t))
BY Anonymous DEF TabsOK, GoodTab, Cleared, AuthStatus

\* The session and its token are set together.
LEMMA SignedInOK ==
    ASSUME TabsOK, NEW c \in CallState, c.tab \in OpenTabs, CallHonest(c),
           c.answer = "ok", c.kind \in {"initSession", "session", "login"}
    PROVE  GoodTab(SignedIn(c.tab, c))
<1> DEFINE next == SignedIn(c.tab, c)
<1>1. c.session \in SessionId /\ c.token = SessionToken(c.session)
  BY DEF CallHonest
<1>2. tabs[c.tab] \in TabState
  BY DEF TabsOK, GoodTab
<1>3. /\ next \in TabState /\ next.status = "authenticated"
      /\ next.token = c.token /\ next.shown = c.session
  BY <1>1, <1>2, Tokens DEF SignedIn, TabState, AuthStatus
<1>4. OwnToken(c.token, c.session) /\ c.token # None
  BY <1>1, Tokens DEF OwnToken
<1>5. QED
  BY <1>3, <1>4 DEF GoodTab, TabHonest

\* A pre-login token is no session's.
LEMMA BootstrappedOK ==
    ASSUME TabsOK, NEW c \in CallState, c.tab \in OpenTabs, CallHonest(c),
           c.answer = "ok", c.kind \in BootstrapKind
    PROVE  GoodTab(Bootstrapped(c.tab, c))
<1> DEFINE state == tabs[c.tab]
           next == Bootstrapped(c.tab, c)
<1>1. c.prelogin \in PreloginId /\ c.token = PreloginToken(c.prelogin)
  BY DEF CallHonest
<1>2. state \in TabState /\ TabHonest(state)
  BY DEF TabsOK, GoodTab
<1>3. c.token \in CsrfToken /\ c.token # None /\ \A s \in SessionId : c.token # SessionToken(s)
  BY <1>1, Tokens
<1>4. /\ next \in TabState /\ next.status = state.status /\ next.shown = state.shown
      /\ next.token = state.token \/ next.token = c.token
  BY <1>2, <1>3 DEF Bootstrapped, TabState
<1> HIDE DEF next
<1>5. GoodTab(next)
  BY <1>2, <1>3, <1>4 DEF GoodTab, TabHonest, OwnToken
<1>6. QED
  BY <1>5 DEF next

LEMMA BootstrapArrivesStep ==
    ASSUME SessionInv, NEW c, BootstrapArrives(c)
    PROVE  SessionInv'
<1>1. PICK next, sends : Receive(c, next, sends)
  BY DEF BootstrapArrives
<1>2. /\ c \in CallState /\ CallHonest(c) /\ c.tab \in OpenTabs
      /\ GoodTab(tabs[c.tab]) /\ tabs[c.tab] \in TabState
  BY <1>1, ReceiveTyped
<1>3. c.kind \in BootstrapKind /\ UNCHANGED news
  BY DEF BootstrapArrives
<1>4. CASE c.answer = "ok"
  <2> DEFINE after == IF c.kind = "init" THEN Follow(c, "initSession", None)
                      ELSE IF c.kind = "fresh" THEN Follow(c, "login", c.token) ELSE {}
  <2>1. Receive(c, Bootstrapped(c.tab, c), after)
    BY <1>4 DEF BootstrapArrives
  <2>2. NextCookies(c) \in [session : SessionId \cup {None}, prelogin : PreloginId \cup {None}]
    BY <1>2, NextCookiesOK DEF SessionInv
  <2>3. GoodCall(BffCall(c.tab, "initSession", None, NextCookies(c)))
    BY <1>2, <2>2, CallSent DEF SessionInv, BffCallKind
  <2>4. GoodCall(BffCall(c.tab, "login", c.token, NextCookies(c)))
    BY <1>2, <2>2, CallSent DEF SessionInv, BffCallKind, CallState
  <2>5. \A d \in after : GoodCall(d)
    BY <2>3, <2>4 DEF Follow
  <2>6. GoodTab(Bootstrapped(c.tab, c))
    BY <1>2, <1>3, <1>4, BootstrappedOK DEF SessionInv
  <2> HIDE DEF after
  <2>7. TabsOK' /\ WireOK' /\ BffOK' /\ CookiesOK' /\ OpenTabs' = OpenTabs
    BY <2>1, <2>5, <2>6, AnswerReceived
  <2>8. QED
    BY <1>3, <2>7 DEF SessionInv
<1>5. CASE c.answer # "ok"
  <2> DEFINE status == KeptOr(c.tab, IF c.kind = "init" /\ tabs[c.tab].bootstrapped
                                     THEN "anonymous" ELSE "error")
  <2>1. Receive(c, [tabs[c.tab] EXCEPT !.status = status], {})
    BY <1>5 DEF BootstrapArrives
  <2>2. status \in AuthStatus /\ (status = "authenticated" => tabs[c.tab].status = "authenticated")
    BY DEF KeptOr, AuthStatus
  <2> HIDE DEF status
  <2>3. GoodTab([tabs[c.tab] EXCEPT !.status = status])
    BY <1>2, <2>2, StatusSet
  <2>4. TabsOK' /\ WireOK' /\ BffOK' /\ CookiesOK' /\ OpenTabs' = OpenTabs
    BY <2>1, <2>3, AnswerReceived
  <2>5. QED
    BY <1>3, <2>4 DEF SessionInv
<1>6. QED
  BY <1>4, <1>5

LEMMA SessionArrivesStep ==
    ASSUME SessionInv, NEW c, SessionArrives(c)
    PROVE  SessionInv'
<1>1. PICK next, sends : Receive(c, next, sends)
  BY DEF SessionArrives
<1>2. /\ c \in CallState /\ CallHonest(c) /\ c.tab \in OpenTabs
      /\ GoodTab(tabs[c.tab]) /\ tabs[c.tab] \in TabState
  BY <1>1, ReceiveTyped
<1>3. c.kind \in {"initSession", "session"} /\ UNCHANGED news
  BY DEF SessionArrives
<1>4. \E state : GoodTab(state) /\ Receive(c, state, {})
  <2>1. CASE c.answer = "ok" /\ Receive(c, SignedIn(c.tab, c), {})
    BY <1>2, <1>3, <2>1, SignedInOK DEF SessionInv
  <2>2. CASE Receive(c, [tabs[c.tab] EXCEPT !.status = "anonymous", !.shown = None], {})
    BY <1>2, <2>2, Anonymous DEF AuthStatus
  <2>3. CASE Receive(c, [tabs[c.tab] EXCEPT
                            !.status = IF c.kind = "initSession"
                                       THEN KeptOr(c.tab, "anonymous") ELSE @], {})
    <3> DEFINE status == IF c.kind = "initSession" THEN KeptOr(c.tab, "anonymous")
                         ELSE tabs[c.tab].status
    <3>1. /\ status \in AuthStatus
          /\ status = "authenticated" => tabs[c.tab].status = "authenticated"
      BY <1>2 DEF KeptOr, AuthStatus, TabState
    <3>2. Receive(c, [tabs[c.tab] EXCEPT !.status = status], {})
      BY <2>3
    <3> HIDE DEF status
    <3>3. GoodTab([tabs[c.tab] EXCEPT !.status = status])
      BY <1>2, <3>1, StatusSet
    <3>4. QED
      BY <3>2, <3>3
  <2>4. QED
    BY <2>1, <2>2, <2>3 DEF SessionArrives
<1>5. TabsOK' /\ WireOK' /\ BffOK' /\ CookiesOK' /\ OpenTabs' = OpenTabs
  BY <1>4, AnswerReceived
<1>6. QED
  BY <1>3, <1>5 DEF SessionInv

LEMMA OtherArrivesStep ==
    ASSUME SessionInv, NEW c, LoginArrives(c) \/ LogoutArrives(c) \/ PageCallArrives(c)
    PROVE  SessionInv'
<1>1. PICK next, sends : Receive(c, next, sends)
  BY DEF LoginArrives, LogoutArrives, PageCallArrives
<1>2. /\ c \in CallState /\ CallHonest(c) /\ c.tab \in OpenTabs /\ GoodTab(tabs[c.tab])
      /\ GoodTab(Cleared(c.tab))
  BY <1>1, ReceiveTyped, ClearedOK DEF SessionInv
<1>3. \E state : GoodTab(state) /\ Receive(c, state, {})
  <2>1. CASE LoginArrives(c)
    BY <1>2, <2>1, SignedInOK DEF LoginArrives, SessionInv
  <2>2. CASE LogoutArrives(c)
    BY <1>2, <2>2 DEF LogoutArrives
  <2>3. CASE PageCallArrives(c)
    BY <1>2, <2>3 DEF PageCallArrives
  <2>4. QED
    BY <2>1, <2>2, <2>3
<1>4. TabsOK' /\ WireOK' /\ BffOK' /\ CookiesOK' /\ OpenTabs' = OpenTabs
  BY <1>3, AnswerReceived
<1>5. news' \subseteq OpenTabs
  BY DEF LoginArrives, LogoutArrives, PageCallArrives, SessionInv
<1>6. QED
  BY <1>4, <1>5 DEF SessionInv

LEMMA HearLogoutStep ==
    ASSUME SessionInv, NEW t \in OpenTabs, HearLogout(t)
    PROVE  SessionInv'
<1>1. GoodTab(Cleared(t))
  BY ClearedOK DEF SessionInv
<1>2. tabs' = [tabs EXCEPT ![t] = Cleared(t)] /\ OpenTabs' = OpenTabs
  BY DEF HearLogout, OpenTabs
<1>3. TabsOK'
  BY <1>1, <1>2 DEF SessionInv, TabsOK, OpenTabs
<1>4. \A d \in Unmounted(wire, t, "anonymous") : GoodCall(d)
  BY CallsUnmounted DEF SessionInv, WireOK
<1>5. WireOK'
  BY <1>2, <1>4 DEF HearLogout, WireOK, GoodCall
<1>6. QED
  BY <1>2, <1>3, <1>5 DEF HearLogout, SessionInv, BffOK, CookiesOK

\* A tab sends its own token.
LEMMA SendsStep ==
    ASSUME SessionInv, NEW t \in OpenTabs, NEW kind \in BffCallKind, Sends(t, kind),
           kind \in {"write", "logout"} => tabs[t].status = "authenticated"
    PROVE  SessionInv'
<1> DEFINE token == IF kind \in {"login", "logout", "write"} THEN tabs[t].token ELSE None
<1>1. tabs[t] \in TabState /\ TabHonest(tabs[t])
  BY DEF SessionInv, TabsOK, GoodTab
<1>2. token \in CsrfToken \cup {None}
  BY <1>1 DEF TabState
<1>3. kind \in {"write", "logout"} => OwnToken(token, tabs[t].shown)
  BY <1>1 DEF TabHonest
<1>4. wire' = wire \cup {BffCall(t, kind, token, cookies)} /\ UNCHANGED tabs
  BY DEF Sends, SendCall
<1> HIDE DEF token
<1>5. GoodCall(BffCall(t, kind, token, cookies))
  BY <1>2, <1>3, CallSent DEF SessionInv, CookiesOK
<1>6. WireOK'
  BY <1>4, <1>5 DEF SessionInv, WireOK, GoodCall, OpenTabs
<1>7. QED
  BY <1>6, BffStep DEF Sends, SessionInv, BffOK

LEMMA ReloadStep ==
    ASSUME SessionInv, NEW t \in OpenTabs, Reload(t)
    PROVE  SessionInv'
<1>1. GoodTab(Opened)
  BY DEF Opened, GoodTab, TabState, TabHonest, AuthStatus
<1>2. tabs' = [tabs EXCEPT ![t] = Opened] /\ OpenTabs' = OpenTabs
  BY DEF Reload, OpenTabs
<1>3. TabsOK'
  BY <1>1, <1>2 DEF SessionInv, TabsOK, OpenTabs
<1>4. GoodCall(BffCall(t, "init", None, cookies))
  BY CallSent DEF SessionInv, CookiesOK, BffCallKind, BootstrapKind
<1>5. WireOK'
  BY <1>2, <1>4 DEF Reload, SessionInv, WireOK, GoodCall
<1>6. QED
  BY <1>2, <1>3, <1>5 DEF Reload, SessionInv, BffOK, CookiesOK

LEMMA SessionStep == SessionInv /\ [SessionNext]_sessionVars => SessionInv'
<1> SUFFICES ASSUME SessionInv, [SessionNext]_sessionVars PROVE SessionInv'
  OBVIOUS
<1>1. ASSUME NEW c \in wire,
             \/ Refused(c) \/ Bootstraps(c) \/ LogsIn(c) \/ TellsSession(c)
             \/ LogsOut(c) \/ Proxies(c)
      PROVE  SessionInv'
  BY <1>1, RefusedStep, BootstrapsStep, LogsInStep, TellsSessionStep, LogsOutStep, ProxiesStep
<1>2. ASSUME NEW c \in wire,
             \/ BootstrapArrives(c) \/ SessionArrives(c) \/ LoginArrives(c)
             \/ LogoutArrives(c) \/ PageCallArrives(c)
      PROVE  SessionInv'
  BY <1>2, BootstrapArrivesStep, SessionArrivesStep, OtherArrivesStep
<1>3. ASSUME NEW t \in OpenTabs, HearLogout(t) \/ Reload(t) PROVE SessionInv'
  BY <1>3, HearLogoutStep, ReloadStep
<1>4. ASSUME NEW t \in OpenTabs,
             \/ SubmitLogin(t) \/ RetryBootstrap(t) \/ RefreshSession(t)
             \/ Logout(t) \/ PageCall(t)
      PROVE  SessionInv'
  <2>1. PICK kind \in BffCallKind :
           /\ Sends(t, kind)
           /\ kind \in {"write", "logout"} => tabs[t].status = "authenticated"
    BY <1>4 DEF SubmitLogin, RetryBootstrap, RefreshSession, Logout, PageCall,
                BffCallKind, BootstrapKind
  <2>2. QED
    BY <2>1, SendsStep
<1>5. ASSUME NEW s, EndsSession(s) \/ EndsPrelogin(s) PROVE SessionInv'
  BY <1>5, EndsStep
<1>6. CASE UNCHANGED sessionVars
  BY <1>6 DEF sessionVars, SessionInv, TabsOK, WireOK, GoodCall, BffOK, CookiesOK, OpenTabs
<1>7. QED
  BY <1>1, <1>2, <1>3, <1>4, <1>5, <1>6 DEF SessionNext

LEMMA SessionInvariant == Spec => []SessionInv
<1>1. Init => SessionInv
  BY SessionInitially DEF Init
<1>2. SessionInv /\ [Next]_browserVars => SessionInv'
  BY SessionStep DEF Next, browserVars
<1>3. QED
  BY <1>1, <1>2, PTL DEF Spec

\* The tabs, the calls, the cookies and the BFF's tables are of their types.
THEOREM SessionTyped == Spec => []SessionTypeOK
<1>1. ASSUME SessionInv PROVE SessionTypeOK
  <2>1. tabs \in [OpenTabs -> TabState] /\ OpenTabs \subseteq Tab
    BY <1>1 DEF SessionInv, TabsOK, GoodTab
  <2>2. wire \subseteq CallState
    BY <1>1 DEF SessionInv, WireOK, GoodCall
  <2>3. QED
    BY <1>1, <2>1, <2>2 DEF SessionInv, SessionTypeOK, BffOK, CookiesOK, TabState, CallState
<1>2. QED
  BY <1>1, SessionInvariant, PTL

\* A write or a logout that is carried out acts for the session its tab showed
\* when it was sent, whichever session the shared cookie holds by then.
THEOREM WritesAsShown == Spec => []WritesActAsShown
<1>1. SessionInv => WritesActAsShown
  BY DEF SessionInv, WireOK, GoodCall, CallHonest, WritesActAsShown
<1>2. QED
  BY <1>1, SessionInvariant, PTL

\* A tab that shows somebody as signed in can write, in whatever order the
\* answers of bootstrap, session and login came (AuthProvider.tsx).
THEOREM SignedInWrites == Spec => []SignedInCanWrite
<1>1. SessionInv => SignedInCanWrite
  BY DEF SessionInv, TabsOK, GoodTab, TabHonest, SignedInCanWrite
<1>2. QED
  BY <1>1, SessionInvariant, PTL

-----------------------------------------------------------------------------
(* Types of the whole tab.                                                 *)

\* The invariant of the editing pages types what they keep; `conflict` alone
\* is in none of its parts.
LEMMA EditingTyped == EditInv /\ conflict \in BOOLEAN => EditingTypeOK
<1> SUFFICES ASSUME EditInv, conflict \in BOOLEAN PROVE EditingTypeOK
  OBVIOUS
<1>1. server \in [Res -> Version \union {Gone}] /\ cache \in [Res -> Version \union {None}]
  BY DEF EditInv, BaseInv, ServerOK, CacheOK
<1>2. open \in Res \union {None}
  BY DEF EditInv, BaseInv, ReadingOK
<1>3. reading = None \/ reading \in [id : Res, found : Version \union {Gone}]
  BY <1>2 DEF EditInv, BaseInv, ReadingOK
<1>4. draft = None \/ draft \in Draft
  BY DEF EditInv, DraftOK, FormOK
<1>5. request = None \/ request \in Request
  BY DEF EditInv, BaseInv, RequestOK
<1>6. QED
  BY <1>1, <1>2, <1>3, <1>4, <1>5 DEF EditingTypeOK

LEMMA ConflictStep ==
    conflict \in BOOLEAN /\ [Next]_browserVars => conflict' \in BOOLEAN
<1> SUFFICES ASSUME conflict \in BOOLEAN, EditingNext PROVE conflict' \in BOOLEAN
  BY DEF Next, browserVars, editVars
<1> USE DEF Refetch, Land, Told, Mount, Unmount, SwitchRow, SessionEnds, Answer, OtherAdmin
<1>1. CASE ChannelNext
  BY <1>1 DEF ChannelNext, OpenChannel, EditChannel, ToggleEnabled, ToggleRow, CloseChannel,
     StartEdit, CancelEdit, SubmitEdit, AdoptRevision, ReloadChannel, RemoveChannel,
     RunAction, ChannelSaved, ChannelRemoved, ChannelConflict, ChannelAnswered
<1>2. CASE CompatibilityNext
  BY <1>2 DEF CompatibilityNext, LoadSection, PatchFeature, LandSection, FillFromCache,
     SubmitSection, AdoptLatest, ReloadSection, SectionSaved, SectionRefused, SectionGone
<1>3. CASE AccountNext
  BY <1>3 DEF AccountNext, OpenAccount, EditAccount, ToggleAccount, CloseAccount, LandAccount,
     SaveAccount, RemoveAccount, RunAccountAction, AccountAnswered, AccountRemoved,
     AccountConflict
<1>4. CASE SettingsNext
  BY <1>4 DEF SettingsNext, OpenSettings, EditSettings, LandAccount, SaveSettings, SaveAccount,
     SettingsAnswered, AccountAnswered, SettingsConflict, AccountConflict
<1>5. CASE KeyNext
  BY <1>5 DEF KeyNext, OpenKey, EditKey, SwitchKey, CloseKey, LandKey, SaveKey, RemoveKey,
     KeySaved, KeyRemoved, KeyAnswered
<1>6. QED
  BY <1>1, <1>2, <1>3, <1>4, <1>5 DEF EditingNext

LEMMA ScreenKept == Spec => [](screen \in Screen /\ conflict \in BOOLEAN)
<1>1. Init => screen \in Screen /\ conflict \in BOOLEAN
  BY DEF Init, EditingInit
<1>2. screen \in Screen /\ conflict \in BOOLEAN /\ [Next]_browserVars
        => (screen \in Screen /\ conflict \in BOOLEAN)'
  BY ConflictStep DEF Next, browserVars
<1>3. QED
  BY <1>1, <1>2, PTL DEF Spec

\* Every component of the tab keeps its type: what a page caches, fills its form
\* from, edits and sends is a version of one of its resources, a form of one, or
\* nothing at all, whatever was deleted or lost meanwhile (api/hooks.ts).
THEOREM BrowserTyped == Spec => []BrowserTypeOK
<1>1. PagesInv => ListTypeOK /\ ImportTypeOK /\ DialogsTypeOK /\ CreationTypeOK /\ LogTypeOK
  BY DEF PagesInv, ListInv, ImportInv, DialogsInv, CreationInv, LogInv
<1>2. ASSUME PagesInv, EditInv, SessionTypeOK, screen \in Screen /\ conflict \in BOOLEAN
      PROVE  BrowserTypeOK
  BY <1>1, <1>2, EditingTyped DEF BrowserTypeOK
<1>3. QED
  BY <1>2, PagesInvariant, EditInvariant, SessionTyped, ScreenKept, PTL
=============================================================================
