------------------------ MODULE CompatibilitySection ------------------------
(***************************************************************************)
(* The compatibility section of the channel drawer                         *)
(* (ChannelCompatibilitySection.tsx), mounted per channel: a form that is  *)
(* filled by the first read only and saved as a whole, with the revision   *)
(* of its baseline until the operator takes a newer one over.              *)
(***************************************************************************)
EXTENDS RevisionEditing

\* The button that reads the section; it is not read before, nor polled.
LoadSection(r) == Mount(r) /\ UNCHANGED draft

\* Slip: every read fills the form.
FirstFillAlways(seen) == IF open # None /\ seen # None THEN Fresh(open, seen) ELSE draft

\* The effect on [data, draft] fills an empty form only.
FirstFill(seen) ==
    IF open # None /\ seen # None /\ draft = None THEN Fresh(open, seen) ELSE draft

LandSection == Land /\ draft' = FirstFill(cache'[open])

\* The data may have been in the cache when the section was mounted.
FillFromCache == 
    /\ open # None /\ Shown # None /\ draft = None
    /\ draft' = FirstFill(Shown)
    /\ UNCHANGED <<server, cache, reading, open, conflict, request>>

\* The selects stay enabled while a save is pending.
PatchFeature(f) ==
    /\ draft # None
    /\ draft' = [draft EXCEPT !.edited = @ \union {f}]
    /\ UNCHANGED <<server, cache, reading, open, conflict, request>>

SubmitSection ==
    /\ draft # None /\ ~Pending
    /\ conflict' = FALSE
    /\ Send("save", draft, TRUE)
    /\ UNCHANGED <<server, cache, reading, open, draft>>

\* Offered whenever a newer revision was read; fields the operator left
\* alone keep the value of the old read.
AdoptLatest ==
    /\ draft # None /\ Shown.rev # draft.rev
    /\ draft' = [draft EXCEPT !.rev = Shown.rev, !.adopted = TRUE]
    /\ conflict' = FALSE
    /\ UNCHANGED <<server, cache, reading, open, request>>

\* The notice of a conflict reads again and goes.
ReloadSection ==
    /\ conflict /\ conflict' = FALSE
    /\ UNCHANGED <<server, cache, open, draft, request>>
    /\ Fetch(open)

\* The answer becomes the form, with what was selected meanwhile gone.
SectionSaved ==
    /\ Resumes("done") /\ request.mounted
    /\ draft' = Fresh(request.form.id, request.answer)
    /\ request' = None
    /\ UNCHANGED <<server, cache, reading, open, conflict>>

SectionRefused ==
    /\ Pending /\ request.mounted
    /\ Resumes("conflict") \/ Resumes("failed")
    /\ request' = None
    /\ UNCHANGED <<server, cache, open, draft>>
    /\ IF request.phase = "conflict" THEN conflict' = TRUE /\ Fetch(open)
       ELSE UNCHANGED <<conflict, reading>>

\* The drawer was closed: nobody takes the answer.
SectionGone == Pending /\ ~request.mounted /\ Told

CompatibilityNext ==
    \/ \E r \in Res : LoadSection(r)
    \/ \E f \in Field : PatchFeature(f)
    \/ LandSection \/ FillFromCache \/ SubmitSection \/ AdoptLatest
    \/ ReloadSection
    \/ SectionSaved \/ SectionRefused \/ SectionGone \/ Unmount
    \/ Refetch \/ Answer \/ SessionEnds \/ OtherAdmin
=============================================================================
