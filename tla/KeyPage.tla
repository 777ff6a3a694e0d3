------------------------------- MODULE KeyPage -------------------------------
(***************************************************************************)
(* The API key drawer (ApiKeysPage.tsx).  One form serves every key: an    *)
(* effect fills it when the data of a key appears in the drawer, not when  *)
(* it changes there; what was edited is sent against the revision that was *)
(* read last, and the answer of a save fills the form of whichever key is  *)
(* shown by then.                                                          *)
(***************************************************************************)
EXTENDS RevisionEditing

\* The effect on [detailData?.keyId]: `seen` is what the drawer showed before
\* a read landed and `now` what it shows after it.
Filled(seen, now) ==
    IF open # None /\ seen = None /\ now # None THEN Fresh(open, now) ELSE draft

-----------------------------------------------------------------------------
\* The name or the details button of a row; cached data fills the form at once.
OpenKey(r) ==
    /\ Mount(r)
    /\ draft' = IF cache[r] = None THEN None ELSE Fresh(r, cache[r])

\* The mutations belong to the page and go on as before.
CloseKey ==
    /\ open # None
    /\ open' = None /\ reading' = None /\ draft' = None
    /\ UNCHANGED <<server, cache, conflict, request>>

SwitchKey(r, f) == SwitchRow(r, f)

LandKey == Land /\ draft' = Filled(Shown, IF open = None THEN None ELSE cache'[open])

\* A control leaves "unchanged"; the form can be edited while it is saved.
EditKey(f) ==
    /\ Shown # None /\ draft # None
    /\ draft' = [draft EXCEPT !.edited = @ \union {f}]
    /\ UNCHANGED <<server, cache, reading, open, conflict, request>>

\* handleSave: the fields that are not "unchanged", for the key that is shown.
SaveKey ==
    /\ Shown # None /\ draft # None /\ draft.edited # {} /\ ~Pending
    /\ Send("update", [draft EXCEPT !.id = open, !.rev = Shown.rev], FALSE)
    /\ UNCHANGED <<server, cache, reading, open, draft, conflict>>

RemoveKey ==
    /\ Shown # None /\ ~Pending
    /\ Send("delete", Fresh(open, Shown), FALSE)
    /\ UNCHANGED <<server, cache, reading, open, draft, conflict>>

KeySaved ==
    /\ Resumes("done") /\ request.kind = "update"
    /\ draft' = IF open = None THEN None ELSE Fresh(request.form.id, request.answer)
    /\ request' = None
    /\ UNCHANGED <<server, cache, reading, open, conflict>>

\* handleRemove compares with the key that was selected when it was called,
\* so the drawer closes whichever key it shows.
KeyRemoved ==
    /\ Resumes("done") /\ request.kind = "delete"
    /\ open' = None /\ reading' = None /\ draft' = None /\ request' = None
    /\ UNCHANGED <<server, cache, conflict>>

\* A 202 is tracked; a 409 and other errors are shown and the draft stays.
KeyAnswered ==
    /\ \/ \E p \in {"accepted", "conflict", "failed"} : Resumes(p)
       \/ Resumes("done") /\ request.kind = "switch"
    /\ Told

KeyNext ==
    \/ \E r \in Res : OpenKey(r)
    \/ \E f \in Field : EditKey(f)
    \/ \E r \in Res, f \in Field : SwitchKey(r, f)
    \/ CloseKey \/ LandKey \/ SaveKey \/ RemoveKey
    \/ KeySaved \/ KeyRemoved \/ KeyAnswered
    \/ Refetch \/ Answer \/ SessionEnds \/ OtherAdmin
=============================================================================
