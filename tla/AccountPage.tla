----------------------------- MODULE AccountPage -----------------------------
(***************************************************************************)
(* The account drawer (AccountDetailDrawer.tsx) over the list of accounts  *)
(* (AccountsPage.tsx), and the settings panel (OAuthSettingsPanel.tsx).    *)
(* Their forms follow the server: an effect fills them again whenever the  *)
(* data has another revision than the one they were filled from, and they  *)
(* are saved whole against the revision that is shown.                     *)
(***************************************************************************)
EXTENDS RevisionEditing

\* The effect keyed by account and revision; the drawer is not mounted anew,
\* so edits of the same account and revision outlive its closing.
Reseeded(r, v) ==
    IF r = None \/ v = None THEN draft
    ELSE IF draft # None /\ draft.id = r /\ draft.base.rev = v.rev THEN draft
    ELSE Fresh(r, v)

-----------------------------------------------------------------------------
OpenAccount(r) == Mount(r) /\ draft' = Reseeded(r, cache[r])

CloseAccount ==
    /\ open # None
    /\ open' = None /\ reading' = None /\ conflict' = FALSE
    /\ UNCHANGED <<server, cache, draft, request>>

ToggleAccount(r, f) == SwitchRow(r, f)

LandAccount == Land /\ draft' = Reseeded(open, IF open = None THEN None ELSE cache'[open])

\* The form is shown once there is data; its inputs are disabled by a save.
EditAccount(f) ==
    /\ Shown # None /\ ~(Pending /\ request.kind = "save")
    /\ draft' = [draft EXCEPT !.edited = @ \union {f}]
    /\ UNCHANGED <<server, cache, reading, open, conflict, request>>

SaveAccount ==
    /\ Shown # None /\ ~Pending
    /\ conflict' = FALSE
    /\ Send("save", [draft EXCEPT !.rev = Shown.rev], TRUE)
    /\ UNCHANGED <<server, cache, reading, open, draft>>

RemoveAccount ==
    /\ Shown # None /\ ~Pending
    /\ Send("delete", Fresh(open, Shown), FALSE)
    /\ UNCHANGED <<server, cache, reading, open, draft, conflict>>

\* Token and usage refresh and the two clean-ups.
RunAccountAction ==
    /\ Shown # None /\ ~Pending
    /\ conflict' = FALSE
    /\ Send("action", Fresh(open, Shown), FALSE)
    /\ UNCHANGED <<server, cache, reading, open, draft>>

\* A saved answer only says so: the refetch it caused has filled the form.
AccountAnswered ==
    /\ \/ Resumes("failed") \/ Resumes("accepted")
       \/ Resumes("done") /\ request.kind # "delete"
    /\ Told

\* onClose after a delete closes the drawer, whichever account it shows.
AccountRemoved ==
    /\ Resumes("done") /\ request.kind = "delete"
    /\ open' = None /\ reading' = None /\ conflict' = FALSE /\ request' = None
    /\ UNCHANGED <<server, cache, draft>>

\* A 409 is only shown; its button (onResolveConflict) reads again.
AccountConflict ==
    /\ Resumes("conflict")
    /\ conflict' = (open # None /\ request.kind # "switch")
    /\ request' = None
    /\ UNCHANGED <<server, cache, reading, open, draft>>

AccountNext ==
    \/ \E r \in Res : OpenAccount(r)
    \/ \E f \in Field : EditAccount(f)
    \/ \E r \in Res, f \in Field : ToggleAccount(r, f)
    \/ CloseAccount \/ LandAccount \/ SaveAccount \/ RemoveAccount
    \/ RunAccountAction
    \/ AccountAnswered \/ AccountRemoved \/ AccountConflict
    \/ Refetch \/ Answer \/ SessionEnds \/ OtherAdmin

-----------------------------------------------------------------------------
(* The settings tab: one resource, a form that can be edited while it is   *)
(* being saved, and a panel that is unmounted with its tab.                *)

OpenSettings(r) == Mount(r) /\ draft' = Reseeded(r, cache[r])

EditSettings(f) ==
    /\ Shown # None
    /\ draft' = [draft EXCEPT !.edited = @ \union {f}]
    /\ UNCHANGED <<server, cache, reading, open, conflict, request>>

SaveSettings == SaveAccount

SettingsAnswered == AccountAnswered \/ (Pending /\ ~request.mounted /\ Told)

SettingsConflict == Pending /\ request.mounted /\ AccountConflict

SettingsNext ==
    \/ \E r \in Res : OpenSettings(r)
    \/ \E f \in Field : EditSettings(f)
    \/ LandAccount \/ SaveSettings \/ SettingsAnswered
    \/ SettingsConflict
    \/ Unmount \/ Refetch \/ Answer \/ SessionEnds \/ OtherAdmin
=============================================================================
