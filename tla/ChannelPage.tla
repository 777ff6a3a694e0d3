----------------------------- MODULE ChannelPage -----------------------------
(***************************************************************************)
(* The channel drawer (ChannelDetailDrawer.tsx) over the list that opens   *)
(* it (ChannelsPage.tsx).  The form is a snapshot: it is filled when the   *)
(* operator presses edit, keeps the revision it was filled from, and a 409 *)
(* leaves it alone until the operator takes the newest revision over.      *)
(***************************************************************************)
EXTENDS RevisionEditing

\* busy: one mutation of this drawer at a time.
Busy == Pending /\ request.mounted

ChannelShown == Shown # None

\* The body is the difference to the baseline, so untouched fields are left
\* to the server; buildChannelPatch.
HasChanges == draft.edited # {}

-----------------------------------------------------------------------------
\* A click on a row of the list.
OpenChannel(r) == Mount(r) /\ UNCHANGED draft

\* The drawer is mounted per channel: closing it drops the form.
CloseChannel == Unmount

\* The switch of a row uses the revision the row was read with.
ToggleRow(r, f) == SwitchRow(r, f)

StartEdit ==
    /\ ChannelShown /\ draft = None /\ ~Busy
    /\ draft' = Fresh(open, Shown)
    /\ conflict' = FALSE
    /\ UNCHANGED <<server, cache, reading, open, request>>

\* The inputs are disabled while the save is pending.
EditChannel(f) ==
    /\ draft # None /\ ~(Busy /\ request.kind \in {"save", "switch"})
    /\ draft' = [draft EXCEPT !.edited = @ \union {f}]
    /\ UNCHANGED <<server, cache, reading, open, conflict, request>>

CancelEdit ==
    /\ draft # None /\ ~(Busy /\ request.kind \in {"save", "switch"})
    /\ draft' = None /\ conflict' = FALSE
    /\ UNCHANGED <<server, cache, reading, open, request>>

\* Slip: the revision read last instead of the one the form was filled from.
SubmitEditNewest ==
    /\ draft # None /\ ~Pending /\ HasChanges /\ ChannelShown
    /\ conflict' = FALSE
    /\ Send("save", [draft EXCEPT !.rev = Shown.rev], FALSE)
    /\ UNCHANGED <<server, cache, reading, open, draft>>

SubmitEdit ==
    /\ draft # None /\ ~Pending /\ HasChanges
    /\ conflict' = FALSE
    /\ Send("save", draft, FALSE)
    /\ UNCHANGED <<server, cache, reading, open, draft>>

\* The notice's own button reads again and goes; the form keeps its revision.
ReloadChannel ==
    /\ draft # None /\ conflict /\ conflict' = FALSE
    /\ UNCHANGED <<server, cache, open, draft, request>>
    /\ Fetch(open)

\* The form's old baseline stays: only its revision is taken over.
AdoptRevision ==
    /\ draft # None /\ conflict /\ ChannelShown
    /\ draft' = [draft EXCEPT !.rev = Shown.rev, !.adopted = TRUE]
    /\ conflict' = FALSE
    /\ UNCHANGED <<server, cache, reading, open, request>>

\* The switch of the drawer: a patch of one field against what is shown.
ToggleEnabled(f) ==
    /\ ChannelShown /\ ~Pending
    /\ Send("switch", [Fresh(open, Shown) EXCEPT !.edited = {f}], FALSE)
    /\ UNCHANGED <<server, cache, reading, open, draft, conflict>>

RemoveChannel ==
    /\ ChannelShown /\ ~Pending
    /\ Send("delete", Fresh(open, Shown), FALSE)
    /\ UNCHANGED <<server, cache, reading, open, draft, conflict>>

\* Probe, discovery, usage refresh and the two clean-ups.
RunAction ==
    /\ ChannelShown /\ ~Pending
    /\ Send("action", Fresh(open, Shown), FALSE)
    /\ UNCHANGED <<server, cache, reading, open, draft, conflict>>

-----------------------------------------------------------------------------
(* The continuations of the mutations.                                     *)

\* The form is closed by a saved answer only.
ChannelSaved ==
    /\ Resumes("done") /\ request.kind # "delete"
    /\ draft' = IF request.kind = "save" /\ request.mounted THEN None ELSE draft
    /\ request' = None
    /\ UNCHANGED <<server, cache, reading, open, conflict>>

\* onDeleted closes the drawer, whichever channel it shows by now.
ChannelRemoved ==
    /\ Resumes("done") /\ request.kind = "delete"
    /\ open' = None /\ reading' = None /\ draft' = None /\ conflict' = FALSE
    /\ request' = None
    /\ UNCHANGED <<server, cache>>

\* A 409 is shown and the channel read again; the form stays as it is.
ChannelConflict ==
    /\ Resumes("conflict")
    /\ request' = None
    /\ conflict' = IF request.mounted /\ request.kind = "save" THEN TRUE ELSE conflict
    /\ UNCHANGED <<server, cache, open, draft>>
    /\ IF request.mounted THEN Fetch(open) ELSE UNCHANGED reading

\* A 202 is tracked and any other error shown.
ChannelAnswered == (Resumes("failed") \/ Resumes("accepted")) /\ Told

-----------------------------------------------------------------------------
ChannelNext ==
    \/ \E r \in Res : OpenChannel(r)
    \/ \E f \in Field : EditChannel(f) \/ ToggleEnabled(f)
    \/ \E r \in Res, f \in Field : ToggleRow(r, f)
    \/ CloseChannel \/ StartEdit \/ CancelEdit \/ SubmitEdit \/ AdoptRevision
    \/ ReloadChannel
    \/ RemoveChannel \/ RunAction
    \/ ChannelSaved \/ ChannelRemoved \/ ChannelConflict \/ ChannelAnswered
    \/ Refetch \/ (Land /\ UNCHANGED draft) \/ Answer \/ SessionEnds \/ OtherAdmin
=============================================================================
