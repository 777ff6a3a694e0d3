---------------------------- MODULE ListSelection ----------------------------
(***************************************************************************)
(* Batch changes of the model page (ModelsPage.tsx): the operator ticks    *)
(* rows of the page that is shown, or confirms that a change goes to every *)
(* result of the filter, and submits it against the revision of the list   *)
(* that was read last, while the list is polled and others write.  The     *)
(* server's rows are left open: a read may bring any.  The models of an    *)
(* account (AccountModelsSection.tsx) are a list of the same kind, which   *)
(* has neither filters nor the confirmation.                               *)
(***************************************************************************)
EXTENDS Page

CONSTANTS Model,    \* models
          View,     \* what a list can show: pages of the results of a filter
          First,    \* the view a page starts with
          Filtered, \* the views with at least one filter condition
          MaxList   \* bound of the model: changes of the list at the server

ASSUME ListAssumption ==
    First \in View /\ Filtered \subseteq View /\ None \notin View /\ MaxList \in Nat

VARIABLES listRev,   \* the revision of the list at the server
          view,      \* the page and the filters that are set
          list,      \* the data of the list query of this view, or None
          listing,   \* its read under way, or None
          selected,  \* selectedIds, each with the view it was ticked in
          mode,      \* selectionMode
          confirmed, \* filterConfirmed: the view it was ticked in, or None
          batch,     \* batchMutation under way, or None
          single     \* singleMutation under way: the revision it sent, or None

listVars == <<listRev, view, list, listing, selected, mode, confirmed, batch, single>>

Listing == [rev : 0..MaxList, rows : SUBSET Model]
Ticks == SUBSET [model : Model, view : View]
Batch == [kind : {"ids", "filter"}, chosen : Ticks,
          filter : View \union {None}, view : View, rev : 0..MaxList,
          phase : {"sent", "done", "accepted", "failed"}]

ListInit ==
    /\ listRev = 0 /\ view = First /\ list = None /\ listing = None
    /\ selected = {} /\ mode = "ids" /\ confirmed = None
    /\ batch = None /\ single = None

-----------------------------------------------------------------------------
(* The list and the choice.                                                *)

\* A poll, a focus of the window, the buttons, or data that is not there yet.
ReadList ==
    /\ \E R \in SUBSET Model : listing' = [rev |-> listRev, rows |-> R]
    /\ UNCHANGED <<listRev, view, list, selected, mode, confirmed, batch, single>>

\* The answer replaces the rows, a lost one does not; ticks of rows that are
\* gone stay until the next tick.
ListRead ==
    /\ listing # None /\ listing' = None
    /\ list' = listing \/ UNCHANGED list
    /\ UNCHANGED <<listRev, view, selected, mode, confirmed, batch, single>>

\* Slip: another page keeps the ticks of the one before.
ShowViewKeeping(v) ==
    /\ v # view /\ view' = v /\ list' = None /\ listing' = None
    /\ confirmed' = None
    /\ UNCHANGED <<listRev, selected, mode, batch, single>>

\* Another page or filter is another query, and an effect drops the choice.
ShowView(v) ==
    /\ v # view /\ view' = v /\ list' = None /\ listing' = None
    /\ selected' = {} /\ confirmed' = None
    /\ UNCHANGED <<listRev, mode, batch, single>>

\* The table gives the ticks as a whole: preserveSelectedRowKeys is off, so
\* those of rows it no longer shows are left out.
Tick(M) ==
    /\ list # None /\ M \subseteq list.rows
    /\ selected' = {[model |-> m, view |-> view] : m \in M}
    /\ UNCHANGED <<listRev, view, list, listing, mode, confirmed, batch, single>>

SetMode(m) ==
    /\ mode # m /\ mode' = m /\ confirmed' = None
    /\ UNCHANGED <<listRev, view, list, listing, selected, batch, single>>

Confirm ==
    /\ mode = "filter"
    /\ confirmed' = IF confirmed = None THEN view ELSE None
    /\ UNCHANGED <<listRev, view, list, listing, selected, mode, batch, single>>

-----------------------------------------------------------------------------
(* The mutations.                                                          *)

\* buildSelection: without a choice nothing is sent, and without any filter
\* condition not everything is.
HasSelection ==
    IF mode = "ids" THEN selected # {} ELSE view \in Filtered /\ confirmed # None

SendBatch(kind, chosen, filter) ==
    /\ batch = None /\ list # None
    /\ batch' = [kind |-> kind, chosen |-> chosen, filter |-> filter,
                 view |-> view, rev |-> list.rev, phase |-> "sent"]
    /\ UNCHANGED <<listRev, view, list, listing, selected, mode, confirmed, single>>

\* handleBatchSubmit, against the revision of the list.
SubmitBatch ==
    /\ HasSelection
    /\ IF mode = "ids" THEN SendBatch("ids", selected, None)
       ELSE SendBatch("filter", {}, confirmed)

\* The server carries it out if nothing has changed, takes it as an
\* operation, or refuses it; onSuccess reads the list again.
BatchAnswered ==
    /\ batch # None /\ batch.phase = "sent"
    /\ \/ /\ batch.rev = listRev /\ listRev < MaxList
          /\ listRev' = listRev + 1
          /\ \E p \in {"done", "failed"} : batch' = [batch EXCEPT !.phase = p]
       \/ /\ UNCHANGED listRev
          /\ \E p \in {"accepted", "failed"} : batch' = [batch EXCEPT !.phase = p]
    /\ UNCHANGED <<view, list, listing, selected, mode, confirmed, single>>

\* After a 200 the ticks are dropped, those made meanwhile as well; after a
\* 202, a 409 or another error they stay.
BatchTold ==
    /\ batch # None /\ batch.phase # "sent"
    /\ batch' = None
    /\ selected' = IF batch.phase = "done" THEN {} ELSE selected
    /\ UNCHANGED <<listRev, view, list, listing, mode, confirmed, single>>

\* A button of the drawer or of a row changes one model, whatever is ticked
\* and whether a batch is under way, against the revision its data came with.
SubmitSingle ==
    /\ single = None
    /\ single' \in 0..listRev
    /\ UNCHANGED <<listRev, view, list, listing, selected, mode, confirmed, batch>>

\* Carried out, refused, accepted or lost; the ticks stay.
SingleAnswered ==
    /\ single # None /\ single' = None
    /\ \/ single = listRev /\ listRev < MaxList /\ listRev' = listRev + 1
       \/ UNCHANGED listRev
    /\ UNCHANGED <<view, list, listing, selected, mode, confirmed, batch>>

ListChanges ==
    /\ listRev < MaxList /\ listRev' = listRev + 1
    /\ UNCHANGED <<view, list, listing, selected, mode, confirmed, batch, single>>

ListNext ==
    \/ \E v \in View : ShowView(v)
    \/ \E M \in SUBSET Model : Tick(M)
    \/ \E m \in {"ids", "filter"} : SetMode(m)
    \/ ReadList \/ ListRead \/ Confirm
    \/ SubmitBatch \/ BatchAnswered \/ BatchTold
    \/ SubmitSingle \/ SingleAnswered \/ ListChanges

-----------------------------------------------------------------------------
ListTypeOK ==
    /\ listRev \in 0..MaxList /\ view \in View
    /\ list \in Listing \union {None} /\ listing \in Listing \union {None}
    /\ selected \in Ticks /\ mode \in {"ids", "filter"}
    /\ confirmed \in View \union {None} /\ batch \in Batch \union {None}
    /\ single \in 0..MaxList \union {None}

\* A batch says what the operator chose in the view it was sent from: rows
\* ticked there, or the filter confirmed there (the effect of ModelsPage.tsx
\* that drops the choice with the view, and the reset on a change of mode).
BatchAsChosen ==
    batch # None =>
        /\ \A t \in batch.chosen : t.view = batch.view
        /\ batch.kind = "filter" => batch.filter = batch.view /\ batch.view \in Filtered
=============================================================================
