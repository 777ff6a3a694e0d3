--------------------------- MODULE ChannelCreation ---------------------------
(***************************************************************************)
(* The dialog that creates a channel (CreateChannelModal.tsx) on the       *)
(* channel page.  Its component stays mounted while the dialog is closed,  *)
(* so the API key that was typed into it has to be dropped explicitly,     *)
(* and a call goes on when the dialog is closed over it.  The copy of the  *)
(* key in the variables of a call's mutation is the query client's, which  *)
(* no module models.                                                       *)
(***************************************************************************)
EXTENDS Page

CONSTANT MaxCreations  \* bound of the model: how many calls the dialog makes

ASSUME CreationAssumption == MaxCreations \in Nat

VARIABLES modal,    \* createOpen of the page
          apiKey,   \* the dialog holds an API key
          sending,  \* the call under way: "create", "draft" or None
          active,   \* activeChannelId: the drawer of a new or another channel
          sent      \* how many calls were made

creationVars == <<modal, apiKey, sending, active, sent>>

CreationInit ==
    modal = FALSE /\ apiKey = FALSE /\ sending = None /\ active = None /\ sent = 0

-----------------------------------------------------------------------------
ShowModal ==
    /\ ~modal /\ active = None /\ modal' = TRUE
    /\ UNCHANGED <<apiKey, sending, active, sent>>

\* The fields are disabled while a call is under way.
TypeApiKey ==
    /\ modal /\ sending = None
    /\ apiKey' \in BOOLEAN
    /\ UNCHANGED <<modal, sending, active, sent>>

\* Validation lets no call without an API key out, neither the creation nor
\* the probe and the discovery of the draft.
SendCreation(what) ==
    /\ modal /\ sending = None /\ apiKey /\ sent < MaxCreations
    /\ sending' = what /\ sent' = sent + 1
    /\ UNCHANGED <<modal, apiKey, active>>

\* Slip: the dialog closes as any other.
CloseModalKeeping ==
    /\ modal /\ modal' = FALSE
    /\ UNCHANGED <<apiKey, sending, active, sent>>

CloseModal ==
    /\ modal /\ modal' = FALSE /\ apiKey' = FALSE
    /\ UNCHANGED <<sending, active, sent>>

\* 201: the drawer of the new channel takes the place of whatever is shown
\* by then.  A 201 without data leaves the dialog as it is.
ChannelCreated ==
    /\ sending = "create" /\ sending' = None
    /\ apiKey' = FALSE
    /\ \/ modal' = FALSE /\ active' = "new"
       \/ UNCHANGED <<modal, active>>
    /\ UNCHANGED sent

\* A 202 is tracked, an error or the answer of a draft's call shown.
CreationTold ==
    /\ sending # None /\ sending' = None
    /\ UNCHANGED <<modal, apiKey, active, sent>>

\* The drawers that the list and the new channel open.
ShowOther ==
    /\ ~modal /\ active = None /\ active' = "other"
    /\ UNCHANGED <<modal, apiKey, sending, sent>>

LeaveDrawer ==
    /\ active # None /\ active' = None
    /\ UNCHANGED <<modal, apiKey, sending, sent>>

CreationNext ==
    \/ ShowModal \/ TypeApiKey \/ CloseModal
    \/ \E what \in {"create", "draft"} : SendCreation(what)
    \/ ChannelCreated \/ CreationTold \/ ShowOther \/ LeaveDrawer

-----------------------------------------------------------------------------
CreationTypeOK ==
    /\ modal \in BOOLEAN /\ apiKey \in BOOLEAN
    /\ sending \in {"create", "draft", None} /\ active \in {"new", "other", None}
    /\ sent \in 0..MaxCreations
=============================================================================
