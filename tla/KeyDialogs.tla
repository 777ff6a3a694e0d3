----------------------------- MODULE KeyDialogs -----------------------------
(***************************************************************************)
(* The dialogs of the API key page (ApiKeysPage.tsx) and the calls that    *)
(* are not edits: create a key, replace its secret, reset its limiter,     *)
(* make a replacement plan, remove it.  A dialog can be cancelled while    *)
(* its call is under way; the call goes on and its answer is applied to    *)
(* whatever the page shows when it comes.                                  *)
(***************************************************************************)
EXTENDS Page

CONSTANTS Key,       \* keys
          MaxCalls   \* bound of the model: how many calls are made

ASSUME DialogsAssumption == None \notin Key \cup {"create", "reset"} /\ MaxCalls \in Nat

VARIABLES shownKey,    \* selectedKeyId
          loaded,      \* detailData is there
          dialog,      \* createOpen, resetOpen
          createTyped, \* createForm holds a custom secret
          resetTyped,  \* resetForm: the key its dialog named when it was typed
          revealed,    \* the secret shown once: "created", "replaced"
          snapshot,    \* limiterSnapshot: the key it is of
          plan,        \* the key whose replacement plan is shown
          errors,      \* the mutations that hold an error
          calls,       \* calls under way
          made         \* how many calls were made

dialogVars == <<shownKey, loaded, dialog, createTyped, resetTyped, revealed,
                snapshot, plan, errors, calls, made>>

CallKind == {"create", "replace", "limiter", "plan", "remove"}

\* `watched` until reset() makes the mutation forget the call.
Call == [id : 1..MaxCalls, kind : CallKind, key : Key \union {None},
         typed : Key \union {None}, watched : BOOLEAN]

DialogsInit ==
    /\ shownKey = None /\ loaded = FALSE /\ dialog = None
    /\ createTyped = FALSE /\ resetTyped = None /\ revealed = None
    /\ snapshot = None /\ plan = None /\ errors = {} /\ calls = {} /\ made = 0

IsPending(kind) == \E c \in calls : c.kind = kind /\ c.watched

Forgotten(kinds) == {IF c.kind \in kinds THEN [c EXCEPT !.watched = FALSE] ELSE c : c \in calls}

\* The mask of a dialog covers the drawer and the list.
Clear == dialog = None /\ revealed = None

\* detailData is there and its controls can be reached.
InDrawer == Clear /\ shownKey # None /\ loaded

\* The newest call of a kind is the one its mutation watches.
Start(kind, key, typed) ==
    /\ made < MaxCalls /\ made' = made + 1
    /\ calls' = Forgotten({kind}) \union
                    {[id |-> made', kind |-> kind, key |-> key,
                      typed |-> typed, watched |-> TRUE]}
    /\ errors' = errors \ {kind}

-----------------------------------------------------------------------------
(* The drawer.                                                             *)

\* The effect on the key's identity drops both when its data appears.
ShowKey(k, ready) ==
    /\ Clear /\ shownKey = None
    /\ shownKey' = k /\ loaded' = ready
    /\ IF ready THEN snapshot' = None /\ plan' = None ELSE UNCHANGED <<snapshot, plan>>
    /\ UNCHANGED <<dialog, createTyped, resetTyped, revealed, errors, calls, made>>

KeyRead ==
    /\ shownKey # None /\ ~loaded
    /\ loaded' = TRUE /\ snapshot' = None /\ plan' = None
    /\ UNCHANGED <<shownKey, dialog, createTyped, resetTyped, revealed, errors, calls, made>>

HideKey ==
    /\ Clear /\ shownKey # None
    /\ shownKey' = None /\ loaded' = FALSE /\ snapshot' = None /\ plan' = None
    /\ UNCHANGED <<dialog, createTyped, resetTyped, revealed, errors, calls, made>>

\* Their buttons are off while a call of theirs is under way.
ResetLimiter ==
    /\ InDrawer /\ ~IsPending("limiter") /\ Start("limiter", shownKey, None)
    /\ snapshot' = None
    /\ UNCHANGED <<shownKey, loaded, dialog, createTyped, resetTyped, revealed, plan>>

\* An earlier plan stays until the answer.
MakePlan ==
    /\ InDrawer /\ ~IsPending("plan") /\ Start("plan", shownKey, None)
    /\ UNCHANGED <<shownKey, loaded, dialog, createTyped, resetTyped, revealed, snapshot, plan>>

Revoke ==
    /\ InDrawer /\ ~IsPending("remove") /\ Start("remove", shownKey, None)
    /\ UNCHANGED <<shownKey, loaded, dialog, createTyped, resetTyped, revealed, snapshot, plan>>

-----------------------------------------------------------------------------
(* The dialogs.                                                            *)

ShowCreate ==
    /\ Clear /\ shownKey = None
    /\ dialog' = "create"
    /\ UNCHANGED <<shownKey, loaded, createTyped, resetTyped, revealed, snapshot, plan, errors, calls, made>>

TypeCreate ==
    /\ dialog = "create" /\ revealed = None
    /\ createTyped' \in BOOLEAN
    /\ UNCHANGED <<shownKey, loaded, dialog, resetTyped, revealed, snapshot, plan, errors, calls, made>>

\* With a custom secret or with one the server makes.  The handler has no
\* guard: a call under way turns the button off, not the Enter of the form.
SubmitCreate ==
    /\ dialog = "create" /\ revealed = None
    /\ Start("create", None, None)
    /\ UNCHANGED <<shownKey, loaded, dialog, createTyped, resetTyped, revealed, snapshot, plan>>

\* The form keeps what was typed.
CancelCreate ==
    /\ dialog = "create" /\ revealed = None
    /\ dialog' = None /\ calls' = Forgotten({"create"}) /\ errors' = errors \ {"create"}
    /\ UNCHANGED <<shownKey, loaded, createTyped, resetTyped, revealed, snapshot, plan, made>>

ShowReset ==
    /\ InDrawer /\ dialog' = "reset"
    /\ UNCHANGED <<shownKey, loaded, createTyped, resetTyped, revealed, snapshot, plan, errors, calls, made>>

TypeSecret ==
    /\ dialog = "reset" /\ revealed = None
    /\ resetTyped' \in {shownKey, None}
    /\ UNCHANGED <<shownKey, loaded, dialog, createTyped, revealed, snapshot, plan, errors, calls, made>>

\* handleReplaceSecret returns at once when no key is shown; it has no other
\* guard either.
SubmitSecret ==
    /\ dialog = "reset" /\ revealed = None
    /\ resetTyped # None /\ shownKey # None /\ loaded
    /\ Start("replace", shownKey, resetTyped)
    /\ UNCHANGED <<shownKey, loaded, dialog, createTyped, resetTyped, revealed, snapshot, plan>>

\* Slip: the form keeps what was typed, as the create form does.
CancelResetKeeping ==
    /\ dialog = "reset" /\ revealed = None
    /\ dialog' = None /\ calls' = Forgotten({"replace"}) /\ errors' = errors \ {"replace"}
    /\ UNCHANGED <<shownKey, loaded, createTyped, resetTyped, revealed, snapshot, plan, made>>

CancelReset ==
    /\ dialog = "reset" /\ revealed = None
    /\ dialog' = None /\ resetTyped' = None
    /\ calls' = Forgotten({"replace"}) /\ errors' = errors \ {"replace"}
    /\ UNCHANGED <<shownKey, loaded, createTyped, revealed, snapshot, plan, made>>

\* The button of a 409 where its notice is shown: every mutation forgets.
ReloadAfterConflict ==
    /\ revealed = None
    /\ \/ dialog = "create" /\ "create" \in errors
       \/ dialog = "reset" /\ "replace" \in errors
       \/ InDrawer /\ errors \intersect {"limiter", "plan", "remove"} # {}
    /\ errors' = {} /\ calls' = Forgotten(CallKind)
    /\ UNCHANGED <<shownKey, loaded, dialog, createTyped, resetTyped, revealed, snapshot, plan, made>>

DismissSecret ==
    /\ revealed # None /\ revealed' = None
    /\ UNCHANGED <<shownKey, loaded, dialog, createTyped, resetTyped, snapshot, plan, errors, calls, made>>

-----------------------------------------------------------------------------
(* The answers, which the server gives in any order.                       *)

Ends(c) == calls' = calls \ {c} /\ made' = made

\* A 202 closes the dialog, whoever opened it; a 200 shows the secret.
Created(c) ==
    /\ c.kind = "create" /\ Ends(c)
    /\ revealed' \in {revealed, "created"}
    /\ dialog' = IF dialog = "create" THEN None ELSE dialog
    /\ createTyped' = FALSE
    /\ UNCHANGED <<shownKey, loaded, resetTyped, snapshot, plan, errors>>

Replaced(c) ==
    /\ c.kind = "replace" /\ Ends(c)
    /\ revealed' \in {revealed, "replaced"}
    /\ dialog' = IF dialog = "reset" THEN None ELSE dialog
    /\ resetTyped' = None
    /\ UNCHANGED <<shownKey, loaded, createTyped, snapshot, plan, errors>>

\* The drawer shows it, whichever key it is open for; a 202 shows nothing.
LimiterReset(c) ==
    /\ c.kind = "limiter" /\ Ends(c)
    /\ snapshot' \in {snapshot, c.key}
    /\ UNCHANGED <<shownKey, loaded, dialog, createTyped, resetTyped, revealed, plan, errors>>

Planned(c) ==
    /\ c.kind = "plan" /\ Ends(c)
    /\ plan' \in {plan, c.key}
    /\ UNCHANGED <<shownKey, loaded, dialog, createTyped, resetTyped, revealed, snapshot, errors>>

\* handleRemove closes the drawer, whichever key it shows by now, and leaves
\* a dialog above it open.
Revoked(c) ==
    /\ c.kind = "remove" /\ Ends(c)
    /\ shownKey' = None /\ loaded' = FALSE
    /\ UNCHANGED <<dialog, createTyped, resetTyped, revealed, snapshot, plan, errors>>

Failed(c) ==
    /\ Ends(c)
    /\ errors' = IF c.watched THEN errors \union {c.kind} ELSE errors
    /\ UNCHANGED <<shownKey, loaded, dialog, createTyped, resetTyped, revealed, snapshot, plan>>

DialogsNext ==
    \/ \E k \in Key, ready \in BOOLEAN : ShowKey(k, ready)
    \/ KeyRead \/ HideKey \/ ResetLimiter \/ MakePlan \/ Revoke
    \/ ShowCreate \/ TypeCreate \/ SubmitCreate \/ CancelCreate
    \/ ShowReset \/ TypeSecret \/ SubmitSecret \/ CancelReset
    \/ ReloadAfterConflict \/ DismissSecret
    \/ \E c \in calls : \/ Created(c) \/ Replaced(c) \/ LimiterReset(c) \/ Planned(c)
                        \/ Revoked(c) \/ Failed(c)

-----------------------------------------------------------------------------
DialogsTypeOK ==
    /\ shownKey \in Key \union {None} /\ loaded \in BOOLEAN
    /\ dialog \in {"create", "reset", None}
    /\ createTyped \in BOOLEAN /\ resetTyped \in Key \union {None}
    /\ revealed \in {"created", "replaced", None} 
    /\ snapshot \in Key \union {None} /\ plan \in Key \union {None}
    /\ errors \subseteq CallKind /\ calls \subseteq Call /\ made \in 0..MaxCalls

\* A replacement secret is sent for the key whose dialog it was typed in:
\* handleReplaceSecret (ApiKeysPage.tsx) takes the key that is shown when it
\* is submitted, while late answers close the drawer and the dialogs.
SecretForItsKey == \A c \in calls : c.kind = "replace" => c.typed = c.key
=============================================================================
