------------------------------- MODULE Browser -------------------------------
(***************************************************************************)
(* One tab of the management console.  Its router shows one page at a      *)
(* time, and pages share nothing but the query cache, each under keys of   *)
(* its own; so a behaviour of the tab is looked at page by page: `screen`  *)
(* is chosen once, its component moves and the others stay as they are.    *)
(***************************************************************************)
EXTENDS ChannelPage, CompatibilitySection, AccountPage, KeyPage, ListSelection,
        ImportPanel, KeyDialogs, ChannelCreation, LogReader, TabSession

CONSTANT Screen  \* the screens looked at

ScreenAssumption ==
    Screen \subseteq {"channel", "compatibility", "account", "settings", "key",
                      "models", "import", "dialogs", "creation", "logs", "session"}
ASSUME ScreenAssumption

VARIABLE screen

Editing == {"channel", "compatibility", "account", "settings", "key"}

browserVars == <<screen, editVars, listVars, importVars, dialogVars,
                 creationVars, logVars, sessionVars>>

\* Of the settings there is one, and one section is looked at.
Init ==
    /\ screen \in Screen
    /\ \E R \in SUBSET Res :
          /\ IF screen \in {"settings", "compatibility"}
             THEN Cardinality(R) = 1 ELSE R = Res
          /\ EditingInit(R)
    /\ ListInit /\ ImportInit /\ DialogsInit /\ CreationInit /\ LogInit
    /\ \E T \in SUBSET Tab :
          (T # {}) = (screen = "session") /\ SessionInit(T)

EditingNext ==
    \/ screen = "channel" /\ ChannelNext
    \/ screen = "compatibility" /\ CompatibilityNext
    \/ screen = "account" /\ AccountNext
    \/ screen = "settings" /\ SettingsNext
    \/ screen = "key" /\ KeyNext

\* The others stay as they are.
Next ==
    /\ UNCHANGED screen
    /\ \/ screen \in Editing /\ EditingNext
       \/ screen \notin Editing /\ UNCHANGED editVars
    /\ \/ screen = "models" /\ ListNext
       \/ screen # "models" /\ UNCHANGED listVars
    /\ \/ screen = "import" /\ ImportNext
       \/ screen # "import" /\ UNCHANGED importVars
    /\ \/ screen = "dialogs" /\ DialogsNext
       \/ screen # "dialogs" /\ UNCHANGED dialogVars
    /\ \/ screen = "creation" /\ CreationNext
       \/ screen # "creation" /\ UNCHANGED creationVars
    /\ \/ screen = "logs" /\ LogNext
       \/ screen # "logs" /\ UNCHANGED logVars
    /\ \/ screen = "session" /\ SessionNext
       \/ screen # "session" /\ UNCHANGED sessionVars

Spec == Init /\ [][Next]_browserVars

-----------------------------------------------------------------------------
\* Every component's state is of its type.
BrowserTypeOK ==
    /\ screen \in Screen
    /\ EditingTypeOK /\ ListTypeOK /\ ImportTypeOK
    /\ DialogsTypeOK /\ CreationTypeOK /\ LogTypeOK /\ SessionTypeOK

\* The server carries the request under way out.
CarriedOut ==
    /\ Pending /\ request.phase = "sent"
    /\ request' # None /\ request'.phase # "sent"
    /\ server'[request.form.id] \notin {Gone, server[request.form.id]}

\* Every value it replaces is one the form was filled from, unless the
\* operator took the newer revision over; a patch replaces edited fields only.
OverwritesSeenOnly ==
    CarriedOut =>
        LET now  == server[request.form.id]
            next == server'[request.form.id]
        IN  \A f \in Field : now.of[f] # next.of[f] =>
                /\ request.whole \/ f \in request.form.edited
                /\ request.form.base.of[f] = now.of[f] \/ request.form.adopted

\* A change somebody else has made is never overwritten by an operator who
\* has not seen it: the revision that is sent as If-Match is the one the form
\* was filled from (docs/frontend-contract.md, section 3), whatever reads
\* landed, conflicts were answered and drawers closed meanwhile.
NoSilentOverwrite == [][screen # "key" => OverwritesSeenOnly]_browserVars

\* The same of the API key page, whose save sends the revision read last.
KeyNoSilentOverwrite == [][screen = "key" => OverwritesSeenOnly]_browserVars

\* What was typed into the form of the resource shown is lost to nothing but
\* a completed save: not to a poll, nor to a conflict or another refusal (the
\* snapshots of ChannelDetailDrawer.tsx, the fill-once effects of
\* ChannelCompatibilitySection.tsx and ApiKeysPage.tsx).
EditsKept ==
    [][(/\ screen \in {"channel", "compatibility", "key"}
        /\ open # None /\ open' = open /\ draft # None /\ draft' # None
        /\ ~(Pending /\ request.phase = "done" /\ request' = None))
       => draft.edited \subseteq draft'.edited]_browserVars

\* Two secrets that are typed are kept in the page's state no longer than
\* their dialogs are open: the channel's API key (CreateChannelModal.tsx, whose
\* component outlives the dialog) and a replacement for a key's secret
\* (ApiKeysPage.tsx), whenever the answers of calls made before come.  The form
\* that creates a key is left out: its dialog is cancelled without a reset.
SecretsDropped == (apiKey => modal) /\ (resetTyped # None => dialog = "reset")
=============================================================================
