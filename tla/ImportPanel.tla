----------------------------- MODULE ImportPanel -----------------------------
(***************************************************************************)
(* The import of OAuth accounts (ImportPanel.tsx): a payload is previewed, *)
(* candidates whose account exists are decided one by one, and the import  *)
(* is committed with the secret the preview brought.  Preview and commit   *)
(* do not wait for each other, and the payload may change under both.      *)
(***************************************************************************)
EXTENDS Page

CONSTANTS Candidate,  \* candidates of a preview
          MaxImport   \* bound of the model: how many previews are made


VARIABLES payload,    \* there is something to preview
          preview,    \* the preview shown: its import and its conflicts
          secret,     \* importSecretRef: the import it belongs to, or None
          decisions,  \* the candidates decided: [keep, overwrite]
          result,     \* the import whose result is shown, or None
          previewing, \* the preview request under way: "sent" or None
          committing, \* the commit request under way, or None
          imports,    \* imports the server has handed out
          chosen      \* history: what the operator asked to be overwritten

importVars == <<payload, preview, secret, decisions, result, previewing,
                committing, imports, chosen>>

Import == 1..MaxImport
Decisions == [keep : SUBSET Candidate, overwrite : SUBSET Candidate]
Pairs == SUBSET (Import \X Candidate)
Undecided == [keep |-> {}, overwrite |-> {}]

Preview == [import : Import, conflicts : SUBSET Candidate]
Commit == [preview : Preview, secret : Import, overwrite : SUBSET Candidate,
           phase : {"sent", "done", "failed"}]

ASSUME ImportAssumption == MaxImport \in Nat /\ None \notin Preview

ImportInit ==
    /\ payload = FALSE /\ preview = None /\ secret = None
    /\ decisions = Undecided /\ result = None
    /\ previewing = None /\ committing = None
    /\ imports = 0 /\ chosen = {}

ResetPreviewState ==
    secret' = None /\ preview' = None /\ decisions' = Undecided /\ result' = None

-----------------------------------------------------------------------------
\* The text area and the end of onFile, which awaits the file's text.
SetPayload ==
    /\ payload' = TRUE
    /\ UNCHANGED <<preview, secret, decisions, result, previewing, committing,
                   imports, chosen>>

\* A file is picked (its text comes later, or it is too large), or the
\* content cleared.
ClearContent ==
    /\ payload' \in {payload, FALSE}
    /\ ResetPreviewState
    /\ UNCHANGED <<previewing, committing, imports, chosen>>

RunPreview ==
    /\ payload /\ previewing = None /\ imports < MaxImport
    /\ previewing' = "sent"
    /\ ResetPreviewState
    /\ UNCHANGED <<payload, committing, imports, chosen>>

\* Slip: every candidate starts as one to be written.
PreselectedAll(C) == Candidate

\* Candidates without a conflict C are to be written, the others undecided.
Preselected(C) == Candidate \ C

\* The preview shown is the one of the answer, whatever the payload is now.
PreviewAnswered ==
    /\ previewing # None /\ previewing' = None
    /\ \/ \E C \in SUBSET Candidate :
             /\ imports' = imports + 1
             /\ preview' = [import |-> imports', conflicts |-> C]
             /\ secret' = imports'
             /\ decisions' = [keep |-> {}, overwrite |-> Preselected(C)]
       \/ UNCHANGED <<imports, preview, secret, decisions>>
    /\ UNCHANGED <<payload, result, committing, chosen>>

Decide(c, overwrite) ==
    /\ preview # None
    /\ decisions' = IF overwrite
          THEN [keep |-> decisions.keep \ {c}, overwrite |-> decisions.overwrite \union {c}]
          ELSE [keep |-> decisions.keep \union {c}, overwrite |-> decisions.overwrite \ {c}]
    /\ chosen' = IF overwrite THEN chosen \union {<<preview.import, c>>}
                 ELSE chosen \ {<<preview.import, c>>}
    /\ UNCHANGED <<payload, preview, secret, result, previewing, committing,
                   imports>>

\* An undecided conflict and a result block the button.
RunCommit ==
    /\ preview # None /\ secret # None /\ committing = None
    /\ preview.conflicts \subseteq decisions.keep \union decisions.overwrite
    /\ result = None
    /\ committing' = [preview |-> preview, secret |-> secret,
                      overwrite |-> decisions.overwrite, phase |-> "sent"]
    /\ result' = None
    /\ UNCHANGED <<payload, preview, secret, decisions, previewing, imports,
                   chosen>>

\* The server answers, or its answer is lost.
CommitCarriedOut ==
    /\ committing # None /\ committing.phase = "sent"
    /\ \E p \in {"done", "failed"} : committing' = [committing EXCEPT !.phase = p]
    /\ UNCHANGED <<payload, preview, secret, decisions, result, previewing,
                   imports, chosen>>

\* The answer clears the payload and the secret, also those of a newer
\* preview, which then shows a result that is not its own.
CommitAnswered ==
    /\ committing # None /\ committing.phase # "sent"
    /\ committing' = None
    /\ IF committing.phase = "done"
       THEN result' = committing.preview.import /\ payload' = FALSE /\ secret' = None
       ELSE UNCHANGED <<result, payload, secret>>
    /\ UNCHANGED <<preview, decisions, previewing, imports, chosen>>

ImportNext ==
    \/ SetPayload \/ ClearContent \/ RunPreview \/ PreviewAnswered
    \/ \E c \in Candidate, o \in BOOLEAN : Decide(c, o)
    \/ RunCommit \/ CommitCarriedOut \/ CommitAnswered

-----------------------------------------------------------------------------
ImportTypeOK ==
    /\ payload \in BOOLEAN /\ preview \in Preview \union {None}
    /\ secret \in Import \union {None} /\ decisions \in Decisions
    /\ result \in Import \union {None} /\ previewing \in {"sent", None}
    /\ committing \in Commit \union {None} /\ imports \in 0..MaxImport
    /\ chosen \in Pairs

\* An account that existed is replaced only if the operator chose that for
\* the very preview that is committed, and the commit carries the secret of
\* that preview (ImportPanel.tsx, lines 114 and 313).
ImportAsChosen ==
    [][committing = None /\ committing' # None =>
          LET c == committing' IN
          /\ \A x \in c.overwrite \intersect c.preview.conflicts :
                <<c.preview.import, x>> \in chosen
          /\ c.secret = c.preview.import]_importVars
=============================================================================
