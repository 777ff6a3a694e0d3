------------------------------ MODULE LogReader ------------------------------
(***************************************************************************)
(* The log page (LogsPage.tsx) with the drawer of one log and its bodies   *)
(* (LogDetailDrawer.tsx, LogBodySection.tsx).  The list is polled, the     *)
(* drawer reads a summary, and a body, which may hold secrets, is read     *)
(* only when the operator asks for it; the session's capabilities may      *)
(* change while the drawer is open.                                        *)
(***************************************************************************)
EXTENDS Page

CONSTANT Log       \* logs of the list

ASSUME LogAssumption == None \notin Log

Kind == {"request", "response"}
Part == {"body", "item", "raw"}   \* the entries of a body, one entry, the raw text

VARIABLES logShown,  \* selectedLogId
          summary,   \* the kinds of which the summary says that there is a body, or None
          requested, \* [Kind -> parts asked for]: the state of the two sections
          mayRead,   \* the session has management.logs.body.read
          bodyReads, \* the reads of bodies under way
          asked      \* history: what a button was pressed for since the drawer opened

logVars == <<logShown, summary, requested, mayRead, bodyReads, asked>>

Wanted == [log : Log, kind : Kind, part : Part]
Untouched == [k \in Kind |-> {}]

LogInit ==
    /\ logShown = None /\ summary = None /\ requested = Untouched
    /\ mayRead = TRUE /\ bodyReads = {} /\ asked = {}

\* `enabled` of a section; without it the section shows a notice.
BodyEnabled(k) == mayRead /\ summary # None /\ k \in summary

-----------------------------------------------------------------------------
\* The details of a row; a summary in the cache is shown at once.
OpenLog(l) ==
    /\ logShown = None /\ logShown' = l
    /\ summary' \in {None} \union SUBSET Kind
    /\ UNCHANGED <<requested, mayRead, bodyReads, asked>>

\* The summary comes, or comes again with other marks.
SummaryRead ==
    /\ logShown # None
    /\ summary' \in SUBSET Kind
    /\ UNCHANGED <<logShown, requested, mayRead, bodyReads, asked>>

\* Slip: the sections outlive the drawer.
CloseLogKeeping ==
    /\ logShown # None /\ logShown' = None /\ summary' = None
    /\ bodyReads' = {} /\ asked' = {}
    /\ UNCHANGED <<requested, mayRead>>

\* Without a summary there are no sections: their state goes, and reads
\* nobody observes are aborted.
CloseLog ==
    /\ logShown # None /\ logShown' = None /\ summary' = None
    /\ requested' = Untouched /\ bodyReads' = {} /\ asked' = {}
    /\ UNCHANGED mayRead

\* The two buttons, and an entry that is unfolded among those of the body.
AskBody(k, p) ==
    /\ BodyEnabled(k) /\ p \notin requested[k]
    /\ p = "item" => "body" \in requested[k]
    /\ requested' = [requested EXCEPT ![k] = @ \union {p}]
    /\ asked' = asked \union {[log |-> logShown, kind |-> k, part |-> p]}
    /\ UNCHANGED <<logShown, summary, mayRead, bodyReads>>

FoldItem(k) ==
    /\ BodyEnabled(k) /\ "item" \in requested[k]
    /\ requested' = [requested EXCEPT ![k] = @ \ {"item"}]
    /\ bodyReads' = {r \in bodyReads : ~(r.kind = k /\ r.part = "item")}
    /\ UNCHANGED <<logShown, summary, mayRead, asked>>

\* An enabled query reads when it is new, stale at a mount or a focus, or
\* when its page, sorting or filter changes.
ReadBody(k, p) ==
    /\ BodyEnabled(k) /\ p \in requested[k]
    /\ bodyReads' = bodyReads \union {[log |-> logShown, kind |-> k, part |-> p]}
    /\ UNCHANGED <<logShown, summary, requested, mayRead, asked>>

BodyRead ==
    /\ \E r \in bodyReads : bodyReads' = bodyReads \ {r}
    /\ UNCHANGED <<logShown, summary, requested, mayRead, asked>>

\* refreshSession brings other capabilities.
CapabilityChanges ==
    /\ mayRead' = ~mayRead
    /\ UNCHANGED <<logShown, summary, requested, bodyReads, asked>>

LogNext ==
    \/ \E l \in Log : OpenLog(l)
    \/ SummaryRead \/ CloseLog \/ BodyRead \/ CapabilityChanges
    \/ \E k \in Kind : FoldItem(k) \/ \E p \in Part : AskBody(k, p) \/ ReadBody(k, p)

-----------------------------------------------------------------------------
LogTypeOK ==
    /\ logShown \in Log \union {None} /\ summary \in {None} \union SUBSET Kind
    /\ requested \in [Kind -> SUBSET Part] /\ mayRead \in BOOLEAN
    /\ bodyReads \subseteq Wanted /\ asked \subseteq Wanted

\* A body is read for the log and the part a button was pressed for since its
\* drawer opened, never because it was pressed for another log (the note of LogsPage.tsx and
\* LogBodySection.tsx that bodies are read on demand).
BodyOnDemand == bodyReads \subseteq asked
=============================================================================
