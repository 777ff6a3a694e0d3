--------------------------- MODULE OperationTracker ---------------------------
(***************************************************************************)
(* OperationProvider (api/operations.tsx) with the buttons of              *)
(* OperationTrackerPanel.tsx: the list of asynchronous operations a tab    *)
(* follows, and the polls that follow them.                                *)
(*                                                                         *)
(* A chain is one run of poll() and the timers it re-arms itself with.     *)
(* Several chains may follow one operation: `timers` remembers only the    *)
(* timer armed last.  All of a chain runs in the closure it began in, so   *)
(* `operations` inside it is the list as it was then: `knows` says whether *)
(* that list had the operation.                                            *)
(***************************************************************************)
EXTENDS FiniteSets, Integers, Sequences

CONSTANTS Id,           \* operation ids
          Cancellable,  \* the operations the upstream reports as cancellable
          Chain,        \* bound of the model: how many polls run at a time
          MaxAttempts,  \* 6, the attempts before a failing poll gives up
          MaxTracked,   \* 30, the length of the list
          MaxClicks,    \* bound of the model: calls of track and cancel
          NoTimer       \* timers.get(id) === undefined

ASSUME TrackerAssumption ==
    /\ Cancellable \subseteq Id
    /\ MaxAttempts \in Nat /\ MaxTracked \in Nat \ {0} /\ MaxClicks \in Nat
    /\ NoTimer \notin Chain

VARIABLES operations, \* the list shown, newest first
          timers,     \* the Map from an id to its latest timer: its chain here
          attempts,   \* the Map from an id to its attempts; absent is 0
          chain,      \* the polls that run or wait
          deleting,   \* ids whose DELETE is on its way
          status,     \* AuthProvider's status
          upstream,   \* what the upstream knows of each operation
          refreshed,  \* history: ids whose queries were invalidated at their end
          clicks      \* calls of track and cancel so far

trackerVars == <<operations, timers, attempts, chain, deleting, status,
                 upstream, refreshed, clicks>>

Live == {"queued", "running"}
Settled == {"succeeded", "failed", "cancelled"}

\* "odd" is any status the code does not know.
normalizeStatus(raw) == IF raw \in Live \cup Settled THEN raw ELSE "unavailable"

isTerminal(s) == s \in Settled \cup {"unavailable"}

Free == [pc |-> "free"]

Listed == {operations[i].id : i \in DOMAIN operations}

Shown(id) == {operations[i] : i \in {j \in DOMAIN operations : operations[j].id = id}}

-----------------------------------------------------------------------------
(* Helpers.                                                                *)

\* setOperations(previous.map(...)) for one id, with the answer s of a read:
\* nothing happens to an id that is not listed any more.
Update(id, s) ==
    [i \in DOMAIN operations |->
        IF operations[i].id = id
        THEN [operations[i] EXCEPT !.status = normalizeStatus(s),
                                   !.cancellable = id \in Cancellable]
        ELSE operations[i]]

Unavailable(id) ==
    [i \in DOMAIN operations |->
        IF operations[i].id = id THEN [operations[i] EXCEPT !.status = "unavailable"]
        ELSE operations[i]]

\* filter(): of the list only the positions K remain, in their order.  There is
\* one increasing enumeration of K; the provers know nothing of SelectSeq.
InOrder(K) ==
    {f \in [1..Cardinality(K) -> K] : \A m, n \in DOMAIN f : m < n => f[m] < f[n]}
KeepOnly(K) ==
    operations' \in {[n \in DOMAIN f |-> operations[f[n]]] : f \in InOrder(K)}

\* clearTimeout of the timer the map holds, if it has not fired yet.
StopTimer(id) ==
    [d \in Chain |-> IF d = timers[id] /\ chain[d].pc = "timer" THEN Free ELSE chain[d]]

Reading(id, attempt, knows) ==
    [pc |-> "reading", id |-> id, attempt |-> attempt, knows |-> knows,
     answer |-> "none"]

\* attempt + 1; beyond MaxAttempts the code only asks whether it is reached.
NextAttempt(c) ==
    IF chain[c].attempt < MaxAttempts THEN chain[c].attempt + 1 ELSE MaxAttempts

\* setTimeout(() => poll(id)): the map forgets the timer it held before.
Rearm(c) ==
    /\ chain' = [chain EXCEPT ![c].pc = "timer", ![c].answer = "none"]
    /\ timers' = [timers EXCEPT ![chain[c].id] = c]
    /\ attempts' = [attempts EXCEPT ![chain[c].id] = NextAttempt(c)]

\* Slip: the poll ends without stop().
EndKeepingEntry(c) ==
    /\ chain' = [chain EXCEPT ![c] = Free]
    /\ UNCHANGED timers

\* The chain ends and takes the timer of its operation with it.
End(c) ==
    /\ chain' = [StopTimer(chain[c].id) EXCEPT ![c] = Free]
    /\ timers' = [timers EXCEPT ![chain[c].id] = NoTimer]

\* The invalidation of the keys found in the closure's list.
Refresh(c) ==
    refreshed' = IF chain[c].knows THEN refreshed \cup {chain[c].id} ELSE refreshed

Answered(c, answers) == chain[c].pc = "reading" /\ chain[c].answer \in answers

-----------------------------------------------------------------------------
(* poll().                                                                 *)

\* A timer fires; its entry stays in the map.
Fire(c) ==
    /\ chain[c].pc = "timer"
    /\ chain' = [chain EXCEPT ![c] =
                    Reading(@.id, attempts[@.id], @.knows)]
    /\ UNCHANGED <<operations, timers, attempts, deleting, status, upstream,
                   refreshed, clicks>>

\* The operation goes on: look again later.
Observed(c) ==
    LET id == chain[c].id IN
    /\ Answered(c, Live)
    /\ operations' = Update(id, chain[c].answer)
    /\ Rearm(c)
    /\ UNCHANGED <<deleting, status, upstream, refreshed, clicks>>

\* The operation is over, or its status is one the code does not know.
Finished(c) ==
    LET id == chain[c].id IN
    /\ Answered(c, Settled \cup {"odd"})
    /\ operations' = Update(id, chain[c].answer)
    /\ End(c)
    /\ attempts' = [attempts EXCEPT ![id] = 0]
    /\ Refresh(c)
    /\ UNCHANGED <<deleting, status, upstream, clicks>>

\* 404: the upstream has lost the record, perhaps in a restart.
Missing(c) ==
    LET id == chain[c].id IN
    /\ Answered(c, {"missing"})
    /\ operations' = Unavailable(id)
    /\ End(c)
    /\ Refresh(c)
    /\ UNCHANGED <<attempts, deleting, status, upstream, clicks>>

\* Any other failure, a session that is over included: try again with backoff.
Retried(c) ==
    /\ Answered(c, {"error"})
    /\ chain[c].attempt < MaxAttempts
    /\ Rearm(c)
    /\ UNCHANGED <<operations, deleting, status, upstream, refreshed, clicks>>

\* Slip: the poll stops without telling the list.
GivenUpSilently(c) ==
    /\ Answered(c, {"error"})
    /\ chain[c].attempt >= MaxAttempts
    /\ End(c)
    /\ UNCHANGED <<operations, attempts, deleting, status, upstream, refreshed, clicks>>

\* Too many attempts: the operation is shown as unavailable.
GivenUp(c) ==
    /\ Answered(c, {"error"})
    /\ chain[c].attempt >= MaxAttempts
    /\ operations' = Unavailable(chain[c].id)
    /\ End(c)
    /\ UNCHANGED <<attempts, deleting, status, upstream, refreshed, clicks>>

Poll(c) ==
    \/ Fire(c) \/ Observed(c) \/ Finished(c) \/ Missing(c) \/ Retried(c)
    \/ GivenUp(c)

-----------------------------------------------------------------------------
(* The calls of the pages and the panel.                                   *)

NewRecord(id) == [id |-> id, status |-> "queued", cancellable |-> FALSE]

\* The list of track(): a known id stays where it is, a new one comes first and
\* the list is cut to its length.
Tracked(id) ==
    IF id \in Listed THEN operations
    ELSE LET list == <<NewRecord(id)>> \o operations
         IN SubSeq(list, 1, IF Len(list) < MaxTracked THEN Len(list) ELSE MaxTracked)

\* track(): after a 202, and after a replayed one with the same id.  The timer is
\* stopped, a poll already under way is not.
Track(c, id) ==
    /\ upstream[id] # "none"
    /\ chain[c].pc = "free" /\ clicks < MaxClicks
    /\ operations' = Tracked(id)
    /\ attempts' = [attempts EXCEPT ![id] = 0]
    /\ timers' = [timers EXCEPT ![id] = NoTimer]
    /\ chain' = [StopTimer(id) EXCEPT ![c] = Reading(id, 0, id \in Listed)]
    /\ refreshed' = IF id \in Listed THEN refreshed ELSE refreshed \ {id}
    /\ clicks' = clicks + 1
    /\ UNCHANGED <<deleting, status, upstream>>

CanCancel(id) ==
    \E o \in Shown(id) : o.cancellable /\ ~isTerminal(o.status)

\* The panel's button, disabled while its own request runs.
Cancel(id) ==
    /\ CanCancel(id) /\ id \notin deleting
    /\ clicks < MaxClicks /\ clicks' = clicks + 1
    /\ deleting' = deleting \cup {id}
    /\ UNCHANGED <<operations, timers, attempts, chain, status, upstream,
                   refreshed>>

\* Slip: the operation is shown as cancelled because the request was accepted.
CancelAcceptedOptimistic(c, id) ==
    /\ id \in deleting /\ chain[c].pc = "free"
    /\ operations' = Update(id, "cancelled")
    /\ deleting' = deleting \ {id}
    /\ attempts' = [attempts EXCEPT ![id] = 0]
    /\ chain' = [chain EXCEPT ![c] = Reading(id, 0, TRUE)]
    /\ UNCHANGED <<timers, status, upstream, refreshed, clicks>>

\* The request to cancel was accepted: poll at once, beside the timer that may
\* still be armed.  The button's closure has the operation in its list.
CancelAccepted(c, id) ==
    /\ id \in deleting /\ chain[c].pc = "free"
    /\ deleting' = deleting \ {id}
    /\ attempts' = [attempts EXCEPT ![id] = 0]
    /\ chain' = [chain EXCEPT ![c] = Reading(id, 0, TRUE)]
    /\ UNCHANGED <<operations, timers, status, upstream, refreshed, clicks>>

CancelRefused(id) ==
    /\ id \in deleting
    /\ deleting' = deleting \ {id}
    /\ UNCHANGED <<operations, timers, attempts, chain, status, upstream,
                   refreshed, clicks>>

Dismiss(id) ==
    /\ \E o \in Shown(id) : isTerminal(o.status)
    /\ KeepOnly({i \in DOMAIN operations : operations[i].id # id})
    /\ chain' = StopTimer(id)
    /\ timers' = [timers EXCEPT ![id] = NoTimer]
    /\ attempts' = [attempts EXCEPT ![id] = 0]
    /\ UNCHANGED <<deleting, status, upstream, refreshed, clicks>>

ClearFinished ==
    /\ operations # << >>
    /\ KeepOnly({i \in DOMAIN operations : operations[i].status \in Live})
    /\ UNCHANGED <<timers, attempts, chain, deleting, status, upstream,
                   refreshed, clicks>>

-----------------------------------------------------------------------------
(* The session of the tab.                                                 *)

Unmapped(c) == \A id \in Id : timers[id] # c

\* Slip: the timers are stopped, the list stays.
SessionEndsKeepingList ==
    /\ status = "authenticated" /\ status' = "anonymous"
    /\ chain' = [c \in Chain |->
                    IF chain[c].pc = "timer" /\ ~Unmapped(c) THEN Free ELSE chain[c]]
    /\ timers' = [id \in Id |-> NoTimer]
    /\ attempts' = [id \in Id |-> 0]
    /\ UNCHANGED <<operations, deleting, upstream, refreshed, clicks>>

\* Logout or a session found lost: the effect on status "anonymous".
SessionEnds ==
    /\ status = "authenticated" /\ status' = "anonymous"
    /\ chain' = [c \in Chain |->
                    IF chain[c].pc = "timer" /\ ~Unmapped(c) THEN Free ELSE chain[c]]
    /\ timers' = [id \in Id |-> NoTimer]
    /\ attempts' = [id \in Id |-> 0]
    /\ operations' = << >>
    /\ UNCHANGED <<deleting, upstream, refreshed, clicks>>

LoggedIn ==
    /\ status = "anonymous" /\ status' = "authenticated"
    /\ clicks < MaxClicks /\ clicks' = clicks + 1
    /\ UNCHANGED <<operations, timers, attempts, chain, deleting, upstream,
                   refreshed>>

-----------------------------------------------------------------------------
(* The upstream.                                                           *)

\* A call of the session is answered 202; track() may come much later.
Accept(id) ==
    /\ status = "authenticated" /\ upstream[id] = "none"
    /\ upstream' = [upstream EXCEPT ![id] = "queued"]
    /\ UNCHANGED <<operations, timers, attempts, chain, deleting, status,
                   refreshed, clicks>>

\* An operation starts, ends, or gets a status of a later version.
Proceed(id) ==
    /\ \/ upstream[id] = "queued" /\ upstream' = [upstream EXCEPT ![id] = "running"]
       \/ /\ upstream[id] \in Live
          /\ \E s \in Settled \cup {"odd"} : upstream' = [upstream EXCEPT ![id] = s]
    /\ UNCHANGED <<operations, timers, attempts, chain, deleting, status,
                   refreshed, clicks>>

\* A restart of the upstream forgets an operation.
Forget(id) ==
    /\ upstream[id] \notin {"none", "missing"}
    /\ upstream' = [upstream EXCEPT ![id] = "missing"]
    /\ UNCHANGED <<operations, timers, attempts, chain, deleting, status,
                   refreshed, clicks>>

\* The read takes the status of this moment; the answer arrives later.  A read
\* may fail on its way, and fails when the session is over.
Answer(c) ==
    /\ Answered(c, {"none"})
    /\ \E a \in {"error"} \cup (IF status = "authenticated"
                               THEN {upstream[chain[c].id]} ELSE {}) :
          chain' = [chain EXCEPT ![c].answer = a]
    /\ UNCHANGED <<operations, timers, attempts, deleting, status, upstream,
                   refreshed, clicks>>

-----------------------------------------------------------------------------
Init ==
    /\ operations = << >>
    /\ timers = [id \in Id |-> NoTimer]
    /\ attempts = [id \in Id |-> 0]
    /\ chain = [c \in Chain |-> Free]
    /\ deleting = {}
    /\ status = "authenticated"
    /\ upstream = [id \in Id |-> "none"]
    /\ refreshed = {}
    /\ clicks = 0

Next ==
    \/ \E c \in Chain : Poll(c) \/ Answer(c)
    \/ \E c \in Chain, id \in Id : Track(c, id) \/ CancelAccepted(c, id)
    \/ \E id \in Id :
          \/ Cancel(id) \/ CancelRefused(id) \/ Dismiss(id)
          \/ Accept(id) \/ Proceed(id) \/ Forget(id)
    \/ ClearFinished
    \/ SessionEnds \/ LoggedIn

\* Timers fire and reads end: fetch fails or answers.  The upstream's own work
\* is not promised by this code.
Fairness == \A c \in Chain : WF_trackerVars(Poll(c)) /\ WF_trackerVars(Answer(c))

Spec == Init /\ [][Next]_trackerVars /\ Fairness

-----------------------------------------------------------------------------
(* Properties.                                                             *)

OperationRecord ==
    [id : Id, status : Live \cup Settled \cup {"unavailable"}, cancellable : BOOLEAN]
Answers == Live \cup Settled \cup {"none", "odd", "missing", "error"}
ChainRecord ==
    {Free} \cup
    [pc : {"reading", "timer"}, id : Id, attempt : 0..MaxAttempts, knows : BOOLEAN,
     answer : Answers]

\* Types: the list holds each operation once and is cut to its length; an entry
\* of the map is the timer of a chain of that very operation, one that waits or
\* has fired and not yet been answered.
TrackerTypeOK ==
    /\ operations \in Seq(OperationRecord) /\ Len(operations) <= MaxTracked
    /\ Cardinality(Listed) = Len(operations)
    /\ timers \in [Id -> Chain \cup {NoTimer}]
    /\ attempts \in [Id -> 0..MaxAttempts]
    /\ chain \in [Chain -> ChainRecord]
    /\ deleting \subseteq Id
    /\ status \in {"authenticated", "anonymous"}
    /\ upstream \in [Id -> Live \cup Settled \cup {"none", "odd", "missing"}]
    /\ refreshed \subseteq Id
    /\ clicks \in 0..MaxClicks
    /\ \A id \in Id :
          LET c == timers[id] IN
          c # NoTimer => chain[c].pc # "free" /\ chain[c].id = id

\* Nothing is shown as going on without being looked at again: however polls of
\* one operation overlap, cancel, dismiss, log out and give up, every operation
\* listed as queued or running has a poll under way or a timer that starts one.
Watched(id) == \E c \in Chain : chain[c].pc # "free" /\ chain[c].id = id
UnsettledWatched ==
    \A i \in DOMAIN operations :
        operations[i].status \in Live => Watched(operations[i].id)

\* "The final status is what the query returns": an operation is shown as
\* succeeded, failed or cancelled only if the upstream says so, or said so
\* before it forgot the operation.
OutcomeTruthful ==
    \A i \in DOMAIN operations :
        operations[i].status \in Settled =>
            upstream[operations[i].id] \in {operations[i].status, "missing"}

\* An operation that ends upstream is not shown as going on for ever: its end
\* is read, the poll gives up, or it leaves the list.
GoingOn(id) == \E o \in Shown(id) : o.status \in Live
SettlesEventually ==
    \A id \in Id :
        (upstream[id] \notin Live /\ GoingOn(id)) ~> ~GoingOn(id)

-----------------------------------------------------------------------------
(* What a comment says that the code does not do.                          *)

\* "The keys to invalidate when the operation ends" (OperationRecord.invalidate).
SettledRefreshed ==
    \A i \in DOMAIN operations :
        operations[i].status \in Settled => operations[i].id \in refreshed
=============================================================================
