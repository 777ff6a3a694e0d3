------------------------------ MODULE LoginFlow ------------------------------
(***************************************************************************)
(* useLoginFlow (features/accounts/useLoginFlow.ts) with the buttons of    *)
(* LoginFlowPanel.tsx: one page's OAuth login, from start over polling to  *)
(* complete or cancel.                                                     *)
(*                                                                         *)
(* `ui` is the hook's useState; flowId, secret, inFlight and mounted are   *)
(* its refs.  Every request runs on while the hook goes on: an answer is   *)
(* applied to whatever `ui` is when it comes.  A flow stands for its       *)
(* flowId, its flowSecret and the account it saves.                        *)
(***************************************************************************)
EXTENDS FiniteSets, Integers

CONSTANTS Flow,        \* flows the upstream may create
          Expiring,    \* the flows that have an expiresAt
          Token,       \* replacePlanToken values
          PollSlot,    \* bound of the model: polls under way at a time
          MaxFailures, \* MAX_CONSECUTIVE_POLL_FAILURES
          NoFlow, NoToken

ASSUME LoginFlowAssumption ==
    /\ Expiring \subseteq Flow /\ NoFlow \notin Flow /\ NoToken \notin Token
    /\ PollSlot \cap {"start", "complete", "cancel"} = {}
    /\ MaxFailures \in Nat \ {0}

VARIABLES ui,        \* LoginFlowState
          flowId,    \* flowIdRef
          secret,    \* flowSecretRef, as the flow it belongs to
          inFlight,  \* inFlightRef
          mounted,   \* mountedRef
          call,      \* the requests under way
          upstream,  \* the state of each flow at the upstream
          issued,    \* replacement tokens the upstream has issued
          declined   \* history: tokens whose replacement the user declined

refs == <<flowId, secret, mounted>>
outside == <<upstream, issued>>
flowVars == <<ui, refs, inFlight, call, outside, declined>>

ActiveStages == {"waiting", "needs-input", "ready"}
TerminalStages == {"saved", "cancelled", "expired", "failed"}
OpenFlow == {"pending", "identity_pending", "ready"}
ClosedFlow == {"completed", "cancelled", "expired"}

Initial == [stage |-> "idle", flow |-> NoFlow, poll |-> "none", pollError |-> FALSE,
            pollFailures |-> 0, plan |-> NoToken, saved |-> NoFlow,
            networkError |-> FALSE]

Idle == [flow |-> NoFlow, token |-> NoToken, answer |-> "idle"]
Sent(f, t) == [flow |-> f, token |-> t, answer |-> "sent"]

Slot == {"start", "complete", "cancel"} \cup PollSlot

isActive == ui.stage \in ActiveStages /\ ui.flow # NoFlow
hasFlowSecret == ui.flow # NoFlow /\ secret # NoFlow

\* An answer is handled; nothing is set on a page that is gone.
Handle(s, answers, next) ==
    /\ call[s].answer \in answers
    /\ call' = [call EXCEPT ![s] = Idle]
    /\ ui' = IF mounted THEN next ELSE ui

-----------------------------------------------------------------------------
(* start()                                                                 *)

Start ==
    /\ mounted /\ ui.stage \notin ActiveStages /\ call["start"] = Idle
    /\ ui' = [Initial EXCEPT !.stage = "starting"]
    /\ flowId' = NoFlow /\ secret' = NoFlow
    /\ call' = [call EXCEPT !["start"] = Sent(NoFlow, NoToken)]
    /\ UNCHANGED <<inFlight, mounted, outside, declined>>

\* Slip: the secret is stored before the hook asks whether it is mounted.
StartAnsweredLate ==
    LET f == call["start"].flow IN
    /\ Handle("start", {"started"}, [Initial EXCEPT !.stage = "waiting", !.flow = f])
    /\ flowId' = f /\ secret' = f
    /\ UNCHANGED <<inFlight, mounted, outside, declined>>

StartAnswered ==
    LET f == call["start"].flow IN
    /\ Handle("start", {"started"}, [Initial EXCEPT !.stage = "waiting", !.flow = f])
    /\ IF mounted THEN flowId' = f /\ secret' = f ELSE UNCHANGED <<flowId, secret>>
    /\ UNCHANGED <<inFlight, mounted, outside, declined>>

StartFailed ==
    /\ Handle("start", {"failed"}, [Initial EXCEPT !.stage = "failed"])
    /\ UNCHANGED <<refs, inFlight, outside, declined>>

-----------------------------------------------------------------------------
(* pollOnce() and the loop that calls it                                   *)

\* The loop waits for its own poll, but a visibility change or a Retry-After
\* starts another loop: only inFlight keeps polls apart.
PollOnce(p) ==
    /\ mounted /\ isActive
    /\ flowId # NoFlow /\ secret # NoFlow /\ ~inFlight
    /\ call[p] = Idle
    /\ inFlight' = TRUE
    /\ call' = [call EXCEPT ![p] = Sent(flowId, NoToken)]
    /\ UNCHANGED <<ui, refs, outside, declined>>

StageAfter(status) ==
    CASE status = "completed" -> "saved"
      [] status \in {"cancelled", "expired", "ready"} -> status
      [] status = "identity_pending" -> "needs-input"
      [] OTHER -> IF ui.stage = "needs-input" THEN "needs-input" ELSE "waiting"

\* The account an answer about f names, or none.
Account(f) == {f, NoFlow}

\* applyPollData: an answer that names no account keeps the one known before.
Applied(status, account) ==
    [ui EXCEPT !.poll = status, !.pollError = FALSE, !.pollFailures = 0,
               !.stage = StageAfter(status),
               !.saved = IF status = "completed" /\ account # NoFlow THEN account ELSE @]

\* The `finally` of pollOnce, which does not ask whose poll is in flight.
PollEnds == inFlight' = FALSE /\ UNCHANGED <<refs, outside, declined>>

PollAnswered(p) ==
    /\ \E a \in Account(call[p].flow) :
          Handle(p, OpenFlow \cup ClosedFlow, Applied(call[p].answer, a))
    /\ PollEnds

\* A 2xx whose body has no status.
PollOdd(p) ==
    /\ Handle(p, {"odd"}, [ui EXCEPT !.pollError = TRUE])
    /\ PollEnds

NextFailure == IF ui.pollFailures < MaxFailures THEN ui.pollFailures + 1
               ELSE MaxFailures

\* 400 or INVALID_OPERATION_STATE: back to what was read last, else failed.
PollRefused(p) ==
    /\ Handle(p, {"unusable"},
          [ui EXCEPT !.pollError = TRUE, !.pollFailures = NextFailure,
                     !.networkError = FALSE,
                     !.stage = CASE ui.poll = "identity_pending" -> "needs-input"
                                 [] ui.poll = "ready" -> "ready"
                                 [] OTHER -> "failed"])
    /\ PollEnds

PollFailed(p) ==
    /\ Handle(p, {"failed"},
          [ui EXCEPT !.pollError = TRUE, !.pollFailures = NextFailure,
                     !.stage = IF NextFailure >= MaxFailures THEN "failed" ELSE ui.stage])
    /\ PollEnds

\* The local timer on expiresAt.
Expire ==
    /\ mounted /\ isActive /\ ui.flow \in Expiring
    /\ ui' = [ui EXCEPT !.stage = "expired"]
    /\ UNCHANGED <<refs, inFlight, call, outside, declined>>

-----------------------------------------------------------------------------
(* complete(), confirmReplace(), declineReplace()                          *)

Submit(token) ==
    /\ call["complete"] = Idle
    /\ IF flowId = NoFlow \/ secret = NoFlow
       THEN ui' = [ui EXCEPT !.stage = "failed", !.networkError = FALSE]
            /\ UNCHANGED call
       ELSE /\ ui' = [ui EXCEPT !.networkError = FALSE]
            /\ call' = [call EXCEPT !["complete"] = Sent(flowId, token)]
    /\ UNCHANGED <<refs, inFlight, outside, declined>>

Complete == mounted /\ ui.stage \in ActiveStages /\ Submit(NoToken)

ConfirmReplace ==
    /\ mounted /\ ui.flow # NoFlow /\ ui.plan # NoToken
    /\ Submit(ui.plan)

\* Slip: the conflict is put aside, its token kept.
DeclineReplaceKeeping ==
    /\ mounted /\ ui.flow # NoFlow /\ ui.plan # NoToken /\ call["complete"] = Idle
    /\ ui' = [ui EXCEPT !.networkError = FALSE, !.stage = "needs-input"]
    /\ declined' = declined \cup {ui.plan}
    /\ UNCHANGED <<refs, inFlight, call, outside>>

DeclineReplace ==
    /\ mounted /\ ui.flow # NoFlow /\ ui.plan # NoToken /\ call["complete"] = Idle
    /\ ui' = [ui EXCEPT !.plan = NoToken, !.networkError = FALSE,
                        !.stage = "needs-input"]
    /\ declined' = declined \cup {ui.plan}
    /\ UNCHANGED <<refs, inFlight, call, outside>>

CompleteSaved ==
    /\ \E a \in Account(call["complete"].flow) :
          Handle("complete", {"saved"},
              [ui EXCEPT !.stage = "saved", !.saved = IF a = NoFlow THEN @ ELSE a,
                         !.plan = NoToken, !.networkError = FALSE])
    /\ UNCHANGED <<refs, inFlight, outside, declined>>

\* 409 with a replacement plan.
CompleteConflict ==
    /\ Handle("complete", {"conflict"},
          [ui EXCEPT !.stage = "needs-input", !.plan = call["complete"].token,
                     !.networkError = FALSE])
    /\ UNCHANGED <<refs, inFlight, outside, declined>>

CompleteRejected ==
    /\ \/ Handle("complete", {"unusable"},
              [ui EXCEPT !.stage = "failed", !.networkError = FALSE])
       \/ Handle("complete", {"rejected"}, [ui EXCEPT !.networkError = FALSE])
       \/ Handle("complete", {"failed"}, [ui EXCEPT !.networkError = TRUE])
    /\ UNCHANGED <<refs, inFlight, outside, declined>>

-----------------------------------------------------------------------------
(* cancel(), resumePolling(), reset(), unmount                             *)

Cancel ==
    /\ mounted /\ call["cancel"] = Idle
    /\ flowId # NoFlow /\ secret # NoFlow
    /\ \/ ui.stage \in ActiveStages
       \/ ui.stage \in TerminalStages \ {"saved"} /\ ui.flow # NoFlow
    /\ ui' = [ui EXCEPT !.networkError = FALSE]
    /\ call' = [call EXCEPT !["cancel"] = Sent(flowId, NoToken)]
    /\ UNCHANGED <<refs, inFlight, outside, declined>>

Cancelled == [ui EXCEPT !.stage = "cancelled", !.pollError = FALSE,
                        !.plan = NoToken, !.networkError = FALSE]

CancelDone ==
    /\ Handle("cancel", {"done"}, Cancelled)
    /\ secret' = NoFlow
    /\ UNCHANGED <<flowId, inFlight, mounted, outside, declined>>

\* Slip: a cancellation the upstream did not take is shown as one.
CancelFailedAsDone ==
    /\ Handle("cancel", {"failed"}, Cancelled)
    /\ UNCHANGED <<refs, inFlight, outside, declined>>

CancelFailed ==
    /\ Handle("cancel", {"failed"}, [ui EXCEPT !.networkError = TRUE])
    /\ UNCHANGED <<refs, inFlight, outside, declined>>

\* The three buttons that resume polling.
ResumePolling ==
    /\ mounted
    /\ \/ hasFlowSecret /\ ~isActive /\ ui.pollError
       \/ hasFlowSecret /\ ui.stage = "failed"
       \/ ui.stage \in ActiveStages /\ ui.networkError
    /\ ui' = [ui EXCEPT !.stage = IF @ \in {"needs-input", "ready"} THEN @ ELSE "waiting",
                        !.pollFailures = 0, !.pollError = FALSE]
    /\ UNCHANGED <<refs, inFlight, call, outside, declined>>

\* Slip: the secret outlives its flow.
ResetKeepingSecret ==
    /\ mounted /\ ui.stage \in TerminalStages
    /\ ui' = Initial
    /\ flowId' = NoFlow /\ inFlight' = FALSE
    /\ UNCHANGED <<secret, mounted, call, outside, declined>>

Reset ==
    /\ mounted /\ ui.stage \in TerminalStages
    /\ ui' = Initial
    /\ flowId' = NoFlow /\ secret' = NoFlow /\ inFlight' = FALSE
    /\ UNCHANGED <<mounted, call, outside, declined>>

Unmount ==
    /\ mounted /\ mounted' = FALSE
    /\ flowId' = NoFlow /\ secret' = NoFlow /\ inFlight' = FALSE
    /\ UNCHANGED <<ui, call, outside, declined>>

-----------------------------------------------------------------------------
(* The upstream, behind the BFF: what a request does there is decided when *)
(* it gets there, and the answer may be lost on its way back.              *)

Serve(s, f, t, answer) ==
    call' = [call EXCEPT ![s] = [flow |-> f, token |-> t, answer |-> answer]]

ServeStart ==
    /\ call["start"].answer = "sent"
    /\ \/ \E f \in Flow :
              /\ upstream[f] = "none"
              /\ upstream' = [upstream EXCEPT ![f] = "pending"]
              /\ Serve("start", f, NoToken, "started")
       \/ Serve("start", NoFlow, NoToken, "failed") /\ UNCHANGED upstream
    /\ UNCHANGED <<ui, refs, inFlight, issued, declined>>

\* Some providers refuse polls altogether.
ServePoll(p) ==
    /\ call[p].answer = "sent"
    /\ \E a \in {upstream[call[p].flow], "odd", "unusable", "failed"} :
          Serve(p, call[p].flow, NoToken, a)
    /\ UNCHANGED <<ui, refs, inFlight, outside, declined>>

ServeComplete ==
    LET f == call["complete"].flow IN
    /\ call["complete"].answer = "sent"
    /\ \/ /\ upstream[f] \in OpenFlow
          /\ upstream' = [upstream EXCEPT ![f] = "completed"]
          /\ \E a \in {"saved", "failed"} : Serve("complete", f, NoToken, a)
          /\ UNCHANGED issued
       \/ /\ upstream[f] \in OpenFlow
          /\ \E t \in Token \ issued :
                issued' = issued \cup {t} /\ Serve("complete", f, t, "conflict")
          /\ UNCHANGED upstream
       \/ /\ \E a \in {"failed", IF upstream[f] \in OpenFlow THEN "rejected"
                                 ELSE "unusable"} :
                Serve("complete", f, NoToken, a)
          /\ UNCHANGED outside
    /\ UNCHANGED <<ui, refs, inFlight, declined>>

ServeCancel ==
    LET f == call["cancel"].flow IN
    /\ call["cancel"].answer = "sent"
    /\ \/ /\ upstream[f] \in OpenFlow
          /\ upstream' = [upstream EXCEPT ![f] = "cancelled"]
          /\ \E a \in {"done", "failed"} : Serve("cancel", f, NoToken, a)
       \/ Serve("cancel", f, NoToken, "failed") /\ UNCHANGED upstream
    /\ UNCHANGED <<ui, refs, inFlight, issued, declined>>

\* The user authorises the flow in another window, or its time is over.
Progress(f) ==
    /\ upstream[f] \in OpenFlow
    /\ \E s \in {"ready", "completed", "expired"} \cup
              (IF upstream[f] = "pending" THEN {"identity_pending"} ELSE {}) :
          upstream' = [upstream EXCEPT ![f] = s]
    /\ UNCHANGED <<ui, refs, inFlight, call, issued, declined>>

-----------------------------------------------------------------------------
Init ==
    /\ ui = Initial
    /\ flowId = NoFlow /\ secret = NoFlow /\ inFlight = FALSE /\ mounted = TRUE
    /\ call = [s \in Slot |-> Idle]
    /\ upstream = [f \in Flow |-> "none"]
    /\ issued = {} /\ declined = {}

PollHandled(p) == PollAnswered(p) \/ PollOdd(p) \/ PollRefused(p) \/ PollFailed(p)

Next ==
    \/ Start \/ StartAnswered \/ StartFailed
    \/ \E p \in PollSlot : PollOnce(p) \/ PollHandled(p) \/ ServePoll(p)
    \/ Expire
    \/ Complete \/ ConfirmReplace \/ DeclineReplace
    \/ CompleteSaved \/ CompleteConflict \/ CompleteRejected
    \/ Cancel \/ CancelDone \/ CancelFailed
    \/ ResumePolling \/ Reset \/ Unmount
    \/ ServeStart \/ ServeComplete \/ ServeCancel
    \/ \E f \in Flow : Progress(f)

Spec == Init /\ [][Next]_flowVars

-----------------------------------------------------------------------------
(* Properties.                                                             *)

LoginFlowState ==
    [stage : ActiveStages \cup TerminalStages \cup {"idle", "starting"},
     flow : Flow \cup {NoFlow}, poll : OpenFlow \cup ClosedFlow \cup {"none"},
     pollError : BOOLEAN, pollFailures : 0..MaxFailures,
     plan : Token \cup {NoToken}, saved : Flow \cup {NoFlow}, networkError : BOOLEAN]

Answers ==
    {"idle", "sent", "started", "failed", "odd", "unusable", "saved", "conflict",
     "rejected", "done", "none"} \cup OpenFlow \cup ClosedFlow
RequestState ==
    [flow : Flow \cup {NoFlow}, token : Token \cup {NoToken}, answer : Answers]

\* Types, and each secret is only ever used for its own flow: a request carries
\* the id and the secret read together.
FlowTypeOK ==
    /\ ui \in LoginFlowState
    /\ flowId \in Flow \cup {NoFlow} /\ secret \in {flowId, NoFlow}
    /\ inFlight \in BOOLEAN /\ mounted \in BOOLEAN
    /\ call \in [Slot -> RequestState]
    /\ upstream \in [Flow -> OpenFlow \cup ClosedFlow \cup {"none"}]
    /\ issued \subseteq Token /\ declined \subseteq Token

\* "The secret is only in this page's memory; leaving the page drops it", also
\* when the answer that brings it comes after the page is gone.
UnmountDropsSecret == ~mounted => secret = NoFlow /\ flowId = NoFlow

\* The page never claims more than happened: an account shown as saved was
\* saved, and a page only says "saved" or "cancelled" when some flow was; which
\* one it does not say, as late answers of an earlier flow are shown as well.
OutcomeTruthful ==
    /\ ui.saved # NoFlow => upstream[ui.saved] = "completed"
    /\ ui.stage = "saved" => \E f \in Flow : upstream[f] = "completed"
    /\ ui.stage = "cancelled" => \E f \in Flow : upstream[f] = "cancelled"

\* "A replacement is only sent after the user confirmed it": once declined, its
\* token is never sent, whatever else is clicked or still under way.
DeclinedNeverSent ==
    call["complete"].answer = "sent" => call["complete"].token \notin declined

-----------------------------------------------------------------------------
(* What a comment of useLoginFlow.ts says that the code does not do.       *)

\* "A terminal status stops polling at once": a page that shows saved, cancelled
\* or expired is not set waiting again by the answer of a poll.
SettledStays ==
    [][\A p \in PollSlot :
          mounted /\ PollHandled(p) /\ ui.stage \in {"saved", "cancelled", "expired"}
          => ui'.stage \notin ActiveStages]_flowVars
=============================================================================
