---------------------------- MODULE LoginFlowProofs ----------------------------
(***************************************************************************)
(* Proofs about LoginFlow for any number of flows, replacement tokens and  *)
(* polls under way.                                                        *)
(***************************************************************************)
EXTENDS LoginFlow, TLAPS

-----------------------------------------------------------------------------
(* The secret and the page.                                                *)

\* No action stores a secret on a page that is gone, and the one that makes it
\* go clears the refs.
LEMMA UnmountStep == UnmountDropsSecret /\ [Next]_flowVars => UnmountDropsSecret'
<1> SUFFICES ASSUME UnmountDropsSecret, [Next]_flowVars PROVE UnmountDropsSecret'
  OBVIOUS
<1> USE DEF UnmountDropsSecret, Handle, PollEnds, refs, outside
<1>1. CASE Start \/ Reset \/ Unmount
  BY <1>1 DEF Start, Reset, Unmount
<1>2. CASE StartAnswered
  BY <1>2 DEF StartAnswered
<1>3. CASE StartFailed
  BY <1>3 DEF StartFailed
<1>4. CASE CancelDone
  BY <1>4 DEF CancelDone
<1>5. CASE Expire \/ Complete \/ ConfirmReplace \/ DeclineReplace
  BY <1>5 DEF Expire, Complete, ConfirmReplace, DeclineReplace, Submit
<1>6. CASE CompleteSaved \/ CompleteConflict \/ CompleteRejected
  BY <1>6 DEF CompleteSaved, CompleteConflict, CompleteRejected
<1>7. CASE Cancel \/ CancelFailed \/ ResumePolling
  BY <1>7 DEF Cancel, CancelFailed, ResumePolling
<1>8. CASE ServeStart \/ ServeComplete \/ ServeCancel
  BY <1>8 DEF ServeStart, ServeComplete, ServeCancel
<1>9. CASE \E f \in Flow : Progress(f)
  BY <1>9 DEF Progress
<1>10. CASE \E p \in PollSlot : PollOnce(p) \/ PollHandled(p) \/ ServePoll(p)
  BY <1>10 DEF PollOnce, PollHandled, PollAnswered, PollOdd, PollRefused, PollFailed, ServePoll
<1>11. CASE UNCHANGED flowVars
  BY <1>11 DEF flowVars
<1>12. QED
  BY <1>1, <1>2, <1>3, <1>4, <1>5, <1>6, <1>7, <1>8, <1>9, <1>10, <1>11 DEF Next

\* The page's secret is gone once the page is, also when the answer that brings
\* it comes later (mountedRef is asked before flowSecretRef is written).
THEOREM FlowUnmount == Spec => []UnmountDropsSecret
<1>1. Init => UnmountDropsSecret
  BY DEF Init, UnmountDropsSecret
<1>2. QED
  BY <1>1, UnmountStep, PTL DEF Spec

-----------------------------------------------------------------------------
(* Types.                                                                  *)

\* A request that is sent names the flow it is for, as does the answer that
\* brings a new flow: the upstream is only ever asked about flows.
NamesFlow(s, r) ==
    /\ s # "start" /\ r.answer = "sent" => r.flow \in Flow
    /\ s = "start" /\ r.answer = "started" => r.flow \in Flow

CallTyped ==
    /\ call \in [Slot -> RequestState]
    /\ \A s \in Slot : NamesFlow(s, call[s])

RestTyped ==
    /\ flowId \in Flow \cup {NoFlow} /\ secret \in {flowId, NoFlow}
    /\ inFlight \in BOOLEAN /\ mounted \in BOOLEAN
    /\ upstream \in [Flow -> OpenFlow \cup ClosedFlow \cup {"none"}]
    /\ issued \subseteq Token /\ declined \subseteq Token

TypeInv == ui \in LoginFlowState /\ CallTyped /\ RestTyped

LEMMA IdleRequest == Idle \in RequestState /\ \A s \in Slot : NamesFlow(s, Idle)
BY DEF Idle, RequestState, NamesFlow, Answers

LEMMA SentRequest ==
    ASSUME NEW f \in Flow, NEW t \in Token \cup {NoToken}
    PROVE  Sent(f, t) \in RequestState /\ \A s \in Slot : NamesFlow(s, Sent(f, t))
BY DEF Sent, RequestState, NamesFlow, Answers

\* One slot changes to a well-formed request or answer.
LEMMA CallUpdate ==
    ASSUME CallTyped, NEW s \in Slot, NEW r \in RequestState, NamesFlow(s, r),
           call' = [call EXCEPT ![s] = r]
    PROVE  CallTyped'
BY DEF CallTyped

\* An answer is handled with a well-formed next state of the hook.
LEMMA Handled ==
    ASSUME ui \in LoginFlowState, CallTyped, NEW s \in Slot, NEW answers,
           NEW next \in LoginFlowState, Handle(s, answers, next)
    PROVE  ui' \in LoginFlowState /\ CallTyped'
<1>1. CallTyped'
  BY IdleRequest, CallUpdate DEF Handle
<1>2. QED
  BY <1>1 DEF Handle

\* What the upstream answers is well formed.
LEMMA Served ==
    ASSUME CallTyped, NEW s \in Slot, NEW f \in Flow \cup {NoFlow},
           NEW t \in Token \cup {NoToken}, NEW a \in Answers, a # "sent",
           s = "start" /\ a = "started" => f \in Flow, Serve(s, f, t, a)
    PROVE  CallTyped'
<1>1. /\ [flow |-> f, token |-> t, answer |-> a] \in RequestState
      /\ NamesFlow(s, [flow |-> f, token |-> t, answer |-> a])
  BY DEF RequestState, NamesFlow
<1>2. QED
  BY <1>1, CallUpdate DEF Serve

\* The states the hook starts from and falls back to.
LEMMA InitialState ==
    ASSUME NEW f \in Flow \cup {NoFlow}, NEW st \in {"idle", "starting", "waiting", "failed"}
    PROVE  /\ Initial \in LoginFlowState
           /\ [Initial EXCEPT !.stage = st, !.flow = f] \in LoginFlowState
<1>1. 0 \in 0..MaxFailures
  BY LoginFlowAssumption
<1>2. Initial \in LoginFlowState
  BY <1>1 DEF Initial, LoginFlowState
<1>3. st \in ActiveStages \cup TerminalStages \cup {"idle", "starting"}
  BY DEF ActiveStages, TerminalStages
<1>4. QED
  BY <1>2, <1>3 DEF LoginFlowState

Stages == ActiveStages \cup TerminalStages \cup {"idle", "starting"}

\* The hook's state with one field set.
LEMMA WithStage ==
    ASSUME NEW u \in LoginFlowState, NEW st \in Stages
    PROVE  [u EXCEPT !.stage = st] \in LoginFlowState
BY DEF LoginFlowState, Stages

LEMMA WithNetworkError ==
    ASSUME NEW u \in LoginFlowState, NEW n \in BOOLEAN
    PROVE  [u EXCEPT !.networkError = n] \in LoginFlowState
BY DEF LoginFlowState

LEMMA StateFields ==
    ASSUME NEW u \in LoginFlowState
    PROVE  /\ u.stage \in Stages /\ u.saved \in Flow \cup {NoFlow}
           /\ u.plan \in Token \cup {NoToken} /\ u.flow \in Flow \cup {NoFlow}
BY DEF LoginFlowState, Stages

LEMMA StageNames ==
    /\ "idle" \in Stages /\ "starting" \in Stages /\ "waiting" \in Stages
    /\ "needs-input" \in Stages /\ "ready" \in Stages /\ "saved" \in Stages
    /\ "cancelled" \in Stages /\ "expired" \in Stages /\ "failed" \in Stages
BY DEF Stages, ActiveStages, TerminalStages

LEMMA FailureCount == 0 \in 0..MaxFailures /\ (ui \in LoginFlowState => NextFailure \in 0..MaxFailures)
BY LoginFlowAssumption DEF NextFailure, LoginFlowState

\* applyPollData yields a well-formed state for every status.
LEMMA AppliedTyped ==
    ASSUME ui \in LoginFlowState, NEW status \in OpenFlow \cup ClosedFlow,
           NEW account \in Flow \cup {NoFlow}
    PROVE  Applied(status, account) \in LoginFlowState
<1>1. StageAfter(status) \in Stages
  BY StageNames DEF StageAfter, OpenFlow, ClosedFlow
<1>2. (IF status = "completed" /\ account # NoFlow THEN account ELSE ui.saved)
         \in Flow \cup {NoFlow}
  BY DEF LoginFlowState
<1>3. 0 \in 0..MaxFailures
  BY FailureCount
<1>4. ASSUME NEW st \in Stages, NEW sv \in Flow \cup {NoFlow}
      PROVE  [ui EXCEPT !.poll = status, !.pollError = FALSE, !.pollFailures = 0,
                        !.stage = st, !.saved = sv] \in LoginFlowState
  BY <1>3 DEF LoginFlowState, Stages
<1>5. QED
  BY <1>1, <1>2, <1>4 DEF Applied

LEMMA CallFields ==
    ASSUME CallTyped, NEW s \in Slot
    PROVE  /\ call[s] \in RequestState /\ call[s].flow \in Flow \cup {NoFlow}
           /\ call[s].token \in Token \cup {NoToken}
           /\ s # "start" /\ call[s].answer = "sent" => call[s].flow \in Flow
           /\ s = "start" /\ call[s].answer = "started" => call[s].flow \in Flow
BY DEF CallTyped, RequestState, NamesFlow

LEMMA SlotNames ==
    {"start", "complete", "cancel"} \subseteq Slot /\ PollSlot \subseteq Slot \ {"start"}
BY LoginFlowAssumption DEF Slot

LEMMA TypeStep == TypeInv /\ [Next]_flowVars => TypeInv'
<1> SUFFICES ASSUME TypeInv, [Next]_flowVars PROVE TypeInv'
  OBVIOUS
<1>0. /\ ui \in LoginFlowState /\ CallTyped /\ RestTyped
      /\ "start" \in Slot /\ "complete" \in Slot /\ "cancel" \in Slot
      /\ \A p \in PollSlot : p \in Slot /\ p # "start"
  BY SlotNames DEF TypeInv
<1>a. Initial \in LoginFlowState
  BY InitialState
<1>1. CASE Start
  <2>1. [Initial EXCEPT !.stage = "starting"] \in LoginFlowState
    BY <1>a, StageNames, WithStage
  <2>2. /\ Sent(NoFlow, NoToken) \in RequestState
        /\ NamesFlow("start", Sent(NoFlow, NoToken))
    BY DEF Sent, RequestState, NamesFlow, Answers
  <2>3. CallTyped'
    BY <1>1, <1>0, <2>2, CallUpdate DEF Start
  <2>4. RestTyped'
    BY <1>1, <1>0 DEF Start, RestTyped, outside
  <2>5. QED
    BY <1>1, <2>1, <2>3, <2>4 DEF TypeInv, Start
<1>2. CASE StartAnswered
  <2> DEFINE f == call["start"].flow
  <2>1. f \in Flow
    BY <1>2, <1>0, CallFields DEF StartAnswered, Handle
  <2>2. [Initial EXCEPT !.stage = "waiting", !.flow = f] \in LoginFlowState
    BY <2>1, InitialState
  <2>3. ui' \in LoginFlowState /\ CallTyped'
    BY <1>2, <1>0, <2>2, Handled DEF StartAnswered
  <2>4. RestTyped'
    BY <1>2, <1>0, <2>1 DEF StartAnswered, RestTyped, outside, Handle
  <2>5. QED
    BY <2>3, <2>4 DEF TypeInv
<1>3. CASE StartFailed
  <2>1. [Initial EXCEPT !.stage = "failed"] \in LoginFlowState
    BY <1>a, StageNames, WithStage
  <2>2. ui' \in LoginFlowState /\ CallTyped'
    BY <1>3, <1>0, <2>1, Handled DEF StartFailed
  <2>3. RestTyped'
    BY <1>3, <1>0 DEF StartFailed, RestTyped, refs, outside, Handle
  <2>4. QED
    BY <2>2, <2>3 DEF TypeInv
<1>4. CASE Expire
  <2>1. [ui EXCEPT !.stage = "expired"] \in LoginFlowState
    BY <1>0, StageNames, WithStage
  <2>2. CallTyped' /\ RestTyped'
    BY <1>4, <1>0 DEF Expire, CallTyped, RestTyped, refs, outside
  <2>3. QED
    BY <1>4, <2>1, <2>2 DEF TypeInv, Expire
<1>5. CASE Complete \/ ConfirmReplace
  <2>1. PICK t \in Token \cup {NoToken} : Submit(t)
    BY <1>5, <1>0, StateFields DEF Complete, ConfirmReplace
  <2>2. ui' \in LoginFlowState
    <3>1. [ui EXCEPT !.networkError = FALSE] \in LoginFlowState
      BY <1>0, WithNetworkError
    <3>2. [ui EXCEPT !.stage = "failed", !.networkError = FALSE] \in LoginFlowState
      <4>1. ASSUME NEW st \in Stages
            PROVE  [ui EXCEPT !.stage = st, !.networkError = FALSE] \in LoginFlowState
        BY <1>0 DEF LoginFlowState, Stages
      <4>2. QED
        BY <4>1, StageNames
    <3>3. QED
      BY <2>1, <3>1, <3>2 DEF Submit
  <2>3. CallTyped'
    <3>1. CASE flowId = NoFlow \/ secret = NoFlow
      BY <1>0, <2>1, <3>1 DEF Submit, CallTyped
    <3>2. CASE ~(flowId = NoFlow \/ secret = NoFlow)
      <4>1. flowId \in Flow
        BY <1>0, <3>2 DEF RestTyped
      <4>2. Sent(flowId, t) \in RequestState /\ NamesFlow("complete", Sent(flowId, t))
        BY <1>0, <4>1, SentRequest
      <4>3. QED
        BY <1>0, <2>1, <3>2, <4>2, CallUpdate DEF Submit
    <3>3. QED
      BY <3>1, <3>2
  <2>4. RestTyped'
    BY <1>0, <2>1 DEF Submit, RestTyped, refs, outside
  <2>5. QED
    BY <2>2, <2>3, <2>4 DEF TypeInv
<1>6. CASE DeclineReplace
  <2>1. [ui EXCEPT !.plan = NoToken, !.networkError = FALSE, !.stage = "needs-input"] \in LoginFlowState
    <3>1. ASSUME NEW st \in Stages
          PROVE  [ui EXCEPT !.plan = NoToken, !.networkError = FALSE, !.stage = st] \in LoginFlowState
      BY <1>0 DEF LoginFlowState, Stages
    <3>2. QED
      BY <3>1, StageNames
  <2>2. CallTyped'
    BY <1>6, <1>0 DEF DeclineReplace, CallTyped
  <2>3. ui.plan \in Token
    BY <1>6, <1>0, StateFields DEF DeclineReplace
  <2>4. RestTyped'
    BY <1>6, <1>0, <2>3 DEF DeclineReplace, RestTyped, refs, outside
  <2>5. QED
    BY <1>6, <2>1, <2>2, <2>4 DEF TypeInv, DeclineReplace
<1>7. CASE CompleteSaved
  <2> DEFINE next(a) == [ui EXCEPT !.stage = "saved", !.saved = IF a = NoFlow THEN @ ELSE a,
                                   !.plan = NoToken, !.networkError = FALSE]
  <2>1. \A a \in Account(call["complete"].flow) : next(a) \in LoginFlowState
    <3>1. ASSUME NEW st \in Stages, NEW v \in Flow \cup {NoFlow}
          PROVE  [ui EXCEPT !.stage = st, !.saved = v, !.plan = NoToken,
                 !.networkError = FALSE] \in LoginFlowState
      BY <1>0 DEF LoginFlowState, Stages
    <3>2. \A a \in Account(call["complete"].flow) :
             (IF a = NoFlow THEN ui.saved ELSE a) \in Flow \cup {NoFlow}
      BY <1>0, CallFields, StateFields DEF Account
    <3>3. QED
      BY <3>1, <3>2, StageNames
  <2>2. ui' \in LoginFlowState /\ CallTyped'
    <3>1. PICK a \in Account(call["complete"].flow) : Handle("complete", {"saved"}, next(a))
      BY <1>7 DEF CompleteSaved
    <3> HIDE DEF next
    <3>2. QED
      BY <1>0, <2>1, <3>1, Handled
  <2>3. RestTyped'
    BY <1>7, <1>0 DEF CompleteSaved, RestTyped, refs, outside, Handle
  <2>4. QED
    BY <2>2, <2>3 DEF TypeInv
<1>8. CASE CompleteConflict
  <2>1. [ui EXCEPT !.stage = "needs-input", !.plan = call["complete"].token,
                 !.networkError = FALSE] \in LoginFlowState
    <3>1. ASSUME NEW st \in Stages, NEW v \in Token \cup {NoToken}
          PROVE  [ui EXCEPT !.stage = st, !.plan = v,
                 !.networkError = FALSE] \in LoginFlowState
      BY <1>0 DEF LoginFlowState, Stages
    <3>2. call["complete"].token \in Token \cup {NoToken}
      BY <1>0, CallFields
    <3>3. QED
      BY <3>1, <3>2, StageNames
  <2>2. ui' \in LoginFlowState /\ CallTyped'
    BY <1>8, <1>0, <2>1, Handled DEF CompleteConflict
  <2>3. RestTyped'
    BY <1>8, <1>0 DEF CompleteConflict, RestTyped, refs, outside, Handle
  <2>4. QED
    BY <2>2, <2>3 DEF TypeInv
<1>9. CASE CompleteRejected
  <2>1. [ui EXCEPT !.stage = "failed", !.networkError = FALSE] \in LoginFlowState
    <3>1. ASSUME NEW st \in Stages
          PROVE  [ui EXCEPT !.stage = st, !.networkError = FALSE] \in LoginFlowState
      BY <1>0 DEF LoginFlowState, Stages
    <3>2. QED
      BY <3>1, StageNames
  <2>2. [ui EXCEPT !.networkError = FALSE] \in LoginFlowState
    BY <1>0, WithNetworkError
  <2>3. [ui EXCEPT !.networkError = TRUE] \in LoginFlowState
    BY <1>0, WithNetworkError
  <2>4. ui' \in LoginFlowState /\ CallTyped'
    BY <1>9, <1>0, <2>1, <2>2, <2>3, Handled DEF CompleteRejected
  <2>5. RestTyped'
    BY <1>9, <1>0 DEF CompleteRejected, RestTyped, refs, outside, Handle
  <2>6. QED
    BY <2>4, <2>5 DEF TypeInv
<1>10. CASE Cancel
  <2>1. flowId \in Flow
    BY <1>10, <1>0 DEF Cancel, RestTyped
  <2>2. /\ Sent(flowId, NoToken) \in RequestState
        /\ \A s \in Slot : NamesFlow(s, Sent(flowId, NoToken))
    BY <2>1, SentRequest
  <2>3. CallTyped'
    BY <1>10, <1>0, <2>2, CallUpdate DEF Cancel
  <2>4. ui' \in LoginFlowState
    BY <1>10, <1>0, WithNetworkError DEF Cancel
  <2>5. RestTyped'
    BY <1>10, <1>0 DEF Cancel, RestTyped, refs, outside
  <2>6. QED
    BY <2>3, <2>4, <2>5 DEF TypeInv
<1>11. CASE CancelDone
  <2>1. Cancelled \in LoginFlowState
    <3>1. ASSUME NEW st \in Stages
          PROVE  [ui EXCEPT !.stage = st, !.pollError = FALSE, !.plan = NoToken,
                            !.networkError = FALSE] \in LoginFlowState
      BY <1>0 DEF LoginFlowState, Stages
    <3>2. QED
      BY <3>1, StageNames DEF Cancelled
  <2>2. ui' \in LoginFlowState /\ CallTyped'
    BY <1>11, <1>0, <2>1, Handled DEF CancelDone
  <2>3. RestTyped'
    BY <1>11, <1>0 DEF CancelDone, RestTyped, refs, outside, Handle
  <2>4. QED
    BY <2>2, <2>3 DEF TypeInv
<1>12. CASE CancelFailed
  <2>1. [ui EXCEPT !.networkError = TRUE] \in LoginFlowState
    BY <1>0, WithNetworkError
  <2>2. ui' \in LoginFlowState /\ CallTyped'
    BY <1>12, <1>0, <2>1, Handled DEF CancelFailed
  <2>3. RestTyped'
    BY <1>12, <1>0 DEF CancelFailed, RestTyped, refs, outside, Handle
  <2>4. QED
    BY <2>2, <2>3 DEF TypeInv
<1>13. CASE ResumePolling
  <2>1. ASSUME NEW st \in Stages
        PROVE  [ui EXCEPT !.stage = st, !.pollFailures = 0, !.pollError = FALSE]
                    \in LoginFlowState
    BY <1>0, FailureCount DEF LoginFlowState, Stages
  <2>2. ui' \in LoginFlowState
    BY <1>13, <2>1, StageNames DEF ResumePolling
  <2>3. CallTyped' /\ RestTyped'
    BY <1>13, <1>0 DEF ResumePolling, CallTyped, RestTyped, refs, outside
  <2>4. QED
    BY <2>2, <2>3 DEF TypeInv
<1>14. CASE Reset \/ Unmount
  <2>1. ui' \in LoginFlowState
    BY <1>14, <1>0, <1>a DEF Reset, Unmount
  <2>2. CallTyped' /\ RestTyped'
    BY <1>14, <1>0 DEF Reset, Unmount, CallTyped, RestTyped, outside
  <2>3. QED
    BY <2>1, <2>2 DEF TypeInv
<1>15. ASSUME NEW p \in PollSlot, PollOnce(p) PROVE TypeInv'
  <2>1. flowId \in Flow
    BY <1>15, <1>0 DEF PollOnce, RestTyped
  <2>2. /\ Sent(flowId, NoToken) \in RequestState
        /\ \A s \in Slot : NamesFlow(s, Sent(flowId, NoToken))
    BY <2>1, SentRequest
  <2>3. CallTyped'
    BY <1>15, <1>0, <2>2, CallUpdate DEF PollOnce
  <2>4. RestTyped' /\ ui' = ui
    BY <1>15, <1>0 DEF PollOnce, RestTyped, refs, outside
  <2>5. QED
    BY <1>0, <2>3, <2>4 DEF TypeInv
<1>16. ASSUME NEW p \in PollSlot, PollAnswered(p) PROVE TypeInv'
  <2>1. call[p].answer \in OpenFlow \cup ClosedFlow
    BY <1>16 DEF PollAnswered, Handle
  <2>2. \A a \in Account(call[p].flow) : Applied(call[p].answer, a) \in LoginFlowState
    BY <1>0, <2>1, CallFields, AppliedTyped DEF Account
  <2>3. ui' \in LoginFlowState /\ CallTyped'
    BY <1>16, <1>0, <2>2, Handled DEF PollAnswered
  <2>4. RestTyped'
    BY <1>16, <1>0 DEF PollAnswered, Handle, PollEnds, RestTyped, refs, outside
  <2>5. QED
    BY <2>3, <2>4 DEF TypeInv
<1>17. ASSUME NEW p \in PollSlot, PollOdd(p) PROVE TypeInv'
  <2>1. [ui EXCEPT !.pollError = TRUE] \in LoginFlowState
    BY <1>0 DEF LoginFlowState
  <2>2. ui' \in LoginFlowState /\ CallTyped'
    BY <1>17, <1>0, <2>1, Handled DEF PollOdd
  <2>3. RestTyped'
    BY <1>17, <1>0 DEF PollOdd, Handle, PollEnds, RestTyped, refs, outside
  <2>4. QED
    BY <2>2, <2>3 DEF TypeInv
<1>18. ASSUME NEW p \in PollSlot, PollRefused(p) PROVE TypeInv'
  <2> DEFINE next == 
            [ui EXCEPT !.pollError = TRUE, !.pollFailures = NextFailure,
                       !.networkError = FALSE,
                       !.stage = CASE ui.poll = "identity_pending" -> "needs-input"
                                   [] ui.poll = "ready" -> "ready"
                                   [] OTHER -> "failed"]
  <2>1. NextFailure \in 0..MaxFailures
    BY <1>0, FailureCount
  <2>2. next \in LoginFlowState
    <3>1. ASSUME NEW st \in Stages
          PROVE  [ui EXCEPT !.pollError = TRUE, !.pollFailures = NextFailure,
                            !.networkError = FALSE, !.stage = st] \in LoginFlowState
      BY <1>0, <2>1 DEF LoginFlowState, Stages
    <3>2. QED
      BY <1>0, <3>1, StageNames, StateFields
  <2>3. Handle(p, {"unusable"}, next)
    BY <1>18 DEF PollRefused
  <2>4. ui' \in LoginFlowState /\ CallTyped'
    BY <1>0, <2>2, <2>3, Handled
  <2>5. RestTyped'
    BY <1>18, <1>0 DEF PollRefused, Handle, PollEnds, RestTyped, refs, outside
  <2>6. QED
    BY <2>4, <2>5 DEF TypeInv
<1>19. ASSUME NEW p \in PollSlot, PollFailed(p) PROVE TypeInv'
  <2> DEFINE next == 
            [ui EXCEPT !.pollError = TRUE, !.pollFailures = NextFailure,
                       !.stage = IF NextFailure >= MaxFailures THEN "failed" ELSE ui.stage]
  <2>1. NextFailure \in 0..MaxFailures
    BY <1>0, FailureCount
  <2>2. next \in LoginFlowState
    <3>1. ASSUME NEW st \in Stages
          PROVE  [ui EXCEPT !.pollError = TRUE, !.pollFailures = NextFailure,
                            !.stage = st] \in LoginFlowState
      BY <1>0, <2>1 DEF LoginFlowState, Stages
    <3>2. QED
      BY <1>0, <3>1, StageNames, StateFields
  <2>3. Handle(p, {"failed"}, next)
    BY <1>19 DEF PollFailed
  <2>4. ui' \in LoginFlowState /\ CallTyped'
    BY <1>0, <2>2, <2>3, Handled
  <2>5. RestTyped'
    BY <1>19, <1>0 DEF PollFailed, Handle, PollEnds, RestTyped, refs, outside
  <2>6. QED
    BY <2>4, <2>5 DEF TypeInv
<1>20. CASE ServeStart
  <2>1. CASE \E f \in Flow :
                /\ upstream[f] = "none"
                /\ upstream' = [upstream EXCEPT ![f] = "pending"]
                /\ Serve("start", f, NoToken, "started")
    <3>1. PICK f \in Flow :
                /\ upstream' = [upstream EXCEPT ![f] = "pending"]
                /\ Serve("start", f, NoToken, "started")
      BY <2>1
    <3>2. CallTyped'
      BY <1>0, <3>1, Served DEF Answers
    <3>3. QED
      BY <1>20, <1>0, <3>1, <3>2 DEF ServeStart, TypeInv, RestTyped, refs, OpenFlow
  <2>2. CASE Serve("start", NoFlow, NoToken, "failed") /\ UNCHANGED upstream
    <3>1. CallTyped'
      BY <1>0, <2>2, Served DEF Answers
    <3>2. QED
      BY <1>20, <1>0, <2>2, <3>1 DEF ServeStart, TypeInv, RestTyped, refs
  <2>3. QED
    BY <1>20, <2>1, <2>2 DEF ServeStart
<1>21. ASSUME NEW p \in PollSlot, ServePoll(p) PROVE TypeInv'
  <2>1. call[p].flow \in Flow
    BY <1>21, <1>0, CallFields DEF ServePoll
  <2>2. PICK a \in {upstream[call[p].flow], "odd", "unusable", "failed"} :
            Serve(p, call[p].flow, NoToken, a)
    BY <1>21 DEF ServePoll
  <2>3. a \in Answers /\ a # "sent"
    BY <1>0, <2>1 DEF RestTyped, Answers, OpenFlow, ClosedFlow
  <2>4. CallTyped'
    BY <1>0, <2>1, <2>2, <2>3, Served
  <2>5. QED
    BY <1>21, <1>0, <2>4 DEF ServePoll, TypeInv, RestTyped, refs, outside
<1>22. CASE ServeComplete
  <2> DEFINE f == call["complete"].flow
  <2>1. f \in Flow
    BY <1>22, <1>0, CallFields DEF ServeComplete
  <2>2. \E t \in Token \cup {NoToken},
           a \in {"saved", "failed", "conflict", "rejected", "unusable"} :
              Serve("complete", f, t, a)
    BY <1>22 DEF ServeComplete
  <2>3. CallTyped'
    BY <1>0, <2>1, <2>2, Served DEF Answers
  <2>4. RestTyped'
    BY <1>22, <1>0, <2>1 DEF ServeComplete, RestTyped, refs, outside, ClosedFlow
  <2>5. QED
    BY <1>22, <1>0, <2>3, <2>4 DEF ServeComplete, TypeInv
<1>23. CASE ServeCancel
  <2> DEFINE f == call["cancel"].flow
  <2>1. f \in Flow
    BY <1>23, <1>0, CallFields DEF ServeCancel
  <2>2. \E a \in {"done", "failed"} : Serve("cancel", f, NoToken, a)
    BY <1>23 DEF ServeCancel
  <2>3. CallTyped'
    BY <1>0, <2>1, <2>2, Served DEF Answers
  <2>4. RestTyped'
    BY <1>23, <1>0, <2>1 DEF ServeCancel, RestTyped, refs, ClosedFlow
  <2>5. QED
    BY <1>23, <1>0, <2>3, <2>4 DEF ServeCancel, TypeInv
<1>24. ASSUME NEW f \in Flow, Progress(f) PROVE TypeInv'
  <2>1. CallTyped'
    BY <1>24, <1>0 DEF Progress, CallTyped
  <2>2. RestTyped'
    BY <1>24, <1>0 DEF Progress, RestTyped, refs, OpenFlow, ClosedFlow
  <2>3. QED
    BY <1>24, <1>0, <2>1, <2>2 DEF Progress, TypeInv
<1>25. CASE UNCHANGED flowVars
  BY <1>25, <1>0 DEF flowVars, refs, outside, TypeInv, CallTyped, RestTyped
<1>26. QED
  BY <1>1, <1>2, <1>3, <1>4, <1>5, <1>6, <1>7, <1>8, <1>9, <1>10,
     <1>11, <1>12, <1>13, <1>14, <1>15, <1>16, <1>17, <1>18, <1>19, <1>20, <1>21,
     <1>22, <1>23, <1>24, <1>25 DEF Next, PollHandled

\* Every variable keeps its type; the secret in memory is that of the flow whose
\* id is, so no request carries the secret of another flow.
THEOREM FlowTyping == Spec => []FlowTypeOK
<1>1. Init => TypeInv
  BY LoginFlowAssumption, InitialState, IdleRequest
     DEF Init, TypeInv, CallTyped, RestTyped
<1>2. TypeInv => FlowTypeOK
  BY DEF TypeInv, FlowTypeOK, CallTyped, RestTyped
<1>3. QED
  BY <1>1, <1>2, TypeStep, PTL DEF Spec

-----------------------------------------------------------------------------
(* Replacement tokens.                                                     *)

\* A token still at hand, offered to the user or on its way to the upstream or
\* back, was issued and not declined.
AtHand(t) == t # NoToken => t \in issued \ declined

TokensAtHand ==
    /\ declined \subseteq issued
    /\ AtHand(ui.plan)
    /\ call["complete"].answer \in {"sent", "conflict"}
       => AtHand(call["complete"].token)

DeclinedInv == TypeInv /\ TokensAtHand

\* What nearly every action leaves of it: the plan is kept or dropped, and so is
\* the completion under way.
PlanKept == ui'.plan \in {ui.plan, NoToken}
CompleteKept == call'["complete"] \in {call["complete"], Idle}
TokensKept == PlanKept /\ CompleteKept /\ UNCHANGED <<issued, declined>>

LEMMA KeptStep == TokensAtHand /\ TokensKept => TokensAtHand'
BY DEF TokensAtHand, TokensKept, PlanKept, CompleteKept, AtHand, Idle

LEMMA HandledKept ==
    ASSUME TypeInv, NEW s \in Slot, NEW answers, NEW next,
           Handle(s, answers, next), next.plan \in {ui.plan, NoToken}
    PROVE  PlanKept /\ CompleteKept
BY DEF TypeInv, CallTyped, Slot, Handle, PlanKept, CompleteKept

LEMMA OtherSlot ==
    ASSUME TypeInv, NEW s \in Slot, s # "complete", NEW r,
           call' = [call EXCEPT ![s] = r]
    PROVE  CompleteKept
BY DEF TypeInv, CallTyped, Slot, CompleteKept

LEMMA TokenStep == DeclinedInv /\ [Next]_flowVars => TokensAtHand'
<1> SUFFICES ASSUME DeclinedInv, [Next]_flowVars PROVE TokensAtHand'
  OBVIOUS
<1>0. /\ TypeInv /\ TokensAtHand /\ ui \in LoginFlowState
      /\ \A p \in PollSlot : p \in Slot /\ p # "complete"
      /\ {"start", "complete", "cancel"} \subseteq Slot
      /\ CallTyped
  BY LoginFlowAssumption DEF DeclinedInv, TypeInv, Slot
<1> USE DEF refs, outside
<1>1. CASE Start
  <2>1. CompleteKept
    BY <1>1, <1>0, OtherSlot DEF Start
  <2>2. QED
    BY <1>1, <1>0, <2>1, KeptStep DEF Start, TokensKept, PlanKept, Initial
<1>2. CASE StartAnswered
  <2>1. PlanKept /\ CompleteKept
    BY <1>2, <1>0, HandledKept DEF StartAnswered, Initial
  <2>2. QED
    BY <1>2, <1>0, <2>1, KeptStep DEF StartAnswered, TokensKept
<1>3. CASE StartFailed
  <2>1. PlanKept /\ CompleteKept
    BY <1>3, <1>0, HandledKept DEF StartFailed, Initial
  <2>2. QED
    BY <1>3, <1>0, <2>1, KeptStep DEF StartFailed, TokensKept
<1>4. ASSUME NEW p \in PollSlot, PollOnce(p) \/ ServePoll(p) PROVE TokensAtHand'
  <2>1. CompleteKept
    BY <1>4, <1>0, OtherSlot DEF PollOnce, ServePoll, Serve
  <2>2. QED
    BY <1>4, <1>0, <2>1, KeptStep DEF PollOnce, ServePoll, TokensKept, PlanKept
<1>5. ASSUME NEW p \in PollSlot, PollHandled(p) PROVE TokensAtHand'
  <2>1. CASE PollAnswered(p)
    <3>1. \A a : Applied(call[p].answer, a).plan = ui.plan
      BY <1>0 DEF Applied, LoginFlowState
    <3>2. PlanKept /\ CompleteKept
      BY <2>1, <1>0, <3>1, HandledKept DEF PollAnswered
    <3>3. QED
      BY <2>1, <1>0, <3>2, KeptStep DEF PollAnswered, PollEnds, TokensKept
  <2>2. CASE PollOdd(p)
    <3>1. PlanKept /\ CompleteKept
      BY <2>2, <1>0, HandledKept DEF PollOdd, LoginFlowState
    <3>2. QED
      BY <2>2, <1>0, <3>1, KeptStep DEF PollOdd, PollEnds, TokensKept
  <2>3. CASE PollRefused(p)
    <3>1. PlanKept /\ CompleteKept
      BY <2>3, <1>0, HandledKept DEF PollRefused, LoginFlowState
    <3>2. QED
      BY <2>3, <1>0, <3>1, KeptStep DEF PollRefused, PollEnds, TokensKept
  <2>4. CASE PollFailed(p)
    <3>1. PlanKept /\ CompleteKept
      BY <2>4, <1>0, HandledKept DEF PollFailed, LoginFlowState
    <3>2. QED
      BY <2>4, <1>0, <3>1, KeptStep DEF PollFailed, PollEnds, TokensKept
  <2>5. QED
    BY <1>5, <2>1, <2>2, <2>3, <2>4 DEF PollHandled
<1>6. CASE Expire \/ ResumePolling \/ Reset \/ Unmount
  <2>1. PlanKept
    <3>1. CASE ResumePolling
      <4>1. \A st : [ui EXCEPT !.stage = st, !.pollFailures = 0,
                               !.pollError = FALSE].plan = ui.plan
        BY <1>0 DEF LoginFlowState
      <4>2. PICK st : ui' = [ui EXCEPT !.stage = st, !.pollFailures = 0,
                                       !.pollError = FALSE]
        BY <3>1 DEF ResumePolling
      <4>3. QED
        BY <4>1, <4>2 DEF PlanKept
    <3>2. CASE Expire \/ Reset \/ Unmount
      BY <3>2, <1>0 DEF Expire, Reset, Unmount, Initial, PlanKept, LoginFlowState
    <3>3. QED
      BY <1>6, <3>1, <3>2
  <2>2. QED
    BY <1>6, <1>0, <2>1, KeptStep
       DEF Expire, ResumePolling, Reset, Unmount, TokensKept, CompleteKept
<1>7. ASSUME NEW t \in {NoToken, ui.plan}, Submit(t) PROVE TokensAtHand'
  <2>1. ui'.plan = ui.plan
    BY <1>7, <1>0 DEF Submit, LoginFlowState
  <2>2. CASE UNCHANGED call
    BY <1>7, <1>0, <2>1, <2>2, KeptStep DEF Submit, TokensKept, PlanKept, CompleteKept
  <2>3. CASE call' = [call EXCEPT !["complete"] = Sent(flowId, t)]
    <3>1. call'["complete"].token = t
      BY <2>3, <1>0 DEF CallTyped, Sent
    <3>2. AtHand(t)
      BY <1>0 DEF TokensAtHand, AtHand
    <3>3. QED
      BY <1>7, <1>0, <2>1, <3>1, <3>2 DEF Submit, TokensAtHand, AtHand
  <2>4. QED
    BY <1>7, <2>2, <2>3 DEF Submit
<1>8. CASE DeclineReplace
  <2>1. ui'.plan = NoToken
    BY <1>8, <1>0 DEF DeclineReplace, LoginFlowState
  <2>2. call'["complete"].answer = "idle"
    BY <1>8 DEF DeclineReplace, Idle
  <2>3. QED
    BY <1>8, <1>0, <2>1, <2>2 DEF DeclineReplace, TokensAtHand, AtHand
<1>9. CASE CompleteSaved
  <2>1. PlanKept /\ CompleteKept
    BY <1>9, <1>0, HandledKept DEF CompleteSaved, LoginFlowState
  <2>2. QED
    BY <1>9, <1>0, <2>1, KeptStep DEF CompleteSaved, TokensKept
<1>10. CASE CompleteConflict
  <2>1. call["complete"].answer = "conflict"
    BY <1>10 DEF CompleteConflict, Handle
  <2>2. ui'.plan \in {ui.plan, call["complete"].token}
    BY <1>10, <1>0 DEF CompleteConflict, Handle, LoginFlowState
  <2>3. call'["complete"].answer = "idle"
    BY <1>10, <1>0 DEF CompleteConflict, Handle, Idle, CallTyped
  <2>4. QED
    BY <1>10, <1>0, <2>1, <2>2, <2>3 DEF CompleteConflict, TokensAtHand, AtHand
<1>11. CASE CompleteRejected
  <2>1. PlanKept /\ CompleteKept
    BY <1>11, <1>0, HandledKept DEF CompleteRejected, LoginFlowState
  <2>2. QED
    BY <1>11, <1>0, <2>1, KeptStep DEF CompleteRejected, TokensKept
<1>12. CASE Cancel
  <2>1. CompleteKept
    BY <1>12, <1>0, OtherSlot DEF Cancel
  <2>2. PlanKept
    BY <1>12, <1>0 DEF Cancel, PlanKept, LoginFlowState
  <2>3. QED
    BY <1>12, <1>0, <2>1, <2>2, KeptStep DEF Cancel, TokensKept
<1>13. CASE CancelDone
  <2>1. PlanKept /\ CompleteKept
    BY <1>13, <1>0, HandledKept DEF CancelDone, Cancelled, LoginFlowState
  <2>2. QED
    BY <1>13, <1>0, <2>1, KeptStep DEF CancelDone, TokensKept
<1>14. CASE CancelFailed
  <2>1. PlanKept /\ CompleteKept
    BY <1>14, <1>0, HandledKept DEF CancelFailed, LoginFlowState
  <2>2. QED
    BY <1>14, <1>0, <2>1, KeptStep DEF CancelFailed, TokensKept
<1>15. CASE ServeStart
  <2>1. CompleteKept
    BY <1>15, <1>0, OtherSlot DEF ServeStart, Serve
  <2>2. QED
    BY <1>15, <1>0, <2>1, KeptStep DEF ServeStart, TokensKept, PlanKept
<1>16. CASE ServeCancel
  <2>1. CompleteKept
    BY <1>16, <1>0, OtherSlot DEF ServeCancel, Serve
  <2>2. QED
    BY <1>16, <1>0, <2>1, KeptStep DEF ServeCancel, TokensKept, PlanKept
<1>17. CASE ServeComplete
  <2>1. ui'.plan = ui.plan /\ declined' = declined
    BY <1>17 DEF ServeComplete
  <2>2. CASE \E t \in Token \ issued :
                issued' = issued \cup {t}
                /\ Serve("complete", call["complete"].flow, t, "conflict")
    <3>1. PICK t \in Token \ issued :
                issued' = issued \cup {t}
                /\ Serve("complete", call["complete"].flow, t, "conflict")
      BY <2>2
    <3>2. call'["complete"].token = t
      BY <3>1, <1>0 DEF Serve, CallTyped
    <3>3. QED
      BY <1>0, <2>1, <3>1, <3>2 DEF TokensAtHand, AtHand
  <2>3. CASE /\ issued' = issued
             /\ \E a \in {"saved", "failed", "rejected", "unusable"} :
                   Serve("complete", call["complete"].flow, NoToken, a)
    <3>1. call'["complete"].token = NoToken
      BY <2>3, <1>0 DEF Serve, CallTyped
    <3>2. QED
      BY <1>0, <2>1, <2>3, <3>1 DEF TokensAtHand, AtHand
  <2>4. QED
    BY <1>17, <2>2, <2>3 DEF ServeComplete
<1>18. CASE (\E f \in Flow : Progress(f)) \/ UNCHANGED flowVars
  BY <1>18, <1>0, KeptStep DEF Progress, flowVars, TokensKept, PlanKept, CompleteKept
<1>19. CASE Complete \/ ConfirmReplace
  BY <1>19, <1>7 DEF Complete, ConfirmReplace
<1>20. QED
  BY <1>1, <1>2, <1>3, <1>4, <1>5, <1>6, <1>8, <1>9, <1>10, <1>11, <1>12, <1>13,
     <1>14, <1>15, <1>16, <1>17, <1>18, <1>19 DEF Next

\* A token the user declined is never sent.  The token at hand is only ever one
\* that was issued afterwards, which the property alone does not say.
THEOREM FlowDeclined == Spec => []DeclinedNeverSent
<1>1. Init => DeclinedInv
  <2>1. Init => TypeInv
    BY LoginFlowAssumption, InitialState, IdleRequest
       DEF Init, TypeInv, CallTyped, RestTyped
  <2>2. Init => TokensAtHand
    BY DEF Init, TokensAtHand, AtHand, Initial, Idle, Slot
  <2>3. QED
    BY <2>1, <2>2 DEF DeclinedInv
<1>2. DeclinedInv /\ [Next]_flowVars => DeclinedInv'
  BY TypeStep, TokenStep DEF DeclinedInv
<1>3. DeclinedInv => DeclinedNeverSent
  BY LoginFlowAssumption
     DEF DeclinedInv, TypeInv, RestTyped, TokensAtHand, AtHand, DeclinedNeverSent
<1>4. QED
  BY <1>1, <1>2, <1>3, PTL DEF Spec

-----------------------------------------------------------------------------
(* What the page claims.                                                   *)

\* An answer that says a flow was completed or cancelled is borne out by the
\* upstream.
BorneOut(r, up) ==
    /\ r.answer \in {"completed", "saved"} => r.flow \in Flow /\ up[r.flow] = "completed"
    /\ r.answer \in {"cancelled", "done"} => r.flow \in Flow /\ up[r.flow] = "cancelled"

AnswersBorneOut == \A s \in Slot : BorneOut(call[s], upstream)

TruthInv == TypeInv /\ AnswersBorneOut /\ OutcomeTruthful

\* A flow that is completed or cancelled stays so.
ClosedStays ==
    \A f \in Flow : upstream[f] \in {"completed", "cancelled"}
                    => upstream'[f] = upstream[f]

\* A next state of the hook that claims nothing new.
Harmless(u) ==
    \/ u.stage = ui.stage /\ u.saved = ui.saved
    \/ u.stage \notin {"saved", "cancelled"} /\ u.saved \in {ui.saved, NoFlow}

LEMMA HarmlessStep ==
    ASSUME TruthInv, ClosedStays, Harmless(ui')
    PROVE  OutcomeTruthful'
<1>1. ui.saved \in Flow \cup {NoFlow}
  BY DEF TruthInv, TypeInv, LoginFlowState
<1>2. ui'.saved \in {ui.saved, NoFlow}
  BY DEF Harmless
<1>3. ui'.saved # NoFlow => upstream'[ui'.saved] = "completed"
  BY <1>1, <1>2 DEF TruthInv, OutcomeTruthful, ClosedStays
<1>4. ui'.stage = "saved" => \E f \in Flow : upstream'[f] = "completed"
  BY DEF TruthInv, OutcomeTruthful, Harmless, ClosedStays
<1>5. ui'.stage = "cancelled" => \E f \in Flow : upstream'[f] = "cancelled"
  BY DEF TruthInv, OutcomeTruthful, Harmless, ClosedStays
<1>6. QED
  BY <1>3, <1>4, <1>5 DEF OutcomeTruthful

LEMMA AnswersKept ==
    ASSUME TruthInv, ClosedStays, UNCHANGED call
    PROVE  AnswersBorneOut'
BY DEF TruthInv, AnswersBorneOut, BorneOut, ClosedStays

LEMMA AnswerStep ==
    ASSUME TruthInv, ClosedStays, NEW s \in Slot, NEW r, BorneOut(r, upstream'),
           call' = [call EXCEPT ![s] = r]
    PROVE  AnswersBorneOut'
<1>1. \A q \in Slot : call'[q] = IF q = s THEN r ELSE call[q]
  BY DEF TruthInv, TypeInv, CallTyped
<1>2. \A q \in Slot : BorneOut(call[q], upstream')
  BY DEF TruthInv, AnswersBorneOut, BorneOut, ClosedStays
<1>3. QED
  BY <1>1, <1>2 DEF AnswersBorneOut

LEMMA NothingClaimed ==
    ASSUME NEW r, r.answer \notin {"completed", "saved", "cancelled", "done"}, NEW up
    PROVE  BorneOut(r, up)
BY DEF BorneOut

LEMMA SameUpstream == UNCHANGED upstream => ClosedStays
BY DEF ClosedStays

LEMMA HandledTruth ==
    ASSUME TruthInv, NEW s \in Slot, NEW answers, NEW next, Handle(s, answers, next),
           Harmless(next), UNCHANGED upstream
    PROVE  AnswersBorneOut' /\ OutcomeTruthful'
<1>1. ClosedStays
  BY SameUpstream
<1>2. Harmless(ui')
  BY DEF Handle, Harmless
<1>3. BorneOut(Idle, upstream')
  BY NothingClaimed DEF Idle
<1>4. QED
  BY <1>1, <1>2, <1>3, HarmlessStep, AnswerStep DEF Handle

LEMMA TruthStep == TruthInv /\ [Next]_flowVars => AnswersBorneOut' /\ OutcomeTruthful'
<1> SUFFICES ASSUME TruthInv, [Next]_flowVars PROVE AnswersBorneOut' /\ OutcomeTruthful'
  OBVIOUS
<1>0. /\ TypeInv /\ AnswersBorneOut /\ OutcomeTruthful /\ ui \in LoginFlowState
      /\ CallTyped /\ RestTyped
      /\ PollSlot \subseteq Slot \ {"start"}
      /\ {"start", "complete", "cancel"} \subseteq Slot
  BY SlotNames DEF TruthInv, TypeInv
<1>s. \A s \in Slot : call[s].answer \in {"completed", "saved"}
                      => call[s].flow \in Flow /\ call[s].flow # NoFlow
                         /\ upstream[call[s].flow] = "completed"
  BY <1>0, LoginFlowAssumption DEF AnswersBorneOut, BorneOut
<1>c. \A s \in Slot : call[s].answer \in {"cancelled", "done"}
                      => call[s].flow \in Flow /\ upstream[call[s].flow] = "cancelled"
  BY <1>0 DEF AnswersBorneOut, BorneOut
<1> USE DEF refs, outside
\* Requests go out, and the buttons and the timer that claim nothing.
<1>1. ASSUME NEW s \in Slot, NEW f, NEW t, call' = [call EXCEPT ![s] = Sent(f, t)],
             Harmless(ui'), UNCHANGED upstream
      PROVE  AnswersBorneOut' /\ OutcomeTruthful'
  <2>1. BorneOut(Sent(f, t), upstream')
    BY NothingClaimed DEF Sent
  <2>2. QED
    BY <1>1, <2>1, SameUpstream, AnswerStep, HarmlessStep
<1>2. ASSUME UNCHANGED call, Harmless(ui'), UNCHANGED upstream
      PROVE  AnswersBorneOut' /\ OutcomeTruthful'
  BY <1>2, SameUpstream, AnswersKept, HarmlessStep
<1>3. CASE Start
  BY <1>3, <1>1, <1>0 DEF Start, Harmless, Initial
<1>4. ASSUME NEW p \in PollSlot, PollOnce(p) PROVE AnswersBorneOut' /\ OutcomeTruthful'
  BY <1>4, <1>1, <1>0 DEF PollOnce, Harmless
<1>5. ASSUME NEW t, Submit(t) PROVE AnswersBorneOut' /\ OutcomeTruthful'
  <2>1. Harmless(ui')
    BY <1>5, <1>0 DEF Submit, Harmless, LoginFlowState
  <2>2. QED
    BY <1>5, <1>0, <2>1, <1>1, <1>2 DEF Submit
<1>6. CASE Complete \/ ConfirmReplace
  BY <1>6, <1>5 DEF Complete, ConfirmReplace
<1>7. CASE Cancel
  <2>1. Harmless(ui')
    BY <1>7, <1>0 DEF Cancel, Harmless, LoginFlowState
  <2>2. QED
    BY <1>7, <1>0, <2>1, <1>1 DEF Cancel
<1>8. CASE Expire
  BY <1>8, <1>0, <1>2 DEF Expire, Harmless, LoginFlowState
<1>9. CASE DeclineReplace
  BY <1>9, <1>0, <1>2 DEF DeclineReplace, Harmless, LoginFlowState
<1>10. CASE ResumePolling
  <2>1. \A st : /\ [ui EXCEPT !.stage = st, !.pollFailures = 0,
                              !.pollError = FALSE].stage = st
                /\ [ui EXCEPT !.stage = st, !.pollFailures = 0,
                              !.pollError = FALSE].saved = ui.saved
    BY <1>0 DEF LoginFlowState
  <2>2. PICK st \in {"needs-input", "ready", "waiting"} :
            ui' = [ui EXCEPT !.stage = st, !.pollFailures = 0, !.pollError = FALSE]
    BY <1>10 DEF ResumePolling
  <2>3. Harmless(ui')
    BY <2>1, <2>2 DEF Harmless
  <2>4. QED
    BY <1>10, <1>2, <2>3 DEF ResumePolling
<1>11. CASE Reset \/ Unmount
  BY <1>11, <1>2 DEF Reset, Unmount, Harmless, Initial
\* Answers are handled.
<1>12. CASE StartAnswered
  BY <1>12, <1>0, HandledTruth DEF StartAnswered, Harmless, Initial
<1>13. CASE StartFailed
  BY <1>13, <1>0, HandledTruth DEF StartFailed, Harmless, Initial
<1>14. ASSUME NEW p \in PollSlot, PollAnswered(p)
       PROVE  AnswersBorneOut' /\ OutcomeTruthful'
  <2>a. PICK a \in Account(call[p].flow) :
            Handle(p, OpenFlow \cup ClosedFlow, Applied(call[p].answer, a))
    BY <1>14 DEF PollAnswered
  <2> DEFINE next == Applied(call[p].answer, a)
  <2>1. /\ next.stage = StageAfter(call[p].answer)
        /\ next.saved = IF call[p].answer = "completed" /\ a # NoFlow THEN a ELSE ui.saved
    BY <1>0 DEF Applied, LoginFlowState
  <2>2. UNCHANGED upstream /\ Handle(p, OpenFlow \cup ClosedFlow, next)
    BY <1>14, <2>a DEF PollAnswered, PollEnds
  <2>3. CASE call[p].answer \in {"completed", "cancelled"} /\ mounted
    <3>1. AnswersBorneOut'
      BY <2>2, <1>0, SameUpstream, NothingClaimed, AnswerStep DEF Handle, Idle
    <3>2. ui'.stage = next.stage /\ ui'.saved = next.saved
      BY <2>2, <2>3 DEF Handle
    <3>3. CASE call[p].answer = "completed"
      <4>1. ui'.stage = "saved" /\ ui'.saved \in {call[p].flow, ui.saved}
        BY <3>2, <3>3, <2>1 DEF StageAfter, Account
      <4>2. QED
        BY <3>1, <3>3, <4>1, <2>2, <1>s, <1>0 DEF OutcomeTruthful
    <3>4. CASE call[p].answer = "cancelled"
      <4>1. ui'.stage = "cancelled" /\ ui'.saved = ui.saved
        BY <3>2, <3>4, <2>1 DEF StageAfter
      <4>2. QED
        BY <3>1, <3>4, <4>1, <2>2, <1>c, <1>0 DEF OutcomeTruthful
    <3>5. QED
      BY <2>3, <3>3, <3>4
  <2>4. CASE call[p].answer \notin {"completed", "cancelled"}
    <3>1. Harmless(next)
      BY <2>1, <2>2, <2>4 DEF Harmless, StageAfter, Handle, OpenFlow, ClosedFlow
    <3>2. QED
      BY <2>2, <3>1, <1>0, HandledTruth
  <2>5. CASE ~mounted
    <3>1. Handle(p, OpenFlow \cup ClosedFlow, ui)
      BY <2>2, <2>5 DEF Handle
    <3>2. QED
      BY <2>2, <3>1, <1>0, HandledTruth DEF Harmless
  <2>6. QED
    BY <2>3, <2>4, <2>5
<1>15. ASSUME NEW p \in PollSlot, PollOdd(p)
       PROVE  AnswersBorneOut' /\ OutcomeTruthful'
  BY <1>15, <1>0, HandledTruth DEF PollOdd, PollEnds, Harmless, LoginFlowState
<1>16. ASSUME NEW p \in PollSlot, PollRefused(p) \/ PollFailed(p)
       PROVE  AnswersBorneOut' /\ OutcomeTruthful'
  <2>1. UNCHANGED upstream
    BY <1>16 DEF PollRefused, PollFailed, PollEnds
  <2>2. CASE PollRefused(p)
    <3>1. \A st : [ui EXCEPT !.pollError = TRUE, !.pollFailures = NextFailure,
                             !.networkError = FALSE, !.stage = st].stage = st
      BY <1>0 DEF LoginFlowState
    <3>2. \A st : [ui EXCEPT !.pollError = TRUE, !.pollFailures = NextFailure,
                             !.networkError = FALSE, !.stage = st].saved = ui.saved
      BY <1>0 DEF LoginFlowState
    <3>3. PICK st \in {"needs-input", "ready", "failed"} :
              Handle(p, {"unusable"},
                     [ui EXCEPT !.pollError = TRUE, !.pollFailures = NextFailure,
                                !.networkError = FALSE, !.stage = st])
      BY <2>2 DEF PollRefused
    <3>4. Harmless([ui EXCEPT !.pollError = TRUE, !.pollFailures = NextFailure,
                              !.networkError = FALSE, !.stage = st])
      BY <3>1, <3>2 DEF Harmless
    <3>5. QED
      BY <2>1, <3>3, <3>4, <1>0, HandledTruth
  <2>3. CASE PollFailed(p)
    <3>1. \A st : [ui EXCEPT !.pollError = TRUE, !.pollFailures = NextFailure,
                             !.stage = st].stage = st
      BY <1>0 DEF LoginFlowState
    <3>2. \A st : [ui EXCEPT !.pollError = TRUE, !.pollFailures = NextFailure,
                             !.stage = st].saved = ui.saved
      BY <1>0 DEF LoginFlowState
    <3>3. PICK st \in {"failed", ui.stage} :
              Handle(p, {"failed"},
                     [ui EXCEPT !.pollError = TRUE, !.pollFailures = NextFailure,
                                !.stage = st])
      BY <2>3 DEF PollFailed
    <3>4. Harmless([ui EXCEPT !.pollError = TRUE, !.pollFailures = NextFailure,
                              !.stage = st])
      BY <3>1, <3>2 DEF Harmless
    <3>5. QED
      BY <2>1, <3>3, <3>4, <1>0, HandledTruth
  <2>4. QED
    BY <1>16, <2>2, <2>3
<1>17. CASE CompleteSaved
  <2>1. AnswersBorneOut'
    BY <1>17, <1>0, SameUpstream, NothingClaimed, AnswerStep
       DEF CompleteSaved, Handle, Idle
  <2>2. CASE mounted
    <3>1. ui'.stage = "saved" /\ ui'.saved \in {call["complete"].flow, ui.saved}
      BY <1>17, <1>0, <2>2 DEF CompleteSaved, Account, Handle, LoginFlowState
    <3>2. call["complete"].answer = "saved" /\ UNCHANGED upstream
      BY <1>17 DEF CompleteSaved, Handle
    <3>3. QED
      BY <2>1, <3>1, <3>2, <1>s, <1>0 DEF OutcomeTruthful
  <2>3. CASE ~mounted
    BY <1>17, <2>1, <2>3, SameUpstream, HarmlessStep DEF CompleteSaved, Handle, Harmless
  <2>4. QED
    BY <2>2, <2>3
<1>18. CASE CompleteConflict
  BY <1>18, <1>0, HandledTruth DEF CompleteConflict, Harmless, LoginFlowState
<1>19. CASE CompleteRejected
  BY <1>19, <1>0, HandledTruth DEF CompleteRejected, Harmless, LoginFlowState
<1>20. CASE CancelDone
  <2>1. AnswersBorneOut'
    BY <1>20, <1>0, SameUpstream, NothingClaimed, AnswerStep
       DEF CancelDone, Handle, Idle
  <2>2. CASE mounted
    <3>1. ui'.stage = "cancelled" /\ ui'.saved = ui.saved
      BY <1>20, <1>0, <2>2 DEF CancelDone, Cancelled, Handle, LoginFlowState
    <3>2. call["cancel"].answer = "done" /\ UNCHANGED upstream
      BY <1>20 DEF CancelDone, Handle
    <3>3. QED
      BY <2>1, <3>1, <3>2, <1>c, <1>0 DEF OutcomeTruthful
  <2>3. CASE ~mounted
    BY <1>20, <2>1, <2>3, SameUpstream, HarmlessStep DEF CancelDone, Handle, Harmless
  <2>4. QED
    BY <2>2, <2>3
<1>21. CASE CancelFailed
  BY <1>21, <1>0, HandledTruth DEF CancelFailed, Harmless, LoginFlowState
\* The upstream acts.
<1>22. ASSUME NEW s \in Slot, NEW f, NEW t, NEW a, Serve(s, f, t, a), UNCHANGED ui,
              ClosedStays,
              a \in {"completed", "saved"} => f \in Flow /\ upstream'[f] = "completed",
              a \in {"cancelled", "done"} => f \in Flow /\ upstream'[f] = "cancelled"
       PROVE  AnswersBorneOut' /\ OutcomeTruthful'
  <2>1. BorneOut([flow |-> f, token |-> t, answer |-> a], upstream')
    BY <1>22 DEF BorneOut
  <2>2. QED
    BY <1>22, <2>1, AnswerStep, HarmlessStep DEF Serve, Harmless
<1>23. \A f \in Flow : \A st :
          /\ upstream[f] \notin {"completed", "cancelled"}
          /\ upstream' = [upstream EXCEPT ![f] = st]
          => ClosedStays
  BY <1>0 DEF RestTyped, ClosedStays
<1>24. \A f \in Flow : \A st :
          upstream' = [upstream EXCEPT ![f] = st] => upstream'[f] = st
  BY <1>0 DEF RestTyped
<1>25. CASE ServeStart
  BY <1>25, <1>0, <1>22, <1>23, SameUpstream DEF ServeStart
<1>26. ASSUME NEW p \in PollSlot, ServePoll(p)
       PROVE  AnswersBorneOut' /\ OutcomeTruthful'
  <2>1. call[p].flow \in Flow
    BY <1>26, <1>0, CallFields DEF ServePoll
  <2>2. PICK a \in {upstream[call[p].flow], "odd", "unusable", "failed"} :
            Serve(p, call[p].flow, NoToken, a)
    BY <1>26 DEF ServePoll
  <2>3. a \notin {"saved", "done"} /\ UNCHANGED <<ui, upstream>>
    BY <1>26, <1>0, <2>1, <2>2 DEF ServePoll, RestTyped, OpenFlow, ClosedFlow
  <2>4. QED
    BY <1>0, <2>1, <2>2, <2>3, <1>22, SameUpstream
<1>27. CASE ServeComplete
  <2> DEFINE f == call["complete"].flow
  <2>1. f \in Flow
    BY <1>27, <1>0, CallFields DEF ServeComplete
  <2>2. CASE /\ upstream[f] \in OpenFlow
             /\ upstream' = [upstream EXCEPT ![f] = "completed"]
             /\ \E a \in {"saved", "failed"} : Serve("complete", f, NoToken, a)
    BY <1>27, <2>2, <2>1, <1>0, <1>22, <1>23, <1>24 DEF ServeComplete, OpenFlow
  <2>3. CASE /\ UNCHANGED upstream
             /\ \E t \in Token \cup {NoToken},
                   a \in {"conflict", "failed", "rejected", "unusable"} :
                      Serve("complete", f, t, a)
    BY <1>27, <2>3, <1>0, <1>22, SameUpstream DEF ServeComplete
  <2>4. QED
    BY <1>27, <2>2, <2>3 DEF ServeComplete
<1>28. CASE ServeCancel
  <2> DEFINE f == call["cancel"].flow
  <2>1. f \in Flow
    BY <1>28, <1>0, CallFields DEF ServeCancel
  <2>2. CASE /\ upstream[f] \in OpenFlow
             /\ upstream' = [upstream EXCEPT ![f] = "cancelled"]
             /\ \E a \in {"done", "failed"} : Serve("cancel", f, NoToken, a)
    BY <1>28, <2>2, <2>1, <1>0, <1>22, <1>23, <1>24 DEF ServeCancel, OpenFlow
  <2>3. CASE UNCHANGED upstream /\ Serve("cancel", f, NoToken, "failed")
    BY <1>28, <2>3, <1>0, <1>22, SameUpstream DEF ServeCancel
  <2>4. QED
    BY <1>28, <2>2, <2>3 DEF ServeCancel
<1>29. ASSUME NEW f \in Flow, Progress(f) PROVE AnswersBorneOut' /\ OutcomeTruthful'
  <2>1. ClosedStays
    BY <1>29, <1>23 DEF Progress, OpenFlow
  <2>2. QED
    BY <1>29, <2>1, AnswersKept, HarmlessStep DEF Progress, Harmless
<1>30. CASE UNCHANGED flowVars
  BY <1>30, <1>2 DEF flowVars, Harmless
<1>31. QED
  BY <1>3, <1>4, <1>6, <1>7, <1>8, <1>9, <1>10, <1>11, <1>12, <1>13, <1>14, <1>15,
     <1>16, <1>17, <1>18, <1>19, <1>20, <1>21, <1>25, <1>26, <1>27, <1>28, <1>29,
     <1>30 DEF Next, PollHandled

\* An account shown as saved was saved, and "cancelled" is only shown when some
\* flow was, whatever answers are lost or late: an answer under way is already
\* borne out by the upstream, and a flow once closed stays so.
THEOREM FlowTruth == Spec => []OutcomeTruthful
<1>1. Init => TruthInv
  <2>1. Init => TypeInv
    BY LoginFlowAssumption, InitialState, IdleRequest
       DEF Init, TypeInv, CallTyped, RestTyped
  <2>2. Init => AnswersBorneOut /\ OutcomeTruthful
    BY DEF Init, AnswersBorneOut, BorneOut, OutcomeTruthful, Initial, Idle
  <2>3. QED
    BY <2>1, <2>2 DEF TruthInv
<1>2. TruthInv /\ [Next]_flowVars => TruthInv'
  BY TypeStep, TruthStep DEF TruthInv
<1>3. TruthInv => OutcomeTruthful
  BY DEF TruthInv
<1>4. QED
  BY <1>1, <1>2, <1>3, PTL DEF Spec
=============================================================================
