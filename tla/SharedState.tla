----------------------------- MODULE SharedState -----------------------------
(***************************************************************************)
(* What all requests of a BFF share besides the sessions: a limiter's      *)
(* table and the finding of the upstream probe.  Neither reads the other,  *)
(* so a behaviour is looked at part by part: `part` is chosen once, it     *)
(* moves and the other stays as it is.                                     *)
(***************************************************************************)
EXTENDS RateLimit, UpstreamProbe

VARIABLE part

sharedVars == <<part, limitVars, probeVars>>

SharedInit == part \in {"limits", "probe"} /\ LimitInit /\ ProbeInit

SharedNext ==
    /\ UNCHANGED part
    /\ \/ part = "limits" /\ LimitNext /\ UNCHANGED probeVars
       \/ part = "probe" /\ ProbeNext /\ UNCHANGED limitVars

SharedSpec == SharedInit /\ [][SharedNext]_sharedVars

=============================================================================
