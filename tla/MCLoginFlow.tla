----------------------------- MODULE MCLoginFlow -----------------------------
(***************************************************************************)
(* Instances of LoginFlow for TLC.                                         *)
(***************************************************************************)
EXTENDS LoginFlow, TLC

\* Flows, tokens and polls are interchangeable.
FlowSymmetry ==
    Permutations(Flow) \cup Permutations(Token) \cup Permutations(PollSlot)
=============================================================================
