-------------------------- MODULE MCOperationTracker --------------------------
(***************************************************************************)
(* Instances of OperationTracker for TLC.                                  *)
(***************************************************************************)
EXTENDS OperationTracker, TLC

\* Chains are interchangeable; operations are not when only some can be
\* cancelled.
ChainSymmetry == Permutations(Chain)
=============================================================================
