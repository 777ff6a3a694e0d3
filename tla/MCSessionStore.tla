--------------------------- MODULE MCSessionStore ---------------------------
(***************************************************************************)
(* Instances of SessionStore for TLC, and mutated forms of its operations: *)
(* each is a plausible slip in session-store.ts that a property must       *)
(* notice.                                                                 *)
(***************************************************************************)
EXTENDS SessionStore, TLC

\* The tokens are interchangeable (sound for safety properties only).
TokenSymmetry == Permutations(Token) \cup Permutations(PreToken)
=============================================================================
