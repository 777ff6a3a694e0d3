-------------------------- MODULE MCAuthController --------------------------
(***************************************************************************)
(* Instances of AuthController for TLC.                                    *)
(***************************************************************************)
EXTENDS AuthController, TLC

\* Slots, browsers and tokens are interchangeable (safety runs only).
SlotSymmetry == Permutations(Request) \cup Permutations(Browser)
                \cup Permutations(Token) \cup Permutations(PreToken)
=============================================================================
