-------------------------------- MODULE Page --------------------------------
(***************************************************************************)
(* What the models of the browser's pages have in common.                  *)
(***************************************************************************)
EXTENDS Integers, FiniteSets

CONSTANT None  \* null: nothing read, shown, chosen or under way
=============================================================================
