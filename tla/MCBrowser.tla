----------------------------- MODULE MCBrowser -----------------------------
(***************************************************************************)
(* Instances of Browser for TLC.                                           *)
(***************************************************************************)
EXTENDS Browser, TLC

\* Resources and fields are interchangeable, and so are the rows of the other
\* lists, for which the configurations use the resources' values again: pages
\* do not meet, and TLC has fewer permutations to try.
DataSymmetry == Permutations(Res) \cup Permutations(Field)
=============================================================================
