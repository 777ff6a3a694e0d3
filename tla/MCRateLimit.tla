----------------------------- MODULE MCRateLimit -----------------------------
(***************************************************************************)
(* Instances of SharedState for TLC: a limiter with one pinned key and     *)
(* rotating sources, and requests that ask for the upstream.               *)
(* The checks of the functions in front of the handlers, the one that says *)
(* whose key a request counts under among them, and of the way back are    *)
(* evaluated here.                                                         *)
(***************************************************************************)
EXTENDS SharedState, FrontDoorChecks, ReplyChecks, TLC

\* The sources are interchangeable; a pinned key is not one of them.
SourceSymmetry == Permutations(Key \ Pinned)
=============================================================================
