-------------------------- MODULE SessionLifecycle --------------------------
(***************************************************************************)
(* What a bounded in-memory table of random tokens promises, with the      *)
(* clock, the deadlines and the contents of an entry left out.  A token is *)
(* issued at most once; it is then active until it ends; an ended token    *)
(* never becomes active again; and no token is issued beyond the capacity. *)
(* The SessionStore of the BFF keeps two such tables, one of logged-in     *)
(* sessions and one of pre-login sessions.                                 *)
(***************************************************************************)
CONSTANTS Token,     \* every value the random generator may return
          Fits(_)    \* is a set of active tokens within the capacity?

VARIABLES issued,    \* tokens handed out so far
          active     \* tokens the table still accepts

lifecycleVars == <<issued, active>>

LifecycleInit ==
    /\ issued = {}
    /\ active = {}

\* Any number of entries end (a sweep, a logout, an expiry, a restart).
End ==
    /\ active' \subseteq active
    /\ UNCHANGED issued

\* One fresh token is issued, after any number of entries have ended.
Issue(t) ==
    /\ t \in Token \ issued
    /\ issued' = issued \cup {t}
    /\ t \in active'
    /\ active' \subseteq active \cup {t}
    /\ Fits(active')

LifecycleNext == End \/ \E t \in Token : Issue(t)

LifecycleSpec == LifecycleInit /\ [][LifecycleNext]_lifecycleVars
=============================================================================
