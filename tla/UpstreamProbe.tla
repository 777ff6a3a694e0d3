--------------------------- MODULE UpstreamProbe ---------------------------
(***************************************************************************)
(* UpstreamClient.probeManagement (upstream/client.ts): is Parrot there?   *)
(* The login page, the health check and the diagnostics ask, each with an  *)
(* age up to which it takes the last finding instead of probing anew.      *)
(* Probes are not shared: two that began apart may end in any order, and   *)
(* each stores its finding when it ends.                                   *)
(*                                                                         *)
(* What was found is left out.  A finding is known by the instant at which *)
(* the upstream was as it says, `asOf`, which the code does not keep.      *)
(***************************************************************************)
EXTENDS Integers

CONSTANTS Asker,         \* the requests that may be waiting for an answer
          MaxAge,        \* the callers' options.maxAgeMs, in ticks
          ProbeTimeout,  \* min(2 * connectTimeoutMs, 10 s), in ticks
          MaxClock,      \* bound of the model: the clock stops here
          NoFinding      \* null: nothing cached, asked or found

ASSUME ProbeAssumption ==
    /\ MaxAge \subseteq Nat \ {0} /\ ProbeTimeout \in Nat /\ MaxClock \in Nat
    /\ NoFinding \notin Int

VARIABLES clock,       \* Date.now()
          probeCache,  \* the finding stored last, with its checkedAt
          probes,      \* the probe each request waits for
          told         \* history: the answer given last, to whom and when

probeVars == <<clock, probeCache, probes, told>>

Finding == [asOf : Nat, checkedAt : Nat]
Probe == [startedAt : Nat, maxAge : MaxAge, asOf : Nat \cup {NoFinding}]
Telling == [asOf : Nat, at : Nat, maxAge : MaxAge]

Tell(finding, maxAge) ==
    told' = [asOf |-> finding.asOf, at |-> clock, maxAge |-> maxAge]

-----------------------------------------------------------------------------
ProbeInit ==
    /\ clock = 0
    /\ probeCache = NoFinding
    /\ probes = [a \in Asker |-> NoFinding]
    /\ told = NoFinding

\* Slip: a finding is young up to and including the age asked for.
YoungLate(maxAge) ==
    probeCache # NoFinding /\ clock - probeCache.checkedAt <= maxAge

Young(maxAge) ==
    probeCache # NoFinding /\ clock - probeCache.checkedAt < maxAge

\* The cached finding is given out as it is.
AnsweredFromCache(maxAge) ==
    /\ Young(maxAge)
    /\ Tell(probeCache, maxAge)
    /\ UNCHANGED <<clock, probeCache, probes>>

ProbeStarts(a, maxAge) ==
    /\ probes[a] = NoFinding
    /\ ~Young(maxAge)
    /\ probes' = [probes EXCEPT ![a] =
          [startedAt |-> clock, maxAge |-> maxAge, asOf |-> NoFinding]]
    /\ UNCHANGED <<clock, probeCache, told>>

\* The upstream answers; the answer is on its way.
UpstreamAnswers(a) ==
    /\ probes[a] # NoFinding /\ probes[a].asOf = NoFinding
    /\ probes' = [probes EXCEPT ![a].asOf = clock]
    /\ UNCHANGED <<clock, probeCache, told>>

\* The probe of a ends with a finding, which replaces whatever is cached.
Finds(a, asOf) ==
    /\ probeCache' = [asOf |-> asOf, checkedAt |-> clock]
    /\ Tell(probeCache', probes[a].maxAge)
    /\ probes' = [probes EXCEPT ![a] = NoFinding]
    /\ UNCHANGED clock

ProbeAnswered(a) ==
    /\ probes[a] # NoFinding /\ probes[a].asOf # NoFinding
    /\ Finds(a, probes[a].asOf)

\* The call fails: no connection, no answer in time, a redirect, an answer
\* that is too large.  That it is not reachable is a finding as well.
ProbeFailed(a) == probes[a] # NoFinding /\ Finds(a, clock)

\* A call is aborted at its timeout, so time does not pass over it.
ProbeTick ==
    /\ clock < MaxClock
    /\ \A a \in Asker :
          probes[a] # NoFinding => clock < probes[a].startedAt + ProbeTimeout
    /\ clock' = clock + 1
    /\ UNCHANGED <<probeCache, probes, told>>

ProbeNext ==
    \/ \E maxAge \in MaxAge : \/ AnsweredFromCache(maxAge)
                              \/ \E a \in Asker : ProbeStarts(a, maxAge)
    \/ \E a \in Asker : UpstreamAnswers(a) \/ ProbeAnswered(a) \/ ProbeFailed(a)
    \/ ProbeTick

ProbeSpec == ProbeInit /\ [][ProbeNext]_probeVars

-----------------------------------------------------------------------------
ProbeTypeOK ==
    /\ clock \in Nat
    /\ probeCache \in Finding \cup {NoFinding}
    /\ probes \in [Asker -> Probe \cup {NoFinding}]
    /\ told \in Telling \cup {NoFinding}

\* What a caller is told of the upstream is never older than the age it asked
\* for and one probe together, although a slow probe's old answer may replace
\* a newer one in the cache and count as checked when it came.
ProbeFresh == told # NoFinding => told.at - told.asOf < told.maxAge + ProbeTimeout

\* Every probe and every finding is younger than one timeout where it is made.
ProbesInTime ==
    \A a \in Asker : probes[a] # NoFinding =>
       /\ probes[a].startedAt <= clock /\ clock <= probes[a].startedAt + ProbeTimeout
       /\ probes[a].asOf # NoFinding =>
             probes[a].startedAt <= probes[a].asOf /\ probes[a].asOf <= clock
FindingInTime ==
    probeCache # NoFinding =>
       /\ probeCache.asOf <= probeCache.checkedAt
       /\ probeCache.checkedAt <= clock
       /\ probeCache.checkedAt <= probeCache.asOf + ProbeTimeout
ProbeInv == ProbeTypeOK /\ ProbesInTime /\ FindingInTime /\ ProbeFresh
=============================================================================
