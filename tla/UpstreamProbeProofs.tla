------------------------- MODULE UpstreamProbeProofs -------------------------
(***************************************************************************)
(* Proofs about UpstreamProbe for any number of requests, every timeout    *)
(* and every set of ages.                                                  *)
(***************************************************************************)
EXTENDS UpstreamProbe, TLAPS

LEMMA ProbeInvInit == ProbeInit => ProbeInv
BY DEF ProbeInit, ProbeInv, ProbeTypeOK, ProbesInTime, FindingInTime, ProbeFresh

\* The end of a probe with a finding made while it was under way.
LEMMA FindsStep ==
    ASSUME ProbeInv, NEW a \in Asker, probes[a] # NoFinding, NEW asOf \in Nat,
           probes[a].startedAt <= asOf, asOf <= clock, Finds(a, asOf)
    PROVE  ProbeInv'
<1>1. /\ probes[a] \in Probe
      /\ clock <= probes[a].startedAt + ProbeTimeout
      /\ clock' = clock
  BY DEF ProbeInv, ProbeTypeOK, ProbesInTime, Finds
<1>2. /\ probeCache' = [asOf |-> asOf, checkedAt |-> clock]
      /\ told' = [asOf |-> asOf, at |-> clock, maxAge |-> probes[a].maxAge]
      /\ probes' = [probes EXCEPT ![a] = NoFinding]
  BY DEF Finds, Tell
<1>3. clock \in Nat /\ clock <= asOf + ProbeTimeout
  BY <1>1, ProbeAssumption DEF ProbeInv, ProbeTypeOK, Probe
<1>4. ProbeTypeOK'
  BY <1>1, <1>2, <1>3 DEF ProbeInv, ProbeTypeOK, Finding, Probe, Telling
<1>5. ProbesInTime'
  BY <1>1, <1>2 DEF ProbeInv, ProbeTypeOK, ProbesInTime
<1>6. FindingInTime'
  BY <1>1, <1>2, <1>3 DEF FindingInTime
<1>7. ProbeFresh'
  <2>1. told'.maxAge \in Nat \ {0} /\ told'.asOf = asOf /\ told'.at = clock
    BY <1>1, <1>2, ProbeAssumption DEF Probe
  <2>2. QED
    BY <1>3, <2>1, ProbeAssumption DEF ProbeFresh
<1>8. QED
  BY <1>4, <1>5, <1>6, <1>7 DEF ProbeInv

LEMMA ProbeInvStep == ProbeInv /\ [ProbeNext]_probeVars => ProbeInv'
<1> SUFFICES ASSUME ProbeInv, [ProbeNext]_probeVars
             PROVE  ProbeInv'
  OBVIOUS
<1>1. ASSUME NEW maxAge \in MaxAge, AnsweredFromCache(maxAge) PROVE ProbeInv'
  <2>1. /\ probeCache \in Finding /\ clock \in Nat
        /\ clock - probeCache.checkedAt < maxAge
        /\ probeCache.checkedAt <= probeCache.asOf + ProbeTimeout
        /\ told' = [asOf |-> probeCache.asOf, at |-> clock, maxAge |-> maxAge]
        /\ UNCHANGED <<clock, probeCache, probes>>
    BY <1>1 DEF AnsweredFromCache, Young, Tell, ProbeInv, ProbeTypeOK, FindingInTime
  <2>2. told' \in Telling /\ ProbeFresh'
    BY <2>1, ProbeAssumption DEF Finding, Telling, ProbeFresh
  <2>3. QED
    BY <2>1, <2>2 DEF ProbeInv, ProbeTypeOK, ProbesInTime, FindingInTime
<1>2. ASSUME NEW a \in Asker, NEW maxAge \in MaxAge, ProbeStarts(a, maxAge)
      PROVE  ProbeInv'
  BY <1>2, ProbeAssumption
  DEF ProbeStarts, ProbeInv, ProbeTypeOK, Probe, ProbesInTime, FindingInTime, ProbeFresh
<1>3. ASSUME NEW a \in Asker, UpstreamAnswers(a) PROVE ProbeInv'
  BY <1>3, ProbeAssumption
  DEF UpstreamAnswers, ProbeInv, ProbeTypeOK, Probe, ProbesInTime, FindingInTime, ProbeFresh
<1>4. ASSUME NEW a \in Asker, ProbeAnswered(a) PROVE ProbeInv'
  BY <1>4, FindsStep
  DEF ProbeAnswered, ProbeInv, ProbeTypeOK, Probe, ProbesInTime
<1>5. ASSUME NEW a \in Asker, ProbeFailed(a) PROVE ProbeInv'
  BY <1>5, FindsStep DEF ProbeFailed, ProbeInv, ProbeTypeOK, Probe, ProbesInTime
<1>6. ASSUME ProbeTick PROVE ProbeInv'
  <2>1. /\ clock \in Nat /\ clock' = clock + 1
        /\ \A a \in Asker :
              probes[a] # NoFinding => clock < probes[a].startedAt + ProbeTimeout
        /\ UNCHANGED <<probeCache, probes, told>>
    BY <1>6 DEF ProbeTick, ProbeInv, ProbeTypeOK
  <2>2. ProbeTypeOK' /\ ProbeFresh'
    BY <2>1 DEF ProbeInv, ProbeTypeOK, ProbeFresh
  <2>3. ProbesInTime'
    BY <2>1, ProbeAssumption DEF ProbeInv, ProbeTypeOK, Probe, ProbesInTime
  <2>4. FindingInTime'
    BY <2>1, ProbeAssumption DEF ProbeInv, ProbeTypeOK, Finding, FindingInTime
  <2>5. QED
    BY <2>2, <2>3, <2>4 DEF ProbeInv
<1>7. CASE UNCHANGED probeVars
  BY <1>7 DEF probeVars, ProbeInv, ProbeTypeOK, ProbesInTime, FindingInTime, ProbeFresh
<1>8. QED
  BY <1>1, <1>2, <1>3, <1>4, <1>5, <1>6, <1>7 DEF ProbeNext

\* What a caller is told is never older than its age and one timeout, however
\* many probes overlap and in whatever order they end.
THEOREM ProbeStaleness == ProbeSpec => []ProbeFresh
<1>1. ProbeInv => ProbeFresh
  BY DEF ProbeInv
<1>2. QED
  BY <1>1, ProbeInvInit, ProbeInvStep, PTL DEF ProbeSpec
=============================================================================
