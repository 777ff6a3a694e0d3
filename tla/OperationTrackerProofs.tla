------------------------ MODULE OperationTrackerProofs ------------------------
(***************************************************************************)
(* Proofs about OperationTracker for every set of operations, any number   *)
(* of polls, and any bounds on the list, the attempts and the clicks.      *)
(***************************************************************************)
EXTENDS OperationTracker, SequenceTheorems, FiniteSetTheorems, TLAPS

-----------------------------------------------------------------------------
(* The list.  That it holds an operation once is said here position by      *)
(* position; the cardinality in the type invariant follows.                 *)

OnceEach(list) ==
    \A i, j \in DOMAIN list : list[i].id = list[j].id => i = j

GoodList(list) ==
    /\ list \in Seq(OperationRecord) /\ Len(list) <= MaxTracked
    /\ OnceEach(list)

\* A function on an initial segment of the numbers is a sequence.
LEMMA SegmentIsSeq ==
    ASSUME NEW S, NEW n \in Nat, NEW list \in [1..n -> S]
    PROVE  list \in Seq(S) /\ Len(list) = n
<1>1. list \in Seq(S)
  BY SeqDef
<1>2. Len(list) \in Nat /\ DOMAIN list = 1..Len(list)
  BY <1>1, LenProperties
<1>3. 1..Len(list) = 1..n
  BY <1>2
<1>4. Len(list) = n
  BY <1>2, <1>3
<1>5. QED
  BY <1>1, <1>4

\* A list that holds each operation once has as many operations as entries.
LEMMA OnceEachCounted ==
    ASSUME NEW S, NEW list \in Seq(S), OnceEach(list)
    PROVE  Cardinality({list[i].id : i \in DOMAIN list}) = Len(list)
<1> DEFINE Ids == {list[i].id : i \in DOMAIN list}
           f == [i \in 1..Len(list) |-> list[i].id]
<1>1. Len(list) \in Nat /\ DOMAIN list = 1..Len(list)
  BY LenProperties
<1>2. f \in [1..Len(list) -> Ids]
  BY <1>1
<1>3. \A i, j \in 1..Len(list) : f[i] = f[j] => i = j
  BY <1>1 DEF OnceEach
<1>4. f \in Injection(1..Len(list), Ids)
  BY <1>2, <1>3 DEF Injection, IsInjective
<1>5. \A x \in Ids : \E i \in 1..Len(list) : f[i] = x
  BY <1>1
<1>6. f \in Surjection(1..Len(list), Ids)
  BY <1>2, <1>5 DEF Surjection
<1>7. ExistsBijection(1..Len(list), Ids)
  BY <1>4, <1>6 DEF ExistsBijection, Bijection
<1>8. QED
  BY <1>1, <1>7, FS_CountingElements

\* map() with a function that keeps the ids.
LEMMA MappedList ==
    ASSUME GoodList(operations), NEW list,
           list \in [DOMAIN operations -> OperationRecord],
           \A i \in DOMAIN operations : list[i].id = operations[i].id
    PROVE  GoodList(list)
<1>1. Len(operations) \in Nat /\ DOMAIN operations = 1..Len(operations)
  BY LenProperties DEF GoodList
<1>2. list \in Seq(OperationRecord) /\ Len(list) = Len(operations)
  BY <1>1, SegmentIsSeq
<1>3. OnceEach(list)
  BY DEF GoodList, OnceEach
<1>4. QED
  BY <1>2, <1>3 DEF GoodList

\* filter(): the entries that stay are entries of before, at positions of K, and
\* none is doubled.
LEMMA KeptList ==
    ASSUME GoodList(operations), NEW K \in SUBSET DOMAIN operations, KeepOnly(K)
    PROVE  /\ GoodList(operations')
           /\ \A m \in DOMAIN operations' :
                 \E n \in K : operations'[m] = operations[n]
<1>1. Len(operations) \in Nat /\ DOMAIN operations = 1..Len(operations)
  BY LenProperties DEF GoodList
<1>2. IsFiniteSet(K) /\ Cardinality(K) \in Nat /\ Cardinality(K) <= Len(operations)
  <2>1. IsFiniteSet(1..Len(operations))
        /\ Cardinality(1..Len(operations)) = Len(operations)
    BY <1>1, FS_Interval
  <2>2. IsFiniteSet(K) /\ Cardinality(K) <= Cardinality(1..Len(operations))
    BY <1>1, <2>1, FS_Subset
  <2>3. Cardinality(K) \in Nat
    BY <2>2, FS_CardinalityType
  <2>4. QED
    BY <2>1, <2>2, <2>3
<1>3. PICK f \in InOrder(K) : operations' = [n \in DOMAIN f |-> operations[f[n]]]
  BY DEF KeepOnly
<1>4. /\ f \in [1..Cardinality(K) -> K]
      /\ \A m, n \in 1..Cardinality(K) : m < n => f[m] < f[n]
  BY <1>3 DEF InOrder
<1>5. \A m, n \in 1..Cardinality(K) : f[m] = f[n] => m = n
  <2>1. SUFFICES ASSUME NEW m \in 1..Cardinality(K), NEW n \in 1..Cardinality(K),
                        f[m] = f[n], m # n
                 PROVE  FALSE
    OBVIOUS
  <2>2. f[m] \in Int /\ f[n] \in Int
    BY <1>1, <1>4
  <2>3. m < n \/ n < m
    BY <1>2, <2>1
  <2>4. f[m] < f[n] \/ f[n] < f[m]
    BY <1>4, <2>3
  <2>5. QED
    BY <2>1, <2>2, <2>4
<1>6. \A n \in DOMAIN operations : operations[n] \in OperationRecord
  BY <1>1, ElementOfSeq DEF GoodList
<1>7. operations' \in [1..Cardinality(K) -> OperationRecord]
  BY <1>3, <1>4, <1>6
<1>8. operations' \in Seq(OperationRecord) /\ Len(operations') = Cardinality(K)
  BY <1>2, <1>7, SegmentIsSeq
<1>9. OnceEach(operations')
  BY <1>3, <1>4, <1>5, <1>7 DEF OnceEach, GoodList
<1>10. MaxTracked \in Nat /\ Len(operations) <= MaxTracked
  BY TrackerAssumption DEF GoodList
<1>11. GoodList(operations')
  BY <1>1, <1>2, <1>8, <1>9, <1>10 DEF GoodList
<1>12. ASSUME NEW m \in DOMAIN operations'
       PROVE  \E n \in K : operations'[m] = operations[n]
  BY <1>3, <1>4
<1>13. QED
  BY <1>11, <1>12

\* track(): an entry is the new one, queued, or one of before.
LEMMA TrackedList ==
    ASSUME GoodList(operations), NEW id \in Id
    PROVE  /\ GoodList(Tracked(id))
           /\ \A m \in DOMAIN Tracked(id) :
                 \/ Tracked(id)[m] = NewRecord(id)
                 \/ \E n \in DOMAIN operations : Tracked(id)[m] = operations[n]
<1>1. CASE id \in Listed
  BY <1>1 DEF Tracked
<1>2. CASE id \notin Listed
  <2> DEFINE New == <<NewRecord(id)>>
             list == New \o operations
             n == IF Len(list) < MaxTracked THEN Len(list) ELSE MaxTracked
  <2>1. Len(operations) \in Nat /\ DOMAIN operations = 1..Len(operations)
    BY LenProperties DEF GoodList
  <2>2. NewRecord(id) \in OperationRecord
    BY DEF NewRecord, OperationRecord, Live
  <2>3. New \in Seq(OperationRecord) /\ Len(New) = 1 /\ New[1] = NewRecord(id)
    BY <2>2
  <2> HIDE DEF New
  <2>4. /\ list \in Seq(OperationRecord) /\ Len(list) = 1 + Len(operations)
        /\ \A i \in 1..1 + Len(operations) :
              list[i] = IF i <= 1 THEN New[i] ELSE operations[i - 1]
    BY <2>3, ConcatProperties DEF GoodList
  <2>5. list[1] = NewRecord(id)
        /\ \A i \in 2..1 + Len(operations) : list[i] = operations[i - 1]
    BY <2>1, <2>3, <2>4
  <2>6. Tracked(id) = SubSeq(list, 1, n)
    BY <1>2 DEF Tracked, New
  <2> HIDE DEF list
  <2>7. n \in Nat \ {0} /\ n <= MaxTracked /\ n <= 1 + Len(operations)
    BY <2>1, <2>4, TrackerAssumption
  <2> HIDE DEF n
  <2>8. \A i \in 1..n : list[i] \in OperationRecord
    BY <2>1, <2>4, <2>7, ElementOfSeq
  <2>9. /\ Tracked(id) \in Seq(OperationRecord) /\ Len(Tracked(id)) = n
        /\ \A i \in 1..n : Tracked(id)[i] = list[i]
    <3>1. /\ SubSeq(list, 1, n) \in Seq(OperationRecord)
          /\ Len(SubSeq(list, 1, n)) = IF 1 <= n THEN n - 1 + 1 ELSE 0
          /\ \A i \in 1..n - 1 + 1 : SubSeq(list, 1, n)[i] = list[1 + i - 1]
      BY <2>7, <2>8, SubSeqProperties
    <3>2. QED
      BY <2>6, <2>7, <3>1
  <2>10. DOMAIN Tracked(id) = 1..n
    BY <2>9, LenProperties
  <2>11. \A i \in 2..n : Tracked(id)[i] = operations[i - 1]
                         /\ i - 1 \in DOMAIN operations
    BY <2>1, <2>5, <2>7, <2>9
  <2>12. Tracked(id)[1] = NewRecord(id) /\ NewRecord(id).id = id
    BY <2>5, <2>7, <2>9 DEF NewRecord
  <2>13. \A i \in DOMAIN operations : operations[i].id # id
    BY <1>2 DEF Listed
  <2>14. OnceEach(Tracked(id))
    <3> SUFFICES ASSUME NEW i \in 1..n, NEW j \in 1..n,
                        Tracked(id)[i].id = Tracked(id)[j].id
                 PROVE  i = j
      BY <2>10 DEF OnceEach
    <3>1. CASE i = 1 /\ j # 1
      BY <3>1, <2>7, <2>11, <2>12, <2>13
    <3>2. CASE i # 1 /\ j = 1
      BY <3>2, <2>7, <2>11, <2>12, <2>13
    <3>3. CASE i # 1 /\ j # 1
      <4>1. operations[i - 1].id = operations[j - 1].id
        BY <3>3, <2>7, <2>11
      <4>2. i - 1 \in DOMAIN operations /\ j - 1 \in DOMAIN operations
        BY <3>3, <2>7, <2>11
      <4>3. i - 1 = j - 1
        BY <4>1, <4>2 DEF GoodList, OnceEach
      <4>4. QED
        BY <4>3
    <3>4. QED
      BY <3>1, <3>2, <3>3
  <2>15. ASSUME NEW m \in DOMAIN Tracked(id)
         PROVE  \/ Tracked(id)[m] = NewRecord(id)
                \/ \E k \in DOMAIN operations : Tracked(id)[m] = operations[k]
    <3>1. m = 1 \/ m \in 2..n
      BY <2>7, <2>10
    <3>2. QED
      BY <3>1, <2>11, <2>12
  <2>16. GoodList(Tracked(id))
    BY <2>7, <2>9, <2>14 DEF GoodList
  <2>17. QED
    BY <2>15, <2>16
<1>3. QED
  BY <1>1, <1>2

\* logout: the list is empty.
LEMMA EmptyList == GoodList(<< >>)
<1>1. << >> \in Seq(OperationRecord) /\ Len(<< >>) = 0
  BY EmptySeq
<1>2. OnceEach(<< >>)
  BY DEF OnceEach
<1>3. QED
  BY <1>1, <1>2, TrackerAssumption DEF GoodList

-----------------------------------------------------------------------------
(* The polls and the map of the timers.                                     *)

PollsTyped ==
    /\ timers \in [Id -> Chain \cup {NoTimer}]
    /\ attempts \in [Id -> 0..MaxAttempts]
    /\ chain \in [Chain -> ChainRecord]

\* An entry of the map is the timer of a chain of its own operation.
TimersOwn ==
    \A id \in Id : timers[id] # NoTimer =>
        chain[timers[id]].pc # "free" /\ chain[timers[id]].id = id

Polls == PollsTyped /\ TimersOwn

\* A step leaves every poll of another operation alone.
OthersKept(id) ==
    \A d \in Chain : chain[d].pc # "free" /\ chain[d].id # id => chain'[d] = chain[d]

\* A read answered with the end of an operation says what the upstream said.
AnswersTruthful ==
    \A c \in Chain :
        chain[c].pc = "reading" /\ chain[c].answer \in Settled =>
            upstream[chain[c].id] \in {chain[c].answer, "missing"}

\* Whatever a step puts in the place of a chain, no answer is at its end unless
\* it was there before.
NoNewAnswer ==
    \A d \in Chain :
        \/ chain'[d] = chain[d]
        \/ chain'[d].pc # "reading"
        \/ chain'[d].answer \notin Settled

LEMMA ChainFields ==
    ASSUME NEW q \in ChainRecord, q.pc # "free"
    PROVE  /\ q.pc \in {"reading", "timer"} /\ q.id \in Id
           /\ q.attempt \in 0..MaxAttempts /\ q.knows \in BOOLEAN
           /\ q.answer \in Answers
BY DEF ChainRecord, Free

LEMMA FreeTyped == Free \in ChainRecord /\ Free.pc = "free"
BY DEF ChainRecord, Free

LEMMA ReadingTyped ==
    ASSUME NEW id \in Id, NEW n \in 0..MaxAttempts, NEW knows \in BOOLEAN
    PROVE  /\ Reading(id, n, knows) \in ChainRecord
           /\ Reading(id, n, knows).pc = "reading"
           /\ Reading(id, n, knows).id = id
           /\ Reading(id, n, knows).answer \notin Settled
BY DEF ChainRecord, Reading, Answers, Settled

\* clearTimeout ends a chain of the operation or none.
LEMMA StopTimerChains ==
    ASSUME Polls, NEW id \in Id
    PROVE  /\ StopTimer(id) \in [Chain -> ChainRecord]
           /\ \A d \in Chain :
                 \/ StopTimer(id)[d] = chain[d]
                 \/ /\ StopTimer(id)[d] = Free /\ d = timers[id]
                    /\ chain[d].pc # "free" /\ chain[d].id = id
<1>1. chain \in [Chain -> ChainRecord]
  BY DEF Polls, PollsTyped
<1>2. StopTimer(id) \in [Chain -> ChainRecord]
  BY <1>1, FreeTyped DEF StopTimer
<1>3. ASSUME NEW d \in Chain
      PROVE  \/ StopTimer(id)[d] = chain[d]
             \/ /\ StopTimer(id)[d] = Free /\ d = timers[id]
                /\ chain[d].pc # "free" /\ chain[d].id = id
  <2>1. CASE d = timers[id] /\ chain[d].pc = "timer"
    <3>1. d # NoTimer
      BY TrackerAssumption
    <3>2. chain[d].pc # "free" /\ chain[d].id = id
      BY <2>1, <3>1 DEF Polls, TimersOwn
    <3>3. StopTimer(id)[d] = Free
      BY <2>1 DEF StopTimer
    <3>4. QED
      BY <2>1, <3>2, <3>3
  <2>2. CASE ~(d = timers[id] /\ chain[d].pc = "timer")
    BY <2>2 DEF StopTimer
  <2>3. QED
    BY <2>1, <2>2
<1>4. QED
  BY <1>2, <1>3

\* A poll that ends: its operation loses the timer of the map, no other one does.
LEMMA EndPolls ==
    ASSUME Polls, NEW c \in Chain, chain[c].pc # "free", End(c),
           attempts' = attempts \/ attempts' = [attempts EXCEPT ![chain[c].id] = 0]
    PROVE  Polls' /\ OthersKept(chain[c].id) /\ NoNewAnswer
<1> DEFINE id == chain[c].id
<1>1. /\ chain \in [Chain -> ChainRecord] /\ timers \in [Id -> Chain \cup {NoTimer}]
      /\ attempts \in [Id -> 0..MaxAttempts]
  BY DEF Polls, PollsTyped
<1>2. id \in Id
  BY <1>1, ChainFields
<1>3. /\ StopTimer(id) \in [Chain -> ChainRecord]
      /\ \A d \in Chain :
            \/ StopTimer(id)[d] = chain[d]
            \/ /\ StopTimer(id)[d] = Free /\ d = timers[id]
               /\ chain[d].pc # "free" /\ chain[d].id = id
  BY <1>2, StopTimerChains
<1>4. /\ chain' = [StopTimer(id) EXCEPT ![c] = Free]
      /\ timers' = [timers EXCEPT ![id] = NoTimer]
  BY DEF End
<1>5. \A d \in Chain :
         \/ chain'[d] = chain[d]
         \/ chain'[d] = Free /\ chain[d].pc # "free" /\ chain[d].id = id
  BY <1>3, <1>4
<1> HIDE DEF id
<1>6. PollsTyped'
  <2>1. chain' \in [Chain -> ChainRecord]
    BY <1>3, <1>4, FreeTyped
  <2>2. timers' \in [Id -> Chain \cup {NoTimer}]
    BY <1>1, <1>4
  <2>3. attempts' \in [Id -> 0..MaxAttempts]
    <3>1. 0 \in 0..MaxAttempts
      BY TrackerAssumption
    <3>2. QED
      BY <1>1, <3>1 DEF id
  <2>4. QED
    BY <2>1, <2>2, <2>3 DEF PollsTyped
<1>7. TimersOwn'
  <2> SUFFICES ASSUME NEW x \in Id, timers'[x] # NoTimer
               PROVE  chain'[timers'[x]].pc # "free" /\ chain'[timers'[x]].id = x
    BY DEF TimersOwn
  <2>1. x # id /\ timers'[x] = timers[x]
    BY <1>1, <1>4
  <2>2. timers[x] \in Chain /\ chain[timers[x]].pc # "free" /\ chain[timers[x]].id = x
    BY <1>1, <2>1 DEF Polls, TimersOwn
  <2>3. chain'[timers[x]] = chain[timers[x]]
    BY <1>5, <2>1, <2>2
  <2>4. QED
    BY <2>1, <2>2, <2>3
<1>8. OthersKept(id)
  BY <1>5 DEF OthersKept
<1>9. NoNewAnswer
  BY <1>5, FreeTyped DEF NoNewAnswer
<1>10. QED
  BY <1>6, <1>7, <1>8, <1>9 DEF Polls, id

\* A poll that looks again later: its timer takes the place of the one before.
LEMMA RearmPolls ==
    ASSUME Polls, NEW c \in Chain, chain[c].pc # "free", Rearm(c)
    PROVE  /\ Polls' /\ OthersKept(chain[c].id) /\ NoNewAnswer
           /\ chain'[c].pc # "free" /\ chain'[c].id = chain[c].id
<1> DEFINE id == chain[c].id
           q == [chain[c] EXCEPT !.pc = "timer", !.answer = "none"]
<1>1. /\ chain \in [Chain -> ChainRecord] /\ timers \in [Id -> Chain \cup {NoTimer}]
      /\ attempts \in [Id -> 0..MaxAttempts]
  BY DEF Polls, PollsTyped
<1>2. id \in Id /\ chain[c].attempt \in 0..MaxAttempts
  BY <1>1, ChainFields
<1>3. NextAttempt(c) \in 0..MaxAttempts
  BY <1>2, TrackerAssumption DEF NextAttempt
<1>4. q \in ChainRecord /\ q.pc = "timer" /\ q.id = id
  <2>1. chain[c] \in [pc : {"reading", "timer"}, id : Id, attempt : 0..MaxAttempts,
                      knows : BOOLEAN, answer : Answers]
    BY <1>1 DEF ChainRecord, Free
  <2>2. "none" \in Answers
    BY DEF Answers
  <2>3. q \in [pc : {"reading", "timer"}, id : Id, attempt : 0..MaxAttempts,
              knows : BOOLEAN, answer : Answers]
        /\ q.pc = "timer" /\ q.id = id
    BY <2>1, <2>2
  <2>4. QED
    BY <2>3 DEF ChainRecord
<1>5. /\ chain' = [chain EXCEPT ![c] = q]
      /\ timers' = [timers EXCEPT ![id] = c]
      /\ attempts' = [attempts EXCEPT ![id] = NextAttempt(c)]
  BY <1>1 DEF Rearm
<1> HIDE DEF id, q
<1>6. chain'[c] = q /\ \A d \in Chain : d # c => chain'[d] = chain[d]
  BY <1>1, <1>5
<1>7. PollsTyped'
  BY <1>1, <1>2, <1>3, <1>4, <1>5 DEF PollsTyped
<1>8. TimersOwn'
  <2> SUFFICES ASSUME NEW x \in Id, timers'[x] # NoTimer
               PROVE  chain'[timers'[x]].pc # "free" /\ chain'[timers'[x]].id = x
    BY DEF TimersOwn
  <2>1. CASE x = id
    BY <1>1, <1>4, <1>5, <1>6, <2>1
  <2>2. CASE x # id
    <3>1. timers'[x] = timers[x]
      BY <1>1, <1>5, <2>2
    <3>2. timers[x] \in Chain /\ chain[timers[x]].pc # "free" /\ chain[timers[x]].id = x
      BY <1>1, <3>1 DEF Polls, TimersOwn
    <3>3. timers[x] # c
      BY <2>2, <3>2 DEF id
    <3>4. QED
      BY <1>6, <3>1, <3>2, <3>3
  <2>3. QED
    BY <2>1, <2>2
<1>9. OthersKept(id)
  BY <1>6 DEF OthersKept, id
<1>10. NoNewAnswer
  BY <1>4, <1>6 DEF NoNewAnswer
<1>11. QED
  BY <1>4, <1>6, <1>7, <1>8, <1>9, <1>10 DEF Polls, id

-----------------------------------------------------------------------------
(* The inductive invariant.                                                 *)

RestTyped ==
    /\ deleting \subseteq Id
    /\ status \in {"authenticated", "anonymous"}
    /\ upstream \in [Id -> Live \cup Settled \cup {"none", "odd", "missing"}]
    /\ refreshed \subseteq Id
    /\ clicks \in 0..MaxClicks

Sound == UnsettledWatched /\ OutcomeTruthful /\ AnswersTruthful

TrackerInv == GoodList(operations) /\ Polls /\ RestTyped /\ Sound

\* Entries of a list by position.
LEMMA EntryFields ==
    ASSUME NEW list, GoodList(list), NEW n \in DOMAIN list
    PROVE  /\ list[n] \in OperationRecord /\ list[n].id \in Id
           /\ list[n].status \in Live \cup Settled \cup {"unavailable"}
<1>1. Len(list) \in Nat /\ DOMAIN list = 1..Len(list)
  BY LenProperties DEF GoodList
<1>2. list[n] \in OperationRecord
  BY <1>1, ElementOfSeq DEF GoodList
<1>3. QED
  BY <1>2 DEF OperationRecord

\* A step about one operation leaves the others listed and watched as they are.
LEMMA StillWatched ==
    ASSUME GoodList(operations), UnsettledWatched, NEW id \in Id, OthersKept(id),
           \A m \in DOMAIN operations' :
              operations'[m].id # id /\ operations'[m].status \in Live =>
                 \E n \in DOMAIN operations :
                    /\ operations[n].id = operations'[m].id
                    /\ operations[n].status \in Live,
           \/ \A m \in DOMAIN operations' :
                 operations'[m].id = id => operations'[m].status \notin Live
           \/ \E c \in Chain : chain'[c].pc # "free" /\ chain'[c].id = id
    PROVE  UnsettledWatched'
<1> SUFFICES ASSUME NEW m \in DOMAIN operations', operations'[m].status \in Live
             PROVE  \E c \in Chain : chain'[c].pc # "free"
                                     /\ chain'[c].id = operations'[m].id
  BY DEF UnsettledWatched, Watched
<1>1. CASE operations'[m].id = id
  BY <1>1
<1>2. CASE operations'[m].id # id
  <2>1. PICK n \in DOMAIN operations :
           operations[n].id = operations'[m].id /\ operations[n].status \in Live
    BY <1>2
  <2>2. PICK c \in Chain : chain[c].pc # "free" /\ chain[c].id = operations[n].id
    BY <2>1 DEF UnsettledWatched, Watched
  <2>3. chain'[c] = chain[c]
    BY <1>2, <2>1, <2>2 DEF OthersKept
  <2>4. QED
    BY <2>1, <2>2, <2>3
<1>3. QED
  BY <1>1, <1>2

LEMMA StillTruthful ==
    ASSUME OutcomeTruthful, UNCHANGED upstream,
           \A m \in DOMAIN operations' :
              operations'[m].status \in Settled =>
                 \/ upstream[operations'[m].id] \in {operations'[m].status, "missing"}
                 \/ \E n \in DOMAIN operations :
                       /\ operations[n].id = operations'[m].id
                       /\ operations[n].status = operations'[m].status
    PROVE  OutcomeTruthful'
BY DEF OutcomeTruthful

LEMMA AnswersStillTruthful ==
    ASSUME AnswersTruthful, UNCHANGED upstream, NoNewAnswer
    PROVE  AnswersTruthful'
<1> SUFFICES ASSUME NEW c \in Chain, chain'[c].pc = "reading",
                    chain'[c].answer \in Settled
             PROVE  upstream[chain'[c].id] \in {chain'[c].answer, "missing"}
  BY DEF AnswersTruthful
<1>1. chain'[c] = chain[c]
  BY DEF NoNewAnswer
<1>2. QED
  BY <1>1 DEF AnswersTruthful

\* setOperations(map(...)) after a read: the ids stay, and of the entries only
\* the one of the operation changes.
LEMMA UpdatedList ==
    ASSUME GoodList(operations), NEW id \in Id, NEW s, operations' = Update(id, s)
    PROVE  /\ GoodList(operations')
           /\ DOMAIN operations' = DOMAIN operations
           /\ \A m \in DOMAIN operations :
                 /\ operations'[m].id = operations[m].id
                 /\ operations[m].id # id => operations'[m] = operations[m]
                 /\ operations[m].id = id =>
                       operations'[m].status = normalizeStatus(s)
<1> DEFINE list == Update(id, s)
<1>1. normalizeStatus(s) \in Live \cup Settled \cup {"unavailable"}
  BY DEF normalizeStatus
<1>2. DOMAIN list = DOMAIN operations
  BY DEF Update
<1>3. ASSUME NEW m \in DOMAIN operations
      PROVE  /\ list[m] \in OperationRecord /\ list[m].id = operations[m].id
             /\ operations[m].id # id => list[m] = operations[m]
             /\ operations[m].id = id => list[m].status = normalizeStatus(s)
  <2>1. operations[m] \in OperationRecord
    BY <1>3, EntryFields
  <2> DEFINE b == id \in Cancellable
             o == [operations[m] EXCEPT !.status = normalizeStatus(s),
                                        !.cancellable = b]
  <2>2. b \in BOOLEAN
    OBVIOUS
  <2> HIDE DEF b
  <2>3. /\ o \in OperationRecord /\ o.id = operations[m].id
        /\ o.status = normalizeStatus(s)
    BY <1>1, <2>1, <2>2 DEF OperationRecord
  <2>4. list[m] = IF operations[m].id = id THEN o ELSE operations[m]
    BY DEF Update, b
  <2> HIDE DEF o, list
  <2>5. QED
    BY <2>1, <2>3, <2>4
<1>4. list \in [DOMAIN operations -> OperationRecord]
  BY <1>2, <1>3 DEF Update
<1>5. GoodList(list)
  BY <1>3, <1>4, MappedList
<1>6. QED
  BY <1>2, <1>3, <1>5

\* The same when the operation is shown as unavailable.
LEMMA UnavailableList ==
    ASSUME GoodList(operations), NEW id \in Id, operations' = Unavailable(id)
    PROVE  /\ GoodList(operations')
           /\ DOMAIN operations' = DOMAIN operations
           /\ \A m \in DOMAIN operations :
                 /\ operations'[m].id = operations[m].id
                 /\ operations[m].id # id => operations'[m] = operations[m]
                 /\ operations[m].id = id =>
                       operations'[m].status = "unavailable"
<1> DEFINE list == Unavailable(id)
<1>1. DOMAIN list = DOMAIN operations
  BY DEF Unavailable
<1>2. ASSUME NEW m \in DOMAIN operations
      PROVE  /\ list[m] \in OperationRecord /\ list[m].id = operations[m].id
             /\ operations[m].id # id => list[m] = operations[m]
             /\ operations[m].id = id => list[m].status = "unavailable"
  <2>1. operations[m] \in OperationRecord
    BY <1>2, EntryFields
  <2> DEFINE o == [operations[m] EXCEPT !.status = "unavailable"]
  <2>2. /\ o \in OperationRecord /\ o.id = operations[m].id
        /\ o.status = "unavailable"
    BY <2>1 DEF OperationRecord
  <2>3. list[m] = IF operations[m].id = id THEN o ELSE operations[m]
    BY DEF Unavailable
  <2> HIDE DEF o, list
  <2>4. QED
    BY <2>1, <2>2, <2>3
<1>3. list \in [DOMAIN operations -> OperationRecord]
  BY <1>1, <1>2 DEF Unavailable
<1>4. GoodList(list)
  BY <1>2, <1>3, MappedList
<1>5. QED
  BY <1>1, <1>2, <1>4

-----------------------------------------------------------------------------
(* The steps of poll().                                                     *)

LEMMA FireKeeps ==
    ASSUME TrackerInv, NEW c \in Chain, Fire(c)
    PROVE  TrackerInv'
<1> DEFINE id == chain[c].id
           q == Reading(id, attempts[id], chain[c].knows)
<1>1. /\ chain \in [Chain -> ChainRecord] /\ timers \in [Id -> Chain \cup {NoTimer}]
      /\ attempts \in [Id -> 0..MaxAttempts]
  BY DEF TrackerInv, Polls, PollsTyped
<1>2. chain[c].pc # "free" /\ id \in Id /\ chain[c].knows \in BOOLEAN
  BY <1>1, ChainFields DEF Fire
<1>3. /\ q \in ChainRecord /\ q.pc = "reading" /\ q.id = id
      /\ q.answer \notin Settled
  BY <1>1, <1>2, ReadingTyped
<1>4. /\ chain' = [chain EXCEPT ![c] = q]
      /\ UNCHANGED <<operations, timers, attempts, deleting, status, upstream,
                     refreshed, clicks>>
  BY <1>1 DEF Fire
<1> HIDE DEF id, q
<1>5. chain'[c] = q /\ \A d \in Chain : d # c => chain'[d] = chain[d]
  BY <1>1, <1>4
<1>6. PollsTyped'
  BY <1>1, <1>3, <1>4 DEF PollsTyped
<1>7. TimersOwn'
  <2> SUFFICES ASSUME NEW x \in Id, timers[x] # NoTimer
               PROVE  chain'[timers[x]].pc # "free" /\ chain'[timers[x]].id = x
    BY <1>4 DEF TimersOwn
  <2>1. timers[x] \in Chain /\ chain[timers[x]].pc # "free" /\ chain[timers[x]].id = x
    BY <1>1 DEF TrackerInv, Polls, TimersOwn
  <2>2. QED
    BY <1>3, <1>5, <2>1 DEF id
<1>8. OthersKept(id) /\ NoNewAnswer
  BY <1>3, <1>5 DEF OthersKept, NoNewAnswer, id
<1>9. id \in Id /\ \E d \in Chain : chain'[d].pc # "free" /\ chain'[d].id = id
  BY <1>2, <1>3, <1>5 DEF id
<1>10. UnsettledWatched'
  BY <1>4, <1>8, <1>9, StillWatched DEF TrackerInv, Sound
<1>11. OutcomeTruthful'
  BY <1>4 DEF TrackerInv, Sound, OutcomeTruthful
<1>12. AnswersTruthful'
  BY <1>4, <1>8, AnswersStillTruthful DEF TrackerInv, Sound
<1>13. RestTyped' /\ GoodList(operations')
  BY <1>4 DEF TrackerInv, RestTyped
<1>14. QED
  BY <1>6, <1>7, <1>10, <1>11, <1>12, <1>13 DEF TrackerInv, Polls, Sound

LEMMA ObservedKeeps ==
    ASSUME TrackerInv, NEW c \in Chain, Observed(c)
    PROVE  TrackerInv'
<1> DEFINE id == chain[c].id
<1>1. chain[c].pc # "free" /\ chain[c].answer \in Live /\ id \in Id
  BY ChainFields DEF TrackerInv, Polls, PollsTyped, Observed, Answered
<1>2. /\ operations' = Update(id, chain[c].answer) /\ Rearm(c)
      /\ UNCHANGED <<deleting, status, upstream, refreshed, clicks>>
  BY DEF Observed
<1>3. /\ Polls' /\ OthersKept(id) /\ NoNewAnswer
      /\ chain'[c].pc # "free" /\ chain'[c].id = id
  BY <1>1, <1>2, RearmPolls DEF TrackerInv
<1>4. normalizeStatus(chain[c].answer) \in Live
  BY <1>1 DEF normalizeStatus
<1>5. /\ GoodList(operations') /\ DOMAIN operations' = DOMAIN operations
      /\ \A m \in DOMAIN operations :
            /\ operations'[m].id = operations[m].id
            /\ operations[m].id # id => operations'[m] = operations[m]
            /\ operations[m].id = id => operations'[m].status \in Live
  BY <1>1, <1>2, <1>4, UpdatedList DEF TrackerInv
<1> HIDE DEF id
<1>6. \E d \in Chain : chain'[d].pc # "free" /\ chain'[d].id = id
  BY <1>3
<1>7. UnsettledWatched'
  BY <1>1, <1>3, <1>5, <1>6, StillWatched DEF TrackerInv, Sound
<1>8. Live \cap Settled = {}
  BY DEF Live, Settled
<1>9. OutcomeTruthful'
  BY <1>2, <1>5, <1>8, StillTruthful DEF TrackerInv, Sound
<1>10. AnswersTruthful'
  BY <1>2, <1>3, AnswersStillTruthful DEF TrackerInv, Sound
<1>11. RestTyped'
  BY <1>2 DEF TrackerInv, RestTyped
<1>12. QED
  BY <1>3, <1>5, <1>7, <1>9, <1>10, <1>11 DEF TrackerInv, Sound

\* The status shown is the one read, and the upstream had it at the read.
LEMMA FinishedKeeps ==
    ASSUME TrackerInv, NEW c \in Chain, Finished(c)
    PROVE  TrackerInv'
<1> DEFINE id == chain[c].id
           s == normalizeStatus(chain[c].answer)
<1>1. /\ chain[c].pc = "reading" /\ chain[c].answer \in Settled \cup {"odd"}
      /\ id \in Id
  BY ChainFields DEF TrackerInv, Polls, PollsTyped, Finished, Answered
<1>2. /\ operations' = Update(id, chain[c].answer) /\ End(c)
      /\ attempts' = [attempts EXCEPT ![id] = 0]
      /\ refreshed' \in {refreshed, refreshed \cup {id}}
      /\ UNCHANGED <<deleting, status, upstream, clicks>>
  BY DEF Finished, Refresh
<1>3. Polls' /\ OthersKept(id) /\ NoNewAnswer
  BY <1>1, <1>2, EndPolls DEF TrackerInv
<1>4. s \notin Live /\ (s \in Settled => upstream[id] \in {s, "missing"})
  BY <1>1 DEF normalizeStatus, Live, Settled, TrackerInv, Sound, AnswersTruthful
<1>5. /\ GoodList(operations') /\ DOMAIN operations' = DOMAIN operations
      /\ \A m \in DOMAIN operations :
            /\ operations'[m].id = operations[m].id
            /\ operations[m].id # id => operations'[m] = operations[m]
            /\ operations[m].id = id => operations'[m].status = s
  BY <1>1, <1>2, UpdatedList DEF TrackerInv
<1> HIDE DEF id, s
<1>6. UnsettledWatched'
  BY <1>1, <1>3, <1>4, <1>5, StillWatched DEF TrackerInv, Sound
<1>7. OutcomeTruthful'
  BY <1>2, <1>4, <1>5, StillTruthful DEF TrackerInv, Sound
<1>8. AnswersTruthful'
  BY <1>2, <1>3, AnswersStillTruthful DEF TrackerInv, Sound
<1>9. RestTyped'
  BY <1>1, <1>2 DEF TrackerInv, RestTyped
<1>10. QED
  BY <1>3, <1>5, <1>6, <1>7, <1>8, <1>9 DEF TrackerInv, Sound

\* Lost upstream, or given up: shown as unavailable.
LEMMA UnavailableKeeps ==
    ASSUME TrackerInv, NEW c \in Chain, Missing(c) \/ GivenUp(c)
    PROVE  TrackerInv'
<1> DEFINE id == chain[c].id
<1>1. chain[c].pc # "free" /\ id \in Id
  BY ChainFields DEF TrackerInv, Polls, PollsTyped, Missing, GivenUp, Answered
<1>2. /\ operations' = Unavailable(id) /\ End(c)
      /\ refreshed' \in {refreshed, refreshed \cup {id}}
      /\ UNCHANGED <<attempts, deleting, status, upstream, clicks>>
  BY DEF Missing, GivenUp, Refresh
<1>3. Polls' /\ OthersKept(id) /\ NoNewAnswer
  BY <1>1, <1>2, EndPolls DEF TrackerInv
<1>4. /\ GoodList(operations') /\ DOMAIN operations' = DOMAIN operations
      /\ \A m \in DOMAIN operations :
            /\ operations'[m].id = operations[m].id
            /\ operations[m].id # id => operations'[m] = operations[m]
            /\ operations[m].id = id => operations'[m].status = "unavailable"
  BY <1>1, <1>2, UnavailableList DEF TrackerInv
<1> HIDE DEF id
<1>5. "unavailable" \notin Live \cup Settled
  BY DEF Live, Settled
<1>6. UnsettledWatched'
  BY <1>1, <1>3, <1>4, <1>5, StillWatched DEF TrackerInv, Sound
<1>7. OutcomeTruthful'
  BY <1>2, <1>4, <1>5, StillTruthful DEF TrackerInv, Sound
<1>8. AnswersTruthful'
  BY <1>2, <1>3, AnswersStillTruthful DEF TrackerInv, Sound
<1>9. RestTyped'
  BY <1>1, <1>2 DEF TrackerInv, RestTyped
<1>10. QED
  BY <1>3, <1>4, <1>6, <1>7, <1>8, <1>9 DEF TrackerInv, Sound

LEMMA RetriedKeeps ==
    ASSUME TrackerInv, NEW c \in Chain, Retried(c)
    PROVE  TrackerInv'
<1> DEFINE id == chain[c].id
<1>1. chain[c].pc # "free" /\ id \in Id
  BY ChainFields DEF TrackerInv, Polls, PollsTyped, Retried, Answered
<1>2. /\ Rearm(c)
      /\ UNCHANGED <<operations, deleting, status, upstream, refreshed, clicks>>
  BY DEF Retried
<1>3. /\ Polls' /\ OthersKept(id) /\ NoNewAnswer
      /\ chain'[c].pc # "free" /\ chain'[c].id = id
  BY <1>1, <1>2, RearmPolls DEF TrackerInv
<1> HIDE DEF id
<1>4. \E d \in Chain : chain'[d].pc # "free" /\ chain'[d].id = id
  BY <1>3
<1>5. UnsettledWatched'
  BY <1>1, <1>2, <1>3, <1>4, StillWatched DEF TrackerInv, Sound
<1>6. OutcomeTruthful' /\ GoodList(operations')
  BY <1>2 DEF TrackerInv, Sound, OutcomeTruthful
<1>7. AnswersTruthful'
  BY <1>2, <1>3, AnswersStillTruthful DEF TrackerInv, Sound
<1>8. RestTyped'
  BY <1>2 DEF TrackerInv, RestTyped
<1>9. QED
  BY <1>3, <1>5, <1>6, <1>7, <1>8 DEF TrackerInv, Sound

LEMMA PollKeeps ==
    ASSUME TrackerInv, NEW c \in Chain, Poll(c)
    PROVE  TrackerInv'
BY FireKeeps, ObservedKeeps, FinishedKeeps, UnavailableKeeps, RetriedKeeps DEF Poll

\* The answer is what the upstream has at this moment, or an error.
LEMMA AnswerKeeps ==
    ASSUME TrackerInv, NEW c \in Chain, Answer(c)
    PROVE  TrackerInv'
<1>1. /\ chain \in [Chain -> ChainRecord] /\ timers \in [Id -> Chain \cup {NoTimer}]
      /\ upstream \in [Id -> Live \cup Settled \cup {"none", "odd", "missing"}]
  BY DEF TrackerInv, Polls, PollsTyped, RestTyped
<1>2. chain[c].pc = "reading" /\ chain[c].id \in Id
  BY <1>1, ChainFields DEF Answer, Answered
<1>3. PICK a \in {"error", upstream[chain[c].id]} :
         chain' = [chain EXCEPT ![c].answer = a]
  BY DEF Answer
<1>4. UNCHANGED <<operations, timers, attempts, deleting, status, upstream,
                  refreshed, clicks>>
  BY DEF Answer
<1> DEFINE q == [chain[c] EXCEPT !.answer = a]
<1>5. /\ q \in ChainRecord /\ q.pc = "reading" /\ q.id = chain[c].id
      /\ q.answer = a
  <2>1. chain[c] \in [pc : {"reading", "timer"}, id : Id, attempt : 0..MaxAttempts,
                      knows : BOOLEAN, answer : Answers]
    BY <1>1, <1>2 DEF ChainRecord, Free
  <2>2. a \in Answers
    BY <1>1, <1>2 DEF Answers
  <2>3. q \in [pc : {"reading", "timer"}, id : Id, attempt : 0..MaxAttempts,
              knows : BOOLEAN, answer : Answers]
        /\ q.pc = "reading" /\ q.id = chain[c].id /\ q.answer = a
    BY <1>2, <2>1, <2>2
  <2>4. QED
    BY <2>3 DEF ChainRecord
<1>6. chain' = [chain EXCEPT ![c] = q]
  BY <1>1, <1>3
<1> HIDE DEF q
<1>7. chain'[c] = q /\ \A d \in Chain : d # c => chain'[d] = chain[d]
  BY <1>1, <1>6
<1>8. \A d \in Chain : chain'[d].pc = chain[d].pc
                       /\ (chain[d].pc # "free" => chain'[d].id = chain[d].id)
  BY <1>2, <1>5, <1>7
<1>9. PollsTyped'
  BY <1>1, <1>4, <1>5, <1>6 DEF PollsTyped, TrackerInv, Polls
<1>10. TimersOwn'
  BY <1>1, <1>4, <1>8 DEF TrackerInv, Polls, TimersOwn
<1>11. UnsettledWatched'
  BY <1>4, <1>8 DEF TrackerInv, Sound, UnsettledWatched, Watched
<1>12. OutcomeTruthful'
  BY <1>4 DEF TrackerInv, Sound, OutcomeTruthful
<1>13. AnswersTruthful'
  <2> SUFFICES ASSUME NEW d \in Chain, chain'[d].pc = "reading",
                      chain'[d].answer \in Settled
               PROVE  upstream[chain'[d].id] \in {chain'[d].answer, "missing"}
    BY <1>4 DEF AnswersTruthful
  <2>1. CASE d = c
    BY <2>1, <1>3, <1>5, <1>7 DEF Settled
  <2>2. CASE d # c
    BY <2>2, <1>7 DEF TrackerInv, Sound, AnswersTruthful
  <2>3. QED
    BY <2>1, <2>2
<1>14. RestTyped' /\ GoodList(operations')
  BY <1>4 DEF TrackerInv, RestTyped
<1>15. QED
  BY <1>9, <1>10, <1>11, <1>12, <1>13, <1>14 DEF TrackerInv, Polls, Sound

-----------------------------------------------------------------------------
(* The calls of the pages and the panel.                                    *)

\* A poll that begins in a free chain, with or without clearTimeout before it.
LEMMA BegunPolls ==
    ASSUME Polls, NEW c \in Chain, NEW id \in Id, NEW knows \in BOOLEAN,
           chain[c].pc = "free",
           \/ /\ chain' = [StopTimer(id) EXCEPT ![c] = Reading(id, 0, knows)]
              /\ timers' = [timers EXCEPT ![id] = NoTimer]
           \/ /\ chain' = [chain EXCEPT ![c] = Reading(id, 0, knows)]
              /\ timers' = timers,
           attempts' = [attempts EXCEPT ![id] = 0]
    PROVE  /\ Polls' /\ OthersKept(id) /\ NoNewAnswer
           /\ \E d \in Chain : chain'[d].pc # "free" /\ chain'[d].id = id
<1> DEFINE q == Reading(id, 0, knows)
<1>1. /\ chain \in [Chain -> ChainRecord] /\ timers \in [Id -> Chain \cup {NoTimer}]
      /\ attempts \in [Id -> 0..MaxAttempts] /\ 0 \in 0..MaxAttempts
  BY TrackerAssumption DEF Polls, PollsTyped
<1>2. /\ q \in ChainRecord /\ q.pc = "reading" /\ q.id = id
      /\ q.answer \notin Settled
  BY <1>1, ReadingTyped
<1>3. /\ StopTimer(id) \in [Chain -> ChainRecord]
      /\ \A d \in Chain :
            \/ StopTimer(id)[d] = chain[d]
            \/ /\ StopTimer(id)[d] = Free /\ d = timers[id]
               /\ chain[d].pc # "free" /\ chain[d].id = id
  BY StopTimerChains
<1> HIDE DEF q
<1>4. /\ chain' \in [Chain -> ChainRecord] /\ chain'[c] = q
      /\ \A d \in Chain :
            \/ d = c
            \/ chain'[d] = chain[d]
            \/ /\ chain'[d] = Free /\ d = timers[id] /\ chain[d].id = id
               /\ timers'[id] = NoTimer
  BY <1>1, <1>2, <1>3 DEF q
<1>5. timers' \in [Id -> Chain \cup {NoTimer}]
      /\ \A x \in Id : timers'[x] = timers[x] \/ (x = id /\ timers'[x] = NoTimer)
  BY <1>1
<1>6. PollsTyped'
  BY <1>1, <1>4, <1>5 DEF PollsTyped
<1>7. TimersOwn'
  <2> SUFFICES ASSUME NEW x \in Id, timers'[x] # NoTimer
               PROVE  chain'[timers'[x]].pc # "free" /\ chain'[timers'[x]].id = x
    BY DEF TimersOwn
  <2>1. timers'[x] = timers[x]
    BY <1>5
  <2>2. timers[x] \in Chain /\ chain[timers[x]].pc # "free" /\ chain[timers[x]].id = x
    BY <1>1, <2>1 DEF Polls, TimersOwn
  <2>3. chain'[timers[x]] = chain[timers[x]]
    BY <1>4, <2>1, <2>2
  <2>4. QED
    BY <2>1, <2>2, <2>3
<1>8. OthersKept(id)
  BY <1>4 DEF OthersKept
<1>9. NoNewAnswer
  BY <1>2, <1>4, FreeTyped DEF NoNewAnswer
<1>10. QED
  BY <1>2, <1>4, <1>6, <1>7, <1>8, <1>9 DEF Polls

LEMMA TrackKeeps ==
    ASSUME TrackerInv, NEW c \in Chain, NEW id \in Id, Track(c, id)
    PROVE  TrackerInv'
<1> DEFINE knows == id \in Listed
<1>1. knows \in BOOLEAN
  OBVIOUS
<1>2. /\ chain[c].pc = "free"
      /\ chain' = [StopTimer(id) EXCEPT ![c] = Reading(id, 0, knows)]
      /\ timers' = [timers EXCEPT ![id] = NoTimer]
      /\ attempts' = [attempts EXCEPT ![id] = 0]
  BY DEF Track
<1>3. /\ operations' = Tracked(id) /\ clicks < MaxClicks /\ clicks' = clicks + 1
      /\ refreshed' \subseteq refreshed
      /\ UNCHANGED <<deleting, status, upstream>>
  BY DEF Track
<1> HIDE DEF knows
<1>4. /\ Polls' /\ OthersKept(id) /\ NoNewAnswer
      /\ \E d \in Chain : chain'[d].pc # "free" /\ chain'[d].id = id
  BY <1>1, <1>2, BegunPolls DEF TrackerInv
<1>5. /\ GoodList(operations')
      /\ \A m \in DOMAIN operations' :
            \/ operations'[m] = NewRecord(id)
            \/ \E n \in DOMAIN operations : operations'[m] = operations[n]
  BY <1>3, TrackedList DEF TrackerInv
<1>6. NewRecord(id).id = id /\ NewRecord(id).status \notin Settled
  BY DEF NewRecord, Settled
<1>7. UnsettledWatched'
  BY <1>4, <1>5, <1>6, StillWatched DEF TrackerInv, Sound
<1>8. OutcomeTruthful'
  BY <1>3, <1>5, <1>6, StillTruthful DEF TrackerInv, Sound
<1>9. AnswersTruthful'
  BY <1>3, <1>4, AnswersStillTruthful DEF TrackerInv, Sound
<1>10. RestTyped'
  BY <1>3, TrackerAssumption DEF TrackerInv, RestTyped
<1>11. QED
  BY <1>4, <1>5, <1>7, <1>8, <1>9, <1>10 DEF TrackerInv, Sound

LEMMA CancelAcceptedKeeps ==
    ASSUME TrackerInv, NEW c \in Chain, NEW id \in Id, CancelAccepted(c, id)
    PROVE  TrackerInv'
<1>1. /\ chain[c].pc = "free"
      /\ chain' = [chain EXCEPT ![c] = Reading(id, 0, TRUE)]
      /\ timers' = timers
      /\ attempts' = [attempts EXCEPT ![id] = 0]
      /\ deleting' = deleting \ {id}
      /\ UNCHANGED <<operations, status, upstream, refreshed, clicks>>
  BY DEF CancelAccepted
<1>2. /\ Polls' /\ OthersKept(id) /\ NoNewAnswer
      /\ \E d \in Chain : chain'[d].pc # "free" /\ chain'[d].id = id
  BY <1>1, BegunPolls DEF TrackerInv
<1>3. UnsettledWatched'
  BY <1>1, <1>2, StillWatched DEF TrackerInv, Sound
<1>4. OutcomeTruthful' /\ GoodList(operations')
  BY <1>1 DEF TrackerInv, Sound, OutcomeTruthful
<1>5. AnswersTruthful'
  BY <1>1, <1>2, AnswersStillTruthful DEF TrackerInv, Sound
<1>6. RestTyped'
  BY <1>1 DEF TrackerInv, RestTyped
<1>7. QED
  BY <1>2, <1>3, <1>4, <1>5, <1>6 DEF TrackerInv, Sound

\* The dismissed operation may still have polls; the others keep theirs.
LEMMA DismissKeeps ==
    ASSUME TrackerInv, NEW id \in Id, Dismiss(id)
    PROVE  TrackerInv'
<1> DEFINE K == {i \in DOMAIN operations : operations[i].id # id}
<1>1. /\ chain \in [Chain -> ChainRecord] /\ timers \in [Id -> Chain \cup {NoTimer}]
      /\ attempts \in [Id -> 0..MaxAttempts] /\ 0 \in 0..MaxAttempts
  BY TrackerAssumption DEF TrackerInv, Polls, PollsTyped
<1>2. /\ KeepOnly(K) /\ chain' = StopTimer(id)
      /\ timers' = [timers EXCEPT ![id] = NoTimer]
      /\ attempts' = [attempts EXCEPT ![id] = 0]
      /\ UNCHANGED <<deleting, status, upstream, refreshed, clicks>>
  BY DEF Dismiss
<1>3. /\ GoodList(operations')
      /\ \A m \in DOMAIN operations' : \E n \in K : operations'[m] = operations[n]
  BY <1>2, KeptList DEF TrackerInv
<1>4. /\ chain' \in [Chain -> ChainRecord]
      /\ \A d \in Chain :
            \/ chain'[d] = chain[d]
            \/ /\ chain'[d] = Free /\ chain[d].pc # "free" /\ chain[d].id = id
  BY <1>2, StopTimerChains DEF TrackerInv
<1>5. PollsTyped'
  BY <1>1, <1>2, <1>4 DEF PollsTyped
<1>6. TimersOwn'
  <2> SUFFICES ASSUME NEW x \in Id, timers'[x] # NoTimer
               PROVE  chain'[timers'[x]].pc # "free" /\ chain'[timers'[x]].id = x
    BY DEF TimersOwn
  <2>1. x # id /\ timers'[x] = timers[x]
    BY <1>1, <1>2
  <2>2. timers[x] \in Chain /\ chain[timers[x]].pc # "free" /\ chain[timers[x]].id = x
    BY <1>1, <2>1 DEF TrackerInv, Polls, TimersOwn
  <2>3. QED
    BY <1>4, <2>1, <2>2
<1>7. OthersKept(id) /\ NoNewAnswer
  BY <1>4, FreeTyped DEF OthersKept, NoNewAnswer
<1>8. \A m \in DOMAIN operations' : operations'[m].id # id
  BY <1>3
<1>9. UnsettledWatched'
  BY <1>3, <1>7, <1>8, StillWatched DEF TrackerInv, Sound
<1>10. OutcomeTruthful'
  BY <1>2, <1>3, StillTruthful DEF TrackerInv, Sound
<1>11. AnswersTruthful'
  BY <1>2, <1>7, AnswersStillTruthful DEF TrackerInv, Sound
<1>12. RestTyped'
  BY <1>2 DEF TrackerInv, RestTyped
<1>13. QED
  BY <1>3, <1>5, <1>6, <1>9, <1>10, <1>11, <1>12 DEF TrackerInv, Polls, Sound

LEMMA ClearFinishedKeeps ==
    ASSUME TrackerInv, ClearFinished
    PROVE  TrackerInv'
<1> DEFINE K == {i \in DOMAIN operations : operations[i].status \in Live}
<1>1. KeepOnly(K) /\ UNCHANGED <<timers, attempts, chain, deleting, status,
                                 upstream, refreshed, clicks>>
  BY DEF ClearFinished
<1>2. /\ GoodList(operations')
      /\ \A m \in DOMAIN operations' : \E n \in K : operations'[m] = operations[n]
  BY <1>1, KeptList DEF TrackerInv
<1>3. Polls' /\ RestTyped' /\ AnswersTruthful'
  BY <1>1 DEF TrackerInv, Polls, PollsTyped, TimersOwn, RestTyped, Sound,
              AnswersTruthful
<1>4. UnsettledWatched'
  BY <1>1, <1>2 DEF TrackerInv, Sound, UnsettledWatched, Watched
<1>5. OutcomeTruthful'
  BY <1>1, <1>2, StillTruthful DEF TrackerInv, Sound
<1>6. QED
  BY <1>2, <1>3, <1>4, <1>5 DEF TrackerInv, Sound

-----------------------------------------------------------------------------
(* The session and the upstream.                                            *)

LEMMA SessionEndsKeeps ==
    ASSUME TrackerInv, SessionEnds
    PROVE  TrackerInv'
<1>1. chain \in [Chain -> ChainRecord] /\ 0 \in 0..MaxAttempts
  BY TrackerAssumption DEF TrackerInv, Polls, PollsTyped
<1>2. /\ chain' = [c \in Chain |-> IF chain[c].pc = "timer" /\ ~Unmapped(c)
                                   THEN Free ELSE chain[c]]
      /\ timers' = [id \in Id |-> NoTimer] /\ attempts' = [id \in Id |-> 0]
      /\ operations' = << >> /\ status' = "anonymous"
      /\ UNCHANGED <<deleting, upstream, refreshed, clicks>>
  BY DEF SessionEnds
<1>3. \A c \in Chain : chain'[c] = chain[c] \/ chain'[c] = Free
  BY <1>2
<1>4. Polls'
  <2>1. PollsTyped'
    BY <1>1, <1>2, FreeTyped DEF PollsTyped
  <2>2. TimersOwn'
    BY <1>2 DEF TimersOwn
  <2>3. QED
    BY <2>1, <2>2 DEF Polls
<1>5. GoodList(operations')
  BY <1>2, EmptyList
<1>6. UnsettledWatched' /\ OutcomeTruthful'
  BY <1>2 DEF UnsettledWatched, OutcomeTruthful
<1>7. AnswersTruthful'
  BY <1>2, <1>3, FreeTyped, AnswersStillTruthful DEF NoNewAnswer, TrackerInv, Sound
<1>8. RestTyped'
  BY <1>2 DEF TrackerInv, RestTyped
<1>9. QED
  BY <1>4, <1>5, <1>6, <1>7, <1>8 DEF TrackerInv, Sound

\* Clicks that wait for their reply, and a login: the list and the polls stay.
LEMMA ClicksKeep ==
    ASSUME TrackerInv,
           LoggedIn \/ \E id \in Id : Cancel(id) \/ CancelRefused(id)
    PROVE  TrackerInv'
<1>1. UNCHANGED <<operations, timers, attempts, chain, upstream, refreshed>>
  BY DEF LoggedIn, Cancel, CancelRefused
<1>2. /\ deleting' \subseteq Id /\ status' \in {"authenticated", "anonymous"}
      /\ clicks' \in 0..MaxClicks
  BY TrackerAssumption DEF TrackerInv, RestTyped, LoggedIn, Cancel, CancelRefused
<1>3. RestTyped'
  BY <1>1, <1>2 DEF TrackerInv, RestTyped
<1>4. GoodList(operations') /\ Polls'
  BY <1>1 DEF TrackerInv, Polls, PollsTyped, TimersOwn
<1>5. Sound'
  BY <1>1 DEF TrackerInv, Sound, UnsettledWatched, Watched, OutcomeTruthful,
              AnswersTruthful
<1>6. QED
  BY <1>3, <1>4, <1>5 DEF TrackerInv

\* An end is final upstream: what moves is no end, or is forgotten.
LEMMA UpstreamKeeps ==
    ASSUME TrackerInv, NEW id \in Id, Accept(id) \/ Proceed(id) \/ Forget(id)
    PROVE  TrackerInv'
<1>1. UNCHANGED <<operations, timers, attempts, chain, deleting, status,
                  refreshed, clicks>>
  BY DEF Accept, Proceed, Forget
<1>2. upstream \in [Id -> Live \cup Settled \cup {"none", "odd", "missing"}]
  BY DEF TrackerInv, RestTyped
<1>3. PICK s \in Live \cup Settled \cup {"odd", "missing"} :
         /\ upstream' = [upstream EXCEPT ![id] = s]
         /\ s = "missing" \/ upstream[id] \in Live \cup {"none"}
  BY DEF Accept, Proceed, Forget, Live
<1>4. /\ upstream' \in [Id -> Live \cup Settled \cup {"none", "odd", "missing"}]
      /\ \A x \in Id : \/ upstream'[x] = upstream[x]
                       \/ upstream'[x] = "missing"
                       \/ upstream[x] \in Live \cup {"none"}
  BY <1>2, <1>3
<1>5. \A end \in Settled, x \in Id :
         upstream[x] \in {end, "missing"} => upstream'[x] \in {end, "missing"}
  BY <1>2, <1>3 DEF Settled, Live
<1>6. RestTyped'
  BY <1>1, <1>4 DEF TrackerInv, RestTyped
<1>7. GoodList(operations') /\ Polls' /\ UnsettledWatched'
  BY <1>1 DEF TrackerInv, Polls, PollsTyped, TimersOwn, Sound, UnsettledWatched,
              Watched
<1>8. OutcomeTruthful'
  <2> SUFFICES ASSUME NEW m \in DOMAIN operations, operations[m].status \in Settled
               PROVE  upstream'[operations[m].id] \in {operations[m].status, "missing"}
    BY <1>1 DEF OutcomeTruthful
  <2>1. operations[m].id \in Id
    BY EntryFields DEF TrackerInv
  <2>2. upstream[operations[m].id] \in {operations[m].status, "missing"}
    BY DEF TrackerInv, Sound, OutcomeTruthful
  <2>3. QED
    BY <1>5, <2>1, <2>2
<1>9. AnswersTruthful'
  <2> SUFFICES ASSUME NEW c \in Chain, chain[c].pc = "reading",
                      chain[c].answer \in Settled
               PROVE  upstream'[chain[c].id] \in {chain[c].answer, "missing"}
    BY <1>1 DEF AnswersTruthful
  <2>1. chain[c].id \in Id
    BY ChainFields DEF TrackerInv, Polls, PollsTyped
  <2>2. upstream[chain[c].id] \in {chain[c].answer, "missing"}
    BY DEF TrackerInv, Sound, AnswersTruthful
  <2>3. QED
    BY <1>5, <2>1, <2>2
<1>10. QED
  BY <1>6, <1>7, <1>8, <1>9 DEF TrackerInv, Sound

-----------------------------------------------------------------------------
(* The invariant.                                                           *)

LEMMA TrackerInitially == Init => TrackerInv
<1> SUFFICES ASSUME Init PROVE TrackerInv
  OBVIOUS
<1>1. Polls
  BY FreeTyped, TrackerAssumption DEF Init, Polls, PollsTyped, TimersOwn
<1>2. RestTyped
  BY TrackerAssumption DEF Init, RestTyped
<1>3. Sound
  BY FreeTyped DEF Init, Sound, UnsettledWatched, OutcomeTruthful, AnswersTruthful
<1>4. GoodList(operations)
  BY EmptyList DEF Init
<1>5. QED
  BY <1>1, <1>2, <1>3, <1>4 DEF TrackerInv

LEMMA TrackerKept == TrackerInv /\ [Next]_trackerVars => TrackerInv'
<1> SUFFICES ASSUME TrackerInv, [Next]_trackerVars PROVE TrackerInv'
  OBVIOUS
<1>1. CASE Next
  BY <1>1, PollKeeps, AnswerKeeps, TrackKeeps, CancelAcceptedKeeps, DismissKeeps,
     ClearFinishedKeeps, SessionEndsKeeps, ClicksKeep, UpstreamKeeps DEF Next
<1>2. CASE UNCHANGED trackerVars
  <2>1. GoodList(operations') /\ Polls' /\ RestTyped'
    BY <1>2 DEF trackerVars, TrackerInv, Polls, PollsTyped, TimersOwn, RestTyped
  <2>2. Sound'
    BY <1>2 DEF trackerVars, TrackerInv, Sound, UnsettledWatched, Watched,
                OutcomeTruthful, AnswersTruthful
  <2>3. QED
    BY <2>1, <2>2 DEF TrackerInv
<1>3. QED
  BY <1>1, <1>2

\* The invariant of OperationProvider: a list that holds an operation once, in
\* its cut, map entries that are timers of their own operation, every live
\* operation watched, and no end shown or on its way that the upstream has not.
THEOREM TrackerInvariant == Spec => []TrackerInv
<1>1. Init => TrackerInv
  BY TrackerInitially
<1>2. TrackerInv /\ [Next]_trackerVars => TrackerInv'
  BY TrackerKept
<1>3. QED
  BY <1>1, <1>2, PTL DEF Spec

\* However track(), map() and filter() follow one another, the list shown by
\* OperationTrackerPanel has no operation twice and at most MaxTracked entries,
\* and stop() never clears the timer of another operation.
THEOREM TrackerTyping == Spec => []TrackerTypeOK
<1>1. TrackerInv => TrackerTypeOK
  <2> SUFFICES ASSUME TrackerInv PROVE TrackerTypeOK
    OBVIOUS
  <2>1. operations \in Seq(OperationRecord) /\ Len(operations) <= MaxTracked
    BY DEF TrackerInv, GoodList
  <2>2. Cardinality(Listed) = Len(operations)
    BY OnceEachCounted DEF TrackerInv, GoodList, Listed
  <2>3. \A id \in Id : LET c == timers[id] IN
           c # NoTimer => chain[c].pc # "free" /\ chain[c].id = id
    BY DEF TrackerInv, Polls, TimersOwn
  <2>4. QED
    BY <2>1, <2>2, <2>3 DEF TrackerInv, Polls, PollsTyped, RestTyped, TrackerTypeOK
<1>2. QED
  BY <1>1, TrackerInvariant, PTL

\* However polls of one operation overlap, and whatever is tracked, cancelled,
\* dismissed or lost meanwhile, poll() never leaves an operation listed as
\* queued or running with nothing that will look at it again.
THEOREM LiveAreWatched == Spec => []UnsettledWatched
<1>1. TrackerInv => UnsettledWatched
  BY DEF TrackerInv, Sound
<1>2. QED
  BY <1>1, TrackerInvariant, PTL

\* An operation is shown as ended only as the upstream ended it: a late answer,
\* a repeated track() or an accepted cancel never invents an outcome.
THEOREM OutcomesAreTrue == Spec => []OutcomeTruthful
<1>1. TrackerInv => OutcomeTruthful
  BY DEF TrackerInv, Sound
<1>2. QED
  BY <1>1, TrackerInvariant, PTL
=============================================================================
