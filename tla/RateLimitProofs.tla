--------------------------- MODULE RateLimitProofs ---------------------------
(***************************************************************************)
(* Proofs about RateLimit for every limit, window, capacity and number of  *)
(* pinned keys below the capacity.                                         *)
(***************************************************************************)
EXTENDS RateLimit, FiniteSetTheorems, SequenceTheorems, WellFoundedInduction, TLAPS

-----------------------------------------------------------------------------
(* Types.                                                                  *)

\* Whatever check() evicts is a set of open, unpinned keys.
LEMMA EvictionsRemovable ==
    ASSUME NEW E \in Evictions
    PROVE  E \subseteq OpenKeys \ Pinned
BY DEF Evictions, Removable

LEMMA GrantedType ==
    ASSUME granted \in [Pinned -> Seq(0..MaxTime)], now \in 0..MaxTime,
           NEW k \in Pinned
    PROVE  /\ Granted(k) \in [Pinned -> Seq(0..MaxTime)]
           /\ Granted(k)[k] = Append(granted[k], now)
           /\ \A p \in Pinned \ {k} : Granted(k)[p] = granted[p]
BY DEF Granted

LEMMA LimitTypeStep == LimitTypeOK /\ [LimitNext]_limitVars => LimitTypeOK'
<1> SUFFICES ASSUME LimitTypeOK, [LimitNext]_limitVars
             PROVE  LimitTypeOK'
  OBVIOUS
<1> USE DEF LimitTypeOK, WindowState
<1>1. ASSUME NEW k \in Key, Check(k) PROVE LimitTypeOK'
  <2> DEFINE State(kept) ==
        IF k \notin kept THEN [count |-> 1, windowStartedAt |-> now]
        ELSE IF windows[k].count < Limit THEN [windows[k] EXCEPT !.count = @ + 1]
        ELSE windows[k]
  <2>1. PICK evicted \in Evictions :
          /\ windows' = [j \in (OpenKeys \ evicted) \cup {k} |->
                           IF j = k THEN State(OpenKeys \ evicted) ELSE windows[j]]
          /\ granted' \in {granted, Granted(k)}
          /\ granted' # granted => k \in Pinned
          /\ now' = now
    BY <1>1 DEF Check
  <2>2. OpenKeys \subseteq DOMAIN windows
    BY DEF OpenKeys
  <2>3. State(OpenKeys \ evicted) \in [count : 1..Limit, windowStartedAt : 0..now]
    BY <2>2, RateLimitAssumption
  <2>4. \A j \in DOMAIN windows' :
          /\ windows'[j] \in WindowState
          /\ windows'[j].count \in 1..Limit
          /\ windows'[j].windowStartedAt <= now
    BY <2>1, <2>2, <2>3, RateLimitAssumption
  <2>5. granted' \in [Pinned -> Seq(0..MaxTime)]
    <3>1. k \in Pinned => Granted(k) \in [Pinned -> Seq(0..MaxTime)]
      BY GrantedType
    <3>2. QED
      BY <2>1, <3>1
  <2>6. DOMAIN windows' \subseteq Key /\ windows' \in [DOMAIN windows' -> WindowState]
    BY <2>1, <2>2, <2>4
  <2>7. QED
    BY <2>1, <2>4, <2>5, <2>6
<1>2. CASE Reset
  BY <1>2 DEF Reset
<1>3. CASE LimitTick
  BY <1>3, RateLimitAssumption DEF LimitTick
<1>4. CASE UNCHANGED limitVars
  BY <1>4 DEF limitVars
<1>5. QED
  BY <1>1, <1>2, <1>3, <1>4 DEF LimitNext

\* No counter ever exceeds the limit and no window starts in the future.
THEOREM LimitTyping == LimitSpec => []LimitTypeOK
<1>1. LimitInit => LimitTypeOK
  BY RateLimitAssumption DEF LimitInit, LimitTypeOK
<1>2. QED
  BY <1>1, LimitTypeStep, PTL DEF LimitSpec

-----------------------------------------------------------------------------
(* The table is bounded.                                                   *)

\* Disjoint finite sets together have as many elements as apart.
LEMMA DisjointUnion ==
    ASSUME NEW A, NEW B, IsFiniteSet(A), IsFiniteSet(B), A \cap B = {}
    PROVE  Cardinality(A \cup B) = Cardinality(A) + Cardinality(B)
<1>1. Cardinality(A \cap B) = 0
  BY FS_EmptySet
<1>2. Cardinality(A \cup B) = Cardinality(A) + Cardinality(B) - Cardinality(A \cap B)
  BY FS_Union
<1>3. Cardinality(A) \in Nat /\ Cardinality(B) \in Nat
  BY FS_CardinalityType
<1>4. QED
  BY <1>1, <1>2, <1>3

\* After the eviction there is room for one more key.
LEMMA EvictionMakesRoom ==
    ASSUME LimitTypeOK, NEW E \in Evictions
    PROVE  /\ IsFiniteSet(OpenKeys \ E)
           /\ Cardinality(OpenKeys \ E) < MaxKeys
<1> DEFINE P == OpenKeys \cap Pinned
<1>1. /\ IsFiniteSet(OpenKeys) /\ IsFiniteSet(Removable)
      /\ IsFiniteSet(P) /\ IsFiniteSet(Pinned) /\ IsFiniteSet(OpenKeys \ E)
  <2>1. /\ OpenKeys \subseteq Key /\ Removable \subseteq Key
        /\ P \subseteq Key /\ Pinned \subseteq Key /\ OpenKeys \ E \subseteq Key
    BY RateLimitAssumption DEF LimitTypeOK, OpenKeys, Removable
  <2>2. QED
    BY <2>1, RateLimitAssumption, FS_Subset
<1>2. Cardinality(P) <= Cardinality(Pinned) /\ Cardinality(P) \in Nat
      /\ Cardinality(Pinned) \in Nat /\ Cardinality(Removable) \in Nat
  BY <1>1, FS_Subset, FS_CardinalityType
<1>3. CASE Cardinality(OpenKeys) < MaxKeys
  <2>1. Cardinality(OpenKeys \ E) <= Cardinality(OpenKeys)
    BY <1>1, FS_Subset
  <2>2. Cardinality(OpenKeys \ E) \in Nat /\ Cardinality(OpenKeys) \in Nat
    BY <1>1, FS_CardinalityType
  <2>3. QED
    BY <1>1, <1>3, <2>1, <2>2, RateLimitAssumption
<1>4. CASE Cardinality(OpenKeys) >= MaxKeys
  <2>1. E \subseteq Removable
    BY DEF Evictions
  <2>2. OpenKeys \ E = (Removable \ E) \cup P
    BY <2>1 DEF Removable
  <2>3. IsFiniteSet(Removable \ E) /\ Cardinality(Removable \ E) \in Nat
    BY <1>1, FS_Difference, FS_CardinalityType
  <2>4. (Removable \ E) \cap P = {}
    BY DEF Removable
  <2>5. Cardinality(OpenKeys \ E) = Cardinality(Removable \ E) + Cardinality(P)
    <3>1. Cardinality((Removable \ E) \cup P)
             = Cardinality(Removable \ E) + Cardinality(P)
      BY <1>1, <2>3, <2>4, DisjointUnion
    <3>2. QED
      BY <2>2, <3>1
  <2>6. Cardinality(Removable \ E) <= MaxKeys - Cardinality(Pinned) - 1
    <3>1. CASE RemoveCount <= 0
      <4>1. E = {}
        BY <3>1 DEF Evictions
      <4>2. QED
        BY <1>2, <3>1, <4>1, RateLimitAssumption DEF RemoveCount
    <3>2. CASE RemoveCount > 0 /\ E = Removable
      <4>1. Cardinality(Removable \ E) = 0
        BY <3>2, FS_EmptySet
      <4>2. QED
        BY <1>2, <4>1, RateLimitAssumption
    <3>3. CASE RemoveCount > 0 /\ Cardinality(E) = RemoveCount
      <4>1. Removable \cap E = E
        BY <2>1
      <4>2. Cardinality(Removable \ E) = Cardinality(Removable) - Cardinality(E)
        BY <1>1, <4>1, FS_Difference
      <4>3. QED
        BY <1>2, <3>3, <4>2, RateLimitAssumption DEF RemoveCount
    <3>4. RemoveCount > 0 => E = Removable \/ Cardinality(E) = RemoveCount
      <4>1. RemoveCount \in Int
        BY <1>2, RateLimitAssumption DEF RemoveCount
      <4>2. CASE RemoveCount > 0
        <5>1. ~(Cardinality(OpenKeys) < MaxKeys \/ RemoveCount <= 0)
          BY <1>1, <1>4, <4>1, <4>2, FS_CardinalityType, RateLimitAssumption
        <5>2. QED
          BY <5>1 DEF Evictions
      <4>3. QED
        BY <4>2
    <3>5. QED
      BY <1>2, <3>1, <3>2, <3>3, <3>4, RateLimitAssumption DEF RemoveCount
  <2>7. QED
    BY <1>1, <1>2, <2>3, <2>5, <2>6, RateLimitAssumption
<1>5. QED
  BY <1>1, <1>3, <1>4, FS_CardinalityType, RateLimitAssumption

LEMMA TableBoundedStep ==
    LimitTypeOK /\ TableBounded /\ [LimitNext]_limitVars => TableBounded'
<1> SUFFICES ASSUME LimitTypeOK, TableBounded, [LimitNext]_limitVars
             PROVE  TableBounded'
  OBVIOUS
<1>1. ASSUME NEW k \in Key, Check(k) PROVE TableBounded'
  <2>1. PICK E \in Evictions : DOMAIN windows' = (OpenKeys \ E) \cup {k}
    BY <1>1 DEF Check
  <2>2. IsFiniteSet(OpenKeys \ E) /\ Cardinality(OpenKeys \ E) < MaxKeys
    BY EvictionMakesRoom
  <2>3. Cardinality(OpenKeys \ E) \in Nat
    BY <2>2, FS_CardinalityType
  <2>4. \/ Cardinality((OpenKeys \ E) \cup {k}) = Cardinality(OpenKeys \ E)
        \/ Cardinality((OpenKeys \ E) \cup {k}) = Cardinality(OpenKeys \ E) + 1
    BY <2>2, FS_AddElement
  <2>5. QED
    BY <2>1, <2>2, <2>3, <2>4, RateLimitAssumption DEF TableBounded
<1>2. CASE Reset
  <2>1. DOMAIN windows' = {}
    BY <1>2 DEF Reset
  <2>2. QED
    BY <2>1, FS_EmptySet, RateLimitAssumption DEF TableBounded
<1>3. CASE LimitTick \/ UNCHANGED limitVars
  BY <1>3 DEF LimitTick, limitVars, TableBounded
<1>4. QED
  BY <1>1, <1>2, <1>3 DEF LimitNext

\* However many sources appear, the table of counters never exceeds maxKeys.
THEOREM LimitTableBounded == LimitSpec => []TableBounded
<1>1. LimitInit => TableBounded
  <2>1. LimitInit => DOMAIN windows = {}
    BY DEF LimitInit
  <2>2. QED
    BY <2>1, FS_EmptySet, RateLimitAssumption DEF TableBounded
<1>2. QED
  BY <1>1, LimitTyping, TableBoundedStep, PTL DEF LimitSpec

-----------------------------------------------------------------------------
(* Pinned keys.                                                            *)

LEMMA PinnedStep == LimitTypeOK /\ LimitNext => PinnedStays
<1> SUFFICES ASSUME LimitTypeOK, LimitNext, NEW p \in Pinned \cap DOMAIN windows,
                    Open(p)
             PROVE  \/ p \in DOMAIN windows' /\ windows'[p].count >= windows[p].count
                    \/ windows' = << >>
  BY DEF PinnedStays
<1>1. windows[p].count \in Nat /\ windows[p] \in WindowState
  BY DEF LimitTypeOK, WindowState
<1>2. ASSUME NEW k \in Key, Check(k)
      PROVE  p \in DOMAIN windows' /\ windows'[p].count >= windows[p].count
  <2>1. PICK E \in Evictions :
          windows' = [j \in (OpenKeys \ E) \cup {k} |->
              IF j = k
              THEN IF k \notin OpenKeys \ E THEN [count |-> 1, windowStartedAt |-> now]
                   ELSE IF windows[k].count < Limit
                        THEN [windows[k] EXCEPT !.count = @ + 1]
                   ELSE windows[k]
              ELSE windows[j]]
    BY <1>2 DEF Check
  <2>2. p \in OpenKeys \ E
    BY EvictionsRemovable DEF OpenKeys
  <2>3. QED
    BY <1>1, <2>1, <2>2 DEF WindowState
<1>3. CASE Reset
  BY <1>3 DEF Reset
<1>4. CASE LimitTick
  BY <1>1, <1>4 DEF LimitTick
<1>5. QED
  BY <1>2, <1>3, <1>4 DEF LimitNext

\* No number of other keys makes the limiter forget a pinned counter before
\* its window is over.
THEOREM LimitPinned == LimitSpec => PinnedNeverEvicted
BY LimitTyping, PinnedStep, PTL DEF LimitSpec, PinnedNeverEvicted

-----------------------------------------------------------------------------
(* Retry-After.                                                            *)

\* Division that rounds up: the fewest whole units of b that cover a.
LEMMA CeilDivBound ==
    ASSUME NEW a \in Nat \ {0}, NEW b \in Nat \ {0}
    PROVE  /\ CeilDiv(a, b) \in Nat \ {0}
           /\ a <= CeilDiv(a, b) * b /\ CeilDiv(a, b) * b < a + b
<1> DEFINE n == a + b - 1
           q == n \div b
<1>1. n \in Nat /\ n >= b
  OBVIOUS
<1>2. q \in Int /\ q * b <= n /\ n < q * b + b
  BY <1>1
<1>3. q >= 1
  BY <1>1, <1>2
<1>4. a <= q * b /\ q * b < a + b
  <2>1. q * b \in Int
    BY <1>2
  <2>2. QED
    BY <1>2, <2>1
<1>5. QED
  BY <1>2, <1>3, <1>4 DEF CeilDiv

LEMMA RetryAfterBound == LimitTypeOK => RetryAfterHonest
<1> SUFFICES ASSUME LimitTypeOK, NEW k \in DOMAIN windows, Open(k)
             PROVE  LET left == windows[k].windowStartedAt + Window - now
                    IN /\ left <= RetryAfter(k) * Second
                       /\ RetryAfter(k) * Second < left + Second
  BY DEF RetryAfterHonest
<1> DEFINE left == windows[k].windowStartedAt + Window - now
<1>1. windows[k].windowStartedAt \in Nat /\ now \in Nat /\ Window \in Nat
  BY RateLimitAssumption DEF LimitTypeOK, WindowState
<1>2. left \in Nat \ {0}
  BY <1>1 DEF Open
<1>3. /\ CeilDiv(left, Second) \in Nat \ {0}
      /\ left <= CeilDiv(left, Second) * Second
      /\ CeilDiv(left, Second) * Second < left + Second
  BY <1>2, CeilDivBound, RateLimitAssumption
<1>4. RetryAfter(k) = CeilDiv(left, Second)
  BY <1>3 DEF RetryAfter
<1>5. QED
  BY <1>3, <1>4

\* A refused client is told the end of its window, rounded up to whole seconds:
\* after that wait the window is over, and it did not wait a second too long.
THEOREM LimitRetryAfter == LimitSpec => []RetryAfterHonest
BY RetryAfterBound, LimitTyping, PTL

-----------------------------------------------------------------------------
(* Twice the limit at a boundary.                                          *)

\* What the open or over window of a pinned key says of the key's history: all
\* but the last `count` grants are not after its start, and all but the last
\* count + Limit lie a whole window before it.  Without a window, all but the
\* last Limit lie a whole window before now.
WindowTells(p) ==
    LET g == granted[p]
        w == windows[p]
    IN IF p \in DOMAIN windows
       THEN \A i \in DOMAIN g :
               /\ i <= Len(g) - w.count => g[i] <= w.windowStartedAt
               /\ i <= Len(g) - w.count - Limit => g[i] + Window <= w.windowStartedAt
       ELSE \A i \in DOMAIN g : i <= Len(g) - Limit => g[i] + Window <= now

\* Any grant is a whole window later than the one 2 * Limit before it.
Spaced(p) ==
    \A i, j \in DOMAIN granted[p] :
        i + 2 * Limit <= j => granted[p][i] + Window <= granted[p][j]

BoundaryInv ==
    \A p \in Pinned :
        /\ \A i \in DOMAIN granted[p] : granted[p][i] <= now
        /\ WindowTells(p)
        /\ Spaced(p)

\* The history of a pinned key is a sequence of instants of the clock.
LEMMA HistoryType ==
    ASSUME LimitTypeOK, NEW p \in Pinned
    PROVE  /\ granted[p] \in Seq(0..MaxTime)
           /\ Len(granted[p]) \in Nat /\ DOMAIN granted[p] = 1..Len(granted[p])
           /\ \A i \in DOMAIN granted[p] : granted[p][i] \in 0..MaxTime
           /\ \A i \in DOMAIN granted[p] : granted[p][i] \in Nat
<1>1. granted[p] \in Seq(0..MaxTime)
  BY DEF LimitTypeOK
<1>2. Len(granted[p]) \in Nat /\ DOMAIN granted[p] = 1..Len(granted[p])
  BY <1>1, LenProperties
<1>3. \A i \in DOMAIN granted[p] : granted[p][i] \in 0..MaxTime
  BY <1>1, <1>2, ElementOfSeq
<1>4. 0..MaxTime \subseteq Nat
  OBVIOUS
<1>5. QED
  BY <1>1, <1>2, <1>3, <1>4

\* A pinned key without an open window: all but the last Limit of its grants
\* lie a whole window back.
LEMMA ClosedTells ==
    ASSUME LimitTypeOK, NEW p \in Pinned, WindowTells(p),
           p \in DOMAIN windows => ~Open(p)
    PROVE  \A i \in DOMAIN granted[p] :
               i <= Len(granted[p]) - Limit => granted[p][i] + Window <= now
<1> DEFINE g == granted[p]
<1> SUFFICES ASSUME NEW i \in DOMAIN g, i <= Len(g) - Limit
             PROVE  g[i] + Window <= now
  OBVIOUS
<1>1. i \in Nat /\ Len(g) \in Nat /\ g[i] \in Nat /\ now \in Nat
  <2>1. now \in 0..MaxTime /\ DOMAIN g = 1..Len(g)
    BY HistoryType DEF LimitTypeOK
  <2>2. QED
    BY <2>1, HistoryType
<1>2. CASE p \notin DOMAIN windows
  BY <1>2 DEF WindowTells
<1>3. CASE p \in DOMAIN windows
  <2>1. windows[p].count \in 1..Limit /\ windows[p].windowStartedAt \in Nat
    BY <1>3 DEF LimitTypeOK, WindowState
  <2>2. windows[p].windowStartedAt + Window <= now
    BY <1>1, <1>3, <2>1, RateLimitAssumption DEF Open
  <2>3. i <= Len(g) - windows[p].count
    <3> HIDE DEF g
    <3>1. QED
      BY <1>1, <2>1, RateLimitAssumption
  <2>4. g[i] <= windows[p].windowStartedAt
    BY <1>3, <2>3 DEF WindowTells
  <2> HIDE DEF g
  <2>5. QED
    BY <1>1, <2>1, <2>2, <2>4, RateLimitAssumption
<1>4. QED
  BY <1>2, <1>3

\* One more grant keeps the spacing when the one 2 * Limit before it is old.
LEMMA AppendSpaced ==
    ASSUME NEW g \in Seq(0..MaxTime), NEW t \in 0..MaxTime, NEW h, h = Append(g, t),
           \A i, j \in DOMAIN g : i + 2 * Limit <= j => g[i] + Window <= g[j],
           \A i \in DOMAIN g : i + 2 * Limit <= Len(g) + 1 => g[i] + Window <= t
    PROVE  \A i, j \in DOMAIN h : i + 2 * Limit <= j => h[i] + Window <= h[j]
<1> SUFFICES ASSUME NEW i \in DOMAIN h, NEW j \in DOMAIN h, i + 2 * Limit <= j
             PROVE  h[i] + Window <= h[j]
  OBVIOUS
<1>1. /\ Len(g) \in Nat /\ DOMAIN g = 1..Len(g) /\ DOMAIN h = 1..(Len(g) + 1)
      /\ \A m \in 1..Len(g) : h[m] = g[m]
      /\ h[Len(g) + 1] = t
  OBVIOUS
<1>2. i \in DOMAIN g /\ h[i] = g[i]
  BY <1>1, RateLimitAssumption
<1>3. CASE j \in DOMAIN g
  BY <1>1, <1>2, <1>3
<1>4. CASE j = Len(g) + 1
  BY <1>1, <1>2, <1>4
<1>5. QED
  BY <1>1, <1>3, <1>4

\* A grant in the open window of a pinned key.
LEMMA GrantInWindow ==
    ASSUME LimitTypeOK, BoundaryInv, NEW p \in Pinned, p \in DOMAIN windows,
           windows[p].count < Limit, NEW i \in DOMAIN granted[p],
           i + 2 * Limit <= Len(granted[p]) + 1
    PROVE  granted[p][i] + Window <= now
<1> DEFINE g == granted[p]
<1>1. i \in Nat /\ Len(g) \in Nat /\ g[i] \in Nat /\ now \in Nat
  <2>1. now \in 0..MaxTime /\ DOMAIN g = 1..Len(g)
    BY HistoryType DEF LimitTypeOK
  <2>2. QED
    BY <2>1, HistoryType
<1>2. /\ windows[p].count \in 1..Limit /\ windows[p].windowStartedAt \in Nat
      /\ windows[p].windowStartedAt <= now /\ now \in Nat
  BY DEF LimitTypeOK, WindowState
<1>3. i <= Len(g) - windows[p].count - Limit
  BY <1>1, <1>2, RateLimitAssumption
<1>4. g[i] + Window <= windows[p].windowStartedAt
  BY <1>3 DEF BoundaryInv, WindowTells
<1>5. QED
  BY <1>1, <1>2, <1>4, RateLimitAssumption

\* check() of another key takes away the window of a pinned one only when it is
\* over, and leaves its history alone.
LEMMA OtherCheckTells ==
    ASSUME LimitTypeOK, BoundaryInv, NEW k \in Key, Check(k),
           NEW p \in Pinned, p # k
    PROVE  /\ granted'[p] = granted[p] /\ now' = now
           /\ WindowTells(p)'
<1>1. PICK E \in Evictions :
        /\ DOMAIN windows' = (OpenKeys \ E) \cup {k}
        /\ \A j \in OpenKeys \ E : j # k => windows'[j] = windows[j]
        /\ granted' \in {granted, Granted(k)}
        /\ granted' # granted => k \in Pinned
        /\ now' = now
  BY DEF Check
<1>2. granted'[p] = granted[p]
  BY <1>1, GrantedType DEF LimitTypeOK
<1>3. WindowTells(p)
  BY DEF BoundaryInv
<1>4. p \in OpenKeys \ E <=> p \in DOMAIN windows /\ Open(p)
  BY <1>1, EvictionsRemovable DEF OpenKeys
<1>5. CASE p \in OpenKeys \ E
  BY <1>1, <1>2, <1>3, <1>4, <1>5 DEF WindowTells
<1>6. CASE p \notin OpenKeys \ E
  <2>1. \A i \in DOMAIN granted[p] :
            i <= Len(granted[p]) - Limit => granted[p][i] + Window <= now
    BY <1>3, <1>4, <1>6, ClosedTells
  <2>2. p \notin DOMAIN windows'
    BY <1>1, <1>6
  <2>3. QED
    BY <1>1, <1>2, <2>1, <2>2 DEF WindowTells
<1>7. QED
  BY <1>1, <1>2, <1>5, <1>6

\* check() of a pinned key: refused, counted in the open window, or the first of
\* a new one.
LEMMA OwnCheckTells ==
    ASSUME LimitTypeOK, BoundaryInv, NEW k \in Key, Check(k), k \in Pinned
    PROVE  /\ \A i \in DOMAIN granted'[k] : granted'[k][i] <= now'
           /\ WindowTells(k)'
           /\ Spaced(k)'
<1> DEFINE g == granted[k]
           w == windows[k]
<1>1. PICK E \in Evictions :
        LET kept == OpenKeys \ E
            fits == k \in kept /\ w.count < Limit
            refused == k \in kept /\ w.count >= Limit
            state == IF k \notin kept THEN [count |-> 1, windowStartedAt |-> now]
                     ELSE IF fits THEN [w EXCEPT !.count = @ + 1]
                     ELSE w
        IN /\ windows' = [j \in kept \cup {k} |-> IF j = k THEN state ELSE windows[j]]
           /\ granted' = IF k \in Pinned /\ ~refused THEN Granted(k) ELSE granted
           /\ now' = now
  BY DEF Check
<1>2. k \in OpenKeys \ E <=> k \in DOMAIN windows /\ Open(k)
  BY <1>1, EvictionsRemovable DEF OpenKeys
<1>3. /\ g \in Seq(0..MaxTime) /\ now \in 0..MaxTime /\ now \in Nat /\ now' = now
      /\ Len(g) \in Nat /\ DOMAIN g = 1..Len(g)
      /\ \A i \in DOMAIN g : g[i] \in Nat /\ g[i] <= now
  <2>1. now \in 0..MaxTime /\ now' = now
    BY <1>1 DEF LimitTypeOK
  <2>2. \A i \in DOMAIN g : g[i] <= now
    BY DEF BoundaryInv
  <2>3. QED
    BY <2>1, <2>2, HistoryType
<1>4. WindowTells(k) /\ Spaced(k)
  BY DEF BoundaryInv
<1>5. k \in OpenKeys \ E =>
        /\ k \in DOMAIN windows /\ w \in WindowState
        /\ w.count \in 1..Limit /\ w.windowStartedAt \in Nat /\ w.windowStartedAt <= now
  BY <1>2 DEF LimitTypeOK, WindowState
<1>6. CASE k \in OpenKeys \ E /\ w.count >= Limit
  <2>1. granted'[k] = g
    BY <1>1, <1>6
  <2>2. k \in DOMAIN windows' /\ windows'[k] = w
    <3>1. ~(w.count < Limit)
      BY <1>5, <1>6, RateLimitAssumption
    <3>2. QED
      BY <1>1, <1>6, <3>1
  <2>3. QED
    BY <1>3, <1>4, <1>5, <1>6, <2>1, <2>2 DEF WindowTells, Spaced
<1>7. CASE k \notin OpenKeys \ E \/ w.count < Limit
  <2> DEFINE h == Append(g, now)
  <2>1. granted'[k] = h
    <3>1. granted' = Granted(k)
      BY <1>1, <1>5, <1>7, RateLimitAssumption
    <3>2. QED
      BY <3>1, GrantedType DEF LimitTypeOK
  <2>2. /\ Len(h) = Len(g) + 1 /\ DOMAIN h = 1..(Len(g) + 1)
        /\ \A i \in 1..Len(g) : h[i] = g[i]
        /\ h[Len(g) + 1] = now
    BY <1>3
  <2>3. \A i \in DOMAIN h : h[i] <= now
    BY <1>3, <2>2
  <2>4. \A i \in DOMAIN g : i + 2 * Limit <= Len(g) + 1 => g[i] + Window <= now
    <3>1. CASE k \in OpenKeys \ E
      BY <1>5, <1>7, <3>1, GrantInWindow
    <3>2. CASE k \notin OpenKeys \ E
      <4>1. \A i \in DOMAIN g : i <= Len(g) - Limit => g[i] + Window <= now
        BY <1>2, <1>4, <3>2, ClosedTells
      <4>2. QED
        BY <1>3, <4>1, RateLimitAssumption
    <3>3. QED
      BY <3>1, <3>2
  <2>5. Spaced(k)'
    <3>1. \A i, j \in DOMAIN g : i + 2 * Limit <= j => g[i] + Window <= g[j]
      BY <1>4 DEF Spaced
    <3>2. \A i, j \in DOMAIN h : i + 2 * Limit <= j => h[i] + Window <= h[j]
      BY <1>3, <2>4, <3>1, AppendSpaced
    <3>3. QED
      BY <2>1, <3>2 DEF Spaced
  <2>6. WindowTells(k)'
    <3>1. k \in DOMAIN windows'
      BY <1>1
    <3>2. CASE k \in OpenKeys \ E
      <4>1. windows'[k].count = w.count + 1
            /\ windows'[k].windowStartedAt = w.windowStartedAt
        BY <1>1, <1>5, <1>7, <3>2 DEF WindowState
      <4>2. \A i \in 1..Len(g) :
              /\ i <= Len(g) - w.count => g[i] <= w.windowStartedAt
              /\ i <= Len(g) - w.count - Limit => g[i] + Window <= w.windowStartedAt
        BY <1>3, <1>4, <1>5, <3>2 DEF WindowTells
      <4>3. \A i \in DOMAIN h :
              /\ i <= Len(h) - (w.count + 1) => h[i] <= w.windowStartedAt
              /\ i <= Len(h) - (w.count + 1) - Limit
                   => h[i] + Window <= w.windowStartedAt
        <5> SUFFICES ASSUME NEW i \in DOMAIN h
                     PROVE  /\ i <= Len(h) - (w.count + 1) => h[i] <= w.windowStartedAt
                            /\ i <= Len(h) - (w.count + 1) - Limit
                                 => h[i] + Window <= w.windowStartedAt
          OBVIOUS
        <5> DEFINE c == w.count
                   n == Len(g)
        <5>1. c \in Nat \ {0} /\ n \in Nat /\ i \in 1..(n + 1) /\ Len(h) = n + 1
          BY <1>3, <1>5, <2>2, <3>2, RateLimitAssumption
        <5>2. CASE i \in 1..n
          <6>1. h[i] = g[i]
            BY <2>2, <5>2
          <6>2. /\ i <= n - c => g[i] <= w.windowStartedAt
                /\ i <= n - c - Limit => g[i] + Window <= w.windowStartedAt
            BY <4>2, <5>2
          <6>3. Len(h) - (c + 1) = n - c
            BY <5>1
          <6> HIDE DEF c, n, g, h
          <6>4. QED
            BY <6>1, <6>2, <6>3 DEF c
        <5>3. CASE i = n + 1
          <6> HIDE DEF c, n, g, h
          <6>1. ~(i <= Len(h) - (c + 1)) /\ ~(i <= Len(h) - (c + 1) - Limit)
            BY <5>1, <5>3, RateLimitAssumption
          <6>2. QED
            BY <6>1 DEF c
        <5>4. QED
          BY <5>1, <5>2, <5>3
      <4>4. QED
        BY <2>1, <3>1, <4>1, <4>3 DEF WindowTells
    <3>3. CASE k \notin OpenKeys \ E
      <4>1. windows'[k].count = 1 /\ windows'[k].windowStartedAt = now
        BY <1>1, <3>3
      <4>2. \A i \in DOMAIN g : i <= Len(g) - Limit => g[i] + Window <= now
        BY <1>2, <1>4, <3>3, ClosedTells
      <4>3. \A i \in DOMAIN h :
              /\ i <= Len(h) - 1 => h[i] <= now
              /\ i <= Len(h) - 1 - Limit => h[i] + Window <= now
        BY <1>3, <2>2, <2>3, <4>2, RateLimitAssumption
      <4>4. QED
        BY <2>1, <3>1, <4>1, <4>3 DEF WindowTells
    <3>4. QED
      BY <3>2, <3>3
  <2>7. QED
    BY <1>3, <2>1, <2>3, <2>5, <2>6
<1>8. QED
  BY <1>5, <1>6, <1>7, RateLimitAssumption

LEMMA BoundaryStep == LimitTypeOK /\ BoundaryInv /\ [LimitNext]_limitVars => BoundaryInv'
<1> SUFFICES ASSUME LimitTypeOK, BoundaryInv, [LimitNext]_limitVars,
                    NEW p \in Pinned
             PROVE  /\ \A i \in DOMAIN granted'[p] : granted'[p][i] <= now'
                    /\ WindowTells(p)'
                    /\ Spaced(p)'
  BY DEF BoundaryInv
<1>1. ASSUME NEW k \in Key, Check(k), k = p
      PROVE  /\ \A i \in DOMAIN granted'[p] : granted'[p][i] <= now'
             /\ WindowTells(p)'
             /\ Spaced(p)'
  BY <1>1, OwnCheckTells
<1>2. ASSUME NEW k \in Key, Check(k), k # p
      PROVE  /\ \A i \in DOMAIN granted'[p] : granted'[p][i] <= now'
             /\ WindowTells(p)'
             /\ Spaced(p)'
  <2>1. granted'[p] = granted[p] /\ now' = now /\ WindowTells(p)'
    BY <1>2, OtherCheckTells
  <2>2. QED
    BY <2>1 DEF BoundaryInv, Spaced
<1>3. CASE Reset
  <2>1. granted'[p] = << >>
    BY <1>3 DEF Reset
  <2>2. p \notin DOMAIN windows'
    BY <1>3 DEF Reset
  <2>3. QED
    BY <2>1, <2>2 DEF WindowTells, Spaced
<1>4. CASE LimitTick
  <2>1. granted' = granted /\ windows' = windows /\ now' = now + 1
    BY <1>4 DEF LimitTick
  <2>2. /\ granted[p] \in Seq(0..MaxTime) /\ now \in Nat
        /\ \A i \in DOMAIN granted[p] : granted[p][i] \in Nat /\ granted[p][i] <= now
        /\ WindowTells(p) /\ Spaced(p)
    <3>1. now \in 0..MaxTime
      BY DEF LimitTypeOK
    <3>2. QED
      BY <3>1, HistoryType DEF BoundaryInv
  <2>3. WindowTells(p)'
    BY <2>1, <2>2, RateLimitAssumption DEF WindowTells
  <2>4. QED
    BY <2>1, <2>2, <2>3 DEF Spaced
<1>5. CASE UNCHANGED limitVars
  BY <1>5 DEF limitVars, BoundaryInv, WindowTells, Spaced
<1>6. QED
  BY <1>1, <1>2, <1>3, <1>4, <1>5 DEF LimitNext

LEMMA LeastExists ==
    ASSUME NEW S, S \subseteq Nat, S # {}
    PROVE  \E i \in S : \A j \in S : i <= j
<1> DEFINE less == {m \in Nat \X Nat : m[1] < m[2]}
<1>1. IsWellFoundedOn(less, Nat)
  BY NatLessThanWellFounded DEF OpToRel
<1> HIDE DEF less
<1>2. PICK i \in S : \A j \in S : <<j, i>> \notin less
  BY <1>1, WFMin
<1>3. \A j \in S : ~(j < i)
  BY <1>2 DEF less
<1> QED
  BY <1>3

\* Spaced grants are few in any one window's length: they lie among 2 * Limit
\* places from the first of them on.
LEMMA SpacedBound ==
    ASSUME LimitTypeOK, NEW p \in Pinned, Spaced(p), NEW t \in 0..MaxTime
    PROVE  AllowedUpTo(p, t) <= 2 * Limit
<1> DEFINE g == granted[p]
           S == {i \in DOMAIN g : t - Window < g[i] /\ g[i] <= t}
<1>1. /\ Len(g) \in Nat /\ DOMAIN g = 1..Len(g)
      /\ \A i \in DOMAIN g : g[i] \in Nat
  BY HistoryType
<1>2. AllowedUpTo(p, t) = Cardinality(S)
  BY DEF AllowedUpTo
<1>3. CASE S = {}
  <2>1. Cardinality(S) = 0
    BY <1>3, FS_EmptySet
  <2>2. QED
    BY <1>2, <2>1, RateLimitAssumption
<1>4. CASE S # {}
  <2>1. S \subseteq Nat
    BY <1>1
  <2>2. PICK m \in S : \A i \in S : m <= i
    BY <1>4, <2>1, LeastExists
  <2>3. m \in Nat
    BY <2>1
  <2>4. \A i \in S : i < m + 2 * Limit
    <3> SUFFICES ASSUME NEW i \in S, i >= m + 2 * Limit PROVE FALSE
      BY <2>1, <2>3, RateLimitAssumption
    <3>1. g[m] + Window <= g[i]
      BY <2>3 DEF Spaced
    <3>2. QED
      BY <1>1, <3>1, RateLimitAssumption
  <2>5. S \subseteq m..(m + 2 * Limit - 1)
    BY <2>1, <2>2, <2>3, <2>4, RateLimitAssumption
  <2>6. /\ IsFiniteSet(m..(m + 2 * Limit - 1))
        /\ Cardinality(m..(m + 2 * Limit - 1)) = 2 * Limit
    <3> DEFINE last == m + 2 * Limit - 1
    <3>1. m \in Int /\ last \in Int /\ m <= last /\ last - m + 1 = 2 * Limit
      BY <2>3, RateLimitAssumption
    <3>2. IsFiniteSet(m..last) /\ Cardinality(m..last) = last - m + 1
      <4> HIDE DEF last
      <4>1. /\ IsFiniteSet(m..last)
            /\ Cardinality(m..last) = IF m > last THEN 0 ELSE last - m + 1
        BY <3>1, FS_Interval
      <4>2. ~(m > last)
        BY <3>1
      <4>3. QED
        BY <4>1, <4>2
    <3>3. QED
      BY <3>1, <3>2
  <2>7. Cardinality(S) <= Cardinality(m..(m + 2 * Limit - 1))
    BY <2>5, <2>6, FS_Subset
  <2>8. QED
    BY <1>2, <2>6, <2>7
<1>5. QED
  BY <1>3, <1>4

LEMMA BoundaryInitially == LimitInit => BoundaryInv
BY DEF LimitInit, BoundaryInv, WindowTells, Spaced

\* "A fixed window lets at most twice the limit through at its boundary": for
\* every limit, window, capacity and number of other keys, no stretch as long as
\* one window holds more than 2 * Limit grants of a pinned key.
THEOREM LimitBoundary == LimitSpec => []BoundaryBound
<1>1. LimitTypeOK /\ BoundaryInv => BoundaryBound
  BY SpacedBound DEF BoundaryInv, BoundaryBound
<1>2. QED
  BY <1>1, LimitTyping, BoundaryInitially, BoundaryStep, PTL DEF LimitSpec
=============================================================================
