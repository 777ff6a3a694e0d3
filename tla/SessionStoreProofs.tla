------------------------- MODULE SessionStoreProofs -------------------------
(***************************************************************************)
(* Proofs about SessionStore for every table size, idle time, lifetime and *)
(* set of upstream deadlines.                                              *)
(***************************************************************************)
EXTENDS SessionStore, FiniteSetTheorems, TLAPS

-----------------------------------------------------------------------------
(* Lemmas about the values.                                                *)

LEMMA EarlierBound ==
    ASSUME NEW a \in Nat, NEW b \in Nat
    PROVE  Earlier(a, b) \in Nat /\ Earlier(a, b) <= a /\ Earlier(a, b) <= b
BY DEF Earlier

\* createSession builds a well-typed object whose deadline is bounded by the
\* lifetime and by the upstream deadline.
LEMMA NewSessionBound ==
    ASSUME now \in Nat, NEW absolute \in MaybeTime, NEW idle \in MaybeIdleTime
    PROVE  LET s == NewSession(absolute, idle)
           IN /\ s \in WebSession
              /\ s.createdAt = now /\ s.lastSeenAt = now
              /\ s.absoluteExpiresAt <= s.createdAt + SessionMax
              /\ Truthy(s.upstreamAbsoluteExpiresAt) =>
                    s.absoluteExpiresAt <= s.upstreamAbsoluteExpiresAt
<1>1. now + SessionMax \in Nat /\ now \in Nat
  BY LimitsAssumption
<1>2. CASE Truthy(absolute)
  <2>1. absolute \in Nat
    BY <1>2, UpstreamTimeAssumption DEF Truthy, MaybeTime
  <2>2. QED
    BY <1>1, <1>2, <2>1, EarlierBound DEF NewSession, WebSession
<1>3. CASE ~Truthy(absolute)
  BY <1>1, <1>3 DEF NewSession, WebSession
<1>4. QED
  BY <1>2, <1>3

\* applyUpstreamSessionSummary keeps those bounds and leaves createdAt and
\* lastSeenAt alone.
LEMMA RefreshedBound ==
    ASSUME now \in Nat, NEW s \in WebSession,
           NEW absolute \in MaybeTime, NEW idle \in MaybeIdleTime
    PROVE  LET r == Refreshed(s, absolute, idle)
           IN /\ r \in WebSession
              /\ r.createdAt = s.createdAt /\ r.lastSeenAt = s.lastSeenAt
              /\ absolute = NoTime =>
                    /\ r.absoluteExpiresAt = s.absoluteExpiresAt
                    /\ r.upstreamAbsoluteExpiresAt = s.upstreamAbsoluteExpiresAt
              /\ absolute # NoTime =>
                    /\ r.absoluteExpiresAt <= s.createdAt + SessionMax
                    /\ r.absoluteExpiresAt <= absolute
                    /\ r.upstreamAbsoluteExpiresAt = absolute
<1>1. s.createdAt + SessionMax \in Nat
  BY LimitsAssumption DEF WebSession
<1>2. CASE absolute = NoTime
  BY <1>2 DEF Refreshed, WebSession
<1>3. CASE absolute # NoTime
  <2>1. absolute \in Nat
    BY <1>3, UpstreamTimeAssumption DEF MaybeTime
  <2>2. QED
    BY <1>1, <1>3, <2>1, EarlierBound DEF Refreshed, WebSession
<1>4. QED
  BY <1>2, <1>3

-----------------------------------------------------------------------------
(* Types.                                                                  *)

LEMMA TypeInit == StoreInit => StoreTypeOK
BY DEF StoreInit, StoreTypeOK

LEMMA TypeStep == StoreTypeOK /\ [StoreNext]_storeVars => StoreTypeOK'
<1> SUFFICES ASSUME StoreTypeOK, [StoreNext]_storeVars
             PROVE  StoreTypeOK'
  OBVIOUS
<1> USE DEF StoreTypeOK
<1>1. ASSUME NEW p \in PreToken, ReusePrelogin(p) PROVE StoreTypeOK'
  BY <1>1 DEF ReusePrelogin, SweptSessions, SweptPrelogins
<1>2. ASSUME NEW p \in PreToken, CreatePrelogin(p) PROVE StoreTypeOK'
  <2>1. NewPrelogin \in PreloginSession
    BY LimitsAssumption DEF NewPrelogin, PreloginSession
  <2>2. /\ DOMAIN preloginObject' = DOMAIN preloginObject \cup {p}
        /\ preloginObject' \in [DOMAIN preloginObject' -> PreloginSession]
    BY <1>2, <2>1 DEF CreatePrelogin, Allocate
  <2>3. QED
    BY <1>2, <2>2 DEF CreatePrelogin, SweptSessions, SweptPrelogins
<1>3. ASSUME NEW p \in PreToken, GetPrelogin(p) PROVE StoreTypeOK'
  BY <1>3 DEF GetPrelogin
<1>4. ASSUME NEW p \in PreToken, DropPrelogin(p) PROVE StoreTypeOK'
  BY <1>4 DEF DropPrelogin
<1>5. ASSUME NEW t \in Token, GetSession(t) PROVE StoreTypeOK'
  BY <1>5 DEF GetSession, WebSession
<1>6. ASSUME NEW t \in Token, DestroySession(t) PROVE StoreTypeOK'
  BY <1>6 DEF DestroySession
<1>7. ASSUME NEW t \in Token, NEW absolute \in MaybeTime,
             NEW idle \in MaybeIdleTime, CreateSession(t, absolute, idle)
      PROVE  StoreTypeOK'
  <2>1. NewSession(absolute, idle) \in WebSession
    BY NewSessionBound
  <2>2. /\ DOMAIN object' = DOMAIN object \cup {t}
        /\ object' \in [DOMAIN object' -> WebSession]
    BY <1>7, <2>1 DEF CreateSession, Allocate
  <2>3. QED
    BY <1>7, <2>2 DEF CreateSession, SweptSessions, SweptPrelogins
<1>8. ASSUME NEW t \in Token, NEW absolute \in MaybeTime,
             NEW idle \in MaybeIdleTime,
             ApplyUpstreamSessionSummary(t, absolute, idle)
      PROVE  StoreTypeOK'
  <2>1. Refreshed(object[t], absolute, idle) \in WebSession
    BY <1>8, RefreshedBound DEF ApplyUpstreamSessionSummary
  <2>2. QED
    BY <1>8, <2>1 DEF ApplyUpstreamSessionSummary
<1>9. CASE Sweep
  BY <1>9 DEF Sweep, SweptSessions, SweptPrelogins
<1>10. CASE Tick
  BY <1>10 DEF Tick
<1>11. CASE UNCHANGED storeVars
  BY <1>11 DEF storeVars
<1>12. QED
  BY <1>1, <1>2, <1>3, <1>4, <1>5, <1>6, <1>7, <1>8, <1>9, <1>10, <1>11
  DEF StoreNext

\* The store only ever holds well-formed entries, and the tables only name
\* objects that were created.
THEOREM StoreTyping == StoreSpec => []StoreTypeOK
BY TypeInit, TypeStep, PTL DEF StoreSpec

-----------------------------------------------------------------------------
(* Capacity.                                                               *)

\* Removing entries keeps a table within its limit, and so does adding one to
\* a table strictly below it.
LEMMA SubsetWithin ==
    ASSUME NEW U, IsFiniteSet(U), NEW A \in SUBSET U, NEW B \in SUBSET A,
           NEW n \in Nat, Cardinality(A) <= n
    PROVE  Cardinality(B) <= n
<1>1. IsFiniteSet(A)
  BY FS_Subset
<1>2. Cardinality(B) <= Cardinality(A) /\ IsFiniteSet(B)
  BY <1>1, FS_Subset
<1>3. Cardinality(A) \in Nat /\ Cardinality(B) \in Nat
  BY <1>1, <1>2, FS_CardinalityType
<1>4. QED
  BY <1>2, <1>3

LEMMA AddWithin ==
    ASSUME NEW U, IsFiniteSet(U), NEW A \in SUBSET U, NEW e,
           NEW n \in Nat, Cardinality(A) < n
    PROVE  Cardinality(A \cup {e}) <= n
<1>1. IsFiniteSet(A)
  BY FS_Subset
<1>2. Cardinality(A) \in Nat
  BY <1>1, FS_CardinalityType
<1>3. Cardinality(A \cup {e}) = Cardinality(A) \/ Cardinality(A \cup {e}) = Cardinality(A) + 1
  BY <1>1, FS_AddElement
<1>4. QED
  BY <1>2, <1>3

LEMMA CapacityStep ==
    StoreTypeOK /\ CapacityBound /\ [StoreNext]_storeVars => CapacityBound'
<1> SUFFICES ASSUME StoreTypeOK, CapacityBound, [StoreNext]_storeVars
             PROVE  CapacityBound'
  OBVIOUS
<1>1. /\ sessions \in SUBSET Token /\ prelogins \in SUBSET PreToken
      /\ SweptSessions \in SUBSET sessions /\ SweptPrelogins \in SUBSET prelogins
      /\ IsFiniteSet(Token) /\ IsFiniteSet(PreToken)
      /\ MaxSessions \in Nat /\ MaxPrelogins \in Nat
  BY TokensAssumption, LimitsAssumption
  DEF StoreTypeOK, SweptSessions, SweptPrelogins
<1>2. ASSUME sessions' \in SUBSET sessions
      PROVE  Cardinality(sessions') <= MaxSessions
  BY <1>1, <1>2, SubsetWithin DEF CapacityBound
<1>3. ASSUME prelogins' \in SUBSET prelogins
      PROVE  Cardinality(prelogins') <= MaxPrelogins
  BY <1>1, <1>3, SubsetWithin DEF CapacityBound
<1>4. ASSUME NEW p \in PreToken, CreatePrelogin(p) PROVE CapacityBound'
  <2>1. sessions' \in SUBSET sessions
    BY <1>1, <1>4 DEF CreatePrelogin
  <2>2. SweptPrelogins \in SUBSET PreToken
    BY <1>1
  <2>3. Cardinality(SweptPrelogins \cup {p}) <= MaxPrelogins
    BY <1>1, <1>4, <2>2, AddWithin DEF CreatePrelogin
  <2>4. QED
    BY <1>2, <1>4, <2>1, <2>3 DEF CreatePrelogin, CapacityBound
<1>5. ASSUME NEW t \in Token, NEW absolute \in MaybeTime,
             NEW idle \in MaybeIdleTime, CreateSession(t, absolute, idle)
      PROVE  CapacityBound'
  <2>1. prelogins' \in SUBSET prelogins
    BY <1>1, <1>5 DEF CreateSession
  <2>2. SweptSessions \in SUBSET Token
    BY <1>1
  <2>3. Cardinality(SweptSessions \cup {t}) <= MaxSessions
    BY <1>1, <1>5, <2>2, AddWithin DEF CreateSession
  <2>4. QED
    BY <1>3, <1>5, <2>1, <2>3 DEF CreateSession, CapacityBound
<1>6. ASSUME sessions' \in SUBSET sessions, prelogins' \in SUBSET prelogins
      PROVE  CapacityBound'
  BY <1>2, <1>3, <1>6 DEF CapacityBound
<1>7. ASSUME NEW p \in PreToken, ReusePrelogin(p) \/ GetPrelogin(p) \/ DropPrelogin(p)
      PROVE  CapacityBound'
  BY <1>1, <1>6, <1>7 DEF ReusePrelogin, GetPrelogin, DropPrelogin
<1>8. ASSUME NEW t \in Token, GetSession(t) \/ DestroySession(t) PROVE CapacityBound'
  BY <1>6, <1>8 DEF GetSession, DestroySession
<1>9. ASSUME NEW t \in Token, NEW absolute \in MaybeTime,
             NEW idle \in MaybeIdleTime,
             ApplyUpstreamSessionSummary(t, absolute, idle)
      PROVE  CapacityBound'
  BY <1>6, <1>9 DEF ApplyUpstreamSessionSummary
<1>10. CASE Sweep \/ Tick \/ UNCHANGED storeVars
  BY <1>1, <1>6, <1>10 DEF Sweep, Tick, storeVars
<1>11. QED
  BY <1>4, <1>5, <1>7, <1>8, <1>9, <1>10 DEF StoreNext

\* Neither table ever outgrows its configured limit, for any limit.
THEOREM StoreCapacity == StoreSpec => []CapacityBound
<1>1. StoreInit => CapacityBound
  BY LimitsAssumption, FS_EmptySet DEF StoreInit, CapacityBound
<1>2. QED
  BY <1>1, StoreTyping, CapacityStep, PTL DEF StoreSpec

-----------------------------------------------------------------------------
(* Deadlines.  UsedWithinLifetime is not inductive: that getSession refuses *)
(* a session past its lifetime rests on the deadline being anchored.        *)

DeadlineInv == StoreTypeOK /\ DeadlineAnchored /\ UsedWithinLifetime

LEMMA DeadlineInit == StoreInit => DeadlineInv
BY DEF StoreInit, DeadlineInv, StoreTypeOK, DeadlineAnchored, UsedWithinLifetime

\* The lifetime facts of one session object at instant n.
GoodSession(s, n) ==
    /\ s.absoluteExpiresAt <= s.createdAt + SessionMax
    /\ Truthy(s.upstreamAbsoluteExpiresAt) =>
          s.absoluteExpiresAt <= s.upstreamAbsoluteExpiresAt
    /\ s.createdAt <= s.lastSeenAt /\ s.lastSeenAt <= n
    /\ s.lastSeenAt < s.createdAt + SessionMax

GoodPrelogin(p) == p.expiresAt = p.createdAt + BootstrapTtl

LEMMA DeadlineByObject ==
    DeadlineAnchored /\ UsedWithinLifetime
    <=> /\ \A t \in DOMAIN object : GoodSession(object[t], now)
        /\ \A p \in DOMAIN preloginObject : GoodPrelogin(preloginObject[p])
BY DEF DeadlineAnchored, UsedWithinLifetime, GoodSession, GoodPrelogin

\* The invariant follows from the next values of the heaps alone.
LEMMA DeadlineByObjectNext ==
    ASSUME \A t \in DOMAIN object' : GoodSession(object'[t], now'),
           \A p \in DOMAIN preloginObject' : GoodPrelogin(preloginObject'[p])
    PROVE  DeadlineAnchored' /\ UsedWithinLifetime'
BY DEF DeadlineAnchored, UsedWithinLifetime, GoodSession, GoodPrelogin, Truthy

LEMMA DeadlineStep == DeadlineInv /\ [StoreNext]_storeVars => DeadlineInv'
<1> SUFFICES ASSUME DeadlineInv, [StoreNext]_storeVars
             PROVE  DeadlineAnchored' /\ UsedWithinLifetime'
  BY TypeStep DEF DeadlineInv
<1>1. StoreTypeOK
  BY DEF DeadlineInv
<1>2. \A t \in DOMAIN object : GoodSession(object[t], now)
  BY DeadlineByObject DEF DeadlineInv
<1>3. \A p \in DOMAIN preloginObject : GoodPrelogin(preloginObject[p])
  BY DeadlineByObject DEF DeadlineInv
<1>4. ASSUME now' = now \/ now' = now + 1, UNCHANGED object, UNCHANGED preloginObject
      PROVE  DeadlineAnchored' /\ UsedWithinLifetime'
  <2>1. \A t \in DOMAIN object' : GoodSession(object'[t], now')
    BY <1>1, <1>2, <1>4 DEF GoodSession, StoreTypeOK, WebSession
  <2>2. QED
    BY <1>3, <1>4, <2>1, DeadlineByObjectNext
<1>5. ASSUME NEW p \in PreToken, CreatePrelogin(p)
      PROVE  DeadlineAnchored' /\ UsedWithinLifetime'
  <2>1. GoodPrelogin(NewPrelogin)
    BY DEF GoodPrelogin, NewPrelogin
  <2>2. \A q \in DOMAIN preloginObject' : GoodPrelogin(preloginObject'[q])
    BY <1>3, <1>5, <2>1 DEF CreatePrelogin, Allocate
  <2>3. QED
    BY <1>2, <1>5, <2>2, DeadlineByObjectNext DEF CreatePrelogin
<1>6. ASSUME NEW t \in Token, GetSession(t)
      PROVE  DeadlineAnchored' /\ UsedWithinLifetime'
  <2>1. CASE IsExpired(object[t])
    BY <1>4, <1>6, <2>1 DEF GetSession
  <2>2. CASE ~IsExpired(object[t])
    <3>1. t \in DOMAIN object /\ object[t] \in WebSession /\ now \in Nat
      BY <1>1, <1>6 DEF GetSession, StoreTypeOK
    <3>2. now < object[t].absoluteExpiresAt
      BY <2>2, <3>1 DEF IsExpired, WebSession
    <3>3. object' = [object EXCEPT ![t].lastSeenAt = now]
      BY <1>6, <2>2 DEF GetSession
    <3>4. GoodSession(object'[t], now)
      BY <1>2, <3>1, <3>2, <3>3, LimitsAssumption DEF GoodSession, WebSession
    <3>5. \A u \in DOMAIN object' : GoodSession(object'[u], now')
      BY <1>2, <1>6, <3>1, <3>3, <3>4 DEF GetSession
    <3>6. QED
      BY <1>3, <1>6, <3>5, DeadlineByObjectNext DEF GetSession
  <2>3. QED
    BY <2>1, <2>2
<1>7. ASSUME NEW t \in Token, NEW absolute \in MaybeTime,
             NEW idle \in MaybeIdleTime, CreateSession(t, absolute, idle)
      PROVE  DeadlineAnchored' /\ UsedWithinLifetime'
  <2>1. GoodSession(NewSession(absolute, idle), now)
    <3>1. now \in Nat
      BY <1>1 DEF StoreTypeOK
    <3>2. QED
      BY <3>1, NewSessionBound, LimitsAssumption DEF GoodSession, WebSession
  <2>2. \A u \in DOMAIN object' : GoodSession(object'[u], now')
    BY <1>2, <1>7, <2>1 DEF CreateSession, Allocate
  <2>3. QED
    BY <1>3, <1>7, <2>2, DeadlineByObjectNext DEF CreateSession
<1>8. ASSUME NEW t \in Token, NEW absolute \in MaybeTime,
             NEW idle \in MaybeIdleTime,
             ApplyUpstreamSessionSummary(t, absolute, idle)
      PROVE  DeadlineAnchored' /\ UsedWithinLifetime'
  <2>1. t \in DOMAIN object /\ object[t] \in WebSession /\ now \in Nat
    BY <1>1, <1>8 DEF ApplyUpstreamSessionSummary, StoreTypeOK
  <2>2. GoodSession(Refreshed(object[t], absolute, idle), now)
    BY <1>2, <2>1, RefreshedBound DEF GoodSession
  <2>3. \A u \in DOMAIN object' : GoodSession(object'[u], now')
    BY <1>2, <1>8, <2>1, <2>2 DEF ApplyUpstreamSessionSummary
  <2>4. QED
    BY <1>3, <1>8, <2>3, DeadlineByObjectNext DEF ApplyUpstreamSessionSummary
<1>9. ASSUME NEW p \in PreToken, ReusePrelogin(p) \/ GetPrelogin(p) \/ DropPrelogin(p)
      PROVE  DeadlineAnchored' /\ UsedWithinLifetime'
  BY <1>4, <1>9 DEF ReusePrelogin, GetPrelogin, DropPrelogin
<1>10. ASSUME NEW t \in Token, DestroySession(t)
       PROVE  DeadlineAnchored' /\ UsedWithinLifetime'
  BY <1>4, <1>10 DEF DestroySession
<1>11. CASE Sweep \/ Tick \/ UNCHANGED storeVars
  BY <1>4, <1>11 DEF Sweep, Tick, storeVars
<1>12. QED
  BY <1>5, <1>6, <1>7, <1>8, <1>9, <1>10, <1>11 DEF StoreNext

\* No sequence of refreshes moves a session's deadline past its creation plus
\* the configured lifetime, nor past the upstream deadline last learnt.
THEOREM StoreDeadlines == StoreSpec => []DeadlineAnchored
<1>1. DeadlineInv => DeadlineAnchored
  BY DEF DeadlineInv
<1>2. QED
  BY <1>1, DeadlineInit, DeadlineStep, PTL DEF StoreSpec

\* Hence getSession accepts no session at or after that instant.
THEOREM StoreLifetime == StoreSpec => []UsedWithinLifetime
<1>1. DeadlineInv => UsedWithinLifetime
  BY DEF DeadlineInv
<1>2. QED
  BY <1>1, DeadlineInit, DeadlineStep, PTL DEF StoreSpec

-----------------------------------------------------------------------------
(* What no step does.                                                      *)

LEMMA LastSeenStep == StoreTypeOK /\ StoreNext => LastSeenKept
<1> SUFFICES ASSUME StoreTypeOK, StoreNext,
                    NEW t \in DOMAIN object,
                    t \notin sessions \/ now - object[t].lastSeenAt > SessionIdle
             PROVE  object'[t].lastSeenAt = object[t].lastSeenAt
  BY DEF LastSeenKept
<1>1. object[t] \in WebSession
  BY DEF StoreTypeOK
<1>2. CASE UNCHANGED object
  BY <1>2
<1>3. ASSUME NEW u \in Token, GetSession(u)
      PROVE  object'[t].lastSeenAt = object[t].lastSeenAt
  <2>1. CASE u = t
    BY <1>1, <1>3, <2>1 DEF GetSession, IsExpired
  <2>2. CASE u # t
    BY <1>3, <2>2 DEF GetSession, StoreTypeOK
  <2>3. QED
    BY <2>1, <2>2
<1>4. ASSUME NEW u \in Token, NEW absolute \in MaybeTime,
             NEW idle \in MaybeIdleTime, CreateSession(u, absolute, idle)
      PROVE  object'[t].lastSeenAt = object[t].lastSeenAt
  BY <1>4 DEF CreateSession, Allocate
<1>5. ASSUME NEW u \in Token, NEW absolute \in MaybeTime,
             NEW idle \in MaybeIdleTime,
             ApplyUpstreamSessionSummary(u, absolute, idle)
      PROVE  object'[t].lastSeenAt = object[t].lastSeenAt
  <2>1. CASE u = t
    BY <1>1, <1>5, <2>1, RefreshedBound DEF ApplyUpstreamSessionSummary, StoreTypeOK
  <2>2. CASE u # t
    BY <1>5, <2>2 DEF ApplyUpstreamSessionSummary, StoreTypeOK
  <2>3. QED
    BY <2>1, <2>2
<1>6. QED
  BY <1>2, <1>3, <1>4, <1>5
  DEF StoreNext, ReusePrelogin, CreatePrelogin, GetPrelogin, DropPrelogin,
      DestroySession, Sweep, Tick

\* Nothing revives an idle or dropped session: its last use stays where it was.
THEOREM StoreNeverRevives == StoreSpec => ExpiredNeverAccepted
BY StoreTyping, LastSeenStep, PTL DEF StoreSpec, ExpiredNeverAccepted

LEMMA ValidKeptStep == StoreNext => ValidKept
<1> SUFFICES ASSUME StoreNext PROVE ValidKept
  OBVIOUS
<1>1. CASE \E p \in PreToken : DropPrelogin(p)
  <2>1. PICK p \in PreToken : DropPrelogin(p)
    BY <1>1
  <2>2. sessions \ sessions' = {} /\ prelogins \ prelogins' \subseteq {p}
    BY <2>1 DEF DropPrelogin
  <2>3. QED
    BY <2>1, <2>2 DEF ValidKept
<1>2. CASE \E t \in Token : DestroySession(t)
  <2>1. PICK t \in Token : DestroySession(t)
    BY <1>2
  <2>2. prelogins \ prelogins' = {} /\ sessions \ sessions' \subseteq {t}
    BY <2>1 DEF DestroySession
  <2>3. QED
    BY <2>1, <2>2 DEF ValidKept
<1>3. ASSUME \A t \in sessions \ sessions' : IsExpired(object[t]),
             \A p \in prelogins \ prelogins' : PreloginExpired(preloginObject[p])
      PROVE  ValidKept
  BY <1>3 DEF ValidKept
<1>4. /\ sessions \ SweptSessions = {t \in sessions : IsExpired(object[t])}
      /\ prelogins \ SweptPrelogins =
             {p \in prelogins : PreloginExpired(preloginObject[p])}
  BY DEF SweptSessions, SweptPrelogins
<1>5. ASSUME NEW p \in PreToken,
             ReusePrelogin(p) \/ CreatePrelogin(p) \/ GetPrelogin(p)
      PROVE  ValidKept
  BY <1>3, <1>4, <1>5 DEF ReusePrelogin, CreatePrelogin, GetPrelogin
<1>6. ASSUME NEW t \in Token, GetSession(t)
      PROVE  ValidKept
  BY <1>3, <1>6 DEF GetSession
<1>7. ASSUME NEW t \in Token, NEW absolute \in MaybeTime,
             NEW idle \in MaybeIdleTime,
             \/ CreateSession(t, absolute, idle)
             \/ ApplyUpstreamSessionSummary(t, absolute, idle)
      PROVE  ValidKept
  BY <1>3, <1>4, <1>7 DEF CreateSession, ApplyUpstreamSessionSummary
<1>8. CASE Sweep \/ Tick
  BY <1>3, <1>4, <1>8 DEF Sweep, Tick
<1>9. QED
  BY <1>1, <1>2, <1>5, <1>6, <1>7, <1>8 DEF StoreNext

\* A full table rejects; it never drops an entry that is still valid.
THEOREM StoreNoEviction == StoreSpec => NoEviction
BY ValidKeptStep, PTL DEF StoreSpec, NoEviction

-----------------------------------------------------------------------------
(* Refinement.                                                             *)

LEMMA SessionLifecycleStep ==
    StoreTypeOK /\ StoreTypeOK' /\ [StoreNext]_storeVars
    => [SessionTable!LifecycleNext]_(SessionTable!lifecycleVars)
<1> SUFFICES ASSUME StoreTypeOK, StoreTypeOK', [StoreNext]_storeVars
             PROVE  \/ SessionTable!LifecycleNext
                    \/ UNCHANGED <<DOMAIN object, sessions>>
  BY DEF SessionTable!lifecycleVars
<1>1. ASSUME sessions' \subseteq sessions, DOMAIN object' = DOMAIN object
      PROVE  SessionTable!LifecycleNext
  BY <1>1 DEF SessionTable!LifecycleNext, SessionTable!End
<1>2. SweptSessions \subseteq sessions
  BY DEF SweptSessions
<1>3. ASSUME NEW t \in Token, NEW absolute \in MaybeTime,
             NEW idle \in MaybeIdleTime, CreateSession(t, absolute, idle)
      PROVE  SessionTable!LifecycleNext
  <2>1. /\ t \in Token \ DOMAIN object
        /\ DOMAIN object' = DOMAIN object \cup {t}
        /\ sessions' = SweptSessions \cup {t}
    BY <1>3 DEF CreateSession, Allocate
  <2>2. /\ SweptSessions \in SUBSET Token /\ IsFiniteSet(Token)
        /\ MaxSessions \in Nat
    BY <1>2, TokensAssumption, LimitsAssumption DEF StoreTypeOK
  <2>3. Cardinality(sessions') <= MaxSessions
    BY <1>3, <2>1, <2>2, AddWithin DEF CreateSession
  <2>4. SessionTable!Issue(t)
    BY <1>2, <2>1, <2>3 DEF SessionTable!Issue, SessionsFit
  <2>5. QED
    BY <2>4 DEF SessionTable!LifecycleNext
<1>4. ASSUME NEW t \in Token, GetSession(t) \/ DestroySession(t)
      PROVE  SessionTable!LifecycleNext
  <2>1. sessions' \subseteq sessions /\ DOMAIN object' = DOMAIN object
    BY <1>4 DEF GetSession, DestroySession, StoreTypeOK
  <2>2. QED
    BY <1>1, <2>1
<1>5. ASSUME NEW t \in Token, NEW absolute \in MaybeTime,
             NEW idle \in MaybeIdleTime,
             ApplyUpstreamSessionSummary(t, absolute, idle)
      PROVE  SessionTable!LifecycleNext
  <2>1. sessions' \subseteq sessions /\ DOMAIN object' = DOMAIN object
    BY <1>5 DEF ApplyUpstreamSessionSummary, StoreTypeOK
  <2>2. QED
    BY <1>1, <2>1
<1>6. ASSUME NEW p \in PreToken,
             \/ ReusePrelogin(p) \/ CreatePrelogin(p)
             \/ GetPrelogin(p) \/ DropPrelogin(p)
      PROVE  SessionTable!LifecycleNext
  BY <1>1, <1>2, <1>6
  DEF ReusePrelogin, CreatePrelogin, GetPrelogin, DropPrelogin
<1>7. CASE Sweep \/ Tick \/ UNCHANGED storeVars
  BY <1>1, <1>2, <1>7 DEF Sweep, Tick, storeVars
<1>8. QED
  BY <1>3, <1>4, <1>5, <1>6, <1>7 DEF StoreNext

LEMMA SessionLifecycleInit == StoreInit => SessionTable!LifecycleInit
BY DEF StoreInit, SessionTable!LifecycleInit

LEMMA PreloginLifecycleStep ==
    StoreTypeOK /\ StoreTypeOK' /\ [StoreNext]_storeVars
    => [PreloginTable!LifecycleNext]_(PreloginTable!lifecycleVars)
<1> SUFFICES ASSUME StoreTypeOK, StoreTypeOK', [StoreNext]_storeVars
             PROVE  \/ PreloginTable!LifecycleNext
                    \/ UNCHANGED <<DOMAIN preloginObject, prelogins>>
  BY DEF PreloginTable!lifecycleVars
<1>1. ASSUME prelogins' \subseteq prelogins, UNCHANGED preloginObject
      PROVE  PreloginTable!LifecycleNext
  BY <1>1 DEF PreloginTable!LifecycleNext, PreloginTable!End
<1>2. SweptPrelogins \subseteq prelogins
  BY DEF SweptPrelogins
<1>3. ASSUME NEW p \in PreToken, CreatePrelogin(p)
      PROVE  PreloginTable!LifecycleNext
  <2>1. /\ p \in PreToken \ DOMAIN preloginObject
        /\ DOMAIN preloginObject' = DOMAIN preloginObject \cup {p}
        /\ prelogins' = SweptPrelogins \cup {p}
    BY <1>3 DEF CreatePrelogin, Allocate
  <2>2. /\ SweptPrelogins \in SUBSET PreToken /\ IsFiniteSet(PreToken)
        /\ MaxPrelogins \in Nat
    BY <1>2, TokensAssumption, LimitsAssumption DEF StoreTypeOK
  <2>3. Cardinality(prelogins') <= MaxPrelogins
    BY <1>3, <2>1, <2>2, AddWithin DEF CreatePrelogin
  <2>4. PreloginTable!Issue(p)
    BY <1>2, <2>1, <2>3 DEF PreloginTable!Issue, PreloginsFit
  <2>5. QED
    BY <2>4 DEF PreloginTable!LifecycleNext
<1>4. ASSUME NEW p \in PreToken, ReusePrelogin(p) \/ GetPrelogin(p) \/ DropPrelogin(p)
      PROVE  PreloginTable!LifecycleNext
  BY <1>1, <1>2, <1>4 DEF ReusePrelogin, GetPrelogin, DropPrelogin
<1>5. ASSUME NEW t \in Token, NEW absolute \in MaybeTime, NEW idle \in MaybeIdleTime,
             \/ CreateSession(t, absolute, idle)
             \/ ApplyUpstreamSessionSummary(t, absolute, idle)
      PROVE  PreloginTable!LifecycleNext
  BY <1>1, <1>2, <1>5 DEF CreateSession, ApplyUpstreamSessionSummary
<1>6. ASSUME NEW t \in Token, GetSession(t) \/ DestroySession(t)
      PROVE  PreloginTable!LifecycleNext
  BY <1>1, <1>6 DEF GetSession, DestroySession
<1>7. CASE Sweep \/ Tick \/ UNCHANGED storeVars
  BY <1>1, <1>2, <1>7 DEF Sweep, Tick, storeVars
<1>8. QED
  BY <1>3, <1>4, <1>5, <1>6, <1>7 DEF StoreNext

LEMMA PreloginLifecycleInit == StoreInit => PreloginTable!LifecycleInit
BY DEF StoreInit, PreloginTable!LifecycleInit

\* Both tables implement the abstract life cycle: no cookie value is issued
\* twice or comes back after its session or pre-login ended, whatever objects
\* the handlers still hold, and none is issued beyond the capacity.
THEOREM TablesRefineLifecycle == StoreSpec => TablesImplementLifecycle
<1>1. StoreSpec => SessionTable!LifecycleSpec
  BY SessionLifecycleInit, SessionLifecycleStep, StoreTyping, PTL
  DEF StoreSpec, SessionTable!LifecycleSpec
<1>2. StoreSpec => PreloginTable!LifecycleSpec
  BY PreloginLifecycleInit, PreloginLifecycleStep, StoreTyping, PTL
  DEF StoreSpec, PreloginTable!LifecycleSpec
<1>3. QED
  BY <1>1, <1>2 DEF TablesImplementLifecycle
=============================================================================
