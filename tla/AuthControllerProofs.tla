------------------------ MODULE AuthControllerProofs ------------------------
(***************************************************************************)
(* Proofs about AuthController for every number of browsers, requests in   *)
(* flight, tokens, gate sizes and table sizes, and any use of them.        *)
(***************************************************************************)
EXTENDS AuthController, SessionStoreProofs

-----------------------------------------------------------------------------
(* What a stretch of a handler does to the tables.  Except for a login that *)
(* succeeds, a refresh and a restart it is one step of the store.           *)

LoginSucceeds ==
    \E r \in Request, absolute \in MaybeTime, idle \in MaybeIdleTime :
        LoginCreated(r, absolute, idle)

Refreshes ==
    \E r \in Request :
        \/ SessionUnrefreshed(r)
        \/ \E absolute \in MaybeTime, idle \in MaybeIdleTime :
              SessionRefreshed(r, absolute, idle)

\* A step of the store that creates no session and drops no valid pre-login.
Housekeeping ==
    /\ [StoreNext]_storeVars
    /\ DOMAIN object' = DOMAIN object
    /\ sessions' \subseteq sessions
    /\ \A p \in prelogins \ prelogins' : PreloginExpired(preloginObject[p])

LEMMA IdleStore == UNCHANGED storeVars => Housekeeping
BY DEF Housekeeping, storeVars

LEMMA LookUpStore ==
    ASSUME StoreTypeOK, NEW t, LookUp(t)
    PROVE  /\ Housekeeping
           /\ ~Found(t) => t \notin sessions'
<1>1. CASE t \in sessions
  <2>1. t \in Token /\ GetSession(t)
    BY <1>1 DEF StoreTypeOK, LookUp
  <2>2. StoreNext
    BY <2>1 DEF StoreNext
  <2>3. /\ DOMAIN object' = DOMAIN object /\ sessions' \subseteq sessions
        /\ prelogins' = prelogins
    BY <2>1 DEF GetSession
  <2>4. ~Found(t) => t \notin sessions'
    BY <1>1, <2>1 DEF GetSession, Found
  <2>5. QED
    BY <2>2, <2>3, <2>4 DEF Housekeeping
<1>2. CASE t \notin sessions
  BY <1>2, IdleStore DEF LookUp, storeVars
<1>3. QED
  BY <1>1, <1>2

LEMMA DestroyStore ==
    ASSUME StoreTypeOK, NEW t, Destroy(t)
    PROVE  Housekeeping /\ t \notin sessions'
<1>1. CASE t \in sessions
  <2>1. t \in Token /\ DestroySession(t)
    BY <1>1 DEF StoreTypeOK, Destroy
  <2>2. StoreNext
    BY <2>1 DEF StoreNext
  <2>3. QED
    BY <2>1, <2>2 DEF Housekeeping, DestroySession
<1>2. CASE t \notin sessions
  BY <1>2, IdleStore DEF Destroy, storeVars
<1>3. QED
  BY <1>1, <1>2

LEMMA SweepStore == Sweep \/ Tick => Housekeeping
BY DEF Housekeeping, Sweep, Tick, StoreNext, SweptSessions, SweptPrelogins

LEMMA PreloginStore ==
    ASSUME StoreTypeOK, NEW p,
           \/ ReusePrelogin(p) \/ GetPrelogin(p)
           \/ p \in PreToken /\ CreatePrelogin(p)
    PROVE  Housekeeping
<1>1. p \in PreToken
  BY DEF ReusePrelogin, GetPrelogin, SweptPrelogins, StoreTypeOK
<1>2. StoreNext
  BY <1>1 DEF StoreNext
<1>3. QED
  BY <1>2
  DEF Housekeeping, ReusePrelogin, GetPrelogin, CreatePrelogin, SweptSessions,
      SweptPrelogins

LEMMA ArrivesStore ==
    ASSUME StoreTypeOK, NEW r \in Request, Arrives(r)
    PROVE  Housekeeping
<1>1. CASE \/ BootstrapRefused(r) \/ LoginRefused(r) \/ LogoutRefused(r)
  BY <1>1, IdleStore DEF BootstrapRefused, LoginRefused, LogoutRefused
<1>2. CASE BootstrapReuse(r) \/ BootstrapCreate(r)
  BY <1>2, PreloginStore DEF BootstrapReuse, BootstrapCreate
<1>3. CASE LoginInvalid(r) \/ LoginAdmitted(r)
  BY <1>3, PreloginStore DEF LoginInvalid, LoginAdmitted
<1>4. CASE BootstrapFull(r)
  BY <1>4, SweepStore DEF BootstrapFull
<1>5. CASE \/ SessionArrives(r) \/ LogoutWithoutSession(r)
           \/ LogoutWithoutCsrf(r) \/ LogoutAdmitted(r)
           \/ WithoutSession(r) \/ ProxyRefused(r) \/ Admitted(r)
  BY <1>5, LookUpStore
  DEF SessionArrives, LogoutWithoutSession, LogoutWithoutCsrf,
      LogoutAdmitted, WithoutSession, ProxyRefused, Admitted
<1>6. QED
  BY <1>1, <1>2, <1>3, <1>4, <1>5 DEF Arrives

LEMMA StoreSteps ==
    ASSUME StoreTypeOK, Next
    PROVE  Housekeeping \/ LoginSucceeds \/ Refreshes \/ Restart
<1>1. ASSUME NEW r \in Request, HandlerStep(r)
      PROVE  Housekeeping \/ LoginSucceeds \/ Refreshes
  <2>1. CASE \/ BootstrapProbed(r) \/ LoginProbed(r) \/ DiagnosticsProbed(r)
             \/ LoginFailed(r) \/ SessionProbed(r) \/ SessionNeedsRefresh(r)
             \/ ProxyAnswered(r) \/ ProxyFailed(r)
    BY <2>1, IdleStore
    DEF BootstrapProbed, LoginProbed, DiagnosticsProbed, LoginFailed,
        SessionProbed, SessionNeedsRefresh, ProxyAnswered, ProxyFailed
  <2>2. CASE LoginFull(r)
    BY <2>2, SweepStore DEF LoginFull
  <2>3. CASE SessionInvalidated(r) \/ LogoutDone(r) \/ ProxyInvalidated(r)
    BY <2>3, DestroyStore DEF SessionInvalidated, LogoutDone, ProxyInvalidated
  <2>4. QED
    BY <1>1, <2>1, <2>2, <2>3 DEF HandlerStep, LoginSucceeds, Refreshes
<1>2. ASSUME NEW r \in Request,
             \/ \E b \in Browser, k \in Handlers : Send(r, b, k)
             \/ Deliver(r) \/ Lose(r) \/ UpstreamAnswers(r)
             \/ \E c \in Token : UpstreamCreates(r, c)
      PROVE  Housekeeping
  BY <1>2, IdleStore DEF Send, Deliver, Lose, UpstreamAnswers, UpstreamCreates
<1>3. CASE \E c \in Token : UpstreamEnds(c)
  BY <1>3, IdleStore DEF UpstreamEnds
<1>4. CASE Clock
  BY <1>4, SweepStore DEF Clock
<1>5. QED
  BY <1>1, <1>2, <1>3, <1>4, ArrivesStore DEF Next

-----------------------------------------------------------------------------
(* The inductive invariant.  TypeOK alone is not inductive: that a refresh  *)
(* or a logout finds an object under its token, and that a login inserts a  *)
(* token never used before, rests on what a request carries while it waits. *)

\* A request by itself: its fields, and what it cannot carry yet.
Staged(q) ==
    /\ q \in RequestType
    /\ q.pc = "sent" => q.answer = "none" /\ q.outcome = "none"
    /\ q.pc = "probe" /\ q.kind # "login" => q.answer = "none"
    /\ q.pc # "reply" => q.outcome # "revoked"
    /\ q.pc = "upstream" /\ q.kind = "login" => q.answer \in {"none", "created"}
    /\ q.answer = "created" => q.kind = "login" /\ q.credential \in Token

\* Its tokens name sessions that were drawn, or none; one that awaits the upstream
\* on behalf of a session has one.
Known(q, drawn) ==
    /\ q.session \in drawn \cup {NoToken}
    /\ q.setSession \in drawn \cup {NoToken, Keep}
    /\ \/ q.pc = "upstream" /\ q.kind \in Calling
       \/ q.pc = "probe" /\ q.kind = "session" /\ q.outcome = "authenticated"
       => q.session \in drawn

GoodRequest(q, drawn) == q = Free \/ (Staged(q) /\ Known(q, drawn))

\* A login that holds a credential not yet turned into a session.
Holding(q) == q.pc = "upstream" /\ q.answer = "created"

RequestsOK == \A r \in Request : GoodRequest(req[r], DOMAIN object)
CookiesKnown == \A b \in Browser : jar[b].session \in DOMAIN object \cup {NoToken}
CredentialsFresh ==
    /\ \A r \in Request : Holding(req[r]) =>
          req[r].credential \in minted \ DOMAIN object
    /\ \A r, s \in Request :
          r # s /\ Holding(req[r]) /\ Holding(req[s])
          => req[r].credential # req[s].credential

HandlersInv == TypeOK /\ RequestsOK /\ CookiesKnown /\ CredentialsFresh

LEMMA RequestCases ==
    ASSUME HandlersInv, NEW r \in Request
    PROVE  /\ req[r].pc = "free" => req[r] = Free
           /\ req[r].pc # "free" => Staged(req[r]) /\ Known(req[r], DOMAIN object)
BY DEF HandlersInv, RequestsOK, GoodRequest, Staged, RequestType, Free, Pc

\* A login inserts a token that names no session yet.
LEMMA LoginStore ==
    ASSUME HandlersInv, NEW r \in Request,
           NEW absolute \in MaybeTime, NEW idle \in MaybeIdleTime,
           LoginCreated(r, absolute, idle)
    PROVE  /\ req[r].credential \in Token \cap minted /\ req[r].credential \notin DOMAIN object
           /\ DOMAIN object' = DOMAIN object \cup {req[r].credential}
           /\ sessions' = SweptSessions \cup {req[r].credential}
           /\ prelogins' = SweptPrelogins \ {req[r].prelogin}
           /\ StoreTypeOK' /\ CapacityBound'
<1> DEFINE c == req[r].credential
<1>1. Holding(req[r])
  BY DEF LoginCreated, At, Holding
<1>2. c \in minted /\ c \notin DOMAIN object
  BY <1>1 DEF HandlersInv, CredentialsFresh
<1>3. c \in Token
  BY <1>2 DEF HandlersInv, TypeOK
<1>4. /\ sessions' = SweptSessions \cup {c}
      /\ object' = Allocate(object, c, NewSession(absolute, idle))
      /\ prelogins' = SweptPrelogins \ {req[r].prelogin}
      /\ UNCHANGED <<now, preloginObject>>
      /\ Cardinality(SweptSessions) < MaxSessions
  BY DEF LoginCreated
<1> HIDE DEF c
<1>5. StoreTypeOK /\ CapacityBound
  BY DEF HandlersInv, TypeOK
<1>6. NewSession(absolute, idle) \in WebSession
  BY <1>5, NewSessionBound DEF StoreTypeOK
<1>7. /\ DOMAIN object' = DOMAIN object \cup {c}
      /\ object' \in [DOMAIN object' -> WebSession]
  BY <1>4, <1>5, <1>6 DEF Allocate, StoreTypeOK
<1>8. StoreTypeOK'
  BY <1>3, <1>4, <1>5, <1>7 DEF StoreTypeOK, SweptSessions, SweptPrelogins
<1>9. CapacityBound'
  <2>1. /\ SweptSessions \in SUBSET Token /\ IsFiniteSet(Token)
        /\ MaxSessions \in Nat /\ MaxPrelogins \in Nat /\ IsFiniteSet(PreToken)
        /\ prelogins \in SUBSET PreToken /\ prelogins' \in SUBSET prelogins
    BY <1>4, <1>5, TokensAssumption, LimitsAssumption
    DEF StoreTypeOK, SweptSessions, SweptPrelogins
  <2>2. Cardinality(SweptSessions \cup {c}) <= MaxSessions
    BY <1>4, <2>1, AddWithin
  <2>3. Cardinality(prelogins') <= MaxPrelogins
    BY <1>5, <2>1, SubsetWithin DEF CapacityBound
  <2>4. QED
    BY <1>4, <2>2, <2>3 DEF CapacityBound
<1>10. QED
  BY <1>2, <1>3, <1>4, <1>7, <1>8, <1>9 DEF c

\* A refresh changes the object of its own session, which exists; it never
\* puts a session back.
LEMMA RecheckedStore ==
    ASSUME StoreTypeOK, NEW r \in Request, req[r].session \in DOMAIN object,
           NEW o \in WebSession, NEW a, SessionRechecked(r, o, a)
    PROVE  /\ StoreTypeOK' /\ UNCHANGED <<prelogins, preloginObject>>
           /\ DOMAIN object' = DOMAIN object /\ sessions' \subseteq sessions
<1> DEFINE t == req[r].session
<1>1. /\ sessions' \subseteq sessions
      /\ UNCHANGED <<now, prelogins, preloginObject>>
  BY DEF SessionRechecked
<1>2. now \in Nat /\ object \in [DOMAIN object -> WebSession]
  BY DEF StoreTypeOK
<1>3. [o EXCEPT !.lastSeenAt = now] \in WebSession
  BY <1>2 DEF WebSession
<1>4. PICK n \in WebSession : object' = [object EXCEPT ![t] = n]
  BY <1>3 DEF SessionRechecked
<1>5. DOMAIN object' = DOMAIN object /\ object' \in [DOMAIN object -> WebSession]
  BY <1>2, <1>4
<1>6. QED
  BY <1>1, <1>5 DEF StoreTypeOK

LEMMA RefreshStore ==
    ASSUME HandlersInv, Refreshes
    PROVE  /\ StoreTypeOK' /\ CapacityBound' /\ UNCHANGED <<prelogins, preloginObject>>
           /\ DOMAIN object' = DOMAIN object /\ sessions' \subseteq sessions
<1>1. StoreTypeOK /\ CapacityBound
  BY DEF HandlersInv, TypeOK
<1>2. PICK r \in Request : \/ SessionUnrefreshed(r)
                           \/ \E absolute \in MaybeTime, idle \in MaybeIdleTime :
                                 SessionRefreshed(r, absolute, idle)
  BY DEF Refreshes
<1>3. req[r].pc = "upstream" /\ req[r].kind = "session"
  BY <1>2 DEF SessionUnrefreshed, SessionRefreshed, At
<1>4. req[r].session \in DOMAIN object
  BY <1>3, RequestCases DEF Known, Calling
<1>5. now \in Nat /\ object[req[r].session] \in WebSession
  BY <1>1, <1>4 DEF StoreTypeOK
<1>6. PICK o \in WebSession, a \in Answer : SessionRechecked(r, o, a)
  <2>1. CASE SessionUnrefreshed(r)
    <3>1. [object[req[r].session] EXCEPT !.lastUpstreamSessionRefreshAt = now]
             \in WebSession
      BY <1>5 DEF WebSession
    <3>2. QED
      BY <2>1, <3>1 DEF SessionUnrefreshed, Answer
  <2>2. ASSUME NEW absolute \in MaybeTime, NEW idle \in MaybeIdleTime,
               SessionRefreshed(r, absolute, idle)
        PROVE  \E o \in WebSession, a \in Answer : SessionRechecked(r, o, a)
    <3>1. Refreshed(object[req[r].session], absolute, idle) \in WebSession
      BY <1>5, RefreshedBound
    <3>2. QED
      BY <2>2, <3>1 DEF SessionRefreshed, Answer
  <2>3. QED
    BY <1>2, <2>1, <2>2
<1>7. /\ StoreTypeOK' /\ UNCHANGED <<prelogins, preloginObject>>
      /\ DOMAIN object' = DOMAIN object /\ sessions' \subseteq sessions
  BY <1>1, <1>4, <1>6, RecheckedStore
<1>8. CapacityBound'
  <2>1. sessions \in SUBSET Token /\ sessions' \in SUBSET sessions
    BY <1>1, <1>7 DEF StoreTypeOK
  <2>2. QED
    BY <1>1, <1>7, <2>1, SubsetWithin, TokensAssumption, LimitsAssumption
    DEF CapacityBound
<1>9. QED
  BY <1>7, <1>8

LEMMA RestartStore ==
    ASSUME StoreTypeOK, Restart
    PROVE  /\ StoreTypeOK' /\ CapacityBound' /\ DOMAIN object' = DOMAIN object
           /\ sessions' = {} /\ prelogins' = {} /\ UNCHANGED preloginObject
<1>1. /\ sessions' = {} /\ prelogins' = {}
      /\ UNCHANGED <<now, object, preloginObject>>
  BY DEF Restart
<1>2. Cardinality({}) = 0 /\ MaxSessions \in Nat /\ MaxPrelogins \in Nat
  BY FS_EmptySet, LimitsAssumption
<1>3. QED
  BY <1>1, <1>2 DEF StoreTypeOK, CapacityBound

\* What every step keeps of the tables: they stay well formed and bounded, no
\* session object goes, and a token that was drawn before does not come back.
LEMMA TablesStep ==
    ASSUME HandlersInv, Next
    PROVE  /\ StoreTypeOK' /\ CapacityBound'
           /\ DOMAIN object \subseteq DOMAIN object'
           /\ \A t \in DOMAIN object \cup {NoToken} : t \in sessions' => t \in sessions
<1>1. StoreTypeOK /\ CapacityBound
  BY DEF HandlersInv, TypeOK
<1>2. CASE Housekeeping
  BY <1>1, <1>2, TypeStep, CapacityStep DEF Housekeeping
<1>3. CASE LoginSucceeds
  <2>1. PICK r \in Request, absolute \in MaybeTime, idle \in MaybeIdleTime :
            LoginCreated(r, absolute, idle)
    BY <1>3 DEF LoginSucceeds
  <2>2. NoToken \notin Token /\ SweptSessions \subseteq sessions
    BY MarkersAssumption DEF SweptSessions
  <2>3. QED
    BY <2>1, <2>2, LoginStore
<1>4. CASE Refreshes
  BY <1>4, RefreshStore
<1>5. CASE Restart
  BY <1>1, <1>5, RestartStore
<1>6. QED
  BY <1>1, <1>2, <1>3, <1>4, <1>5, StoreSteps

-----------------------------------------------------------------------------
(* What it does to its own request.                                        *)

\* A slot that a step fills, moves on or empties.
Moves(r) ==
    \E q : /\ req' = [req EXCEPT ![r] = q]
           /\ GoodRequest(q, DOMAIN object')

\* A request that goes on to wait or to end carries good fields still.
LEMMA AwaitGood ==
    ASSUME NEW q, NEW drawn, Staged(q), Known(q, drawn), q.pc = "sent",
           NEW pc \in {"upstream", "probe"}, q.kind # "session",
           pc = "upstream" /\ q.kind \in Calling => q.session \in drawn
    PROVE  GoodRequest([q EXCEPT !.pc = pc], drawn)
<1> DEFINE n == [q EXCEPT !.pc = pc]
<1>1. n \in RequestType
  BY DEF Staged, RequestType, Pc
<1>2. /\ n.pc = pc /\ n.kind = q.kind /\ n.answer = q.answer /\ n.outcome = q.outcome
      /\ n.credential = q.credential /\ n.session = q.session
      /\ n.setSession = q.setSession
  BY DEF Staged, RequestType
<1> HIDE DEF n
<1>3. Staged(n) /\ Known(n, drawn)
  BY <1>1, <1>2 DEF Staged, Known
<1>4. GoodRequest(n, drawn)
  BY <1>3 DEF GoodRequest
<1>5. QED
  BY <1>4 DEF n

LEMMA ReplyGood ==
    ASSUME NEW q, NEW drawn, Staged(q), Known(q, drawn),
           NEW outcome \in Outcome,
           NEW session \in Token \cup {NoToken, Keep},
           NEW prelogin \in PreToken \cup {NoToken, Keep},
           session \in drawn \cup {NoToken, Keep}
    PROVE  GoodRequest([q EXCEPT !.pc = "reply", !.outcome = outcome,
                                 !.setSession = session, !.setPrelogin = prelogin],
                       drawn)
<1> DEFINE n == [q EXCEPT !.pc = "reply", !.outcome = outcome,
                          !.setSession = session, !.setPrelogin = prelogin]
<1>1. n \in RequestType
  BY DEF Staged, RequestType, Pc
<1>2. /\ n.pc = "reply" /\ n.kind = q.kind /\ n.answer = q.answer
      /\ n.credential = q.credential /\ n.session = q.session
      /\ n.setSession = session
  BY DEF Staged, RequestType
<1> HIDE DEF n
<1>3. Staged(n) /\ Known(n, drawn)
  BY <1>1, <1>2 DEF Staged, Known
<1>4. GoodRequest(n, drawn)
  BY <1>3 DEF GoodRequest
<1>5. QED
  BY <1>4 DEF n

LEMMA ReplyMoves ==
    ASSUME HandlersInv, NEW r \in Request, req[r].pc # "free",
           NEW outcome \in Outcome, NEW session, NEW prelogin,
           Reply(r, outcome, session, prelogin),
           session \in {NoToken, Keep} \/ session = req[r].setSession,
           prelogin \in {NoToken, Keep} \/ prelogin = req[r].setPrelogin,
           DOMAIN object' = DOMAIN object
    PROVE  Moves(r)
<1>1. Staged(req[r]) /\ Known(req[r], DOMAIN object)
  BY RequestCases
<1>2. /\ session \in Token \cup {NoToken, Keep}
      /\ prelogin \in PreToken \cup {NoToken, Keep}
      /\ session \in DOMAIN object \cup {NoToken, Keep}
  BY <1>1 DEF Staged, Known, RequestType
<1>3. req \in [Request -> RequestType \cup {Free}]
  BY DEF HandlersInv, TypeOK
<1>4. req' = [req EXCEPT ![r] = [req[r] EXCEPT
                 !.pc = "reply", !.outcome = outcome,
                 !.setSession = session, !.setPrelogin = prelogin]]
  BY <1>3 DEF Reply
<1>5. QED
  BY <1>1, <1>2, <1>4, ReplyGood DEF Moves

\* The other ways a step changes the fields of one request.
LEMMA SentGood ==
    ASSUME HandlersInv, NEW b \in Browser, NEW k \in Handlers
    PROVE  GoodRequest(NewRequest(b, k), DOMAIN object)
<1> DEFINE n == NewRequest(b, k)
<1>1. /\ jar[b].session \in Token \cup {NoToken}
      /\ jar[b].prelogin \in PreToken \cup {NoToken}
      /\ jar[b].session \in DOMAIN object \cup {NoToken}
  BY DEF HandlersInv, TypeOK, CookiesKnown
<1>2. n \in RequestType
  BY <1>1 DEF NewRequest, RequestType, Pc, Answer, Outcome
<1>3. /\ n.pc = "sent" /\ n.answer = "none" /\ n.outcome = "none"
      /\ n.session = jar[b].session /\ n.setSession = Keep
  BY DEF NewRequest
<1> HIDE DEF n
<1>4. Staged(n) /\ Known(n, DOMAIN object)
  BY <1>1, <1>2, <1>3 DEF Staged, Known
<1>5. GoodRequest(n, DOMAIN object)
  BY <1>4 DEF GoodRequest
<1>6. QED
  BY <1>5 DEF n

LEMMA ProbeGood ==
    ASSUME NEW q, NEW drawn, Staged(q), Known(q, drawn), q.pc = "sent",
           NEW outcome \in {"none", "authenticated", "anonymous"},
           NEW session \in {NoToken, Keep, q.setSession},
           NEW prelogin \in PreToken \cup {NoToken, Keep},
           outcome = "authenticated" => q.session \in drawn
    PROVE  GoodRequest([q EXCEPT !.pc = "probe", !.outcome = outcome,
                                 !.setSession = session, !.setPrelogin = prelogin],
                       drawn)
<1> DEFINE n == [q EXCEPT !.pc = "probe", !.outcome = outcome,
                          !.setSession = session, !.setPrelogin = prelogin]
<1>1. n \in RequestType
  BY DEF Staged, RequestType, Pc, Outcome
<1>2. /\ n.pc = "probe" /\ n.kind = q.kind /\ n.answer = "none"
      /\ n.outcome = outcome /\ n.credential = q.credential
      /\ n.session = q.session /\ n.setSession = session
  BY DEF Staged, RequestType
<1> HIDE DEF n
<1>3. Staged(n) /\ Known(n, drawn)
  BY <1>1, <1>2 DEF Staged, Known
<1>4. GoodRequest(n, drawn)
  BY <1>3 DEF GoodRequest
<1>5. QED
  BY <1>4 DEF n

LEMMA AnswerGood ==
    ASSUME NEW q, NEW drawn, Staged(q), Known(q, drawn), q.kind \in Calling,
           NEW answer \in {"none", "ok", "invalid", "forbidden", "error"},
           NEW pc, NEW outcome,
           \/ q.pc = "upstream" /\ pc = q.pc /\ outcome = q.outcome
           \/ pc = "reply" /\ outcome \in {"authenticated", "anonymous", "rejected"}
    PROVE  GoodRequest([q EXCEPT !.pc = pc, !.answer = answer, !.outcome = outcome],
                       drawn)
<1> DEFINE n == [q EXCEPT !.pc = pc, !.answer = answer, !.outcome = outcome]
<1>1. outcome \in Outcome /\ pc \in {"upstream", "reply"} /\ answer \in Answer
  BY DEF Staged, RequestType, Outcome, Answer
<1>2. n \in RequestType
  BY <1>1 DEF Staged, RequestType, Pc
<1>3. /\ n.pc = pc /\ n.kind = q.kind /\ n.answer = answer
      /\ n.outcome = outcome /\ n.credential = q.credential
      /\ n.session = q.session /\ n.setSession = q.setSession
  BY DEF Staged, RequestType
<1> HIDE DEF n
<1>4. Staged(n)
  BY <1>1, <1>2, <1>3 DEF Staged, Calling
<1>5. Known(n, drawn)
  BY <1>1, <1>3 DEF Known
<1>6. GoodRequest(n, drawn)
  BY <1>4, <1>5 DEF GoodRequest
<1>7. QED
  BY <1>6 DEF n

LEMMA CreatedGood ==
    ASSUME NEW q, NEW drawn, Staged(q), Known(q, drawn),
           q.pc = "upstream", q.kind = "login", NEW c \in Token
    PROVE  GoodRequest([q EXCEPT !.answer = "created", !.credential = c], drawn)
<1> DEFINE n == [q EXCEPT !.answer = "created", !.credential = c]
<1>1. n \in RequestType
  BY DEF Staged, RequestType, Answer
<1>2. /\ n.pc = "upstream" /\ n.kind = "login" /\ n.answer = "created"
      /\ n.outcome = q.outcome /\ n.credential = c
      /\ n.session = q.session /\ n.setSession = q.setSession
  BY DEF Staged, RequestType
<1> HIDE DEF n
<1>3. Staged(n) /\ Known(n, drawn)
  BY <1>1, <1>2 DEF Staged, Known, Calling
<1>4. GoodRequest(n, drawn)
  BY <1>3 DEF GoodRequest
<1>5. QED
  BY <1>4 DEF n

LEMMA LoggedInGood ==
    ASSUME NEW q, NEW drawn, Staged(q), Known(q, drawn),
           q.pc = "upstream", q.kind = "login", q.credential \in Token
    PROVE  GoodRequest([q EXCEPT !.pc = "probe", !.outcome = "authenticated",
                                 !.setSession = q.credential,
                                 !.setPrelogin = NoToken],
                       drawn \cup {q.credential})
<1> DEFINE n == [q EXCEPT !.pc = "probe", !.outcome = "authenticated",
                          !.setSession = q.credential, !.setPrelogin = NoToken]
<1>1. n \in RequestType
  BY DEF Staged, RequestType, Pc, Outcome
<1>2. /\ n.pc = "probe" /\ n.kind = "login" /\ n.answer = q.answer
      /\ n.outcome = "authenticated" /\ n.credential = q.credential
      /\ n.session = q.session /\ n.setSession = q.credential
  BY DEF Staged, RequestType
<1> HIDE DEF n
<1>3. Staged(n) /\ Known(n, drawn \cup {q.credential})
  BY <1>1, <1>2 DEF Staged, Known
<1>4. GoodRequest(n, drawn \cup {q.credential})
  BY <1>3 DEF GoodRequest
<1>5. QED
  BY <1>4 DEF n

LEMMA RefreshGood ==
    ASSUME NEW q, NEW drawn, Staged(q), Known(q, drawn),
           q.pc = "probe", q.kind = "session", q.outcome = "authenticated"
    PROVE  GoodRequest([q EXCEPT !.pc = "upstream"], drawn)
<1> DEFINE n == [q EXCEPT !.pc = "upstream"]
<1>1. n \in RequestType
  BY DEF Staged, RequestType, Pc
<1>2. /\ n.pc = "upstream" /\ n.kind = "session" /\ n.answer = "none"
      /\ n.outcome = q.outcome /\ n.credential = q.credential
      /\ n.session = q.session /\ n.setSession = q.setSession
  BY DEF Staged, RequestType
<1> HIDE DEF n
<1>3. Staged(n) /\ Known(n, drawn)
  BY <1>1, <1>2 DEF Staged, Known
<1>4. GoodRequest(n, drawn)
  BY <1>3 DEF GoodRequest
<1>5. QED
  BY <1>4 DEF n

LEMMA EndGood ==
    ASSUME NEW q, NEW drawn, Staged(q), Known(q, drawn)
    PROVE  GoodRequest([q EXCEPT !.pc = "reply"], drawn)
<1> DEFINE n == [q EXCEPT !.pc = "reply"]
<1>1. n \in RequestType
  BY DEF Staged, RequestType, Pc
<1>2. /\ n.pc = "reply" /\ n.kind = q.kind /\ n.answer = q.answer
      /\ n.outcome = q.outcome /\ n.credential = q.credential
      /\ n.session = q.session /\ n.setSession = q.setSession
  BY DEF Staged, RequestType
<1> HIDE DEF n
<1>3. Staged(n) /\ Known(n, drawn)
  BY <1>1, <1>2 DEF Staged, Known
<1>4. GoodRequest(n, drawn)
  BY <1>3 DEF GoodRequest
<1>5. QED
  BY <1>4 DEF n

LEMMA ArrivesMoves ==
    ASSUME HandlersInv, NEW r \in Request, Arrives(r)
    PROVE  Moves(r)
<1> DEFINE q == req[r]
<1>1. q.pc = "sent"
  BY DEF Arrives, BootstrapRefused, BootstrapReuse, BootstrapCreate, BootstrapFull,
         LoginRefused, LoginInvalid, LoginAdmitted, SessionArrives, LogoutRefused,
         LogoutWithoutSession, LogoutWithoutCsrf, LogoutAdmitted, WithoutSession,
         ProxyRefused, Admitted, At
<1>2. /\ Staged(q) /\ Known(q, DOMAIN object)
      /\ q.answer = "none" /\ q.outcome = "none"
  BY <1>1, RequestCases DEF Staged
<1>3. StoreTypeOK /\ req \in [Request -> RequestType \cup {Free}]
  BY DEF HandlersInv, TypeOK
<1>4. DOMAIN object' = DOMAIN object
  BY <1>3, ArrivesStore DEF Housekeeping
<1>5. ASSUME Reject(r) PROVE Moves(r)
  BY <1>1, <1>4, <1>5, ReplyMoves DEF Reject, Outcome
<1>6. CASE \/ BootstrapRefused(r) \/ BootstrapFull(r) \/ LoginRefused(r)
           \/ LoginInvalid(r) \/ LogoutRefused(r) \/ LogoutWithoutCsrf(r)
           \/ ProxyRefused(r)
  BY <1>5, <1>6 DEF BootstrapRefused, BootstrapFull, LoginRefused,
                    LoginInvalid, LogoutRefused, LogoutWithoutCsrf, ProxyRefused
<1>7. CASE LogoutWithoutSession(r) \/ WithoutSession(r)
  BY <1>1, <1>4, <1>7, ReplyMoves
  DEF LogoutWithoutSession, WithoutSession, ClearIfPresented, Outcome
<1>8. ASSUME NEW p \in PreToken,
             req' = [req EXCEPT ![r].pc = "probe", ![r].setPrelogin = p]
      PROVE  Moves(r)
  <2>1. [q EXCEPT !.pc = "probe", !.outcome = "none",
                  !.setSession = q.setSession, !.setPrelogin = p]
        = [q EXCEPT !.pc = "probe", !.setPrelogin = p]
    BY <1>2 DEF Staged, RequestType
  <2>2. GoodRequest([q EXCEPT !.pc = "probe", !.outcome = "none",
                      !.setSession = q.setSession, !.setPrelogin = p], DOMAIN object)
    BY <1>1, <1>2, ProbeGood
  <2>3. req' = [req EXCEPT ![r] = [q EXCEPT !.pc = "probe", !.setPrelogin = p]]
    BY <1>3, <1>8
  <2>4. QED
    BY <1>4, <2>1, <2>2, <2>3 DEF Moves
<1>9. CASE BootstrapReuse(r) \/ BootstrapCreate(r)
  BY <1>3, <1>8, <1>9
  DEF BootstrapReuse, BootstrapCreate, ReusePrelogin, SweptPrelogins, StoreTypeOK
<1>10. ASSUME NEW pc \in {"upstream", "probe"}, Await(r, pc), q.kind # "session",
              pc = "upstream" /\ q.kind \in Calling => q.session \in DOMAIN object
       PROVE  Moves(r)
  <2>1. req' = [req EXCEPT ![r] = [q EXCEPT !.pc = pc]]
    BY <1>3, <1>10 DEF Await
  <2>2. QED
    BY <1>1, <1>2, <1>4, <1>10, <2>1, AwaitGood DEF Moves
<1>11. Found(q.session) => q.session \in DOMAIN object
  BY <1>3 DEF Found, StoreTypeOK
<1>12. CASE LoginAdmitted(r)
  BY <1>10, <1>12 DEF LoginAdmitted, At, Calling
<1>13. CASE LogoutAdmitted(r)
  BY <1>10, <1>11, <1>13 DEF LogoutAdmitted, At
<1>14. CASE Admitted(r)
  BY <1>10, <1>11, <1>14 DEF Admitted, At
<1>15. CASE SessionArrives(r)
  <2>1. CASE Found(q.session)
    <3>1. req' = [req EXCEPT ![r] = [q EXCEPT !.pc = "probe",
                                              !.outcome = "authenticated"]]
      BY <1>3, <1>15, <2>1 DEF SessionArrives
    <3>2. [q EXCEPT !.pc = "probe", !.outcome = "authenticated",
                    !.setSession = q.setSession, !.setPrelogin = q.setPrelogin]
          = [q EXCEPT !.pc = "probe", !.outcome = "authenticated"]
      BY <1>2 DEF Staged, RequestType
    <3>3. q.setPrelogin \in PreToken \cup {NoToken, Keep}
      BY <1>2 DEF Staged, RequestType
    <3>4. GoodRequest([q EXCEPT !.pc = "probe", !.outcome = "authenticated",
                         !.setSession = q.setSession,
                         !.setPrelogin = q.setPrelogin], DOMAIN object)
      BY <1>1, <1>2, <1>11, <2>1, <3>3, ProbeGood
    <3>5. QED
      BY <1>4, <3>1, <3>2, <3>4 DEF Moves
  <2>2. CASE ~Found(q.session)
    <3>1. req' = [req EXCEPT ![r] = [q EXCEPT !.pc = "probe",
                                              !.outcome = "anonymous",
                                              !.setSession = ClearIfPresented(r)]]
      BY <1>3, <1>15, <2>2 DEF SessionArrives
    <3>2. [q EXCEPT !.pc = "probe", !.outcome = "anonymous",
                    !.setSession = ClearIfPresented(r), !.setPrelogin = q.setPrelogin]
          = [q EXCEPT !.pc = "probe", !.outcome = "anonymous",
                      !.setSession = ClearIfPresented(r)]
      BY <1>2 DEF Staged, RequestType
    <3>3. /\ q.setPrelogin \in PreToken \cup {NoToken, Keep}
          /\ ClearIfPresented(r) \in {NoToken, Keep}
      BY <1>2 DEF Staged, RequestType, ClearIfPresented
    <3>4. GoodRequest([q EXCEPT !.pc = "probe", !.outcome = "anonymous",
                         !.setSession = ClearIfPresented(r),
                         !.setPrelogin = q.setPrelogin], DOMAIN object)
      BY <1>1, <1>2, <3>3, ProbeGood
    <3>5. QED
      BY <1>4, <3>1, <3>2, <3>4 DEF Moves
  <2>3. QED
    BY <2>1, <2>2
<1>16. QED
  BY <1>6, <1>7, <1>9, <1>12, <1>13, <1>14, <1>15 DEF Arrives


LEMMA RecheckedMoves ==
    ASSUME HandlersInv, NEW r \in Request, NEW o,
           NEW a \in {"none", "ok", "error"}, SessionRechecked(r, o, a),
           At(r, "upstream", {"session"})
    PROVE  Moves(r)
<1> DEFINE q == req[r]
           t == q.session
           outcome == IF t \in sessions /\ ~IsExpired(o) THEN "authenticated"
                                                         ELSE "anonymous"
<1>1. Staged(q) /\ Known(q, DOMAIN object) /\ q.kind \in Calling
  BY RequestCases DEF At, Calling
<1>2. req \in [Request -> RequestType \cup {Free}]
  BY DEF HandlersInv, TypeOK
<1>3. DOMAIN object' = DOMAIN object
  BY DEF SessionRechecked
<1>4. req' = [req EXCEPT ![r] = [q EXCEPT !.pc = "reply", !.answer = a,
                                          !.outcome = outcome]]
  BY <1>2 DEF SessionRechecked
<1>5. GoodRequest([q EXCEPT !.pc = "reply", !.answer = a, !.outcome = outcome],
                  DOMAIN object)
  <2>1. outcome \in {"authenticated", "anonymous"}
    OBVIOUS
  <2> HIDE DEF outcome
  <2>2. QED
    BY <1>1, <2>1, AnswerGood
<1>6. QED
  BY <1>3, <1>4, <1>5 DEF Moves

LEMMA HandlerMoves ==
    ASSUME HandlersInv, NEW r \in Request, HandlerStep(r)
    PROVE  Moves(r)
<1> DEFINE q == req[r]
<1>1. StoreTypeOK /\ req \in [Request -> RequestType \cup {Free}]
  BY DEF HandlersInv, TypeOK
<1>2. ASSUME q.pc # "free"
      PROVE  Staged(q) /\ Known(q, DOMAIN object)
  BY <1>2, RequestCases
<1>3. CASE BootstrapProbed(r) \/ DiagnosticsProbed(r) \/ LoginFailed(r)
           \/ ProxyAnswered(r)
  BY <1>3, ReplyMoves
  DEF BootstrapProbed, DiagnosticsProbed, LoginFailed, ProxyAnswered, Reject,
      storeVars, Outcome, At
<1>4. CASE LoginFull(r)
  BY <1>4, ReplyMoves DEF LoginFull, Reject, Sweep, Outcome, At
<1>5. CASE SessionInvalidated(r) \/ ProxyInvalidated(r) \/ LogoutDone(r)
  <2>1. DOMAIN object' = DOMAIN object
    BY <1>1, <1>5, DestroyStore
    DEF SessionInvalidated, ProxyInvalidated, LogoutDone, Housekeeping
  <2>2. QED
    BY <1>5, <2>1, ReplyMoves
    DEF SessionInvalidated, ProxyInvalidated, LogoutDone, Outcome, At
<1>6. CASE LoginProbed(r) \/ SessionProbed(r)
  <2>1. /\ req' = [req EXCEPT ![r] = [q EXCEPT !.pc = "reply"]]
        /\ UNCHANGED storeVars /\ q.pc = "probe"
    BY <1>1, <1>6 DEF LoginProbed, SessionProbed, Await, At
  <2>2. GoodRequest([q EXCEPT !.pc = "reply"], DOMAIN object)
    BY <1>2, <2>1, EndGood
  <2>3. QED
    BY <2>1, <2>2 DEF Moves, storeVars
<1>7. CASE SessionNeedsRefresh(r)
  <2>1. /\ req' = [req EXCEPT ![r] = [q EXCEPT !.pc = "upstream"]]
        /\ UNCHANGED storeVars
        /\ q.pc = "probe" /\ q.kind = "session" /\ q.outcome = "authenticated"
    BY <1>1, <1>7 DEF SessionNeedsRefresh, Await, At
  <2>2. GoodRequest([q EXCEPT !.pc = "upstream"], DOMAIN object)
    BY <1>2, <2>1, RefreshGood
  <2>3. QED
    BY <2>1, <2>2 DEF Moves, storeVars
<1>8. CASE SessionUnrefreshed(r)
  BY <1>8, RecheckedMoves DEF SessionUnrefreshed
<1>9. ASSUME NEW absolute \in MaybeTime, NEW idle \in MaybeIdleTime,
             SessionRefreshed(r, absolute, idle)
      PROVE  Moves(r)
  BY <1>9, RecheckedMoves DEF SessionRefreshed
<1>10. CASE ProxyFailed(r)
  <2>1. /\ req' = [req EXCEPT ![r] = [q EXCEPT !.pc = "reply", !.answer = "none",
                                               !.outcome = "rejected"]]
        /\ UNCHANGED storeVars /\ q.pc = "upstream" /\ q.kind = "proxy"
    BY <1>1, <1>10 DEF ProxyFailed, At
  <2>2. GoodRequest([q EXCEPT !.pc = "reply", !.answer = "none",
                              !.outcome = "rejected"], DOMAIN object)
    BY <1>2, <2>1, AnswerGood DEF Calling
  <2>3. QED
    BY <2>1, <2>2 DEF Moves, storeVars
<1>11. ASSUME NEW absolute \in MaybeTime, NEW idle \in MaybeIdleTime,
              LoginCreated(r, absolute, idle)
       PROVE  Moves(r)
  <2>1. /\ req' = [req EXCEPT ![r] = [q EXCEPT
                      !.pc = "probe", !.outcome = "authenticated",
                      !.setSession = q.credential, !.setPrelogin = NoToken]]
        /\ q.pc = "upstream" /\ q.kind = "login"
    BY <1>1, <1>11 DEF LoginCreated, At
  <2>2. q.credential \in Token /\ DOMAIN object' = DOMAIN object \cup {q.credential}
    BY <1>11, LoginStore
  <2>3. GoodRequest([q EXCEPT !.pc = "probe", !.outcome = "authenticated",
                              !.setSession = q.credential, !.setPrelogin = NoToken],
                    DOMAIN object \cup {q.credential})
    BY <1>2, <2>1, <2>2, LoggedInGood
  <2>4. QED
    BY <2>1, <2>2, <2>3 DEF Moves
<1>12. QED
  BY <1>3, <1>4, <1>5, <1>6, <1>7, <1>8, <1>9, <1>10, <1>11 DEF HandlerStep

LEMMA OtherMoves ==
    ASSUME HandlersInv, NEW r \in Request,
           \/ \E b \in Browser, k \in Handlers : Send(r, b, k)
           \/ Deliver(r) \/ Lose(r) \/ UpstreamAnswers(r)
           \/ \E c \in Token : UpstreamCreates(r, c)
    PROVE  Moves(r)
<1> DEFINE q == req[r]
<1>1. req \in [Request -> RequestType \cup {Free}]
  BY DEF HandlersInv, TypeOK
<1>2. UNCHANGED storeVars
  BY DEF Send, Deliver, Lose, UpstreamAnswers, UpstreamCreates
<1>3. DOMAIN object' = DOMAIN object
  BY <1>2 DEF storeVars
<1>4. ASSUME NEW b \in Browser, NEW k \in Handlers, Send(r, b, k)
      PROVE  Moves(r)
  BY <1>3, <1>4, SentGood DEF Send, Moves
<1>5. CASE Deliver(r) \/ Lose(r)
  <2>1. req' = [req EXCEPT ![r] = Free]
    BY <1>5 DEF Deliver, Lose
  <2>2. QED
    BY <2>1 DEF Moves, GoodRequest
<1>6. CASE UpstreamAnswers(r)
  <2>1. q.pc = "upstream" /\ q.kind \in Calling
    BY <1>6 DEF UpstreamAnswers, At
  <2>2. Staged(q) /\ Known(q, DOMAIN object)
    BY <2>1, RequestCases
  <2>3. PICK a \in {"ok", "invalid", "forbidden", "error"} :
            req' = [req EXCEPT ![r] = [q EXCEPT !.answer = a]]
    BY <1>1, <1>6 DEF UpstreamAnswers
  <2>4. [q EXCEPT !.pc = q.pc, !.answer = a, !.outcome = q.outcome]
        = [q EXCEPT !.answer = a]
    BY <2>2 DEF Staged, RequestType
  <2>5. GoodRequest([q EXCEPT !.pc = q.pc, !.answer = a, !.outcome = q.outcome],
                    DOMAIN object)
    BY <2>1, <2>2, AnswerGood
  <2>6. QED
    BY <1>3, <2>3, <2>4, <2>5 DEF Moves
<1>7. ASSUME NEW c \in Token, UpstreamCreates(r, c)
      PROVE  Moves(r)
  <2>1. q.pc = "upstream" /\ q.kind = "login"
    BY <1>7 DEF UpstreamCreates, At
  <2>2. Staged(q) /\ Known(q, DOMAIN object)
    BY <2>1, RequestCases
  <2>3. req' = [req EXCEPT ![r] = [q EXCEPT !.answer = "created", !.credential = c]]
    BY <1>1, <1>7 DEF UpstreamCreates
  <2>4. QED
    BY <1>3, <2>1, <2>2, <2>3, CreatedGood DEF Moves
<1>8. QED
  BY <1>4, <1>5, <1>6, <1>7

-----------------------------------------------------------------------------
(* The invariant is kept.                                                  *)

\* A request that waits for the upstream has an answer only from the upstream.
Unanswered(q) == q.pc = "upstream" => q.answer = "none"

LEMMA UnansweredStep ==
    ASSUME HandlersInv, NEW r \in Request,
           \/ \E b \in Browser, k \in Handlers : Send(r, b, k)
           \/ Arrives(r) \/ HandlerStep(r) \/ Deliver(r) \/ Lose(r)
    PROVE  Unanswered(req'[r])
<1>1. req \in [Request -> RequestType \cup {Free}]
  BY DEF HandlersInv, TypeOK
<1>2. CASE \E b \in Browser, k \in Handlers : Send(r, b, k)
  BY <1>1, <1>2 DEF Send, NewRequest, Unanswered
<1>3. CASE Deliver(r) \/ Lose(r)
  BY <1>1, <1>3 DEF Deliver, Lose, Free, Unanswered
<1>4. ASSUME req[r].answer = "none", NEW pc, Await(r, pc), req[r].pc # "free"
      PROVE  Unanswered(req'[r])
  <2>1. req[r] \in RequestType
    BY <1>4, RequestCases DEF Staged
  <2>2. req'[r].answer = "none"
    BY <1>1, <1>4, <2>1 DEF Await, RequestType
  <2>3. QED
    BY <2>2 DEF Unanswered
<1>5. ASSUME NEW outcome, NEW session, NEW prelogin,
             Reply(r, outcome, session, prelogin), req[r].pc # "free"
      PROVE  Unanswered(req'[r])
  <2>1. req[r] \in RequestType
    BY <1>5, RequestCases DEF Staged
  <2>2. req'[r].pc = "reply"
    BY <1>1, <1>5, <2>1 DEF Reply, RequestType
  <2>3. QED
    BY <2>2 DEF Unanswered
<1>6. ASSUME req[r].pc # "free", req'[r].pc = "probe" \/ req'[r].pc = "reply"
      PROVE  Unanswered(req'[r])
  BY <1>6 DEF Unanswered
<1>7. ASSUME req[r].pc # "free"
      PROVE  req[r] \in RequestType
  BY <1>7, RequestCases DEF Staged
<1>8. CASE Arrives(r)
  <2>1. CASE \/ BootstrapRefused(r) \/ BootstrapFull(r) \/ LoginRefused(r)
             \/ LoginInvalid(r) \/ LogoutRefused(r) \/ LogoutWithoutCsrf(r)
             \/ ProxyRefused(r)
    BY <1>5, <2>1 DEF BootstrapRefused, BootstrapFull, LoginRefused, Reject,
                      LoginInvalid, LogoutRefused, LogoutWithoutCsrf, ProxyRefused, At
  <2>2. CASE LogoutWithoutSession(r) \/ WithoutSession(r)
    BY <1>5, <2>2 DEF LogoutWithoutSession, WithoutSession, At
  <2>3. CASE BootstrapReuse(r) \/ BootstrapCreate(r)
    <3>1. req[r].pc = "sent" /\ req'[r].pc = "probe"
      BY <1>1, <1>7, <2>3 DEF BootstrapReuse, BootstrapCreate, At, RequestType
    <3>2. QED
      BY <1>6, <3>1
  <2>4. CASE SessionArrives(r)
    <3>1. req[r].pc = "sent" /\ req'[r].pc = "probe"
      BY <1>1, <1>7, <2>4 DEF SessionArrives, At, RequestType
    <3>2. QED
      BY <1>6, <3>1
  <2>5. CASE LoginAdmitted(r) \/ LogoutAdmitted(r) \/ Admitted(r)
    <3>1. req[r].pc = "sent" /\ req[r].answer = "none"
      BY <2>5, RequestCases DEF LoginAdmitted, LogoutAdmitted, Admitted, At, Staged
    <3>2. QED
      BY <1>4, <2>5, <3>1 DEF LoginAdmitted, LogoutAdmitted, Admitted
  <2>6. QED
    BY <1>8, <2>1, <2>2, <2>3, <2>4, <2>5 DEF Arrives
<1>9. CASE HandlerStep(r)
  <2>1. CASE \/ BootstrapProbed(r) \/ DiagnosticsProbed(r) \/ LoginFailed(r)
             \/ LoginFull(r) \/ SessionInvalidated(r) \/ LogoutDone(r)
             \/ ProxyInvalidated(r) \/ ProxyAnswered(r)
    BY <1>5, <2>1 DEF BootstrapProbed, DiagnosticsProbed, LoginFailed, LoginFull,
                      SessionInvalidated, LogoutDone, ProxyInvalidated,
                      ProxyAnswered, Reject, At
  <2>2. CASE LoginProbed(r) \/ SessionProbed(r)
    <3>1. req[r].pc = "probe" /\ req'[r].pc = "reply"
      BY <1>1, <1>7, <2>2 DEF LoginProbed, SessionProbed, Await, At, RequestType
    <3>2. QED
      BY <1>6, <3>1
  <2>3. CASE SessionNeedsRefresh(r)
    <3>1. req[r].pc = "probe" /\ req[r].answer = "none"
      BY <2>3, RequestCases DEF SessionNeedsRefresh, At, Staged
    <3>2. QED
      BY <1>4, <2>3, <3>1 DEF SessionNeedsRefresh
  <2>4. ASSUME NEW o, NEW a, SessionRechecked(r, o, a), req[r].pc = "upstream"
        PROVE  Unanswered(req'[r])
    <3>1. req'[r].pc = "reply"
      BY <1>1, <1>7, <2>4 DEF SessionRechecked, RequestType
    <3>2. QED
      BY <1>6, <2>4, <3>1
  <2>5. CASE SessionUnrefreshed(r)
    BY <2>4, <2>5 DEF SessionUnrefreshed, At
  <2>6. ASSUME NEW absolute, NEW idle, SessionRefreshed(r, absolute, idle)
        PROVE  Unanswered(req'[r])
    BY <2>4, <2>6 DEF SessionRefreshed, At
  <2>7. CASE ProxyFailed(r)
    <3>1. req[r].pc = "upstream" /\ req'[r].pc = "reply"
      BY <1>1, <1>7, <2>7 DEF ProxyFailed, At, RequestType
    <3>2. QED
      BY <1>6, <3>1
  <2>8. ASSUME NEW absolute, NEW idle, LoginCreated(r, absolute, idle)
        PROVE  Unanswered(req'[r])
    <3>1. req[r].pc = "upstream" /\ req'[r].pc = "probe"
      BY <1>1, <1>7, <2>8 DEF LoginCreated, At, RequestType
    <3>2. QED
      BY <1>6, <3>1
  <2>9. QED
    BY <1>9, <2>1, <2>2, <2>3, <2>5, <2>6, <2>7, <2>8 DEF HandlerStep
<1>10. QED
  BY <1>2, <1>3, <1>8, <1>9

\* Only the upstream's answer to a login gives a request a credential to hold.
LEMMA NothingHeld ==
    ASSUME HandlersInv, NEW r \in Request,
           \/ \E b \in Browser, k \in Handlers : Send(r, b, k)
           \/ Arrives(r) \/ HandlerStep(r) \/ Deliver(r) \/ Lose(r)
           \/ UpstreamAnswers(r)
    PROVE  ~Holding(req'[r])
<1>1. req \in [Request -> RequestType \cup {Free}]
  BY DEF HandlersInv, TypeOK
<1>2. CASE UpstreamAnswers(r)
  <2>1. req[r] \in RequestType
    BY <1>2, RequestCases DEF UpstreamAnswers, At, Staged
  <2>2. PICK a \in {"ok", "invalid", "forbidden", "error"} :
            req' = [req EXCEPT ![r].answer = a]
    BY <1>2 DEF UpstreamAnswers
  <2>3. req'[r].answer = a
    BY <1>1, <2>1, <2>2 DEF RequestType
  <2>4. QED
    BY <2>3 DEF Holding
<1>3. QED
  BY <1>2, UnansweredStep DEF Unanswered, Holding

\* A step touches one slot, or none, or is a restart.
SlotStep(r) ==
    \/ \E b \in Browser, k \in Handlers : Send(r, b, k)
    \/ Arrives(r) \/ HandlerStep(r) \/ Deliver(r) \/ Lose(r)
    \/ UpstreamAnswers(r)
    \/ \E c \in Token : UpstreamCreates(r, c)

LEMMA NextCases ==
    ASSUME Next
    PROVE  \/ \E r \in Request : SlotStep(r)
           \/ \E c \in Token : UpstreamEnds(c)
           \/ Restart \/ Clock
BY DEF Next, SlotStep

LEMMA SlotMoves ==
    ASSUME HandlersInv, NEW r \in Request, SlotStep(r)
    PROVE  Moves(r)
BY ArrivesMoves, HandlerMoves, OtherMoves DEF SlotStep

LEMMA RequestsStep ==
    ASSUME HandlersInv, Next
    PROVE  RequestsOK' /\ req' \in [Request -> RequestType \cup {Free}]
<1>1. /\ req \in [Request -> RequestType \cup {Free}]
      /\ \A r \in Request : GoodRequest(req[r], DOMAIN object)
  BY DEF HandlersInv, TypeOK, RequestsOK
<1>2. ASSUME NEW q, GoodRequest(q, DOMAIN object)
      PROVE  GoodRequest(q, DOMAIN object')
  BY <1>2, TablesStep DEF GoodRequest, Known
<1>3. ASSUME NEW q, NEW drawn, GoodRequest(q, drawn)
      PROVE  q \in RequestType \cup {Free}
  BY <1>3 DEF GoodRequest, Staged
<1>4. ASSUME req' = req
      PROVE  \A r \in Request : GoodRequest(req'[r], DOMAIN object')
  BY <1>1, <1>2, <1>4
<1>5. ASSUME NEW r \in Request, SlotStep(r)
      PROVE  /\ \A s \in Request : GoodRequest(req'[s], DOMAIN object')
             /\ req' \in [Request -> RequestType \cup {Free}]
  <2>1. PICK q : req' = [req EXCEPT ![r] = q] /\ GoodRequest(q, DOMAIN object')
    BY <1>5, SlotMoves DEF Moves
  <2>2. QED
    BY <1>1, <1>2, <1>3, <2>1
<1>6. CASE (\E c \in Token : UpstreamEnds(c)) \/ Clock
  <2>1. req' = req
    BY <1>6 DEF UpstreamEnds, Clock, ctlVars
  <2>2. QED
    BY <1>1, <1>4, <2>1 DEF RequestsOK
<1>7. CASE Restart
  <2>1. req' = [r \in Request |-> IF req[r].pc \in {"upstream", "probe"}
                                  THEN Free ELSE req[r]]
    BY <1>7 DEF Restart
  <2>2. \A r \in Request : req'[r] = Free \/ req'[r] = req[r]
    BY <2>1
  <2>3. \A r \in Request : GoodRequest(req'[r], DOMAIN object')
    BY <1>1, <1>2, <2>2 DEF GoodRequest
  <2>4. QED
    BY <1>3, <2>1, <2>3 DEF RequestsOK
<1>8. QED
  BY <1>5, <1>6, <1>7, NextCases DEF RequestsOK

\* Set-Cookie never gives a browser a session token that was not drawn.
LEMMA CookiesStep ==
    ASSUME HandlersInv, Next
    PROVE  /\ CookiesKnown'
           /\ jar' \in [Browser -> [session : Token \cup {NoToken},
                                    prelogin : PreToken \cup {NoToken}]]
<1>1. /\ jar \in [Browser -> [session : Token \cup {NoToken},
                              prelogin : PreToken \cup {NoToken}]]
      /\ \A b \in Browser : jar[b].session \in DOMAIN object \cup {NoToken}
  BY DEF HandlersInv, TypeOK, CookiesKnown
<1>2. DOMAIN object \subseteq DOMAIN object'
  BY TablesStep
<1>3. CASE UNCHANGED jar
  BY <1>1, <1>2, <1>3 DEF CookiesKnown
<1>4. ASSUME NEW r \in Request, Deliver(r)
      PROVE  /\ CookiesKnown'
             /\ jar' \in [Browser -> [session : Token \cup {NoToken},
                                      prelogin : PreToken \cup {NoToken}]]
  <2>1. /\ req[r] \in RequestType
        /\ req[r].setSession \in DOMAIN object \cup {NoToken, Keep}
    BY <1>4, RequestCases DEF Deliver, Staged, Known
  <2> DEFINE b == req[r].browser
             session == IF req[r].setSession = Keep THEN jar[b].session
                                                    ELSE req[r].setSession
             prelogin == IF req[r].setPrelogin = Keep THEN jar[b].prelogin
                                                      ELSE req[r].setPrelogin
  <2>2. b \in Browser
    BY <2>1 DEF RequestType
  <2>3. /\ session \in Token \cup {NoToken} /\ prelogin \in PreToken \cup {NoToken}
        /\ session \in DOMAIN object \cup {NoToken}
    BY <1>1, <2>1, <2>2 DEF RequestType
  <2>4. jar' = [jar EXCEPT ![b] = [session |-> session, prelogin |-> prelogin]]
    BY <1>1, <1>4, <2>2 DEF Deliver
  <2> HIDE DEF b, session, prelogin
  <2>5. jar' \in [Browser -> [session : Token \cup {NoToken},
                              prelogin : PreToken \cup {NoToken}]]
    BY <1>1, <2>2, <2>3, <2>4
  <2>6. \A c \in Browser : jar'[c].session \in DOMAIN object \cup {NoToken}
    BY <1>1, <2>2, <2>3, <2>4
  <2>7. QED
    BY <1>2, <2>5, <2>6 DEF CookiesKnown
<1>5. ASSUME NEW r \in Request, Arrives(r) PROVE UNCHANGED jar
  BY <1>5
  DEF Arrives, BootstrapRefused, BootstrapReuse, BootstrapCreate, BootstrapFull,
      LoginRefused, LoginInvalid, LoginAdmitted, SessionArrives, LogoutRefused,
      LogoutWithoutSession, LogoutWithoutCsrf, LogoutAdmitted, WithoutSession,
      ProxyRefused, Admitted
<1>6. ASSUME NEW r \in Request, HandlerStep(r) PROVE UNCHANGED jar
  BY <1>6
  DEF HandlerStep, BootstrapProbed, LoginProbed, DiagnosticsProbed, LoginFull,
      LoginFailed, SessionProbed, SessionNeedsRefresh, SessionInvalidated,
      SessionUnrefreshed, LogoutDone, ProxyInvalidated, ProxyAnswered, ProxyFailed,
      LoginCreated, SessionRefreshed
<1>7. ASSUME NEW r \in Request, SlotStep(r)
      PROVE  UNCHANGED jar \/ Deliver(r)
  BY <1>5, <1>6, <1>7 DEF SlotStep, Send, Lose, UpstreamAnswers, UpstreamCreates
<1>8. CASE (\E c \in Token : UpstreamEnds(c)) \/ Restart \/ Clock
  BY <1>3, <1>8 DEF UpstreamEnds, Restart, Clock, ctlVars
<1>9. QED
  BY <1>3, <1>4, <1>7, <1>8, NextCases

\* What a step does to the upstream's records: only a login adds to them.
LEMMA UpstreamStep ==
    ASSUME HandlersInv, Next
    PROVE  \/ /\ minted' = minted /\ upstreamLive' \subseteq upstreamLive
              /\ \A r \in Request : Holding(req'[r]) => req'[r] = req[r]
           \/ \E r \in Request, c \in Token : UpstreamCreates(r, c)
<1> DEFINE Quiet == /\ minted' = minted /\ upstreamLive' \subseteq upstreamLive
                    /\ \A r \in Request : Holding(req'[r]) => req'[r] = req[r]
<1>1. /\ req \in [Request -> RequestType \cup {Free}]
  BY DEF HandlersInv, TypeOK
<1>2. ASSUME NEW r \in Request, Arrives(r)
      PROVE  minted' = minted /\ upstreamLive' = upstreamLive
  BY <1>2
  DEF Arrives, BootstrapRefused, BootstrapReuse, BootstrapCreate, BootstrapFull,
      LoginRefused, LoginInvalid, LoginAdmitted, SessionArrives, LogoutRefused,
      LogoutWithoutSession, LogoutWithoutCsrf, LogoutAdmitted, WithoutSession,
      ProxyRefused, Admitted
<1>3. ASSUME NEW r \in Request, HandlerStep(r)
      PROVE  minted' = minted /\ upstreamLive' = upstreamLive
  BY <1>3
  DEF HandlerStep, BootstrapProbed, LoginProbed, DiagnosticsProbed, LoginFull,
      LoginFailed, SessionProbed, SessionNeedsRefresh, SessionInvalidated,
      SessionUnrefreshed, LogoutDone, ProxyInvalidated, ProxyAnswered, ProxyFailed,
      LoginCreated, SessionRefreshed
<1>4. ASSUME NEW r \in Request,
             \/ \E b \in Browser, k \in Handlers : Send(r, b, k)
             \/ Deliver(r) \/ Lose(r) \/ UpstreamAnswers(r)
      PROVE  minted' = minted /\ upstreamLive' \subseteq upstreamLive
  BY <1>4 DEF Send, Deliver, Lose, UpstreamAnswers
<1>5. ASSUME NEW r \in Request, SlotStep(r), ~\E c \in Token : UpstreamCreates(r, c)
      PROVE  Quiet
  <2>1. ~Holding(req'[r])
    BY <1>5, NothingHeld DEF SlotStep
  <2>2. PICK q : req' = [req EXCEPT ![r] = q]
    BY <1>5, SlotMoves DEF Moves
  <2>3. \A s \in Request : Holding(req'[s]) => req'[s] = req[s]
    BY <1>1, <2>1, <2>2
  <2>4. minted' = minted /\ upstreamLive' \subseteq upstreamLive
    BY <1>2, <1>3, <1>4, <1>5 DEF SlotStep
  <2>5. QED
    BY <2>3, <2>4
<1>6. CASE (\E c \in Token : UpstreamEnds(c)) \/ Clock
  BY <1>6 DEF UpstreamEnds, Clock, ctlVars
<1>7. CASE Restart
  <2>1. /\ minted' = minted /\ upstreamLive' = upstreamLive
        /\ req' = [r \in Request |-> IF req[r].pc \in {"upstream", "probe"}
                                     THEN Free ELSE req[r]]
    BY <1>7 DEF Restart
  <2>2. ASSUME NEW r \in Request, Holding(req'[r])
        PROVE  req'[r] = req[r]
    BY <2>1, <2>2 DEF Holding, Free
  <2>3. QED
    BY <2>1, <2>2
<1>8. QED
  BY <1>5, <1>6, <1>7, NextCases

LEMMA CredentialsStep ==
    ASSUME HandlersInv, Next
    PROVE  /\ CredentialsFresh' /\ minted' \in SUBSET Token
           /\ upstreamLive' \in SUBSET minted' /\ DOMAIN object' \subseteq minted'
<1>1. /\ minted \in SUBSET Token /\ upstreamLive \in SUBSET minted
      /\ DOMAIN object \subseteq minted
      /\ req \in [Request -> RequestType \cup {Free}] /\ StoreTypeOK
  BY DEF HandlersInv, TypeOK
<1>2. /\ \A r \in Request : Holding(req[r]) =>
            req[r].credential \in minted \ DOMAIN object
      /\ \A r, s \in Request :
            r # s /\ Holding(req[r]) /\ Holding(req[s])
            => req[r].credential # req[s].credential
  BY DEF HandlersInv, CredentialsFresh
<1>3. ASSUME NEW r \in Request, NEW c \in Token, UpstreamCreates(r, c)
      PROVE  /\ CredentialsFresh' /\ minted' \in SUBSET Token
             /\ upstreamLive' \in SUBSET minted' /\ DOMAIN object' \subseteq minted'
  <2>1. /\ c \notin minted /\ minted' = minted \cup {c}
        /\ upstreamLive' = upstreamLive \cup {c}
        /\ object' = object
    BY <1>3 DEF UpstreamCreates, storeVars
  <2>2. req[r] \in RequestType
    BY <1>3, RequestCases DEF UpstreamCreates, At, Staged
  <2>3. req' = [req EXCEPT ![r] = [req[r] EXCEPT !.answer = "created",
                                                 !.credential = c]]
    BY <1>1, <1>3 DEF UpstreamCreates
  <2>4. /\ req'[r].credential = c
        /\ \A s \in Request : s # r => req'[s] = req[s]
    BY <1>1, <2>2, <2>3 DEF RequestType
  <2>5. CredentialsFresh'
    BY <1>1, <1>2, <2>1, <2>4 DEF CredentialsFresh, Holding
  <2>6. QED
    BY <1>1, <2>1, <2>5
<1>4. ASSUME minted' = minted, upstreamLive' \subseteq upstreamLive,
             \A r \in Request : Holding(req'[r]) => req'[r] = req[r]
      PROVE  /\ CredentialsFresh' /\ minted' \in SUBSET Token
             /\ upstreamLive' \in SUBSET minted' /\ DOMAIN object' \subseteq minted'
  <2>1. CASE LoginSucceeds
    <3>1. PICK r \in Request, absolute \in MaybeTime, idle \in MaybeIdleTime :
              LoginCreated(r, absolute, idle)
      BY <2>1 DEF LoginSucceeds
    <3>2. /\ req[r].credential \in minted
          /\ DOMAIN object' = DOMAIN object \cup {req[r].credential}
      BY <3>1, LoginStore
    <3>3. Holding(req[r])
      BY <3>1 DEF LoginCreated, At, Holding
    <3>4. ~Holding(req'[r])
      BY <3>1, NothingHeld DEF HandlerStep
    <3>5. CredentialsFresh'
      BY <1>2, <1>4, <3>2, <3>3, <3>4 DEF CredentialsFresh, Holding
    <3>6. QED
      BY <1>1, <1>4, <3>2, <3>5
  <2>2. CASE DOMAIN object' = DOMAIN object
    BY <1>1, <1>2, <1>4, <2>2 DEF CredentialsFresh, Holding
  <2>3. QED
    BY <1>1, <2>1, <2>2, StoreSteps, RefreshStore, RestartStore DEF Housekeeping
<1>5. QED
  BY <1>3, <1>4, UpstreamStep

-----------------------------------------------------------------------------
(* The concurrency gates.  Every step leaves the requests inside a gate     *)
(* alone, or lets the one it handles in or out, and counts accordingly.     *)

Gates == {"login", "bootstrap"}
Limit(g) == IF g = "login" THEN LoginGate ELSE BootstrapGate
InGate(q, g) == q.pc \in {"upstream", "probe"} /\ q.kind = g

Stays(r, g) == InGate(req'[r], g) <=> InGate(req[r], g)

GateStep(r) ==
    \/ UNCHANGED gate /\ \A g \in Gates : Stays(r, g)
    \/ \E g \in Gates :
          /\ Enter(g) /\ gate[g] < Limit(g)
          /\ ~InGate(req[r], g) /\ InGate(req'[r], g)
          /\ \A h \in Gates \ {g} : Stays(r, h)
    \/ \E g \in Gates :
          /\ Leave(g) /\ InGate(req[r], g) /\ ~InGate(req'[r], g)
          /\ \A h \in Gates \ {g} : Stays(r, h)

\* A request outside every gate before and after.
LEMMA StaysOutside ==
    ASSUME NEW r \in Request, UNCHANGED gate,
           req[r].pc \in {"free", "sent", "reply"} \/ req[r].kind \notin Gates,
           req'[r].pc \in {"free", "sent", "reply"} \/ req'[r].kind \notin Gates
    PROVE  GateStep(r)
BY DEF GateStep, Stays, InGate, Gates

LEMMA ReplyPc ==
    ASSUME HandlersInv, NEW r \in Request, req[r].pc # "free",
           NEW outcome, NEW session, NEW prelogin,
           Reply(r, outcome, session, prelogin)
    PROVE  /\ req'[r].pc = "reply" /\ req'[r].kind = req[r].kind
           /\ req'[r].session = req[r].session /\ req'[r].answer = req[r].answer
           /\ req'[r].outcome = outcome
<1>1. req \in [Request -> RequestType \cup {Free}] /\ req[r] \in RequestType
  BY RequestCases DEF HandlersInv, TypeOK, Staged
<1>2. QED
  BY <1>1 DEF Reply, RequestType

LEMMA AwaitPc ==
    ASSUME HandlersInv, NEW r \in Request, req[r].pc # "free",
           NEW pc, Await(r, pc)
    PROVE  /\ req'[r].pc = pc /\ req'[r].kind = req[r].kind
           /\ req'[r].session = req[r].session /\ req'[r].answer = req[r].answer
           /\ req'[r].outcome = req[r].outcome
<1>1. req \in [Request -> RequestType \cup {Free}] /\ req[r] \in RequestType
  BY RequestCases DEF HandlersInv, TypeOK, Staged
<1>2. QED
  BY <1>1 DEF Await, RequestType

LEMMA ArrivesGate ==
    ASSUME HandlersInv, NEW r \in Request, Arrives(r)
    PROVE  GateStep(r)
<1>1. req \in [Request -> RequestType \cup {Free}]
  BY DEF HandlersInv, TypeOK
<1>2. ASSUME NEW k \in SUBSET Handlers, At(r, "sent", k)
      PROVE  req[r].pc = "sent" /\ req[r] \in RequestType /\ req[r].kind \in k
  BY <1>2, RequestCases DEF At, Staged
<1>3. ASSUME NEW outcome, NEW session, NEW prelogin, UNCHANGED gate,
             Reply(r, outcome, session, prelogin), req[r].pc = "sent"
      PROVE  GateStep(r)
  BY <1>3, ReplyPc, StaysOutside
<1>4. CASE \/ BootstrapRefused(r) \/ BootstrapFull(r) \/ LoginRefused(r)
           \/ LoginInvalid(r) \/ LogoutRefused(r) \/ LogoutWithoutCsrf(r)
           \/ ProxyRefused(r)
  BY <1>3, <1>4 DEF BootstrapRefused, BootstrapFull, LoginRefused, Reject,
                    LoginInvalid, LogoutRefused, LogoutWithoutCsrf, ProxyRefused, At
<1>5. CASE LogoutWithoutSession(r) \/ WithoutSession(r)
  BY <1>3, <1>5 DEF LogoutWithoutSession, WithoutSession, At
<1>6. CASE BootstrapReuse(r) \/ BootstrapCreate(r)
  <2>1. /\ req[r].pc = "sent" /\ req[r].kind = "bootstrap"
        /\ req[r] \in RequestType /\ gate.bootstrap < BootstrapGate
        /\ Enter("bootstrap")
    BY <1>2, <1>6 DEF BootstrapReuse, BootstrapCreate, At, Handlers
  <2>2. req'[r].pc = "probe" /\ req'[r].kind = "bootstrap"
    BY <1>1, <1>6, <2>1 DEF BootstrapReuse, BootstrapCreate, RequestType
  <2>3. QED
    BY <2>1, <2>2 DEF GateStep, Gates, Limit, InGate, Stays
<1>7. CASE LoginAdmitted(r)
  <2>1. /\ req[r].pc = "sent" /\ req[r].kind = "login"
        /\ gate.login < LoginGate /\ Enter("login")
    BY <1>7 DEF LoginAdmitted, At
  <2>2. req'[r].pc = "upstream" /\ req'[r].kind = "login"
    BY <1>7, <2>1, AwaitPc DEF LoginAdmitted
  <2>3. QED
    BY <2>1, <2>2 DEF GateStep, Gates, Limit, InGate, Stays
<1>8. CASE LogoutAdmitted(r) \/ Admitted(r)
  <2>1. /\ req[r].pc = "sent" /\ req[r].kind \notin Gates /\ UNCHANGED gate
    BY <1>8 DEF LogoutAdmitted, Admitted, At, Gates
  <2>2. req'[r].kind = req[r].kind
    BY <1>8, <2>1, AwaitPc DEF LogoutAdmitted, Admitted
  <2>3. QED
    BY <2>1, <2>2, StaysOutside
<1>9. CASE SessionArrives(r)
  <2>1. /\ req[r].pc = "sent" /\ req[r].kind = "session" /\ UNCHANGED gate
        /\ req[r] \in RequestType
    BY <1>2, <1>9 DEF SessionArrives, At, Handlers
  <2>2. req'[r].kind = "session"
    BY <1>1, <1>9, <2>1 DEF SessionArrives, RequestType
  <2>3. QED
    BY <2>1, <2>2, StaysOutside DEF Gates
<1>10. QED
  BY <1>4, <1>5, <1>6, <1>7, <1>8, <1>9 DEF Arrives

LEMMA HandlerGate ==
    ASSUME HandlersInv, NEW r \in Request, HandlerStep(r)
    PROVE  GateStep(r)
<1>1. req \in [Request -> RequestType \cup {Free}]
  BY DEF HandlersInv, TypeOK
<1>2. ASSUME req[r].pc # "free" PROVE req[r] \in RequestType
  BY <1>2, RequestCases DEF Staged
<1>3. ASSUME NEW g \in Gates, Leave(g), req[r].kind = g,
             req[r].pc \in {"upstream", "probe"},
             req'[r].pc = "reply", req'[r].kind = g
      PROVE  GateStep(r)
  BY <1>3 DEF GateStep, InGate, Stays
<1>4. CASE BootstrapProbed(r)
  <2>1. /\ req[r].pc = "probe" /\ req[r].kind = "bootstrap" /\ Leave("bootstrap")
        /\ req'[r].pc = "reply" /\ req'[r].kind = req[r].kind
    BY <1>4, ReplyPc DEF BootstrapProbed, At
  <2>2. QED
    BY <1>3, <2>1 DEF Gates
<1>5. CASE LoginFull(r) \/ LoginFailed(r)
  <2>1. /\ req[r].pc = "upstream" /\ req[r].kind = "login" /\ Leave("login")
        /\ req'[r].pc = "reply" /\ req'[r].kind = req[r].kind
    BY <1>5, ReplyPc DEF LoginFull, LoginFailed, Reject, At
  <2>2. QED
    BY <1>3, <2>1 DEF Gates
<1>6. CASE LoginProbed(r)
  <2>1. /\ req[r].pc = "probe" /\ req[r].kind = "login" /\ Leave("login")
        /\ req'[r].pc = "reply" /\ req'[r].kind = req[r].kind
    BY <1>6, AwaitPc DEF LoginProbed, At
  <2>2. QED
    BY <1>3, <2>1 DEF Gates
<1>7. CASE \/ DiagnosticsProbed(r) \/ SessionInvalidated(r) \/ LogoutDone(r)
           \/ ProxyInvalidated(r) \/ ProxyAnswered(r)
  <2>1. /\ req[r].kind \notin Gates /\ UNCHANGED gate /\ req'[r].pc = "reply"
    BY <1>7, ReplyPc DEF DiagnosticsProbed, SessionInvalidated, LogoutDone,
                         ProxyInvalidated, ProxyAnswered, At, Gates
  <2>2. QED
    BY <2>1, StaysOutside
<1>8. CASE SessionProbed(r) \/ SessionNeedsRefresh(r)
  <2>1. /\ req[r].kind = "session" /\ UNCHANGED gate
        /\ req'[r].kind = req[r].kind
    BY <1>8, AwaitPc DEF SessionProbed, SessionNeedsRefresh, At
  <2>2. QED
    BY <2>1, StaysOutside DEF Gates
<1>9. ASSUME NEW o, NEW a, SessionRechecked(r, o, a), UNCHANGED gate,
             At(r, "upstream", {"session"})
      PROVE  GateStep(r)
  <2>1. req[r].kind = "session" /\ req'[r].pc = "reply"
    BY <1>1, <1>2, <1>9 DEF SessionRechecked, At, RequestType
  <2>2. QED
    BY <1>9, <2>1, StaysOutside DEF Gates
<1>10. CASE SessionUnrefreshed(r)
  BY <1>9, <1>10 DEF SessionUnrefreshed
<1>11. ASSUME NEW absolute, NEW idle, SessionRefreshed(r, absolute, idle)
       PROVE  GateStep(r)
  BY <1>9, <1>11 DEF SessionRefreshed
<1>12. CASE ProxyFailed(r)
  <2>1. req[r].kind = "proxy" /\ req'[r].pc = "reply" /\ UNCHANGED gate
    BY <1>1, <1>2, <1>12 DEF ProxyFailed, At, RequestType
  <2>2. QED
    BY <2>1, StaysOutside DEF Gates
<1>13. ASSUME NEW absolute, NEW idle, LoginCreated(r, absolute, idle)
       PROVE  GateStep(r)
  <2>1. /\ req[r].pc = "upstream" /\ req[r].kind = "login" /\ UNCHANGED gate
        /\ req'[r].pc = "probe" /\ req'[r].kind = "login"
    BY <1>1, <1>2, <1>13 DEF LoginCreated, At, RequestType
  <2>2. QED
    BY <2>1 DEF GateStep, Gates, InGate, Stays
<1>14. QED
  BY <1>4, <1>5, <1>6, <1>7, <1>8, <1>10, <1>11, <1>12, <1>13 DEF HandlerStep

LEMMA OtherGate ==
    ASSUME HandlersInv, NEW r \in Request,
           \/ \E b \in Browser, k \in Handlers : Send(r, b, k)
           \/ Deliver(r) \/ Lose(r) \/ UpstreamAnswers(r)
           \/ \E c \in Token : UpstreamCreates(r, c)
    PROVE  GateStep(r)
<1>1. req \in [Request -> RequestType \cup {Free}]
  BY DEF HandlersInv, TypeOK
<1>2. UNCHANGED gate
  BY DEF Send, Deliver, Lose, UpstreamAnswers, UpstreamCreates
<1>3. CASE \E b \in Browser, k \in Handlers : Send(r, b, k)
  BY <1>1, <1>2, <1>3, StaysOutside DEF Send, NewRequest
<1>4. CASE Deliver(r) \/ Lose(r)
  BY <1>1, <1>2, <1>4, StaysOutside DEF Deliver, Lose, Free
<1>5. CASE UpstreamAnswers(r) \/ \E c \in Token : UpstreamCreates(r, c)
  <2>1. req[r] \in RequestType
    BY <1>5, RequestCases DEF UpstreamAnswers, UpstreamCreates, At, Staged
  <2>2. req'[r].pc = req[r].pc /\ req'[r].kind = req[r].kind
    BY <1>1, <1>5, <2>1 DEF UpstreamAnswers, UpstreamCreates, RequestType
  <2>3. QED
    BY <1>2, <2>2 DEF GateStep, Stays, InGate
<1>6. QED
  BY <1>3, <1>4, <1>5

GatesCounted ==
    \A g \in Gates : gate[g] = Cardinality(Inside(g)) /\ gate[g] <= Limit(g)

LEMMA GatesByName == GatesCounted <=> GateBalanced
BY DEF GatesCounted, GateBalanced, Gates, Limit

LEMMA CountAdded ==
    ASSUME NEW S, IsFiniteSet(S), NEW e, e \notin S
    PROVE  Cardinality(S \cup {e}) = Cardinality(S) + 1
BY FS_AddElement

LEMMA CountRemoved ==
    ASSUME NEW S, IsFiniteSet(S), NEW e \in S
    PROVE  /\ Cardinality(S) \in Nat \ {0}
           /\ Cardinality(S \ {e}) = Cardinality(S) - 1
<1>1. Cardinality(S \ {e}) = Cardinality(S) - 1 /\ IsFiniteSet(S \ {e})
  BY FS_RemoveElement
<1>2. Cardinality(S) \in Nat /\ Cardinality(S \ {e}) \in Nat
  BY <1>1, FS_CardinalityType
<1>3. QED
  BY <1>1, <1>2

GateType == [Gates -> Nat]

LEMMA GatesStep ==
    ASSUME HandlersInv, GatesCounted, Next
    PROVE  GatesCounted' /\ gate' \in GateType
<1>1. /\ gate \in GateType
      /\ \A g \in Gates : gate[g] = Cardinality(Inside(g)) /\ gate[g] <= Limit(g)
      /\ \A g \in Gates : Limit(g) \in Nat
  BY HandlersAssumption DEF HandlersInv, TypeOK, GatesCounted, Gates, Limit, GateType
<1>2. \A g \in Gates : IsFiniteSet(Inside(g))
  BY HandlersAssumption, FS_Subset DEF Inside
<1>3. \A g : Inside(g) = {r \in Request : InGate(req[r], g)}
  BY DEF Inside, InGate
<1>4. \A g : Inside(g)' = {r \in Request : InGate(req'[r], g)}
  BY DEF Inside, InGate
<1>5. ASSUME NEW r \in Request, SlotStep(r)
      PROVE  GatesCounted' /\ gate' \in GateType
  <2>1. GateStep(r)
    BY <1>5, ArrivesGate, HandlerGate, OtherGate DEF SlotStep
  <2>2. \A s \in Request : s # r => req'[s] = req[s]
    BY <1>5, SlotMoves DEF Moves, HandlersInv, TypeOK
  <2>3. \A g : Stays(r, g) => Inside(g)' = Inside(g)
    BY <1>3, <1>4, <2>2 DEF Stays
  <2>4. CASE UNCHANGED gate /\ \A g \in Gates : Stays(r, g)
    BY <1>1, <2>3, <2>4 DEF GatesCounted
  <2>5. ASSUME NEW g \in Gates, Enter(g), gate[g] < Limit(g),
               ~InGate(req[r], g), InGate(req'[r], g),
               \A h \in Gates \ {g} : Stays(r, h)
        PROVE  GatesCounted' /\ gate' \in GateType
    <3>1. /\ Inside(g)' = Inside(g) \cup {r} /\ r \notin Inside(g)
          /\ \A h \in Gates \ {g} : Inside(h)' = Inside(h)
      BY <1>3, <1>4, <2>2, <2>3, <2>5
    <3>2. Cardinality(Inside(g)') = Cardinality(Inside(g)) + 1
      BY <1>2, <3>1, CountAdded
    <3>3. gate' = [gate EXCEPT ![g] = gate[g] + 1]
      BY <2>5 DEF Enter
    <3>4. gate' \in GateType
      BY <1>1, <3>3 DEF GateType
    <3>5. \A h \in Gates : gate'[h] = Cardinality(Inside(h)') /\ gate'[h] <= Limit(h)
      BY <1>1, <2>5, <3>1, <3>2, <3>3 DEF GateType
    <3>6. QED
      BY <3>4, <3>5 DEF GatesCounted
  <2>6. ASSUME NEW g \in Gates, Leave(g), InGate(req[r], g), ~InGate(req'[r], g),
               \A h \in Gates \ {g} : Stays(r, h)
        PROVE  GatesCounted' /\ gate' \in GateType
    <3>1. /\ Inside(g)' = Inside(g) \ {r} /\ r \in Inside(g)
          /\ \A h \in Gates \ {g} : Inside(h)' = Inside(h)
      BY <1>3, <1>4, <2>2, <2>3, <2>6
    <3>2. /\ Cardinality(Inside(g)) \in Nat \ {0}
          /\ Cardinality(Inside(g)') = Cardinality(Inside(g)) - 1
      BY <1>2, <3>1, CountRemoved
    <3>3. gate' = [gate EXCEPT ![g] = gate[g] - 1]
      BY <1>1, <2>6, <3>2 DEF Leave
    <3>4. gate' \in GateType
      BY <1>1, <3>2, <3>3 DEF GateType
    <3>5. \A h \in Gates : gate'[h] = Cardinality(Inside(h)') /\ gate'[h] <= Limit(h)
      BY <1>1, <3>1, <3>2, <3>3 DEF GateType
    <3>6. QED
      BY <3>4, <3>5 DEF GatesCounted
  <2>7. QED
    BY <2>1, <2>4, <2>5, <2>6 DEF GateStep
<1>6. CASE (\E c \in Token : UpstreamEnds(c)) \/ Clock
  <2>1. UNCHANGED <<gate, req>>
    BY <1>6 DEF UpstreamEnds, Clock, ctlVars
  <2>2. QED
    BY <1>1, <2>1 DEF GatesCounted, Inside
<1>7. CASE Restart
  <2>1. /\ gate' = [login |-> 0, bootstrap |-> 0]
        /\ req' = [r \in Request |-> IF req[r].pc \in {"upstream", "probe"}
                                     THEN Free ELSE req[r]]
    BY <1>7 DEF Restart
  <2>2. \A g : Inside(g)' = {}
    BY <1>4, <2>1 DEF InGate, Free
  <2>3. Cardinality({}) = 0
    BY FS_EmptySet
  <2>4. gate' \in GateType /\ \A g \in Gates : gate'[g] = 0
    BY <2>1 DEF GateType, Gates
  <2>5. QED
    BY <1>1, <2>2, <2>3, <2>4 DEF GatesCounted
<1>8. QED
  BY <1>5, <1>6, <1>7, NextCases

-----------------------------------------------------------------------------
(* Types, capacity and gates.                                              *)

ControllerInv == HandlersInv /\ GateBalanced

LEMMA ControllerInit == Init => ControllerInv
<1> SUFFICES ASSUME Init PROVE ControllerInv
  OBVIOUS
<1>1. /\ StoreInit /\ minted = {} /\ upstreamLive = {} /\ restarts = 0
      /\ jar = [b \in Browser |-> [session |-> NoToken, prelogin |-> NoToken]]
      /\ req = [r \in Request |-> Free]
      /\ gate = [login |-> 0, bootstrap |-> 0]
  BY DEF Init
<1>2. StoreTypeOK /\ DOMAIN object = {}
  BY <1>1, TypeInit DEF StoreInit
<1>3. Cardinality({}) = 0
  BY FS_EmptySet
<1>4. CapacityBound
  BY <1>1, <1>3, LimitsAssumption DEF StoreInit, CapacityBound
<1>5. TypeOK
  BY <1>1, <1>2, <1>4, HandlersAssumption DEF TypeOK
<1>6. RequestsOK /\ CookiesKnown
  BY <1>1 DEF RequestsOK, GoodRequest, CookiesKnown
<1>7. CredentialsFresh
  BY <1>1 DEF CredentialsFresh, Holding, Free
<1>8. GateBalanced
  <2>1. \A g : Inside(g) = {}
    BY <1>1 DEF Inside, Free
  <2>2. gate.login = 0 /\ gate.bootstrap = 0
    BY <1>1
  <2>3. 0 <= LoginGate /\ 0 <= BootstrapGate
    BY HandlersAssumption
  <2>4. Cardinality(Inside("login")) = 0 /\ Cardinality(Inside("bootstrap")) = 0
    BY <1>3, <2>1
  <2>5. QED
    BY <2>2, <2>3, <2>4 DEF GateBalanced
<1>9. QED
  BY <1>5, <1>6, <1>7, <1>8 DEF ControllerInv, HandlersInv

LEMMA RestartsStep ==
    ASSUME HandlersInv, Next
    PROVE  restarts' \in 0..MaxRestarts
<1>1. restarts \in 0..MaxRestarts /\ MaxRestarts \in Nat
  BY HandlersAssumption DEF HandlersInv, TypeOK
<1>2. ASSUME NEW r \in Request, Arrives(r) PROVE UNCHANGED restarts
  BY <1>2
  DEF Arrives, BootstrapRefused, BootstrapReuse, BootstrapCreate, BootstrapFull,
      LoginRefused, LoginInvalid, LoginAdmitted, SessionArrives, LogoutRefused,
      LogoutWithoutSession, LogoutWithoutCsrf, LogoutAdmitted, WithoutSession,
      ProxyRefused, Admitted
<1>3. ASSUME NEW r \in Request, HandlerStep(r) PROVE UNCHANGED restarts
  BY <1>3
  DEF HandlerStep, BootstrapProbed, LoginProbed, DiagnosticsProbed, LoginFull,
      LoginFailed, SessionProbed, SessionNeedsRefresh, SessionInvalidated,
      SessionUnrefreshed, LogoutDone, ProxyInvalidated, ProxyAnswered, ProxyFailed,
      LoginCreated, SessionRefreshed
<1>4. ASSUME NEW r \in Request, SlotStep(r) PROVE UNCHANGED restarts
  BY <1>2, <1>3, <1>4
  DEF SlotStep, Send, Deliver, Lose, UpstreamAnswers, UpstreamCreates
<1>5. CASE (\E c \in Token : UpstreamEnds(c)) \/ Clock
  BY <1>1, <1>5 DEF UpstreamEnds, Clock, ctlVars
<1>6. CASE Restart
  BY <1>1, <1>6 DEF Restart
<1>7. QED
  BY <1>1, <1>4, <1>5, <1>6, NextCases

LEMMA ControllerStep == ControllerInv /\ [Next]_vars => ControllerInv'
<1> SUFFICES ASSUME ControllerInv, [Next]_vars PROVE ControllerInv'
  OBVIOUS
<1>1. CASE Next
  <2>1. HandlersInv /\ GatesCounted
    BY GatesByName DEF ControllerInv
  <2>2. StoreTypeOK' /\ CapacityBound'
    BY <1>1, <2>1, TablesStep
  <2>3. RequestsOK' /\ req' \in [Request -> RequestType \cup {Free}]
    BY <1>1, <2>1, RequestsStep
  <2>4. /\ CookiesKnown'
        /\ jar' \in [Browser -> [session : Token \cup {NoToken},
                                 prelogin : PreToken \cup {NoToken}]]
    BY <1>1, <2>1, CookiesStep
  <2>5. /\ CredentialsFresh' /\ minted' \in SUBSET Token
        /\ upstreamLive' \in SUBSET minted' /\ DOMAIN object' \subseteq minted'
    BY <1>1, <2>1, CredentialsStep
  <2>6. GatesCounted' /\ gate' \in [{"login", "bootstrap"} -> Nat]
    BY <1>1, <2>1, GatesStep DEF GateType, Gates
  <2>7. restarts' \in 0..MaxRestarts
    BY <1>1, <2>1, RestartsStep
  <2>8. TypeOK'
    BY <2>2, <2>3, <2>4, <2>5, <2>6, <2>7 DEF TypeOK
  <2>9. GateBalanced'
    BY <2>6 DEF GatesCounted, GateBalanced, Gates, Limit
  <2>10. QED
    BY <2>3, <2>4, <2>5, <2>8, <2>9 DEF ControllerInv, HandlersInv
<1>2. CASE UNCHANGED vars
  BY <1>2
  DEF vars, storeVars, ctlVars, ControllerInv, HandlersInv, TypeOK, StoreTypeOK,
      CapacityBound, RequestsOK, CookiesKnown, CredentialsFresh, GateBalanced,
      Inside, GoodRequest, Known, Staged, RequestType
<1>3. QED
  BY <1>1, <1>2

\* Whatever requests overlap, a refresh or a logout only ever works on a
\* session that was created, a login inserts a token that was never in use, and
\* both tables keep to their limits.
THEOREM ControllerTyping == Spec => []TypeOK
<1>1. ControllerInv => TypeOK
  BY DEF ControllerInv, HandlersInv
<1>2. QED
  BY <1>1, ControllerInit, ControllerStep, PTL DEF Spec

\* The semaphores of context.ts count exactly the logins and bootstraps under
\* way, for any number of requests: no path of a handler leaves without
\* releasing, none releases twice, and the limits hold.
THEOREM GatesBalance == Spec => []GateBalanced
<1>1. ControllerInv => GateBalanced
  BY DEF ControllerInv
<1>2. QED
  BY <1>1, ControllerInit, ControllerStep, PTL DEF Spec

-----------------------------------------------------------------------------
(* Replies.  What is true of the tables and of the upstream when a handler  *)
(* ends, by the kind of its request.                                       *)

\* A reply that tells the browser its session is over.
EndsSession(q) ==
    /\ q.pc = "reply"
    /\ \/ q.kind = "logout" /\ q.outcome # "rejected"
       \/ q.kind = "session" /\ q.answer \in {"invalid", "forbidden"}
       \/ q.kind = "proxy" /\ q.answer = "invalid"

\* The upstream has confirmed the revocation, or is known to have.
Revoked(q) ==
    \/ q.pc = "reply" /\ q.outcome = "revoked"
    \/ q.pc = "upstream" /\ q.kind = "logout" /\ q.answer = "ok"

RepliesInv ==
    /\ \A r \in Request : EndsSession(req[r]) => req[r].session \notin sessions
    /\ \A r \in Request : Revoked(req[r]) => req[r].session \notin upstreamLive

\* What a step that ends a request has made sure of.
Settled(r) ==
    req'[r].pc = "reply" =>
        /\ req'[r].session = req[r].session /\ UNCHANGED upstreamLive
        /\ EndsSession(req'[r]) => req[r].session \notin sessions'
        /\ req'[r].outcome = "revoked" => Revoked(req[r])

LEMMA ArrivesSettled ==
    ASSUME HandlersInv, NEW r \in Request, Arrives(r)
    PROVE  Settled(r)
<1>1. req \in [Request -> RequestType \cup {Free}] /\ StoreTypeOK
  BY DEF HandlersInv, TypeOK
<1>2. /\ req[r].pc = "sent" /\ req[r].answer = "none" /\ req[r] \in RequestType
  BY RequestCases
  DEF Arrives, BootstrapRefused, BootstrapReuse, BootstrapCreate, BootstrapFull,
      LoginRefused, LoginInvalid, LoginAdmitted, SessionArrives, LogoutRefused,
      LogoutWithoutSession, LogoutWithoutCsrf, LogoutAdmitted, WithoutSession,
      ProxyRefused, Admitted, At, Staged
<1>3. CASE \/ BootstrapRefused(r) \/ BootstrapFull(r) \/ LoginRefused(r)
           \/ LoginInvalid(r) \/ LogoutRefused(r) \/ LogoutWithoutCsrf(r)
           \/ ProxyRefused(r)
  <2>1. Reject(r) /\ UNCHANGED upstreamLive
    BY <1>3 DEF BootstrapRefused, BootstrapFull, LoginRefused, LoginInvalid,
                LogoutRefused, LogoutWithoutCsrf, ProxyRefused
  <2>2. /\ req'[r].session = req[r].session /\ req'[r].answer = "none"
        /\ req'[r].outcome = "rejected"
    BY <1>2, <2>1, ReplyPc DEF Reject
  <2>3. QED
    BY <2>1, <2>2 DEF Settled, EndsSession
<1>4. CASE LogoutWithoutSession(r)
  <2>1. /\ req'[r].session = req[r].session /\ req'[r].outcome = "notAttempted"
        /\ UNCHANGED upstreamLive
    BY <1>2, <1>4, ReplyPc DEF LogoutWithoutSession
  <2>2. req[r].session \notin sessions'
    BY <1>1, <1>4, LookUpStore DEF LogoutWithoutSession
  <2>3. QED
    BY <2>1, <2>2 DEF Settled
<1>5. CASE WithoutSession(r)
  <2>1. /\ req'[r].session = req[r].session /\ req'[r].outcome = "rejected"
        /\ req'[r].answer = "none" /\ UNCHANGED upstreamLive
    BY <1>2, <1>5, ReplyPc DEF WithoutSession
  <2>2. QED
    BY <2>1 DEF Settled, EndsSession
<1>6. ASSUME req'[r].pc = "probe" \/ req'[r].pc = "upstream"
      PROVE  Settled(r)
  BY <1>6 DEF Settled
<1>7. CASE BootstrapReuse(r) \/ BootstrapCreate(r) \/ SessionArrives(r)
  <2>1. req'[r].pc = "probe"
    BY <1>1, <1>2, <1>7 DEF BootstrapReuse, BootstrapCreate, SessionArrives, RequestType
  <2>2. QED
    BY <1>6, <2>1
<1>8. CASE LoginAdmitted(r) \/ LogoutAdmitted(r) \/ Admitted(r)
  <2>1. req'[r].pc = "probe" \/ req'[r].pc = "upstream"
    BY <1>2, <1>8, AwaitPc DEF LoginAdmitted, LogoutAdmitted, Admitted
  <2>2. QED
    BY <1>6, <2>1
<1>9. QED
  BY <1>3, <1>4, <1>5, <1>7, <1>8 DEF Arrives

LEMMA HandlerSettled ==
    ASSUME HandlersInv, NEW r \in Request, HandlerStep(r)
    PROVE  Settled(r)
<1>1. req \in [Request -> RequestType \cup {Free}] /\ StoreTypeOK
  BY DEF HandlersInv, TypeOK
<1>2. ASSUME req[r].pc # "free"
      PROVE  req[r] \in RequestType /\ Staged(req[r])
  BY <1>2, RequestCases DEF Staged
<1>3. CASE \/ BootstrapProbed(r) \/ LoginFull(r) \/ LoginFailed(r)
           \/ DiagnosticsProbed(r)
  <2>1. /\ req[r].kind \in {"bootstrap", "login", "diagnostics"}
        /\ req[r].pc # "free" /\ UNCHANGED upstreamLive
        /\ \E outcome \in {"bootstrapped", "rejected", "answered"} :
              \E session, prelogin : Reply(r, outcome, session, prelogin)
    BY <1>3 DEF BootstrapProbed, LoginFull, LoginFailed, DiagnosticsProbed, Reject, At
  <2>2. /\ req'[r].session = req[r].session /\ req'[r].kind = req[r].kind
        /\ req'[r].outcome # "revoked"
    BY <2>1, ReplyPc
  <2>3. QED
    BY <2>1, <2>2 DEF Settled, EndsSession
<1>4. CASE LoginProbed(r) \/ SessionProbed(r)
  <2>1. /\ req[r].kind \in {"login", "session"} /\ req[r].pc = "probe"
        /\ UNCHANGED upstreamLive /\ Await(r, "reply")
    BY <1>4 DEF LoginProbed, SessionProbed, At
  <2>2. /\ req'[r].session = req[r].session /\ req'[r].kind = req[r].kind
        /\ req'[r].outcome = req[r].outcome /\ req'[r].answer = req[r].answer
    BY <2>1, AwaitPc
  <2>3. /\ req[r].outcome # "revoked"
        /\ req[r].kind = "session" => req[r].answer = "none"
    BY <1>2, <2>1 DEF Staged
  <2>4. QED
    BY <2>1, <2>2, <2>3 DEF Settled, EndsSession
<1>5. CASE SessionInvalidated(r) \/ ProxyInvalidated(r)
  <2>1. /\ req[r].pc # "free" /\ UNCHANGED upstreamLive /\ Destroy(req[r].session)
        /\ \E outcome \in {"anonymous", "answered"} :
              \E session, prelogin : Reply(r, outcome, session, prelogin)
    BY <1>5 DEF SessionInvalidated, ProxyInvalidated, At
  <2>2. req'[r].session = req[r].session /\ req'[r].outcome # "revoked"
    BY <2>1, ReplyPc
  <2>3. req[r].session \notin sessions'
    BY <1>1, <2>1, DestroyStore
  <2>4. QED
    BY <2>1, <2>2, <2>3 DEF Settled
<1>6. CASE LogoutDone(r)
  <2>1. /\ req[r].pc = "upstream" /\ req[r].kind = "logout"
        /\ UNCHANGED upstreamLive /\ Destroy(req[r].session)
        /\ \/ req[r].answer = "ok" /\ Reply(r, "revoked", NoToken, NoToken)
           \/ Reply(r, "unconfirmed", NoToken, NoToken)
    BY <1>6 DEF LogoutDone, At
  <2>2. /\ req'[r].session = req[r].session
        /\ req'[r].outcome = "revoked" => req[r].answer = "ok"
    BY <2>1, ReplyPc
  <2>3. req[r].session \notin sessions'
    BY <1>1, <2>1, DestroyStore
  <2>4. QED
    BY <2>1, <2>2, <2>3 DEF Settled, Revoked
<1>7. CASE ProxyAnswered(r)
  <2>1. /\ req[r].pc # "free" /\ req[r].kind = "proxy" /\ req[r].answer # "invalid"
        /\ UNCHANGED upstreamLive /\ Reply(r, "answered", Keep, Keep)
    BY <1>7 DEF ProxyAnswered, At
  <2>2. /\ req'[r].session = req[r].session /\ req'[r].kind = req[r].kind
        /\ req'[r].answer = req[r].answer /\ req'[r].outcome = "answered"
    BY <2>1, ReplyPc
  <2>3. QED
    BY <2>1, <2>2 DEF Settled, EndsSession
<1>8. CASE ProxyFailed(r)
  <2>1. /\ req'[r].session = req[r].session /\ req'[r].kind = "proxy"
        /\ req'[r].answer = "none" /\ req'[r].outcome = "rejected"
        /\ UNCHANGED upstreamLive
    BY <1>1, <1>2, <1>8 DEF ProxyFailed, At, RequestType
  <2>2. QED
    BY <2>1 DEF Settled, EndsSession
<1>9. ASSUME NEW o, NEW a \in {"none", "ok", "error"}, SessionRechecked(r, o, a),
             At(r, "upstream", {"session"}), UNCHANGED upstreamLive
      PROVE  Settled(r)
  <2>1. /\ req'[r].session = req[r].session /\ req'[r].kind = "session"
        /\ req'[r].answer = a /\ req'[r].outcome \in {"authenticated", "anonymous"}
    BY <1>1, <1>2, <1>9 DEF SessionRechecked, At, RequestType
  <2>2. QED
    BY <1>9, <2>1 DEF Settled, EndsSession
<1>10. CASE SessionUnrefreshed(r)
  BY <1>9, <1>10 DEF SessionUnrefreshed
<1>11. ASSUME NEW absolute, NEW idle, SessionRefreshed(r, absolute, idle)
       PROVE  Settled(r)
  BY <1>9, <1>11 DEF SessionRefreshed
<1>12. ASSUME req'[r].pc = "probe" \/ req'[r].pc = "upstream"
       PROVE  Settled(r)
  BY <1>12 DEF Settled
<1>13. CASE SessionNeedsRefresh(r)
  BY <1>12, <1>13, AwaitPc DEF SessionNeedsRefresh, At
<1>14. ASSUME NEW absolute, NEW idle, LoginCreated(r, absolute, idle)
       PROVE  Settled(r)
  <2>1. req'[r].pc = "probe"
    BY <1>1, <1>2, <1>14 DEF LoginCreated, At, RequestType
  <2>2. QED
    BY <1>12, <2>1
<1>15. QED
  BY <1>3, <1>4, <1>5, <1>6, <1>7, <1>8, <1>10, <1>11, <1>13, <1>14
  DEF HandlerStep

LEMMA OtherSettled ==
    ASSUME HandlersInv, NEW r \in Request,
           \/ \E b \in Browser, k \in Handlers : Send(r, b, k)
           \/ Deliver(r) \/ Lose(r) \/ UpstreamAnswers(r)
           \/ \E c \in Token : UpstreamCreates(r, c)
    PROVE  Settled(r)
<1>1. req \in [Request -> RequestType \cup {Free}]
  BY DEF HandlersInv, TypeOK
<1>2. CASE \E b \in Browser, k \in Handlers : Send(r, b, k)
  BY <1>1, <1>2 DEF Send, NewRequest, Settled
<1>3. CASE Deliver(r) \/ Lose(r)
  BY <1>1, <1>3 DEF Deliver, Lose, Free, Settled
<1>4. CASE UpstreamAnswers(r) \/ \E c \in Token : UpstreamCreates(r, c)
  <2>1. req[r] \in RequestType /\ req[r].pc = "upstream"
    BY <1>4, RequestCases DEF UpstreamAnswers, UpstreamCreates, At, Staged
  <2>2. req'[r].pc = "upstream"
    BY <1>1, <1>4, <2>1 DEF UpstreamAnswers, UpstreamCreates, RequestType
  <2>3. QED
    BY <2>2 DEF Settled
<1>5. QED
  BY <1>2, <1>3, <1>4

LEMMA RevokedSlot ==
    ASSUME HandlersInv, RepliesInv, NEW r \in Request, SlotStep(r),
           Revoked(req'[r])
    PROVE  req'[r].session \notin upstreamLive'
<1>1. req \in [Request -> RequestType \cup {Free}]
  BY DEF HandlersInv, TypeOK
<1>2. CASE req'[r].pc = "reply"
  <2>1. Settled(r)
    BY ArrivesSettled, HandlerSettled, OtherSettled DEF SlotStep
  <2>2. req'[r].outcome = "revoked"
    BY <1>2 DEF Revoked
  <2>3. /\ Revoked(req[r]) /\ UNCHANGED upstreamLive
        /\ req'[r].session = req[r].session
    BY <1>2, <2>1, <2>2 DEF Settled
  <2>4. QED
    BY <2>3 DEF RepliesInv
<1>3. CASE req'[r].pc # "reply"
  <2>1. req'[r].pc = "upstream" /\ req'[r].kind = "logout" /\ req'[r].answer = "ok"
    BY <1>3 DEF Revoked
  <2>2. UpstreamAnswers(r) \/ \E c \in Token : UpstreamCreates(r, c)
    BY <2>1, UnansweredStep DEF SlotStep, Unanswered
  <2>3. req[r] \in RequestType
    BY <2>2, RequestCases DEF UpstreamAnswers, UpstreamCreates, At, Staged
  <2>4. req'[r].kind = req[r].kind
    BY <1>1, <2>2, <2>3 DEF UpstreamAnswers, UpstreamCreates, RequestType
  <2>5. UpstreamAnswers(r)
    BY <2>1, <2>2, <2>4 DEF UpstreamCreates, At
  <2>6. PICK a \in {"ok", "invalid", "forbidden", "error"} :
            /\ req' = [req EXCEPT ![r].answer = a]
            /\ upstreamLive' = IF a = "ok" /\ req[r].kind = "logout"
                               THEN upstreamLive \ {req[r].session} ELSE upstreamLive
    BY <2>5 DEF UpstreamAnswers
  <2>7. req'[r].answer = a /\ req'[r].session = req[r].session
    BY <1>1, <2>3, <2>6 DEF RequestType
  <2>8. QED
    BY <2>1, <2>4, <2>6, <2>7
<1>4. QED
  BY <1>2, <1>3

LEMMA RepliesStep ==
    ASSUME HandlersInv, RepliesInv, Next
    PROVE  RepliesInv'
<1>1. /\ req \in [Request -> RequestType \cup {Free}]
      /\ DOMAIN object \subseteq minted
  BY DEF HandlersInv, TypeOK
<1>2. /\ \A r \in Request : EndsSession(req[r]) => req[r].session \notin sessions
      /\ \A r \in Request : Revoked(req[r]) => req[r].session \notin upstreamLive
  BY DEF RepliesInv
<1>3. \A r \in Request : EndsSession(req[r]) \/ Revoked(req[r])
                         => req[r].session \in DOMAIN object \cup {NoToken}
  BY RequestCases DEF EndsSession, Revoked, Known
<1>4. \A t \in DOMAIN object \cup {NoToken} : t \notin sessions => t \notin sessions'
  BY TablesStep
<1>5. \A t \in DOMAIN object \cup {NoToken} :
          t \notin upstreamLive => t \notin upstreamLive'
  <2>1. CASE upstreamLive' \subseteq upstreamLive
    BY <2>1
  <2>2. ASSUME NEW r \in Request, NEW c \in Token, UpstreamCreates(r, c)
        PROVE  \A t \in DOMAIN object \cup {NoToken} :
                   t \notin upstreamLive => t \notin upstreamLive'
    BY <1>1, <2>2, MarkersAssumption DEF UpstreamCreates
  <2>3. QED
    BY <2>1, <2>2, UpstreamStep
<1>6. ASSUME NEW s \in Request, req'[s] = req[s]
      PROVE  /\ EndsSession(req'[s]) => req'[s].session \notin sessions'
             /\ Revoked(req'[s]) => req'[s].session \notin upstreamLive'
  BY <1>2, <1>3, <1>4, <1>5, <1>6
<1>7. ASSUME NEW r \in Request, SlotStep(r), NEW s \in Request
      PROVE  /\ EndsSession(req'[s]) => req'[s].session \notin sessions'
             /\ Revoked(req'[s]) => req'[s].session \notin upstreamLive'
  <2>1. CASE s = r
    <3>1. Settled(r)
      BY <1>7, ArrivesSettled, HandlerSettled, OtherSettled DEF SlotStep
    <3>2. EndsSession(req'[r]) => req'[r].session \notin sessions'
      BY <3>1 DEF Settled, EndsSession
    <3>3. QED
      BY <1>7, <2>1, <3>2, RevokedSlot
  <2>2. CASE s # r
    <3>1. req'[s] = req[s]
      BY <1>1, <1>7, <2>2, SlotMoves DEF Moves
    <3>2. QED
      BY <1>6, <3>1
  <2>3. QED
    BY <2>1, <2>2
<1>8. CASE (\E c \in Token : UpstreamEnds(c)) \/ Clock
  <2>1. req' = req
    BY <1>8 DEF UpstreamEnds, Clock, ctlVars
  <2>2. QED
    BY <1>6, <2>1 DEF RepliesInv
<1>9. CASE Restart
  <2>1. req' = [r \in Request |-> IF req[r].pc \in {"upstream", "probe"}
                                  THEN Free ELSE req[r]]
    BY <1>9 DEF Restart
  <2>2. \A r \in Request : req'[r] = Free \/ req'[r] = req[r]
    BY <2>1
  <2>3. ~EndsSession(Free) /\ ~Revoked(Free)
    BY DEF EndsSession, Revoked, Free
  <2>4. QED
    BY <1>6, <2>2, <2>3 DEF RepliesInv
<1>10. QED
  BY <1>7, <1>8, <1>9, NextCases DEF RepliesInv

LEMMA RepliesHold == Spec => []RepliesInv
<1>1. Init => RepliesInv
  BY DEF Init, RepliesInv, EndsSession, Revoked, Free
<1>2. ControllerInv /\ RepliesInv /\ [Next]_vars => RepliesInv'
  <2>1. ASSUME ControllerInv, RepliesInv, Next PROVE RepliesInv'
    BY <2>1, RepliesStep DEF ControllerInv
  <2>2. ASSUME RepliesInv, UNCHANGED vars PROVE RepliesInv'
    BY <2>2 DEF RepliesInv, vars, storeVars, ctlVars, EndsSession, Revoked
  <2>3. QED
    BY <2>1, <2>2
<1>3. QED
  BY <1>1, <1>2, ControllerInit, ControllerStep, PTL DEF Spec

\* Once the reply that ends a session is on its way (a logout, whatever the
\* upstream said, or an answer that the session is invalid), no other request,
\* refresh or login under way has it back in the table.
THEOREM EndedStayGone == Spec => []EndedSessionsGone
<1>1. RepliesInv => EndedSessionsGone
  BY DEF RepliesInv, EndsSession, EndedSessionsGone
<1>2. QED
  BY <1>1, RepliesHold, PTL

\* "revoked" is only ever reported of a credential the upstream has ended: the
\* upstream never accepts it again, because it makes every credential anew.
THEOREM RevocationsConfirmed == Spec => []RevocationConfirmed
<1>1. RepliesInv => RevocationConfirmed
  BY DEF RepliesInv, Revoked, RevocationConfirmed
<1>2. QED
  BY <1>1, RepliesHold, PTL

-----------------------------------------------------------------------------
(* Action properties and the refinement.                                   *)


LEMMA PreloginKeptStep ==
    ASSUME HandlersInv, Next
    PROVE  PreloginKept
<1>1. CASE Housekeeping
  BY <1>1 DEF Housekeeping, PreloginKept
<1>2. CASE LoginSucceeds
  <2>1. PICK r \in Request, absolute \in MaybeTime, idle \in MaybeIdleTime :
            LoginCreated(r, absolute, idle)
    BY <1>2 DEF LoginSucceeds
  <2>2. At(r, "upstream", {"login"})
    BY <2>1 DEF LoginCreated
  <2>3. req[r] \in RequestType /\ req \in [Request -> RequestType \cup {Free}]
    BY <2>2, RequestCases DEF At, Staged, HandlersInv, TypeOK
  <2>4. req'[r].outcome = "authenticated"
    BY <2>1, <2>3 DEF LoginCreated, RequestType
  <2>5. prelogins' = SweptPrelogins \ {req[r].prelogin}
    BY <2>1, LoginStore
  <2>6. QED
    BY <2>2, <2>4, <2>5 DEF PreloginKept, SweptPrelogins
<1>3. CASE Refreshes
  BY <1>3, RefreshStore DEF PreloginKept
<1>4. CASE Restart
  <2>1. restarts' # restarts
    BY <1>4 DEF Restart, HandlersInv, TypeOK
  <2>2. QED
    BY <2>1 DEF PreloginKept
<1>5. QED
  BY <1>1, <1>2, <1>3, <1>4, StoreSteps DEF HandlersInv, TypeOK

\* A failed login leaves its pre-login for the next attempt; a valid one goes
\* only with a login that succeeded with it, or with the process.
THEOREM PreloginsKept == Spec => PreloginUsedByLogin
<1>1. ControllerInv /\ [Next]_vars => [PreloginKept]_vars
  BY PreloginKeptStep DEF ControllerInv
<1>2. QED
  BY <1>1, ControllerInit, ControllerStep, PTL DEF Spec, PreloginUsedByLogin

\* The handler of GET /bff/auth/session is the only one that says
\* "authenticated" of a session it looked up.
AnswersAuthenticated(r) ==
    /\ req[r].pc \in {"probe", "upstream"} /\ req[r].kind = "session"
    /\ req'[r].pc = "reply" /\ req'[r].outcome = "authenticated"

Checked(r) ==
    /\ now - object'[req[r].session].lastUpstreamSessionRefreshAt <= RefreshInterval
    /\ req[r].pc = "upstream" => req[r].session \in sessions'

LEMMA RecheckedFound ==
    ASSUME HandlersInv, NEW r \in Request, At(r, "upstream", {"session"}),
           NEW o \in WebSession, o.lastUpstreamSessionRefreshAt = now, NEW a,
           SessionRechecked(r, o, a), req'[r].outcome = "authenticated"
    PROVE  Checked(r)
<1>1. /\ req \in [Request -> RequestType \cup {Free}] /\ StoreTypeOK
      /\ RefreshInterval \in Nat
  BY HandlersAssumption DEF HandlersInv, TypeOK
<1>2. req[r] \in RequestType /\ req[r].session \in DOMAIN object
  BY RequestCases DEF At, Staged, Known, Calling
<1>3. req[r].session \in sessions /\ ~IsExpired(o)
  <2>1. req'[r].outcome = IF req[r].session \in sessions /\ ~IsExpired(o)
                          THEN "authenticated" ELSE "anonymous"
    BY <1>1, <1>2 DEF SessionRechecked, RequestType
  <2>2. QED
    BY <2>1
<1>4. /\ sessions' = sessions
      /\ object' = [object EXCEPT ![req[r].session] = [o EXCEPT !.lastSeenAt = now]]
  BY <1>3 DEF SessionRechecked
<1>5. object'[req[r].session].lastUpstreamSessionRefreshAt = now
  BY <1>1, <1>2, <1>4 DEF WebSession
<1>6. now - now <= RefreshInterval
  BY <1>1 DEF StoreTypeOK
<1>7. QED
  BY <1>3, <1>4, <1>5, <1>6 DEF Checked

LEMMA AuthenticatedSlot ==
    ASSUME HandlersInv, NEW r \in Request, SlotStep(r), AnswersAuthenticated(r)
    PROVE  Checked(r)
<1>1. /\ req \in [Request -> RequestType \cup {Free}] /\ StoreTypeOK
      /\ RefreshInterval \in Nat
  BY HandlersAssumption DEF HandlersInv, TypeOK
<1>2. /\ req[r].pc \in {"probe", "upstream"} /\ req[r].kind = "session"
      /\ req'[r].pc = "reply" /\ req'[r].outcome = "authenticated"
  BY DEF AnswersAuthenticated
<1>3. req[r] \in RequestType /\ Known(req[r], DOMAIN object)
  BY <1>2, RequestCases DEF Staged
<1>4. CASE SessionProbed(r)
  <2>1. /\ req[r].pc = "probe" /\ Await(r, "reply") /\ UNCHANGED storeVars
        /\ req[r].outcome = "authenticated" => ~Stale(req[r].session)
    BY <1>4 DEF SessionProbed, At
  <2>2. req[r].outcome = "authenticated"
    BY <1>2, <2>1, AwaitPc
  <2>3. req[r].session \in DOMAIN object
    BY <1>2, <1>3, <2>1, <2>2 DEF Known
  <2>4. object[req[r].session].lastUpstreamSessionRefreshAt \in Nat /\ now \in Nat
    BY <1>1, <2>3 DEF StoreTypeOK, WebSession
  <2>5. now - object[req[r].session].lastUpstreamSessionRefreshAt <= RefreshInterval
    BY <1>1, <2>1, <2>2, <2>4 DEF Stale
  <2>6. object' = object
    BY <2>1 DEF storeVars
  <2>7. QED
    BY <2>1, <2>5, <2>6 DEF Checked
<1>5. ASSUME At(r, "upstream", {"session"})
      PROVE  object[req[r].session] \in WebSession /\ now \in Nat
  BY <1>1, <1>3, <1>5 DEF At, Known, Calling, StoreTypeOK
<1>6. CASE SessionUnrefreshed(r)
  <2>1. At(r, "upstream", {"session"})
    BY <1>6 DEF SessionUnrefreshed
  <2> DEFINE o == [object[req[r].session] EXCEPT !.lastUpstreamSessionRefreshAt = now]
  <2>2. o \in WebSession /\ o.lastUpstreamSessionRefreshAt = now
    BY <1>5, <2>1 DEF WebSession
  <2>3. \E a : SessionRechecked(r, o, a)
    BY <1>6 DEF SessionUnrefreshed
  <2> HIDE DEF o
  <2>4. QED
    BY <1>2, <2>1, <2>2, <2>3, RecheckedFound
<1>7. ASSUME NEW absolute \in MaybeTime, NEW idle \in MaybeIdleTime,
             SessionRefreshed(r, absolute, idle)
      PROVE  Checked(r)
  <2>1. At(r, "upstream", {"session"})
    BY <1>7 DEF SessionRefreshed
  <2> DEFINE o == Refreshed(object[req[r].session], absolute, idle)
  <2>2. o \in WebSession
    BY <1>5, <2>1, RefreshedBound
  <2>3. o.lastUpstreamSessionRefreshAt = now
    BY <1>5, <2>1 DEF Refreshed, WebSession
  <2>4. SessionRechecked(r, o, "ok")
    BY <1>7 DEF SessionRefreshed
  <2> HIDE DEF o
  <2>5. QED
    BY <1>2, <2>1, <2>2, <2>3, <2>4, RecheckedFound
<1>8. ~Arrives(r)
  BY <1>2
  DEF Arrives, BootstrapRefused, BootstrapReuse, BootstrapCreate, BootstrapFull,
      LoginRefused, LoginInvalid, LoginAdmitted, SessionArrives, LogoutRefused,
      LogoutWithoutSession, LogoutWithoutCsrf, LogoutAdmitted, WithoutSession,
      ProxyRefused, Admitted, At
<1>9. ~\E b \in Browser, k \in Handlers : Send(r, b, k)
  BY <1>2 DEF Send
<1>10. ~(Deliver(r) \/ Lose(r))
  BY <1>2 DEF Deliver, Lose
<1>11. ~(UpstreamAnswers(r) \/ \E c \in Token : UpstreamCreates(r, c))
  <2>1. SUFFICES ASSUME UpstreamAnswers(r) \/ \E c \in Token : UpstreamCreates(r, c)
                 PROVE  FALSE
    OBVIOUS
  <2>2. req'[r].pc = req[r].pc
    BY <1>1, <1>3, <2>1 DEF UpstreamAnswers, UpstreamCreates, RequestType
  <2>3. QED
    BY <1>2, <2>2
<1>12. ~SessionNeedsRefresh(r)
  BY <1>2, AwaitPc DEF SessionNeedsRefresh
<1>13. ~SessionInvalidated(r)
  BY <1>2, ReplyPc DEF SessionInvalidated
<1>14. HandlerStep(r)
  BY <1>8, <1>9, <1>10, <1>11 DEF SlotStep
<1>15. \/ SessionProbed(r) \/ SessionUnrefreshed(r)
       \/ \E absolute \in MaybeTime, idle \in MaybeIdleTime :
             SessionRefreshed(r, absolute, idle)
  BY <1>2, <1>12, <1>13, <1>14
  DEF HandlerStep, BootstrapProbed, LoginProbed, DiagnosticsProbed, LoginFull,
      LoginFailed, LogoutDone, ProxyInvalidated, ProxyAnswered, ProxyFailed,
      LoginCreated, At
<1>16. QED
  BY <1>4, <1>6, <1>7, <1>15

LEMMA AuthenticatedStep ==
    ASSUME HandlersInv, Next
    PROVE  AuthenticatedChecked
<1> SUFFICES ASSUME NEW s \in Request, AnswersAuthenticated(s)
             PROVE  Checked(s)
  BY DEF AuthenticatedChecked, AnswersAuthenticated, Checked
<1>1. req'[s] # req[s] /\ req'[s].pc = "reply"
  BY DEF AnswersAuthenticated
<1>2. ASSUME NEW r \in Request, SlotStep(r)
      PROVE  Checked(s)
  <2>1. s = r
    BY <1>1, <1>2, SlotMoves DEF Moves, HandlersInv, TypeOK
  <2>2. QED
    BY <1>2, <2>1, AuthenticatedSlot
<1>3. ~((\E c \in Token : UpstreamEnds(c)) \/ Clock)
  BY <1>1 DEF UpstreamEnds, Clock, ctlVars
<1>4. ~Restart
  <2>1. SUFFICES ASSUME Restart PROVE FALSE
    OBVIOUS
  <2>2. req'[s] = Free \/ req'[s] = req[s]
    BY <2>1 DEF Restart
  <2>3. QED
    BY <1>1, <2>2 DEF Free
<1>5. QED
  BY <1>2, <1>3, <1>4, NextCases

\* "authenticated" is only answered with a summary at most one refresh interval
\* old or just asked for, and after a refresh only of a session still in the
\* table, although the handler has awaited the probe and the upstream between.
THEOREM AuthenticatedAreChecked == Spec => AuthenticatedRepliesChecked
<1>1. ControllerInv /\ [Next]_vars => [AuthenticatedChecked]_vars
  BY AuthenticatedStep DEF ControllerInv
<1>2. QED
  BY <1>1, ControllerInit, ControllerStep, PTL DEF Spec, AuthenticatedRepliesChecked

-----------------------------------------------------------------------------
(* The tables under concurrent handlers implement the abstract life cycle.  *)

LEMMA HandlersSessionTable ==
    HandlersInv /\ StoreTypeOK' /\ [Next]_vars
    => [SessionTable!LifecycleNext]_(SessionTable!lifecycleVars)
<1> SUFFICES ASSUME HandlersInv, StoreTypeOK', [Next]_vars
             PROVE  \/ SessionTable!LifecycleNext
                    \/ UNCHANGED <<DOMAIN object, sessions>>
  BY DEF SessionTable!lifecycleVars
<1>1. StoreTypeOK /\ CapacityBound
  BY DEF HandlersInv, TypeOK
<1>2. ASSUME sessions' \subseteq sessions, DOMAIN object' = DOMAIN object
      PROVE  SessionTable!LifecycleNext
  BY <1>2 DEF SessionTable!LifecycleNext, SessionTable!End
<1>3. CASE LoginSucceeds
  <2>1. PICK r \in Request, absolute \in MaybeTime, idle \in MaybeIdleTime :
            LoginCreated(r, absolute, idle)
    BY <1>3 DEF LoginSucceeds
  <2> DEFINE c == req[r].credential
  <2>2. /\ c \in Token \ DOMAIN object /\ DOMAIN object' = DOMAIN object \cup {c}
        /\ sessions' = SweptSessions \cup {c} /\ CapacityBound'
    BY <2>1, LoginStore
  <2>3. SweptSessions \subseteq sessions
    BY DEF SweptSessions
  <2>4. SessionTable!Issue(c)
    BY <2>2, <2>3 DEF SessionTable!Issue, SessionsFit, CapacityBound
  <2>5. QED
    BY <2>2, <2>4 DEF SessionTable!LifecycleNext
<1>4. CASE Housekeeping
  BY <1>2, <1>4 DEF Housekeeping
<1>5. CASE Refreshes
  BY <1>2, <1>5, RefreshStore
<1>6. CASE Restart
  BY <1>1, <1>2, <1>6, RestartStore
<1>7. CASE UNCHANGED vars
  BY <1>7 DEF vars, storeVars
<1>8. QED
  BY <1>1, <1>3, <1>4, <1>5, <1>6, <1>7, StoreSteps

LEMMA HandlersPreloginTable ==
    HandlersInv /\ StoreTypeOK' /\ [Next]_vars
    => [PreloginTable!LifecycleNext]_(PreloginTable!lifecycleVars)
<1> SUFFICES ASSUME HandlersInv, StoreTypeOK', [Next]_vars
             PROVE  [PreloginTable!LifecycleNext]_(PreloginTable!lifecycleVars)
  OBVIOUS
<1>1. StoreTypeOK
  BY DEF HandlersInv, TypeOK
<1>2. ASSUME prelogins' \subseteq prelogins, UNCHANGED preloginObject
      PROVE  PreloginTable!LifecycleNext
  BY <1>2 DEF PreloginTable!LifecycleNext, PreloginTable!End
<1>3. CASE LoginSucceeds
  <2>1. PICK r \in Request, absolute \in MaybeTime, idle \in MaybeIdleTime :
            LoginCreated(r, absolute, idle)
    BY <1>3 DEF LoginSucceeds
  <2>2. prelogins' \subseteq prelogins /\ UNCHANGED preloginObject
    BY <2>1 DEF LoginCreated, SweptPrelogins
  <2>3. QED
    BY <1>2, <2>2
<1>4. CASE Housekeeping
  BY <1>1, <1>4, PreloginLifecycleStep DEF Housekeeping
<1>5. CASE Refreshes
  BY <1>2, <1>5, RefreshStore
<1>6. CASE Restart
  BY <1>1, <1>2, <1>6, RestartStore
<1>7. CASE UNCHANGED vars
  BY <1>7 DEF vars, storeVars, PreloginTable!lifecycleVars
<1>8. QED
  BY <1>1, <1>3, <1>4, <1>5, <1>6, <1>7, StoreSteps

\* No cookie value is issued twice or comes back after its session ended, and
\* none is issued beyond the capacity, whatever handlers overlap, restarts
\* included.
THEOREM HandlersRefineLifecycle == Spec => TablesImplementLifecycle
<1>1. ControllerInv => HandlersInv /\ StoreTypeOK
  BY DEF ControllerInv, HandlersInv, TypeOK
<1>2. Spec => []ControllerInv
  BY ControllerInit, ControllerStep, PTL DEF Spec
<1>3. Init => StoreInit
  BY DEF Init
<1>4. Spec => SessionTable!LifecycleSpec
  BY <1>1, <1>2, <1>3, SessionLifecycleInit, HandlersSessionTable, PTL
  DEF Spec, SessionTable!LifecycleSpec
<1>5. Spec => PreloginTable!LifecycleSpec
  BY <1>1, <1>2, <1>3, PreloginLifecycleInit, HandlersPreloginTable, PTL
  DEF Spec, PreloginTable!LifecycleSpec
<1>6. QED
  BY <1>4, <1>5 DEF TablesImplementLifecycle

-----------------------------------------------------------------------------
(* How often one pre-login can be used.  A login reads it before the await *)
(* and drops it after, so several can use the same one; but each is inside *)
(* the login gate while it does.                                           *)

\* A login that may still succeed with p, and one that has.
Trying(q, p) == q.pc = "upstream" /\ q.kind = "login" /\ q.prelogin = p
LoggedIn(q, p) ==
    /\ q.pc \in {"probe", "reply"} /\ q.kind = "login" /\ q.prelogin = p
    /\ q.outcome = "authenticated"
Users(p) == {r \in Request : Trying(req[r], p) \/ LoggedIn(req[r], p)}

UsesInv ==
    \A p \in PreToken \cup {NoToken} :
        /\ Cardinality(Users(p)) <= LoginGate
        /\ Users(p) # {} => p \in DOMAIN preloginObject
        /\ (\E r \in Request : LoggedIn(req[r], p)) => p \notin prelogins

\* The logins that have succeeded with one pre-login, while they are under way.
PreloginUsesFit ==
    \A p \in PreToken \cup {NoToken} :
        Cardinality({r \in Request : LoggedIn(req[r], p)}) <= LoginGate

\* A handler never changes what its request is, nor the pre-login it carries.
LEMMA RequestKept ==
    ASSUME HandlersInv, NEW r \in Request,
           \/ Arrives(r) \/ HandlerStep(r) \/ UpstreamAnswers(r)
           \/ \E c \in Token : UpstreamCreates(r, c)
    PROVE  req'[r].kind = req[r].kind /\ req'[r].prelogin = req[r].prelogin
<1> DEFINE Kept == req'[r].kind = req[r].kind /\ req'[r].prelogin = req[r].prelogin
<1>1. req \in [Request -> RequestType \cup {Free}]
  BY DEF HandlersInv, TypeOK
<1>2. ASSUME req[r].pc # "free"
      PROVE  req[r] \in RequestType
  BY <1>2, RequestCases DEF Staged
<1>3. ASSUME NEW outcome, NEW session, NEW prelogin,
             Reply(r, outcome, session, prelogin), req[r].pc # "free"
      PROVE  Kept
  BY <1>1, <1>2, <1>3 DEF Reply, RequestType
<1>4. ASSUME NEW pc, Await(r, pc), req[r].pc # "free"
      PROVE  Kept
  BY <1>1, <1>2, <1>4 DEF Await, RequestType
<1>5. ASSUME NEW o, NEW a, SessionRechecked(r, o, a), req[r].pc # "free"
      PROVE  Kept
  BY <1>1, <1>2, <1>5 DEF SessionRechecked, RequestType
<1>6. CASE Arrives(r)
  <2>1. CASE \/ BootstrapRefused(r) \/ BootstrapFull(r) \/ LoginRefused(r)
             \/ LoginInvalid(r) \/ LogoutRefused(r) \/ LogoutWithoutCsrf(r)
             \/ ProxyRefused(r)
    BY <1>3, <2>1 DEF BootstrapRefused, BootstrapFull, LoginRefused, Reject,
                      LoginInvalid, LogoutRefused, LogoutWithoutCsrf, ProxyRefused, At
  <2>2. CASE LogoutWithoutSession(r) \/ WithoutSession(r)
    BY <1>3, <2>2 DEF LogoutWithoutSession, WithoutSession, At
  <2>3. CASE BootstrapReuse(r) \/ BootstrapCreate(r)
    BY <1>1, <1>2, <2>3 DEF BootstrapReuse, BootstrapCreate, At, RequestType
  <2>4. CASE SessionArrives(r)
    BY <1>1, <1>2, <2>4 DEF SessionArrives, At, RequestType
  <2>5. CASE LoginAdmitted(r) \/ LogoutAdmitted(r) \/ Admitted(r)
    BY <1>4, <2>5 DEF LoginAdmitted, LogoutAdmitted, Admitted, At
  <2> QED
    BY <1>6, <2>1, <2>2, <2>3, <2>4, <2>5 DEF Arrives
<1>7. CASE HandlerStep(r)
  <2>1. CASE \/ BootstrapProbed(r) \/ DiagnosticsProbed(r) \/ LoginFailed(r)
             \/ LoginFull(r) \/ SessionInvalidated(r) \/ LogoutDone(r)
             \/ ProxyInvalidated(r) \/ ProxyAnswered(r)
    BY <1>3, <2>1 DEF BootstrapProbed, DiagnosticsProbed, LoginFailed, LoginFull,
                      SessionInvalidated, LogoutDone, ProxyInvalidated,
                      ProxyAnswered, Reject, At
  <2>2. CASE LoginProbed(r) \/ SessionProbed(r) \/ SessionNeedsRefresh(r)
    BY <1>4, <2>2 DEF LoginProbed, SessionProbed, SessionNeedsRefresh, At
  <2>3. CASE SessionUnrefreshed(r)
    BY <1>5, <2>3 DEF SessionUnrefreshed, At
  <2>4. ASSUME NEW absolute, NEW idle, SessionRefreshed(r, absolute, idle)
        PROVE  Kept
    BY <1>5, <2>4 DEF SessionRefreshed, At
  <2>5. CASE ProxyFailed(r)
    BY <1>1, <1>2, <2>5 DEF ProxyFailed, At, RequestType
  <2>6. ASSUME NEW absolute, NEW idle, LoginCreated(r, absolute, idle)
        PROVE  Kept
    BY <1>1, <1>2, <2>6 DEF LoginCreated, At, RequestType
  <2> QED
    BY <1>7, <2>1, <2>2, <2>3, <2>4, <2>5, <2>6 DEF HandlerStep
<1>8. CASE UpstreamAnswers(r) \/ \E c \in Token : UpstreamCreates(r, c)
  BY <1>1, <1>2, <1>8 DEF UpstreamAnswers, UpstreamCreates, At, RequestType
<1> QED
  BY <1>6, <1>7, <1>8

\* A step that makes a login one that tries has just found its pre-login in the
\* table, and one that makes it succeed drops the pre-login.
LEMMA UsesSlot ==
    ASSUME HandlersInv, NEW r \in Request, SlotStep(r), NEW p
    PROVE  /\ Trying(req'[r], p) => Trying(req[r], p) \/ p \in prelogins \cap prelogins'
           /\ LoggedIn(req'[r], p) =>
                 LoggedIn(req[r], p) \/ (Trying(req[r], p) /\ p \notin prelogins')
<1> DEFINE Goal == /\ Trying(req'[r], p) => Trying(req[r], p) \/ p \in prelogins \cap prelogins'
                   /\ LoggedIn(req'[r], p) =>
                         LoggedIn(req[r], p) \/ (Trying(req[r], p) /\ p \notin prelogins')
<1>1. req \in [Request -> RequestType \cup {Free}]
  BY DEF HandlersInv, TypeOK
<1>2. CASE \E b \in Browser, k \in Handlers : Send(r, b, k)
  BY <1>1, <1>2 DEF Send, NewRequest, Trying, LoggedIn
<1>3. CASE Deliver(r) \/ Lose(r)
  BY <1>1, <1>3 DEF Deliver, Lose, Free, Trying, LoggedIn
<1>4. ASSUME req[r].kind # "login", req'[r].kind = req[r].kind
      PROVE  Goal
  BY <1>4 DEF Trying, LoggedIn
<1>5. ASSUME Reject(r), req[r].pc # "free"
      PROVE  Goal
  <2>1. req'[r].pc = "reply" /\ req'[r].outcome = "rejected"
    BY <1>5, ReplyPc DEF Reject
  <2> QED
    BY <2>1 DEF Trying, LoggedIn
<1>6. CASE Arrives(r)
  <2>1. req'[r].kind = req[r].kind /\ req'[r].prelogin = req[r].prelogin
    BY <1>6, RequestKept
  <2>2. CASE LoginRefused(r) \/ LoginInvalid(r)
    BY <1>5, <2>2 DEF LoginRefused, LoginInvalid, At
  <2>3. CASE LoginAdmitted(r)
    <3>1. /\ req[r].prelogin \in prelogins \cap prelogins'
          /\ req'[r].pc = "upstream"
      BY <2>3, AwaitPc DEF LoginAdmitted, GetPrelogin, At
    <3> QED
      BY <2>1, <3>1 DEF Trying, LoggedIn
  <2>4. CASE ~(LoginRefused(r) \/ LoginInvalid(r) \/ LoginAdmitted(r))
    <3>1. req[r].kind # "login"
      BY <1>6, <2>4
      DEF Arrives, BootstrapRefused, BootstrapReuse, BootstrapCreate, BootstrapFull,
          SessionArrives, LogoutRefused, LogoutWithoutSession, LogoutWithoutCsrf,
          LogoutAdmitted, WithoutSession, ProxyRefused, Admitted, At
    <3> QED
      BY <1>4, <2>1, <3>1
  <2> QED
    BY <2>2, <2>3, <2>4
<1>7. CASE HandlerStep(r)
  <2>1. req'[r].kind = req[r].kind /\ req'[r].prelogin = req[r].prelogin
    BY <1>7, RequestKept
  <2>2. CASE LoginFull(r) \/ LoginFailed(r)
    BY <1>5, <2>2 DEF LoginFull, LoginFailed, At
  <2>3. CASE LoginProbed(r)
    <3>1. /\ req'[r].pc = "reply" /\ req'[r].outcome = req[r].outcome
          /\ req[r].pc = "probe"
      BY <2>3, AwaitPc DEF LoginProbed, At
    <3> QED
      BY <2>1, <3>1 DEF Trying, LoggedIn
  <2>4. ASSUME NEW absolute \in MaybeTime, NEW idle \in MaybeIdleTime,
               LoginCreated(r, absolute, idle)
        PROVE  Goal
    <3>1. req[r].pc = "upstream" /\ req[r].kind = "login"
      BY <2>4 DEF LoginCreated, At
    <3>2. req[r] \in RequestType
      BY <3>1, RequestCases DEF Staged
    <3>3. req'[r].pc = "probe"
      BY <1>1, <2>4, <3>2 DEF LoginCreated, RequestType
    <3>4. req[r].prelogin \notin prelogins'
      BY <2>4 DEF LoginCreated
    <3> QED
      BY <2>1, <3>1, <3>3, <3>4 DEF Trying, LoggedIn
  <2>5. CASE ~(\/ LoginFull(r) \/ LoginFailed(r) \/ LoginProbed(r)
               \/ \E absolute \in MaybeTime, idle \in MaybeIdleTime :
                     LoginCreated(r, absolute, idle))
    <3>1. req[r].kind # "login"
      BY <1>7, <2>5
      DEF HandlerStep, BootstrapProbed, DiagnosticsProbed, SessionProbed,
          SessionNeedsRefresh, SessionInvalidated, SessionUnrefreshed,
          SessionRefreshed, LogoutDone, ProxyInvalidated, ProxyAnswered,
          ProxyFailed, At
    <3> QED
      BY <1>4, <2>1, <3>1
  <2> QED
    BY <2>2, <2>3, <2>4, <2>5
<1>8. CASE UpstreamAnswers(r) \/ \E c \in Token : UpstreamCreates(r, c)
  <2>1. req'[r].kind = req[r].kind /\ req'[r].prelogin = req[r].prelogin
    BY <1>8, RequestKept
  <2>2. req[r].pc = "upstream" /\ req[r] \in RequestType
    BY <1>8, RequestCases DEF UpstreamAnswers, UpstreamCreates, At, Staged
  <2>3. req'[r].pc = "upstream"
    BY <1>1, <1>8, <2>2 DEF UpstreamAnswers, UpstreamCreates, RequestType
  <2> QED
    BY <2>1, <2>2, <2>3 DEF Trying, LoggedIn
<1> QED
  BY <1>2, <1>3, <1>6, <1>7, <1>8 DEF SlotStep

\* A pre-login that was drawn once never comes back.
LEMMA PreloginsStep ==
    ASSUME HandlersInv, Next
    PROVE  /\ DOMAIN preloginObject \subseteq DOMAIN preloginObject'
           /\ \A p \in DOMAIN preloginObject : p \in prelogins' => p \in prelogins
<1>1. [PreloginTable!LifecycleNext]_(PreloginTable!lifecycleVars)
  BY TablesStep, HandlersPreloginTable
<1> QED
  BY <1>1
  DEF PreloginTable!LifecycleNext, PreloginTable!lifecycleVars, PreloginTable!End,
      PreloginTable!Issue

LEMMA UsersWithin ==
    ASSUME NEW S, NEW T, IsFiniteSet(T), S \subseteq T, NEW n \in Nat,
           Cardinality(T) <= n
    PROVE  Cardinality(S) <= n
<1>1. Cardinality(S) <= Cardinality(T) /\ IsFiniteSet(S)
  BY FS_Subset
<1>2. Cardinality(S) \in Nat /\ Cardinality(T) \in Nat
  BY <1>1, FS_CardinalityType
<1> QED
  BY <1>1, <1>2

LEMMA UsesStep ==
    ASSUME ControllerInv, GateBalanced', UsesInv, Next
    PROVE  UsesInv'
<1> SUFFICES ASSUME NEW p \in PreToken \cup {NoToken}
             PROVE  /\ Cardinality(Users(p)') <= LoginGate
                    /\ Users(p)' # {} => p \in DOMAIN preloginObject'
                    /\ (\E r \in Request : LoggedIn(req'[r], p)) => p \notin prelogins'
  BY DEF UsesInv, Users
<1>1. /\ HandlersInv /\ LoginGate \in Nat
      /\ req \in [Request -> RequestType \cup {Free}]
      /\ prelogins \subseteq DOMAIN preloginObject
  BY HandlersAssumption DEF ControllerInv, HandlersInv, TypeOK, StoreTypeOK
<1>2. /\ Cardinality(Users(p)) <= LoginGate
      /\ Users(p) # {} => p \in DOMAIN preloginObject
      /\ (\E r \in Request : LoggedIn(req[r], p)) => p \notin prelogins
  BY DEF UsesInv
<1>3. IsFiniteSet(Users(p)) /\ IsFiniteSet(Inside("login")')
  BY HandlersAssumption, FS_Subset DEF Users, Inside
<1>4. /\ Users(p) = {r \in Request : Trying(req[r], p) \/ LoggedIn(req[r], p)}
      /\ Users(p)' = {r \in Request : Trying(req'[r], p) \/ LoggedIn(req'[r], p)}
  BY DEF Users, Trying, LoggedIn
<1>5. \A r \in Request :
         /\ Trying(req'[r], p) => Trying(req[r], p) \/ p \in prelogins \cap prelogins'
         /\ LoggedIn(req'[r], p) =>
               LoggedIn(req[r], p) \/ (Trying(req[r], p) /\ p \notin prelogins')
  <2>1. ASSUME NEW r \in Request, req'[r] = req[r] \/ req'[r] = Free
        PROVE  /\ Trying(req'[r], p) => Trying(req[r], p)
               /\ LoggedIn(req'[r], p) => LoggedIn(req[r], p)
    BY <2>1 DEF Trying, LoggedIn, Free
  <2>2. CASE \E r \in Request : SlotStep(r)
    <3>1. PICK r \in Request : SlotStep(r)
      BY <2>2
    <3>2. \A s \in Request : s # r => req'[s] = req[s]
      BY <1>1, <3>1, SlotMoves DEF Moves
    <3> QED
      BY <1>1, <2>1, <3>1, <3>2, UsesSlot
  <2>3. CASE (\E c \in Token : UpstreamEnds(c)) \/ Clock
    <3>1. req' = req
      BY <2>3 DEF UpstreamEnds, Clock, ctlVars
    <3> QED
      BY <2>1, <3>1
  <2>4. CASE Restart
    <3>1. \A r \in Request : req'[r] = Free \/ req'[r] = req[r]
      BY <2>4 DEF Restart
    <3> QED
      BY <2>1, <3>1
  <2> QED
    BY <2>2, <2>3, <2>4, NextCases
<1>6. Users(p)' # {} => p \in DOMAIN preloginObject
  BY <1>1, <1>2, <1>4, <1>5
<1>7. (\E r \in Request : LoggedIn(req'[r], p)) => p \notin prelogins'
  BY <1>1, <1>2, <1>4, <1>5, <1>6, PreloginsStep
<1>8. Cardinality(Users(p)') <= LoginGate
  <2>1. CASE Users(p)' \subseteq Users(p)
    BY <1>1, <1>2, <1>3, <2>1, UsersWithin
  <2>2. CASE ~(Users(p)' \subseteq Users(p))
    <3>1. p \in prelogins \cap prelogins'
      BY <1>4, <1>5, <2>2
    <3>2. \A r \in Request : ~LoggedIn(req'[r], p)
      BY <1>7, <3>1
    <3>3. Users(p)' \subseteq Inside("login")'
      BY <1>4, <3>2 DEF Inside, Trying
    <3>4. Cardinality(Inside("login")') <= LoginGate
      BY DEF GateBalanced
    <3> QED
      BY <1>1, <1>3, <3>3, <3>4, UsersWithin
  <2> QED
    BY <2>1, <2>2
<1> QED
  BY <1>1, <1>6, <1>7, <1>8, PreloginsStep

\* Of the logins under way at any moment, no more have succeeded with one
\* pre-login than the login gate admits at a time: not the single one that the
\* documentation promises, but never more, however many tabs try.  Whoever finds
\* the pre-login in the table is inside the gate together with the first that
\* succeeds, and later ones find it gone.
THEOREM PreloginUsesBounded == Spec => []PreloginUsesFit
<1>1. Init => UsesInv
  <2>1. ASSUME Init, NEW p \in PreToken \cup {NoToken}
        PROVE  Users(p) = {} /\ \A r \in Request : ~LoggedIn(req[r], p)
    BY <2>1 DEF Init, Users, Trying, LoggedIn, Free
  <2>2. Cardinality({}) = 0 /\ LoginGate \in Nat
    BY FS_EmptySet, HandlersAssumption
  <2> QED
    BY <2>1, <2>2 DEF UsesInv
<1>2. ControllerInv /\ GateBalanced' /\ UsesInv /\ [Next]_vars => UsesInv'
  <2>1. ASSUME UsesInv, UNCHANGED vars
        PROVE  UsesInv'
    BY <2>1 DEF UsesInv, Users, Trying, LoggedIn, vars, storeVars, ctlVars
  <2> QED
    BY <2>1, UsesStep
<1>3. UsesInv => PreloginUsesFit
  <2> SUFFICES ASSUME UsesInv, NEW p \in PreToken \cup {NoToken}
               PROVE  Cardinality({r \in Request : LoggedIn(req[r], p)}) <= LoginGate
    BY DEF PreloginUsesFit
  <2>1. /\ IsFiniteSet(Users(p)) /\ LoginGate \in Nat
        /\ {r \in Request : LoggedIn(req[r], p)} \subseteq Users(p)
    BY HandlersAssumption, FS_Subset DEF Users
  <2> QED
    BY <2>1, UsersWithin DEF UsesInv
<1> QED
  BY <1>1, <1>2, <1>3, ControllerInit, ControllerStep, GatesBalance, PTL DEF Spec

\* So where the login gate admits one at a time (WEBUI_MAX_CONCURRENT_LOGIN=1)
\* the documentation is right: no two logins under way have succeeded with the
\* same pre-login.
THEOREM OneAtATimeLogsInOnce ==
    ASSUME LoginGate = 1
    PROVE  Spec => []PreloginLogsInOnce
<1>1. TypeOK /\ PreloginUsesFit => PreloginLogsInOnce
  <2> SUFFICES ASSUME TypeOK, PreloginUsesFit, NEW r \in Request, NEW s \in Request, r # s,
                      At(r, "probe", {"login"}) \/ At(r, "reply", {"login"}),
                      At(s, "probe", {"login"}) \/ At(s, "reply", {"login"}),
                      req[r].outcome = "authenticated", req[s].outcome = "authenticated",
                      req[r].prelogin = req[s].prelogin
               PROVE  FALSE
    BY DEF PreloginLogsInOnce
  <2> DEFINE p    == req[r].prelogin
             both == {q \in Request : LoggedIn(req[q], p)}
  <2>1. req[r] \in RequestType
    BY DEF TypeOK, At, Free
  <2>2. p \in PreToken \cup {NoToken}
    BY <2>1 DEF RequestType
  <2>3. {r, s} \subseteq both
    BY DEF LoggedIn, At
  <2>4. IsFiniteSet(both) /\ Cardinality(both) <= 1
    BY <2>2, HandlersAssumption, FS_Subset DEF PreloginUsesFit
  <2>5. Cardinality({r, s}) = 2
    <3>1. IsFiniteSet({r}) /\ Cardinality({r}) = 1
      BY FS_Singleton
    <3>2. {r, s} = {r} \cup {s} /\ s \notin {r}
      OBVIOUS
    <3> QED
      BY <3>1, <3>2, CountAdded
  <2>6. Cardinality({r, s}) <= 1
    BY <2>3, <2>4, UsersWithin
  <2> QED
    BY <2>5, <2>6
<1> QED
  BY <1>1, ControllerTyping, PreloginUsesBounded, PTL
=============================================================================
