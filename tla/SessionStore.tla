---------------------------- MODULE SessionStore ----------------------------
(***************************************************************************)
(* The in-memory session store of the BFF (auth/session-store.ts): two     *)
(* bounded tables keyed by random tokens, one of logged-in sessions, one   *)
(* of pre-login sessions.  Each operation of the class is one action; it   *)
(* is synchronous JavaScript, so it is atomic.                             *)
(*                                                                         *)
(* A handler may keep a WebSession it obtained while the table drops it,   *)
(* and may still mutate it.  The objects therefore live in a heap,         *)
(* `object`, and the table `sessions` only says which of them the store    *)
(* still finds.  Time is counted in ticks; the code counts milliseconds.   *)
(***************************************************************************)
EXTENDS FiniteSets, Integers

CONSTANTS Token,          \* values randomToken may return for a session
          PreToken,       \* values randomToken may return for a pre-login
          SessionIdle,    \* config.sessionIdleSeconds
          SessionMax,     \* config.sessionMaxSeconds
          BootstrapTtl,   \* config.bootstrapTtlSeconds
          MaxSessions,    \* config.maxSessions
          MaxPrelogins,   \* config.maxPreloginSessions
          NoTime,         \* parseTime's null
          UpstreamTime,   \* the expiresAt upstream summaries may name
          UpstreamIdleTime, \* the idleExpiresAt they may name
          MaxTime         \* bound of the model: the clock stops here

ASSUME TokensAssumption == IsFiniteSet(Token) /\ IsFiniteSet(PreToken)
ASSUME LimitsAssumption ==
    /\ SessionIdle \in Nat \ {0} /\ SessionMax \in Nat \ {0}
    /\ BootstrapTtl \in Nat \ {0}
    /\ MaxSessions \in Nat \ {0} /\ MaxPrelogins \in Nat \ {0}
    /\ MaxTime \in Nat
ASSUME UpstreamTimeAssumption ==
    NoTime \notin Int /\ UpstreamTime \subseteq Nat /\ UpstreamIdleTime \subseteq Nat

VARIABLES now,            \* Date.now()
          sessions,       \* keys of the Map of WebSessions
          object,         \* every WebSession created so far, by its token
          prelogins,      \* keys of the Map of PreloginSessions
          preloginObject  \* every PreloginSession created so far, by token

storeVars == <<now, sessions, object, prelogins, preloginObject>>

-----------------------------------------------------------------------------
(* The values.                                                             *)

MaybeTime == UpstreamTime \cup {NoTime}
MaybeIdleTime == UpstreamIdleTime \cup {NoTime}

WebSession ==
    [createdAt : Nat, lastSeenAt : Nat, absoluteExpiresAt : Nat,
     upstreamAbsoluteExpiresAt : MaybeTime, upstreamIdleExpiresAt : MaybeIdleTime,
     lastUpstreamSessionRefreshAt : Nat]

PreloginSession == [createdAt : Nat, expiresAt : Nat]

\* The heap h with a new object o under the key k.
Allocate(h, k, o) == [t \in DOMAIN h \cup {k} |-> IF t = k THEN o ELSE h[t]]

Earlier(a, b) == IF a <= b THEN a ELSE b

\* An instant the code tests for truthiness: null and the epoch count as absent.
Truthy(time) == time # NoTime /\ time # 0

\* Slip: the absolute deadline itself still counts as valid.
IsExpiredLate(s) ==
    \/ s.absoluteExpiresAt < now
    \/ now - s.lastSeenAt > SessionIdle
    \/ /\ s.upstreamAbsoluteExpiresAt # NoTime
       /\ s.upstreamAbsoluteExpiresAt <= now

IsExpired(s) ==
    \/ s.absoluteExpiresAt <= now
    \/ now - s.lastSeenAt > SessionIdle
    \/ /\ s.upstreamAbsoluteExpiresAt # NoTime
       /\ s.upstreamAbsoluteExpiresAt <= now

PreloginExpired(p) == p.expiresAt <= now

\* Slip: the sweep looks at the absolute deadline and forgets the idle one.
SweptByDeadline == {t \in sessions : object[t].absoluteExpiresAt > now}

\* What a sweep leaves of each table.
SweptSessions == {t \in sessions : ~IsExpired(object[t])}
SweptPrelogins == {p \in prelogins : ~PreloginExpired(preloginObject[p])}

\* The object createSession builds from the summary's two deadlines.
NewSession(absolute, idle) ==
    LET local == now + SessionMax
    IN [createdAt |-> now, lastSeenAt |-> now,
        absoluteExpiresAt |->
            IF Truthy(absolute) THEN Earlier(local, absolute) ELSE local,
        upstreamAbsoluteExpiresAt |-> absolute,
        upstreamIdleExpiresAt |-> idle,
        lastUpstreamSessionRefreshAt |-> now]

\* Slip (the one fixes.test.ts guards against): the maximum is counted from now.
RefreshedFromNow(s, absolute, idle) ==
    [s EXCEPT !.lastUpstreamSessionRefreshAt = now,
              !.absoluteExpiresAt =
                  IF absolute = NoTime THEN @ ELSE Earlier(now + SessionMax, absolute)]

\* Slip: a summary without deadline erases the one known.
RefreshedByNull(s, absolute, idle) == [s EXCEPT !.absoluteExpiresAt = absolute]

\* Slip: reading the upstream summary counts as activity of the browser.
RefreshedAsSeen(s, absolute, idle) ==
    [s EXCEPT !.lastSeenAt = now, !.upstreamIdleExpiresAt = idle]

\* The object s after the summary of a GET /auth/session was applied to it.
Refreshed(s, absolute, idle) ==
    [s EXCEPT !.lastUpstreamSessionRefreshAt = now,
              !.upstreamAbsoluteExpiresAt = IF absolute = NoTime THEN @ ELSE absolute,
              !.absoluteExpiresAt =
                  IF absolute = NoTime THEN @
                  ELSE Earlier(s.createdAt + SessionMax, absolute),
              !.upstreamIdleExpiresAt = idle]

NewPrelogin == [createdAt |-> now, expiresAt |-> now + BootstrapTtl]

-----------------------------------------------------------------------------
(* The operations.                                                         *)

StoreInit ==
    /\ now = 1
    /\ sessions = {} /\ object = << >>
    /\ prelogins = {} /\ preloginObject = << >>

\* getOrCreatePrelogin finds the cookie's pre-login valid: it sweeps and reuses it.
ReusePrelogin(p) ==
    /\ p \in SweptPrelogins
    /\ sessions' = SweptSessions
    /\ prelogins' = SweptPrelogins
    /\ UNCHANGED <<now, object, preloginObject>>

\* Slip: an ended pre-login is opened again under the token the cookie shows.
CreatePreloginKeepingToken(p) ==
    /\ Cardinality(SweptPrelogins) < MaxPrelogins
    /\ p \in PreToken \ SweptPrelogins
    /\ sessions' = SweptSessions
    /\ prelogins' = SweptPrelogins \cup {p}
    /\ preloginObject' = Allocate(preloginObject, p, NewPrelogin)
    /\ UNCHANGED <<now, object>>

\* getOrCreatePrelogin with a token that no longer names a valid pre-login.
CreatePrelogin(p) ==
    /\ Cardinality(SweptPrelogins) < MaxPrelogins
    /\ p \in PreToken \ DOMAIN preloginObject
    /\ sessions' = SweptSessions
    /\ prelogins' = SweptPrelogins \cup {p}
    /\ preloginObject' = Allocate(preloginObject, p, NewPrelogin)
    /\ UNCHANGED <<now, object>>

\* getPrelogin: an expired entry is deleted, a valid one is only read.
GetPrelogin(p) ==
    /\ p \in prelogins
    /\ prelogins' = IF PreloginExpired(preloginObject[p]) THEN prelogins \ {p}
                                                          ELSE prelogins
    /\ UNCHANGED <<now, sessions, object, preloginObject>>

DropPrelogin(p) ==
    /\ prelogins' = prelogins \ {p}
    /\ UNCHANGED <<now, sessions, object, preloginObject>>

\* Slip: the limit is off by one.
CreateSessionOverLimit(t, absolute, idle) ==
    /\ Cardinality(SweptSessions) <= MaxSessions
    /\ t \in Token \ DOMAIN object
    /\ sessions' = SweptSessions \cup {t}
    /\ object' = Allocate(object, t, NewSession(absolute, idle))
    /\ prelogins' = SweptPrelogins
    /\ UNCHANGED <<now, preloginObject>>

\* Slip: a full table makes room for the new session.
CreateSessionEvicting(t, absolute, idle) ==
    /\ t \in Token \ DOMAIN object
    /\ sessions' = IF Cardinality(SweptSessions) < MaxSessions
                   THEN SweptSessions \cup {t} ELSE {t}
    /\ object' = Allocate(object, t, NewSession(absolute, idle))
    /\ prelogins' = SweptPrelogins
    /\ UNCHANGED <<now, preloginObject>>

CreateSession(t, absolute, idle) ==
    /\ Cardinality(SweptSessions) < MaxSessions
    /\ t \in Token \ DOMAIN object
    /\ sessions' = SweptSessions \cup {t}
    /\ object' = Allocate(object, t, NewSession(absolute, idle))
    /\ prelogins' = SweptPrelogins
    /\ UNCHANGED <<now, preloginObject>>

\* sweep; also what the two creating operations leave when the table is still
\* full after it and they throw WEBUI_CAPACITY_EXCEEDED.
Sweep ==
    /\ sessions' = SweptSessions
    /\ prelogins' = SweptPrelogins
    /\ UNCHANGED <<now, object, preloginObject>>

\* getSession of a session still in the table.
GetSession(t) ==
    /\ t \in sessions
    /\ IF IsExpired(object[t])
       THEN /\ sessions' = sessions \ {t}
            /\ UNCHANGED object
       ELSE /\ object' = [object EXCEPT ![t].lastSeenAt = now]
            /\ UNCHANGED sessions
    /\ UNCHANGED <<now, prelogins, preloginObject>>

\* The caller holds the object, which the table may have dropped meanwhile.
ApplyUpstreamSessionSummary(t, absolute, idle) ==
    /\ t \in DOMAIN object
    /\ object' = [object EXCEPT ![t] = Refreshed(@, absolute, idle)]
    /\ UNCHANGED <<now, sessions, prelogins, preloginObject>>

DestroySession(t) ==
    /\ t \in sessions
    /\ sessions' = sessions \ {t}
    /\ UNCHANGED <<now, object, prelogins, preloginObject>>

Tick ==
    /\ now < MaxTime
    /\ now' = now + 1
    /\ UNCHANGED <<sessions, object, prelogins, preloginObject>>

StoreNext ==
    \/ \E p \in PreToken : \/ ReusePrelogin(p) \/ CreatePrelogin(p)
                           \/ GetPrelogin(p) \/ DropPrelogin(p)
    \/ \E t \in Token : GetSession(t) \/ DestroySession(t)
    \/ \E t \in Token, absolute \in MaybeTime, idle \in MaybeIdleTime :
          \/ CreateSession(t, absolute, idle)
          \/ ApplyUpstreamSessionSummary(t, absolute, idle)
    \/ Sweep
    \/ Tick

\* index.ts sweeps on a timer for as long as the process lives.
StoreSpec == StoreInit /\ [][StoreNext]_storeVars /\ WF_storeVars(Sweep)

-----------------------------------------------------------------------------
(* Properties.                                                             *)

\* Every variable keeps its type, and a table only lists objects that exist.
StoreTypeOK ==
    /\ now \in Nat
    /\ DOMAIN object \subseteq Token
    /\ object \in [DOMAIN object -> WebSession]
    /\ sessions \subseteq DOMAIN object
    /\ DOMAIN preloginObject \subseteq PreToken
    /\ preloginObject \in [DOMAIN preloginObject -> PreloginSession]
    /\ prelogins \subseteq DOMAIN preloginObject

\* "Capacity is bounded": neither Map outgrows its configured limit, though
\* expired entries stay in it until an operation sweeps.
CapacityBound ==
    /\ Cardinality(sessions) <= MaxSessions
    /\ Cardinality(prelogins) <= MaxPrelogins

\* A session's absolute deadline never lies beyond its creation plus the
\* configured maximum, nor beyond the upstream deadline last learnt, however
\* many summaries were applied (applyUpstreamSessionSummary anchors at
\* createdAt, not at now); a pre-login is never extended by its reuse.
DeadlineAnchored ==
    /\ \A t \in DOMAIN object :
          /\ object[t].absoluteExpiresAt <= object[t].createdAt + SessionMax
          /\ Truthy(object[t].upstreamAbsoluteExpiresAt) =>
                object[t].absoluteExpiresAt <= object[t].upstreamAbsoluteExpiresAt
    /\ \A p \in DOMAIN preloginObject :
          preloginObject[p].expiresAt = preloginObject[p].createdAt + BootstrapTtl

\* getSession never accepted a session at or after its creation plus the
\* configured maximum, whatever upstream summaries said in between.
UsedWithinLifetime ==
    \A t \in DOMAIN object :
        /\ object[t].createdAt <= object[t].lastSeenAt
        /\ object[t].lastSeenAt <= now
        /\ object[t].lastSeenAt < object[t].createdAt + SessionMax

\* A session that has been idle for longer than the limit, or that the table
\* has dropped, is never accepted again: no refresh, sweep or lookup sets its
\* lastSeenAt.
LastSeenKept ==
    \A t \in DOMAIN object :
        \/ t \notin sessions
        \/ now - object[t].lastSeenAt > SessionIdle
        => object'[t].lastSeenAt = object[t].lastSeenAt
ExpiredNeverAccepted == [][LastSeenKept]_storeVars

\* "Never evict a valid session": an entry leaves a table only once it has
\* expired, or because its own session was destroyed or its pre-login dropped.
ValidKept ==
    /\ \A t \in sessions \ sessions' :
          IsExpired(object[t]) \/ DestroySession(t)
    /\ \A p \in prelogins \ prelogins' :
          PreloginExpired(preloginObject[p]) \/ DropPrelogin(p)
NoEviction == [][ValidKept]_storeVars

\* What stays expired is eventually swept out, even if nobody presents its
\* cookie again; a late summary may still revive one that only the upstream
\* deadline had expired.
ExpiredRemoved ==
    /\ \A t \in Token :
          []<>(t \notin sessions \/ ~IsExpired(object[t]))
    /\ \A p \in PreToken :
          []<>(p \notin prelogins \/ ~PreloginExpired(preloginObject[p]))

\* Each table implements the abstract life cycle of tokens: no token is issued
\* twice, none comes back after it ended, and the number of active ones never
\* exceeds the capacity when a new one is issued.
SessionsFit(S) == Cardinality(S) <= MaxSessions
PreloginsFit(S) == Cardinality(S) <= MaxPrelogins
SessionTable == INSTANCE SessionLifecycle
    WITH Fits <- SessionsFit, issued <- DOMAIN object, active <- sessions
PreloginTable == INSTANCE SessionLifecycle
    WITH Token <- PreToken, Fits <- PreloginsFit,
         issued <- DOMAIN preloginObject, active <- prelogins
TablesImplementLifecycle ==
    SessionTable!LifecycleSpec /\ PreloginTable!LifecycleSpec

-----------------------------------------------------------------------------
(* A claim of the documentation that the code does not meet.               *)

\* The design document and getSession's comment: a session is checked before
\* each request against the upstream validity that is known.  That validity has
\* two deadlines, and isExpired reads only one of them.
AcceptedWithinUpstreamIdle ==
    [][\A t \in sessions :
          (/\ object[t].upstreamIdleExpiresAt # NoTime
           /\ object[t].upstreamIdleExpiresAt <= now)
          => object'[t].lastSeenAt = object[t].lastSeenAt]_storeVars
=============================================================================
