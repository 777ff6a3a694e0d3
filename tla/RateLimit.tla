------------------------------ MODULE RateLimit ------------------------------
(***************************************************************************)
(* FixedWindowRateLimiter (security/rate-limit.ts): a bounded table of     *)
(* counters, one per key, each reset as a whole when its window is over.   *)
(* When the table is full the oldest windows go, except those of pinned    *)
(* keys.  check() is synchronous, hence one action; the verdict it returns *)
(* is recorded in the history `granted`, which the code does not keep.     *)
(***************************************************************************)
EXTENDS FiniteSets, Integers, Sequences

CONSTANTS Key,      \* client sources, and the constant key of a global limiter
          Pinned,   \* options.pinnedKeys
          Limit,    \* options.limit
          Window,   \* options.windowMs, in ticks
          MaxKeys,  \* options.maxKeys
          Second,   \* how many ticks make one second
          MaxTime   \* bound of the model: the clock stops here

ASSUME RateLimitAssumption ==
    /\ IsFiniteSet(Key) /\ Pinned \subseteq Key
    /\ Limit \in Nat \ {0} /\ Window \in Nat \ {0} /\ Second \in Nat \ {0}
    /\ MaxKeys \in Nat /\ Cardinality(Pinned) < MaxKeys
    /\ MaxTime \in Nat

VARIABLES now,      \* Date.now()
          windows,  \* the Map from a key to its WindowState
          granted   \* history: the instants at which each pinned key was allowed

limitVars == <<now, windows, granted>>

WindowState == [count : Nat, windowStartedAt : Nat]

-----------------------------------------------------------------------------
Open(k) == now - windows[k].windowStartedAt < Window

\* What sweep keeps first: the windows that are not over.
OpenKeys == {k \in DOMAIN windows : Open(k)}

\* Slip: pinned keys take part in the eviction.
RemovableAll == OpenKeys

Removable == OpenKeys \ Pinned

\* Slip: no room is made for the key about to be added.
RemoveCountShort == Cardinality(Removable) - MaxKeys + Cardinality(Pinned)

RemoveCount == Cardinality(Removable) - MaxKeys + Cardinality(Pinned) + 1

\* The keys a full table may give up: the RemoveCount oldest removable ones.
\* Among windows of the same instant the code takes Map order, here any.
Evictions ==
    IF Cardinality(OpenKeys) < MaxKeys \/ RemoveCount <= 0 THEN {{}}
    ELSE {E \in SUBSET Removable :
             /\ \/ Cardinality(E) = RemoveCount
                \/ RemoveCount > Cardinality(Removable) /\ E = Removable
             /\ \A e \in E, k \in Removable \ E :
                   windows[e].windowStartedAt <= windows[k].windowStartedAt}

CeilDiv(a, b) == (a + b - 1) \div b

\* Slip: the seconds are rounded down.
RetryAfterFloor(k) ==
    LET whole == (windows[k].windowStartedAt + Window - now) \div Second
    IN IF whole < 1 THEN 1 ELSE whole

\* The Retry-After of a refusal, in seconds.
RetryAfter(k) ==
    LET whole == CeilDiv(windows[k].windowStartedAt + Window - now, Second)
    IN IF whole < 1 THEN 1 ELSE whole

Granted(k) == [granted EXCEPT ![k] = Append(@, now)]

-----------------------------------------------------------------------------
LimitInit ==
    /\ now = 0
    /\ windows = << >>
    /\ granted = [k \in Pinned |-> << >>]

\* Slip: the limit itself is still let through.
CheckOffByOne(k) ==
    \E evicted \in Evictions :
        LET kept == OpenKeys \ evicted
            refused == k \in kept /\ windows[k].count > Limit
            count == IF k \in kept THEN windows[k].count + 1 ELSE 1
        IN /\ ~refused
           /\ windows' = [j \in kept \cup {k} |->
                            IF j # k THEN windows[j]
                            ELSE IF k \in kept THEN [windows[k] EXCEPT !.count = count]
                            ELSE [count |-> count, windowStartedAt |-> now]]
           /\ granted' = IF k \in Pinned THEN Granted(k) ELSE granted
           /\ UNCHANGED now

\* Slip: refused attempts are counted as well.
CheckCountingRefusals(k) ==
    \E evicted \in Evictions :
        LET kept == OpenKeys \ evicted
        IN /\ windows' = [j \in kept \cup {k} |->
                            IF j # k THEN windows[j]
                            ELSE IF k \in kept THEN [windows[k] EXCEPT !.count = @ + 1]
                            ELSE [count |-> 1, windowStartedAt |-> now]]
           /\ UNCHANGED <<now, granted>>

\* check(k): sweep, then open a window, count in the open one, or refuse.
Check(k) ==
    \E evicted \in Evictions :
        LET kept == OpenKeys \ evicted
            fits == k \in kept /\ windows[k].count < Limit
            refused == k \in kept /\ windows[k].count >= Limit
            state == IF k \notin kept THEN [count |-> 1, windowStartedAt |-> now]
                     ELSE IF fits THEN [windows[k] EXCEPT !.count = @ + 1]
                     ELSE windows[k]
        IN /\ windows' = [j \in kept \cup {k} |-> IF j = k THEN state ELSE windows[j]]
           /\ granted' = IF k \in Pinned /\ ~refused THEN Granted(k) ELSE granted
           /\ UNCHANGED now

\* reset(), which only tests call.
Reset ==
    /\ windows' = << >>
    /\ granted' = [k \in Pinned |-> << >>]
    /\ UNCHANGED now

LimitTick ==
    /\ now < MaxTime
    /\ now' = now + 1
    /\ UNCHANGED <<windows, granted>>

LimitNext == (\E k \in Key : Check(k)) \/ Reset \/ LimitTick

LimitSpec == LimitInit /\ [][LimitNext]_limitVars

-----------------------------------------------------------------------------
(* Properties.                                                             *)

\* Types; a counter never runs past the limit and no window starts in the
\* future.
LimitTypeOK ==
    /\ now \in 0..MaxTime
    /\ DOMAIN windows \subseteq Key
    /\ windows \in [DOMAIN windows -> WindowState]
    /\ \A k \in DOMAIN windows :
          /\ windows[k].count \in 1..Limit
          /\ windows[k].windowStartedAt <= now
    /\ granted \in [Pinned -> Seq(0..MaxTime)]

\* "The container is bounded": no series of rotating sources makes the table
\* larger than maxKeys, pinned keys included.
TableBounded == Cardinality(DOMAIN windows) <= MaxKeys

\* "Pinned keys are never evicted": a pinned counter is forgotten only when its
\* window is over, however many other keys fill the table.
PinnedStays ==
    \A k \in Pinned \cap DOMAIN windows :
        Open(k) => \/ k \in DOMAIN windows' /\ windows'[k].count >= windows[k].count
                   \/ windows' = << >>
PinnedNeverEvicted == [][PinnedStays]_limitVars

\* How often k was allowed in the stretch of one window's length that ends at t.
AllowedUpTo(k, t) ==
    Cardinality({i \in DOMAIN granted[k] :
                    t - Window < granted[k][i] /\ granted[k][i] <= t})

\* "A fixed window lets at most twice the limit through at its boundary": for a
\* pinned key, in any stretch as long as one window.
BoundaryBound ==
    \A k \in Pinned, t \in 0..MaxTime : AllowedUpTo(k, t) <= 2 * Limit

\* A client that waits for the Retry-After it was told finds the window over,
\* and is not made to wait a whole second longer than that.
RetryAfterHonest ==
    \A k \in DOMAIN windows :
        Open(k) =>
            LET left == windows[k].windowStartedAt + Window - now
            IN left <= RetryAfter(k) * Second /\ RetryAfter(k) * Second < left + Second
=============================================================================
