# Formal model of Parrot-WebUI

Parrot-WebUI is a browser console for a Parrot gateway. A Fastify backend for
the frontend, the BFF (`apps/bff`), keeps the browser sessions and forwards an
allow-listed part of Parrot's management API; a React application (`apps/web`)
runs in the browser. This directory holds TLA+ models of the parts of both whose
correctness depends on the order of events, the TLC instances that check them,
and TLAPS proofs. Paths below are relative to the repository.

Contents: [Inventory](#inventory) · [Modules](#modules) · [Runs](#runs) ·
[Fairness](#fairness) · [Proofs](#proofs) · [What the models show of the
code](#what-the-models-show-of-the-code) · [Not modelled](#not-modelled) ·
[Plan](#plan)

## Inventory

| component | code | state | operations |
|---|---|---|---|
| session store | `apps/bff/src/auth/session-store.ts` | two bounded Maps: sessions, pre-logins | create, look up, refresh from an upstream summary, destroy, sweep |
| authentication handlers | `auth/controller.ts`, `auth/cookies.ts` | none of their own; cookies in the browser, credentials in the store | bootstrap, login, session, logout, diagnostics |
| management proxy | `routes/management-proxy.ts` | none | one forwarded call, which may find the session invalid |
| limits | `security/rate-limit.ts` | a bounded Map of windows per limiter; a counter per gate | check, reset; tryEnter, leave |
| upstream client | `upstream/client.ts` | probe cache | call with a timeout, probeManagement |
| request checks | `security/request-guard.ts`, `security/ip.ts`, `security/route-allowlist.ts` | none (pure) | host, origin, CSRF, content type; client address; route match and query filter |
| process | `index.ts`, `context.ts`, `server.ts`, `routes/health.ts` | sweep timer | start, sweep, shutdown |
| configuration, errors | `config.ts`, `errors.ts`, the error handler of `server.ts` | none (pure) | read the environment; error to status, code and back |
| session of a tab | `apps/web/src/app/AuthProvider.tsx`, `api/client.ts` | status, CSRF token in memory, query cache | bootstrap, refresh, login, logout, session lost, broadcast between tabs |
| operation tracker | `api/operations.tsx`, `components/OperationTrackerPanel.tsx` | list of operations, timers, attempts | track, poll, cancel, dismiss, clear |
| OAuth login flow | `features/accounts/useLoginFlow.ts`, `LoginFlowPanel.tsx` | page state, flow id and secret in refs | start, poll, complete, confirm or decline a replacement, cancel, resume, reset |
| OAuth import | `features/accounts/ImportPanel.tsx` | payload, preview, decisions, import secret | preview, commit |
| editing pages | `features/api-keys`, `features/channels`, `features/accounts`, `api/hooks.ts` | the query cache, a draft, the revision it is saved with, a mutation under way | edit, save with If-Match, switch, delete, resolve a conflict |
| dialogs with secrets | `features/api-keys/ApiKeysPage.tsx`, `features/channels/CreateChannelModal.tsx` | what is typed, the secret that is shown once | create, replace, reset, revoke, cancel, dismiss |
| selections | `features/models/ModelsPage.tsx`, `features/accounts/AccountModelsSection.tsx` | ticks, filter and its confirmation | tick, page, filter, confirm, submit a batch |
| log drawer | `features/logs` | which bodies were asked for | open, ask for a body, fold, close |
| reading pages | `features/overview`, `realtime`, `analysis`, `about` | the query cache | read, poll |

How they interact. A tab calls the BFF over HTTP with cookies the BFF sets. A
handler looks the cookie up in the store, awaits an upstream call made with the
session's credential, and then changes the store and answers. Node interrupts a
handler only at an `await`, so between two awaits it is atomic, and across one
any other request may change what it read before. In the browser the same holds
for React handlers, timers and promises; in addition a closure keeps the values
of the render it was made in. All of the BFF's state is lost in a restart,
cookies and tabs survive it.

What is hard: state read before an await and used after it (handlers, polls);
answers that come late, twice or never; a session that ends (expiry, logout in
another tab, restart, upstream) while calls made with it are under way; bounded
tables that must neither grow nor evict; deadlines that are recomputed on every
refresh; closures that are out of date. `PROJECT.json` lists each such hazard at
its line with the properties that watch over it.

What makes each component correct:

- *session store*: capacity without evicting a valid entry, deadlines anchored
  at creation, an expired or ended token never accepted again, everything
  expired eventually removed;
- *handlers and proxy*: an ended session stays ended whatever is under way,
  a logout claims a revocation only when there was one, gates and pre-logins are
  given back on every way out, every request is answered;
- *limits*: bounded memory, pinned counters that cannot be pushed out, at most
  twice the limit in any stretch of one window, an exact Retry-After;
- *operation tracker*: what is shown as going on is looked at, what is shown as
  ended has ended that way, and nothing is shown as going on for ever;
- *upstream probe*: what a caller is told is no older than it asked for and one
  probe;
- *request checks*: the client counted is the one the trusted proxies saw; only a
  route of the table is forwarded, and as the text that was asked for;
- *replies and configuration*: it is known where the end of a session on one side of
  the cookie ends it on the other and where not; a page can tell who failed; what is
  accepted at the start is what the other components assume;
- *session of a tab*: a write acts for the session its tab showed, and a tab that
  shows somebody as signed in can write;
- *editing pages*: no change of somebody else is overwritten unseen, and nothing
  typed is lost to a poll or a conflict;
- *dialogs, selections, import, logs*: a secret goes to the key it was typed for, and
  a replacement secret or a channel's API key leaves with its dialog; a batch and an
  import are what the operator chose for that very list and preview; a body is read when it was asked for;
- *login flow*: the secret belongs to its flow and leaves with the page, the page
  claims no outcome that did not happen, a declined replacement is never sent.

## Modules

`SessionLifecycle` is the abstract specification of a table of random tokens:
a token is issued at most once, is then active until it ends, never comes back,
and none is issued beyond the capacity. It has no clock and no contents.

`SessionStore` models `SessionStore` of `session-store.ts`, one action per
method. A handler may hold on to a `WebSession` the Map has dropped and may still
mutate it, so the objects live in a heap (`object`, `preloginObject`) and the
Maps are the sets `sessions` and `prelogins` of the keys they still hold. Time
is a counter; the code counts milliseconds. It is shown to implement
`SessionLifecycle` once for each of its two Maps.

`AuthController` composes the store with the handlers that use it, the browsers
that call them (`jar`, the two cookies of each), the upstream
(`upstreamLive`, the credentials it accepts) and the concurrency gates. A request
slot moves through *sent → upstream / probe → reply*; each stretch of a handler
between two awaits is one action, and each way it can end is an action of its
own (`LoginCreated`, `LoginFull`, `LoginFailed`, ...). Replies and requests may be
lost, replies arrive in any order and change the cookies when they do, the
upstream may end a session by itself, and the BFF may restart in between. A
session's token stands for its upstream credential as well: the code creates one
for the other and nothing else relates them. Checks of a request that depend on
nothing but the request and constants (host, origin, content type, CSRF, route,
size) are a free choice between going on and refusing.

`RateLimit` models `FixedWindowRateLimiter`. `check` sweeps, evicts and counts in
one action; `Evictions` is the set of all choices the code's sort may make among
windows of the same instant. The history `granted` keeps the instants at which a
pinned key was let through.

`UpstreamProbe` models `probeManagement` and its cache. A probe starts, the
upstream answers it at some instant, and its finding is stored when it ends;
probes are not shared, so they may end in another order than they began. A finding
is known by the instant it is true of, `asOf`, which the code does not keep and
`ProbeFresh` is about. A call is aborted at its timeout, so time does not pass
over one. `SharedState` puts limiter and probe side by side, the two things all
requests share besides the sessions.

`OperationTracker` models `OperationProvider` and the panel's buttons. A *chain*
is one run of `poll` with the timers it re-arms itself with; several may follow
one operation, since `cancel` and a second `track` start one beside what is under
way, while the Map `timers` remembers the last timer only. `knows` records what
the chain's closure can see: whether the operation was listed in the render it
began in. A read takes the upstream's status at one moment and is handled at a
later one.

`LoginFlow` models the hook `useLoginFlow` and the panel's buttons. `ui` is the
hook's React state; `flowId`, `secret`, `inFlight` and `mounted` are its refs.
Each kind of request has a slot that is *sent*, then answered by the upstream
(which may act and lose the answer), then handled by the hook in whatever state
it is then. Flow id, flow secret and saved account are one value, the flow; an answer
may name no account, and the one known before is then kept (`Account`).

`TabSession` models `AuthProvider`, the token and the lost-session handler of
`api/client.ts` and the buttons that call them, in the tabs of one browser. Tabs
share the two `cookies` and hear of each other's logout (`news`); each call on the
`wire` carries the cookies and the token it was sent with, is answered by the BFF
in one step at some moment, and its answer sets cookies when it arrives, in any
order. The BFF is what `AuthController` shows it to be, reduced to the sessions
and pre-logins it knows.

`RevisionEditing` is what all editing pages are built from: `server`, the
management API with revisions; other administrators who write to it; `cache` and
`reading`, the query; `request`, the mutation, which is sent, carried out or
refused, possibly as a 202 operation, and answered, possibly not at all. A
resource is known by its revision and, field by field, by the revision that wrote
the field last, so that one can tell whose value a write replaces. On it stand

- `ChannelPage`: the channel drawer, whose form is a snapshot made on *edit*;
- `CompatibilitySection`: the section in it, filled by the first read only;
- `AccountPage`: the account drawer and the OAuth settings, whose forms are filled
  again with every new revision;
- `KeyPage`: the API key drawer, one form for all keys, saved with the newest
  revision.

`ListSelection` models the batches of the model page and of an account's models:
the table gives the ticks of the rows it shows as a whole (`Tick`), and the change
of a single model is a mutation of its own beside the batch (`single`). `KeyDialogs`
has one action per call of the API key page that is no edit. The buttons of the
drawer (limiter, plan, revoke) are off while their call is under way; the forms of
the dialogs can be submitted again with Enter, so several calls of a kind may be
under way, of which the mutation watches the newest. `ImportPanel` models the
OAuth import, `ChannelCreation` the dialog with a channel's API key and
`LogReader` the log drawer. Each has a
variable per React state or ref that decides something, one action per handler,
effect and answer, and calls whose answers are applied to whatever the page
shows when they come. `Page` holds what they share.

`Browser` composes all of these: `screen` says which one a behaviour is about. The
router shows one page at a time and pages share nothing but the query cache, each
under its own keys, so nothing is lost by looking at them one by one, and the
state spaces add up instead of multiplying. `OverwritesSeenOnly`, `EditsKept` and
`SecretsDropped` are stated there for all pages at once.

Functions without state, with no actions: `ClientAddress` (`security/ip.ts`),
`RouteAllowlist` and the table `ManagementRoutes` (`security/route-allowlist.ts`
and the generated contract), `RequestGuard` (`security/request-guard.ts` and the
order of the proxy's checks), `Replies` (what `upstream/client.ts`,
`routes/management-proxy.ts`, the error handler and `api/client.ts` make of an
answer on its way back) and `Configuration` (`config.ts`). `FrontDoorChecks` and
`ReplyChecks` compare them with reference definitions in named assumptions, which
TLC evaluates in the run `rate_bounds`. A path segment is a sequence of pieces of
which each is coded or not, an address is a sequence of written groups, an answer
is a record of what the code looks at.

`MCSessionStore`, `MCAuthController`, `MCRateLimit`, `MCOperationTracker`,
`MCLoginFlow` and `MCBrowser` only add the symmetry sets TLC uses. Definitions
whose comment begins with "Slip:" are slightly wrong versions of the definition
that follows them. They are in no specification; each is what a plausible mistake
in the code would look like, and serves to see that a property notices it.

`SessionStoreProofs`, `AuthControllerProofs`, `RateLimitProofs`,
`OperationTrackerProofs`, `LoginFlowProofs`, `UpstreamProbeProofs`,
`BrowserProofs` and `FrontDoorProofs` hold the proofs.

## Runs

| run | instance | shows |
|---|---|---|
| `store` | two session and two pre-login tokens, each table of one, lifetime 3, idle time 1, upstream deadlines none, 3 or 9, clock 1..4 | all of the store's properties, and that both tables implement `SessionLifecycle` |
| `store_idle` | one session, upstream idle deadlines 2 or 9 | *violated*: a session is accepted after its known upstream idle deadline |
| `auth_safety` | one browser with two requests at a time, all six handlers, two session tokens, a table of one, one restart, clock 1..2 | safety of the handlers under every interleaving; the tables still implement `SessionLifecycle` |
| `auth_answered` | two requests, one token | every request taken up ends |
| `auth_prelogin` | two concurrent logins | *violated*: one pre-login creates two sessions |
| `rate_bounds` | a global pinned key and three sources in a table of three, limit 2, window 3 over two windows; two callers of the probe with maximal ages 1 and 3, timeout 2, clock to 6 | the limiter's five properties; no finding of the probe is told too late; the named assumptions about the pure functions |
| `operation_safety` | two operations in a list of one, two polls at a time, two clicks | the tracker's three safety properties and its liveness |
| `operation_refresh` | one operation | *violated*: its end refreshes nothing |
| `login_flow_safety` | two flows, one poll at a time, one replacement token | the hook's four safety properties |
| `login_flow_settled` | one flow | *violated*: a settled page is set waiting again |
| `browser_safety` | every screen: two resources of two fields, two writes, a list of two rows, two imports, three calls or creations, two logs; two tabs with two logins | what is written, kept, chosen, sent and shown on every page is what its operator saw |
| `browser_key` | the API key drawer | *violated*: it overwrites a change nobody saw |

Bounds and why they are enough. Every hazard here is between two parties: two
tokens and a table of one reach the full table, the rejected entry and the reuse
of a slot; two requests reach every overlap of two handlers, and a third adds
none that the properties could tell, since each is about one session, one gate
or one pre-login. The clock runs past idle time, lifetime and an upstream
deadline in `store`; in `auth_safety` it runs far enough that the upstream
deadline and idle time pass while a handler waits. Two windows contain one
boundary. Two probes reach the one that ends last though it began first; six
ticks hold two probes and the larger age. `MaxAttempts` is 1 and not 6: the code
compares attempts with it only, and one retry before giving up shows both sides.
`MaxTracked` is 1 and not 30 so that a second operation is cut off the list. With
one entry the clause of `TrackerTypeOK` that each operation is listed once says
nothing in this run; the theorem `TrackerTyping` shows it for every `MaxTracked`.
`MaxFailures` of the login flow is 1 and not its real value for the same reason.

On the pages `MaxRev` bounds the writes of all administrators to two, the least
with which a read, somebody else's write and the operator's own write fall into
every order; a list changes once (`MaxList`), since a batch compares its revision
with the newest only; two fields tell a patch of one from a whole save; one read and one
write of an editing page are under way at a time, because an aborted read replaces
the last and a page disables the button of a pending mutation. Two resources are needed for an
answer that comes when another drawer is open. In the session either one tab has
two calls under way or two tabs have one each (`MaxPending`), with two logins and
two pre-logins: a third login repeats the second. `MaxTime`, `MaxClock`,
`MaxRestarts`, `MaxClicks`, `Chain`, `PollSlot`, `MaxRev`, `MaxList`, `MaxImport`,
`MaxCalls`, `MaxCreations`, `MaxLogins`, `MaxPrelogins` and `MaxPending` exist in
the models only; they bound the run.

Symmetry is used where values are interchangeable and only in runs without
liveness. In `MCBrowser` the rows, keys, logs and tabs are the values of the
resources again, and permute with them; pages never meet, so nothing relates two
of those meanings. Deadlock is not checked: the clock stops at its bound, and
every component may simply have nothing to do.

## Fairness

- `SessionStore`: the sweep is weakly fair, since `index.ts` runs it on an
  interval for as long as the process lives. `ExpiredRemoved` needs it.
- `AuthController`: the handler steps of each request are weakly fair. Each
  await there ends: `upstream.call` aborts at its timeout and the probe is such a
  call, so the step that handles a failure can always be taken. Nothing is assumed
  of browsers, of the upstream's answers or of the network.
- `OperationTracker`: a timer that is armed fires and a read that is made ends,
  with an answer or an error. The upstream is not assumed to make progress, which
  is why `SettlesEventually` starts from an operation that is over.
- `SharedState`, `LoginFlow` and `Browser` promise nothing that needs fairness: a
  call of a page may stay unanswered and an operator may do nothing.

## Proofs

TLAPS checks all proofs; they hold for every value of the constants that
satisfies the named assumptions of the modules (positive limits and times,
finite sets of tokens and of requests, and markers such as `None`, `Gone`,
`NoToken` and `Keep` that are no values: they stand for `null`, `undefined` and
absent fields, which no id or token of the code equals).

`SessionStoreProofs`:

- `StoreTyping`: types, and tables that list only objects that exist. Inductive
  as it stands.
- `StoreCapacity`: `CapacityBound`. Needs the types; a creation adds one key to a
  swept table that is below its limit, all else removes keys.
- `StoreDeadlines` and `StoreLifetime`: `DeadlineAnchored` and
  `UsedWithinLifetime`. Neither is inductive alone: that a session was last
  accepted before creation plus lifetime follows from its having been accepted
  before its absolute deadline, which must be known to lie before that sum; and
  that the deadline respects the upstream's needs the typing of what was stored.
  The invariant is `DeadlineInv`, types and both together, split by
  `DeadlineByObject` into a predicate of single objects so that each step looks
  at one object only. `NewSessionBound` and `RefreshedBound` are what
  `createSession` and `applyUpstreamSessionSummary` compute.
- `StoreNeverRevives` and `StoreNoEviction`: the two action properties, one step
  per action from the types.
- `TablesRefineLifecycle`: each of the two tables implements `SessionLifecycle`.
  Initial states map to initial states; a creation maps to `Issue`, whose `Fits` is
  the capacity invariant of the next state, all else to `End` or to a stutter
  (`SessionLifecycleStep` and `PreloginLifecycleStep`).

`AuthControllerProofs`, for any number of browsers, requests under way, tokens
and restarts, any gates and tables, on top of `SessionStoreProofs`. The inductive
invariant is `ControllerInv`:

- `TypeOK` alone is not inductive: a refresh that ends has to find the object it
  read before its awaits. `RequestsOK` says which fields a request has at which of
  its awaits (`Staged`) and that the tokens it carries were created (`Known`);
  `CookiesKnown` says the same of cookies.
- `CredentialsFresh`: a credential that a login has in hand but not yet stored
  names no session, and no two logins hold the same. Without it a login could
  insert a token that is in use, or bring back one that was ended.
- `GateBalanced`. Each step moves one request, and `GateStep` says how its gate
  moves with it, from which the count follows for finitely many requests.

`ControllerTyping` and `GatesBalance` are its parts. A stretch of a handler
between two awaits is at most one step of the store (`Housekeeping`), except a
login that succeeds, which creates a session and drops a pre-login at once, a
refresh, which writes to an object that may have left the table, and a restart
(`StoreSteps`). `HandlersRefineLifecycle` goes through these four cases: a login
maps to `Issue` of the session table, all else to `End`, a pre-login's `Issue` or a
stutter.
`EndedStayGone` and `RevocationsConfirmed` need `RepliesInv`: a reply that ends a
session speaks of one that left the table, one that confirms a revocation of a
credential the upstream has ended; both stay so, because a credential is new when
it is made. `PreloginsKept` and `AuthenticatedAreChecked` are action properties,
one step per action from `HandlersInv`.
`PreloginUsesBounded` says how far the finding of `auth_prelogin` can go: of the
logins under way at most `LoginGate` have succeeded with one pre-login.
Its invariant `UsesInv` counts with them the logins that may still succeed with it
(`Users`) and knows that once one has, the pre-login is gone for good. That
set can only grow while the pre-login is in the table; then nobody has succeeded
with it yet, and all of them are inside the gate, which is balanced. In all other
steps it shrinks. `OneAtATimeLogsInOnce` draws the consequence: with
`LoginGate = 1` the violated property holds.

`RateLimitProofs`:

- `LimitTyping`: types, counters within `1..Limit`, windows that do not start in
  the future.
- `LimitTableBounded`: for any number of sources the table holds at most `MaxKeys`
  counters. `EvictionMakesRoom` is the core: after any eviction the code may
  choose fewer than `MaxKeys` windows are left, by counting pinned and removable
  ones apart, and uses the assumption that the pinned keys alone do not fill the
  table.
- `LimitPinned`: a pinned counter is forgotten only by `reset` or when its window
  is over.
- `LimitRetryAfter`: `RetryAfterHonest`. `CeilDivBound` bounds `Math.ceil` of a
  quotient on both sides; the least value of one second does not exceed them because
  an open window has time left.
- `LimitBoundary`: `BoundaryBound`, at most `2 * Limit` grants in any stretch as
  long as a window. The property counts over all stretches of the past, which no
  step can keep; the invariant `BoundaryInv` says it of positions in the history
  instead: any grant is a whole window later than the one `2 * Limit` before it
  (`Spaced`). A step keeps that because of what the current window tells of the
  history (`WindowTells`): which grants lie inside it, and that all but the `Limit`
  before those lie a whole window before its start. `SpacedBound` comes back from
  positions to the count, with the first position inside the stretch
  (`LeastExists`).

`OperationTrackerProofs`, for any number of operations and of polls at once. The
inductive invariant is `TrackerInv`:

- The list (`GoodList`) holds each operation once, position by position. That its
  ids are as many as its entries follows by a bijection (`OnceEachCounted`), and
  what the list becomes by `map()`, `filter()` and `track()` has a lemma each.
- `TimersOwn`: an entry of `timers` is a timer of its own operation, so that
  `stop()` and `clearTimeout` end polls of that operation only (`OthersKept`).
- `UnsettledWatched`: with `OthersKept` a step need only be looked at for the
  operation it is about, which afterwards has a poll or is no longer live.
- `AnswersTruthful`: an end in an answer that is yet to be applied is what the
  upstream says or said. It is what `OutcomeTruthful` lacks to be inductive, since
  the upstream may move between an answer and its use.

`TrackerTyping`, `LiveAreWatched` and `OutcomesAreTrue` are its parts.

`LoginFlowProofs`, for any number of flows, tokens and polls under way:

- `FlowTyping`: `FlowTypeOK`. Needs besides the types that a request on its way,
  and the answer to a start, name a flow (`CallTyped`): what the upstream is asked
  about exists.
- `FlowUnmount`: `UnmountDropsSecret`, inductive as it stands.
- `FlowDeclined`: `DeclinedNeverSent`. The property does not say where tokens come
  from; the invariant `TokensAtHand` does: a token offered to the user, sent, or in
  an answer on its way was issued and not declined, and a fresh one is none that was
  issued before. A decline is only possible while no completion is under way, which
  is what keeps the declined token from being in a request.
- `FlowTruth`: `OutcomeTruthful`. The invariant adds `AnswersBorneOut`: an answer on
  its way that says *completed* or *cancelled* is true at the upstream; and each step
  satisfies `ClosedStays`: a closed flow never changes again, so a late answer is as
  true as a prompt one. Steps that claim nothing new are put together in `Harmless`.

`UpstreamProbeProofs`, for any number of callers, ages and any timeout:
`ProbeStaleness`, that is `ProbeFresh`. What a caller is told depends on what is
cached, so the invariant `ProbeInv` adds `ProbesInTime` (no probe is older than
its timeout, and its answer lies between its start and now) and `FindingInTime` (a
finding was at most one timeout old when it was stored). `FindsStep` is the step in
which a probe ends, in whatever order.

`BrowserProofs`, for any number of resources, fields, rows, keys, logs, tabs and
calls. The pages share no state, so each has an inductive invariant of its own
and a step of one is a stutter of the others (`PagesStep`):

- `WritesAsShown` and `SignedInWrites`, from `SessionInv`. A tab that shows
  somebody holds a token, and if it is a session's token, that session is shown
  (`OwnToken`); a write carries token and session together, an answer that brings a
  token brings the one of the session it tells of (`CallHonest`). The BFF carries
  out only what fits the session of the cookie, so the session acted for is the one
  shown at the time of sending, whatever another tab has done to the cookie since.
  `SessionTyped` is the types.
- `OverwritesAreSeen`, from `EditInv`. Every version in the cache, in an answer, in
  a form or in a request is one the server has had (`Known`): one that carries the
  server's present revision has its present fields. A form is saved with the
  revision of its base unless its operator took a newer one over (`FormOK`), so a
  save that is carried out was filled from what it replaces. The API key page is
  excepted, as `browser_key` shows.
- `EditsAreKept`: the same invariant with three facts about single pages, one step
  per handler that touches a form (`FormChanges`).
- `BatchesAsChosen`, `ImportsAsChosen`, `SecretsForTheirKeys`,
  `ApiKeyAndReplacementDropped` and `BodiesOnDemand`, each from its component's types
  and one fact: ticks are of the view shown, a preview is kept while it is committed,
  a typed secret is of the key shown, a channel's API key and a replacement secret
  are held by their open dialogs only, parts are asked for of the log shown.
- `BrowserTyped`: `BrowserTypeOK`, all components at once. The bound of a revision
  is not inductive by itself: a write raises it. `RoomToWrite` is what is missing:
  the revisions written so far are counted (`Writes`), so while fewer than `MaxRev`
  were written every revision is below `MaxRev`. The forms, answers and requests of
  `EditInv` are of these bounded types.

`FrontDoorProofs`, about functions and so without an invariant:

- `EarlierHopsIgnored`: the client that is counted is the last hop that is no
  trusted proxy, whatever stands before it in the header, for any number of hops.
  The walk from the right is a maximum over positions; the theorem shows which it
  is. `DirectClientIsItself` is the case without a trusted proxy.
- `ForwardedAsAsked`: for every table, method and path, what is forwarded belongs
  to the first proxy route of that method that fits, names segment by segment the
  text that was asked for, passed the safety checks and is encoded anew.
  `FirstExists` gives the first route, `DecodeEncode` and `ReservedEncoded` are the
  two facts about encoding it rests on.
- `SignInNeverForwarded`: with the frozen table no path that is forwarded fits a
  route of the upstream's sign-in, whatever the method. Every row of the proxy
  begins with a word of its own that is neither a parameter nor `auth` (`ProxyRow`;
  the table is taken apart into its rows by `RuntimeRows` to `AuthRows`), and
  `FirstSegment` gives that word to every path that fits.
- `QueryAsAsked`: a query that is forwarded is within the length limit; what is
  forwarded has its keys, in its order and case, and keys and values that decode to
  the same text, none of it refused, whatever the case of a denied key.
- `ForwardedOnlyForTheSession`: what the proxy forwards came to the public host with
  a session; what is no GET is a write from the public origin with that session's
  token and within the body limit. The origin's check passes any method that is no
  write and has no `Origin`; it is the table that has no such method but GET, so
  the theorem rests on `SignInNeverForwarded` for the row that was found.
- `FailureHasItsSource` and `OnlyWholeAnswersRead`: for every answer and limit, an
  error names who failed, and data comes from whole 2xx answers only. An error block
  of the upstream that calls itself `webui` is taken at its word.
- `WhereSessionEndsDiffer`: for every answer, whatever its status, exactly where
  proxy and tab disagree about the end of a session. `DropsSession` looks at the
  code at 401 and 403 only (`management-proxy.ts:115`) and `isSessionLost` at any
  status (`client.ts:62-70`). The proxy alone ends a session whose end is not
  declared as JSON; the tab alone gives up a session for a session code at another
  status, or for one of the BFF's own session codes in an answer of the upstream.
  `SessionEndsApartWitnessed` has answers of each kind.
- `AcceptedConfigurationFits`: every environment that `loadConfig` accepts yields
  the positive numbers and ordered lifetimes that the other modules' assumptions
  ask for, and an upstream that is not the BFF itself. `ProductionStartsClosed`: in
  production it has Secure prefixed cookies, named proxies, https unless a flag says
  otherwise, and without flags the browser keeps its cookie.

Every invariant, action property and refinement of the passing runs is stated by
one of these theorems. Checked by TLC and not proved: the liveness properties
(`ExpiredRemoved`, `RequestsAnswered`, `SettlesEventually`), which are out of the
prover's reach; and of the assumptions of `FrontDoorChecks` and `ReplyChecks`

- `ResolvesByWalking` and `TraversalIsASegment`, whose reference definitions are
  recursive: comparing them for every length takes an induction over data;
- `Ipv6ReadsEveryWriting`, `MatchesComparesLeadingBits` and `MalformedNeverTrusted`,
  arithmetic on bits with division and powers;
- `NoRouteHidden`, `EveryRouteReachable` and what else is said of the rows of
  tables that exist once: there is no parameter to prove anything for, and TLC
  looks at every row.

The five violated properties have TLC's counterexample as their evidence.

`OperationTracker` says what `filter()` leaves of the list as the increasing
enumeration of the positions kept (`KeepOnly`), of which there is exactly one, and
not with `SelectSeq`, which is recursive and of which the provers know nothing.

## What the models show of the code

Five disagreements between the code and what a document or comment of the
repository says are demonstrated by a run:

- `store_idle`: `isExpired` never reads `upstreamIdleExpiresAt`, so a session is
  accepted after the upstream idle deadline it has stored, although the
  development document asks that it not be (`Parrot-WebUI-独立容器开发实施文档.md:175-176`).
- `auth_prelogin`: two concurrent logins use one pre-login
  (`docs/acceptance.md:76` says it cannot be reused).
- `operation_refresh`: the invalidation at the end of an operation looks the
  record up in a list that does not have it yet, so the queries given to `track`
  are not refreshed (`operations.tsx:39`).
- `login_flow_settled`: a poll's late answer sets a page that shows *saved*,
  *cancelled* or *expired* waiting again (`useLoginFlow.ts:125`).
- `browser_key`: the API key drawer saves a form that was filled from an old read
  with the revision of the newest, so another administrator's change is replaced
  without a conflict (`docs/frontend-contract.md:79` forbids it).

Others can be seen in the models' state spaces and have no run of their own:

- `applyUpstreamSessionSummary` raises a deadline again that an earlier summary
  had lowered, up to creation plus lifetime; the title of the test at
  `fixes.test.ts:173` says otherwise, its last assertion agrees with the code.
- The limiter evicts for one more key than there are when the key checked is
  already in a full table, so another source's count is forgotten early.
- A poll of an operation under way when the session ends re-arms its timer
  (`operations.tsx:149`, `:189`), so polling outlives the session by up to six
  attempts.
- Six answered reads use up the attempts of an operation, after which the first
  failing read gives it up (`operations.tsx:186`).
- `reset()` of the login flow lets the old flow's poll clear the new flow's
  `inFlightRef`, after which two polls of one flow can overlap.
- A login-flow poll refused with 400 after *ready* does not stop the polling.
- A reply that clears the session cookie clears whichever session the browser has
  by then, also one of a later login.
- An account's or the settings' form is filled again by every newer revision, so a
  save's conflict or a poll takes what was typed, though `docs/frontend-contract.md:79`
  asks that it be kept. `EditsKept` is therefore stated of the other pages only.
- A 401 of the upstream that is not declared as JSON ends the BFF's session
  (`management-proxy.ts:115`) and reaches the tab as 502
  `WEBUI_UPSTREAM_UNEXPECTED_CONTENT`: the tab stays signed in until its next call.
  The comment at line 114 says the answer is returned as it is and the frontend
  turns to the login page. `WhereSessionEndsDiffer` states it.
- An answer at another status, say 409, with the code `SESSION_EXPIRED` logs the tab
  out and leaves the BFF's session and the cookie in place; the same theorem.
- An older probe may replace a newer finding and count as just checked
  (`client.ts:183`); `ProbeFresh` bounds by how much.
- `refreshSession` leaves the query cache alone when the BFF answers that nobody is
  signed in (`AuthProvider.tsx:134-144`), although the header of that file says it
  is cleared when the session is lost.
- When a bootstrap fails the status is *error*, and a later one that succeeds
  leaves it so (`AuthProvider.tsx:94-117`): a retry on a page behind the login
  (`App.tsx:98`) does not help, only a reload or a login does.
- A logout that the BFF refuses clears the tab, while session and cookie go on; the
  comment at `AuthProvider.tsx:196` says that both must be destroyed.
- The channel's creation drops its API key with the dialog; the API key page's
  create form is not reset when its dialog is cancelled
  (`ApiKeysPage.tsx:1417-1420`). `SecretsDropped` is about the former and about the
  replacement secret, and says nothing of the create form.
- The buttons of the dialogs' forms show that their call is under way, but Enter
  submits again (`ApiKeysPage.tsx:1415`, `:1474`): two keys can be created.
- The batch draft is said to be kept after a success (`ModelsPage.tsx:128`); the
  ticks are dropped by it.
- The global login limiter counts a request before the limiter of its source
  refuses it (`controller.ts:243`), so refused requests use up the global window.
- `assertHost` strips a port with `:\d+$`, which takes `::1` apart before it is
  looked up in `INTERNAL_HOSTS`.
- `10.0.0.0/`, with nothing after the slash, reads as a prefix of length 0
  (`ip.ts:74`), and `WEBUI_TRUST_PROXY` refuses `*` but not `0.0.0.0/0`.
- With `WEBUI_ALLOW_INSECURE_PUBLIC_ORIGIN` a production starts on http with Secure
  cookies, which a browser drops; the same in a development with
  `WEBUI_DEV_INSECURE_COOKIES=0` on http. `ProductionIsClosed` and
  `DefaultsKeepTheCookie` say where the cookie is kept.

## Not modelled

Formatting, rendering and wording; the contents of forwarded requests and
answers; the headers other than those the checks read; cryptography
(`randomToken` yields fresh values, `secureEquals` compares); React's StrictMode,
which mounts effects twice in development builds only. `resumePolling`,
`complete` and the other handlers of the login panel are modelled with the
conditions under which the panel enables them. The query client keeps the
variables of a mutation until it is collected or reset, among them a typed API key
or secret and a flow's secret (`CreateChannelModal.tsx:245` says "only in this
dialog's memory"); the models are about the page's own state and refs, so
`SecretsDropped` and `UnmountDropsSecret` say nothing of that cache. Of the pages: the order and the
filters of lists where no write depends on them, quotas, prices, usage views and
the models picked from a discovery; when a poll is due (visibility, intervals),
since a read may come at any time. The overview, realtime, analysis and about
pages are queries and their rendering: their state is the query cache's, which
`RevisionEditing` has. The process's shutdown closes the server and the upstream
client and then exits: requests it waits for are those of `AuthController`, and
what it loses is what `Restart` loses. Serving files, byte sizes and the build
scripts have no state whose order of changes matters. Every component's entry in
`PROJECT.json` says what of it is left out.

What some properties leave out. `OutcomeTruthful` asks of a page that shows
*cancelled* only that some flow of the page was cancelled: it does not name one, and
the late answer of an earlier flow is shown as well. `BatchAsChosen` compares the
view a batch is sent from, not the rows, which may be gone by then: the revision is
what the server checks. `EditsKept` is about a form whose drawer stays open: one that
a late answer to a delete closes is lost with it.

## Plan

Done: 1 `SessionLifecycle`, `SessionStore`; 2 `AuthController`; 3 `RateLimit`;
4 `OperationTracker`; 5 `LoginFlow`; 6 `TabSession`; 7 `UpstreamProbe`,
`Replies`; 8 the pages and `Browser`; 9 the pure functions with `FrontDoorChecks`
and `ReplyChecks`; each with its proofs.

Left, for who goes on: a model of when the pages poll (visibility and intervals),
which is now a free choice; and the order and filters of lists where no write
depends on them.
