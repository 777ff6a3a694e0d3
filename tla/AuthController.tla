--------------------------- MODULE AuthController ---------------------------
(***************************************************************************)
(* The BFF's request handlers (auth/controller.ts, routes/management-      *)
(* proxy.ts) over the session store, with the browsers that call them, the *)
(* upstream they call, and the concurrency gates of context.ts.            *)
(*                                                                         *)
(* Node runs a handler without interruption between two awaits, so each    *)
(* such stretch is one action.  A request slot moves through               *)
(*                                                                         *)
(*    free -> sent -> upstream / probe -> reply -> free                    *)
(*                                                                         *)
(* "sent" and "reply" are the message on its way, "upstream" awaits        *)
(* ctx.upstream.call, "probe" awaits publicUpstreamState.  A handler keeps *)
(* across an await the token its request presented, never the table.       *)
(*                                                                         *)
(* Rate limits, host, origin, content-type, CSRF, allow-list and size      *)
(* checks only decide whether a handler goes on; their verdict is a free   *)
(* choice here.                                                            *)
(***************************************************************************)
EXTENDS SessionStore

CONSTANTS Browser,          \* cookie jars
          Request,          \* slots for requests in flight
          Kind,             \* which of the handlers the browsers use
          RefreshInterval,  \* UPSTREAM_SESSION_REFRESH_INTERVAL_MS
          LoginGate,        \* config.maxConcurrentLogin
          BootstrapGate,    \* config.maxConcurrentBootstrap
          MaxRestarts,      \* bound of the model: restarts of the BFF
          NoToken,          \* no cookie, or a cookie that is cleared
          Keep              \* a reply that does not touch the cookie

Handlers == {"bootstrap", "login", "session", "logout", "proxy", "diagnostics"}

ASSUME HandlersAssumption ==
    /\ Kind \subseteq Handlers
    /\ RefreshInterval \in Nat /\ MaxRestarts \in Nat
    /\ LoginGate \in Nat \ {0} /\ BootstrapGate \in Nat \ {0}
    /\ IsFiniteSet(Request)
ASSUME MarkersAssumption ==
    /\ NoToken \notin Token \cup PreToken /\ Keep \notin Token \cup PreToken
    /\ NoToken # Keep

VARIABLES jar,          \* the two cookies of each browser
          req,          \* the request slots
          gate,         \* ctx.gates: requests inside each gate
          minted,       \* upstream credentials created so far
          upstreamLive, \* those the upstream still accepts
          restarts      \* restarts of the BFF so far

ctlVars == <<jar, req, gate, minted, upstreamLive, restarts>>
vars == <<storeVars, ctlVars>>

-----------------------------------------------------------------------------
(* Requests.                                                               *)

Pc == {"free", "sent", "upstream", "probe", "reply"}
\* What the upstream answered: 2xx, 401 (or 403 with a SESSION_ code), another
\* 403, anything else; "created" is the 201 of a login.
Answer == {"none", "created", "ok", "invalid", "forbidden", "error"}
Outcome == {"none", "rejected", "bootstrapped", "authenticated", "anonymous",
            "revoked", "unconfirmed", "notAttempted", "answered"}

RequestType ==
    [pc : Pc \ {"free"}, kind : Handlers, browser : Browser,
     session : Token \cup {NoToken}, prelogin : PreToken \cup {NoToken},
     credential : Token \cup {NoToken}, answer : Answer, outcome : Outcome,
     setSession : Token \cup {NoToken, Keep},
     setPrelogin : PreToken \cup {NoToken, Keep}]

NewRequest(b, k) ==
    [pc |-> "sent", kind |-> k, browser |-> b,
     session |-> jar[b].session, prelogin |-> jar[b].prelogin,
     credential |-> NoToken, answer |-> "none", outcome |-> "none",
     setSession |-> Keep, setPrelogin |-> Keep]

\* A slot that carries nothing.
Free == [pc |-> "free"]

At(r, pc, kinds) == req[r].pc = pc /\ req[r].kind \in kinds

\* The handler of r goes on to await something.
Await(r, pc) == req' = [req EXCEPT ![r].pc = pc]

\* The handler of r ends with an outcome and its Set-Cookie headers.
Reply(r, outcome, session, prelogin) ==
    req' = [req EXCEPT ![r].pc = "reply", ![r].outcome = outcome,
                       ![r].setSession = session, ![r].setPrelogin = prelogin]

Reject(r) == Reply(r, "rejected", Keep, Keep)

\* A handler clears the session cookie only if the request presented one.
ClearIfPresented(r) == IF req[r].session = NoToken THEN Keep ELSE NoToken

\* getSession returns the session of the presented token.
Found(t) == t \in sessions /\ ~IsExpired(object[t])
\* getSession as the only store call of a handler stretch.
LookUp(t) == IF t \in sessions THEN GetSession(t) ELSE UNCHANGED storeVars

\* destroySession as the only store call of a handler stretch.
Destroy(t) == IF t \in sessions THEN DestroySession(t) ELSE UNCHANGED storeVars

Enter(g) == gate' = [gate EXCEPT ![g] = @ + 1]
Leave(g) == gate' = [gate EXCEPT ![g] = IF @ = 0 THEN 0 ELSE @ - 1]

-----------------------------------------------------------------------------
(* Browsers.                                                               *)

\* Any tab of a browser sends a request with the cookies of the moment.
Send(r, b, k) ==
    /\ req[r].pc = "free"
    /\ k \in Kind
    /\ req' = [req EXCEPT ![r] = NewRequest(b, k)]
    /\ UNCHANGED <<storeVars, jar, gate, minted, upstreamLive, restarts>>

\* The reply arrives and its Set-Cookie headers take effect, whatever the jar
\* holds by then.
Deliver(r) ==
    /\ req[r].pc = "reply"
    /\ jar' = [jar EXCEPT ![req[r].browser] =
                  [session |-> IF req[r].setSession = Keep THEN @.session
                                                           ELSE req[r].setSession,
                   prelogin |-> IF req[r].setPrelogin = Keep THEN @.prelogin
                                                             ELSE req[r].setPrelogin]]
    /\ req' = [req EXCEPT ![r] = Free]
    /\ UNCHANGED <<storeVars, gate, minted, upstreamLive, restarts>>

\* The request or the reply is lost on the way.
Lose(r) ==
    /\ req[r].pc \in {"sent", "reply"}
    /\ req' = [req EXCEPT ![r] = Free]
    /\ UNCHANGED <<storeVars, jar, gate, minted, upstreamLive, restarts>>

-----------------------------------------------------------------------------
(* handleBootstrap.                                                        *)

\* A limiter refuses, or the gate is full.
BootstrapRefused(r) ==
    /\ At(r, "sent", {"bootstrap"})
    /\ Reject(r)
    /\ UNCHANGED <<storeVars, jar, gate, minted, upstreamLive, restarts>>

BootstrapReuse(r) ==
    /\ At(r, "sent", {"bootstrap"})
    /\ gate.bootstrap < BootstrapGate
    /\ ReusePrelogin(req[r].prelogin)
    /\ Enter("bootstrap")
    /\ req' = [req EXCEPT ![r].pc = "probe", ![r].setPrelogin = req[r].prelogin]
    /\ UNCHANGED <<jar, minted, upstreamLive, restarts>>

BootstrapCreate(r) ==
    /\ At(r, "sent", {"bootstrap"})
    /\ gate.bootstrap < BootstrapGate
    /\ req[r].prelogin \notin SweptPrelogins
    /\ \E p \in PreToken :
          /\ CreatePrelogin(p)
          /\ req' = [req EXCEPT ![r].pc = "probe", ![r].setPrelogin = p]
    /\ Enter("bootstrap")
    /\ UNCHANGED <<jar, minted, upstreamLive, restarts>>

\* getOrCreatePrelogin throws after its sweep; the finally leaves the gate.
BootstrapFull(r) ==
    /\ At(r, "sent", {"bootstrap"})
    /\ gate.bootstrap < BootstrapGate
    /\ req[r].prelogin \notin SweptPrelogins
    /\ Cardinality(SweptPrelogins) >= MaxPrelogins
    /\ Sweep
    /\ Reject(r)
    /\ UNCHANGED <<jar, gate, minted, upstreamLive, restarts>>

BootstrapProbed(r) ==
    /\ At(r, "probe", {"bootstrap"})
    /\ Reply(r, "bootstrapped", Keep, req[r].setPrelogin)
    /\ Leave("bootstrap")
    /\ UNCHANGED <<storeVars, jar, minted, upstreamLive, restarts>>

-----------------------------------------------------------------------------
(* handleLogin.                                                            *)

\* Host, origin, content type or a limiter refuses before the pre-login is
\* read, or the cookie names none.
LoginRefused(r) ==
    /\ At(r, "sent", {"login"})
    /\ Reject(r)
    /\ UNCHANGED <<storeVars, jar, gate, minted, upstreamLive, restarts>>

\* No valid pre-login, a wrong CSRF token, a bad body or a full gate.
LoginInvalid(r) ==
    /\ At(r, "sent", {"login"})
    /\ req[r].prelogin \in prelogins
    /\ GetPrelogin(req[r].prelogin)
    /\ Reject(r)
    /\ UNCHANGED <<jar, gate, minted, upstreamLive, restarts>>

\* Slip: the pre-login is used up before the upstream accepted the key.
LoginAdmittedDropping(r) ==
    /\ At(r, "sent", {"login"})
    /\ req[r].prelogin \in SweptPrelogins
    /\ DropPrelogin(req[r].prelogin)
    /\ gate.login < LoginGate
    /\ Enter("login")
    /\ Await(r, "upstream")
    /\ UNCHANGED <<jar, minted, upstreamLive, restarts>>

LoginAdmitted(r) ==
    /\ At(r, "sent", {"login"})
    /\ req[r].prelogin \in prelogins
    /\ ~PreloginExpired(preloginObject[req[r].prelogin])
    /\ GetPrelogin(req[r].prelogin)
    /\ gate.login < LoginGate
    /\ Enter("login")
    /\ Await(r, "upstream")
    /\ UNCHANGED <<jar, minted, upstreamLive, restarts>>

\* The upstream creates a session of its own for this login.  Credentials and
\* tokens are both fresh random values: c also names the token that
\* createSession will draw if the login gets that far.
UpstreamCreates(r, c) ==
    /\ At(r, "upstream", {"login"})
    /\ req[r].answer = "none"
    /\ c \in Token \ minted
    /\ minted' = minted \cup {c}
    /\ upstreamLive' = upstreamLive \cup {c}
    /\ req' = [req EXCEPT ![r].answer = "created", ![r].credential = c]
    /\ UNCHANGED <<storeVars, jar, gate, restarts>>

\* Slip: the capacity was only checked before the await.
LoginCreatedUnchecked(r, absolute, idle) ==
    LET c == req[r].credential IN
    /\ At(r, "upstream", {"login"})
    /\ req[r].answer = "created"
    /\ sessions' = SweptSessions \cup {c}
    /\ object' = Allocate(object, c, NewSession(absolute, idle))
    /\ prelogins' = SweptPrelogins \ {req[r].prelogin}
    /\ req' = [req EXCEPT ![r].pc = "probe", ![r].outcome = "authenticated",
                          ![r].setSession = c, ![r].setPrelogin = NoToken]
    /\ UNCHANGED <<now, preloginObject, jar, gate, minted, upstreamLive, restarts>>

LoginCreated(r, absolute, idle) ==
    LET c == req[r].credential IN
    /\ At(r, "upstream", {"login"})
    /\ req[r].answer = "created"
    /\ Cardinality(SweptSessions) < MaxSessions
    /\ sessions' = SweptSessions \cup {c}
    /\ object' = Allocate(object, c, NewSession(absolute, idle))
    /\ prelogins' = SweptPrelogins \ {req[r].prelogin}
    /\ req' = [req EXCEPT ![r].pc = "probe", ![r].outcome = "authenticated",
                          ![r].setSession = c, ![r].setPrelogin = NoToken]
    /\ UNCHANGED <<now, preloginObject, jar, gate, minted, upstreamLive, restarts>>

\* Slip: createSession throws past the statement that leaves the gate.
LoginFullStaying(r) ==
    /\ At(r, "upstream", {"login"})
    /\ req[r].answer = "created"
    /\ Cardinality(SweptSessions) >= MaxSessions
    /\ Sweep
    /\ Reject(r)
    /\ UNCHANGED <<jar, gate, minted, upstreamLive, restarts>>

\* createSession throws after its sweep: the pre-login stays, the credential
\* just obtained is dropped without being revoked.
LoginFull(r) ==
    /\ At(r, "upstream", {"login"})
    /\ req[r].answer = "created"
    /\ Cardinality(SweptSessions) >= MaxSessions
    /\ Sweep
    /\ Reject(r)
    /\ Leave("login")
    /\ UNCHANGED <<jar, minted, upstreamLive, restarts>>

\* Slip: the upstream call has no timeout.
LoginFailedLate(r) ==
    /\ At(r, "upstream", {"login"})
    /\ req[r].answer # "none"
    /\ Reject(r)
    /\ Leave("login")
    /\ UNCHANGED <<storeVars, jar, minted, upstreamLive, restarts>>

\* A timeout, a transport error, a status other than 201 or a 201 whose body
\* lacks a field; the upstream may have created the session nonetheless.
LoginFailed(r) ==
    /\ At(r, "upstream", {"login"})
    /\ Reject(r)
    /\ Leave("login")
    /\ UNCHANGED <<storeVars, jar, minted, upstreamLive, restarts>>

LoginProbed(r) ==
    /\ At(r, "probe", {"login"})
    /\ Await(r, "reply")
    /\ Leave("login")
    /\ UNCHANGED <<storeVars, jar, minted, upstreamLive, restarts>>

-----------------------------------------------------------------------------
(* handleSession.                                                          *)

SessionArrives(r) ==
    LET t == req[r].session IN
    /\ At(r, "sent", {"session"})
    /\ LookUp(t)
    /\ req' = IF Found(t)
              THEN [req EXCEPT ![r].pc = "probe", ![r].outcome = "authenticated"]
              ELSE [req EXCEPT ![r].pc = "probe", ![r].outcome = "anonymous",
                               ![r].setSession = ClearIfPresented(r)]
    /\ UNCHANGED <<jar, gate, minted, upstreamLive, restarts>>

Stale(t) == now - object[t].lastUpstreamSessionRefreshAt > RefreshInterval

\* Slip: the age of the summary is not looked at after the probe.
SessionProbedStale(r) ==
    /\ At(r, "probe", {"session"})
    /\ Await(r, "reply")
    /\ UNCHANGED <<storeVars, jar, gate, minted, upstreamLive, restarts>>

\* After the probe: the answer without a session, or with the object found
\* before the probe when it needs no refresh.
SessionProbed(r) ==
    /\ At(r, "probe", {"session"})
    /\ req[r].outcome = "authenticated" => ~Stale(req[r].session)
    /\ Await(r, "reply")
    /\ UNCHANGED <<storeVars, jar, gate, minted, upstreamLive, restarts>>

SessionNeedsRefresh(r) ==
    /\ At(r, "probe", {"session"})
    /\ req[r].outcome = "authenticated" /\ Stale(req[r].session)
    /\ Await(r, "upstream")
    /\ UNCHANGED <<storeVars, jar, gate, minted, upstreamLive, restarts>>

\* Slip: the refreshed session is written back to the Map.
SessionRecheckedStoring(r, o, a) ==
    /\ sessions' = sessions \cup {req[r].session}
    /\ object' = [object EXCEPT ![req[r].session] = o]
    /\ req' = [req EXCEPT ![r].pc = "reply", ![r].answer = a,
                          ![r].outcome = "authenticated"]
    /\ UNCHANGED <<now, prelogins, preloginObject>>

\* The second getSession, for an object o already mutated by this stretch,
\* after the answer a, "none" if the call threw.
SessionRechecked(r, o, a) ==
    LET t == req[r].session
        found == t \in sessions /\ ~IsExpired(o)
    IN /\ sessions' = IF IsExpired(o) THEN sessions \ {t} ELSE sessions
       /\ object' = [object EXCEPT ![t] = IF found THEN [o EXCEPT !.lastSeenAt = now]
                                                   ELSE o]
       /\ req' = [req EXCEPT ![r].pc = "reply", ![r].answer = a,
                             ![r].outcome = IF found THEN "authenticated"
                                                     ELSE "anonymous"]
       /\ UNCHANGED <<now, prelogins, preloginObject>>

SessionRefreshed(r, absolute, idle) ==
    /\ At(r, "upstream", {"session"})
    /\ req[r].answer = "ok"
    /\ SessionRechecked(r, Refreshed(object[req[r].session], absolute, idle), "ok")
    /\ UNCHANGED <<jar, gate, minted, upstreamLive, restarts>>

SessionInvalidated(r) ==
    /\ At(r, "upstream", {"session"})
    /\ req[r].answer \in {"invalid", "forbidden"}
    /\ Destroy(req[r].session)
    /\ Reply(r, "anonymous", NoToken, Keep)
    /\ UNCHANGED <<jar, gate, minted, upstreamLive, restarts>>

\* Another status, or the call threw: only the time of the attempt is noted.
SessionUnrefreshed(r) ==
    /\ At(r, "upstream", {"session"})
    /\ \E a \in {"none", "error"} \cap {"none", req[r].answer} :
          SessionRechecked(r, [object[req[r].session] EXCEPT
                                 !.lastUpstreamSessionRefreshAt = now], a)
    /\ UNCHANGED <<jar, gate, minted, upstreamLive, restarts>>

-----------------------------------------------------------------------------
(* handleLogout.                                                           *)

LogoutRefused(r) ==
    /\ At(r, "sent", {"logout"})
    /\ Reject(r)
    /\ UNCHANGED <<storeVars, jar, gate, minted, upstreamLive, restarts>>

LogoutWithoutSession(r) ==
    /\ At(r, "sent", {"logout"})
    /\ ~Found(req[r].session)
    /\ LookUp(req[r].session)
    /\ Reply(r, "notAttempted", NoToken, NoToken)
    /\ UNCHANGED <<jar, gate, minted, upstreamLive, restarts>>

\* assertCsrf throws; the look-up already counted as activity.
LogoutWithoutCsrf(r) ==
    /\ At(r, "sent", {"logout"})
    /\ Found(req[r].session)
    /\ LookUp(req[r].session)
    /\ Reject(r)
    /\ UNCHANGED <<jar, gate, minted, upstreamLive, restarts>>

LogoutAdmitted(r) ==
    /\ At(r, "sent", {"logout"})
    /\ Found(req[r].session)
    /\ LookUp(req[r].session)
    /\ Await(r, "upstream")
    /\ UNCHANGED <<jar, gate, minted, upstreamLive, restarts>>

\* Slip: the local session survives a failed revocation.
LogoutDoneIfRevoked(r) ==
    /\ At(r, "upstream", {"logout"})
    /\ \/ /\ req[r].answer = "ok"
          /\ Destroy(req[r].session)
          /\ Reply(r, "revoked", NoToken, NoToken)
       \/ /\ Reply(r, "unconfirmed", NoToken, NoToken)
          /\ UNCHANGED storeVars
    /\ UNCHANGED <<jar, gate, minted, upstreamLive, restarts>>

\* Slip: a logout that is answered at all counts as a revocation.
LogoutDoneOptimistic(r) ==
    /\ At(r, "upstream", {"logout"})
    /\ Destroy(req[r].session)
    /\ Reply(r, IF req[r].answer = "none" THEN "unconfirmed" ELSE "revoked",
             NoToken, NoToken)
    /\ UNCHANGED <<jar, gate, minted, upstreamLive, restarts>>

\* The answer, an error or a timeout: the local session goes in every case.
LogoutDone(r) ==
    /\ At(r, "upstream", {"logout"})
    /\ Destroy(req[r].session)
    /\ \/ /\ req[r].answer = "ok"
          /\ Reply(r, "revoked", NoToken, NoToken)
       \/ Reply(r, "unconfirmed", NoToken, NoToken)
    /\ UNCHANGED <<jar, gate, minted, upstreamLive, restarts>>

-----------------------------------------------------------------------------
(* The management proxy and handleDiagnostics.                             *)

WithoutSession(r) ==
    /\ At(r, "sent", {"proxy", "diagnostics"})
    /\ ~Found(req[r].session)
    /\ LookUp(req[r].session)
    /\ Reply(r, "rejected", ClearIfPresented(r), Keep)
    /\ UNCHANGED <<jar, gate, minted, upstreamLive, restarts>>

\* Origin, CSRF, the allow-list or the size limit refuses an admitted request.
ProxyRefused(r) ==
    /\ At(r, "sent", {"proxy"})
    /\ Found(req[r].session)
    /\ LookUp(req[r].session)
    /\ Reject(r)
    /\ UNCHANGED <<jar, gate, minted, upstreamLive, restarts>>

Admitted(r) ==
    /\ At(r, "sent", {"proxy", "diagnostics"})
    /\ Found(req[r].session)
    /\ LookUp(req[r].session)
    /\ Await(r, IF req[r].kind = "proxy" THEN "upstream" ELSE "probe")
    /\ UNCHANGED <<jar, gate, minted, upstreamLive, restarts>>

ProxyInvalidated(r) ==
    /\ At(r, "upstream", {"proxy"})
    /\ req[r].answer = "invalid"
    /\ Destroy(req[r].session)
    /\ Reply(r, "answered", NoToken, Keep)
    /\ UNCHANGED <<jar, gate, minted, upstreamLive, restarts>>

ProxyAnswered(r) ==
    /\ At(r, "upstream", {"proxy"})
    /\ req[r].answer \in {"ok", "forbidden", "error"}
    /\ Reply(r, "answered", Keep, Keep)
    /\ UNCHANGED <<storeVars, jar, gate, minted, upstreamLive, restarts>>

\* upstream.call throws: timeout, transport error, redirect or oversized answer.
ProxyFailed(r) ==
    /\ At(r, "upstream", {"proxy"})
    /\ req' = [req EXCEPT ![r].pc = "reply", ![r].answer = "none",
                          ![r].outcome = "rejected"]
    /\ UNCHANGED <<storeVars, jar, gate, minted, upstreamLive, restarts>>

DiagnosticsProbed(r) ==
    /\ At(r, "probe", {"diagnostics"})
    /\ Reply(r, "answered", Keep, Keep)
    /\ UNCHANGED <<storeVars, jar, gate, minted, upstreamLive, restarts>>

-----------------------------------------------------------------------------
(* The upstream.                                                           *)

Calling == {"session", "proxy", "logout"}

\* It processes the call of r: it refuses a credential it no longer accepts,
\* and fails or forbids as it likes.
UpstreamAnswers(r) ==
    /\ At(r, "upstream", Calling)
    /\ req[r].answer = "none"
    /\ \E a \in {"ok", "invalid", "forbidden", "error"} :
          /\ a = "ok" => req[r].session \in upstreamLive
          /\ a = "invalid" => req[r].session \notin upstreamLive
          /\ req' = [req EXCEPT ![r].answer = a]
          /\ upstreamLive' = IF a = "ok" /\ req[r].kind = "logout"
                             THEN upstreamLive \ {req[r].session} ELSE upstreamLive
    /\ UNCHANGED <<storeVars, jar, gate, minted, restarts>>

\* A session ends on the upstream's side: expiry, revocation, its own restart.
UpstreamEnds(c) ==
    /\ c \in upstreamLive
    /\ upstreamLive' = upstreamLive \ {c}
    /\ UNCHANGED <<storeVars, jar, req, gate, minted, restarts>>

-----------------------------------------------------------------------------
(* The process.                                                            *)

\* The BFF restarts: memory is gone, cookies and messages on their way remain.
\* The heap only remembers which tokens were drawn.
Restart ==
    /\ restarts < MaxRestarts
    /\ restarts' = restarts + 1
    /\ sessions' = {} /\ prelogins' = {}
    /\ gate' = [login |-> 0, bootstrap |-> 0]
    /\ req' = [r \in Request |-> IF req[r].pc \in {"upstream", "probe"}
                                 THEN Free ELSE req[r]]
    /\ UNCHANGED <<now, object, preloginObject, jar, minted, upstreamLive>>

Clock == (Sweep \/ Tick) /\ UNCHANGED ctlVars

Init ==
    /\ StoreInit
    /\ jar = [b \in Browser |-> [session |-> NoToken, prelogin |-> NoToken]]
    /\ req = [r \in Request |-> Free]
    /\ gate = [login |-> 0, bootstrap |-> 0]
    /\ minted = {} /\ upstreamLive = {} /\ restarts = 0

\* The next stretch of the handler of r, once the request has arrived.
HandlerStep(r) ==
    \/ BootstrapProbed(r) \/ LoginProbed(r) \/ DiagnosticsProbed(r)
    \/ LoginFull(r) \/ LoginFailed(r)
    \/ SessionProbed(r) \/ SessionNeedsRefresh(r)
    \/ SessionInvalidated(r) \/ SessionUnrefreshed(r)
    \/ LogoutDone(r)
    \/ ProxyInvalidated(r) \/ ProxyAnswered(r) \/ ProxyFailed(r)
    \/ \E absolute \in MaybeTime, idle \in MaybeIdleTime :
          LoginCreated(r, absolute, idle) \/ SessionRefreshed(r, absolute, idle)

Arrives(r) ==
    \/ BootstrapRefused(r) \/ BootstrapReuse(r) \/ BootstrapCreate(r)
    \/ BootstrapFull(r)
    \/ LoginRefused(r) \/ LoginInvalid(r) \/ LoginAdmitted(r)
    \/ SessionArrives(r)
    \/ LogoutRefused(r) \/ LogoutWithoutSession(r) \/ LogoutWithoutCsrf(r)
    \/ LogoutAdmitted(r)
    \/ WithoutSession(r) \/ ProxyRefused(r) \/ Admitted(r)

Next ==
    \/ \E r \in Request :
          \/ \E b \in Browser, k \in Handlers : Send(r, b, k)
          \/ Arrives(r) \/ HandlerStep(r) \/ Deliver(r) \/ Lose(r)
          \/ UpstreamAnswers(r)
          \/ \E c \in Token : UpstreamCreates(r, c)
    \/ \E c \in Token : UpstreamEnds(c)
    \/ Restart
    \/ Clock

\* Every await ends: upstream.call aborts at its timeout and the probe has one
\* of its own, so a handler that can go on eventually does.
Spec == Init /\ [][Next]_vars /\ \A r \in Request : WF_vars(HandlerStep(r))

-----------------------------------------------------------------------------
(* Properties.                                                             *)

\* Types; a session is only ever created for a credential the upstream made,
\* so the token a login is about to insert is never in use.
TypeOK ==
    /\ StoreTypeOK /\ CapacityBound
    /\ jar \in [Browser -> [session : Token \cup {NoToken},
                            prelogin : PreToken \cup {NoToken}]]
    /\ req \in [Request -> RequestType \cup {Free}]
    /\ gate \in [{"login", "bootstrap"} -> Nat]
    /\ minted \in SUBSET Token /\ upstreamLive \in SUBSET minted
    /\ DOMAIN object \subseteq minted
    /\ restarts \in 0..MaxRestarts

\* Each gate counts exactly the requests inside it, on every path out of the
\* handlers (rejection, capacity error, failed call, restart), within its limit.
Inside(k) == {r \in Request : /\ req[r].pc \in {"upstream", "probe"}
                              /\ req[r].kind = k}
GateBalanced ==
    /\ gate.login = Cardinality(Inside("login")) /\ gate.login <= LoginGate
    /\ gate.bootstrap = Cardinality(Inside("bootstrap"))
    /\ gate.bootstrap <= BootstrapGate

\* "Logout destroys the local session whether or not the upstream answers" and
\* "every upstream answer that a session is invalid clears the local one":
\* once such a reply is on its way no other request, refresh or login has the
\* session back in the table.
EndedSessionsGone ==
    \A r \in Request :
        /\ req[r].pc = "reply"
        /\ \/ req[r].kind = "logout" /\ req[r].outcome # "rejected"
           \/ req[r].kind = "session" /\ req[r].answer \in {"invalid", "forbidden"}
           \/ req[r].kind = "proxy" /\ req[r].answer = "invalid"
        => req[r].session \notin sessions

\* A logout reports "revoked" only if the upstream no longer accepts the
\* credential; otherwise it says "unconfirmed".
RevocationConfirmed ==
    \A r \in Request :
        req[r].pc = "reply" /\ req[r].outcome = "revoked"
        => req[r].session \notin upstreamLive

\* A login that fails leaves its pre-login usable for the next attempt: one
\* goes only by expiry, by a login that succeeded with it, or by a restart.
PreloginKept ==
    \A p \in prelogins \ prelogins' :
        \/ PreloginExpired(preloginObject[p])
        \/ restarts' # restarts
        \/ \E r \in Request : /\ At(r, "upstream", {"login"})
                              /\ req[r].prelogin = p
                              /\ req'[r].outcome = "authenticated"
PreloginUsedByLogin == [][PreloginKept]_vars

\* GET /bff/auth/session says "authenticated" only with a summary at most one
\* refresh interval old or just asked for, although the probe it awaits first
\* takes time; and after a refresh only if the session is still in the table.
AuthenticatedChecked ==
    \A r \in Request :
        /\ req[r].pc \in {"probe", "upstream"} /\ req[r].kind = "session"
        /\ req'[r].pc = "reply" /\ req'[r].outcome = "authenticated"
        => /\ now - object'[req[r].session].lastUpstreamSessionRefreshAt
                 <= RefreshInterval
           /\ req[r].pc = "upstream" => req[r].session \in sessions'
AuthenticatedRepliesChecked == [][AuthenticatedChecked]_vars

\* Every request a handler has taken up is answered (or cut off by a restart),
\* so no handler holds its gate for ever.
RequestsAnswered ==
    \A r \in Request :
        req[r].pc \in {"upstream", "probe"} ~> req[r].pc \in {"reply", "free"}

-----------------------------------------------------------------------------
(* A claim of the documentation that the code does not meet.               *)

\* docs/acceptance.md: after a login the pre-login cannot be reused.  Two logins
\* that both read it before either finished create a session each.
PreloginLogsInOnce ==
    \A r, s \in Request :
        /\ r # s
        /\ At(r, "probe", {"login"}) \/ At(r, "reply", {"login"})
        /\ At(s, "probe", {"login"}) \/ At(s, "reply", {"login"})
        /\ req[r].outcome = "authenticated" /\ req[s].outcome = "authenticated"
        => req[r].prelogin # req[s].prelogin
=============================================================================
