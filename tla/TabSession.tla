----------------------------- MODULE TabSession -----------------------------
(***************************************************************************)
(* The session as the tabs of one browser see it: AuthProvider.tsx, the    *)
(* CSRF token and the lost-session handler of api/client.ts, the buttons   *)
(* of LoginPage.tsx, App.tsx and AppShell.tsx.  The tabs share the cookies *)
(* and tell each other of a logout; everything else is each tab's own.     *)
(*                                                                         *)
(* The BFF is here what AuthController shows it to be, one step for each   *)
(* request: it may answer late, and a reply's cookies are set on arrival.  *)
(* Sessions and pre-login sessions are numbers in the order they are made. *)
(***************************************************************************)
EXTENDS Page

CONSTANTS Tab,
          MaxLogins,    \* bound of the model: sessions made
          MaxPrelogins, \* bound of the model: pre-login sessions made
          MaxPending    \* bound of the model: calls under way in the browser

ASSUME TabSessionAssumption ==
    MaxLogins \in Nat /\ MaxPrelogins \in Nat /\ MaxPending \in Nat /\ IsFiniteSet(Tab)

VARIABLES tabs,    \* of each tab AuthProvider's state and the client's token
          wire,    \* the calls under way, each with what it carries
          cookies, \* the two cookies of the browser
          bff,     \* the sessions the BFF knows, and how many it has made
          news     \* the tabs a logout in another tab is yet to be told

sessionVars == <<tabs, wire, cookies, bff, news>>

OpenTabs == DOMAIN tabs
SessionId  == 1..MaxLogins
PreloginId == 1..MaxPrelogins

\* A CSRF token belongs to one session or to one pre-login session.
SessionToken(s)  == [of |-> "session", id |-> s]
PreloginToken(p) == [of |-> "prelogin", id |-> p]
CsrfToken == {SessionToken(s) : s \in SessionId} \cup
             {PreloginToken(p) : p \in PreloginId}

ASSUME TokenAssumption == None \notin CsrfToken

\* "init" and "initSession" are the calls of the first effect, "fresh" the
\* bootstrap of login, "retry" that of the buttons; "read" and "write" stand
\* for the pages' calls to the management API.
BootstrapKind == {"init", "retry", "fresh"}
BffCallKind == BootstrapKind \cup
            {"initSession", "login", "session", "logout", "read", "write"}
AuthStatus == {"loading", "anonymous", "authenticated", "error"}
BffAnswer == {"none", "ok", "anonymous", "lost", "error", "ended"}

SessionTypeOK ==
    /\ OpenTabs \subseteq Tab
    /\ tabs \in [OpenTabs -> [status : AuthStatus, token : CsrfToken \cup {None},
                         shown : SessionId \cup {None}, bootstrapped : BOOLEAN]]
    /\ wire \subseteq
         [tab : Tab, kind : BffCallKind, mounted : BOOLEAN, answer : BffAnswer,
          shown : SessionId \cup {None}, session : SessionId \cup {None},
          prelogin : PreloginId \cup {None}, token : CsrfToken \cup {None}]
    /\ cookies \in [session : SessionId \cup {None}, prelogin : PreloginId \cup {None}]
    /\ bff.sessions \subseteq 1..bff.logins /\ bff.logins \in 0..MaxLogins
    /\ bff.prelogins \subseteq 1..bff.made /\ bff.made \in 0..MaxPrelogins
    /\ news \subseteq OpenTabs

-----------------------------------------------------------------------------
(* Calls.                                                                  *)

CallsOf(t) == {c \in wire : c.tab = t}

\* performRequest: the browser adds the cookies, of which a handler looks at
\* one, and the client its token; `shown` is what the tab shows meanwhile.
PreloginKind == BootstrapKind \cup {"login"}
BffCall(t, kind, token, jar) ==
    [tab |-> t, kind |-> kind, mounted |-> TRUE, answer |-> "none", token |-> token,
     shown    |-> IF kind \in {"write", "logout"} THEN tabs[t].shown ELSE None,
     session  |-> IF kind \in PreloginKind THEN None ELSE jar.session,
     prelogin |-> IF kind \in PreloginKind THEN jar.prelogin ELSE None]

\* The bound on the calls under way is shared out among the open tabs.
Room(t) == Cardinality(CallsOf(t)) * Cardinality(OpenTabs) < MaxPending

\* A write without a token is refused before it is sent.
SendCall(t, kind) ==
    LET isWrite == kind \in {"login", "logout", "write"}
        call    == BffCall(t, kind, IF isWrite THEN tabs[t].token ELSE None, cookies)
    IN  /\ Room(t)
        /\ isWrite => tabs[t].token # None
        /\ call \notin wire
        /\ wire' = wire \cup {call}

\* What the BFF answers: from here on `token` is the one it returns, and the
\* cookies those it made, where it made one.
Reply(c, answer, token, session, prelogin) ==
    wire' = (wire \ {c}) \cup
            {[c EXCEPT !.answer = answer, !.token = token,
                       !.session = session, !.prelogin = prelogin]}
Answers(c, answer) == Reply(c, answer, None, c.session, c.prelogin)

-----------------------------------------------------------------------------
(* The BFF.                                                                *)

Live(c) == c.session \in bff.sessions
Passed(c, kinds) == c \in wire /\ c.answer = "none" /\ c.kind \in kinds

\* A limiter, a gate, the network, or an upstream that does not answer.
Refused(c) ==
    /\ Passed(c, BffCallKind)
    /\ Answers(c, "error")
    /\ UNCHANGED <<tabs, cookies, bff, news>>

\* getOrCreatePrelogin: the pre-login session of the cookie, or a new one.
Bootstraps(c) ==
    /\ Passed(c, BootstrapKind)
    /\ IF c.prelogin \in bff.prelogins
       THEN /\ Reply(c, "ok", PreloginToken(c.prelogin), c.session, c.prelogin)
            /\ UNCHANGED bff
       ELSE /\ bff.made < MaxPrelogins
            /\ Reply(c, "ok", PreloginToken(bff.made + 1), c.session, bff.made + 1)
            /\ bff' = [bff EXCEPT !.made = @ + 1, !.prelogins = @ \cup {bff.made + 1}]
    /\ UNCHANGED <<tabs, cookies, news>>

\* The management key is right: a session is made, the pre-login session ends.
LogsIn(c) ==
    /\ Passed(c, {"login"})
    /\ c.prelogin \in bff.prelogins /\ c.token = PreloginToken(c.prelogin)
    /\ bff.logins < MaxLogins
    /\ Reply(c, "ok", SessionToken(bff.logins + 1), bff.logins + 1, None)
    /\ bff' = [bff EXCEPT !.logins = @ + 1, !.sessions = @ \cup {bff.logins + 1},
                          !.prelogins = @ \ {c.prelogin}]
    /\ UNCHANGED <<tabs, cookies, news>>

\* handleSession: nobody is signed in, or the upstream no longer accepts who
\* was; that is no error.
TellsSession(c) ==
    /\ Passed(c, {"initSession", "session"})
    /\ \/ /\ Live(c)
          /\ Reply(c, "ok", SessionToken(c.session), c.session, c.prelogin)
          /\ UNCHANGED bff
       \/ /\ Answers(c, "anonymous")
          /\ bff' = [bff EXCEPT !.sessions = @ \ {c.session}]
    /\ UNCHANGED <<tabs, cookies, news>>

\* Slip: any token will do.
CsrfAcceptedAny(c) == c.token # None
\* assertCsrf.
CsrfAccepted(c) == c.token = SessionToken(c.session)

\* handleLogout needs the token only when there is a session to end.
LogsOut(c) ==
    /\ Passed(c, {"logout"})
    /\ IF Live(c)
       THEN IF CsrfAccepted(c)
            THEN /\ Answers(c, "ended")
                 /\ bff' = [bff EXCEPT !.sessions = @ \ {c.session}]
            ELSE /\ Answers(c, "error")
                 /\ UNCHANGED bff
       ELSE /\ Answers(c, "ok")
            /\ UNCHANGED bff
    /\ UNCHANGED <<tabs, cookies, news>>

\* The proxy: no session, a token that is not the session's, an upstream that
\* no longer accepts the session, or the answer.
Proxies(c) ==
    /\ Passed(c, {"read", "write"})
    /\ \/ /\ Live(c) /\ (c.kind = "write" => CsrfAccepted(c))
          /\ Answers(c, "ok")
          /\ UNCHANGED bff
       \/ /\ Live(c) /\ c.kind = "write" /\ ~CsrfAccepted(c)
          /\ Answers(c, "error")
          /\ UNCHANGED bff
       \/ /\ Live(c) => (c.kind = "write" => CsrfAccepted(c))
          /\ Answers(c, "lost")
          /\ bff' = [bff EXCEPT !.sessions = @ \ {c.session}]
    /\ UNCHANGED <<tabs, cookies, news>>

\* A timeout, the sweep, the capacity or a restart ends a session.
EndsSession(s) ==
    /\ s \in bff.sessions
    /\ bff' = [bff EXCEPT !.sessions = @ \ {s}]
    /\ UNCHANGED <<tabs, wire, cookies, news>>
EndsPrelogin(p) ==
    /\ p \in bff.prelogins
    /\ bff' = [bff EXCEPT !.prelogins = @ \ {p}]
    /\ UNCHANGED <<tabs, wire, cookies, news>>

-----------------------------------------------------------------------------
(* What an answer does to the cookies and to the tab.                      *)

\* Set-Cookie: a session is set by a login and cleared for a request that
\* presented one which is gone; a logout clears both, whatever was there.
NextCookies(c) ==
    [session  |-> IF c.kind = "login" /\ c.answer = "ok" THEN c.session
                  ELSE IF \/ c.answer \in {"anonymous", "lost"} /\ c.session # None
                          \/ c.kind = "logout" /\ c.answer \in {"ok", "ended"} THEN None
                  ELSE cookies.session,
     prelogin |-> IF c.kind \in BootstrapKind /\ c.answer = "ok" THEN c.prelogin
                  ELSE IF \/ c.kind = "login" /\ c.answer = "ok"
                          \/ c.kind = "logout" /\ c.answer \in {"ok", "ended"} THEN None
                  ELSE cookies.prelogin]

\* The router shows the login page or the shell by the status: when it leaves
\* or enters "authenticated" the form or button that the other one had locked
\* is gone, though its promise still runs.
Unmounted(calls, t, status) ==
    IF (status = "authenticated") = (tabs[t].status = "authenticated") THEN calls
    ELSE {IF c.tab = t /\ c.kind \in {"fresh", "login", "logout"}
          THEN [c EXCEPT !.mounted = FALSE] ELSE c : c \in calls}

\* Tab t receives the answer c and goes on as `next`, with what it sends then.
Receive(c, next, sends) ==
    /\ c \in wire /\ c.answer # "none"
    /\ cookies' = NextCookies(c)
    /\ tabs' = [tabs EXCEPT ![c.tab] = next]
    /\ wire' = Unmounted(wire \ {c}, c.tab, next.status) \cup sends
    /\ UNCHANGED bff

\* Slip: the status stays what it was.
ClearedQuietly(t) == [tabs[t] EXCEPT !.token = None, !.shown = None]
\* clearLocalSession.
Cleared(t) == [tabs[t] EXCEPT !.status = "anonymous", !.token = None, !.shown = None]

SignedIn(t, c) ==
    [tabs[t] EXCEPT !.status = "authenticated", !.token = c.token, !.shown = c.session]

\* The status after a failure that keeps a signed-in tab signed in.
KeptOr(t, status) ==
    IF tabs[t].status = "authenticated" THEN "authenticated" ELSE status

\* refreshBootstrap: only a login adopts the pre-login token over another.
Bootstrapped(t, c) ==
    [tabs[t] EXCEPT !.bootstrapped = TRUE,
                    !.token = IF c.kind = "fresh" \/ @ = None THEN c.token ELSE @]

\* The call that a chain of calls goes on with carries the cookies of then.
Follow(c, kind, token) == {BffCall(c.tab, kind, token, NextCookies(c))}

BootstrapArrives(c) ==
    /\ c.kind \in BootstrapKind
    /\ \/ /\ c.answer = "ok"
          /\ Receive(c, Bootstrapped(c.tab, c),
                     IF c.kind = "init" THEN Follow(c, "initSession", None)
                     ELSE IF c.kind = "fresh" THEN Follow(c, "login", c.token)
                     ELSE {})
       \/ /\ c.answer = "error"
          /\ Receive(c, [tabs[c.tab] EXCEPT
                            !.status = KeptOr(c.tab,
                                IF c.kind = "init" /\ tabs[c.tab].bootstrapped
                                THEN "anonymous" ELSE "error")], {})
    /\ UNCHANGED news

\* refreshSession: an answer that nobody is signed in leaves the token alone,
\* which may be the one the login page has just been given.
SessionArrives(c) ==
    /\ c.kind \in {"initSession", "session"}
    /\ \/ c.answer = "ok" /\ Receive(c, SignedIn(c.tab, c), {})
       \/ /\ c.answer = "anonymous"
          /\ Receive(c, [tabs[c.tab] EXCEPT !.status = "anonymous", !.shown = None], {})
       \/ /\ c.answer = "error"
          /\ Receive(c, [tabs[c.tab] EXCEPT
                            !.status = IF c.kind = "initSession"
                                       THEN KeptOr(c.tab, "anonymous") ELSE @], {})
    /\ UNCHANGED news

\* login: a refusal is shown on the page and is no loss of a session.
LoginArrives(c) ==
    /\ c.kind = "login"
    /\ \/ c.answer = "ok" /\ Receive(c, SignedIn(c.tab, c), {})
       \/ c.answer = "error" /\ Receive(c, tabs[c.tab], {})
    /\ UNCHANGED news

\* logout: whatever the answer, the tab is signed out and the others are told.
LogoutArrives(c) ==
    /\ c.kind = "logout"
    /\ Receive(c, Cleared(c.tab), {})
    /\ news' = news \cup (OpenTabs \ {c.tab})

\* Any call of a page: a 401 runs the lost-session handler.
PageCallArrives(c) ==
    /\ c.kind \in {"read", "write"}
    /\ Receive(c, IF c.answer = "lost" THEN Cleared(c.tab) ELSE tabs[c.tab], {})
    /\ UNCHANGED news

\* The BroadcastChannel delivers.
HearLogout(t) ==
    /\ t \in news
    /\ news' = news \ {t}
    /\ tabs' = [tabs EXCEPT ![t] = Cleared(t)]
    /\ wire' = Unmounted(wire, t, "anonymous")
    /\ UNCHANGED <<cookies, bff>>

-----------------------------------------------------------------------------
(* What the operator does.                                                 *)

Sends(t, kind) == SendCall(t, kind) /\ UNCHANGED <<tabs, cookies, bff, news>>
Locked(t, kinds) == \E c \in CallsOf(t) : c.kind \in kinds /\ c.mounted

\* The login page is there in every status but "authenticated"; its form locks
\* while it submits.
SubmitLogin(t) ==
    /\ tabs[t].status # "authenticated"
    /\ ~Locked(t, {"fresh", "login"})
    /\ Sends(t, "fresh")

\* "重新检测" and the retry of an error notice.
RetryBootstrap(t) == tabs[t].status # "authenticated" /\ Sends(t, "retry")

\* The shell's two buttons, the second of which locks.
RefreshSession(t) == tabs[t].status = "authenticated" /\ Sends(t, "session")
Logout(t) ==
    /\ tabs[t].status = "authenticated"
    /\ ~Locked(t, {"logout"})
    /\ Sends(t, "logout")

PageCall(t) ==
    /\ tabs[t].status = "authenticated"
    /\ \E kind \in {"read", "write"} : Sends(t, kind)

\* The tab is opened or loaded again: its calls are given up.
Opened == [status |-> "loading", token |-> None, shown |-> None, bootstrapped |-> FALSE]
Reload(t) ==
    /\ tabs' = [tabs EXCEPT ![t] = Opened]
    /\ wire' = (wire \ CallsOf(t)) \cup {BffCall(t, "init", None, cookies)}
    /\ news' = news \ {t}
    /\ UNCHANGED <<cookies, bff>>

\* The tabs that are open stay open.
SessionInit(T) ==
    /\ tabs = [t \in T |-> Opened]
    /\ cookies = [session |-> None, prelogin |-> None]
    /\ wire = {BffCall(t, "init", None, cookies) : t \in T}
    /\ bff = [sessions |-> {}, logins |-> 0, prelogins |-> {}, made |-> 0]
    /\ news = {}

SessionNext ==
    \/ \E c \in wire : \/ Refused(c) \/ Bootstraps(c) \/ LogsIn(c) \/ TellsSession(c)
                       \/ LogsOut(c) \/ Proxies(c)
                       \/ BootstrapArrives(c) \/ SessionArrives(c) \/ LoginArrives(c)
                       \/ LogoutArrives(c) \/ PageCallArrives(c)
    \/ \E t \in OpenTabs : \/ HearLogout(t) \/ SubmitLogin(t) \/ RetryBootstrap(t)
                       \/ RefreshSession(t) \/ Logout(t) \/ PageCall(t) \/ Reload(t)
    \/ \E s \in SessionId : EndsSession(s)
    \/ \E p \in PreloginId : EndsPrelogin(p)

-----------------------------------------------------------------------------
\* A write or a logout that the BFF carries out acts for the session that the
\* tab showed when it was sent, though another tab of the browser may have
\* signed in anew meanwhile and the cookie is shared (assertCsrf, against the
\* token that AuthProvider sets together with the session it shows).
WritesActAsShown ==
    \A c \in wire :
       (c.kind = "write" /\ c.answer = "ok") \/ c.answer = "ended"
       => c.shown = c.session

\* A tab that shows somebody as signed in has a token to write with: client.ts
\* never refuses a write of its pages, whatever answers came in what order
\* (AuthProvider.tsx: refreshSession, clearLocalSession, refreshBootstrap).
SignedInCanWrite ==
    \A t \in OpenTabs : tabs[t].status = "authenticated" => tabs[t].token # None
=============================================================================
