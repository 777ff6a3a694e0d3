----------------------------- MODULE ReplyChecks -----------------------------
(***************************************************************************)
(* The way back of a call and the configuration, over bounded inputs: what *)
(* a tab, a page and the other modules rely on.  TLC evaluates the         *)
(* assumptions in the runs of MCRateLimit.                                 *)
(***************************************************************************)
EXTENDS Replies, Configuration

MaxBytes == 2
AnswerStatus == {200, 201, 204, 302, 400, 401, 403, 404, 409, 412, 429, 500, 503}
ErrorCode == SessionCodes \cup {"WEBUI_SESSION_EXPIRED", "SOURCE_CONFLICT", NoCode}

\* What the upstream can send, or fail to send.  An error block needs a body
\* that can be read, and only an answer of an error has one.
SentAnswers ==
    {a \in [fault : {NoFault, "UND_ERR_BODY_TIMEOUT", "ECONNRESET"}, status : AnswerStatus,
            bytes : 0..MaxBytes + 1, body : {"empty", "json", "malformed", "other"},
            code : ErrorCode, source : {NoSource, "webui"}, retryable : BOOLEAN] :
        /\ a.body = "empty" <=> a.bytes = 0
        /\ a.code # NoCode => a.status >= 400 /\ a.body \in {"json", "other"}
        /\ a.retryable \/ a.source # NoSource => a.code # NoCode}
Unanswered ==
    [fault : TimeoutFault \cup {"ECONNREFUSED", "UND_ERR_SOCKET", "EPROTO"}, status : {0},
     bytes : {0}, body : {"empty"}, code : {NoCode}, source : {NoSource},
     retryable : {FALSE}]
Answers == SentAnswers \cup Unanswered

Reply(a) == ProxyReply(a, MaxBytes)

\* The error handler writes its statuses down a second time beside the codes:
\* they agree with STATUS_BY_CODE, which every thrown WebuiError takes.
ASSUME StatusesWrittenTwiceAgree ==
    \A e \in DOMAIN FrameworkError :
       FrameworkError[e].status = STATUS_BY_CODE[FrameworkError[e].code]

\* Where the ends of a session on both sides of the cookie fall apart.  What ends
\* the BFF's session ends the tab's, unless it is not declared as JSON and
\* reaches the tab as an error of the BFF; what ends the tab's ends the BFF's,
\* unless it is a session code at a status other than 401 and 403, at which
\* alone the proxy looks at the code, or one of the BFF's own session codes.
ASSUME SessionEndsApart ==
    \A a \in Answers :
       LET drops == DropsSession(a, MaxBytes)
           lost  == IsSessionLost(Reply(a))
       IN  /\ drops /\ ~lost => a.body = "other"
           /\ lost /\ ~drops => \/ a.code \in SessionCodes /\ a.status \notin {401, 403}
                                \/ a.code \in WebuiSessionCodes /\ a.status # 401

\* Each of these happens: an answer that the upstream can send ends one side only.
ASSUME SessionEndsApartWitnessed ==
    LET Seen(P(_)) == \E a \in SentAnswers : P(a)
        TabOnly(a) == IsSessionLost(Reply(a)) /\ ~DropsSession(a, MaxBytes)
    IN  /\ Seen(LAMBDA a : DropsSession(a, MaxBytes) /\ ~IsSessionLost(Reply(a)))
        /\ Seen(LAMBDA a : TabOnly(a) /\ a.status = 409 /\ a.code = "SESSION_EXPIRED")
        /\ Seen(LAMBDA a : TabOnly(a) /\ a.status = 403)

\* A page can tell the two kinds of failure apart: what the transport, a limit
\* or the content did is the BFF's, and what Parrot answered is Parrot's, with
\* Parrot's status, code and retryable flag (unless its error block calls itself
\* the BFF's).
ASSUME SourceTellsWhoFailed ==
    \A a \in Answers : ~Succeeds(Reply(a)) =>
       IF a.status = 0 \/ a.status \in 300..399 \/ a.bytes > MaxBytes
            \/ a.fault # NoFault \/ a.body = "other"
       THEN ReadReply(Reply(a)).source = "webui" /\ ReadReply(Reply(a)).error \in WebuiErrorCode
       ELSE /\ ReadReply(Reply(a)).source = "upstream" <=> a.source # "webui"
            /\ Reply(a).status = a.status
            /\ a.code # NoCode => ReadReply(Reply(a)).error = a.code
            /\ ReadReply(Reply(a)).retryable = a.retryable

\* No half answer is taken for data: a call succeeds for the page only if the
\* upstream answered 2xx, the body came whole and within the limit, and it was
\* empty or JSON that can be read.
ASSUME OnlyWholeAnswersSucceed ==
    \A a \in Answers : ReadReply(Reply(a)).error = NoError =>
       /\ a.status \in 200..299 /\ a.fault = NoFault /\ a.bytes <= MaxBytes
       /\ a.body \in {"empty", "json"} \/ (a.status = 204 /\ a.body = "malformed")

\* A caller told to try again was refused for now: too many requests, or an
\* upstream that does not answer.  No error about the request itself says so.
ASSUME RetryOnlyWhatPasses ==
    \A c \in Retryable : STATUS_BY_CODE[c] \in {429, 502, 503, 504}

-----------------------------------------------------------------------------
(* Configurations.                                                         *)

Unset == [given |-> FALSE, value |-> 0]
Given(n) == [given |-> TRUE, value |-> n]
\* All settings unset but two, at and beyond the ends of their ranges.
Numbers ==
    {[n \in Setting |-> IF n = "WEBUI_SESSION_IDLE_SECONDS" THEN idle
                        ELSE IF n = "WEBUI_SESSION_MAX_SECONDS" THEN max ELSE Unset] :
        idle \in {Unset, Given(-1), Given(59), Given(60), Given(3600), Given(86400)},
        max \in {Unset, Given(299), Given(300), Given(3600), Given(604801)}}
Origins(hosts) ==
    [given : {TRUE}, scheme : {"http", "https", "ftp"}, bare : BOOLEAN, host : hosts]
    \cup {[given |-> FALSE, scheme |-> "http", bare |-> TRUE, host |-> "a"]}
Environments ==
    [production : BOOLEAN, numbers : {[n \in Setting |-> Unset]},
     flags : [Flag -> {"unset", "true", "false", "other"}],
     trust : [given : {TRUE}, entries : {{}, {"10.0.0.0/8"}, {"true", "10.0.0.1"}}]
             \cup {[given |-> FALSE, entries |-> {}]},
     public : Origins({"a", "b"}), upstream : Origins({"a"}), basePath : {"", "/other"}]
Plain127 == [given |-> TRUE, scheme |-> "http", bare |-> TRUE, host |-> "127.0.0.1:22122"]
NumberEnvironments ==
    [production : {FALSE}, numbers : Numbers, flags : [Flag -> {"unset"}],
     trust : {[given |-> FALSE, entries |-> {}]}, public : Origins({"a"}),
     upstream : {Plain127}, basePath : {"/webui"}]

\* A browser keeps the session cookie that login sets: it drops a Secure one
\* that comes over http.
CookieKept(config) == config.cookieSecure => config.publicOrigin.scheme = "https"

\* A production starts only with cookies that are Secure and prefixed, with the
\* proxies it trusts named one by one, and showing the upstream only when told
\* to; and where no flag overrides the rules, a browser keeps its cookie.  With
\* WEBUI_ALLOW_INSECURE_PUBLIC_ORIGIN it starts on http as well, where a Secure
\* cookie is dropped.
ASSUME ProductionIsClosed ==
    \A env \in Environments : env.production /\ Accepted(env) =>
       LET config == Config(env)
       IN  /\ config.cookieSecure /\ config.cookiePrefix = "__Secure-"
           /\ config.trustProxy # {} /\ config.trustProxy \cap {"*", "true"} = {}
           /\ config.showsUpstream => env.flags["WEBUI_DIAGNOSTICS_EXPOSE_UPSTREAM"] = "true"
           /\ CookieKept(config)
              \/ env.flags["WEBUI_ALLOW_INSECURE_PUBLIC_ORIGIN"] = "true"

\* Without any flag a BFF that starts can be signed in to: its cookie is kept
\* by the browser, in production and in a development alike.
ASSUME DefaultsKeepTheCookie ==
    \A env \in Environments : Accepted(env) /\ (\A f \in Flag : env.flags[f] = "unset") =>
       CookieKept(Config(env))

\* The BFF never calls itself: the origin it forwards to is not the one it is
\* reached at, the defaults included.
ASSUME NoProxyLoop ==
    \A env \in Environments : Accepted(env) =>
       Config(env).upstreamOrigin # Config(env).publicOrigin

\* What the other modules assume of the numbers they are given: positive, and
\* the absolute life of a session no shorter than its idle life.
ASSUME AcceptedNumbersFit ==
    \A env \in NumberEnvironments : Accepted(env) =>
       LET numbers == Config(env).numbers
       IN  /\ \A n \in Setting : numbers[n] \in Nat \ {0}
           /\ numbers["WEBUI_SESSION_MAX_SECONDS"] >= numbers["WEBUI_SESSION_IDLE_SECONDS"]
=============================================================================
