---------------------------- MODULE Configuration ----------------------------
(***************************************************************************)
(* loadConfig (apps/bff/src/config.ts): from the environment to the        *)
(* configuration of a BFF, or the refusal to start.  An environment is a   *)
(* record: `production`; `numbers`, of each numeric variable whether it is *)
(* given and its value (-1 for a text that is no integer, which is out of  *)
(* every range); `flags`, "unset", "true", "false" or "other"; `trust`,    *)
(* whether WEBUI_TRUST_PROXY holds more than blanks, and its entries;      *)
(* `public` and `upstream`, the two origins taken apart as the URL parser  *)
(* does it; and the `basePath`.  An empty variable counts as not given.    *)
(***************************************************************************)
EXTENDS Integers

\* The default and the range of each numeric setting.
NumericSettings ==
    [PORT |-> <<3000, 1, 65535>>,
     WEBUI_SESSION_IDLE_SECONDS |-> <<1800, 60, 86400>>,
     WEBUI_SESSION_MAX_SECONDS |-> <<28800, 300, 604800>>,
     WEBUI_MAX_SESSIONS |-> <<100, 1, 10000>>,
     WEBUI_MAX_PRELOGIN_SESSIONS |-> <<200, 1, 10000>>,
     PARROT_CONNECT_TIMEOUT_MS |-> <<5000, 200, 120000>>,
     PARROT_REQUEST_TIMEOUT_MS |-> <<30000, 1000, 600000>>,
     WEBUI_MAX_UPSTREAM_RESPONSE_BYTES |-> <<10485760, 1024, 209715200>>,
     WEBUI_BODY_LIMIT_BYTES |-> <<1048576, 1024, 52428800>>,
     WEBUI_OAUTH_IMPORT_BODY_LIMIT_BYTES |-> <<5242880, 1024, 209715200>>,
     WEBUI_LOGIN_PER_SOURCE_PER_MINUTE |-> <<5, 1, 1000>>,
     WEBUI_LOGIN_GLOBAL_PER_MINUTE |-> <<30, 1, 10000>>,
     WEBUI_BOOTSTRAP_PER_SOURCE_PER_MINUTE |-> <<20, 1, 1000>>,
     WEBUI_BOOTSTRAP_GLOBAL_PER_MINUTE |-> <<100, 1, 10000>>,
     WEBUI_MAX_CONCURRENT_LOGIN |-> <<4, 1, 100>>,
     WEBUI_MAX_CONCURRENT_BOOTSTRAP |-> <<8, 1, 200>>]

Setting == DOMAIN NumericSettings
Flag == {"WEBUI_ALLOW_INSECURE_PUBLIC_ORIGIN", "WEBUI_DEV_INSECURE_COOKIES",
         "WEBUI_DIAGNOSTICS_EXPOSE_UPSTREAM"}

\* readInt.
Number(env, name) ==
    IF env.numbers[name].given THEN env.numbers[name].value ELSE NumericSettings[name][1]
NumberAccepted(env, name) ==
    env.numbers[name].given =>
        /\ NumericSettings[name][2] <= env.numbers[name].value
        /\ env.numbers[name].value <= NumericSettings[name][3]

\* The insecure cookies of a development are not asked for in production.
FlagsRead(env) == IF env.production THEN Flag \ {"WEBUI_DEV_INSECURE_COOKIES"} ELSE Flag

\* readBool.
FlagIs(env, name, fallback) ==
    env.flags[name] = "true" \/ (env.flags[name] = "unset" /\ fallback)

\* parseOrigin: http or https and a host, with neither user, path, query nor
\* fragment; the parser has dropped a port that is the scheme's own.
OriginShape(o) == o.scheme \in {"http", "https"} /\ o.bare
Origin(o) == [scheme |-> o.scheme, host |-> o.host]

DefaultPublic == [given |-> TRUE, scheme |-> "http", bare |-> TRUE, host |-> "127.0.0.1:5173"]
PublicOf(env) == IF env.public.given \/ env.production THEN env.public ELSE DefaultPublic

\* parseTrustProxy, and what holds without the variable.
TrustProxy(env) == IF env.trust.given THEN env.trust.entries ELSE {"127.0.0.1", "::1"}
TrustAccepted(env) ==
    IF env.trust.given
    THEN env.trust.entries # {} /\ env.trust.entries \cap {"*", "true"} = {}
    ELSE ~env.production

\* What loadConfig checks; each refusal stops the start.
Accepted(env) ==
    /\ env.basePath \in {"", "/webui", "/webui/"}
    /\ \A name \in FlagsRead(env) : env.flags[name] # "other"
    /\ PublicOf(env).given /\ OriginShape(PublicOf(env))
    /\ env.production /\ PublicOf(env).scheme = "http"
       => FlagIs(env, "WEBUI_ALLOW_INSECURE_PUBLIC_ORIGIN", FALSE)
    /\ env.upstream.given /\ OriginShape(env.upstream)
    /\ Origin(env.upstream) # Origin(PublicOf(env))
    /\ TrustAccepted(env)
    /\ \A name \in Setting : NumberAccepted(env, name)
    /\ Number(env, "WEBUI_SESSION_IDLE_SECONDS") <= Number(env, "WEBUI_SESSION_MAX_SECONDS")

\* Secure cookies and their prefix, unless a development says otherwise, where
\* insecure ones are the default.
CookieSecure(env) == env.production \/ ~FlagIs(env, "WEBUI_DEV_INSECURE_COOKIES", TRUE)

Config(env) ==
    [publicOrigin |-> Origin(PublicOf(env)), publicHost |-> PublicOf(env).host,
     upstreamOrigin |-> Origin(env.upstream), trustProxy |-> TrustProxy(env),
     numbers |-> [name \in Setting |-> Number(env, name)], bootstrapTtlSeconds |-> 300,
     cookieSecure |-> CookieSecure(env),
     cookiePrefix |-> IF CookieSecure(env) THEN "__Secure-" ELSE "",
     showsUpstream |-> ~env.production
                       \/ FlagIs(env, "WEBUI_DIAGNOSTICS_EXPOSE_UPSTREAM", FALSE)]
=============================================================================
