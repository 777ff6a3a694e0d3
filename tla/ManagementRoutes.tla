-------------------------- MODULE ManagementRoutes --------------------------
(***************************************************************************)
(* The routes of the management API that the BFF knows                     *)
(* (packages/contracts/generated/management-routes.ts), in their order,    *)
(* paths relative to the prefix; P is a parameter, whatever its name.      *)
(***************************************************************************)
EXTENDS RouteAllowlist

P == "{param}"

Row(class, converter, method, words) ==
    [class |-> class, converter |-> converter, method |-> method,
     segments |-> [i \in DOMAIN words |-> <<words[i]>>]]

\* compileRoute; PATH_CONVERTER_ROUTES has one member.
Proxy(method, words)     == Row("proxy", FALSE, method, words)
Converter(method, words) == Row("proxy", TRUE, method, words)
Auth(method, words)      == Row("auth", FALSE, method, words)

\* Metadata, operations, overview, statistics and runtime.
RuntimeRoutes == <<
    Proxy("GET", <<"meta">>),
    Proxy("GET", <<"capabilities">>),
    Proxy("GET", <<"operations", P>>),
    Proxy("DELETE", <<"operations", P>>),
    Proxy("GET", <<"overview">>),
    Proxy("GET", <<"stats", "summary">>),
    Proxy("GET", <<"stats", "breakdown">>),
    Proxy("GET", <<"stats", "recent-calls">>),
    Converter("GET", <<"stats", "models", P>>),
    Proxy("GET", <<"runtime", "status">>),
    Proxy("GET", <<"runtime", "concurrency">>),
    Proxy("GET", <<"runtime", "cooldowns">>),
    Proxy("GET", <<"runtime", "background-jobs">>)>>

\* Channels.
ChannelRoutes == <<
    Proxy("GET", <<"channels">>),
    Proxy("POST", <<"channels">>),
    Proxy("GET", <<"channels", P>>),
    Proxy("PATCH", <<"channels", P>>),
    Proxy("DELETE", <<"channels", P>>),
    Proxy("PUT", <<"channels", "order">>),
    Proxy("GET", <<"channel-catalog">>),
    Proxy("POST", <<"channel-drafts", "probes">>),
    Proxy("POST", <<"channel-model-discoveries">>),
    Proxy("POST", <<"channels", P, "diagnostic-probes">>),
    Proxy("POST", <<"channels", P, "actions", "refresh-usage">>),
    Proxy("POST", <<"channels", P, "actions", "clear-errors">>),
    Proxy("POST", <<"channels", P, "actions", "clear-affinity">>),
    Proxy("POST", <<"channels", "actions", "clear-errors">>),
    Proxy("POST", <<"channels", "actions", "clear-affinity">>),
    Proxy("GET", <<"channels", P, "compatibility">>),
    Proxy("PATCH", <<"channels", P, "compatibility">>)>>

\* OAuth accounts and settings.
OAuthRoutes == <<
    Proxy("GET", <<"oauth", "accounts">>),
    Proxy("POST", <<"oauth", "accounts">>),
    Proxy("GET", <<"oauth", "accounts", P>>),
    Proxy("PATCH", <<"oauth", "accounts", P>>),
    Proxy("DELETE", <<"oauth", "accounts", P>>),
    Proxy("POST", <<"oauth", "accounts", P, "actions", "refresh-token">>),
    Proxy("POST", <<"oauth", "accounts", P, "actions", "refresh-usage">>),
    Proxy("POST", <<"oauth", "accounts", P, "actions", "clear-errors">>),
    Proxy("POST", <<"oauth", "accounts", P, "actions", "clear-affinity">>),
    Proxy("GET", <<"oauth", "accounts", P, "models">>),
    Proxy("PATCH", <<"oauth", "accounts", P, "models">>),
    Proxy("POST", <<"oauth", "accounts", P, "models", "actions", "sync">>),
    Proxy("PATCH", <<"oauth", "accounts", P, "models", "settings">>),
    Proxy("POST", <<"oauth", "actions", "refresh-usage">>),
    Proxy("POST", <<"oauth", "actions", "clear-errors">>),
    Proxy("GET", <<"oauth", "invalid-accounts">>),
    Proxy("GET", <<"oauth", "settings">>),
    Proxy("PATCH", <<"oauth", "settings">>)>>

\* OAuth login flows and imports.
LoginAndImportRoutes == <<
    Proxy("POST", <<"oauth", "login-flows">>),
    Proxy("POST", <<"oauth", "login-flows", P, "poll">>),
    Proxy("POST", <<"oauth", "login-flows", P, "complete">>),
    Proxy("POST", <<"oauth", "login-flows", P, "cancel">>),
    Proxy("POST", <<"oauth", "imports", "preview">>),
    Proxy("POST", <<"oauth", "imports", P, "commit">>)>>

\* Models and API keys.
ModelAndKeyRoutes == <<
    Proxy("GET", <<"models">>),
    Proxy("GET", <<"models", P>>),
    Proxy("PATCH", <<"models", "actions", "state">>),
    Proxy("GET", <<"api-keys">>),
    Proxy("POST", <<"api-keys">>),
    Proxy("GET", <<"api-keys", P>>),
    Proxy("PATCH", <<"api-keys", P>>),
    Proxy("DELETE", <<"api-keys", P>>),
    Proxy("PUT", <<"api-keys", P, "secret">>),
    Proxy("POST", <<"api-keys", P, "actions", "reset-limiter">>),
    Proxy("POST", <<"api-keys", P, "actions", "generate-replacement-plan">>),
    Proxy("GET", <<"api-keys", P, "stats">>),
    Proxy("PUT", <<"api-keys", "order">>)>>

\* Request logs.
LogRoutes == <<
    Proxy("GET", <<"logs">>),
    Proxy("GET", <<"logs", "filter-options">>),
    Proxy("GET", <<"logs", P>>),
    Proxy("GET", <<"logs", P, "body">>),
    Proxy("GET", <<"logs", P, "body", "items", P>>),
    Proxy("GET", <<"logs", P, "raw-body">>)>>

\* The sign-in of the upstream, which only the auth controller calls.
AuthRoutes == <<
    Auth("POST", <<"auth", "sessions">>),
    Auth("GET", <<"auth", "session">>),
    Auth("DELETE", <<"auth", "session">>)>>

FROZEN_UPSTREAM_ROUTES ==
    RuntimeRoutes \o ChannelRoutes \o OAuthRoutes \o LoginAndImportRoutes
    \o ModelAndKeyRoutes \o LogRoutes \o AuthRoutes
=============================================================================
