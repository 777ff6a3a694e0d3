---------------------------- MODULE RequestGuard ----------------------------
(***************************************************************************)
(* What a request has to show before the proxy forwards it                 *)
(* (apps/bff/src/security/request-guard.ts and the first half of           *)
(* routes/management-proxy.ts).  A request is a record of its method, the  *)
(* headers that are looked at, its path and query below the proxy's prefix *)
(* and the size of its body.                                               *)
(***************************************************************************)
EXTENDS ManagementRoutes

Missing == "missing"        \* a header the request does not have
NoSession == [csrfToken |-> Missing]  \* getSession found none

WRITE_METHODS == {"POST", "PUT", "PATCH", "DELETE"}
InternalHosts == {"127.0.0.1", "localhost", "::1", "[::1]"}

\* assertHost: a host is its name and port, "" for none; only the health
\* routes accept the internal ones, whatever their port.  A Host of a bare "::1"
\* has the name ":", since what follows its last colon is cut off as a port.
HostAccepted(r, config, allowInternalHost) ==
    /\ r.host.name # Missing
    /\ \/ r.host = config.publicHost
       \/ allowInternalHost /\ r.host.name \in InternalHosts \cup {config.bindHost}

\* assertOrigin: Fetch Metadata count only beside an Origin.
OriginAccepted(r, config) ==
    IF r.origin = Missing
    THEN r.method \notin WRITE_METHODS
    ELSE r.origin = config.publicOrigin /\ r.site \in {Missing, "same-origin", "none"}

\* assertJsonContentType: a write without a type is let through.
ContentTypeAccepted(r) ==
    r.method \in WRITE_METHODS => r.contentType \in {Missing, "", "application/json"}

\* assertCsrf.
CsrfAccepted(r, expected) == expected # Missing /\ r.csrf = expected

\* The checks of the proxy's handler before it looks at the path, in order; the
\* second has another code when a cookie named a session that is gone.
GuardVerdict(r, config, session) ==
    IF ~HostAccepted(r, config, FALSE) THEN "WEBUI_HOST_REJECTED"
    ELSE IF session = NoSession THEN "WEBUI_SESSION_REQUIRED"
    ELSE IF r.method = "GET" THEN "pass"
    ELSE IF ~OriginAccepted(r, config) THEN "WEBUI_ORIGIN_REJECTED"
    ELSE IF ~ContentTypeAccepted(r) THEN "WEBUI_UNSUPPORTED_CONTENT_TYPE"
    ELSE IF ~CsrfAccepted(r, session.csrfToken) THEN "WEBUI_CSRF_REJECTED"
    ELSE "pass"

\* All of the checks: what is forwarded, or the refusal.  `limit` is the body
\* limit of the route that was found.
ProxyVerdict(r, config, session, limit) ==
    LET guard == GuardVerdict(r, config, session)
        match == MatchProxyRoute(FROZEN_UPSTREAM_ROUTES, r.method, r.path)
        query == SanitizeUpstreamQuery(r.query)
    IN  IF guard # "pass" THEN Refuse(guard)
        ELSE IF match.verdict # "forward" THEN match
        ELSE IF query.verdict # "forward" THEN query
        ELSE IF r.method # "GET" /\ r.bodyBytes > limit
             THEN Refuse("WEBUI_PAYLOAD_TOO_LARGE")
        ELSE [verdict |-> "forward", route |-> match.route,
              path |-> match.upstreamPath, query |-> query.query]
=============================================================================
