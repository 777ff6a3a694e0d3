------------------------------- MODULE Replies -------------------------------
(***************************************************************************)
(* The way back of a proxied call: what UpstreamClient.call makes of the   *)
(* upstream's answer (upstream/client.ts), what the proxy's handler and    *)
(* the error handler answer (routes/management-proxy.ts, server.ts, with   *)
(* the tables of errors.ts), and how the browser reads it (api/client.ts). *)
(*                                                                         *)
(* An answer of the upstream is a record: fault (of the transport, or      *)
(* NoFault), status, bytes, body, and the code, the source and the         *)
(* retryable flag of its error block.  A body is "empty", "json",          *)
(* "malformed" (declared as JSON, but none) or "other" (anything not       *)
(* declared as JSON).                                                      *)
(***************************************************************************)
EXTENDS Integers

NoFault == "no fault"
NoCode == "no code"     \* an answer without an error block
NoSource == "no source" \* an error block that does not name who it is from

STATUS_BY_CODE ==
    [WEBUI_SESSION_REQUIRED |-> 401, WEBUI_SESSION_EXPIRED |-> 401,
     WEBUI_CSRF_REJECTED |-> 403, WEBUI_ORIGIN_REJECTED |-> 403,
     WEBUI_HOST_REJECTED |-> 421, WEBUI_METHOD_NOT_ALLOWED |-> 405,
     WEBUI_ROUTE_NOT_ALLOWED |-> 404, WEBUI_UNSUPPORTED_CONTENT_TYPE |-> 415,
     WEBUI_INVALID_REQUEST |-> 400, WEBUI_PAYLOAD_TOO_LARGE |-> 413,
     WEBUI_RATE_LIMITED |-> 429, WEBUI_CAPACITY_EXCEEDED |-> 429,
     WEBUI_UPSTREAM_UNREACHABLE |-> 502, WEBUI_UPSTREAM_TIMEOUT |-> 504,
     WEBUI_UPSTREAM_UNEXPECTED_CONTENT |-> 502,
     WEBUI_UPSTREAM_REDIRECT_BLOCKED |-> 502, WEBUI_RESPONSE_TOO_LARGE |-> 502,
     WEBUI_NOT_FOUND |-> 404, WEBUI_NOT_READY |-> 503, WEBUI_INTERNAL |-> 500]

WebuiErrorCode == DOMAIN STATUS_BY_CODE

Retryable == {"WEBUI_RATE_LIMITED", "WEBUI_CAPACITY_EXCEEDED",
              "WEBUI_UPSTREAM_UNREACHABLE", "WEBUI_UPSTREAM_TIMEOUT", "WEBUI_NOT_READY"}

\* What the error handler makes of the framework's own errors, with the status
\* it writes down beside the code.
FrameworkError ==
    [FST_ERR_CTP_BODY_TOO_LARGE     |-> [code |-> "WEBUI_PAYLOAD_TOO_LARGE", status |-> 413],
     FST_ERR_CTP_INVALID_MEDIA_TYPE |-> [code |-> "WEBUI_UNSUPPORTED_CONTENT_TYPE", status |-> 415],
     FST_ERR_CTP_EMPTY_JSON_BODY    |-> [code |-> "WEBUI_INVALID_REQUEST", status |-> 400],
     FST_ERR_CTP_INVALID_JSON_BODY  |-> [code |-> "WEBUI_INVALID_REQUEST", status |-> 400],
     FST_ERR_VALIDATION             |-> [code |-> "WEBUI_INVALID_REQUEST", status |-> 400],
     UNKNOWN                        |-> [code |-> "WEBUI_INTERNAL", status |-> 500]]

-----------------------------------------------------------------------------
(* From the upstream to the BFF.                                           *)

TimeoutFault == {"AbortError", "TimeoutError", "UND_ERR_CONNECT_TIMEOUT",
                 "UND_ERR_HEADERS_TIMEOUT", "UND_ERR_BODY_TIMEOUT"}

\* mapTransportError; every other fault says that nobody answers.
TransportError(fault) ==
    IF fault \in TimeoutFault THEN "WEBUI_UPSTREAM_TIMEOUT" ELSE "WEBUI_UPSTREAM_UNREACHABLE"

\* UpstreamClient.call: the error it throws, or NoCode when it returns.  A fault
\* may come before the answer or while its body is read (status 0: before);
\* the size is known from a header or by counting.
CallError(answer, maxBytes) ==
    IF answer.status = 0 THEN TransportError(answer.fault)
    ELSE IF answer.status \in 300..399 THEN "WEBUI_UPSTREAM_REDIRECT_BLOCKED"
    ELSE IF answer.bytes > maxBytes THEN "WEBUI_RESPONSE_TOO_LARGE"
    ELSE IF answer.fault # NoFault THEN TransportError(answer.fault)
    ELSE NoCode

-----------------------------------------------------------------------------
(* From the BFF to the browser.                                            *)

SessionCodes == {"SESSION_REQUIRED", "SESSION_EXPIRED"}
WebuiSessionCodes == {"WEBUI_SESSION_REQUIRED", "WEBUI_SESSION_EXPIRED"}

\* Whether the proxy destroys the local session and clears its cookie.
DropsSession(answer, maxBytes) ==
    /\ CallError(answer, maxBytes) = NoCode
    /\ answer.status = 401 \/ (answer.status = 403 /\ answer.code \in SessionCodes)

\* A WebuiError as the error handler sends it.
WebuiReply(code) ==
    [status |-> STATUS_BY_CODE[code], body |-> "json", code |-> code,
     source |-> "webui", retryable |-> code \in Retryable]

\* Anything that is not declared as JSON becomes an error of the BFF; the rest
\* goes through as it is.
ProxyReply(answer, maxBytes) ==
    LET error == CallError(answer, maxBytes)
    IN  IF error # NoCode THEN WebuiReply(error)
        ELSE IF answer.body = "other" THEN WebuiReply("WEBUI_UPSTREAM_UNEXPECTED_CONTENT")
        ELSE [status |-> answer.status, code |-> answer.code, source |-> answer.source,
              body |-> IF answer.status = 204 THEN "empty" ELSE answer.body,
              retryable |-> answer.retryable]

-----------------------------------------------------------------------------
(* In the browser.                                                         *)

Succeeds(reply) == reply.status \in 200..299

\* toApiError and performRequest: what the caller catches, or NoError.  An error
\* without a code is known by its status, and is the upstream's unless its block
\* says "webui" (the header that says so comes with WebuiReply alone).
NoError == "no error"
ReadReply(reply) ==
    IF Succeeds(reply)
    THEN [error |-> IF reply.body = "malformed"
                    THEN "WEBUI_UPSTREAM_UNEXPECTED_CONTENT" ELSE NoError,
          source |-> "webui", retryable |-> FALSE]
    ELSE [error |-> IF reply.code = NoCode THEN "HTTP" ELSE reply.code,
          source |-> IF reply.source = "webui" THEN "webui" ELSE "upstream",
          retryable |-> reply.retryable]

\* isSessionLost; a successful reply with malformed content is none.
IsSessionLost(reply) ==
    /\ ~Succeeds(reply)
    /\ \/ reply.code \in SessionCodes \cup WebuiSessionCodes
       \/ reply.status = 401
=============================================================================
