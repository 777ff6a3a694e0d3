--------------------------- MODULE RouteAllowlist ---------------------------
(***************************************************************************)
(* What of a browser's request reaches the management API                  *)
(* (apps/bff/src/security/route-allowlist.ts): the method and path have to *)
(* fit a frozen route, and the path and the query that are forwarded are   *)
(* written anew.                                                           *)
(*                                                                         *)
(* A text is a sequence of pieces.  Special pieces stand for themselves;   *)
(* any other piece is a word of unreserved characters.  In a request a     *)
(* piece is a record of the piece and whether it is percent-encoded; the   *)
(* piece "malformed" is an encoding that does not decode.  A path is the   *)
(* sequence of its segments, which split('/') leaves without a plain "/".  *)
(***************************************************************************)
EXTENDS Integers, Sequences, FiniteSets, FiniteSetsExt, SequencesExt

Separator == {"/", "\\"}
Control   == {"NUL", "CTL"}   \* \0, and the other control characters
Reserved  == {"%", "?", "#", "&"} \* what encodeURIComponent escapes of the rest
Special   == Separator \cup Control \cup Reserved \cup {"."}

\* decodeURIComponent and encodeURIComponent, which leaves dots as they are.
Decode(text) == [i \in DOMAIN text |-> text[i].piece]
Encode(text) ==
    [i \in DOMAIN text |-> [piece |-> text[i], coded |-> text[i] \in Special \ {"."}]]

Dots == {<<".">>, <<".", ".">>}

SafeSegment(segment) ==
    /\ segment # <<>>
    /\ \A i \in DOMAIN segment :
          segment[i].piece \notin Separator \cup Control \cup {"malformed"}
    /\ Decode(segment) \notin Dots

\* The places of the pieces of some texts, and how long these are as written:
\* an encoded piece takes three characters.  A slash comes before each segment
\* of a path.
Places(texts) == UNION {{i} \X DOMAIN texts[i] : i \in DOMAIN texts}
Written(texts) ==
    Cardinality(Places(texts))
    + 2 * Cardinality({p \in Places(texts) : texts[p[1]][p[2]].coded})
PathLength(path) == Len(path) + Written(path)

\* assertSafeRequestPath passes.
SafePath(path) ==
    /\ path # <<>> /\ PathLength(path) <= 2048
    /\ \A i \in DOMAIN path : SafeSegment(path[i])

-----------------------------------------------------------------------------
(* Routes.                                                                 *)

Param == <<"{param}">>  \* a template segment that PARAM_PATTERN matches

Fits(template, segment) == template = Param \/ template = segment
FitsAll(templates, segments, n) == \A i \in 1..n : Fits(templates[i], segments[i])

\* The last parameter of a path-converter route takes all that is left.
JoinedLength(segments) == Cardinality(Places(segments)) + Len(segments) - 1
Unifies(route, segments) ==
    LET n == Len(route.segments)
    IN  IF route.converter
        THEN /\ Len(segments) >= n
             /\ FitsAll(route.segments, segments, n - 1)
             /\ JoinedLength(SubSeq(segments, n, Len(segments))) \in 1..256
        ELSE Len(segments) = n /\ FitsAll(route.segments, segments, n)

Fitting(table, class, segments) ==
    {i \in DOMAIN table : table[i].class = class /\ Unifies(table[i], segments)}

Refuse(code) == [verdict |-> code]

\* matchProxyRoute: the first route that fits decides, and what is forwarded
\* are the decoded segments, encoded again.
MatchProxyRoute(table, method, path) ==
    LET segments == [i \in DOMAIN path |-> Decode(path[i])]
        fitting  == Fitting(table, "proxy", segments)
        exact    == {i \in fitting : table[i].method = method}
    IN  IF ~SafePath(path) THEN Refuse("WEBUI_INVALID_REQUEST")
        ELSE IF exact # {}
        THEN [verdict |-> "forward",
              route   |-> table[CHOOSE i \in exact : \A j \in exact : i <= j],
              upstreamPath |-> [i \in DOMAIN segments |-> Encode(segments[i])]]
        ELSE IF fitting # {} /\ Fitting(table, "auth", segments) = {}
        THEN Refuse("WEBUI_METHOD_NOT_ALLOWED")
        ELSE Refuse("WEBUI_ROUTE_NOT_ALLOWED")

-----------------------------------------------------------------------------
(* The query: a sequence of parameters, each with the text of its key, the *)
(* letters in lower case, whether one of them is `upper` as written, and   *)
(* the text of its value.                                                  *)

DeniedQueryKeys ==
    {<<word>> : word \in {"url", "target", "upstream", "endpoint", "host", "base",
                          "redirect", "proxy", "next"}}

\* TRAVERSAL_PATTERN: two dots that are a path segment of their own.
Traverses(value) ==
    \E i \in 1..Len(value) - 1 :
       /\ value[i] = "." /\ value[i + 1] = "."
       /\ i = 1 \/ value[i - 1] \in Separator
       /\ i + 2 > Len(value) \/ value[i + 2] \in Separator

\* CONTROL_CHAR_PATTERN finds nothing.
Clean(text) == \A i \in DOMAIN text : text[i] \notin Control

\* The check of one parameter: its key is compared in lower case.
SafeParameter(parameter) ==
    LET value == Decode(parameter.value)
    IN  /\ Decode(parameter.key) \notin DeniedQueryKeys
        /\ Clean(Decode(parameter.key)) /\ Clean(value)
        /\ Len(value) <= 1024
        /\ ~Traverses(value)

\* The query as written has an "=" in each parameter and an "&" between them.
QueryLength(query) ==
    2 * Len(query) - 1 + Written([i \in DOMAIN query |-> query[i].key])
                       + Written([i \in DOMAIN query |-> query[i].value])

\* A plain "#" or control character refuses at once.
PlainlyUnsafe(text) ==
    \E i \in DOMAIN text : ~text[i].coded /\ text[i].piece \in {"#"} \cup Control

\* sanitizeUpstreamQuery: one parameter refused refuses the request; the rest
\* is forwarded in its order, keys in their case, encoded again.
SanitizeUpstreamQuery(query) ==
    IF \/ QueryLength(query) > 4096
       \/ \E i \in DOMAIN query :
             \/ PlainlyUnsafe(query[i].key) \/ PlainlyUnsafe(query[i].value)
             \/ ~SafeParameter(query[i])
    THEN Refuse("WEBUI_INVALID_REQUEST")
    ELSE [verdict |-> "forward",
          query |-> [i \in DOMAIN query |->
                       [key   |-> Encode(Decode(query[i].key)),
                        upper |-> query[i].upper,
                        value |-> Encode(Decode(query[i].value))]]]
=============================================================================
