-------------------------- MODULE FrontDoorChecks --------------------------
(***************************************************************************)
(* The pure functions in front of the BFF's handlers against reference     *)
(* definitions, over bounded inputs.  TLC evaluates the assumptions in the *)
(* runs of MCRateLimit, whose limiters are keyed by resolveClientIp.       *)
(***************************************************************************)
EXTENDS ClientAddress, RequestGuard

-----------------------------------------------------------------------------
(* Addresses.  The values compared are sequences of bytes.                 *)

Plain(parts) == [wrap |-> <<>>, parts |-> parts, zone |-> FALSE]
Dotted(bytes) == Plain(<<<<bytes>>>>)

V4Samples == {<<10, 0, 0, 1>>, <<10, 0, 1, 255>>, <<10, 128, 0, 0>>,
              <<127, 0, 0, 1>>, <<203, 0, 113, 7>>, <<0, 0, 0, 0>>,
              <<255, 255, 255, 255>>}
V6Samples == {<<0, 0, 0, 0, 0, 0, 0, 1>>, <<65152, 0, 0, 0, 0, 0, 0, 1>>,
              <<8193, 3512, 0, 0, 1, 0, 0, 0>>, <<8193, 3513, 0, 0, 0, 0, 0, 1>>,
              <<0, 0, 0, 0, 0, 0, 0, 0>>, <<1, 2, 3, 4, 5, 6, 7, 8>>}

Groups(value, i, j) == [k \in 1..(j - i + 1) |-> <<value[i + k - 1]>>]
InFull(value) == Plain(<<Groups(value, 1, 8)>>)
\* Every way to write eight groups: in full, or with a run of zeros left out.
Writings(value) ==
    {InFull(value)} \cup
    {Plain(<<Groups(value, 1, r[1] - 1), Groups(value, r[2] + 1, 8)>>) :
        r \in {s \in (1..8) \X (1..8) :
                  s[1] <= s[2] /\ \A k \in s[1]..s[2] : value[k] = 0}}
V6Bytes(value) ==
    [k \in 1..16 |-> IF k % 2 = 1 THEN value[(k + 1) \div 2] \div 256
                                  ELSE value[k \div 2] % 256]
V4Writings(value) ==
    {Dotted(value), [Dotted(value) EXCEPT !.wrap = <<"mapped">>]}

\* A network address and the number after its slash.
Network(t, bits) == [address |-> t, slash |-> TRUE, length |-> bits]

Bit(bytes, k) ==
    (bytes[(k + 7) \div 8] \div 2^(7 - ((k - 1) % 8))) % 2

\* ipv6ToBytes reads every writing of an address as that address, in brackets
\* and with a zone as well.
ASSUME Ipv6ReadsEveryWriting ==
    \A v \in V6Samples : \A t \in Writings(v) :
       /\ Ipv6(t) = V6Bytes(v)
       /\ Ipv6([t EXCEPT !.zone = TRUE]) = V6Bytes(v)
       /\ NormalizeIp([t EXCEPT !.wrap = <<"brackets">>]) = t

\* ipMatchesCidr compares the leading bits of two addresses of one family,
\* however they are written; a prefix longer than the address never matches.
ASSUME MatchesComparesLeadingBits ==
    /\ \A a, n \in V4Samples : \A t \in V4Writings(a) : \A bits \in -1..33 :
          IpMatchesCidr(t, Network(Dotted(n), bits))
          <=> bits \in 0..32 /\ \A k \in 1..bits : Bit(a, k) = Bit(n, k)
    /\ \A a, n \in V6Samples : \A t \in Writings(a) :
       \A bits \in {-1, 0, 1, 9, 10, 31, 32, 127, 128, 129} :
          IpMatchesCidr(t, Network(InFull(n), bits))
          <=> /\ bits \in 0..128
              /\ \A k \in 1..bits : Bit(V6Bytes(a), k) = Bit(V6Bytes(n), k)
    /\ \A a \in V4Samples, n \in V6Samples :
          /\ ~IpMatchesCidr(Dotted(a), Network(InFull(n), 0))
          /\ ~IpMatchesCidr(InFull(n), Network(Dotted(a), 0))

\* Texts that are no address are never trusted: an octet of 256, seven groups
\* without "::", nine with it, a name.
ASSUME MalformedNeverTrusted ==
    LET everyone == {Network(Dotted(<<0, 0, 0, 0>>), 0), Network(Plain(<<<<>>, <<>>>>), 0)}
    IN  /\ IsTrustedAddress(Dotted(<<203, 0, 113, 7>>), everyone)
        /\ \A t \in {Dotted(<<10, 0, 0, 256>>), Plain(<<[k \in 1..7 |-> <<1>>]>>),
                     Plain(<<[k \in 1..5 |-> <<1>>], [k \in 1..4 |-> <<1>>]>>),
                     Plain(<<<<<<>>>>>>), Plain(<<>>), Plain(<<<<<<65536>>>>, <<>>>>)} :
              ~IsTrustedAddress(t, everyone)

Trusted10 == {Network(Dotted(<<10, 0, 0, 0>>), 8)}
Hops == {Dotted(<<10, 0, 0, 1>>), Dotted(<<203, 0, 113, 7>>),
         Dotted(<<198, 51, 100, 4>>), Plain(<<>>),
         [Dotted(<<10, 0, 1, 255>>) EXCEPT !.wrap = <<"mapped">>]}

\* The client by a walk over the hops from the request's own address leftward:
\* trusted proxies vouch for the hop before them, nobody else does.
Walk(remote, forwarded) ==
    LET hops == Chain(forwarded) \o <<NormalizeIp(remote)>>
        step[i \in DOMAIN hops] ==
            IF i = 1 \/ ~IsTrustedAddress(hops[i], Trusted10)
            THEN hops[i] ELSE step[i - 1]
    IN  step[Len(hops)]
ASSUME ResolvesByWalking ==
    \A n \in 0..3 : \A forwarded \in [1..n -> Hops] : \A remote \in Hops :
       ResolveClientIp(remote, forwarded, Trusted10) = Walk(remote, forwarded)

-----------------------------------------------------------------------------
(* Routes.                                                                 *)

Routes == DOMAIN FROZEN_UPSTREAM_ROUTES
RouteAt(i) == FROZEN_UPSTREAM_ROUTES[i]
Template(i) == RouteAt(i).segments

\* Some path fits both templates.
Overlap(i, j) ==
    LET s == Template(i)
        t == Template(j)
        Meet(n) == \A k \in 1..n : s[k] = Param \/ t[k] = Param \/ s[k] = t[k]
    IN  CASE RouteAt(i).converter -> Len(t) >= Len(s) /\ Meet(Len(s) - 1)
          [] RouteAt(j).converter -> Len(s) >= Len(t) /\ Meet(Len(t) - 1)
          [] OTHER -> Len(s) = Len(t) /\ Meet(Len(s))

\* Two routes of one method share a path only where the first of them is the
\* more specific one: the order of the table never hides a route.
ASSUME NoRouteHidden ==
    \A i, j \in Routes :
       i < j /\ RouteAt(i).method = RouteAt(j).method /\ Overlap(i, j)
       => \E k \in DOMAIN Template(j) : Template(j)[k] = Param /\ Template(i)[k] # Param

\* No path of the upstream's sign-in fits a route of the proxy, whatever the
\* method.
ASSUME SignInNeverProxied ==
    \A i, j \in Routes :
       RouteAt(i).class = "auth" /\ RouteAt(j).class = "proxy" => ~Overlap(i, j)

\* A path of a route, its parameters filled in, plain or percent-encoded.
Text(word) == <<[piece |-> word, coded |-> FALSE]>>
Filled(template, value) ==
    [k \in DOMAIN template |->
        IF template[k] = Param THEN value ELSE Text(template[k][1])]
Values == {Text("x"), <<[piece |-> "?", coded |-> TRUE]>>,
           <<[piece |-> "%", coded |-> TRUE], [piece |-> "2f", coded |-> FALSE]>>,
           <<[piece |-> ".", coded |-> FALSE], [piece |-> ".", coded |-> TRUE],
             [piece |-> "x", coded |-> FALSE]>>}
Unsafe == {<<[piece |-> ".", coded |-> TRUE], [piece |-> ".", coded |-> FALSE]>>,
            <<[piece |-> "/", coded |-> TRUE]>>, <<[piece |-> "\\", coded |-> FALSE]>>,
            <<[piece |-> "NUL", coded |-> TRUE]>>,
            <<[piece |-> "malformed", coded |-> TRUE]>>, <<>>}

\* Every route of the proxy can be reached, with any value of its parameters
\* that is safe, and forwards what was asked for; with another method, or with
\* a value that is not safe, nothing is forwarded.
ASSUME EveryRouteReachable ==
    \A i \in {j \in Routes : RouteAt(j).class = "proxy"} :
       /\ \A value \in Values :
             LET path  == Filled(Template(i), value)
                 found == MatchProxyRoute(FROZEN_UPSTREAM_ROUTES, RouteAt(i).method, path)
             IN  /\ found.verdict = "forward" /\ found.route = RouteAt(i)
                 /\ \A k \in DOMAIN path : Decode(found.upstreamPath[k]) = Decode(path[k])
       /\ MatchProxyRoute(FROZEN_UPSTREAM_ROUTES, "OPTIONS",
                          Filled(Template(i), Text("x"))).verdict
          = "WEBUI_METHOD_NOT_ALLOWED"
       /\ \A value \in Unsafe : Param \in ToSet(Template(i)) =>
             MatchProxyRoute(FROZEN_UPSTREAM_ROUTES, RouteAt(i).method,
                             Filled(Template(i), value)).verdict = "WEBUI_INVALID_REQUEST"

\* A model's name may hold slashes, up to 256 characters in all.
ASSUME TheConverterTakesSlashes ==
    \A i \in {j \in Routes : RouteAt(j).converter} :
    \A n \in {1, 128, 129} :
       LET longer == Filled(Template(i), Text("x")) \o [k \in 1..n |-> Text("x")]
           found  == MatchProxyRoute(FROZEN_UPSTREAM_ROUTES, RouteAt(i).method, longer)
       IN  found.verdict = "forward" <=> n < 128

-----------------------------------------------------------------------------
(* The query.                                                              *)

\* The segments of a text, cut at its separators.
SegmentsOf(value) ==
    LET cut[n \in 0..Len(value)] ==
            IF n = 0 THEN <<<<>>>>
            ELSE IF value[n] \in Separator THEN Append(cut[n - 1], <<>>)
            ELSE [cut[n - 1] EXCEPT ![Len(cut[n - 1])] = Append(@, value[n])]
    IN  ToSet(cut[Len(value)])

\* TRAVERSAL_PATTERN finds exactly the values with a segment of two dots.
ASSUME TraversalIsASegment ==
    \A n \in 0..6 : \A value \in [1..n -> {".", "/", "\\", "a"}] :
       Traverses(value) <=> <<".", ".">> \in SegmentsOf(value)

\* The limits of the query at their boundaries: a value of 1024 characters, and
\* a query of 4096 as written, passes; a control character does in no place, and
\* a mark only when it is encoded.
Repeated(piece, n) == [i \in 1..n |-> piece]
ASSUME QueryLimits ==
    LET plain   == [piece |-> "a", coded |-> FALSE]
        dollar  == [piece |-> "$", coded |-> TRUE]
        Asked(key, value) == <<[key |-> key, upper |-> FALSE, value |-> value]>>
        Passes(query) == SanitizeUpstreamQuery(query).verdict = "forward"
        long    == Repeated(dollar, 1024)
    IN  /\ Passes(Asked(Text("k"), long))
        /\ ~Passes(Asked(Text("k"), Append(long, plain)))
        /\ \A n \in 1015..1022 :
              Passes(Asked(Text("k"), long) \o Asked(Repeated(plain, n), Text("v")))
              <=> n + 3077 <= 4096
        /\ \A mark \in {"#", "NUL", "CTL"} : \A coded \in BOOLEAN :
              LET text == <<[piece |-> mark, coded |-> coded]>>
              IN  /\ Passes(Asked(text, Text("v"))) <=> mark = "#" /\ coded
                  /\ Passes(Asked(Text("k"), text)) <=> mark = "#" /\ coded

-----------------------------------------------------------------------------
(* The guards, and what the browser's API client sends.                    *)

Deployment == [publicHost |-> [name |-> "console", port |-> ""], bindHost |-> "0.0.0.0",
               publicOrigin |-> "https://console"]
Session == [csrfToken |-> "t1"]

Parameter(key, upper) ==
    [key |-> Text(key), upper |-> upper, value |-> Text("a") \o Text(".")]

\* A request of client.ts: the browser adds Host, Sec-Fetch-Site and, to what
\* is no GET, Origin; performRequest the token and the body's type.
FromConsole(method, body, token) ==
    [method |-> method, host |-> Deployment.publicHost,
     origin |-> IF method = "GET" THEN Missing ELSE Deployment.publicOrigin,
     site |-> "same-origin",
     contentType |-> IF body THEN "application/json" ELSE Missing,
     csrf |-> IF method = "GET" THEN Missing ELSE token,
     path |-> <<Text("meta")>>, query |-> <<>>, bodyBytes |-> IF body THEN 2 ELSE 0]

\* The guards let through what the console itself sends while it holds the
\* session's token: whatever the method, with and without a body.
ASSUME ConsolePassesGuards ==
    \A method \in {"GET"} \cup WRITE_METHODS : \A body \in BOOLEAN :
       GuardVerdict(FromConsole(method, body, Session.csrfToken), Deployment, Session)
       = "pass"

\* What the console asks for reaches its route with its query; a body over the
\* route's limit does not, and neither does a query that names another target, in
\* whatever case.
ASSUME ConsoleReachesEveryRoute ==
    \A i \in {j \in Routes : RouteAt(j).class = "proxy"} :
       LET r == [FromConsole(RouteAt(i).method, TRUE, Session.csrfToken) EXCEPT
                    !.path  = Filled(Template(i), Text("x")),
                    !.query = <<Parameter("search", FALSE)>>]
           Verdict(request) == ProxyVerdict(request, Deployment, Session, 2)
       IN  /\ Verdict(r) = [verdict |-> "forward", route |-> RouteAt(i),
                            path |-> r.path, query |-> r.query]
           /\ r.method # "GET" =>
              Verdict([r EXCEPT !.bodyBytes = 3]).verdict = "WEBUI_PAYLOAD_TOO_LARGE"
           /\ \A upper \in BOOLEAN :
                 Verdict([r EXCEPT !.query[1] = Parameter("target", upper)]).verdict
                 = "WEBUI_INVALID_REQUEST"

\* A write that does not hold the session's token never passes, wherever it
\* comes from: another site's page, or a tab that kept the token of an earlier
\* session.
ASSUME ForeignWritesRefused ==
    \A method \in WRITE_METHODS :
    \A origin \in {Missing, "null", "https://other", Deployment.publicOrigin} :
    \A type \in {Missing, "application/json", "text/plain"} :
    \A token \in {Missing, "t0"} : \A session \in {NoSession, Session} :
       GuardVerdict([FromConsole(method, TRUE, token) EXCEPT
                        !.origin = origin, !.contentType = type],
                    Deployment, session) # "pass"
=============================================================================
