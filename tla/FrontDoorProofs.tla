-------------------------- MODULE FrontDoorProofs --------------------------
(***************************************************************************)
(* Proofs about the pure functions in front of the handlers and on the way *)
(* back, for every address, list of trusted proxies, route table, method,  *)
(* path, answer and environment.                                           *)
(***************************************************************************)
EXTENDS ClientAddress, RequestGuard, Replies, Configuration, SequenceTheorems, WellFoundedInduction, TLAPS

-----------------------------------------------------------------------------
(* Addresses.                                                              *)

\* The client that the trusted proxies report is the one the request counts
\* for, whatever hops stand in the header before it: the limiters key every
\* client by the address that its nearest proxy saw (resolveClientIp walks from
\* the right).
THEOREM EarlierHopsIgnored ==
    ASSUME NEW Hop, NEW trusted, NEW earlier \in Seq(Hop), NEW proxies \in Seq(Hop),
           NEW client \in Hop, ~IsTrustedAddress(client, trusted),
           \A i \in 1..Len(proxies) : IsTrustedAddress(proxies[i], trusted)
    PROVE  ClientOf(earlier \o <<client>> \o proxies, trusted) = client
<1> DEFINE chain   == earlier \o <<client>> \o proxies
           at      == Len(earlier) + 1
           strange == {i \in DOMAIN chain : ~IsTrustedAddress(chain[i], trusted)}
<1>1. /\ chain \in Seq(Hop)
      /\ Len(chain) = at + Len(proxies)
      /\ at \in DOMAIN chain
      /\ DOMAIN chain = 1..(at + Len(proxies))
  OBVIOUS
<1>2. chain[at] = client
  OBVIOUS
<1>3. ASSUME NEW i \in DOMAIN chain, i > at
      PROVE  IsTrustedAddress(chain[i], trusted)
  <2>1. chain[i] = proxies[i - at] /\ i - at \in 1..Len(proxies)
    BY <1>1, <1>3
  <2> QED
    BY <2>1
<1>4. at \in strange /\ \A i \in strange : i <= at
  BY <1>1, <1>2, <1>3
<1>5. (CHOOSE i \in strange : \A j \in strange : j <= i) = at
  <2> DEFINE Rightmost(i) == i \in strange /\ \A j \in strange : j <= i
  <2>1. \A i : Rightmost(i) => i = at
    BY <1>1, <1>4
  <2> QED
    BY <1>4, <2>1
<1> QED
  BY <1>2, <1>4, <1>5 DEF ClientOf

\* A client that is no trusted proxy counts as itself whatever header it sends.
THEOREM DirectClientIsItself ==
    ASSUME NEW remote, NEW forwarded, NEW trusted,
           ~IsTrustedAddress(NormalizeIp(remote), trusted)
    PROVE  ResolveClientIp(remote, forwarded, trusted) = NormalizeIp(remote)
BY DEF ResolveClientIp

-----------------------------------------------------------------------------
(* Routes.                                                                 *)

LEMMA FirstExists ==
    ASSUME NEW S, S \subseteq Nat, S # {}
    PROVE  \E i \in S : \A j \in S : i <= j
<1> DEFINE less == {m \in Nat \X Nat : m[1] < m[2]}
<1>1. IsWellFoundedOn(less, Nat)
  BY NatLessThanWellFounded DEF OpToRel
<1> HIDE DEF less
<1>2. PICK i \in S : \A j \in S : <<j, i>> \notin less
  BY <1>1, WFMin
<1>3. \A j \in S : ~(j < i)
  BY <1>2 DEF less
<1> QED
  BY <1>3

\* Encoding and decoding again changes nothing.
LEMMA DecodeEncode ==
    ASSUME NEW text, text = [i \in DOMAIN text |-> text[i]]
    PROVE  Decode(Encode(text)) = text
BY DEF Decode, Encode

\* What is reserved is encoded.
LEMMA ReservedEncoded ==
    ASSUME NEW text, NEW i \in DOMAIN Encode(text), Encode(text)[i].piece \in Reserved
    PROVE  Encode(text)[i].coded
<1>1. Encode(text)[i] = [piece |-> text[i], coded |-> text[i] \in Special \ {"."}]
  BY DEF Encode
<1>2. text[i] \in Reserved
  BY <1>1
<1>3. text[i] \in Special \ {"."}
  BY <1>2 DEF Special, Reserved
<1>4. Encode(text)[i].coded = (text[i] \in Special \ {"."})
  BY <1>1
<1> QED
  BY <1>3, <1>4

\* A request is forwarded only for a route of the proxy and with its method,
\* and the path that is forwarded has as many segments as the browser's, each
\* decoding to the same text, which is neither empty nor dots nor holds a
\* separator or a control character, what is reserved encoded: whatever the
\* table, a browser reaches no path that the upstream would read as another one.
THEOREM ForwardedAsAsked ==
    ASSUME NEW Entry, NEW table \in Seq(Entry), NEW method, NEW path,
           NEW found, found = MatchProxyRoute(table, method, path),
           found.verdict = "forward"
    PROVE  /\ \E i \in DOMAIN table :
                 /\ found.route = table[i]
                 /\ table[i].class = "proxy" /\ table[i].method = method
                 /\ Unifies(table[i], [k \in DOMAIN path |-> Decode(path[k])])
           /\ DOMAIN found.upstreamPath = DOMAIN path
           /\ \A k \in DOMAIN path :
                 LET text == Decode(path[k])
                 IN  /\ Decode(found.upstreamPath[k]) = text
                     /\ path[k] # <<>> /\ text \notin Dots
                     /\ \A i \in DOMAIN text : text[i] \notin Separator \cup Control
                     /\ \A i \in DOMAIN found.upstreamPath[k] :
                           LET part == found.upstreamPath[k][i]
                           IN  part.piece \in Reserved => part.coded
<1> DEFINE segments == [k \in DOMAIN path |-> Decode(path[k])]
           fitting  == Fitting(table, "proxy", segments)
           exact    == {i \in fitting : table[i].method = method}
           first    == CHOOSE i \in exact : \A j \in exact : i <= j
<1>1. SafePath(path) /\ exact # {}
  <2>1. CASE ~SafePath(path)
    <3>1. found = Refuse("WEBUI_INVALID_REQUEST")
      BY <2>1 DEF MatchProxyRoute
    <3> QED
      BY <3>1 DEF Refuse
  <2>2. CASE SafePath(path) /\ exact = {}
    <3>1. found \in {Refuse("WEBUI_METHOD_NOT_ALLOWED"),
                        Refuse("WEBUI_ROUTE_NOT_ALLOWED")}
      BY <2>2 DEF MatchProxyRoute
    <3> QED
      BY <3>1 DEF Refuse
  <2> QED
    BY <2>1, <2>2
<1>2. found = [verdict |-> "forward", route |-> table[first],
               upstreamPath |-> [k \in DOMAIN segments |-> Encode(segments[k])]]
  BY <1>1 DEF MatchProxyRoute
<1>3. first \in exact
  <2>1. exact \subseteq Nat
    BY DEF Fitting
  <2>2. \E i \in exact : \A j \in exact : i <= j
    BY <1>1, <2>1, FirstExists
  <2> QED
    BY <2>2
<1>4. /\ first \in DOMAIN table /\ table[first].class = "proxy"
      /\ table[first].method = method /\ Unifies(table[first], segments)
  BY <1>3 DEF Fitting
<1>5. ASSUME NEW k \in DOMAIN path
      PROVE  /\ Decode(found.upstreamPath[k]) = Decode(path[k])
             /\ path[k] # <<>> /\ Decode(path[k]) \notin Dots
             /\ \A i \in DOMAIN Decode(path[k]) :
                   Decode(path[k])[i] \notin Separator \cup Control
             /\ \A i \in DOMAIN found.upstreamPath[k] :
                   found.upstreamPath[k][i].piece \in Reserved
                   => found.upstreamPath[k][i].coded
  <2>1. found.upstreamPath[k] = Encode(Decode(path[k]))
    BY <1>2
  <2>2. Decode(path[k]) = [i \in DOMAIN Decode(path[k]) |-> Decode(path[k])[i]]
    BY DEF Decode
  <2>3. Decode(found.upstreamPath[k]) = Decode(path[k])
    BY <2>1, <2>2, DecodeEncode
  <2>4. SafeSegment(path[k])
    BY <1>1 DEF SafePath
  <2>5. \A i \in DOMAIN found.upstreamPath[k] :
           found.upstreamPath[k][i].piece \in Reserved
           => found.upstreamPath[k][i].coded
    BY <2>1, ReservedEncoded
  <2> QED
    BY <2>3, <2>4, <2>5 DEF SafeSegment, Decode
<1>6. DOMAIN found.upstreamPath = DOMAIN path
  BY <1>2
<1>7. \E i \in DOMAIN table :
         /\ found.route = table[i]
         /\ table[i].class = "proxy" /\ table[i].method = method
         /\ Unifies(table[i], segments)
  <2>1. found.route = table[first]
    BY <1>2
  <2> HIDE DEF first, segments
  <2> QED
    BY <2>1, <1>4
<1> QED
  BY <1>5, <1>6, <1>7

-----------------------------------------------------------------------------
(* The frozen table.                                                       *)

\* The words that routes begin with, and all words of the table.
FirstWord ==
    {"meta", "capabilities", "operations", "overview", "stats", "runtime",
    "channels", "channel-catalog", "channel-drafts",
    "channel-model-discoveries", "oauth", "models", "api-keys", "logs"}
Word ==
    FirstWord \cup
    {P, "auth",
     "summary", "breakdown", "recent-calls", "status", "concurrency",
     "cooldowns", "background-jobs", "order", "probes", "diagnostic-probes",
     "actions", "refresh-usage", "clear-errors", "clear-affinity",
     "compatibility", "accounts", "refresh-token", "sync", "settings",
     "invalid-accounts", "login-flows", "poll", "complete", "cancel",
     "imports", "preview", "commit", "state", "secret", "reset-limiter",
     "generate-replacement-plan", "filter-options", "body", "items",
     "raw-body", "sessions", "session"}
Method == {"GET", "POST", "PUT", "PATCH", "DELETE"}

\* A route of the proxy begins with a word of its own, which is not that of the
\* upstream's sign-in, and its converter takes no first segment.
ProxyRow ==
    {row \in [class : {"proxy"}, converter : BOOLEAN, method : Method, segments : Seq(Seq(Word))] :
        /\ Len(row.segments) >= (IF row.converter THEN 2 ELSE 1)
        /\ row.segments[1] \notin {Param, <<"auth">>}}
AuthRow ==
    {row \in [class : {"auth"}, converter : {FALSE}, method : Method, segments : Seq(Seq(Word))] :
        /\ Len(row.segments) >= 1
        /\ row.segments[1] = <<"auth">>}

LEMMA FirstWords ==
    /\ FirstWord \subseteq Word
    /\ \A word \in FirstWord : word \notin {P, "auth"}
<1>1. FirstWord \subseteq Word
  BY DEF Word
<1> QED
  BY <1>1 DEF FirstWord, P

LEMMA RowSegments ==
    ASSUME NEW words \in Seq(Word)
    PROVE  LET segments == [i \in DOMAIN words |-> <<words[i]>>]
           IN  /\ segments \in Seq(Seq(Word)) /\ Len(segments) = Len(words)
               /\ \A i \in 1..Len(words) : segments[i] = <<words[i]>>
<1> DEFINE segments == [i \in DOMAIN words |-> <<words[i]>>]
<1>1. DOMAIN words = 1..Len(words) /\ Len(words) \in Nat
  BY LenProperties
<1>2. segments = [i \in 1..Len(words) |-> <<words[i]>>]
  BY <1>1
<1>3. \A i \in 1..Len(words) : words[i] \in Word
  BY ElementOfSeq
<1>4. \A i \in 1..Len(words) : segments[i] = <<words[i]>> /\ segments[i] \in Seq(Word)
  BY <1>2, <1>3
<1>5. segments \in Seq(Seq(Word)) /\ Len(segments) = Len(words)
  BY <1>1, <1>2, <1>4
<1> QED
  BY <1>4, <1>5

LEMMA WordsApart ==
    ASSUME NEW word \in Word, word \notin {P, "auth"}
    PROVE  <<word>> \notin {Param, <<"auth">>}
BY DEF P, Param

LEMMA ProxyIsRow ==
    ASSUME NEW method \in Method, NEW words \in Seq(Word),
           Len(words) >= 1, words[1] \in FirstWord
    PROVE  /\ Proxy(method, words) \in ProxyRow
           /\ Len(words) >= 2 => Converter(method, words) \in ProxyRow
<1> DEFINE segments == [i \in DOMAIN words |-> <<words[i]>>]
<1>1. /\ segments \in Seq(Seq(Word)) /\ Len(segments) = Len(words)
      /\ \A i \in 1..Len(words) : segments[i] = <<words[i]>>
  BY RowSegments
<1>2. Len(words) \in Nat /\ words[1] \in Word
  BY LenProperties, ElementOfSeq
<1>3. segments[1] \notin {Param, <<"auth">>}
  <2>1. segments[1] = <<words[1]>>
    BY <1>1, <1>2
  <2> HIDE DEF segments
  <2> QED
    BY <2>1, <1>2, FirstWords, WordsApart
<1>4. /\ Proxy(method, words) = [class |-> "proxy", converter |-> FALSE,
                                 method |-> method, segments |-> segments]
      /\ Converter(method, words) = [class |-> "proxy", converter |-> TRUE,
                                     method |-> method, segments |-> segments]
  BY DEF Proxy, Converter, Row
<1> HIDE DEF segments
<1> QED
  BY <1>1, <1>2, <1>3, <1>4 DEF ProxyRow

LEMMA AuthIsRow ==
    ASSUME NEW method \in Method, NEW words \in Seq(Word),
           Len(words) >= 1, words[1] = "auth"
    PROVE  Auth(method, words) \in AuthRow
<1> DEFINE segments == [i \in DOMAIN words |-> <<words[i]>>]
<1>1. /\ segments \in Seq(Seq(Word)) /\ Len(segments) = Len(words)
      /\ \A i \in 1..Len(words) : segments[i] = <<words[i]>>
  BY RowSegments
<1>2. Len(words) \in Nat /\ segments[1] = <<"auth">>
  BY <1>1, LenProperties
<1>3. Auth(method, words) = [class |-> "auth", converter |-> FALSE,
                             method |-> method, segments |-> segments]
  BY DEF Auth, Row
<1> HIDE DEF segments
<1> QED
  BY <1>1, <1>2, <1>3 DEF AuthRow

\* Rows as they are written, of one to six words.
LEMMA ProxyForms ==
    /\ \A method \in Method, word \in FirstWord :
          Proxy(method, <<word>>) \in ProxyRow
    /\ \A method \in Method, word \in FirstWord, b \in Word :
          Proxy(method, <<word, b>>) \in ProxyRow
    /\ \A method \in Method, word \in FirstWord, b, c \in Word :
          Proxy(method, <<word, b, c>>) \in ProxyRow
    /\ \A method \in Method, word \in FirstWord, b, c, d \in Word :
          Proxy(method, <<word, b, c, d>>) \in ProxyRow
    /\ \A method \in Method, word \in FirstWord, b, c, d, e \in Word :
          Proxy(method, <<word, b, c, d, e>>) \in ProxyRow
    /\ \A method \in Method, word \in FirstWord, b, c, d, e, f \in Word :
          Proxy(method, <<word, b, c, d, e, f>>) \in ProxyRow
    /\ \A method \in Method, word \in FirstWord, b, c \in Word :
          Converter(method, <<word, b, c>>) \in ProxyRow
<1>1. ASSUME NEW method \in Method, NEW word \in FirstWord
      PROVE  Proxy(method, <<word>>) \in ProxyRow
  <2> DEFINE words == <<word>>
  <2>1. words \in Seq(Word) /\ Len(words) = 1 /\ words[1] = word
    BY FirstWords
  <2> HIDE DEF words
  <2>2. Len(words) >= 1 /\ words[1] \in FirstWord
    BY <2>1
  <2>3. Proxy(method, words) \in ProxyRow
    BY <2>1, <2>2, ProxyIsRow
  <2> QED
    BY <2>3 DEF words
<1>2. ASSUME NEW method \in Method, NEW word \in FirstWord,
             NEW b \in Word
      PROVE  Proxy(method, <<word, b>>) \in ProxyRow
  <2> DEFINE words == <<word, b>>
  <2>1. words \in Seq(Word) /\ Len(words) = 2 /\ words[1] = word
    BY FirstWords
  <2> HIDE DEF words
  <2>2. Len(words) >= 1 /\ words[1] \in FirstWord
    BY <2>1
  <2>3. Proxy(method, words) \in ProxyRow
    BY <2>1, <2>2, ProxyIsRow
  <2> QED
    BY <2>3 DEF words
<1>3. ASSUME NEW method \in Method, NEW word \in FirstWord,
             NEW b \in Word, NEW c \in Word
      PROVE  Proxy(method, <<word, b, c>>) \in ProxyRow
  <2> DEFINE words == <<word, b, c>>
  <2>1. words \in Seq(Word) /\ Len(words) = 3 /\ words[1] = word
    BY FirstWords
  <2> HIDE DEF words
  <2>2. Len(words) >= 1 /\ words[1] \in FirstWord
    BY <2>1
  <2>3. Proxy(method, words) \in ProxyRow
    BY <2>1, <2>2, ProxyIsRow
  <2> QED
    BY <2>3 DEF words
<1>4. ASSUME NEW method \in Method, NEW word \in FirstWord,
             NEW b \in Word, NEW c \in Word, NEW d \in Word
      PROVE  Proxy(method, <<word, b, c, d>>) \in ProxyRow
  <2> DEFINE words == <<word, b, c, d>>
  <2>1. words \in Seq(Word) /\ Len(words) = 4 /\ words[1] = word
    BY FirstWords
  <2> HIDE DEF words
  <2>2. Len(words) >= 1 /\ words[1] \in FirstWord
    BY <2>1
  <2>3. Proxy(method, words) \in ProxyRow
    BY <2>1, <2>2, ProxyIsRow
  <2> QED
    BY <2>3 DEF words
<1>5. ASSUME NEW method \in Method, NEW word \in FirstWord,
             NEW b \in Word, NEW c \in Word, NEW d \in Word, NEW e \in Word
      PROVE  Proxy(method, <<word, b, c, d, e>>) \in ProxyRow
  <2> DEFINE words == <<word, b, c, d, e>>
  <2>1. words \in Seq(Word) /\ Len(words) = 5 /\ words[1] = word
    BY FirstWords
  <2> HIDE DEF words
  <2>2. Len(words) >= 1 /\ words[1] \in FirstWord
    BY <2>1
  <2>3. Proxy(method, words) \in ProxyRow
    BY <2>1, <2>2, ProxyIsRow
  <2> QED
    BY <2>3 DEF words
<1>6. ASSUME NEW method \in Method, NEW word \in FirstWord,
             NEW b \in Word, NEW c \in Word, NEW d \in Word, NEW e \in Word, NEW f \in Word
      PROVE  Proxy(method, <<word, b, c, d, e, f>>) \in ProxyRow
  <2> DEFINE words == <<word, b, c, d, e, f>>
  <2>1. words \in Seq(Word) /\ Len(words) = 6 /\ words[1] = word
    BY FirstWords
  <2> HIDE DEF words
  <2>2. Len(words) >= 1 /\ words[1] \in FirstWord
    BY <2>1
  <2>3. Proxy(method, words) \in ProxyRow
    BY <2>1, <2>2, ProxyIsRow
  <2> QED
    BY <2>3 DEF words
<1>7. ASSUME NEW method \in Method, NEW word \in FirstWord,
             NEW b \in Word, NEW c \in Word
      PROVE  Converter(method, <<word, b, c>>) \in ProxyRow
  <2> DEFINE words == <<word, b, c>>
  <2>1. words \in Seq(Word) /\ Len(words) = 3 /\ words[1] = word
    BY FirstWords
  <2> HIDE DEF words
  <2>2. Len(words) >= 1 /\ Len(words) >= 2 /\ words[1] \in FirstWord
    BY <2>1
  <2>3. Converter(method, words) \in ProxyRow
    BY <2>1, <2>2, ProxyIsRow
  <2> QED
    BY <2>3 DEF words
<1> QED
  BY <1>1, <1>2, <1>3, <1>4, <1>5, <1>6, <1>7

LEMMA RuntimeRows == RuntimeRoutes \in Seq(ProxyRow)
<1>1. /\ "meta" \in FirstWord /\ "capabilities" \in FirstWord
      /\ "operations" \in FirstWord /\ "overview" \in FirstWord
      /\ "stats" \in FirstWord /\ "runtime" \in FirstWord
  BY DEF FirstWord
<1>2. /\ P \in Word /\ "summary" \in Word /\ "breakdown" \in Word
      /\ "recent-calls" \in Word /\ "models" \in Word /\ "status" \in Word
      /\ "concurrency" \in Word /\ "cooldowns" \in Word
      /\ "background-jobs" \in Word
  BY DEF Word, FirstWord
<1>3. /\ "GET" \in Method /\ "DELETE" \in Method
  BY DEF Method
<1>4. /\ Proxy("GET", <<"meta">>) \in ProxyRow
      /\ Proxy("GET", <<"capabilities">>) \in ProxyRow
      /\ Proxy("GET", <<"operations", P>>) \in ProxyRow
      /\ Proxy("DELETE", <<"operations", P>>) \in ProxyRow
      /\ Proxy("GET", <<"overview">>) \in ProxyRow
      /\ Proxy("GET", <<"stats", "summary">>) \in ProxyRow
      /\ Proxy("GET", <<"stats", "breakdown">>) \in ProxyRow
      /\ Proxy("GET", <<"stats", "recent-calls">>) \in ProxyRow
      /\ Converter("GET", <<"stats", "models", P>>) \in ProxyRow
      /\ Proxy("GET", <<"runtime", "status">>) \in ProxyRow
      /\ Proxy("GET", <<"runtime", "concurrency">>) \in ProxyRow
      /\ Proxy("GET", <<"runtime", "cooldowns">>) \in ProxyRow
      /\ Proxy("GET", <<"runtime", "background-jobs">>) \in ProxyRow
  BY <1>1, <1>2, <1>3, ProxyForms
<1> QED
  BY <1>4 DEF RuntimeRoutes

LEMMA ChannelRows == ChannelRoutes \in Seq(ProxyRow)
<1>1. /\ "channels" \in FirstWord /\ "channel-catalog" \in FirstWord
      /\ "channel-drafts" \in FirstWord
      /\ "channel-model-discoveries" \in FirstWord
  BY DEF FirstWord
<1>2. /\ P \in Word /\ "order" \in Word /\ "probes" \in Word
      /\ "diagnostic-probes" \in Word /\ "actions" \in Word
      /\ "refresh-usage" \in Word /\ "clear-errors" \in Word
      /\ "clear-affinity" \in Word /\ "compatibility" \in Word
  BY DEF Word, FirstWord
<1>3. /\ "GET" \in Method /\ "POST" \in Method /\ "PATCH" \in Method
      /\ "DELETE" \in Method /\ "PUT" \in Method
  BY DEF Method
<1>4. /\ Proxy("GET", <<"channels">>) \in ProxyRow
      /\ Proxy("POST", <<"channels">>) \in ProxyRow
      /\ Proxy("GET", <<"channels", P>>) \in ProxyRow
      /\ Proxy("PATCH", <<"channels", P>>) \in ProxyRow
      /\ Proxy("DELETE", <<"channels", P>>) \in ProxyRow
      /\ Proxy("PUT", <<"channels", "order">>) \in ProxyRow
      /\ Proxy("GET", <<"channel-catalog">>) \in ProxyRow
      /\ Proxy("POST", <<"channel-drafts", "probes">>) \in ProxyRow
      /\ Proxy("POST", <<"channel-model-discoveries">>) \in ProxyRow
      /\ Proxy("POST", <<"channels", P, "diagnostic-probes">>) \in ProxyRow
      /\ Proxy("POST", <<"channels", P, "actions", "refresh-usage">>) \in ProxyRow
      /\ Proxy("POST", <<"channels", P, "actions", "clear-errors">>) \in ProxyRow
      /\ Proxy("POST", <<"channels", P, "actions", "clear-affinity">>) \in ProxyRow
      /\ Proxy("POST", <<"channels", "actions", "clear-errors">>) \in ProxyRow
      /\ Proxy("POST", <<"channels", "actions", "clear-affinity">>) \in ProxyRow
      /\ Proxy("GET", <<"channels", P, "compatibility">>) \in ProxyRow
      /\ Proxy("PATCH", <<"channels", P, "compatibility">>) \in ProxyRow
  BY <1>1, <1>2, <1>3, ProxyForms
<1> QED
  BY <1>4 DEF ChannelRoutes

LEMMA OAuthRows == OAuthRoutes \in Seq(ProxyRow)
<1>1. /\ "oauth" \in FirstWord
  BY DEF FirstWord
<1>2. /\ "accounts" \in Word /\ P \in Word /\ "actions" \in Word
      /\ "refresh-token" \in Word /\ "refresh-usage" \in Word
      /\ "clear-errors" \in Word /\ "clear-affinity" \in Word
      /\ "models" \in Word /\ "sync" \in Word /\ "settings" \in Word
      /\ "invalid-accounts" \in Word
  BY DEF Word, FirstWord
<1>3. /\ "GET" \in Method /\ "POST" \in Method /\ "PATCH" \in Method
      /\ "DELETE" \in Method
  BY DEF Method
<1>4. /\ Proxy("GET", <<"oauth", "accounts">>) \in ProxyRow
      /\ Proxy("POST", <<"oauth", "accounts">>) \in ProxyRow
      /\ Proxy("GET", <<"oauth", "accounts", P>>) \in ProxyRow
      /\ Proxy("PATCH", <<"oauth", "accounts", P>>) \in ProxyRow
      /\ Proxy("DELETE", <<"oauth", "accounts", P>>) \in ProxyRow
      /\ Proxy("POST", <<"oauth", "accounts", P, "actions", "refresh-token">>) \in ProxyRow
      /\ Proxy("POST", <<"oauth", "accounts", P, "actions", "refresh-usage">>) \in ProxyRow
      /\ Proxy("POST", <<"oauth", "accounts", P, "actions", "clear-errors">>) \in ProxyRow
      /\ Proxy("POST", <<"oauth", "accounts", P, "actions", "clear-affinity">>) \in ProxyRow
      /\ Proxy("GET", <<"oauth", "accounts", P, "models">>) \in ProxyRow
      /\ Proxy("PATCH", <<"oauth", "accounts", P, "models">>) \in ProxyRow
      /\ Proxy("POST", <<"oauth", "accounts", P, "models", "actions", "sync">>) \in ProxyRow
      /\ Proxy("PATCH", <<"oauth", "accounts", P, "models", "settings">>) \in ProxyRow
      /\ Proxy("POST", <<"oauth", "actions", "refresh-usage">>) \in ProxyRow
      /\ Proxy("POST", <<"oauth", "actions", "clear-errors">>) \in ProxyRow
      /\ Proxy("GET", <<"oauth", "invalid-accounts">>) \in ProxyRow
      /\ Proxy("GET", <<"oauth", "settings">>) \in ProxyRow
      /\ Proxy("PATCH", <<"oauth", "settings">>) \in ProxyRow
  BY <1>1, <1>2, <1>3, ProxyForms
<1> QED
  BY <1>4 DEF OAuthRoutes

LEMMA LoginAndImportRows == LoginAndImportRoutes \in Seq(ProxyRow)
<1>1. /\ "oauth" \in FirstWord
  BY DEF FirstWord
<1>2. /\ "login-flows" \in Word /\ P \in Word /\ "poll" \in Word
      /\ "complete" \in Word /\ "cancel" \in Word /\ "imports" \in Word
      /\ "preview" \in Word /\ "commit" \in Word
  BY DEF Word, FirstWord
<1>3. /\ "POST" \in Method
  BY DEF Method
<1>4. /\ Proxy("POST", <<"oauth", "login-flows">>) \in ProxyRow
      /\ Proxy("POST", <<"oauth", "login-flows", P, "poll">>) \in ProxyRow
      /\ Proxy("POST", <<"oauth", "login-flows", P, "complete">>) \in ProxyRow
      /\ Proxy("POST", <<"oauth", "login-flows", P, "cancel">>) \in ProxyRow
      /\ Proxy("POST", <<"oauth", "imports", "preview">>) \in ProxyRow
      /\ Proxy("POST", <<"oauth", "imports", P, "commit">>) \in ProxyRow
  BY <1>1, <1>2, <1>3, ProxyForms
<1> QED
  BY <1>4 DEF LoginAndImportRoutes

LEMMA ModelAndKeyRows == ModelAndKeyRoutes \in Seq(ProxyRow)
<1>1. /\ "models" \in FirstWord /\ "api-keys" \in FirstWord
  BY DEF FirstWord
<1>2. /\ P \in Word /\ "actions" \in Word /\ "state" \in Word
      /\ "secret" \in Word /\ "reset-limiter" \in Word
      /\ "generate-replacement-plan" \in Word /\ "stats" \in Word
      /\ "order" \in Word
  BY DEF Word, FirstWord
<1>3. /\ "GET" \in Method /\ "PATCH" \in Method /\ "POST" \in Method
      /\ "DELETE" \in Method /\ "PUT" \in Method
  BY DEF Method
<1>4. /\ Proxy("GET", <<"models">>) \in ProxyRow
      /\ Proxy("GET", <<"models", P>>) \in ProxyRow
      /\ Proxy("PATCH", <<"models", "actions", "state">>) \in ProxyRow
      /\ Proxy("GET", <<"api-keys">>) \in ProxyRow
      /\ Proxy("POST", <<"api-keys">>) \in ProxyRow
      /\ Proxy("GET", <<"api-keys", P>>) \in ProxyRow
      /\ Proxy("PATCH", <<"api-keys", P>>) \in ProxyRow
      /\ Proxy("DELETE", <<"api-keys", P>>) \in ProxyRow
      /\ Proxy("PUT", <<"api-keys", P, "secret">>) \in ProxyRow
      /\ Proxy("POST", <<"api-keys", P, "actions", "reset-limiter">>) \in ProxyRow
      /\ Proxy("POST", <<"api-keys", P, "actions", "generate-replacement-plan">>) \in ProxyRow
      /\ Proxy("GET", <<"api-keys", P, "stats">>) \in ProxyRow
      /\ Proxy("PUT", <<"api-keys", "order">>) \in ProxyRow
  BY <1>1, <1>2, <1>3, ProxyForms
<1> QED
  BY <1>4 DEF ModelAndKeyRoutes

LEMMA LogRows == LogRoutes \in Seq(ProxyRow)
<1>1. /\ "logs" \in FirstWord
  BY DEF FirstWord
<1>2. /\ "filter-options" \in Word /\ P \in Word /\ "body" \in Word
      /\ "items" \in Word /\ "raw-body" \in Word
  BY DEF Word, FirstWord
<1>3. /\ "GET" \in Method
  BY DEF Method
<1>4. /\ Proxy("GET", <<"logs">>) \in ProxyRow
      /\ Proxy("GET", <<"logs", "filter-options">>) \in ProxyRow
      /\ Proxy("GET", <<"logs", P>>) \in ProxyRow
      /\ Proxy("GET", <<"logs", P, "body">>) \in ProxyRow
      /\ Proxy("GET", <<"logs", P, "body", "items", P>>) \in ProxyRow
      /\ Proxy("GET", <<"logs", P, "raw-body">>) \in ProxyRow
  BY <1>1, <1>2, <1>3, ProxyForms
<1> QED
  BY <1>4 DEF LogRoutes

LEMMA AuthRows == AuthRoutes \in Seq(AuthRow)
<1>1. ASSUME NEW method \in Method, NEW word \in Word
      PROVE  Auth(method, <<"auth", word>>) \in AuthRow
  <2> DEFINE words == <<"auth", word>>
  <2>1. words \in Seq(Word) /\ Len(words) = 2 /\ words[1] = "auth"
    BY DEF Word
  <2> HIDE DEF words
  <2>2. Auth(method, words) \in AuthRow
    BY <2>1, AuthIsRow
  <2> QED
    BY <2>2 DEF words
<1> QED
  BY <1>1 DEF AuthRoutes, Word, Method

\* The routes of the proxy, as the table has them before those of the sign-in.
ProxyRoutes ==
    RuntimeRoutes \o ChannelRoutes \o OAuthRoutes \o LoginAndImportRoutes
    \o ModelAndKeyRoutes \o LogRoutes

LEMMA TheTable ==
    /\ FROZEN_UPSTREAM_ROUTES \in Seq(ProxyRow \cup AuthRow)
    /\ \A i \in DOMAIN FROZEN_UPSTREAM_ROUTES :
          \/ FROZEN_UPSTREAM_ROUTES[i] \in ProxyRow
          \/ FROZEN_UPSTREAM_ROUTES[i] \in AuthRow
<1>1. ProxyRoutes \in Seq(ProxyRow)
  <2>1. RuntimeRoutes \o ChannelRoutes \in Seq(ProxyRow)
    BY RuntimeRows, ChannelRows, ConcatProperties
  <2>2. RuntimeRoutes \o ChannelRoutes \o OAuthRoutes \in Seq(ProxyRow)
    BY <2>1, OAuthRows, ConcatProperties
  <2>3. RuntimeRoutes \o ChannelRoutes \o OAuthRoutes \o LoginAndImportRoutes
          \in Seq(ProxyRow)
    BY <2>2, LoginAndImportRows, ConcatProperties
  <2>4. RuntimeRoutes \o ChannelRoutes \o OAuthRoutes \o LoginAndImportRoutes
          \o ModelAndKeyRoutes \in Seq(ProxyRow)
    BY <2>3, ModelAndKeyRows, ConcatProperties
  <2> QED
    BY <2>4, LogRows, ConcatProperties DEF ProxyRoutes
<1>2. FROZEN_UPSTREAM_ROUTES = ProxyRoutes \o AuthRoutes
  BY DEF FROZEN_UPSTREAM_ROUTES, ProxyRoutes
<1>3. /\ ProxyRoutes \in Seq(ProxyRow \cup AuthRow)
      /\ AuthRoutes \in Seq(ProxyRow \cup AuthRow)
  BY <1>1, AuthRows
<1>4. FROZEN_UPSTREAM_ROUTES \in Seq(ProxyRow \cup AuthRow)
  BY <1>2, <1>3, ConcatProperties
<1> QED
  BY <1>4

\* A path that fits a route has the first segment of its template.
LEMMA FirstSegment ==
    ASSUME NEW Segment, NEW segments \in Seq(Segment),
           NEW row \in ProxyRow \cup AuthRow, Unifies(row, segments)
    PROVE  /\ 1 \in DOMAIN segments
           /\ segments[1] # <<"auth">> <=> row \in ProxyRow
           /\ segments[1] = row.segments[1]
<1> DEFINE n == Len(row.segments)
<1>1. /\ n \in Nat /\ n >= (IF row.converter THEN 2 ELSE 1)
      /\ row.segments[1] # Param
      /\ row \in ProxyRow => row.segments[1] # <<"auth">>
      /\ row \in AuthRow => row.segments[1] = <<"auth">>
  <2>1. row \in ProxyRow => row.segments \in Seq(Seq(Word))
    BY DEF ProxyRow
  <2>2. row \in AuthRow => row.segments \in Seq(Seq(Word))
    BY DEF AuthRow
  <2>3. n \in Nat
    BY <2>1, <2>2, LenProperties
  <2>4. <<"auth">> # Param
    BY DEF Param
  <2> QED
    BY <2>3, <2>4 DEF ProxyRow, AuthRow
<1>2. Len(segments) \in Nat /\ DOMAIN segments = 1..Len(segments)
  BY LenProperties
<1>3. Len(segments) >= n /\ Fits(row.segments[1], segments[1])
  BY <1>1 DEF Unifies, FitsAll
<1>4. segments[1] = row.segments[1]
  BY <1>1, <1>3 DEF Fits
<1> QED
  BY <1>1, <1>2, <1>3, <1>4

\* No path can be forwarded that is one of the upstream's sign-in, whatever the
\* method: its first segment is the word that a route of the proxy begins with,
\* and no route of the sign-in fits it.  So a browser can neither open nor end
\* a session at the upstream behind the back of the auth controller.
THEOREM SignInNeverForwarded ==
    ASSUME NEW Text, NEW path \in Seq(Text), NEW method,
           NEW found, found = MatchProxyRoute(FROZEN_UPSTREAM_ROUTES, method, path),
           found.verdict = "forward"
    PROVE  /\ found.route \in ProxyRow /\ found.route.method = method
           /\ Decode(found.upstreamPath[1]) = found.route.segments[1]
           /\ Fitting(FROZEN_UPSTREAM_ROUTES, "auth", [k \in DOMAIN path |-> Decode(path[k])]) = {}
<1> DEFINE table    == FROZEN_UPSTREAM_ROUTES
           segments == [k \in DOMAIN path |-> Decode(path[k])]
           Segment  == {segments[k] : k \in DOMAIN path}
<1>1. PICK i \in DOMAIN table :
         /\ found.route = table[i]
         /\ table[i].class = "proxy" /\ table[i].method = method
         /\ Unifies(table[i], segments)
  BY TheTable, ForwardedAsAsked
<1>2. \A k \in DOMAIN path : Decode(found.upstreamPath[k]) = segments[k]
  BY TheTable, ForwardedAsAsked
<1>3. DOMAIN segments = DOMAIN path /\ segments \in Seq(Segment)
  <2>1. DOMAIN path = 1..Len(path) /\ Len(path) \in Nat
    BY LenProperties
  <2> QED
    BY <2>1
<1>4. \A j \in DOMAIN table : table[j] \in ProxyRow \/ table[j] \in AuthRow
  BY TheTable
<1> HIDE DEF segments, Segment, table
<1>5. table[i] \in ProxyRow
  BY <1>1, <1>4 DEF AuthRow
<1>6. /\ 1 \in DOMAIN path /\ segments[1] # <<"auth">>
      /\ segments[1] = table[i].segments[1]
  BY <1>1, <1>3, <1>5, FirstSegment
<1>7. Fitting(table, "auth", segments) = {}
  <2> SUFFICES ASSUME NEW j \in DOMAIN table, table[j].class = "auth",
                      Unifies(table[j], segments)
               PROVE  FALSE
    BY DEF Fitting
  <2>1. table[j] \in AuthRow /\ table[j] \notin ProxyRow
    BY <1>4 DEF ProxyRow
  <2>2. segments[1] # <<"auth">> <=> table[j] \in ProxyRow
    BY <1>3, <2>1, FirstSegment
  <2> QED
    BY <1>6, <2>1, <2>2
<1> QED
  BY <1>1, <1>2, <1>5, <1>6, <1>7 DEF segments, table

-----------------------------------------------------------------------------
(* The guards and the query.                                               *)

\* A query that is forwarded names what the browser's named, in its order and
\* case, each key and value decoding to the same text, none of it a denied key
\* however its letters are written, a traversal or a control character; and it
\* is no longer than the limit.
THEOREM QueryAsAsked ==
    ASSUME NEW Parameter, NEW query \in Seq(Parameter),
           NEW found, found = SanitizeUpstreamQuery(query), found.verdict = "forward"
    PROVE  /\ DOMAIN found.query = DOMAIN query /\ ~(QueryLength(query) > 4096)
           /\ \A i \in DOMAIN query :
                 LET key  == Decode(query[i].key)
                     text == Decode(query[i].value)
                 IN  /\ Decode(found.query[i].key) = key
                     /\ found.query[i].upper = query[i].upper
                     /\ Decode(found.query[i].value) = text
                     /\ key \notin DeniedQueryKeys /\ ~Traverses(text)
                     /\ \A j \in DOMAIN key : key[j] \notin Control
                     /\ \A j \in DOMAIN text : text[j] \notin Control
<1> DEFINE long   == QueryLength(query) > 4096
           unsafe == \E i \in DOMAIN query :
              \/ PlainlyUnsafe(query[i].key) \/ PlainlyUnsafe(query[i].value)
              \/ ~SafeParameter(query[i])
           sent == [i \in DOMAIN query |->
                       [key   |-> Encode(Decode(query[i].key)),
                        upper |-> query[i].upper,
                        value |-> Encode(Decode(query[i].value))]]
<1>1. found = IF long \/ unsafe THEN Refuse("WEBUI_INVALID_REQUEST")
              ELSE [verdict |-> "forward", query |-> sent]
  BY DEF SanitizeUpstreamQuery
<1>2. ~long /\ ~unsafe
  <2>1. Refuse("WEBUI_INVALID_REQUEST").verdict # "forward"
    BY DEF Refuse
  <2> HIDE DEF long, unsafe, sent
  <2> QED
    BY <1>1, <2>1
<1>3. found.query = sent
  <2> HIDE DEF long, unsafe, sent
  <2> QED
    BY <1>1, <1>2
<1>4. ASSUME NEW i \in DOMAIN query
      PROVE  /\ sent[i].key = Encode(Decode(query[i].key))
             /\ sent[i].upper = query[i].upper
             /\ sent[i].value = Encode(Decode(query[i].value))
             /\ SafeParameter(query[i])
  BY <1>2
<1>5. DOMAIN sent = DOMAIN query
  OBVIOUS
<1> HIDE DEF sent
<1>6. ASSUME NEW i \in DOMAIN query
      PROVE  /\ Decode(sent[i].key) = Decode(query[i].key)
             /\ Decode(sent[i].value) = Decode(query[i].value)
  <2>1. /\ Decode(query[i].key) = [j \in DOMAIN Decode(query[i].key) |-> Decode(query[i].key)[j]]
        /\ Decode(query[i].value) = [j \in DOMAIN Decode(query[i].value) |-> Decode(query[i].value)[j]]
    BY DEF Decode
  <2> QED
    BY <1>4, <2>1, DecodeEncode
<1> QED
  <2>1. ASSUME NEW i \in DOMAIN query
        PROVE  /\ Decode(query[i].key) \notin DeniedQueryKeys
               /\ ~Traverses(Decode(query[i].value))
               /\ \A j \in DOMAIN Decode(query[i].key) :
                     Decode(query[i].key)[j] \notin Control
               /\ \A j \in DOMAIN Decode(query[i].value) :
                     Decode(query[i].value)[j] \notin Control
    <3> DEFINE key  == Decode(query[i].key)
               text == Decode(query[i].value)
    <3>1. key \notin DeniedQueryKeys /\ Clean(key) /\ Clean(text) /\ ~Traverses(text)
      BY <1>4 DEF SafeParameter
    <3> HIDE DEF key, text
    <3>2. /\ \A j \in DOMAIN key : key[j] \notin Control
          /\ \A j \in DOMAIN text : text[j] \notin Control
      BY <3>1 DEF Clean
    <3> QED
      BY <3>1, <3>2 DEF key, text
  <2> HIDE DEF long, unsafe
  <2>2. DOMAIN found.query = DOMAIN query /\ ~(QueryLength(query) > 4096)
    BY <1>2, <1>3, <1>5 DEF long
  <2>3. ASSUME NEW i \in DOMAIN query
        PROVE  /\ Decode(found.query[i].key) = Decode(query[i].key)
               /\ found.query[i].upper = query[i].upper
               /\ Decode(found.query[i].value) = Decode(query[i].value)
    <3>1. found.query[i] = sent[i]
      BY <1>3
    <3> QED
      BY <1>4, <1>6, <3>1
  <2>4. ASSUME NEW i \in DOMAIN query
        PROVE  LET key  == Decode(query[i].key)
                   text == Decode(query[i].value)
               IN  /\ Decode(found.query[i].key) = key
                   /\ found.query[i].upper = query[i].upper
                   /\ Decode(found.query[i].value) = text
                   /\ key \notin DeniedQueryKeys /\ ~Traverses(text)
                   /\ \A j \in DOMAIN key : key[j] \notin Control
                   /\ \A j \in DOMAIN text : text[j] \notin Control
    BY <2>1, <2>3
  <2> QED
    BY <2>2, <2>4

\* The proxy forwards only what the console itself asks for in a session: a
\* request to the public host with a session, and whatever is no GET is one of
\* the four writes, from the public origin, with the token of that session and a
\* body within the limit of its route.  The checks of the origin and the type
\* let other methods through; the table is what has none of them.
THEOREM ForwardedOnlyForTheSession ==
    ASSUME NEW Text, NEW r, r.path \in Seq(Text), NEW config, NEW session, NEW limit,
           NEW found, found = ProxyVerdict(r, config, session, limit),
           found.verdict = "forward"
    PROVE  /\ r.host = config.publicHost /\ session # NoSession
           /\ r.method # "GET" =>
                 /\ r.method \in WRITE_METHODS
                 /\ r.origin = config.publicOrigin
                 /\ r.site \in {Missing, "same-origin", "none"}
                 /\ r.contentType \in {Missing, "", "application/json"}
                 /\ session.csrfToken # Missing /\ r.csrf = session.csrfToken
                 /\ ~(r.bodyBytes > limit)
           /\ found.route \in ProxyRow /\ found.route.method = r.method
<1> DEFINE guard == GuardVerdict(r, config, session)
           match == MatchProxyRoute(FROZEN_UPSTREAM_ROUTES, r.method, r.path)
           query == SanitizeUpstreamQuery(r.query)
           heavy == r.method # "GET" /\ r.bodyBytes > limit
           sent  == [verdict |-> "forward", route |-> match.route,
                     path |-> match.upstreamPath, query |-> query.query]
<1>1. found = IF guard # "pass" THEN Refuse(guard)
              ELSE IF match.verdict # "forward" THEN match
              ELSE IF query.verdict # "forward" THEN query
              ELSE IF heavy THEN Refuse("WEBUI_PAYLOAD_TOO_LARGE")
              ELSE sent
  BY DEF ProxyVerdict
<1>2. guard # "forward"
  BY DEF GuardVerdict
<1>3. guard = "pass" /\ match.verdict = "forward" /\ ~heavy /\ found.route = match.route
  <2>1. sent.route = match.route
    OBVIOUS
  <2>2. /\ Refuse(guard).verdict = guard
        /\ Refuse("WEBUI_PAYLOAD_TOO_LARGE").verdict # "forward"
    BY DEF Refuse
  <2> HIDE DEF guard, match, query, heavy, sent
  <2> QED
    BY <1>1, <1>2, <2>1, <2>2
<1>4. match.route \in ProxyRow /\ match.route.method = r.method
  BY <1>3, SignInNeverForwarded
<1>5. r.method \in Method
  BY <1>4 DEF ProxyRow
<1>6. /\ HostAccepted(r, config, FALSE) /\ session # NoSession
      /\ r.method # "GET" =>
            /\ OriginAccepted(r, config) /\ ContentTypeAccepted(r)
            /\ CsrfAccepted(r, session.csrfToken)
  BY <1>3 DEF GuardVerdict
<1>7. r.method # "GET" => r.method \in WRITE_METHODS
  BY <1>5 DEF Method, WRITE_METHODS
<1>8. r.host = config.publicHost
  BY <1>6 DEF HostAccepted
<1>9. ASSUME r.method # "GET"
      PROVE  /\ r.origin = config.publicOrigin
             /\ r.site \in {Missing, "same-origin", "none"}
             /\ r.contentType \in {Missing, "", "application/json"}
             /\ session.csrfToken # Missing /\ r.csrf = session.csrfToken
             /\ ~(r.bodyBytes > limit)
  BY <1>3, <1>6, <1>7, <1>9 DEF OriginAccepted, ContentTypeAccepted, CsrfAccepted
<1> QED
  BY <1>3, <1>4, <1>6, <1>7, <1>8, <1>9

-----------------------------------------------------------------------------
(* The way back.                                                           *)

\* Where the two sides of the cookie disagree about the end of a session, for
\* every answer.  The proxy's handler destroys the session and clears the cookie
\* without the API client of the tab reading the reply as a lost session only
\* when the answer is not declared as JSON; and the tab gives up a session that
\* the BFF keeps exactly for a JSON error whose code is a session code at a
\* status the proxy does not look at, or one of the BFF's own session codes,
\* which the proxy does not know.  Every other answer ends both or neither.
THEOREM WhereSessionEndsDiffer ==
    ASSUME NEW answer, NEW maxBytes
    PROVE  LET drops == DropsSession(answer, maxBytes)
               lost  == IsSessionLost(ProxyReply(answer, maxBytes))
           IN  /\ drops /\ ~lost <=> drops /\ answer.body = "other"
               /\ ~drops /\ lost <=>
                     /\ CallError(answer, maxBytes) = NoCode
                     /\ answer.body # "other"
                     /\ answer.status \notin 200..299 /\ answer.status # 401
                     /\ \/ answer.code \in SessionCodes /\ answer.status # 403
                        \/ answer.code \in WebuiSessionCodes
<1> DEFINE error == CallError(answer, maxBytes)
           reply == ProxyReply(answer, maxBytes)
           drops == DropsSession(answer, maxBytes)
           own   == IF error # NoCode THEN error ELSE "WEBUI_UPSTREAM_UNEXPECTED_CONTENT"
<1>1. CASE error # NoCode \/ answer.body = "other"
  <2>1. reply = WebuiReply(own)
    BY <1>1 DEF ProxyReply
  <2>2. own \in {"WEBUI_UPSTREAM_TIMEOUT", "WEBUI_UPSTREAM_UNREACHABLE",
                 "WEBUI_UPSTREAM_REDIRECT_BLOCKED", "WEBUI_RESPONSE_TOO_LARGE",
                 "WEBUI_UPSTREAM_UNEXPECTED_CONTENT"}
    BY DEF CallError, TransportError
  <2> HIDE DEF reply, own, error
  <2>3. reply.code = own /\ reply.status \in {502, 504}
    BY <2>1, <2>2 DEF WebuiReply, STATUS_BY_CODE
  <2>4. ~IsSessionLost(reply)
    BY <2>2, <2>3 DEF IsSessionLost, SessionCodes, WebuiSessionCodes
  <2>5. drops => answer.body = "other"
    BY <1>1 DEF DropsSession, error
  <2> QED
    BY <1>1, <2>4, <2>5 DEF reply, error
<1>2. CASE error = NoCode /\ answer.body # "other"
  <2>1. reply.status = answer.status /\ reply.code = answer.code
    BY <1>2 DEF ProxyReply
  <2> HIDE DEF reply
  <2>2. IsSessionLost(reply) <=>
           /\ answer.status \notin 200..299
           /\ \/ answer.code \in SessionCodes \cup WebuiSessionCodes
              \/ answer.status = 401
    BY <2>1 DEF IsSessionLost, Succeeds
  <2>3. drops <=> answer.status = 401 \/ (answer.status = 403 /\ answer.code \in SessionCodes)
    BY <1>2 DEF DropsSession
  <2>4. 401 \notin 200..299 /\ 403 \notin 200..299
    OBVIOUS
  <2> DEFINE lost == IsSessionLost(reply)
             ok   == answer.status \in 200..299
  <2>5. drops => lost
    BY <2>2, <2>3, <2>4
  <2>6. ~drops /\ lost <=>
           /\ ~ok /\ answer.status # 401
           /\ \/ answer.code \in SessionCodes /\ answer.status # 403
              \/ answer.code \in WebuiSessionCodes
    <3>1. \A code \in WebuiSessionCodes : code \notin SessionCodes
      BY DEF SessionCodes, WebuiSessionCodes
    <3> HIDE DEF drops, lost
    <3> QED
      BY <2>2, <2>3, <2>4, <3>1 DEF lost
  <2> HIDE DEF drops, error, lost
  <2> QED
    BY <1>2, <2>5, <2>6 DEF reply, drops, error, lost
<1> QED
  BY <1>1, <1>2

\* A page can tell who failed, whatever the answer and the limit: an error that
\* came of the transport, a redirect, the limit or the content is the BFF's own,
\* with one of its codes.  Any other error has the upstream's status, code and
\* retryable flag, and is the upstream's unless its error block says "webui".
THEOREM FailureHasItsSource ==
    ASSUME NEW answer, NEW maxBytes, ~Succeeds(ProxyReply(answer, maxBytes))
    PROVE  LET read == ReadReply(ProxyReply(answer, maxBytes))
           IN  IF CallError(answer, maxBytes) # NoCode \/ answer.body = "other"
               THEN read.source = "webui" /\ read.error \in WebuiErrorCode
               ELSE /\ read.source = IF answer.source = "webui" THEN "webui" ELSE "upstream"
                    /\ read.retryable = answer.retryable
                    /\ ProxyReply(answer, maxBytes).status = answer.status
                    /\ read.error = IF answer.code = NoCode THEN "HTTP" ELSE answer.code
<1> DEFINE reply == ProxyReply(answer, maxBytes)
           error == CallError(answer, maxBytes)
           own   == IF error # NoCode THEN error ELSE "WEBUI_UPSTREAM_UNEXPECTED_CONTENT"
<1>1. error \in {"WEBUI_UPSTREAM_TIMEOUT", "WEBUI_UPSTREAM_UNREACHABLE", NoCode,
                 "WEBUI_UPSTREAM_REDIRECT_BLOCKED", "WEBUI_RESPONSE_TOO_LARGE"}
  BY DEF CallError, TransportError
<1>2. own \in WebuiErrorCode /\ own # NoCode
  <2>1. own \in {"WEBUI_UPSTREAM_TIMEOUT", "WEBUI_UPSTREAM_UNREACHABLE",
                 "WEBUI_UPSTREAM_REDIRECT_BLOCKED", "WEBUI_RESPONSE_TOO_LARGE",
                 "WEBUI_UPSTREAM_UNEXPECTED_CONTENT"}
    BY <1>1
  <2> HIDE DEF own
  <2> QED
    BY <2>1 DEF WebuiErrorCode, STATUS_BY_CODE, NoCode
<1>3. ReadReply(reply) =
         [error |-> IF reply.code = NoCode THEN "HTTP" ELSE reply.code,
          source |-> IF reply.source = "webui" THEN "webui" ELSE "upstream",
          retryable |-> reply.retryable]
  BY DEF ReadReply
<1>4. CASE error # NoCode \/ answer.body = "other"
  <2>1. reply = WebuiReply(own)
    BY <1>4 DEF ProxyReply
  <2> HIDE DEF reply, own
  <2>2. reply.code = own /\ reply.source = "webui"
    BY <2>1 DEF WebuiReply
  <2>3. ReadReply(reply).source = "webui" /\ ReadReply(reply).error = own
    BY <1>2, <1>3, <2>2
  <2> QED
    BY <1>2, <1>4, <2>3 DEF reply
<1>5. CASE ~(error # NoCode \/ answer.body = "other")
  <2>1. /\ reply.code = answer.code /\ reply.source = answer.source
        /\ reply.retryable = answer.retryable /\ reply.status = answer.status
    BY <1>5 DEF ProxyReply
  <2> HIDE DEF reply
  <2>2. /\ ReadReply(reply).source = IF answer.source = "webui" THEN "webui" ELSE "upstream"
        /\ ReadReply(reply).retryable = answer.retryable
        /\ ReadReply(reply).error = IF answer.code = NoCode THEN "HTTP" ELSE answer.code
    BY <1>3, <2>1
  <2> QED
    BY <1>5, <2>1, <2>2 DEF reply
<1> QED
  BY <1>4, <1>5

\* No half answer is taken for data, whatever the limit: a call succeeds for the
\* page only if the upstream answered 2xx, no fault broke the answer off, its
\* size is within the limit, and it was empty or JSON that can be read (a 204's
\* body is dropped unread).
THEOREM OnlyWholeAnswersRead ==
    ASSUME NEW answer, answer.status \in Nat, answer.bytes \in Nat, NEW maxBytes \in Nat,
           answer.body \in {"empty", "json", "malformed", "other"},
           Succeeds(ProxyReply(answer, maxBytes)),
           ReadReply(ProxyReply(answer, maxBytes)).error = NoError
    PROVE  /\ answer.status \in 200..299 /\ answer.fault = NoFault
           /\ answer.bytes <= maxBytes
           /\ \/ answer.body \in {"empty", "json"}
              \/ answer.status = 204 /\ answer.body = "malformed"
<1> DEFINE reply == ProxyReply(answer, maxBytes)
           error == CallError(answer, maxBytes)
<1>1. error \in {"WEBUI_UPSTREAM_TIMEOUT", "WEBUI_UPSTREAM_UNREACHABLE", NoCode,
                 "WEBUI_UPSTREAM_REDIRECT_BLOCKED", "WEBUI_RESPONSE_TOO_LARGE"}
  BY DEF CallError, TransportError
<1>2. \A code \in {"WEBUI_UPSTREAM_TIMEOUT", "WEBUI_UPSTREAM_UNREACHABLE",
                 "WEBUI_UPSTREAM_REDIRECT_BLOCKED", "WEBUI_RESPONSE_TOO_LARGE",
                 "WEBUI_UPSTREAM_UNEXPECTED_CONTENT"} : ~Succeeds(WebuiReply(code))
  BY DEF Succeeds, WebuiReply, STATUS_BY_CODE
<1>3. error = NoCode /\ answer.body # "other"
  <2>1. CASE error # NoCode
    <3>1. reply = WebuiReply(error)
      BY <2>1 DEF ProxyReply
    <3> HIDE DEF error
    <3> QED
      BY <1>1, <1>2, <2>1, <3>1
  <2>2. CASE error = NoCode /\ answer.body = "other"
    <3>1. reply = WebuiReply("WEBUI_UPSTREAM_UNEXPECTED_CONTENT")
      BY <2>2 DEF ProxyReply
    <3> QED
      BY <1>2, <3>1
  <2> QED
    BY <2>1, <2>2
<1>4. /\ reply.status = answer.status
      /\ reply.body = IF answer.status = 204 THEN "empty" ELSE answer.body
  BY <1>3 DEF ProxyReply
<1>5. answer.status \in 200..299
  <2> HIDE DEF reply
  <2> QED
    BY <1>4 DEF Succeeds, reply
<1>6. answer.bytes <= maxBytes /\ answer.fault = NoFault
  <2>1. \A fault : TransportError(fault) # NoCode
    BY DEF TransportError, NoCode
  <2>2. answer.status # 0 /\ answer.status \notin 300..399
    BY <1>5
  <2>3. error = IF answer.bytes > maxBytes THEN "WEBUI_RESPONSE_TOO_LARGE"
                ELSE IF answer.fault # NoFault THEN TransportError(answer.fault)
                ELSE NoCode
    BY <2>2 DEF CallError
  <2> HIDE DEF error
  <2>4. ~(answer.bytes > maxBytes) /\ answer.fault = NoFault
    BY <1>3, <2>1, <2>3 DEF NoCode
  <2> QED
    BY <2>4
<1>7. reply.body # "malformed"
  BY DEF ReadReply, NoError
<1> HIDE DEF reply
<1> QED
  BY <1>3, <1>4, <1>5, <1>6, <1>7

-----------------------------------------------------------------------------
(* The configuration.                                                      *)

\* The least value of every numeric setting is a positive one, and so is the
\* value it takes when it is not given.
LEMMA SettingsPositive ==
    \A name \in Setting :
       /\ NumericSettings[name][1] \in Nat \ {0}
       /\ NumericSettings[name][2] \in Nat \ {0}
BY DEF Setting, NumericSettings

\* Whatever environment loadConfig accepts, its numbers are what the models of
\* the session store, the gates and the limiters assume of their constants:
\* positive, and a session's absolute life no shorter than its idle life; and
\* the BFF does not forward to itself.
THEOREM AcceptedConfigurationFits ==
    ASSUME NEW env, Accepted(env),
           \A name \in Setting : env.numbers[name] \in [given : BOOLEAN, value : Int]
    PROVE  /\ \A name \in Setting : Config(env).numbers[name] \in Nat \ {0}
           /\ Config(env).numbers["WEBUI_SESSION_IDLE_SECONDS"]
                <= Config(env).numbers["WEBUI_SESSION_MAX_SECONDS"]
           /\ Config(env).upstreamOrigin # Config(env).publicOrigin
<1>1. ASSUME NEW name \in Setting
      PROVE  Number(env, name) \in Nat \ {0}
  <2>1. NumberAccepted(env, name)
    BY DEF Accepted
  <2>2. NumericSettings[name][1] \in Nat \ {0} /\ NumericSettings[name][2] \in Nat \ {0}
    BY SettingsPositive
  <2>3. CASE env.numbers[name].given
    <3>1. env.numbers[name].value \in Int
            /\ NumericSettings[name][2] <= env.numbers[name].value
      BY <2>1, <2>3 DEF NumberAccepted
    <3>2. Number(env, name) = env.numbers[name].value
      BY <2>3 DEF Number
    <3> QED
      BY <2>2, <3>1, <3>2
  <2>4. CASE ~env.numbers[name].given
    BY <2>2, <2>4 DEF Number
  <2> QED
    BY <2>3, <2>4
<1>2. \A name \in Setting : Config(env).numbers[name] = Number(env, name)
  BY DEF Config
<1>3. /\ "WEBUI_SESSION_IDLE_SECONDS" \in Setting
      /\ "WEBUI_SESSION_MAX_SECONDS" \in Setting
  BY DEF Setting, NumericSettings
<1>4. /\ Number(env, "WEBUI_SESSION_IDLE_SECONDS") <= Number(env, "WEBUI_SESSION_MAX_SECONDS")
      /\ Origin(env.upstream) # Origin(PublicOf(env))
  BY DEF Accepted
<1>5. /\ Config(env).upstreamOrigin = Origin(env.upstream)
      /\ Config(env).publicOrigin = Origin(PublicOf(env))
  BY DEF Config
<1> QED
  BY <1>1, <1>2, <1>3, <1>4, <1>5

\* In production a BFF that starts has Secure and prefixed cookies, names the
\* proxies it trusts one by one, shows its upstream only when it is told to, and
\* is reached over https unless a flag allows http; and without any flag a
\* browser keeps its cookie, for a Secure one is set on an https origin only.
THEOREM ProductionStartsClosed ==
    ASSUME NEW env, Accepted(env), env.production \in BOOLEAN
    PROVE  /\ env.production =>
                 /\ Config(env).cookieSecure /\ Config(env).cookiePrefix = "__Secure-"
                 /\ Config(env).trustProxy # {}
                 /\ "*" \notin Config(env).trustProxy /\ "true" \notin Config(env).trustProxy
                 /\ Config(env).showsUpstream =>
                       env.flags["WEBUI_DIAGNOSTICS_EXPOSE_UPSTREAM"] = "true"
                 /\ Config(env).publicOrigin.scheme # "https" =>
                       env.flags["WEBUI_ALLOW_INSECURE_PUBLIC_ORIGIN"] = "true"
           /\ (\A flag \in Flag : env.flags[flag] = "unset")
              /\ Config(env).cookieSecure => Config(env).publicOrigin.scheme = "https"
<1> DEFINE shows == \/ ~env.production
                    \/ FlagIs(env, "WEBUI_DIAGNOSTICS_EXPOSE_UPSTREAM", FALSE)
           prefix == IF CookieSecure(env) THEN "__Secure-" ELSE ""
<1>1. /\ Config(env).cookieSecure = CookieSecure(env)
      /\ Config(env).cookiePrefix = prefix
      /\ Config(env).trustProxy = TrustProxy(env)
      /\ Config(env).showsUpstream = shows
      /\ Config(env).publicOrigin = Origin(PublicOf(env))
  BY DEF Config
<1>2. Config(env).publicOrigin.scheme = PublicOf(env).scheme
  <2>1. Origin(PublicOf(env)).scheme = PublicOf(env).scheme
    BY DEF Origin
  <2>2. Config(env).publicOrigin = Origin(PublicOf(env))
    BY <1>1
  <2> QED
    BY <2>1, <2>2
<1>3. PublicOf(env).scheme \in {"http", "https"}
  BY DEF Accepted, OriginShape
<1>4. \A name : FlagIs(env, name, FALSE) <=> env.flags[name] = "true"
  BY DEF FlagIs
<1>5. env.production /\ PublicOf(env).scheme = "http"
      => env.flags["WEBUI_ALLOW_INSECURE_PUBLIC_ORIGIN"] = "true"
  BY <1>4 DEF Accepted
<1>6. ASSUME env.production
      PROVE  /\ CookieSecure(env) /\ prefix = "__Secure-"
             /\ TrustProxy(env) # {} /\ "*" \notin TrustProxy(env)
             /\ "true" \notin TrustProxy(env)
             /\ shows => env.flags["WEBUI_DIAGNOSTICS_EXPOSE_UPSTREAM"] = "true"
             /\ PublicOf(env).scheme # "https" =>
                   env.flags["WEBUI_ALLOW_INSECURE_PUBLIC_ORIGIN"] = "true"
  <2>1. CookieSecure(env)
    BY <1>6 DEF CookieSecure
  <2>2. /\ TrustProxy(env) # {} /\ "*" \notin TrustProxy(env)
        /\ "true" \notin TrustProxy(env)
    BY <1>6 DEF Accepted, TrustAccepted, TrustProxy
  <2>3. shows => env.flags["WEBUI_DIAGNOSTICS_EXPOSE_UPSTREAM"] = "true"
    BY <1>4, <1>6
  <2> QED
    BY <1>3, <1>5, <1>6, <2>1, <2>2, <2>3
<1>7. ASSUME \A flag \in Flag : env.flags[flag] = "unset", CookieSecure(env)
      PROVE  PublicOf(env).scheme = "https"
  <2>1. env.flags["WEBUI_DEV_INSECURE_COOKIES"] = "unset"
          /\ env.flags["WEBUI_ALLOW_INSECURE_PUBLIC_ORIGIN"] = "unset"
    BY <1>7 DEF Flag
  <2>2. env.production
    BY <1>7, <2>1 DEF CookieSecure, FlagIs
  <2> QED
    BY <1>3, <1>5, <2>1, <2>2
<1> HIDE DEF shows, prefix
<1> QED
  BY <1>1, <1>2, <1>6, <1>7
=============================================================================
