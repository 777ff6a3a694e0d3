---------------------------- MODULE ClientAddress ----------------------------
(***************************************************************************)
(* Which client a request counts for (apps/bff/src/security/ip.ts): the    *)
(* rate limiters of the login and of the bootstrap are keyed by it.        *)
(*                                                                         *)
(* An address as it is written is a record: `wrap`, the notations around   *)
(* it from the outside in ("mapped" for a leading ::ffff: and "brackets"); *)
(* `parts`, the text inside cut at "::", each part the sequence of its     *)
(* colon-separated groups; and `zone`, whether a %zone follows.  A group   *)
(* is <<n>> for hexadecimal digits, four numbers for a dotted quad, and    *)
(* <<>> for anything else.  An empty text has no parts.                    *)
(***************************************************************************)
EXTENDS Integers, Sequences, SequencesExt

\* normalizeIp: the prefix goes before the brackets do, each once.
DropWrap(t, notation) ==
    IF t.wrap # <<>> /\ t.wrap[1] = notation THEN [t EXCEPT !.wrap = Tail(@)] ELSE t
NormalizeIp(t) == DropWrap(DropWrap(t, "mapped"), "brackets")

Unreadable == <<>>  \* the null of ipv4ToLong and ipv6ToBytes

Quad(group) == Len(group) = 4 /\ \A i \in 1..4 : group[i] \in 0..255

\* ipv4ToLong, most significant byte first: a dotted quad and nothing else.
Ipv4(t) ==
    IF /\ t.wrap = <<>> /\ ~t.zone /\ Len(t.parts) = 1 /\ Len(t.parts[1]) = 1
       /\ Quad(t.parts[1][1])
    THEN t.parts[1][1]
    ELSE Unreadable

HexGroup(group) == Len(group) = 1 /\ group[1] \in 0..65535
BytesOf(group) == IF Quad(group) THEN group ELSE <<group[1] \div 256, group[1] % 256>>
ExpandGroups(part) == FlattenSeq([i \in DOMAIN part |-> BytesOf(part[i])])
Readable(part) == \A i \in DOMAIN part : Quad(part[i]) \/ HexGroup(part[i])

\* The text cut at "::", a prefix that normalizeIp has left in it included.
Cut(t) ==
    IF t.wrap = <<"mapped">>
    THEN <<<<>>, <<<<65535>>>> \o t.parts[1]>> \o Tail(t.parts)
    ELSE t.parts

\* ipv6ToBytes.  What follows a second "::" is not looked at.
Ipv6(t) ==
    LET cut   == Cut(t)
        colon == Len(cut) > 1 \/ (Len(cut) = 1 /\ Len(cut[1]) > 1)
        head  == ExpandGroups(cut[1])
        tail  == ExpandGroups(cut[2])
        fill  == 16 - Len(head) - Len(tail)
    IN  IF \/ "brackets" \in ToSet(t.wrap) \/ ~colon
           \/ \E i \in DOMAIN cut \cap 1..2 : ~Readable(cut[i])
        THEN Unreadable
        ELSE IF Len(cut) = 1
        THEN IF Len(head) = 16 THEN head ELSE Unreadable
        ELSE IF fill < 0 THEN Unreadable
        ELSE head \o [i \in 1..fill |-> 0] \o tail

\* The bits that the masks of ipMatchesCidr leave of byte i.
MaskedByte(bytes, i, bits) ==
    LET left == bits - 8 * (i - 1)
    IN  CASE left <= 0 -> 0
          [] left \in 1..7 -> bytes[i] \div 2^(8 - left)
          [] OTHER -> bytes[i]
SamePrefix(a, b, bits) ==
    \A i \in DOMAIN a : MaskedByte(a, i, bits) = MaskedByte(b, i, bits)

\* A CIDR is an address as it is written, whether a slash follows, and the
\* number after it: 0 when nothing is there, -1 when it is no integer.
PrefixLength(cidr, width) == IF cidr.slash THEN cidr.length ELSE width

\* ipMatchesCidr: the families are never compared with each other.
IpMatchesCidr(ip, cidr) ==
    LET target   == NormalizeIp(ip)
        network  == NormalizeIp(cidr.address)
        family4  == Ipv4(target) # Unreadable \/ Ipv4(network) # Unreadable
        Bytes(t) == IF family4 THEN Ipv4(t) ELSE Ipv6(t)
        width    == IF family4 THEN 32 ELSE 128
        bits     == PrefixLength(cidr, width)
    IN  /\ Bytes(target) # Unreadable /\ Bytes(network) # Unreadable
        /\ bits \in 0..width
        /\ SamePrefix(Bytes(target), Bytes(network), bits)

IsTrustedAddress(ip, trusted) == \E cidr \in trusted : IpMatchesCidr(ip, cidr)

\* The empty entries of X-Forwarded-For, "unknown" among them, are skipped.
Blank(t) == t.parts = <<>>
Chain(forwarded) ==
    LET normal == [i \in DOMAIN forwarded |-> NormalizeIp(forwarded[i])]
    IN  SelectSeq(normal, LAMBDA t : ~Blank(t))

\* From the right the first hop that is no trusted proxy, or the leftmost hop.
ClientOf(chain, trusted) ==
    LET strange == {i \in DOMAIN chain : ~IsTrustedAddress(chain[i], trusted)}
    IN  IF strange = {} THEN chain[1]
        ELSE chain[CHOOSE i \in strange : \A j \in strange : j <= i]

\* resolveClientIp: the header counts only behind a trusted proxy.  `forwarded`
\* is <<>> when the header is missing.
ResolveClientIp(remote, forwarded, trusted) ==
    LET direct == NormalizeIp(remote)
        chain  == Chain(forwarded)
    IN  IF ~IsTrustedAddress(direct, trusted) \/ chain = <<>> THEN direct
        ELSE ClientOf(chain, trusted)
=============================================================================
