----------------------------- MODULE Dualstack -----------------------------
(***************************************************************************)
(* The client subnet sent upstream: the EDNS option of the query            *)
(* (EcsInfo in src/proto.rs), or the IPv4 address derived from the IPv6     *)
(* address of the client (src/resolve/dualstack.rs), checked against two    *)
(* geographic databases (src/resolve/qqwry.rs).                             *)
(*                                                                          *)
(* Addresses are sequences of octets, 4 for IPv4 and 16 for IPv6; <<>> is   *)
(* no address.                                                              *)
(***************************************************************************)
EXTENDS Integers, Sequences

\* The bits of octet k that a prefix of length p covers.
Covered(p, k) ==
    LET b == p - 8 * (k - 1) IN IF b < 0 THEN 0 ELSE IF b > 8 THEN 8 ELSE b

\* octet & (0xFF << (8 - bits))
HighBits(octet, bits) == (octet \div 2^(8 - bits)) * 2^(8 - bits)

\* mask_ipv4
Mask(ip, p) == [k \in DOMAIN ip |-> HighBits(ip[k], Covered(p, k))]

\* Ipv6NetOwned::contains, Ipv6Net::contains; a net is [addr, len].
Contains(net, ip) == Mask(net.addr, net.len) = Mask(ip, net.len)

----------------------------------------------------------------------------
(* EcsInfo, without its scope: [family, source, address]. *)

NoEcs == [family |-> 0, source |-> 0, address |-> <<>>]

\* EcsInfo::decode.  An address shorter than its family's is no address, although
\* RFC 7871 sends only the octets the prefix covers.
decode(opt) ==
    LET size == CASE opt.family = 1 -> 4 [] opt.family = 2 -> 16 [] OTHER -> 0
    IN  [family |-> opt.family, source |-> opt.source,
         address |-> IF size > 0 /\ Len(opt.octets) >= size
                     THEN SubSeq(opt.octets, 1, size) ELSE <<>>]

\* EcsInfo::clamp_scope
clamp_scope(e, max) ==
    IF e.family = 1 /\ e.source > max
    THEN [e EXCEPT !.source = max, !.address = Mask(e.address, max)]
    ELSE e

\* EcsInfo::cache_token; <<>> is the empty string.
cache_token(e) == IF e.address = <<>> THEN <<>> ELSE <<e.address, e.source>>

----------------------------------------------------------------------------
(* Mapping an IPv6 client to an IPv4 address. *)

\* Longest prefix first; among equals the first entry.  Entries are [net, v].
Better(t, i, j) == t[i].net.len > t[j].net.len \/ (t[i].net.len = t[j].net.len /\ i <= j)

BugLongest(t, ip, none) ==
    LET m == {i \in DOMAIN t : Contains(t[i].net, ip)}
    IN  IF m = {} THEN none
        ELSE t[CHOOSE i \in m : \A j \in m : i <= j].v

\* BindingTable::lookup and Ipv6Geo::lookup.
Longest(t, ip, none) ==
    LET m == {i \in DOMAIN t : Contains(t[i].net, ip)}
    IN  IF m = {} THEN none
        ELSE t[CHOOSE i \in m : \A j \in m : Better(t, i, j)].v

\* extract_rfc6052: the four octets after the prefix, octet 9 being skipped and zero.
extract_rfc6052(b, p) ==
    LET rest == SubSeq(b, p \div 8 + 1, 8) \o SubSeq(b, 10, 16)
    IN  CASE p = 96 -> SubSeq(b, 13, 16)
          [] p \in {32, 40, 48, 56, 64} /\ b[9] = 0 -> SubSeq(rest, 1, 4)
          [] OTHER -> <<>>

IsMapped(ip) == SubSeq(ip, 1, 12) = [k \in 1..12 |-> IF k > 10 THEN 255 ELSE 0]

\* embedded_ipv4: IPv4-mapped, else the first NAT64 prefix that yields an address.
embedded_ipv4(ip, prefixes) ==
    LET m == {i \in DOMAIN prefixes : /\ Contains(prefixes[i], ip)
                                      /\ extract_rfc6052(ip, prefixes[i].len) # <<>>}
    IN  IF IsMapped(ip) THEN SubSeq(ip, 13, 16)
        ELSE IF m = {} THEN <<>>
        ELSE extract_rfc6052(ip, prefixes[CHOOSE i \in m : \A j \in m : i <= j].len)

\* map_to_ipv4; api is what the external service answers, <<>> for nothing.
map_to_ipv4(ip, prefixes, table, api) ==
    LET embedded == embedded_ipv4(ip, prefixes)
        bound == Longest(table, ip, <<>>)
    IN  IF embedded # <<>> THEN embedded ELSE IF bound # <<>> THEN bound ELSE api

----------------------------------------------------------------------------
(* Geographic check.  A qqwry database is [first_idx, index]: index holds   *)
(* [start, loc] at byte first_idx of the file and is the end of it.  A      *)
(* location is [loc, isp]; "" is the empty string.                          *)

Address4 == [1..4 -> 0..255]

LeqIp(a, b) ==
    a = b \/ \E k \in 1..4 : a[k] < b[k] /\ SubSeq(a, 1, k - 1) = SubSeq(b, 1, k - 1)

NoIndex == -1
last_idx(db) == db.first_idx + 7 * (Len(db.index) - 1)

\* u32::MAX past the end of the file.
index_start_ip(db, idx) ==
    IF idx < Len(db.index) THEN db.index[idx + 1].start ELSE <<255, 255, 255, 255>>

\* One turn of QQwry::lookup's loop.
SearchTurn(db, ip, s) ==
    LET mid == s.lo + (s.hi - s.lo) \div 2
    IN  IF s.lo > s.hi THEN s
        ELSE IF LeqIp(index_start_ip(db, mid), ip)
             THEN [lo |-> mid + 1, hi |-> s.hi, found |-> mid]
             ELSE [lo |-> s.lo, hi |-> mid - 1, found |-> s.found]

\* The loop, run with the byte offsets first_idx and last_idx as the bounds of the
\* entry numbers it searches; every turn narrows them.
Search(db, ip) ==
    LET after[n \in Nat] ==
            IF n = 0 THEN [lo |-> db.first_idx, hi |-> last_idx(db), found |-> NoIndex]
            ELSE SearchTurn(db, ip, after[n - 1])
    IN  after[7 * Len(db.index)].found

NoPlace == [loc |-> "", isp |-> ""]

\* QQwry::lookup, NoPlace for None (consistent() rejects both alike).
geo_v4(db, ip) ==
    LET i == Search(db, ip)
    IN  IF i = NoIndex \/ i >= Len(db.index) THEN NoPlace ELSE db.index[i + 1].place

\* consistent(), names overlapping when they are equal: on the strict setting the
\* cities, else the operators or the cities.
consistent(a, b, strict) ==
    /\ a # NoPlace /\ b # NoPlace
    /\ IF strict THEN b.loc # "" /\ b.loc \in {a.loc, a.isp}
       ELSE (a.isp # "" /\ a.isp = b.isp) \/ a.loc = b.loc

\* Dualstack::derive_ecs: NoEcs unless the client maps to an address that both
\* databases, when both are loaded, place alike.  geo is [both, v4, v6, strict].
derive_ecs(ip, prefixes, table, api, geo, mask) ==
    LET v4 == map_to_ipv4(ip, prefixes, table, api)
        agreed == geo.both => consistent(geo_v4(geo.v4, v4),
                                         Longest(geo.v6, ip, NoPlace), geo.strict)
    IN  IF v4 = <<>> \/ ~agreed THEN NoEcs
        ELSE [family |-> 1, source |-> mask, address |-> Mask(v4, mask)]
=============================================================================
