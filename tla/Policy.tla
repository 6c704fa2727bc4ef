------------------------------- MODULE Policy -------------------------------
(***************************************************************************)
(* The policy a query is checked against before the cache: the block list   *)
(* (src/resolve/block.rs) and the custom zones (src/resolve/custom.rs).     *)
(*                                                                          *)
(* A canonical name is the sequence of its labels, most specific first.     *)
(* The code compares names as text: LabelTail holds the pairs of different  *)
(* labels of which the first ends with the text of the second.  What is     *)
(* picked out of a table is a function on the positions of its rows, in     *)
(* whose order the code goes through them.                                  *)
(***************************************************************************)
EXTENDS Naturals, Sequences, FiniteSets

CONSTANTS
    LabelTail,      \* text tails among labels: <<longer, its tail>>
    LongLabels      \* labels of more than 63 bytes; read_name() makes them of shorter
                    \*   ones when it replaces bytes that are no UTF-8

\* What holds of the proper tails of texts: a tail of a tail is one, and of two tails of
\* a text one is a tail of the other.
ASSUME LabelTailAssumption ==
    /\ \A p \in LabelTail : p[1] # p[2]
    /\ \A p, q \in LabelTail : p[2] = q[1] => <<p[1], q[2]>> \in LabelTail
    /\ \A p, q \in LabelTail : p[1] = q[1] =>
          p[2] = q[2] \/ <<p[2], q[2]>> \in LabelTail \/ <<q[2], p[2]>> \in LabelTail

SetMax(S) == CHOOSE x \in S : \A y \in S : y <= x
SetMin(S) == CHOOSE x \in S : \A y \in S : x <= y

\* str::ends_with on canonical names: the first label of z may be the tail of a
\* longer label.
EndsWith(n, z) ==
    /\ Len(n) >= Len(z)
    /\ \A i \in 1..Len(z) :
        LET l == n[Len(n) - Len(z) + i]
        IN  l = z[i] \/ (i = 1 /\ <<l, z[1]>> \in LabelTail)

\* n lies strictly below z in the tree of names.
Below(n, z) ==
    /\ Len(n) > Len(z)
    /\ SubSeq(n, Len(n) - Len(z) + 1, Len(n)) = z

\* Encoder::write_name writes n.
Writable(n) == \A i \in DOMAIN n : n[i] \notin LongLabels

----------------------------------------------------------------------------
(* Block list: rows of blocked_domains are [domain, mode]. *)

IsWildcard(d) == Len(d) > 1 /\ Head(d) = "*"

\* BlockList::new: the last row of a domain counts among the exact ones, the
\* wildcards keep their order.
BlockList(rows) ==
    LET exact == {i \in DOMAIN rows : ~IsWildcard(rows[i].domain)}
    IN  [exact |-> [d \in {rows[i].domain : i \in exact} |->
                      rows[SetMax({i \in exact : rows[i].domain = d})].mode],
         wildcard |-> [i \in DOMAIN rows \ exact |-> rows[i]]]

\* BlockList::mode_for: "none" is None.  The suffix of a wildcard starts with its
\* dot, so that it matches whole labels, and never the domain itself.
mode_for(block, n) ==
    LET w == {i \in DOMAIN block.wildcard : Below(n, Tail(block.wildcard[i].domain))}
    IN  CASE n \in DOMAIN block.exact -> block.exact[n]
          [] n \notin DOMAIN block.exact /\ w # {} -> block.wildcard[SetMin(w)].mode
          [] OTHER -> "none"

\* BlockList::respond: the address a blocked name resolves to.  The sinkhole
\* address is a hash of name and client.
BlockAnswer(mode, n, qtype, client) ==
    CASE qtype = "A" /\ mode = "loopback" -> <<"127.0.0.1">>
      [] qtype = "A" /\ mode = "random" -> <<"10.7", n, client>>
      [] qtype = "AAAA" -> <<"::1">>
      [] OTHER -> <<>>

----------------------------------------------------------------------------
(* Zones: a row of zones is [id, name]; a row of zone_records is            *)
(* [zone_id, name, rtype, value, valid, fits], name being <<"@">>, or       *)
(* labels relative to the zone; valid tells whether value parses as an      *)
(* rtype and fits whether write_name() can write the name in it.            *)

\* ZoneIndex::new: from zone name to records.  A record whose zone was not loaded
\* is skipped, and a zone without records is not there at all.
ZoneIndex(zones, records) ==
    LET InZone(r, z) == \E x \in zones : x.id = r.zone_id /\ x.name = z
        named == {x.name : x \in {y \in zones :
                    \E i \in DOMAIN records : records[i].zone_id = y.id}}
    IN  [z \in named |->
            [i \in {i \in DOMAIN records : InZone(records[i], z)} |-> records[i]]]

\* find_zone as a set of at most one zone: the longest that ends the name.
find_zone(index, n) ==
    LET m == {z \in DOMAIN index : EndsWith(n, z)}
    IN  {z \in m : \A y \in m : EndsWith(z, y)}

owner_name(r, z) == IF r.name = <<"@">> THEN z ELSE r.name \o z

\* ZoneIndex::respond for a zone the name was found in: the records of the type,
\* else a CNAME of the name, else wildcard records of the type, else NXDOMAIN.
ZoneAnswer(index, z, n, qtype) ==
    LET rs == index[z]
        Typed(r) == r.rtype = qtype /\ r.valid
        direct == {i \in DOMAIN rs : owner_name(rs[i], z) = n /\ Typed(rs[i])}
        cname == {i \in DOMAIN rs : owner_name(rs[i], z) = n /\ rs[i].rtype = "CNAME"}
        star == {i \in DOMAIN rs : rs[i].name = <<"*">> /\ Typed(rs[i])}
        Rows(I) == [rcode |-> 0, answers |-> [i \in I |-> rs[i].value],
                    fits |-> \A i \in I : rs[i].fits]
    IN  CASE direct # {} -> Rows(direct)
          [] direct = {} /\ cname # {} -> Rows({SetMin(cname)})
          [] direct = {} /\ cname = {} /\ star # {} -> Rows(star)
          [] OTHER -> [rcode |-> 3, answers |-> <<>>, fits |-> TRUE]
=============================================================================
