---------------------------- MODULE MCPipeline ----------------------------
(* Instances of Pipeline for TLC. *)
EXTENDS Pipeline, TLC

MCSymmetry == Permutations(Workers)

\* A name to block and to serve, one whose text ends with a zone's name, and one with
\* a label that was read but cannot be written.
www == <<"www", "ex", "com">>
other == <<"notex", "com">>
lossy == <<"long", "ex", "com">>
MCLabelTail == {<<"notex", "ex">>}
MCLongLabels == {"long"}

\* 2001:db8::1 is bound, 64:ff9b::c000:207 embeds 192.0.2.7.
v4client == <<198, 51, 100, 1>>
v6client == <<32, 1, 13, 184, 0, 0, 0, 0, 0, 0, 0, 0, 0, 0, 0, 1>>
nat64client == <<0, 100, 255, 155, 0, 0, 0, 0, 0, 0, 0, 0, 192, 0, 2, 7>>
Net(a, l) == [addr |-> a, len |-> l]
MCNat64 == <<Net(nat64client, 96)>>

\* ECS options: longer than ScopeMax, shorter with octets beyond its prefix, of IPv6,
\* and one cut to its prefix as RFC 7871 has it.
whole == [family |-> 1, source |-> 32, octets |-> <<203, 0, 113, 9>>]
short == [family |-> 1, source |-> 16, octets |-> <<203, 0, 113, 9>>]
six == [family |-> 2, source |-> 56, octets |-> v6client]
cut == [family |-> 1, source |-> 24, octets |-> <<203, 0, 113>>]

Query(n, t, c, o) ==
    [form |-> "query", name |-> n, rest |-> TRUE, qtype |-> t, client |-> c, opt |-> o]
Odd(f, n, r) == [Query(n, "A", v4client, None) EXCEPT !.form = f, !.rest = r]

MCQueries ==
    {Query(www, "A", v6client, None),
     [Query(www, "AAAA", nat64client, None) EXCEPT !.rest = FALSE],
     Query(lossy, "A", v4client, six),
     Query(other, "A", v4client, whole), Query(other, "AAAA", v4client, short)}
    \cup {Odd(f, www, TRUE) : f \in {"malformed", "response", "noquestion", "badvers"}}
    \cup {Odd("longname", lossy, TRUE), Odd("badvers", www, FALSE)}

EcsQueries == {Query(other, "A", v4client, None), Query(other, "A", v4client, cut)}

Rec(n, t, v) ==
    [zone_id |-> 1, name |-> n, rtype |-> t, value |-> v, valid |-> TRUE, fits |-> TRUE]
zone == {[id |-> 1, name |-> <<"ex", "com">>], [id |-> 2, name |-> <<"com">>]}
block == <<[domain |-> <<"*", "com">>, mode |-> "loopback"],
           [domain |-> www, mode |-> "random"]>>

MCTables ==
    {[blocked |-> block, zones |-> zone,
      records |-> <<[Rec(<<"notex">>, "A", 5) EXCEPT !.zone_id = 2]>>],
     [blocked |-> <<>>, zones |-> zone,
      records |-> <<Rec(<<"*">>, "AAAA", 1), [Rec(<<"www">>, "CNAME", 2) EXCEPT !.fits = FALSE],
                    Rec(<<"www">>, "A", 4),
                    [Rec(<<"@">>, "A", 3) EXCEPT !.zone_id = 2]>>]}

\* The second row counts for 2001:db8::1, not the third with the same prefix.
MCBindings ==
    {<<[net |-> Net(v6client, 32), v |-> <<10, 0, 0, 1>>],
       [net |-> Net(v6client, 47), v |-> <<10, 0, 1, 1>>],
       [net |-> Net(v6client, 47), v |-> <<10, 0, 2, 1>>]>>}

\* An address, NXDOMAIN, and BADCOOKIE, whose upper bits are in the OPT record.
MCAnswers == {[rcode |-> 0, ttls |-> {9, 7}, soa |-> None],
              [rcode |-> 3, ttls |-> {}, soa |-> 9],
              [rcode |-> 23, ttls |-> {}, soa |-> None]}

MCApiAnswers == {<<>>, <<192, 0, 2, 200>>}

\* Both databases.  They agree on 10.0.1.1 and 2001:db8::1, and on 192.0.2.7 and
\* 64:ff9b::c000:207, not on what the service answers for 2001:db8::1.
isp1 == [loc |-> "x", isp |-> "one"]
isp2 == [loc |-> "y", isp |-> "two"]
MCGeo ==
    [both |-> TRUE, strict |-> FALSE,
     v4 |-> [first_idx |-> 8,
             index |-> [i \in 1..10 |->
                CASE i = 9 -> [start |-> <<10, 0, 0, 0>>, place |-> isp1]
                  [] i = 10 -> [start |-> <<192, 0, 0, 0>>, place |-> isp2]
                  [] OTHER -> [start |-> <<0, 0, 0, i>>, place |-> isp2]]],
     v6 |-> <<[net |-> Net(v6client, 32), v |-> isp1],
              [net |-> Net(nat64client, 96), v |-> [loc |-> "z", isp |-> "two"]]>>]
=============================================================================
