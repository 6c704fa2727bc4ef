------------------------------ MODULE Pipeline ------------------------------
(***************************************************************************)
(* The query pipeline (Pipeline::handle and process in src/resolve/mod.rs): *)
(* parse and check, rate limit, client subnet, block list, custom zones,    *)
(* cache, resolver, log.  Handler threads run it at once, and the policy    *)
(* and the binding table are replaced under their feet by the management    *)
(* API (reload, reload_bindings).                                           *)
(*                                                                          *)
(* One step is one access to shared state: the binding table's lock, each   *)
(* of the locks of the policy, the cache, the resolver.  The limiter        *)
(* (module Limiter) may refuse any query.  The cache is what TieredCache    *)
(* offers: an entry is found until it expires or is evicted.                *)
(***************************************************************************)
EXTENDS Policy, Dualstack

CONSTANTS
    Workers,        \* handler threads
    Queries,        \* what clients send: [form, name, rest, qtype, client, opt], rest
                    \*   telling whether write_name() can write the questions after
                    \*   the first, client being an address and opt the ECS option
                    \*   or None
    Tables,         \* contents of the policy tables: [blocked, zones, records]
    Bindings,       \* binding tables: sequences of [net, v]
    Answers,        \* upstream answers: [rcode, ttls, soa]
    Nat64,          \* nat64_prefixes
    ApiAnswers,     \* what the external mapping service may answer, <<>> too
    Geo,            \* the geographic databases: [both, v4, v6, strict]
    DualstackOn,    \* dualstack_enabled
    ScopeMax,       \* ecs_scope_max
    DeriveMask,     \* ecs_derive_mask
    MaxTtl,         \* cache_max_ttl
    NegTtl,         \* neg_cache_ttl
    None,           \* no query, no reply, no mode
    MaxQueries,     \* bound on the number of queries
    MaxReloads      \* bound on the number of policies one query meets

ASSUME PipelineAssumption ==
    /\ ScopeMax \in 0..32 /\ DeriveMask \in 0..32
    /\ MaxTtl \in Nat /\ NegTtl \in Nat
    /\ MaxQueries \in Nat /\ MaxReloads \in Nat /\ None \notin Nat

ASSUME QueriesAssumption ==
    \A x \in Queries :
        /\ x.form \in {"query", "malformed", "response", "noquestion", "longname", "badvers"}
        /\ x.name \in Seq(STRING) /\ x.rest \in BOOLEAN
        /\ x.opt # None => x.opt.source \in Nat /\ x.opt.octets \in Seq(0..255)

ASSUME TablesAssumption ==
    /\ \A t \in Tables :
        /\ t.blocked \in Seq([domain : Seq(STRING), mode : {"loopback", "random"}])
        /\ IsFiniteSet(t.zones) /\ \A x \in t.zones : x.name \in Seq(STRING)
        /\ DOMAIN t.records \subseteq Nat
    /\ \A b \in Bindings : DOMAIN b \subseteq Nat /\ \A i \in DOMAIN b : b[i].net.len \in 0..128

ASSUME AnswersAssumption ==
    \A a \in Answers :
        /\ a.rcode \in 0..255 /\ a.ttls \subseteq Nat
        /\ a.soa # None => a.soa \in Nat

\* Addresses have their octets, and the entries of the IPv4 database are in the order
\* of the addresses they start at, as its binary search takes for granted.
ASSUME AddressesAssumption ==
    /\ \A x \in Queries : x.client \in Seq(0..255)
    /\ \A b \in Bindings : \A i \in DOMAIN b : b[i].v \in Address4
    /\ ApiAnswers \subseteq Address4 \cup {<<>>}
    /\ Geo.both =>
        /\ Geo.v4.first_idx \in Nat
        /\ Len(Geo.v4.index) \in Nat /\ DOMAIN Geo.v4.index = 1..Len(Geo.v4.index)
        /\ \A i \in DOMAIN Geo.v4.index : Geo.v4.index[i].start \in Address4
        /\ \A i, j \in DOMAIN Geo.v4.index :
             i <= j => LeqIp(Geo.v4.index[i].start, Geo.v4.index[j].start)

VARIABLES
    policy,     \* Pipeline.policy: [block, zones]
    table,      \* Dualstack.table
    cache,      \* from [name, qtype, token] to [msg, ttl]
    pc,         \* where each thread is in process()
    req,        \* the query each thread handles, with its id
    ecs,        \* the client subnet each thread uses, NoEcs for none
    got,        \* the message each thread has from the resolver
    out,        \* the reply and the log row each thread ended with
    tables,     \* history: the rows the policy was built from
    seen,       \* history: those of every policy in force during a thread's query
    bound,      \* history: the binding tables in force during it
    queries     \* number of queries so far

shared == <<policy, tables, table>>
vars == <<shared, cache, pc, req, ecs, got, out, seen, bound, queries>>

NOERROR == 0
FORMERR == 1
SERVFAIL == 2
NXDOMAIN == 3
REFUSED == 5
BADVERS == 16

\* Pipeline::reload: both parts of the policy under one write lock.
PolicyOf(t) == [block |-> BlockList(t.blocked), zones |-> ZoneIndex(t.zones, t.records)]
EmptyTables == [blocked |-> <<>>, zones |-> {}, records |-> <<>>]

cache_key(q, e) == [name |-> q.name, qtype |-> q.qtype, token |-> cache_token(e)]

Smaller(a, b) == IF a < b THEN a ELSE b

BugMsgTtl(m) ==
    CASE m.ttls # {} -> SetMin(m.ttls)
      [] m.ttls = {} /\ m.soa # None -> Smaller(m.soa, NegTtl)
      [] OTHER -> NegTtl

\* The smallest TTL of the answers; else the SOA's minimum; else, for NXDOMAIN, the
\* configured negative TTL.  0 is not cached.
msg_ttl(m) ==
    CASE m.ttls # {} -> Smaller(SetMin(m.ttls), MaxTtl)
      [] m.ttls = {} /\ m.soa # None -> Smaller(m.soa, NegTtl)
      [] m.ttls = {} /\ m.soa = None /\ m.rcode = NXDOMAIN -> NegTtl
      [] OTHER -> 0

Init ==
    /\ policy = PolicyOf(EmptyTables) /\ tables = EmptyTables /\ table = <<>>
    /\ cache = [k \in {} |-> None]
    /\ pc = [w \in Workers |-> "idle"]
    /\ req = [w \in Workers |-> None]
    /\ ecs = [w \in Workers |-> NoEcs]
    /\ got = [w \in Workers |-> None]
    /\ out = [w \in Workers |-> None]
    /\ seen = [w \in Workers |-> <<>>]
    /\ bound = [w \in Workers |-> {}]
    /\ queries = 0

----------------------------------------------------------------------------
(* A reply is [id, rcode, body].  The log row is [rcode, src], the code as  *)
(* the log names it and the row's upstream and flags.                       *)

\* An empty reply: the server sends nothing.
NoBytes == [id |-> None, rcode |-> 0, body |-> <<>>]

\* encode() and encode_rcode() of a message that can be written or not: its low four
\* bits of the code (the messages made here have no OPT record for the others), or
\* nothing at all.
encode(id, rcode, body, fits) ==
    IF fits THEN [id |-> id, rcode |-> rcode % 16, body |-> body] ELSE NoBytes

\* The question section of q can be written again.
Echoed(q) == q.form = "noquestion" \/ (q.rest /\ Writable(q.name))

\* The end of handle(): whatever process() returned, one row is written.
Finish(w, reply, rcode, src) ==
    /\ out' = [out EXCEPT ![w] = [reply |-> reply, row |-> [rcode |-> rcode, src |-> src]]]
    /\ pc' = [pc EXCEPT ![w] = "done"]

\* refuse(), badvers() and the early returns of process().
Reject(w, q) ==
    CASE q.form = "malformed" -> Finish(w, NoBytes, FORMERR, "refuse")
      [] q.form = "response" -> Finish(w, NoBytes, SERVFAIL, "none")
      [] q.form \in {"noquestion", "longname"} ->
            Finish(w, encode(q.id, REFUSED, <<>>, Echoed(q)), REFUSED, "refuse")
      [] q.form = "badvers" ->
            Finish(w, encode(q.id, BADVERS, <<>>, Echoed(q)), BADVERS, "badvers")

\* Steps 1 to 3: parse, protocol checks, rate limit.
Begin(w, x) ==
    LET q == [id |-> queries + 1, form |-> x.form, name |-> x.name, rest |-> x.rest,
              qtype |-> x.qtype, client |-> x.client, opt |-> x.opt]
    IN  /\ pc[w] \in {"idle", "done"} /\ queries < MaxQueries
        /\ queries' = queries + 1
        /\ req' = [req EXCEPT ![w] = q]
        /\ ecs' = [ecs EXCEPT ![w] = NoEcs]
        /\ got' = [got EXCEPT ![w] = None]
        /\ seen' = [seen EXCEPT ![w] = <<tables>>]
        /\ bound' = [bound EXCEPT ![w] = {table}]
        /\ \/ q.form # "query" /\ Reject(w, q)
           \/ /\ q.form = "query"
              /\ Finish(w, encode(q.id, REFUSED, <<>>, Echoed(q)), REFUSED, "limit")
           \/ /\ q.form = "query"
              /\ pc' = [pc EXCEPT ![w] = "subnet"]
              /\ out' = [out EXCEPT ![w] = None]
        /\ UNCHANGED <<shared, cache>>

\* Step 4: the subnet the client sent, shortened, else the one derived from its
\* IPv6 address.
Subnet(w) ==
    LET q == req[w]
    IN  /\ pc[w] = "subnet"
        /\ \E api \in ApiAnswers :
            ecs' = [ecs EXCEPT ![w] =
                      IF q.opt # None THEN clamp_scope(decode(q.opt), ScopeMax)
                      ELSE IF DualstackOn /\ Len(q.client) = 16
                      THEN derive_ecs(q.client, Nat64, table, api, Geo, DeriveMask)
                      ELSE NoEcs]
        /\ pc' = [pc EXCEPT ![w] = "block"]
        /\ UNCHANGED <<shared, cache, req, got, out, seen, bound, queries>>

BugBlock(w) ==
    /\ pc[w] = "block"
    /\ LET mode == mode_for(policy.block, req[w].name)
           body == BlockAnswer(mode, req[w].name, req[w].qtype, req[w].client)
       IN  \/ /\ mode # "none" /\ cache_key(req[w], ecs[w]) \notin DOMAIN cache
              /\ Finish(w, encode(req[w].id, NOERROR, body, Writable(req[w].name)),
                        NOERROR, "block")
           \/ /\ mode = "none" \/ cache_key(req[w], ecs[w]) \in DOMAIN cache
              /\ pc' = [pc EXCEPT ![w] = "zone"] /\ UNCHANGED out
    /\ UNCHANGED <<shared, cache, req, ecs, got, seen, bound, queries>>

\* Step 5: block list.  respond() takes the lock a second time but reads only the
\* mode that was found.
Block(w) ==
    /\ pc[w] = "block"
    /\ LET mode == mode_for(policy.block, req[w].name)
           body == BlockAnswer(mode, req[w].name, req[w].qtype, req[w].client)
       IN  \/ /\ mode # "none"
              /\ Finish(w, encode(req[w].id, NOERROR, body, Writable(req[w].name)),
                        NOERROR, "block")
           \/ /\ mode = "none"
              /\ pc' = [pc EXCEPT ![w] = "zone"] /\ UNCHANGED out
    /\ UNCHANGED <<shared, cache, req, ecs, got, seen, bound, queries>>

\* Step 6: custom zones.
ZoneLookup(w) ==
    /\ pc[w] = "zone"
    /\ LET z == find_zone(policy.zones, req[w].name)
       IN  \/ /\ z = {}
              /\ pc' = [pc EXCEPT ![w] = "cache"] /\ UNCHANGED out
           \/ \E zone \in z :
                LET a == ZoneAnswer(policy.zones, zone, req[w].name, req[w].qtype)
                IN  Finish(w, encode(req[w].id, a.rcode, a.answers,
                                     Writable(req[w].name) /\ a.fits), a.rcode, "zone")
    /\ UNCHANGED <<shared, cache, req, ecs, got, seen, bound, queries>>

BugPatchId(m, id) == m

\* patch_id on the stored bytes.
patch_id(m, id) == [m EXCEPT !.id = id]

BugCacheLookup(w) ==
    LET k == cache_key(req[w], ecs[w])
    IN  /\ pc[w] = "cache"
        /\ \/ /\ k \in DOMAIN cache
              /\ Finish(w, patch_id(cache[k].msg, req[w].id), NOERROR, "cache")
           \/ /\ k \notin DOMAIN cache
              /\ pc' = [pc EXCEPT ![w] = "resolve"] /\ UNCHANGED out
        /\ UNCHANGED <<shared, cache, req, ecs, got, seen, bound, queries>>

\* Step 7: cache.
CacheLookup(w) ==
    LET k == cache_key(req[w], ecs[w])
    IN  /\ pc[w] = "cache"
        /\ \/ /\ k \in DOMAIN cache
              /\ Finish(w, patch_id(cache[k].msg, req[w].id), cache[k].msg.rcode, "cache")
           \/ /\ k \notin DOMAIN cache
              /\ pc' = [pc EXCEPT ![w] = "resolve"] /\ UNCHANGED out
        /\ UNCHANGED <<shared, cache, req, ecs, got, seen, bound, queries>>

\* Step 8: the resolver answers or gives up, as it does on a name that it cannot write
\* into a query.  Its singleflight key is the cache key:
\* the answer may be the one fetched for another thread in the same step, for the
\* subnet that thread uses.
Resolve(w) ==
    /\ pc[w] = "resolve"
    /\ \/ /\ Finish(w, encode(req[w].id, SERVFAIL, <<>>, Writable(req[w].name)),
                    SERVFAIL, "failed")
          /\ UNCHANGED got
       \/ /\ Writable(req[w].name)
          /\ \E a \in Answers, v \in Workers :
               /\ pc[v] = "resolve"
               /\ cache_key(req[v], ecs[v]) = cache_key(req[w], ecs[w])
               /\ got' = [got EXCEPT ![w] =
                            [answer |-> a, name |-> req[v].name, qtype |-> req[v].qtype,
                             ecs |-> ecs[v]]]
          /\ pc' = [pc EXCEPT ![w] = "store"] /\ UNCHANGED out
    /\ UNCHANGED <<shared, cache, req, ecs, seen, bound, queries>>

\* The rest of step 8: the client's id, the TTL, the cache, the reply.  An answer keeps
\* its OPT record (echo_ecs) and with it the upper bits of its code; the resolver has
\* written it once already, so that it can be written again.
Store(w) ==
    LET m == [id |-> req[w].id, rcode |-> got[w].answer.rcode, body |-> got[w]]
        ttl == msg_ttl(got[w].answer)
        k == cache_key(req[w], ecs[w])
    IN  /\ pc[w] = "store"
        /\ cache' = IF ttl > 0
                    THEN [x \in DOMAIN cache \cup {k} |->
                            IF x = k THEN [msg |-> m, ttl |-> ttl] ELSE cache[x]]
                    ELSE cache
        /\ Finish(w, m, got[w].answer.rcode, "recursive")
        /\ UNCHANGED <<shared, req, ecs, got, seen, bound, queries>>

\* TieredCache drops an entry: it expired or was evicted.
Expire(k) ==
    /\ k \in DOMAIN cache
    /\ cache' = [x \in DOMAIN cache \ {k} |-> cache[x]]
    /\ UNCHANGED <<shared, pc, req, ecs, got, out, seen, bound, queries>>

Running(w) == pc[w] \notin {"idle", "done"}

BugReload(t) ==
    /\ \A w \in Workers : Running(w) => Len(seen[w]) < MaxReloads
    /\ policy' = [policy EXCEPT !.block = BlockList(t.blocked)] /\ tables' = t
    /\ seen' = [w \in Workers |-> IF Running(w) THEN Append(seen[w], t) ELSE seen[w]]
    /\ UNCHANGED <<table, cache, pc, req, ecs, got, out, bound, queries>>

Reload(t) ==
    /\ \A w \in Workers : Running(w) => Len(seen[w]) < MaxReloads
    /\ policy' = PolicyOf(t) /\ tables' = t
    /\ seen' = [w \in Workers |-> IF Running(w) THEN Append(seen[w], t) ELSE seen[w]]
    /\ UNCHANGED <<table, cache, pc, req, ecs, got, out, bound, queries>>

\* Dualstack::reload, with the rows that parsed and are enabled.
ReloadBindings(b) ==
    /\ table' = b
    /\ bound' = [w \in Workers |-> IF Running(w) THEN bound[w] \cup {b} ELSE bound[w]]
    /\ UNCHANGED <<policy, tables, cache, pc, req, ecs, got, out, seen, queries>>

Next ==
    \/ \E w \in Workers, x \in Queries : Begin(w, x)
    \/ \E w \in Workers : \/ Subnet(w) \/ Block(w) \/ ZoneLookup(w) \/ CacheLookup(w)
                          \/ Resolve(w) \/ Store(w)
    \/ \E k \in DOMAIN cache : Expire(k)
    \/ \E t \in Tables : Reload(t)
    \/ \E b \in Bindings : ReloadBindings(b)

Spec == Init /\ [][Next]_vars

----------------------------------------------------------------------------
Locations == {"idle", "subnet", "block", "zone", "cache", "resolve", "store", "done"}

TypeOK ==
    /\ tables \in Tables \cup {EmptyTables} /\ policy = PolicyOf(tables)
    /\ table \in Bindings \cup {<<>>}
    /\ pc \in [Workers -> Locations]
    /\ \A w \in Workers :
        /\ pc[w] # "idle" => req[w].id \in 1..queries
        /\ pc[w] = "store" => got[w].answer \in Answers
        /\ pc[w] = "done" => out[w].reply.rcode \in 0..255
        /\ Running(w) => tables = seen[w][Len(seen[w])] /\ table \in bound[w]
    /\ queries \in 0..MaxQueries

Done(w, srcs) == pc[w] = "done" /\ out[w].row.src \in srcs

\* What the tables say of a name, without the structures built from them.
Matches(r, n) == r.domain = n \/ (IsWildcard(r.domain) /\ Below(n, Tail(r.domain)))
Blocked(t, n) == \E i \in DOMAIN t.blocked : Matches(t.blocked[i], n)
\* The modes that apply to n: those of its own rows, else of the wildcards above it.
Modes(t, n) ==
    LET own == {i \in DOMAIN t.blocked : /\ ~IsWildcard(t.blocked[i].domain)
                                         /\ t.blocked[i].domain = n}
    IN  {t.blocked[i].mode : i \in
            IF own # {} THEN own ELSE {i \in DOMAIN t.blocked : Matches(t.blocked[i], n)}}
\* n is z or lies below it, label by label.
Under(n, z) == n = z \/ Below(n, z)
\* The zones with records that n is under.
HasRecords(t, x) == \E i \in DOMAIN t.records : t.records[i].zone_id = x.id
Holding(t, n) == {x \in t.zones : HasRecords(t, x) /\ Under(n, x.name)}
\* A zone with records whose name ends the text of n without n being under it.
TextOnly(t, n) ==
    \E x \in t.zones : HasRecords(t, x) /\ EndsWith(n, x.name) /\ ~Under(n, x.name)
\* The rows that answer n: those of the longest zone that holds it.
Serving(t, n, qtype) ==
    {i \in DOMAIN t.records :
       LET r == t.records[i]
       IN  \E x \in Holding(t, n) :
            /\ r.zone_id = x.id
            /\ \A y \in Holding(t, n) : Under(x.name, y.name)
            /\ \/ owner_name(r, x.name) = n /\ r.rtype = "CNAME"
               \/ /\ owner_name(r, x.name) = n \/ r.name = <<"*">>
                  /\ r.rtype = qtype /\ r.valid}

\* reply is what tables t make of query q: the answer of a block list that blocks its
\* name; records of the longest zone, or an NXDOMAIN when that has none for it; and no
\* bytes only if that answer cannot be written.
BlockedAs(t, q, reply) ==
    \E m \in Modes(t, q.name) :
        IF Writable(q.name)
        THEN reply.id = q.id /\ reply.body = BlockAnswer(m, q.name, q.qtype, q.client)
        ELSE reply = NoBytes
ServedAs(t, q, reply) ==
    LET rows == Serving(t, q.name, q.qtype)
    IN  /\ Holding(t, q.name) # {}
        /\ \/ /\ reply.id = q.id /\ Writable(q.name)
              /\ {reply.body[k] : k \in DOMAIN reply.body} \subseteq {t.records[i].value : i \in rows}
              /\ reply.rcode = NXDOMAIN <=> rows = {}
           \/ /\ reply = NoBytes
              /\ ~Writable(q.name) \/ \E i \in rows : ~t.records[i].fits

\* Whatever reloads happen while a query is handled (process() takes the policy's
\* lock three times), it is answered as the tables of some moment of its handling
\* tell: by the block list only if they blocked the name, in the way they say; from a
\* zone, with records of the longest zone the name is under or an NXDOMAIN when it has
\* none for it, only if the name was not blocked then or before; and from cache or
\* resolver only if it was first not blocked and then in no zone.  A cached answer never
\* hides a block or a zone.  Excepted are names that end with the text of a zone
\* without being under it (TextOnly): find_zone has no label boundary and answers them
\* from that zone, though respond()'s comment lets them fall through to recursion.
PolicyInForce ==
    \A w \in Workers :
        LET n == req[w].name
            t == seen[w]
        IN  /\ Done(w, {"block"}) => \E i \in DOMAIN t : BlockedAs(t[i], req[w], out[w].reply)
            /\ Done(w, {"zone"}) =>
                  \E i, j \in DOMAIN t : /\ i <= j /\ ~Blocked(t[i], n)
                                         /\ \/ ServedAs(t[j], req[w], out[w].reply)
                                            \/ TextOnly(t[j], n)
            /\ Done(w, {"cache", "recursive", "failed"}) =>
                  \E i, j \in DOMAIN t : i <= j /\ ~Blocked(t[i], n) /\ Holding(t[j], n) = {}

\* An answer out of the cache or the resolver carries the id of the query it goes
\* to and was resolved for its name, type and cache token, whoever asked first
\* (cache_key and patch_id; the key of the resolver's flights).
AnswersOwnQuestion ==
    \A w \in Workers :
        /\ (pc[w] = "done" /\ out[w].reply.id # None) => out[w].reply.id = req[w].id
        /\ Done(w, {"cache", "recursive"}) =>
              LET b == out[w].reply.body
              IN  /\ b.name = req[w].name /\ b.qtype = req[w].qtype
                  /\ cache_token(b.ecs) = cache_token(ecs[w])

\* Only what the resolver answered is cached, for at least a second, a positive
\* answer for at most cache_max_ttl and no longer than its shortest record, a
\* negative one for at most neg_cache_ttl; a failure that says nothing about the
\* name (no answer, no SOA, not NXDOMAIN) never (msg_ttl).
CacheSound ==
    \A k \in DOMAIN cache :
        LET a == cache[k].msg.body.answer
        IN  /\ cache[k].ttl > 0
            /\ a.ttls # {} => /\ cache[k].ttl <= MaxTtl
                             /\ \A t \in a.ttls : cache[k].ttl <= t
            /\ a.ttls = {} => /\ cache[k].ttl <= NegTtl
                             /\ (a.soa # None \/ a.rcode = NXDOMAIN)

\* The row a query leaves in the log names the code its reply carries; only BADVERS
\* goes out as NOERROR (encode() keeps four bits of the code and badvers() adds no OPT
\* record).  A row names a code although nothing is sent for what is no query at all
\* and where encode() fails, that is only if the reply had to repeat a question, or a
\* name in a zone's record, with a label of more than 63 bytes; a reply out of cache or
\* resolver is never empty.
LogTellsReply ==
    \A w \in Workers : pc[w] = "done" =>
        LET row == out[w].row
        IN  \/ row.rcode = out[w].reply.rcode /\ out[w].reply.id # None
            \/ row.rcode = BADVERS /\ out[w].reply.rcode = NOERROR /\ out[w].reply.id # None
            \/ /\ out[w].reply = NoBytes
               /\ \/ req[w].form \in {"malformed", "response"}
                  \/ row.src \in {"refuse", "badvers", "limit"} /\ ~Echoed(req[w])
                  \/ row.src \in {"block", "zone", "failed"} /\ ~Writable(req[w].name)
                  \/ /\ row.src = "zone"
                     /\ \E i \in DOMAIN seen[w] : \E r \in DOMAIN seen[w][i].records :
                          ~seen[w][i].records[r].fits

\* Binding table b binds client ip to v: by the first of its rows with the longest
\* prefix of ip.
Binds(b, ip, v) ==
    \E i \in DOMAIN b :
        /\ Contains(b[i].net, ip) /\ b[i].v = v
        /\ \A j \in DOMAIN b : Contains(b[j].net, ip) =>
              b[j].net.len < b[i].net.len \/ (b[j].net.len = b[i].net.len /\ i <= j)

\* Where database db places ip: the last entry that starts at or below it.
PlaceOf(db, ip) ==
    LET m == {i \in DOMAIN db.index : LeqIp(db.index[i].start, ip)}
    IN  IF m = {} THEN NoPlace ELSE db.index[SetMax(m)].place

\* The addresses client ip may stand for while the tables bs are in force.
Origins(ip, bs) ==
    {embedded_ipv4(ip, Nat64)} \cup ApiAnswers
        \cup {v \in UNION {{b[i].v : i \in DOMAIN b} : b \in bs} :
                \E b \in bs : Binds(b, ip, v)}

\* The address an ECS option carries, <<>> unless all of its octets are there.
Carried(opt) ==
    LET size == CASE opt.family = 1 -> 4 [] opt.family = 2 -> 16 [] OTHER -> 0
    IN  IF Len(opt.octets) < size THEN <<>> ELSE SubSeq(opt.octets, 1, size)

\* The subnet sent upstream for a client that sent one is that very one, an IPv4 prefix
\* longer than ecs_scope_max being cut to it, length and bits (a shorter one keeps the
\* octets it came with, and an IPv6 one is passed on whole); or, for an IPv6 client
\* that sent none, the masked IPv4 address embedded in its address, or bound to its
\* longest prefix by a table in force during the query, or named by the mapping
\* service, and then only if the two databases, when loaded, place both addresses alike
\* (derive_ecs, QQwry::lookup).
SubnetJustified ==
    \A w \in Workers :
        LET q == req[w]
            a == ecs[w].address
        IN  (pc[w] # "idle" /\ ecs[w] # NoEcs) =>
              \/ /\ q.opt # None /\ ecs[w].family = q.opt.family
                 /\ IF q.opt.family = 1 /\ q.opt.source > ScopeMax
                    THEN ecs[w].source = ScopeMax /\ a = Mask(Carried(q.opt), ScopeMax)
                    ELSE ecs[w].source = q.opt.source /\ a = Carried(q.opt)
              \/ /\ q.opt = None /\ Len(q.client) = 16 /\ DualstackOn
                 /\ ecs[w].source = DeriveMask
                 /\ \E v \in Origins(q.client, bound[w]) \ {<<>>} :
                      /\ a = Mask(v, DeriveMask)
                      /\ Geo.both => consistent(PlaceOf(Geo.v4, v),
                                          Longest(Geo.v6, q.client, NoPlace), Geo.strict)

\* An answer is given only to queries for the subnet it was resolved for.
SubnetPartition ==
    \A w \in Workers :
        Done(w, {"cache", "recursive"}) => out[w].reply.body.ecs = ecs[w]
=============================================================================
