--------------------------- MODULE PipelineProofs ---------------------------
(***************************************************************************)
(* Proofs about Pipeline, over the facts of PolicyProofs about what the     *)
(* tables say.  What each thread holds is stated as a predicate of the      *)
(* values of its variables, so that a step of one thread leaves what is     *)
(* known of the others as it is.                                            *)
(***************************************************************************)
EXTENDS PolicyProofs

\* Every thread has its variables.
Threads ==
    /\ pc \in [Workers -> Locations]
    /\ DOMAIN req = Workers /\ DOMAIN ecs = Workers /\ DOMAIN got = Workers
    /\ DOMAIN out = Workers /\ DOMAIN seen = Workers /\ DOMAIN bound = Workers

\* The policy is that of the tables.
InForce ==
    /\ tables \in Tables \cup {EmptyTables} /\ policy = PolicyOf(tables)
    /\ table \in Bindings \cup {<<>>}
    /\ queries \in 0..MaxQueries

\* q is one of the first n queries.
Asked(q, n) ==
    \E i \in 1..n, x \in Queries :
        q = [id |-> i, form |-> x.form, name |-> x.name, rest |-> x.rest, qtype |-> x.qtype,
             client |-> x.client, opt |-> x.opt]

\* b was resolved for a query with the key of q and e.
ResolvedFor(b, q, e) ==
    /\ b.answer \in Answers
    /\ b.name = q.name /\ b.qtype = q.qtype /\ cache_token(b.ecs) = cache_token(e)

\* What may leave a query without a reply, by the row it has in the log; a zone's
\* records are looked at below (Governed).
Silent(q, src) ==
    \/ q.form \in {"malformed", "response"}
    \/ src \in {"refuse", "badvers", "limit"} /\ ~Echoed(q)
    \/ src \in {"block", "zone", "failed"} /\ ~Writable(q.name)
    \/ src = "zone"

\* o is a reply to q and its log row.
Replied(q, e, o) ==
    /\ o.reply.rcode \in 0..255
    /\ o.reply.id # None => o.reply.id = q.id
    /\ \/ o.row.rcode = o.reply.rcode /\ o.reply.id # None
       \/ o.row.rcode = BADVERS /\ o.reply.rcode = NOERROR /\ o.reply.id # None
       \/ o.reply = NoBytes /\ Silent(q, o.row.src)
    /\ o.row.src \in {"cache", "recursive"} => ResolvedFor(o.reply.body, q, e)

\* What a thread at p holds.
Holds(p, q, e, g, o, n) ==
    /\ p # "idle" => Asked(q, n)
    /\ p = "store" => ResolvedFor(g, q, e)
    /\ p = "done" => Replied(q, e, o)

Working == \A w \in Workers : Holds(pc[w], req[w], ecs[w], got[w], out[w], queries)

\* Entry c of the cache, under key k.
EntryOK(k, c) ==
    /\ c.msg = [id |-> c.msg.id, rcode |-> c.msg.body.answer.rcode, body |-> c.msg.body]
    /\ c.msg.body.answer \in Answers
    /\ c.msg.body.name = k.name /\ c.msg.body.qtype = k.qtype
    /\ cache_token(c.msg.body.ecs) = k.token
    /\ c.ttl = msg_ttl(c.msg.body.answer) /\ c.ttl > 0

Cached == \A k \in DOMAIN cache : EntryOK(k, cache[k])

PInv == Threads /\ InForce /\ Working /\ Cached

\* A step of thread w.
Act(w) ==
    \/ \E x \in Queries : Begin(w, x)
    \/ Subnet(w) \/ Block(w) \/ ZoneLookup(w) \/ CacheLookup(w) \/ Resolve(w) \/ Store(w)

\* A step of another thread changes nothing of thread v.
Stays(v) ==
    /\ pc'[v] = pc[v] /\ req'[v] = req[v] /\ ecs'[v] = ecs[v] /\ got'[v] = got[v]
    /\ out'[v] = out[v] /\ seen'[v] = seen[v] /\ bound'[v] = bound[v]

\* Every step is one of a thread, of the cache or of the management API.
LEMMA StepKinds ==
    ASSUME Next
    PROVE  \/ \E w \in Workers : Act(w)
           \/ \E k \in DOMAIN cache : Expire(k)
           \/ \E t \in Tables : Reload(t)
           \/ \E b \in Bindings : ReloadBindings(b)
  BY DEF Next, Act

LEMMA OneThreadMoves ==
    ASSUME Threads, NEW w \in Workers, Act(w)
    PROVE  /\ DOMAIN pc' = Workers /\ DOMAIN req' = Workers /\ DOMAIN ecs' = Workers
           /\ DOMAIN got' = Workers /\ DOMAIN out' = Workers /\ DOMAIN seen' = Workers
           /\ DOMAIN bound' = Workers
           /\ \A v \in Workers \ {w} : Stays(v)
  <1> USE DEF Threads, Stays, Finish
  <1>1. ASSUME NEW x \in Queries, Begin(w, x)
        PROVE  /\ DOMAIN pc' = Workers /\ DOMAIN req' = Workers /\ DOMAIN ecs' = Workers
               /\ DOMAIN got' = Workers /\ DOMAIN out' = Workers /\ DOMAIN seen' = Workers
               /\ DOMAIN bound' = Workers
               /\ \A v \in Workers \ {w} : Stays(v)
    <2> DEFINE q == [id |-> queries + 1, form |-> x.form, name |-> x.name, rest |-> x.rest, qtype |-> x.qtype,
                     client |-> x.client, opt |-> x.opt]
    <2>1. /\ DOMAIN pc' = Workers /\ DOMAIN out' = Workers
          /\ \A v \in Workers \ {w} : pc'[v] = pc[v] /\ out'[v] = out[v]
      <3>1. (q.form # "query" /\ Reject(w, q)) \/ Finish(w, encode(q.id, REFUSED, <<>>, Echoed(q)), REFUSED, "limit")
              \/ (pc' = [pc EXCEPT ![w] = "subnet"] /\ out' = [out EXCEPT ![w] = None])
        BY <1>1 DEF Begin
      <3>2. CASE q.form # "query" /\ Reject(w, q)
        <4>1. q.form \in {"malformed", "response", "noquestion", "longname", "badvers"} \/ q.form = "query"
          BY QueriesAssumption
        <4> QED  BY <3>2, <4>1 DEF Reject
      <3> QED  BY <3>1, <3>2
    <2>2. \A v \in Workers \ {w} : /\ req'[v] = req[v] /\ ecs'[v] = ecs[v] /\ got'[v] = got[v]
                                   /\ seen'[v] = seen[v] /\ bound'[v] = bound[v]
      BY <1>1 DEF Begin
    <2>3. DOMAIN req' = Workers /\ DOMAIN ecs' = Workers /\ DOMAIN got' = Workers
          /\ DOMAIN seen' = Workers /\ DOMAIN bound' = Workers
      BY <1>1 DEF Begin
    <2> QED  BY <2>1, <2>2, <2>3
  <1>2. CASE Subnet(w)
    BY <1>2 DEF Subnet
  <1>3. CASE Block(w)
    BY <1>3 DEF Block
  <1>4. CASE ZoneLookup(w)
    BY <1>4 DEF ZoneLookup
  <1>5. CASE CacheLookup(w)
    BY <1>5 DEF CacheLookup
  <1>6. CASE Resolve(w)
    BY <1>6 DEF Resolve
  <1>7. CASE Store(w)
    BY <1>7 DEF Store
  <1> QED  BY <1>1, <1>2, <1>3, <1>4, <1>5, <1>6, <1>7 DEF Act

----------------------------------------------------------------------------
(* Each step keeps what is known of the thread that takes it. *)

\* A message made by encode() for a query is a reply to it.
LEMMA MadeReply ==
    ASSUME NEW q, q.id \in Nat, NEW e, NEW rcode, rcode \in {NOERROR, SERVFAIL, NXDOMAIN, REFUSED},
           NEW body, NEW src, src \notin {"cache", "recursive"}, NEW fits, fits \/ Silent(q, src)
    PROVE  Replied(q, e, [reply |-> encode(q.id, rcode, body, fits),
                          row |-> [rcode |-> rcode, src |-> src]])
  <1> DEFINE o == [reply |-> encode(q.id, rcode, body, fits), row |-> [rcode |-> rcode, src |-> src]]
  <1>1. o.reply = encode(q.id, rcode, body, fits) /\ o.row.rcode = rcode /\ o.row.src = src
    OBVIOUS
  <1>2. rcode % 16 = rcode /\ rcode \in 0..255
    BY DEF NOERROR, SERVFAIL, NXDOMAIN, REFUSED
  <1>3. q.id # None
    BY PipelineAssumption
  <1> HIDE DEF o
  <1>4. CASE fits
    <2>1. o.reply.id = q.id /\ o.reply.rcode = rcode % 16
      BY <1>1, <1>4 DEF encode
    <2>2. Replied(q, e, o)
      BY <1>1, <1>2, <1>3, <2>1 DEF Replied
    <2> QED  BY <2>2 DEF o
  <1>5. CASE ~fits
    <2>1. o.reply = NoBytes
      BY <1>1, <1>5 DEF encode
    <2>2. NoBytes.id = None /\ NoBytes.rcode \in 0..255
      BY DEF NoBytes
    <2>3. Replied(q, e, o)
      BY <1>1, <1>5, <2>1, <2>2 DEF Replied
    <2> QED  BY <2>3 DEF o
  <1> QED  BY <1>4, <1>5

LEMMA RejectHolds ==
    ASSUME Threads, NEW w \in Workers, NEW q, q.id \in Nat, NEW e,
           q.form \in {"malformed", "response", "noquestion", "longname", "badvers"},
           Reject(w, q)
    PROVE  pc'[w] = "done" /\ Replied(q, e, out'[w])
           /\ out'[w].row.src \in {"refuse", "none", "badvers"}
  <1>1. CASE q.form = "malformed" \/ q.form = "response"
    <2>1. PICK rcode \in {FORMERR, SERVFAIL}, src \in {"refuse", "none"} : Finish(w, NoBytes, rcode, src)
      BY <1>1 DEF Reject
    <2>2. pc'[w] = "done" /\ out'[w] = [reply |-> NoBytes, row |-> [rcode |-> rcode, src |-> src]]
      BY <2>1 DEF Finish, Threads
    <2>3. out'[w].reply = NoBytes /\ out'[w].row.src = src
      BY <2>2
    <2>4. NoBytes.id = None /\ NoBytes.rcode \in 0..255
      BY DEF NoBytes
    <2> QED  BY <1>1, <2>2, <2>3, <2>4 DEF Replied, Silent
  <1>2. CASE q.form \in {"noquestion", "longname"}
    <2>1. Finish(w, encode(q.id, REFUSED, <<>>, Echoed(q)), REFUSED, "refuse")
      BY <1>2 DEF Reject
    <2>2. /\ pc'[w] = "done"
          /\ out'[w] = [reply |-> encode(q.id, REFUSED, <<>>, Echoed(q)),
                        row |-> [rcode |-> REFUSED, src |-> "refuse"]]
      BY <2>1 DEF Finish, Threads
    <2>3. Replied(q, e, out'[w])
      <3>1. Echoed(q) \/ Silent(q, "refuse")
        BY DEF Silent
      <3> QED  BY <2>2, <3>1, MadeReply
    <2> QED  BY <2>2, <2>3
  <1>3. CASE q.form = "badvers"
    <2>1. Finish(w, encode(q.id, BADVERS, <<>>, Echoed(q)), BADVERS, "badvers")
      BY <1>3 DEF Reject
    <2>2. /\ pc'[w] = "done"
          /\ out'[w] = [reply |-> encode(q.id, BADVERS, <<>>, Echoed(q)),
                        row |-> [rcode |-> BADVERS, src |-> "badvers"]]
      BY <2>1 DEF Finish, Threads
    <2>3. /\ out'[w].reply = encode(q.id, BADVERS, <<>>, Echoed(q))
          /\ out'[w].row.rcode = BADVERS /\ out'[w].row.src = "badvers"
      BY <2>2
    <2>4. BADVERS % 16 = NOERROR /\ NOERROR \in 0..255 /\ q.id # None
      BY PipelineAssumption DEF BADVERS, NOERROR
    <2>5. CASE Echoed(q)
      <3>1. out'[w].reply.id = q.id /\ out'[w].reply.rcode = BADVERS % 16
        BY <2>3, <2>5 DEF encode
      <3> QED  BY <2>2, <2>3, <2>4, <3>1 DEF Replied
    <2>6. CASE ~Echoed(q)
      <3>1. out'[w].reply = NoBytes
        BY <2>3, <2>6 DEF encode
      <3>2. NoBytes.id = None /\ NoBytes.rcode \in 0..255
        BY DEF NoBytes
      <3> QED  BY <2>2, <2>3, <2>6, <3>1, <3>2 DEF Replied, Silent
    <2> QED  BY <2>5, <2>6
  <1> QED  BY <1>1, <1>2, <1>3

\* The first step of a query.
LEMMA BeginHolds ==
    ASSUME PInv, NEW w \in Workers, NEW x \in Queries, Begin(w, x)
    PROVE  /\ Holds(pc'[w], req'[w], ecs'[w], got'[w], out'[w], queries')
           /\ pc'[w] \in {"subnet", "done"}
           /\ pc'[w] = "done" => out'[w].row.src \in {"refuse", "none", "badvers", "limit"}
  <1> DEFINE q == [id |-> queries + 1, form |-> x.form, name |-> x.name, rest |-> x.rest, qtype |-> x.qtype,
                   client |-> x.client, opt |-> x.opt]
  <1>1. queries \in Nat /\ queries' = queries + 1
    BY PipelineAssumption DEF PInv, InForce, Begin
  <1>2. req'[w] = q
    BY DEF Begin, PInv, Threads
  <1>3. Asked(q, queries')
    <2>1. queries + 1 \in 1..queries'
      BY <1>1
    <2> QED  BY <2>1 DEF Asked
  <1>4. q.id \in Nat /\ q.form = x.form
    BY <1>1
  <1>5. Threads
    BY DEF PInv
  <1>6. (q.form # "query" /\ Reject(w, q))
          \/ Finish(w, encode(q.id, REFUSED, <<>>, Echoed(q)), REFUSED, "limit")
          \/ (pc' = [pc EXCEPT ![w] = "subnet"] /\ out' = [out EXCEPT ![w] = None])
    BY DEF Begin
  <1> HIDE DEF q
  <1>7. CASE q.form # "query" /\ Reject(w, q)
    <2>1. q.form \in {"malformed", "response", "noquestion", "longname", "badvers"}
      BY <1>4, <1>7, QueriesAssumption
    <2>2. pc'[w] = "done" /\ Replied(q, ecs'[w], out'[w])
          /\ out'[w].row.src \in {"refuse", "none", "badvers"}
      BY <1>4, <1>5, <1>7, <2>1, RejectHolds
    <2> QED  BY <1>2, <1>3, <2>2 DEF Holds
  <1>8. CASE Finish(w, encode(q.id, REFUSED, <<>>, Echoed(q)), REFUSED, "limit")
    <2>1. /\ pc'[w] = "done"
          /\ out'[w] = [reply |-> encode(q.id, REFUSED, <<>>, Echoed(q)),
                        row |-> [rcode |-> REFUSED, src |-> "limit"]]
      BY <1>5, <1>8 DEF Finish, Threads
    <2>2. Replied(q, ecs'[w], out'[w])
      <3>1. Echoed(q) \/ Silent(q, "limit")
        BY DEF Silent
      <3> QED  BY <1>4, <2>1, <3>1, MadeReply
    <2> QED  BY <1>2, <1>3, <2>1, <2>2 DEF Holds
  <1>9. CASE pc' = [pc EXCEPT ![w] = "subnet"] /\ out' = [out EXCEPT ![w] = None]
    <2>1. pc'[w] = "subnet"
      BY <1>5, <1>9 DEF Threads
    <2> QED  BY <1>2, <1>3, <2>1 DEF Holds
  <1> QED  BY <1>6, <1>7, <1>8, <1>9

\* A query has an id and a name.
LEMMA AskedTypes ==
    ASSUME NEW n \in Nat, NEW q, Asked(q, n)
    PROVE  /\ q.id \in 1..n /\ q.id \in Nat /\ q.name \in Seq(STRING)
           /\ \E x \in Queries : /\ q.form = x.form /\ q.name = x.name /\ q.qtype = x.qtype
                                 /\ q.client = x.client /\ q.opt = x.opt
  <1>1. PICK i \in 1..n, x \in Queries :
          q = [id |-> i, form |-> x.form, name |-> x.name, rest |-> x.rest, qtype |-> x.qtype,
               client |-> x.client, opt |-> x.opt]
    BY DEF Asked
  <1>2. /\ q.id = i /\ q.form = x.form /\ q.name = x.name /\ q.qtype = x.qtype
        /\ q.client = x.client /\ q.opt = x.opt
    BY <1>1
  <1>3. x.name \in Seq(STRING)
    BY QueriesAssumption
  <1> QED  BY <1>2, <1>3

LEMMA AskedLater ==
    ASSUME NEW n \in Nat, NEW m \in Nat, n <= m, NEW q, Asked(q, n)
    PROVE  Asked(q, m)
  <1>1. 1..n \subseteq 1..m
    OBVIOUS
  <1> QED  BY <1>1 DEF Asked

\* What is known when a thread that has a query ends it with a reply made here.
LEMMA MadeHolds ==
    ASSUME PInv, NEW w \in Workers, pc[w] # "idle",
           NEW rcode \in {NOERROR, SERVFAIL, NXDOMAIN, REFUSED}, NEW body, NEW src,
           src \notin {"cache", "recursive"}, NEW fits, fits \/ Silent(req[w], src),
           Finish(w, encode(req[w].id, rcode, body, fits), rcode, src),
           req'[w] = req[w], queries' = queries
    PROVE  /\ Holds(pc'[w], req'[w], ecs'[w], got'[w], out'[w], queries')
           /\ pc'[w] = "done" /\ out'[w].row.src = src
           /\ out'[w].reply = encode(req[w].id, rcode, body, fits)
  <1>1. queries \in Nat
    BY PipelineAssumption DEF PInv, InForce
  <1>2. Asked(req[w], queries)
    BY DEF PInv, Working, Holds
  <1>3. req[w].id \in Nat
    BY <1>1, <1>2, AskedTypes
  <1>4. /\ pc'[w] = "done"
        /\ out'[w] = [reply |-> encode(req[w].id, rcode, body, fits),
                      row |-> [rcode |-> rcode, src |-> src]]
    BY DEF Finish, Threads, PInv
  <1>5. Replied(req[w], ecs'[w], out'[w])
    BY <1>3, <1>4, MadeReply
  <1> QED  BY <1>2, <1>4, <1>5 DEF Holds

LEMMA BlockHolds ==
    ASSUME PInv, NEW w \in Workers, Block(w)
    PROVE  Holds(pc'[w], req'[w], ecs'[w], got'[w], out'[w], queries')
  <1>1. pc[w] = "block" /\ req'[w] = req[w] /\ queries' = queries
    BY DEF Block
  <1>2. ASSUME NEW body,
               Finish(w, encode(req[w].id, NOERROR, body, Writable(req[w].name)), NOERROR, "block")
        PROVE  Holds(pc'[w], req'[w], ecs'[w], got'[w], out'[w], queries')
    <2>1. Writable(req[w].name) \/ Silent(req[w], "block")
      BY DEF Silent
    <2> QED  BY <1>1, <1>2, <2>1, MadeHolds
  <1>3. ASSUME pc' = [pc EXCEPT ![w] = "zone"]
        PROVE  Holds(pc'[w], req'[w], ecs'[w], got'[w], out'[w], queries')
    BY <1>1, <1>3 DEF PInv, Threads, Working, Holds
  <1> QED  BY <1>2, <1>3 DEF Block

LEMMA ZoneRcode ==
    ASSUME NEW index, NEW z, NEW n, NEW qtype
    PROVE  ZoneAnswer(index, z, n, qtype).rcode \in {NOERROR, NXDOMAIN}
  BY DEF ZoneAnswer, NOERROR, NXDOMAIN

LEMMA ZoneHolds ==
    ASSUME PInv, NEW w \in Workers, ZoneLookup(w)
    PROVE  Holds(pc'[w], req'[w], ecs'[w], got'[w], out'[w], queries')
  <1>1. pc[w] = "zone" /\ req'[w] = req[w] /\ queries' = queries
    BY DEF ZoneLookup
  <1>2. ASSUME NEW zone,
               LET a == ZoneAnswer(policy.zones, zone, req[w].name, req[w].qtype)
               IN  Finish(w, encode(req[w].id, a.rcode, a.answers,
                                    Writable(req[w].name) /\ a.fits), a.rcode, "zone")
        PROVE  Holds(pc'[w], req'[w], ecs'[w], got'[w], out'[w], queries')
    <2> DEFINE a == ZoneAnswer(policy.zones, zone, req[w].name, req[w].qtype)
    <2>1. a.rcode \in {NOERROR, NXDOMAIN}
      BY ZoneRcode
    <2> HIDE DEF a
    <2> DEFINE fits == Writable(req[w].name) /\ a.fits
    <2>2. Finish(w, encode(req[w].id, a.rcode, a.answers, fits), a.rcode, "zone")
      BY <1>2 DEF a
    <2> HIDE DEF fits
    <2>3. Silent(req[w], "zone")
      BY DEF Silent
    <2>4. /\ pc[w] # "idle" /\ a.rcode \in {NOERROR, SERVFAIL, NXDOMAIN, REFUSED}
          /\ "zone" \notin {"cache", "recursive"} /\ (fits \/ Silent(req[w], "zone"))
      BY <1>1, <2>1, <2>3
    <2> QED  BY <1>1, <2>2, <2>4, MadeHolds
  <1>3. ASSUME pc' = [pc EXCEPT ![w] = "cache"]
        PROVE  Holds(pc'[w], req'[w], ecs'[w], got'[w], out'[w], queries')
    BY <1>1, <1>3 DEF PInv, Threads, Working, Holds
  <1> QED  BY <1>2, <1>3 DEF ZoneLookup

LEMMA SubnetHolds ==
    ASSUME PInv, NEW w \in Workers, Subnet(w)
    PROVE  Holds(pc'[w], req'[w], ecs'[w], got'[w], out'[w], queries')
  <1>1. pc[w] = "subnet" /\ req'[w] = req[w] /\ queries' = queries /\ pc'[w] = "block"
    BY DEF Subnet, PInv, Threads
  <1> QED  BY <1>1 DEF PInv, Working, Holds

\* The cache answers for the key of the query.
LEMMA CacheHolds ==
    ASSUME PInv, NEW w \in Workers, CacheLookup(w)
    PROVE  Holds(pc'[w], req'[w], ecs'[w], got'[w], out'[w], queries')
  <1> DEFINE k == cache_key(req[w], ecs[w])
             m == cache[k].msg
  <1>1. /\ pc[w] = "cache" /\ req'[w] = req[w] /\ queries' = queries /\ ecs'[w] = ecs[w]
        /\ Asked(req[w], queries) /\ queries \in Nat
    BY PipelineAssumption DEF CacheLookup, PInv, Working, Holds, InForce
  <1>2. CASE k \in DOMAIN cache /\ Finish(w, patch_id(m, req[w].id), m.rcode, "cache")
    <2>1. EntryOK(k, cache[k])
      BY <1>2 DEF PInv, Cached
    <2>2. /\ m = [id |-> m.id, rcode |-> m.body.answer.rcode, body |-> m.body]
          /\ m.body.answer \in Answers
          /\ m.body.name = k.name /\ m.body.qtype = k.qtype /\ cache_token(m.body.ecs) = k.token
      BY <2>1 DEF EntryOK
    <2>3. /\ pc'[w] = "done"
          /\ out'[w] = [reply |-> patch_id(m, req[w].id), row |-> [rcode |-> m.rcode, src |-> "cache"]]
      BY <1>2 DEF Finish, PInv, Threads
    <2>4. k.name = req[w].name /\ k.qtype = req[w].qtype /\ k.token = cache_token(ecs[w])
      BY DEF cache_key
    <2>5. m.body.answer.rcode \in 0..255
      BY <2>2, AnswersAssumption
    <2>6. req[w].id \in Nat /\ req[w].id # None
      <3>1. req[w].id \in Nat
        BY <1>1, AskedTypes
      <3> QED  BY <3>1, PipelineAssumption
    <2> HIDE DEF m, k
    <2>7. /\ patch_id(m, req[w].id).id = req[w].id /\ patch_id(m, req[w].id).rcode = m.rcode
          /\ patch_id(m, req[w].id).body = m.body
      BY <2>2 DEF patch_id
    <2>8. m.rcode = m.body.answer.rcode
      BY <2>2
    <2>9. /\ out'[w].reply.id = req[w].id /\ out'[w].reply.rcode = m.rcode
          /\ out'[w].reply.body = m.body
          /\ out'[w].row.rcode = m.rcode /\ out'[w].row.src = "cache"
      BY <2>3, <2>7
    <2>10. ResolvedFor(m.body, req[w], ecs[w])
      BY <2>2, <2>4 DEF ResolvedFor
    <2>11. Replied(req[w], ecs[w], out'[w])
      BY <2>5, <2>6, <2>8, <2>9, <2>10 DEF Replied
    <2> QED  BY <1>1, <2>3, <2>11 DEF Holds
  <1>3. CASE pc' = [pc EXCEPT ![w] = "resolve"]
    BY <1>1, <1>3 DEF PInv, Threads, Working, Holds
  <1> QED  BY <1>2, <1>3 DEF CacheLookup

\* The resolver answers for the key of the query, whoever asked it.
LEMMA ResolveHolds ==
    ASSUME PInv, NEW w \in Workers, Resolve(w)
    PROVE  Holds(pc'[w], req'[w], ecs'[w], got'[w], out'[w], queries')
  <1>1. /\ pc[w] = "resolve" /\ req'[w] = req[w] /\ queries' = queries /\ ecs'[w] = ecs[w]
        /\ Asked(req[w], queries)
    BY DEF Resolve, PInv, Working, Holds
  <1>2. ASSUME NEW body,
               Finish(w, encode(req[w].id, SERVFAIL, body, Writable(req[w].name)), SERVFAIL, "failed")
        PROVE  Holds(pc'[w], req'[w], ecs'[w], got'[w], out'[w], queries')
    <2>1. pc[w] # "idle" /\ req'[w] = req[w] /\ queries' = queries
      BY <1>1
    <2>2. SERVFAIL \in {NOERROR, SERVFAIL, NXDOMAIN, REFUSED} /\ "failed" \notin {"cache", "recursive"}
      OBVIOUS
    <2>3. Writable(req[w].name) \/ Silent(req[w], "failed")
      BY DEF Silent
    <2> QED  BY <1>2, <2>1, <2>2, <2>3, MadeHolds
  <1>3. ASSUME NEW a \in Answers, NEW v \in Workers,
               cache_key(req[v], ecs[v]) = cache_key(req[w], ecs[w]),
               got' = [got EXCEPT ![w] = [answer |-> a, name |-> req[v].name,
                                          qtype |-> req[v].qtype, ecs |-> ecs[v]]],
               pc' = [pc EXCEPT ![w] = "store"]
        PROVE  Holds(pc'[w], req'[w], ecs'[w], got'[w], out'[w], queries')
    <2>1. pc'[w] = "store" /\ got'[w] = [answer |-> a, name |-> req[v].name,
                                          qtype |-> req[v].qtype, ecs |-> ecs[v]]
      BY <1>3 DEF PInv, Threads
    <2>2. /\ req[v].name = req[w].name /\ req[v].qtype = req[w].qtype
          /\ cache_token(ecs[v]) = cache_token(ecs[w])
      <3>1. /\ cache_key(req[v], ecs[v]).name = req[v].name
            /\ cache_key(req[v], ecs[v]).qtype = req[v].qtype
            /\ cache_key(req[v], ecs[v]).token = cache_token(ecs[v])
            /\ cache_key(req[w], ecs[w]).name = req[w].name
            /\ cache_key(req[w], ecs[w]).qtype = req[w].qtype
            /\ cache_key(req[w], ecs[w]).token = cache_token(ecs[w])
        BY DEF cache_key
      <3> QED  BY <1>3, <3>1
    <2>3. ResolvedFor(got'[w], req[w], ecs[w])
      BY <2>1, <2>2 DEF ResolvedFor
    <2> QED  BY <1>1, <2>1, <2>3 DEF Holds
  <1> QED  BY <1>2, <1>3 DEF Resolve

LEMMA StoreHolds ==
    ASSUME PInv, NEW w \in Workers, Store(w)
    PROVE  Holds(pc'[w], req'[w], ecs'[w], got'[w], out'[w], queries')
  <1> DEFINE m == [id |-> req[w].id, rcode |-> got[w].answer.rcode, body |-> got[w]]
  <1>1. /\ pc[w] = "store" /\ req'[w] = req[w] /\ queries' = queries /\ ecs'[w] = ecs[w]
        /\ Asked(req[w], queries) /\ queries \in Nat /\ ResolvedFor(got[w], req[w], ecs[w])
    BY PipelineAssumption DEF Store, PInv, Working, Holds, InForce
  <1>2. Finish(w, m, got[w].answer.rcode, "recursive")
    BY DEF Store
  <1>3. /\ pc'[w] = "done"
        /\ out'[w] = [reply |-> m, row |-> [rcode |-> got[w].answer.rcode, src |-> "recursive"]]
    BY <1>2 DEF Finish, PInv, Threads
  <1>4. /\ out'[w].reply.id = req[w].id /\ out'[w].reply.rcode = got[w].answer.rcode
        /\ out'[w].reply.body = got[w] /\ out'[w].row.rcode = got[w].answer.rcode
    BY <1>3
  <1>5. req[w].id \in Nat /\ req[w].id # None
    <2>1. req[w].id \in Nat
      BY <1>1, AskedTypes
    <2> QED  BY <2>1, PipelineAssumption
  <1>6. got[w].answer.rcode \in 0..255
    BY <1>1, AnswersAssumption DEF ResolvedFor
  <1>7. Replied(req[w], ecs[w], out'[w])
    BY <1>1, <1>4, <1>5, <1>6 DEF Replied
  <1> QED  BY <1>1, <1>3, <1>7 DEF Holds

----------------------------------------------------------------------------
(* The invariant. *)

LEMMA PInvInit == Init => PInv
  <1> SUFFICES ASSUME Init PROVE PInv
    OBVIOUS
  <1>1. Threads
    BY DEF Init, Threads, Locations
  <1>2. InForce
    BY PipelineAssumption DEF Init, InForce
  <1>3. Working
    BY DEF Init, Working, Holds
  <1>4. Cached
    BY DEF Init, Cached
  <1> QED  BY <1>1, <1>2, <1>3, <1>4 DEF PInv

\* No step but Store and Expire writes the cache.
LEMMA StoreCaches ==
    ASSUME PInv, NEW w \in Workers, Store(w)
    PROVE  Cached'
  <1> DEFINE m == [id |-> req[w].id, rcode |-> got[w].answer.rcode, body |-> got[w]]
             ttl == msg_ttl(got[w].answer)
             k == cache_key(req[w], ecs[w])
             c == [msg |-> m, ttl |-> ttl]
  <1>1. ResolvedFor(got[w], req[w], ecs[w])
    BY DEF Store, PInv, Working, Holds
  <1>2. \A x \in DOMAIN cache : EntryOK(x, cache[x])
    BY DEF PInv, Cached
  <1>3. CASE ttl > 0
    <2>1. c.msg = m /\ c.ttl = ttl /\ m.id = req[w].id /\ m.rcode = got[w].answer.rcode
          /\ m.body = got[w]
      OBVIOUS
    <2>2. k.name = req[w].name /\ k.qtype = req[w].qtype /\ k.token = cache_token(ecs[w])
      BY DEF cache_key
    <2>3. c.msg = [id |-> c.msg.id, rcode |-> c.msg.body.answer.rcode, body |-> c.msg.body]
          /\ c.msg.body = got[w]
      OBVIOUS
    <2>4. cache' = [x \in DOMAIN cache \cup {k} |-> IF x = k THEN c ELSE cache[x]]
      BY <1>3 DEF Store
    <2> HIDE DEF c, m, k
    <2>5. EntryOK(k, c)
      BY <1>1, <1>3, <2>1, <2>2, <2>3 DEF EntryOK, ResolvedFor
    <2>6. \A x \in DOMAIN cache' : EntryOK(x, cache'[x])
      BY <1>2, <2>4, <2>5
    <2> QED  BY <2>6 DEF Cached
  <1>4. CASE ~(ttl > 0)
    <2>1. cache' = cache
      BY <1>4 DEF Store
    <2> QED  BY <1>2, <2>1 DEF Cached
  <1> QED  BY <1>3, <1>4

LEMMA SameCache ==
    ASSUME Cached, cache' = cache
    PROVE  Cached'
  BY DEF Cached

\* A step of a thread keeps the invariant.
LEMMA ActKeeps ==
    ASSUME PInv, NEW w \in Workers, Act(w)
    PROVE  PInv'
  <1>1. Threads /\ InForce /\ Working /\ Cached
    BY DEF PInv
  <1>2. queries \in Nat
    BY <1>1, PipelineAssumption DEF InForce
  <1>3. /\ Holds(pc'[w], req'[w], ecs'[w], got'[w], out'[w], queries')
        /\ Cached' /\ InForce' /\ queries' \in Nat /\ queries <= queries'
        /\ pc'[w] \in Locations
    <2>1. ASSUME NEW x \in Queries, Begin(w, x)
          PROVE  /\ Holds(pc'[w], req'[w], ecs'[w], got'[w], out'[w], queries')
                 /\ Cached' /\ InForce' /\ queries' \in Nat /\ queries <= queries'
                 /\ pc'[w] \in Locations
      <3>1. Holds(pc'[w], req'[w], ecs'[w], got'[w], out'[w], queries') /\ pc'[w] \in {"subnet", "done"}
        BY <2>1, BeginHolds
      <3>2. queries' = queries + 1 /\ queries < MaxQueries /\ UNCHANGED <<policy, tables, table>>
            /\ cache' = cache
        BY <2>1 DEF Begin, shared
      <3>3. queries' \in Nat /\ queries <= queries' /\ queries' \in 0..MaxQueries
        BY <1>2, <3>2, PipelineAssumption
      <3>4. InForce'
        BY <1>1, <3>2, <3>3 DEF InForce
      <3> QED  BY <1>1, <3>1, <3>2, <3>3, <3>4, SameCache DEF Locations
    <2>2. ASSUME Subnet(w) \/ Block(w) \/ ZoneLookup(w) \/ CacheLookup(w) \/ Resolve(w) \/ Store(w)
          PROVE  /\ InForce' /\ queries' \in Nat /\ queries <= queries' /\ pc'[w] \in Locations
      <3>1. UNCHANGED <<policy, tables, table, queries>>
        BY <2>2 DEF Subnet, Block, ZoneLookup, CacheLookup, Resolve, Store, shared
      <3>2. queries' \in Nat /\ queries <= queries'
        BY <1>2, <3>1
      <3>3. pc'[w] \in Locations
        BY <1>1, <2>2 DEF Subnet, Block, ZoneLookup, CacheLookup, Resolve, Store, Finish,
                          Threads, Locations
      <3> QED  BY <1>1, <3>1, <3>2, <3>3 DEF InForce
    <2>3. CASE Subnet(w)
      <3>1. cache' = cache
        BY <2>3 DEF Subnet
      <3> QED  BY <1>1, <2>2, <2>3, <3>1, SubnetHolds, SameCache
    <2>4. CASE Block(w)
      <3>1. cache' = cache
        BY <2>4 DEF Block
      <3> QED  BY <1>1, <2>2, <2>4, <3>1, BlockHolds, SameCache
    <2>5. CASE ZoneLookup(w)
      <3>1. cache' = cache
        BY <2>5 DEF ZoneLookup
      <3> QED  BY <1>1, <2>2, <2>5, <3>1, ZoneHolds, SameCache
    <2>6. CASE CacheLookup(w)
      <3>1. cache' = cache
        BY <2>6 DEF CacheLookup
      <3> QED  BY <1>1, <2>2, <2>6, <3>1, CacheHolds, SameCache
    <2>7. CASE Resolve(w)
      <3>1. cache' = cache
        BY <2>7 DEF Resolve
      <3> QED  BY <1>1, <2>2, <2>7, <3>1, ResolveHolds, SameCache
    <2>8. CASE Store(w)
      BY <2>2, <2>8, StoreHolds, StoreCaches
    <2> QED  BY <2>1, <2>3, <2>4, <2>5, <2>6, <2>7, <2>8 DEF Act
  <1>4. /\ DOMAIN pc' = Workers /\ DOMAIN req' = Workers /\ DOMAIN ecs' = Workers
        /\ DOMAIN got' = Workers /\ DOMAIN out' = Workers /\ DOMAIN seen' = Workers
        /\ DOMAIN bound' = Workers /\ \A v \in Workers \ {w} : Stays(v)
    BY <1>1, OneThreadMoves
  <1>5. Threads'
    <2>1. \A v \in Workers : pc'[v] \in Locations
      BY <1>1, <1>3, <1>4 DEF Threads, Stays
    <2>2. pc' = [v \in Workers |-> pc'[v]]
      <3>1. \E f : pc' = [pc EXCEPT ![w] = f]
        <4>1. ASSUME NEW x \in Queries, Begin(w, x) PROVE \E f : pc' = [pc EXCEPT ![w] = f]
          <5> DEFINE q == [id |-> queries + 1, form |-> x.form, name |-> x.name, rest |-> x.rest,
                           qtype |-> x.qtype, client |-> x.client, opt |-> x.opt]
          <5>1. (q.form # "query" /\ Reject(w, q))
                  \/ Finish(w, encode(q.id, REFUSED, <<>>, Echoed(q)), REFUSED, "limit")
                  \/ pc' = [pc EXCEPT ![w] = "subnet"]
            BY <4>1 DEF Begin
          <5>2. q.form = x.form
            OBVIOUS
          <5> HIDE DEF q
          <5>3. CASE q.form # "query" /\ Reject(w, q)
            BY <5>2, <5>3, QueriesAssumption DEF Reject, Finish
          <5> QED  BY <5>1, <5>3 DEF Finish
        <4>2. ASSUME Subnet(w) \/ Block(w) \/ ZoneLookup(w) \/ CacheLookup(w) \/ Resolve(w) \/ Store(w)
              PROVE  \E f : pc' = [pc EXCEPT ![w] = f]
          BY <4>2 DEF Subnet, Block, ZoneLookup, CacheLookup, Resolve, Store, Finish
        <4> QED  BY <4>1, <4>2 DEF Act
      <3> QED  BY <1>1, <3>1 DEF Threads
    <2> QED  BY <1>4, <2>1, <2>2 DEF Threads
  <1>6. Working'
    <2>1. ASSUME NEW v \in Workers \ {w}
          PROVE  Holds(pc'[v], req'[v], ecs'[v], got'[v], out'[v], queries')
      <3>1. Holds(pc[v], req[v], ecs[v], got[v], out[v], queries)
        BY <1>1 DEF Working
      <3>2. pc[v] # "idle" => Asked(req[v], queries')
        BY <1>2, <1>3, <3>1, AskedLater DEF Holds
      <3>3. Stays(v)
        BY <1>4
      <3> QED  BY <3>1, <3>2, <3>3 DEF Holds, Stays
    <2> QED  BY <1>3, <2>1 DEF Working
  <1> QED  BY <1>3, <1>5, <1>6 DEF PInv

LEMMA PInvNext == PInv /\ [Next]_vars => PInv'
  <1> SUFFICES ASSUME PInv, [Next]_vars PROVE PInv'
    OBVIOUS
  <1>1. Threads /\ InForce /\ Working /\ Cached
    BY DEF PInv
  <1>2. CASE \E w \in Workers : Act(w)
    BY <1>2, ActKeeps
  <1>3. ASSUME NEW k \in DOMAIN cache, Expire(k) PROVE PInv'
    <2>1. UNCHANGED <<policy, tables, table, pc, req, ecs, got, out, seen, bound, queries>>
      BY <1>3 DEF Expire, shared
    <2>2. Threads' /\ InForce' /\ Working'
      BY <1>1, <2>1 DEF Threads, InForce, Working
    <2>3. Cached'
      BY <1>1, <1>3 DEF Expire, Cached
    <2> QED  BY <2>2, <2>3 DEF PInv
  <1>4. ASSUME NEW t \in Tables, Reload(t) PROVE PInv'
    <2>1. /\ UNCHANGED <<table, cache, pc, req, ecs, got, out, bound, queries>>
          /\ policy' = PolicyOf(t) /\ tables' = t /\ DOMAIN seen' = Workers
      BY <1>4 DEF Reload
    <2>2. Threads' /\ Working' /\ Cached'
      BY <1>1, <2>1 DEF Threads, Working, Cached
    <2>3. InForce'
      BY <1>1, <2>1 DEF InForce
    <2> QED  BY <2>2, <2>3 DEF PInv
  <1>5. ASSUME NEW b \in Bindings, ReloadBindings(b) PROVE PInv'
    <2>1. /\ UNCHANGED <<policy, tables, cache, pc, req, ecs, got, out, seen, queries>>
          /\ table' = b /\ DOMAIN bound' = Workers
      BY <1>5 DEF ReloadBindings
    <2>2. Threads' /\ Working' /\ Cached'
      BY <1>1, <2>1 DEF Threads, Working, Cached
    <2>3. InForce'
      BY <1>1, <2>1 DEF InForce
    <2> QED  BY <2>2, <2>3 DEF PInv
  <1>6. CASE UNCHANGED vars
    BY <1>1, <1>6 DEF vars, shared, PInv, Threads, InForce, Working, Cached
  <1> QED  BY <1>2, <1>3, <1>4, <1>5, <1>6, StepKinds

LEMMA PInvAlways == Spec => []PInv
  BY PInvInit, PInvNext, PTL DEF Spec

\* A reply out of the cache or the resolver carries the id of the query it goes to and
\* was resolved for its name, type and cache token: cache_key, patch_id and the key of
\* the resolver's flights keep the answers of threads apart.
THEOREM OwnQuestion == Spec => []AnswersOwnQuestion
  <1>1. PInv => AnswersOwnQuestion
    BY DEF PInv, Working, Holds, Replied, ResolvedFor, AnswersOwnQuestion, Done
  <1> QED  BY <1>1, PInvAlways, PTL

\* Only answers of the resolver are cached, and for no longer than msg_ttl's bounds.
THEOREM CacheIsSound == Spec => []CacheSound
  <1>1. PInv => CacheSound
    <2> SUFFICES ASSUME PInv, NEW k \in DOMAIN cache
                 PROVE  LET a == cache[k].msg.body.answer
                        IN  /\ cache[k].ttl > 0
                            /\ a.ttls # {} => /\ cache[k].ttl <= MaxTtl
                                              /\ \A t \in a.ttls : cache[k].ttl <= t
                            /\ a.ttls = {} => /\ cache[k].ttl <= NegTtl
                                              /\ (a.soa # None \/ a.rcode = NXDOMAIN)
      BY DEF CacheSound
    <2> DEFINE a == cache[k].msg.body.answer
    <2>1. a \in Answers /\ cache[k].ttl = msg_ttl(a) /\ cache[k].ttl > 0
      BY DEF PInv, Cached, EntryOK
    <2> HIDE DEF a
    <2>2. /\ a.ttls # {} => msg_ttl(a) <= MaxTtl /\ \A t \in a.ttls : msg_ttl(a) <= t
          /\ a.ttls = {} /\ msg_ttl(a) > 0 =>
                msg_ttl(a) <= NegTtl /\ (a.soa # None \/ a.rcode = NXDOMAIN)
      BY <2>1, MsgTtl
    <2>3. /\ cache[k].ttl > 0
          /\ a.ttls # {} => cache[k].ttl <= MaxTtl /\ \A t \in a.ttls : cache[k].ttl <= t
          /\ a.ttls = {} => cache[k].ttl <= NegTtl /\ (a.soa # None \/ a.rcode = NXDOMAIN)
      BY <2>1, <2>2
    <2> QED  BY <2>3 DEF a
  <1> QED  BY <1>1, PInvAlways, PTL

----------------------------------------------------------------------------
(* The tables in force. *)

\* s is the history of a running thread: its last tables are those in force.
Follows(p, s, bs, t, b) ==
    p \notin {"idle", "done"} =>
        /\ s \in Seq(Tables \cup {EmptyTables}) /\ Len(s) > 0 /\ s[Len(s)] = t
        /\ b \in bs

Following == \A w \in Workers : Follows(pc[w], seen[w], bound[w], tables, table)

\* What a thread at p has seen of the policy.
Passed(p, q, s) ==
    /\ p = "zone" => \E i \in DOMAIN s : ~Blocked(s[i], q.name)
    /\ p \in {"cache", "resolve", "store"} =>
          \E i, j \in DOMAIN s : i <= j /\ ~Blocked(s[i], q.name) /\ Holding(s[j], q.name) = {}

\* Some tables seen have a record that cannot be written.
Unfit(s) == \E i \in DOMAIN s : \E k \in DOMAIN s[i].records : ~s[i].records[k].fits

\* The reply is what some tables seen make of the query.
Governed(q, o, s) ==
    /\ o.row.src = "block" => \E i \in DOMAIN s : BlockedAs(s[i], q, o.reply)
    /\ o.row.src = "zone" =>
          \E i, j \in DOMAIN s : /\ i <= j /\ ~Blocked(s[i], q.name)
                                 /\ ServedAs(s[j], q, o.reply) \/ TextOnly(s[j], q.name)
    /\ (o.row.src = "zone" /\ o.reply = NoBytes) => ~Writable(q.name) \/ Unfit(s)
    /\ o.row.src \in {"cache", "recursive", "failed"} =>
          \E i, j \in DOMAIN s : i <= j /\ ~Blocked(s[i], q.name) /\ Holding(s[j], q.name) = {}

Obeying ==
    \A w \in Workers : /\ Passed(pc[w], req[w], seen[w])
                       /\ pc[w] = "done" => Governed(req[w], out[w], seen[w])

\* A thread that goes on without a new policy.
LEMMA FollowsOn ==
    ASSUME NEW w \in Workers, Follows(pc[w], seen[w], bound[w], tables, table),
           pc[w] \notin {"idle", "done"}, seen'[w] = seen[w], bound'[w] = bound[w],
           tables' = tables, table' = table
    PROVE  Follows(pc'[w], seen'[w], bound'[w], tables', table')
  BY DEF Follows

\* The position of the tables in force.
LEMMA LastSeen ==
    ASSUME NEW w \in Workers, Following, pc[w] \notin {"idle", "done"}
    PROVE  /\ Len(seen[w]) \in DOMAIN seen[w] /\ seen[w][Len(seen[w])] = tables
           /\ Len(seen[w]) \in Nat
           /\ \A i \in DOMAIN seen[w] : i <= Len(seen[w])
  <1>1. /\ seen[w] \in Seq(Tables \cup {EmptyTables}) /\ Len(seen[w]) > 0
        /\ seen[w][Len(seen[w])] = tables
    BY DEF Following, Follows
  <1>2. Len(seen[w]) \in Nat /\ DOMAIN seen[w] = 1..Len(seen[w])
    BY <1>1, LenProperties
  <1>3. PICK n \in Nat : n = Len(seen[w])
    BY <1>2
  <1>4. n > 0 /\ DOMAIN seen[w] = 1..n
    BY <1>1, <1>2, <1>3
  <1>5. n \in 1..n /\ \A i \in 1..n : i <= n
    BY <1>4
  <1> QED  BY <1>1, <1>3, <1>4, <1>5

\* A policy that comes into force later takes nothing away.
LEMMA PassedOn ==
    ASSUME NEW T, NEW s \in Seq(T), NEW t \in T, NEW p, NEW q, Passed(p, q, s)
    PROVE  Passed(p, q, Append(s, t))
  <1>1. /\ DOMAIN s \subseteq DOMAIN Append(s, t)
        /\ \A i \in DOMAIN s : Append(s, t)[i] = s[i]
    <2>1. Len(s) \in Nat /\ DOMAIN s = 1..Len(s)
      BY LenProperties
    <2>2. /\ Append(s, t) \in Seq(T) /\ Len(Append(s, t)) = Len(s) + 1
          /\ \A i \in 1..Len(s) : Append(s, t)[i] = s[i]
      BY AppendProperties
    <2>3. DOMAIN Append(s, t) = 1..(Len(s) + 1)
      BY <2>2, LenProperties
    <2>4. \A n \in Nat : 1..n \subseteq 1..(n + 1)
      OBVIOUS
    <2> QED  BY <2>1, <2>2, <2>3, <2>4
  <1> QED  BY <1>1 DEF Passed

LEMMA FollowingInit == Init => Following /\ Obeying
  BY DEF Init, Following, Follows, Obeying, Passed

LEMMA FollowingAct ==
    ASSUME PInv, Following, NEW w \in Workers, Act(w)
    PROVE  Following'
  <1>1. Threads
    BY DEF PInv
  <1>2. tables' = tables /\ table' = table
    BY DEF Act, Begin, Subnet, Block, ZoneLookup, CacheLookup, Resolve, Store, shared
  <1>3. Follows(pc'[w], seen'[w], bound'[w], tables', table')
    <2>1. ASSUME NEW x \in Queries, Begin(w, x)
          PROVE  Follows(pc'[w], seen'[w], bound'[w], tables', table')
      <3>1. seen'[w] = <<tables>> /\ bound'[w] = {table}
        BY <1>1, <2>1 DEF Begin, Threads
      <3>2. tables \in Tables \cup {EmptyTables}
        BY DEF PInv, InForce
      <3>3. /\ <<tables>> \in Seq(Tables \cup {EmptyTables}) /\ Len(<<tables>>) = 1
            /\ <<tables>>[1] = tables
        BY <3>2
      <3> QED  BY <1>2, <3>1, <3>3 DEF Follows
    <2>2. ASSUME Subnet(w) \/ Block(w) \/ ZoneLookup(w) \/ CacheLookup(w) \/ Resolve(w) \/ Store(w)
          PROVE  Follows(pc'[w], seen'[w], bound'[w], tables', table')
      <3>1. pc[w] \notin {"idle", "done"} /\ seen' = seen /\ bound' = bound
        BY <2>2 DEF Subnet, Block, ZoneLookup, CacheLookup, Resolve, Store
      <3>2. Follows(pc[w], seen[w], bound[w], tables, table)
        BY DEF Following
      <3> QED  BY <1>2, <3>1, <3>2, FollowsOn
    <2> QED  BY <2>1, <2>2 DEF Act
  <1>4. ASSUME NEW v \in Workers \ {w}
        PROVE  Follows(pc'[v], seen'[v], bound'[v], tables', table')
    <2>1. Stays(v)
      BY <1>1, OneThreadMoves
    <2> QED  BY <1>2, <2>1 DEF Following, Stays
  <1> QED  BY <1>3, <1>4 DEF Following

LEMMA FollowingNext ==
    ASSUME PInv, Following, [Next]_vars
    PROVE  Following'
  <1>1. Threads /\ InForce
    BY DEF PInv
  <1>2. CASE \E w \in Workers : Act(w)
    BY <1>2, FollowingAct
  <1>3. ASSUME NEW k \in DOMAIN cache, Expire(k) PROVE Following'
    BY <1>3 DEF Expire, shared, Following
  <1>4. ASSUME NEW t \in Tables, Reload(t) PROVE Following'
    <2>1. pc' = pc /\ bound' = bound /\ table' = table /\ tables' = t
          /\ seen' = [w \in Workers |-> IF Running(w) THEN Append(seen[w], t) ELSE seen[w]]
      BY <1>4 DEF Reload
    <2>2. ASSUME NEW w \in Workers, pc[w] \notin {"idle", "done"}
          PROVE  Follows(pc'[w], seen'[w], bound'[w], tables', table')
      <3>1. seen'[w] = Append(seen[w], t)
        BY <2>1, <2>2 DEF Running
      <3>2. seen[w] \in Seq(Tables \cup {EmptyTables}) /\ table \in bound[w]
        BY <2>2 DEF Following, Follows
      <3>3. t \in Tables \cup {EmptyTables}
        BY <1>4
      <3>4. /\ Append(seen[w], t) \in Seq(Tables \cup {EmptyTables})
            /\ Len(Append(seen[w], t)) = Len(seen[w]) + 1
            /\ Append(seen[w], t)[Len(seen[w]) + 1] = t
        BY <3>2, <3>3, AppendProperties
      <3>5. Len(seen[w]) \in Nat
        BY <3>2, LenProperties
      <3>6. \A n \in Nat : n + 1 > 0
        OBVIOUS
      <3>7. Len(Append(seen[w], t)) > 0 /\ Append(seen[w], t)[Len(Append(seen[w], t))] = t
        BY <3>4, <3>5, <3>6
      <3> QED  BY <2>1, <3>1, <3>2, <3>4, <3>7 DEF Follows
    <2>3. ASSUME NEW w \in Workers, pc[w] \in {"idle", "done"}
          PROVE  Follows(pc'[w], seen'[w], bound'[w], tables', table')
      BY <2>1, <2>3 DEF Follows
    <2> QED  BY <2>2, <2>3 DEF Following
  <1>5. ASSUME NEW b \in Bindings, ReloadBindings(b) PROVE Following'
    BY <1>5 DEF ReloadBindings, Following, Follows, Running
  <1>6. CASE UNCHANGED vars
    BY <1>6 DEF vars, shared, Following
  <1> QED  BY <1>2, <1>3, <1>4, <1>5, <1>6, StepKinds

----------------------------------------------------------------------------
(* Every step of the pipeline obeys the policy it reads. *)

\* What the invariants say of a thread that handles a query.
LEMMA Handling ==
    ASSUME PInv, Following, NEW w \in Workers, pc[w] \notin {"idle", "done"}
    PROVE  /\ req[w].name \in Seq(STRING) /\ TablesOK(tables)
           /\ policy.block = BlockList(tables.blocked)
           /\ policy.zones = ZoneIndex(tables.zones, tables.records)
  <1>1. queries \in Nat /\ Asked(req[w], queries)
    BY PipelineAssumption DEF PInv, InForce, Working, Holds
  <1>2. req[w].name \in Seq(STRING)
    BY <1>1, AskedTypes
  <1>3. tables \in Tables \cup {EmptyTables} /\ policy = PolicyOf(tables)
    BY DEF PInv, InForce
  <1>4. TablesOK(tables)
    BY <1>3, AllTablesOK
  <1> QED  BY <1>2, <1>3, <1>4 DEF PolicyOf

LEMMA BlockObeys ==
    ASSUME PInv, Following, NEW w \in Workers, Block(w)
    PROVE  /\ Passed(pc'[w], req'[w], seen'[w])
           /\ pc'[w] = "done" => Governed(req'[w], out'[w], seen'[w])
  <1> DEFINE n == Len(seen[w])
             mode == mode_for(policy.block, req[w].name)
             body == BlockAnswer(mode, req[w].name, req[w].qtype, req[w].client)
             sent == encode(req[w].id, NOERROR, body, Writable(req[w].name))
  <1>1. pc[w] = "block" /\ req'[w] = req[w] /\ seen'[w] = seen[w]
    BY DEF Block
  <1>2. n \in DOMAIN seen[w] /\ seen[w][n] = tables
    BY <1>1, LastSeen
  <1>3. /\ tables.blocked \in Seq([domain : Seq(STRING), mode : {"loopback", "random"}])
        /\ policy.block = BlockList(tables.blocked)
    BY <1>1, Handling DEF TablesOK
  <1>4. /\ mode # "none" => mode \in Modes(tables, req[w].name)
        /\ mode = "none" => ~Blocked(tables, req[w].name)
    BY <1>3, BlockListSays
  <1>5. \/ mode # "none" /\ Finish(w, sent, NOERROR, "block")
        \/ mode = "none" /\ pc' = [pc EXCEPT ![w] = "zone"]
    BY DEF Block
  <1> HIDE DEF mode, n
  <1>6. CASE mode # "none" /\ Finish(w, sent, NOERROR, "block")
    <2>1. /\ pc'[w] = "done"
          /\ out'[w] = [reply |-> sent, row |-> [rcode |-> NOERROR, src |-> "block"]]
      BY <1>6 DEF Finish, PInv, Threads
    <2>2. out'[w].reply = sent /\ out'[w].row.src = "block"
      BY <2>1
    <2>3. BlockedAs(tables, req[w], out'[w].reply)
      <3>1. CASE Writable(req[w].name)
        <4>1. sent.id = req[w].id /\ sent.body = body
          BY <3>1 DEF encode
        <4> QED  BY <1>4, <1>6, <2>2, <3>1, <4>1 DEF BlockedAs
      <3>2. CASE ~Writable(req[w].name)
        <4>1. sent = NoBytes
          BY <3>2 DEF encode
        <4> QED  BY <1>4, <1>6, <2>2, <3>2, <4>1 DEF BlockedAs
      <3> QED  BY <3>1, <3>2
    <2>4. Governed(req[w], out'[w], seen[w])
      BY <1>2, <2>2, <2>3 DEF Governed
    <2> QED  BY <1>1, <2>1, <2>4 DEF Passed
  <1>7. CASE mode = "none" /\ pc' = [pc EXCEPT ![w] = "zone"]
    <2>1. pc'[w] = "zone"
      BY <1>7 DEF PInv, Threads
    <2> QED  BY <1>1, <1>2, <1>4, <1>7, <2>1 DEF Passed
  <1> QED  BY <1>5, <1>6, <1>7

LEMMA ZoneObeys ==
    ASSUME PInv, Following, NEW w \in Workers, ZoneLookup(w), Passed(pc[w], req[w], seen[w])
    PROVE  /\ Passed(pc'[w], req'[w], seen'[w])
           /\ pc'[w] = "done" => Governed(req'[w], out'[w], seen'[w])
  <1> DEFINE n == Len(seen[w])
             index == ZoneIndex(tables.zones, tables.records)
  <1>1. pc[w] = "zone" /\ req'[w] = req[w] /\ seen'[w] = seen[w]
    BY DEF ZoneLookup
  <1>2. n \in DOMAIN seen[w] /\ seen[w][n] = tables /\ \A i \in DOMAIN seen[w] : i <= n
    BY <1>1, LastSeen
  <1>3. policy.zones = index /\ TablesOK(tables) /\ req[w].name \in Seq(STRING)
    BY <1>1, Handling
  <1>4. PICK i \in DOMAIN seen[w] : ~Blocked(seen[w][i], req[w].name)
    BY <1>1 DEF Passed
  <1> HIDE DEF n, index
  <1>5. CASE find_zone(index, req[w].name) = {} /\ pc' = [pc EXCEPT ![w] = "cache"]
    <2>1. Holding(tables, req[w].name) = {}
      BY <1>3, <1>5, NoZoneFound DEF index
    <2>2. pc'[w] = "cache"
      BY <1>5 DEF PInv, Threads
    <2> QED  BY <1>1, <1>2, <1>4, <2>1, <2>2 DEF Passed
  <1>6. ASSUME NEW zone \in find_zone(index, req[w].name),
               LET a == ZoneAnswer(index, zone, req[w].name, req[w].qtype)
               IN  Finish(w, encode(req[w].id, a.rcode, a.answers,
                                    Writable(req[w].name) /\ a.fits), a.rcode, "zone")
        PROVE  /\ Passed(pc'[w], req'[w], seen'[w])
               /\ pc'[w] = "done" => Governed(req'[w], out'[w], seen'[w])
    <2> DEFINE a == ZoneAnswer(index, zone, req[w].name, req[w].qtype)
    <2> HIDE DEF a
    <2>1. /\ pc'[w] = "done"
          /\ out'[w] = [reply |-> encode(req[w].id, a.rcode, a.answers,
                                         Writable(req[w].name) /\ a.fits),
                        row |-> [rcode |-> a.rcode, src |-> "zone"]]
      BY <1>6 DEF Finish, PInv, Threads, a
    <2>2. /\ out'[w].reply = encode(req[w].id, a.rcode, a.answers, Writable(req[w].name) /\ a.fits)
          /\ out'[w].row.src = "zone"
      BY <2>1
    <2>3. ServedAs(tables, req[w], out'[w].reply) \/ TextOnly(tables, req[w].name)
      BY <1>3, <1>6, <2>2, ZoneAnswers DEF a, index
    <2>5. out'[w].reply = NoBytes => ~Writable(req[w].name) \/ Unfit(seen[w])
      <3>1. ASSUME out'[w].reply = NoBytes, Writable(req[w].name) PROVE ~a.fits
        <4>1. req[w].id # None
          <5>1. queries \in Nat /\ Asked(req[w], queries)
            BY <1>1, PipelineAssumption DEF PInv, InForce, Working, Holds
          <5>2. req[w].id \in Nat
            BY <5>1, AskedTypes
          <5> QED  BY <5>2, PipelineAssumption
        <4>2. NoBytes.id = None
          BY DEF NoBytes
        <4>3. a.fits => out'[w].reply.id = req[w].id
          BY <2>2, <3>1 DEF encode
        <4> QED  BY <3>1, <4>1, <4>2, <4>3
      <3>2. ASSUME ~a.fits PROVE Unfit(seen[w])
        <4>1. PICK k \in DOMAIN tables.records : ~tables.records[k].fits
          BY <1>3, <1>6, <3>2, ZoneUnfit DEF a, index
        <4> QED  BY <1>2, <4>1 DEF Unfit
      <3> QED  BY <3>1, <3>2
    <2>4. Governed(req[w], out'[w], seen[w])
      BY <1>2, <1>4, <2>2, <2>3, <2>5 DEF Governed
    <2> QED  BY <1>1, <2>1, <2>4 DEF Passed
  <1>7. \/ find_zone(index, req[w].name) = {} /\ pc' = [pc EXCEPT ![w] = "cache"]
        \/ \E zone \in find_zone(index, req[w].name) :
             LET a == ZoneAnswer(index, zone, req[w].name, req[w].qtype)
             IN  Finish(w, encode(req[w].id, a.rcode, a.answers,
                                  Writable(req[w].name) /\ a.fits), a.rcode, "zone")
    BY <1>3 DEF ZoneLookup
  <1> QED  BY <1>5, <1>6, <1>7

\* What ends in the cache, the resolver or after it has passed the policy.
LEMMA LaterObeys ==
    ASSUME Threads, NEW w \in Workers, CacheLookup(w) \/ Resolve(w) \/ Store(w),
           Passed(pc[w], req[w], seen[w])
    PROVE  /\ Passed(pc'[w], req'[w], seen'[w])
           /\ pc'[w] = "done" => Governed(req'[w], out'[w], seen'[w])
  <1>1. /\ pc[w] \in {"cache", "resolve", "store"} /\ req'[w] = req[w] /\ seen'[w] = seen[w]
    BY DEF CacheLookup, Resolve, Store
  <1>2. \E i, j \in DOMAIN seen[w] : /\ i <= j /\ ~Blocked(seen[w][i], req[w].name)
                                     /\ Holding(seen[w][j], req[w].name) = {}
    BY <1>1 DEF Passed
  <1>3. \/ pc'[w] \in {"resolve", "store"}
        \/ pc'[w] = "done" /\ out'[w].row.src \in {"cache", "failed", "recursive"}
    BY DEF CacheLookup, Resolve, Store, Finish, Threads
  <1>4. CASE pc'[w] \in {"resolve", "store"}
    BY <1>1, <1>2, <1>4 DEF Passed
  <1>5. CASE pc'[w] = "done" /\ out'[w].row.src \in {"cache", "failed", "recursive"}
    BY <1>1, <1>2, <1>5 DEF Passed, Governed
  <1> QED  BY <1>3, <1>4, <1>5

LEMMA ObeyingAct ==
    ASSUME PInv, Following, Obeying, NEW w \in Workers, Act(w)
    PROVE  Obeying'
  <1>1. Threads
    BY DEF PInv
  <1>2. Passed(pc[w], req[w], seen[w])
    BY DEF Obeying
  <1>3. /\ Passed(pc'[w], req'[w], seen'[w])
        /\ pc'[w] = "done" => Governed(req'[w], out'[w], seen'[w])
    <2>1. ASSUME NEW x \in Queries, Begin(w, x)
          PROVE  /\ Passed(pc'[w], req'[w], seen'[w])
                 /\ pc'[w] = "done" => Governed(req'[w], out'[w], seen'[w])
      <3>1. /\ pc'[w] \in {"subnet", "done"}
            /\ pc'[w] = "done" => out'[w].row.src \in {"refuse", "none", "badvers", "limit"}
        BY <2>1, BeginHolds
      <3> QED  BY <3>1 DEF Passed, Governed
    <2>2. CASE Subnet(w)
      <3>1. pc'[w] = "block"
        BY <1>1, <2>2 DEF Subnet, Threads
      <3> QED  BY <3>1 DEF Passed
    <2>3. CASE Block(w)
      BY <2>3, BlockObeys
    <2>4. CASE ZoneLookup(w)
      BY <1>2, <2>4, ZoneObeys
    <2>5. CASE CacheLookup(w) \/ Resolve(w) \/ Store(w)
      BY <1>1, <1>2, <2>5, LaterObeys
    <2> QED  BY <2>1, <2>2, <2>3, <2>4, <2>5 DEF Act
  <1>4. ASSUME NEW v \in Workers \ {w}
        PROVE  /\ Passed(pc'[v], req'[v], seen'[v])
               /\ pc'[v] = "done" => Governed(req'[v], out'[v], seen'[v])
    <2>1. Stays(v)
      BY <1>1, OneThreadMoves
    <2> QED  BY <2>1 DEF Obeying, Stays
  <1> QED  BY <1>3, <1>4 DEF Obeying

LEMMA ObeyingNext ==
    ASSUME PInv, Following, Obeying, [Next]_vars
    PROVE  Obeying'
  <1>1. CASE \E w \in Workers : Act(w)
    BY <1>1, ObeyingAct
  <1>2. ASSUME NEW k \in DOMAIN cache, Expire(k) PROVE Obeying'
    BY <1>2 DEF Expire, Obeying
  <1>3. ASSUME NEW t \in Tables, Reload(t) PROVE Obeying'
    <2>1. pc' = pc /\ req' = req /\ out' = out
          /\ seen' = [w \in Workers |-> IF Running(w) THEN Append(seen[w], t) ELSE seen[w]]
      BY <1>3 DEF Reload
    <2>2. ASSUME NEW w \in Workers, pc[w] \notin {"idle", "done"}
          PROVE  Passed(pc'[w], req'[w], seen'[w])
      <3>1. seen'[w] = Append(seen[w], t)
        BY <2>1, <2>2 DEF Running
      <3>2. seen[w] \in Seq(Tables \cup {EmptyTables}) /\ t \in Tables \cup {EmptyTables}
        BY <1>3, <2>2 DEF Following, Follows
      <3>3. Passed(pc[w], req[w], seen[w])
        BY DEF Obeying
      <3>4. Passed(pc[w], req[w], Append(seen[w], t))
        BY <3>2, <3>3, PassedOn
      <3> QED  BY <2>1, <3>1, <3>4
    <2>3. ASSUME NEW w \in Workers, pc[w] \in {"idle", "done"}
          PROVE  /\ Passed(pc'[w], req'[w], seen'[w])
                 /\ pc'[w] = "done" => Governed(req'[w], out'[w], seen'[w])
      <3>1. seen'[w] = seen[w]
        BY <2>1, <2>3 DEF Running
      <3> QED  BY <2>1, <2>3, <3>1 DEF Obeying
    <2> QED  BY <2>1, <2>2, <2>3 DEF Obeying
  <1>4. ASSUME NEW b \in Bindings, ReloadBindings(b) PROVE Obeying'
    BY <1>4 DEF ReloadBindings, Obeying
  <1>5. CASE UNCHANGED vars
    BY <1>5 DEF vars, Obeying
  <1> QED  BY <1>1, <1>2, <1>3, <1>4, <1>5, StepKinds

LEMMA PolicyAlways == Spec => [](PInv /\ Following /\ Obeying)
  <1>1. Init => PInv /\ Following /\ Obeying
    BY PInvInit, FollowingInit
  <1>2. PInv /\ Following /\ Obeying /\ [Next]_vars => (PInv /\ Following /\ Obeying)'
    BY PInvNext, FollowingNext, ObeyingNext
  <1> QED  BY <1>1, <1>2, PTL DEF Spec

\* The type invariant: the policy is always that of the tables, every thread's history
\* ends with them, and every query in hand has its number.
THEOREM PipelineTypes == Spec => []TypeOK
  <1>1. PInv /\ Following => TypeOK
    <2> SUFFICES ASSUME PInv, Following PROVE TypeOK
      OBVIOUS
    <2>1. /\ tables \in Tables \cup {EmptyTables} /\ policy = PolicyOf(tables)
          /\ table \in Bindings \cup {<<>>} /\ pc \in [Workers -> Locations]
          /\ queries \in 0..MaxQueries
      BY DEF PInv, Threads, InForce
    <2>2. queries \in Nat
      BY <2>1, PipelineAssumption
    <2>3. ASSUME NEW w \in Workers
          PROVE  /\ pc[w] # "idle" => req[w].id \in 1..queries
                 /\ pc[w] = "store" => got[w].answer \in Answers
                 /\ pc[w] = "done" => out[w].reply.rcode \in 0..255
                 /\ Running(w) => tables = seen[w][Len(seen[w])] /\ table \in bound[w]
      <3>1. Holds(pc[w], req[w], ecs[w], got[w], out[w], queries)
        BY DEF PInv, Working
      <3>2. pc[w] # "idle" => req[w].id \in 1..queries
        BY <2>2, <3>1, AskedTypes DEF Holds
      <3>3. /\ pc[w] = "store" => got[w].answer \in Answers
            /\ pc[w] = "done" => out[w].reply.rcode \in 0..255
        BY <3>1 DEF Holds, ResolvedFor, Replied
      <3>4. Running(w) => tables = seen[w][Len(seen[w])] /\ table \in bound[w]
        BY DEF Following, Follows, Running
      <3> QED  BY <3>2, <3>3, <3>4
    <2> QED  BY <2>1, <2>3 DEF TypeOK
  <1> QED  BY <1>1, PolicyAlways, PTL

\* However reloads fall between the steps of a query, its reply is what the tables of
\* some moment of its handling make of it: the block list wins over the zones, and both
\* over the cache and the resolver.  Names that a zone claims by their text alone are
\* exempt: for them the code departs from what ZoneIndex::respond promises.
THEOREM PolicyHolds == Spec => []PolicyInForce
  <1>1. Obeying => PolicyInForce
    BY DEF Obeying, Governed, PolicyInForce, Done
  <1> QED  BY <1>1, PolicyAlways, PTL

\* The log row names the code of the reply, but for BADVERS; where no bytes go out, what
\* came was no query, or the reply had to repeat a question or a record of a zone that
\* encode() cannot write.
THEOREM RowTellsReply == Spec => []LogTellsReply
  <1>1. PInv /\ Obeying => LogTellsReply
    <2> SUFFICES ASSUME PInv, Obeying, NEW w \in Workers, pc[w] = "done"
                 PROVE  \/ out[w].row.rcode = out[w].reply.rcode /\ out[w].reply.id # None
                        \/ /\ out[w].row.rcode = BADVERS /\ out[w].reply.rcode = NOERROR
                           /\ out[w].reply.id # None
                        \/ /\ out[w].reply = NoBytes
                           /\ \/ req[w].form \in {"malformed", "response"}
                              \/ /\ out[w].row.src \in {"refuse", "badvers", "limit"}
                                 /\ ~Echoed(req[w])
                              \/ /\ out[w].row.src \in {"block", "zone", "failed"}
                                 /\ ~Writable(req[w].name)
                              \/ out[w].row.src = "zone" /\ Unfit(seen[w])
      BY DEF LogTellsReply, Unfit
    <2>1. Replied(req[w], ecs[w], out[w])
      BY DEF PInv, Working, Holds
    <2>2. (out[w].row.src = "zone" /\ out[w].reply = NoBytes) =>
            ~Writable(req[w].name) \/ Unfit(seen[w])
      BY DEF Obeying, Governed
    <2> QED  BY <2>1, <2>2 DEF Replied, Silent
  <1> QED  BY <1>1, PolicyAlways, PTL

----------------------------------------------------------------------------
(* The subnet sent upstream. *)

\* e is a subnet to use for q while the tables bs were in force.
Justified(p, q, e, bs) ==
    (p # "idle" /\ e # NoEcs) =>
        \/ q.opt # None /\ OwnSubnet(q.opt, e)
        \/ /\ q.opt = None /\ Len(q.client) = 16 /\ DualstackOn
           /\ Derived(q.client, e, bs)

Sending == \A w \in Workers : Justified(pc[w], req[w], ecs[w], bound[w])

LEMMA SubnetJustifies ==
    ASSUME PInv, Following, NEW w \in Workers, Subnet(w)
    PROVE  Justified(pc'[w], req'[w], ecs'[w], bound'[w])
  <1>1. pc[w] = "subnet" /\ req'[w] = req[w] /\ bound'[w] = bound[w]
    BY DEF Subnet
  <1>2. queries \in Nat /\ Asked(req[w], queries) /\ table \in Bindings \cup {<<>>}
    BY <1>1, PipelineAssumption DEF PInv, InForce, Working, Holds
  <1>3. PICK x \in Queries : req[w].opt = x.opt /\ req[w].client = x.client
    BY <1>2, AskedTypes
  <1>4. table \in bound[w]
    BY <1>1 DEF Following, Follows
  <1>5. PICK api \in ApiAnswers :
          ecs'[w] = IF req[w].opt # None THEN clamp_scope(decode(req[w].opt), ScopeMax)
                    ELSE IF DualstackOn /\ Len(req[w].client) = 16
                    THEN derive_ecs(req[w].client, Nat64, table, api, Geo, DeriveMask)
                    ELSE NoEcs
    BY DEF Subnet, PInv, Threads
  <1>6. CASE req[w].opt # None
    <2>1. x.opt.source \in Nat /\ x.opt.octets \in Seq(0..255)
      BY <1>3, <1>6, QueriesAssumption
    <2>2. OwnSubnet(x.opt, clamp_scope(decode(x.opt), ScopeMax))
      BY <2>1, ClampedSubnet
    <2>3. ecs'[w] = clamp_scope(decode(x.opt), ScopeMax)
      BY <1>3, <1>5, <1>6
    <2>4. OwnSubnet(req[w].opt, ecs'[w])
      BY <1>3, <2>2, <2>3
    <2> QED  BY <1>1, <1>6, <2>4 DEF Justified
  <1>7. CASE req[w].opt = None /\ DualstackOn /\ Len(req[w].client) = 16 /\ ecs'[w] # NoEcs
    <2>1. ecs'[w] = derive_ecs(x.client, Nat64, table, api, Geo, DeriveMask)
      BY <1>3, <1>5, <1>7
    <2>2. Derived(x.client, derive_ecs(x.client, Nat64, table, api, Geo, DeriveMask), {table})
      BY <1>2, <1>3, <1>7, <2>1, DerivedSubnet
    <2>3. Derived(req[w].client, ecs'[w], bound[w])
      BY <1>3, <1>4, <2>1, <2>2, DerivedMonotone
    <2> QED  BY <1>1, <1>7, <2>3 DEF Justified
  <1>8. CASE ecs'[w] = NoEcs
    BY <1>8 DEF Justified
  <1> QED  BY <1>5, <1>6, <1>7, <1>8

LEMMA SendingAct ==
    ASSUME PInv, Following, Sending, NEW w \in Workers, Act(w)
    PROVE  Sending'
  <1>1. Threads
    BY DEF PInv
  <1>2. Justified(pc'[w], req'[w], ecs'[w], bound'[w])
    <2>1. ASSUME NEW x \in Queries, Begin(w, x)
          PROVE  Justified(pc'[w], req'[w], ecs'[w], bound'[w])
      <3>1. ecs'[w] = NoEcs
        BY <1>1, <2>1 DEF Begin, Threads
      <3> QED  BY <3>1 DEF Justified
    <2>2. CASE Subnet(w)
      BY <2>2, SubnetJustifies
    <2>3. ASSUME Block(w) \/ ZoneLookup(w) \/ CacheLookup(w) \/ Resolve(w) \/ Store(w)
          PROVE  Justified(pc'[w], req'[w], ecs'[w], bound'[w])
      <3>1. req' = req /\ ecs' = ecs /\ bound' = bound /\ pc[w] # "idle"
        BY <2>3 DEF Block, ZoneLookup, CacheLookup, Resolve, Store
      <3>2. Justified(pc[w], req[w], ecs[w], bound[w])
        BY DEF Sending
      <3> QED  BY <3>1, <3>2 DEF Justified
    <2> QED  BY <2>1, <2>2, <2>3 DEF Act
  <1>3. ASSUME NEW v \in Workers \ {w}
        PROVE  Justified(pc'[v], req'[v], ecs'[v], bound'[v])
    <2>1. Stays(v)
      BY <1>1, OneThreadMoves
    <2> QED  BY <2>1 DEF Sending, Stays
  <1> QED  BY <1>2, <1>3 DEF Sending

LEMMA SendingNext ==
    ASSUME PInv, Following, Sending, [Next]_vars
    PROVE  Sending'
  <1>1. CASE \E w \in Workers : Act(w)
    BY <1>1, SendingAct
  <1>2. ASSUME NEW k \in DOMAIN cache, Expire(k) PROVE Sending'
    BY <1>2 DEF Expire, Sending
  <1>3. ASSUME NEW t \in Tables, Reload(t) PROVE Sending'
    BY <1>3 DEF Reload, Sending
  <1>4. ASSUME NEW b \in Bindings, ReloadBindings(b) PROVE Sending'
    <2>1. pc' = pc /\ req' = req /\ ecs' = ecs
          /\ bound' = [w \in Workers |-> IF Running(w) THEN bound[w] \cup {b} ELSE bound[w]]
      BY <1>4 DEF ReloadBindings
    <2>2. ASSUME NEW w \in Workers
          PROVE  Justified(pc'[w], req'[w], ecs'[w], bound'[w])
      <3>1. bound[w] \subseteq bound'[w]
        BY <2>1
      <3>2. Justified(pc[w], req[w], ecs[w], bound[w])
        BY DEF Sending
      <3>3. Derived(req[w].client, ecs[w], bound[w]) => Derived(req[w].client, ecs[w], bound'[w])
        BY <3>1, DerivedMonotone
      <3> QED  BY <2>1, <3>2, <3>3 DEF Justified
    <2> QED  BY <2>2 DEF Sending
  <1>5. CASE UNCHANGED vars
    BY <1>5 DEF vars, Sending
  <1> QED  BY <1>1, <1>2, <1>3, <1>4, <1>5, StepKinds

\* The subnet sent upstream is exactly the one the client sent, an IPv4 prefix longer
\* than ecs_scope_max being cut to that length, or one derived for it from a
\* binding table that was in force, its own address or the mapping service, and approved
\* by both databases, whose entries the binary search of QQwry::lookup finds rightly
\* (EcsInfo::clamp_scope, Dualstack::derive_ecs).
THEOREM SubnetIsJustified == Spec => []SubnetJustified
  <1>1. Init => PInv /\ Following /\ Sending
    <2>1. Init => Sending
      BY DEF Init, Sending, Justified
    <2> QED  BY <2>1, PInvInit, FollowingInit
  <1>2. PInv /\ Following /\ Sending /\ [Next]_vars => (PInv /\ Following /\ Sending)'
    BY PInvNext, FollowingNext, SendingNext
  <1>3. Sending => SubnetJustified
    <2> SUFFICES ASSUME Sending, NEW w \in Workers, pc[w] # "idle", ecs[w] # NoEcs
                 PROVE  LET q == req[w]
                            a == ecs[w].address
                        IN  \/ /\ q.opt # None /\ ecs[w].family = q.opt.family
                               /\ IF q.opt.family = 1 /\ q.opt.source > ScopeMax
                                  THEN /\ ecs[w].source = ScopeMax
                                       /\ a = Mask(Carried(q.opt), ScopeMax)
                                  ELSE ecs[w].source = q.opt.source /\ a = Carried(q.opt)
                            \/ /\ q.opt = None /\ Len(q.client) = 16 /\ DualstackOn
                               /\ ecs[w].source = DeriveMask
                               /\ \E v \in Origins(q.client, bound[w]) \ {<<>>} :
                                    /\ a = Mask(v, DeriveMask)
                                    /\ Geo.both => consistent(PlaceOf(Geo.v4, v),
                                            Longest(Geo.v6, q.client, NoPlace), Geo.strict)
      BY DEF SubnetJustified
    <2>1. Justified(pc[w], req[w], ecs[w], bound[w])
      BY DEF Sending
    <2> QED  BY <2>1 DEF Justified, OwnSubnet, Derived
  <1> QED  BY <1>1, <1>2, <1>3, PTL DEF Spec
=============================================================================
