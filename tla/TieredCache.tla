---------------------------- MODULE TieredCache ----------------------------
(***************************************************************************)
(* The tiered cache (src/cache/mod.rs): L1 in memory (src/cache/l1.rs), L2  *)
(* on disk and L3 in Redis behind one connection (src/cache/redis.rs).      *)
(*                                                                          *)
(* The threads that serve queries look a key up tier by tier and promote    *)
(* what they find, or store what they resolved; one thread writes to Redis  *)
(* from a queue.  Each tier has its own lock, so their steps interleave     *)
(* between any two tiers.  A command to Redis holds the connection's mutex  *)
(* from sending to reading its reply; it is tried twice, with a new         *)
(* connection in between.                                                   *)
(*                                                                          *)
(* L2 is the exact map of L2Contract; what its compaction and a crash do to *)
(* it is the subject of L2Store.  The keys are those of one L1 shard.       *)
(***************************************************************************)
EXTENDS Naturals, Sequences, FiniteSets

CONSTANTS
    Clients,    \* threads that serve queries
    Writer,     \* the thread behind l3_tx
    Keys,       \* cache keys
    None,       \* no value, no command, nobody
    Capacity,   \* L1Cache.max_per_shard
    MaxTtl,     \* L1Cache.max_ttl_secs
    Promo,      \* TTL of promoted entries, 60 in the code
    Ttls,       \* DNS TTLs of answers
    Failures,   \* what can go wrong, see FailureKinds
    MaxFaults,  \* bound on the number of failures other than "refused"
    MaxCalls,   \* bound on the number of lookups and stores
    MaxTime,    \* bound on the clock
    MaxQueue    \* bound on the length of the l3_tx channel

\* "timeout": a reply takes longer than the read timeout; "reset": the
\* connection breaks; "refused": connecting fails; "disk": L2Store::put fails.
FailureKinds == {"timeout", "reset", "refused", "disk"}

ASSUME TieredAssumption ==
    /\ Writer \notin Clients
    /\ Capacity \in Nat \ {0} /\ MaxTtl \in Nat \ {0} /\ Promo \in Nat \ {0}
    /\ Ttls \subseteq Nat \ {0}
    /\ Failures \subseteq FailureKinds
    /\ MaxTime \in Nat /\ MaxQueue \in Nat
    /\ MaxFaults \in Nat /\ MaxCalls \in Nat
    /\ None \notin Clients \cup {Writer} \cup Keys

VARIABLES
    now,        \* the clock
    l1,         \* the shard: key -> [val, stored, ttl]
    l2,         \* L2Store: key -> [val, exp]
    l3,         \* the Redis database: key -> [val, exp]
    queue,      \* the l3_tx channel: SET commands
    holder,     \* who holds the mutex of Redis.conn
    conn,       \* the connection: [alive, wire, replies]
    late,       \* SETs left on closed connections, which the server may still
                \*   execute
    pc,         \* where each thread is
    arg,        \* the key each thread works on
    val,        \* the value a thread has found or resolved
    since,      \* when val was read or resolved
    cmd,        \* the command a thread is giving to Redis
    calls,      \* number of lookups and stores so far
    faults,     \* number of failures so far
    delay,      \* history: the longest time a value was on its way to a tier
    timedOut    \* history: a command has timed out

tiers == <<l1, l2, l3>>
redis == <<holder, conn, late>>
locals == <<pc, arg, val, since, cmd>>
bounds == <<calls, faults>>
vars == <<now, tiers, queue, redis, locals, bounds, delay, timedOut>>

Threads == Clients \cup {Writer}

\* An answer: the key it was resolved for and when its DNS TTL ends.
Answers == [key : Keys, exp : Nat]

Sets == [op : {"SET"}, key : Keys, val : Answers, ttl : Nat]
Gets == [op : {"GET"}, key : Keys]

Locations == {"idle", "l2", "promote", "fill", "put_l2", "enqueue",
              "send1", "recv1", "reconnect", "send2", "recv2"}

EmptyMap == [k \in {} |-> None]
Insert(f, k, x) == [i \in DOMAIN f \cup {k} |-> IF i = k THEN x ELSE f[i]]
Without(f, S) == [i \in DOMAIN f \ S |-> f[i]]
Larger(a, b) == IF a >= b THEN a ELSE b
Lesser(a, b) == IF a <= b THEN a ELSE b

NewConn == [alive |-> TRUE, wire |-> <<>>, replies |-> <<>>]

Init ==
    /\ now = 0
    /\ l1 = EmptyMap /\ l2 = EmptyMap /\ l3 = EmptyMap
    /\ queue = <<>>
    /\ holder = None /\ conn = NewConn /\ late = {}
    /\ pc = [t \in Threads |-> "idle"]
    /\ arg = [t \in Threads |-> None]
    /\ val = [t \in Threads |-> None]
    /\ since = [t \in Threads |-> 0]
    /\ cmd = [t \in Threads |-> None]
    /\ calls = 0 /\ faults = 0
    /\ delay = 0 /\ timedOut = FALSE

\* A failure of kind f happens.
Fails(f) ==
    /\ f \in Failures /\ faults < MaxFaults
    /\ faults' = faults + 1

Called == calls < MaxCalls /\ calls' = calls + 1

Goto(t, l) == pc' = [pc EXCEPT ![t] = l]

\* The call returns, the thread's locals are gone.
Return(t) ==
    /\ Goto(t, "idle")
    /\ arg' = [arg EXCEPT ![t] = None]
    /\ val' = [val EXCEPT ![t] = None]
    /\ since' = [since EXCEPT ![t] = 0]
    /\ cmd' = [cmd EXCEPT ![t] = None]

\* A value known since time s is written to a tier now.
Delayed(s) == delay' = Larger(delay, now - s)

-----------------------------------------------------------------------------
\* L1Cache

Fresh1(e) == now < e.stored + e.ttl /\ now < e.stored + MaxTtl

\* What is left when put() has made room: nothing is dropped from a shard that
\* is not full, then the expired entries, then an arbitrary one.
RoomIn(f) ==
    LET kept == [k \in {j \in DOMAIN f : Fresh1(f[j])} |-> f[k]]
    IN  IF Cardinality(DOMAIN f) < Capacity THEN {f}
        ELSE IF Cardinality(DOMAIN kept) < Capacity THEN {kept}
        ELSE {Without(kept, {k}) : k \in DOMAIN kept}

\* Mutant: the shard is not full yet at its limit.
PutL1OffByOne(k, v, ttl) ==
    \E room \in IF Cardinality(DOMAIN l1) <= Capacity THEN {l1}
                ELSE RoomIn(l1) :
        l1' = Insert(room, k, [val |-> v, stored |-> now,
                               ttl |-> Lesser(ttl, MaxTtl)])

\* L1Cache::put with a positive ttl
PutL1(k, v, ttl) ==
    \E room \in RoomIn(l1) :
        l1' = Insert(room, k, [val |-> v, stored |-> now,
                               ttl |-> Lesser(ttl, MaxTtl)])

\* L2Store::put, whose error is ignored
PutL2(k, v, ttl) ==
    \/ l2' = Insert(l2, k, [val |-> v, exp |-> now + ttl]) /\ faults' = faults
    \/ l2' = l2 /\ Fails("disk")

-----------------------------------------------------------------------------
\* TieredCache::get

GetL1Hit(k) == k \in DOMAIN l1 /\ Fresh1(l1[k])

\* L1 first: a hit changes nothing and returns at once; an expired entry is
\* removed, and the thread goes on to L2.
Get(t, k) ==
    /\ pc[t] = "idle" /\ Called
    /\ ~GetL1Hit(k)
    /\ l1' = Without(l1, {k})
    /\ arg' = [arg EXCEPT ![t] = k]
    /\ Goto(t, "l2")
    /\ UNCHANGED <<faults, now, l2, l3, queue, redis, val, since, cmd, delay,
                   timedOut>>

\* L2Store::get finds the key.
InL2(k) == k \in DOMAIN l2 /\ now < l2[k].exp

\* Mutant: a value found in L2 takes the way of one found in Redis.
GetL2Refilled(t) ==
    /\ pc[t] = "l2"
    /\ InL2(arg[t])
    /\ val' = [val EXCEPT ![t] = l2[arg[t]].val]
    /\ since' = [since EXCEPT ![t] = now]
    /\ Goto(t, "fill")
    /\ UNCHANGED <<bounds, now, tiers, queue, redis, arg, cmd, delay,
                   timedOut>>

\* L2 hit: the value is on its way to L1.
GetL2(t) ==
    /\ pc[t] = "l2"
    /\ InL2(arg[t])
    /\ val' = [val EXCEPT ![t] = l2[arg[t]].val]
    /\ since' = [since EXCEPT ![t] = now]
    /\ Goto(t, "promote")
    /\ UNCHANGED <<bounds, now, tiers, queue, redis, arg, cmd, delay,
                   timedOut>>

\* L2 miss: ask Redis.
MissL2(t) ==
    /\ pc[t] = "l2"
    /\ ~InL2(arg[t])
    /\ cmd' = [cmd EXCEPT ![t] = [op |-> "GET", key |-> arg[t]]]
    /\ Goto(t, "send1")
    /\ UNCHANGED <<bounds, now, tiers, queue, redis, arg, val, since, delay,
                   timedOut>>

\* Redis had a value: it is put into L2.
Fill(t) ==
    /\ pc[t] = "fill"
    /\ PutL2(arg[t], val[t], Promo)
    /\ Delayed(since[t])
    /\ Goto(t, "promote")
    /\ UNCHANGED <<calls, now, l1, l3, queue, redis, arg, val, since, cmd,
                   timedOut>>

\* The value is put into L1 and returned.
Promote(t) ==
    /\ pc[t] = "promote"
    /\ PutL1(arg[t], val[t], Promo)
    /\ Delayed(since[t])
    /\ Return(t)
    /\ UNCHANGED <<bounds, now, l2, l3, queue, redis, timedOut>>

-----------------------------------------------------------------------------
\* TieredCache::put, after a recursion: L1, L2, then the queue to Redis

Put(t, k, ttl) ==
    /\ pc[t] = "idle" /\ Called
    /\ PutL1(k, [key |-> k, exp |-> now + ttl], ttl)
    /\ arg' = [arg EXCEPT ![t] = k]
    /\ val' = [val EXCEPT ![t] = [key |-> k, exp |-> now + ttl]]
    /\ since' = [since EXCEPT ![t] = now]
    /\ Goto(t, "put_l2")
    /\ UNCHANGED <<faults, now, l2, l3, queue, redis, cmd, delay, timedOut>>

\* Mutant: the remaining lifetime, which may be over.
RemainingTtl(t) == val[t].exp - now

\* The ttl that put() was called with.
TtlOf(t) == val[t].exp - since[t]

StoreL2(t) ==
    /\ pc[t] = "put_l2"
    /\ PutL2(arg[t], val[t], TtlOf(t))
    /\ Delayed(since[t])
    /\ Goto(t, "enqueue")
    /\ UNCHANGED <<calls, now, l1, l3, queue, redis, arg, val, since, cmd,
                   timedOut>>

Enqueue(t) ==
    /\ pc[t] = "enqueue"
    /\ Len(queue) < MaxQueue
    /\ queue' = Append(queue, [op |-> "SET", key |-> arg[t], val |-> val[t],
                               ttl |-> TtlOf(t)])
    /\ Return(t)
    /\ UNCHANGED <<bounds, now, tiers, redis, delay, timedOut>>

\* The writer thread takes the next entry.
Dequeue ==
    /\ pc[Writer] = "idle" /\ queue # <<>>
    /\ cmd' = [cmd EXCEPT ![Writer] = Head(queue)]
    /\ queue' = Tail(queue)
    /\ Goto(Writer, "send1")
    /\ UNCHANGED <<bounds, now, tiers, redis, arg, val, since, delay, timedOut>>

-----------------------------------------------------------------------------
\* Redis::cmd

\* Mutant: the mutex is not taken.
UnlockedAlways == TRUE

\* The mutex of Redis.conn can be taken.
Unlocked == holder = None

\* cmd_inner takes the mutex and writes the command.
Send(t) ==
    /\ pc[t] \in {"send1", "send2"}
    /\ Unlocked
    /\ holder' = t
    /\ conn' = IF conn.alive THEN [conn EXCEPT !.wire = Append(@, cmd[t])]
               ELSE conn
    /\ Goto(t, IF pc[t] = "send1" THEN "recv1" ELSE "recv2")
    /\ UNCHANGED <<bounds, now, tiers, queue, late, arg, val, since, cmd, delay,
                   timedOut>>

\* get() and set() match on the reply they read: only a value is a hit, and
\* only for a GET.
Accept(t, r) ==
    IF cmd[t].op = "GET" /\ r.kind = "value"
    THEN /\ val' = [val EXCEPT ![t] = r.val]
         /\ since' = [since EXCEPT ![t] = r.at]
         /\ cmd' = [cmd EXCEPT ![t] = None]
         /\ Goto(t, "fill")
         /\ arg' = arg
    ELSE Return(t)

\* read_resp reads the next reply on the connection.
Receive(t) ==
    /\ pc[t] \in {"recv1", "recv2"} /\ holder = t
    /\ conn.alive /\ conn.replies # <<>>
    /\ Accept(t, Head(conn.replies))
    /\ conn' = [conn EXCEPT !.replies = Tail(@)]
    /\ holder' = None
    /\ UNCHANGED <<bounds, now, tiers, queue, late, delay, timedOut>>

\* cmd_inner returns an error and drops the mutex: cmd() goes on to reconnect,
\* or gives up after its second attempt.
GiveUp(t) ==
    /\ holder' = None
    /\ IF pc[t] = "recv1"
       THEN Goto(t, "reconnect") /\ UNCHANGED <<arg, val, since, cmd>>
       ELSE Return(t)

\* Writing or reading fails on a broken connection.
CommandFails(t) ==
    /\ pc[t] \in {"recv1", "recv2"} /\ holder = t
    /\ ~conn.alive
    /\ GiveUp(t)
    /\ UNCHANGED <<bounds, now, tiers, queue, conn, late, delay, timedOut>>

\* The read timeout passes before the reply arrives, which may come later.
CommandTimesOut(t) ==
    /\ pc[t] \in {"recv1", "recv2"} /\ holder = t
    /\ Fails("timeout")
    /\ conn.alive /\ conn.replies = <<>>
    /\ GiveUp(t)
    /\ timedOut' = TRUE
    /\ UNCHANGED <<calls, now, tiers, queue, conn, late, delay>>

\* The commands on a connection that is given up, of which only a SET has an
\* effect: the reply to a GET is lost with the connection.
Orphans == {conn.wire[i] : i \in {j \in 1..Len(conn.wire) :
                                    conn.wire[j].op = "SET"}}

\* reconnect() replaces the connection under the mutex.
Reconnect(t) ==
    /\ pc[t] = "reconnect" /\ Unlocked
    /\ conn' = NewConn
    /\ late' = late \cup Orphans
    /\ Goto(t, "send2")
    /\ UNCHANGED <<bounds, now, tiers, queue, holder, arg, val, since, cmd,
                   delay, timedOut>>

\* Connecting fails: the old connection stays, and is tried again.
ReconnectFails(t) ==
    /\ pc[t] = "reconnect" /\ "refused" \in Failures
    /\ Goto(t, "send2")
    /\ UNCHANGED <<bounds, now, tiers, queue, redis, arg, val, since, cmd,
                   delay, timedOut>>

-----------------------------------------------------------------------------
\* The Redis server and the network (external)

Found3(k) == k \in DOMAIN l3 /\ now < l3[k].exp

\* The server executes command c.
Execute(c) ==
    IF c.op = "SET"
    THEN /\ l3' = Insert(l3, c.key, [val |-> c.val, exp |-> now + c.ttl])
         /\ delay' = Larger(delay, (now + c.ttl) - c.val.exp)
    ELSE UNCHANGED <<l3, delay>>

ReplyTo(c) ==
    IF c.op = "SET" THEN [kind |-> "ok", val |-> None, at |-> now]
    ELSE IF Found3(c.key)
    THEN [kind |-> "value", val |-> l3[c.key].val, at |-> now]
    ELSE [kind |-> "nil", val |-> None, at |-> now]

Serve ==
    /\ conn.alive /\ conn.wire # <<>>
    /\ Execute(Head(conn.wire))
    /\ conn' = [conn EXCEPT !.wire = Tail(@),
                            !.replies = Append(@, ReplyTo(Head(conn.wire)))]
    /\ UNCHANGED <<bounds, now, l1, l2, queue, holder, late, locals, timedOut>>

\* A command that was left on a closed connection is executed or lost.
ServeLate(c) ==
    /\ c \in late
    /\ Execute(c) \/ UNCHANGED <<l3, delay>>
    /\ late' = late \ {c}
    /\ UNCHANGED <<bounds, now, l1, l2, queue, holder, conn, locals, timedOut>>

Reset ==
    /\ Fails("reset") /\ conn.alive
    /\ conn' = [alive |-> FALSE, wire |-> <<>>, replies |-> <<>>]
    /\ late' = late \cup Orphans
    /\ UNCHANGED <<calls, now, tiers, queue, holder, locals, delay, timedOut>>

Tick ==
    /\ now < MaxTime
    /\ now' = now + 1
    /\ UNCHANGED <<bounds, tiers, queue, redis, locals, delay, timedOut>>

\* The steps of a thread that has something to do.
Step(t) ==
    \/ GetL2(t) \/ MissL2(t) \/ Fill(t) \/ Promote(t)
    \/ StoreL2(t) \/ Enqueue(t)
    \/ Send(t) \/ Receive(t) \/ CommandFails(t) \/ CommandTimesOut(t)
    \/ Reconnect(t) \/ ReconnectFails(t)

\* The bound on the calls is reached and every call has returned.
Finished ==
    /\ calls = MaxCalls
    /\ \A t \in Threads : pc[t] = "idle"
    /\ UNCHANGED vars

Next ==
    \/ \E t \in Clients : \E k \in Keys :
        \/ Get(t, k)
        \/ \E ttl \in Ttls : Put(t, k, ttl)
    \/ \E t \in Threads : Step(t)
    \/ Dequeue
    \/ Serve \/ (\E c \in late : ServeLate(c)) \/ Reset
    \/ Tick
    \/ Finished

Spec == Init /\ [][Next]_vars

-----------------------------------------------------------------------------
\* Properties

Replies == [kind : {"ok", "nil"}, val : {None}, at : Nat]
             \cup [kind : {"value"}, val : Answers, at : Nat]

IsMap(f, S) == DOMAIN f \subseteq Keys /\ f \in [DOMAIN f -> S]

\* The type of every variable.
TypeOK ==
    /\ now \in Nat /\ calls \in Nat /\ faults \in Nat
    /\ IsMap(l1, [val : Answers, stored : Nat, ttl : Nat])
    /\ IsMap(l2, [val : Answers, exp : Nat])
    /\ IsMap(l3, [val : Answers, exp : Nat])
    /\ queue \in Seq(Sets)
    /\ holder \in Threads \cup {None}
    /\ conn \in [alive : BOOLEAN, wire : Seq(Sets \cup Gets),
                 replies : Seq(Replies)]
    /\ late \subseteq Sets
    /\ pc \in [Threads -> Locations]
    /\ arg \in [Threads -> Keys \cup {None}]
    /\ val \in [Threads -> Answers \cup {None}]
    /\ since \in [Threads -> Nat]
    /\ cmd \in [Threads -> Sets \cup Gets \cup {None}]
    /\ delay \in Nat /\ timedOut \in BOOLEAN

\* Under concurrent promotions and stores the shard never outgrows its limit.
L1WithinCapacity == Cardinality(DOMAIN l1) <= Capacity

\* Every tier holds, under a key, only answers that were resolved for that key.
EntriesOwnKey ==
    /\ \A k \in DOMAIN l1 : l1[k].val.key = k
    /\ \A k \in DOMAIN l2 : l2[k].val.key = k
    /\ \A k \in DOMAIN l3 : l3[k].val.key = k

\* Broken connections, failed reconnects and commands executed late never put
\* an answer under another key; only a reply that comes after its command's
\* timeout does.
MixedOnlyAfterTimeout == ~timedOut => EntriesOwnKey

\* Promotions do not chain: however often and by however many threads a key is
\* looked up, an answer is served from memory at most two promotions longer than
\* its DNS TTL (one into L2, one into L1, which max_ttl may shorten), plus the
\* time it spent on its way between tiers (three hops).
StalenessBounded ==
    \A k \in DOMAIN l1 :
        Fresh1(l1[k]) =>
            now < l1[k].val.exp + Promo + Lesser(Promo, MaxTtl) + 3 * delay

=============================================================================
