------------------------- MODULE TieredCacheProofs -------------------------
(***************************************************************************)
(* Proofs about TieredCache for any number of threads and keys, any TTLs,   *)
(* and every failure of Redis.                                              *)
(***************************************************************************)
EXTENDS TieredCache, FiniteSetTheorems, TLAPS

\* A SET carries an answer of its own key.
OwnSets == {c \in Sets : c.val.key = c.key}
Commands == OwnSets \cup Gets

AtRedis == {"send1", "recv1", "reconnect", "send2", "recv2"}

\* Commands are well formed wherever they are.
CommandsOK ==
    /\ queue \in Seq(OwnSets) /\ late \subseteq OwnSets
    /\ conn.wire \in Seq(Commands)
    /\ cmd \in [Threads -> Commands \cup {None}]

\* A thread has its key, its value and its command where its code uses them.
LocalsOK == \A t \in Threads :
    /\ pc[t] \in {"l2", "fill", "promote", "put_l2", "enqueue"} =>
         arg[t] \in Keys
    /\ pc[t] \in {"fill", "promote", "put_l2", "enqueue"} => val[t] \in Answers
    /\ pc[t] \in {"put_l2", "enqueue"} =>
         since[t] <= val[t].exp /\ val[t].key = arg[t]
    /\ pc[t] \in AtRedis => cmd[t] \in Commands
    /\ (pc[t] \in AtRedis /\ cmd[t].op = "GET") =>
         arg[t] \in Keys /\ cmd[t].key = arg[t]

TInv == TypeOK /\ CommandsOK /\ LocalsOK

-----------------------------------------------------------------------------
\* Maps

LEMMA InsertMap ==
    ASSUME NEW f, NEW S, NEW k \in Keys, NEW x \in S, IsMap(f, S)
    PROVE  IsMap(Insert(f, k, x), S)
BY DEF IsMap, Insert

LEMMA WithoutMap ==
    ASSUME NEW f, NEW S, NEW R, IsMap(f, S)
    PROVE  IsMap(Without(f, R), S)
BY DEF IsMap, Without

\* Making room only drops entries.
LEMMA RoomIsPart ==
    ASSUME NEW f, NEW S, IsMap(f, S), NEW room \in RoomIn(f)
    PROVE  /\ IsMap(room, S)
           /\ \A k \in DOMAIN room : k \in DOMAIN f /\ room[k] = f[k]
<1> DEFINE kept == [k \in {j \in DOMAIN f : Fresh1(f[j])} |-> f[k]]
<1>1. IsMap(kept, S)
  BY DEF IsMap
<1>2. \A k \in DOMAIN kept : k \in DOMAIN f /\ kept[k] = f[k]
  OBVIOUS
<1>3. room = f \/ room = kept \/ \E k \in DOMAIN kept : room = Without(kept, {k})
  BY DEF RoomIn
<1> HIDE DEF kept
<1>4. CASE room = f
  BY <1>4
<1>5. CASE room = kept
  BY <1>1, <1>2, <1>5
<1>6. CASE \E k \in DOMAIN kept : room = Without(kept, {k})
  BY <1>1, <1>2, <1>6 DEF Without, IsMap
<1> QED
  BY <1>3, <1>4, <1>5, <1>6

L1Entries == [val : Answers, stored : Nat, ttl : Nat]

\* L1Cache::put adds one entry and changes none of the others.
LEMMA PutL1Effect ==
    ASSUME TypeOK, NEW k \in Keys, NEW v \in Answers, NEW ttl \in Nat,
           PutL1(k, v, ttl)
    PROVE  /\ IsMap(l1', L1Entries)
           /\ \A j \in DOMAIN l1' :
                \/ j \in DOMAIN l1 /\ l1'[j] = l1[j]
                \/ /\ j = k /\ l1'[j].val = v
                   /\ l1'[j].stored + l1'[j].ttl <= now + ttl
                   /\ l1'[j].stored + l1'[j].ttl <= now + Lesser(ttl, MaxTtl)
<1> DEFINE e == [val |-> v, stored |-> now, ttl |-> Lesser(ttl, MaxTtl)]
<1>1. /\ e \in L1Entries /\ e.stored + e.ttl <= now + ttl
      /\ e.stored + e.ttl <= now + Lesser(ttl, MaxTtl)
  BY TieredAssumption DEF TypeOK, L1Entries, Lesser
<1>2. PICK room \in RoomIn(l1) : l1' = Insert(room, k, e)
  BY DEF PutL1
<1>3. IsMap(l1, L1Entries)
  BY DEF TypeOK, L1Entries
<1>4. IsMap(room, L1Entries)
      /\ \A j \in DOMAIN room : j \in DOMAIN l1 /\ room[j] = l1[j]
  BY <1>3, RoomIsPart
<1>5. IsMap(l1', L1Entries)
  BY <1>1, <1>2, <1>4, InsertMap
<1> HIDE DEF e
<1>6. \A j \in DOMAIN l1' : IF j = k THEN l1'[j] = e
                            ELSE j \in DOMAIN room /\ l1'[j] = room[j]
  BY <1>2 DEF Insert
<1> QED
  BY <1>1, <1>4, <1>5, <1>6 DEF e

\* So does L2Store::put, or it fails and changes nothing.
LEMMA PutL2Effect ==
    ASSUME TypeOK, NEW k \in Keys, NEW v \in Answers, NEW ttl \in Nat,
           PutL2(k, v, ttl)
    PROVE  /\ IsMap(l2', [val : Answers, exp : Nat]) /\ faults' \in Nat
           /\ \A j \in DOMAIN l2' :
                \/ j \in DOMAIN l2 /\ l2'[j] = l2[j]
                \/ j = k /\ l2'[j].val = v /\ l2'[j].exp = now + ttl
<1> DEFINE e == [val |-> v, exp |-> now + ttl]
<1>1. e \in [val : Answers, exp : Nat] /\ e.val = v /\ e.exp = now + ttl
  BY DEF TypeOK
<1>2. IsMap(l2, [val : Answers, exp : Nat])
  BY DEF TypeOK
<1>3. faults' \in Nat
  BY DEF PutL2, Fails, TypeOK
<1>4. l2' = Insert(l2, k, e) \/ l2' = l2
  BY DEF PutL2
<1> HIDE DEF e
<1>5. CASE l2' = l2
  BY <1>2, <1>3, <1>5
<1>6. CASE l2' = Insert(l2, k, e)
  <2>1. IsMap(l2', [val : Answers, exp : Nat])
    BY <1>1, <1>2, <1>6, InsertMap
  <2>2. \A j \in DOMAIN l2' : IF j = k THEN l2'[j] = e
                              ELSE j \in DOMAIN l2 /\ l2'[j] = l2[j]
    BY <1>6 DEF Insert
  <2> QED
    BY <1>1, <1>3, <2>1, <2>2
<1> QED
  BY <1>4, <1>5, <1>6

-----------------------------------------------------------------------------
\* Types

LEMMA InitTInv == Init => TInv
<1> SUFFICES ASSUME Init PROVE TInv
  OBVIOUS
<1> USE DEF Init, EmptyMap, NewConn
<1>1. timedOut \in BOOLEAN
  BY Zenon
<1>2. conn \in [alive : BOOLEAN, wire : Seq(Sets \cup Gets),
                replies : Seq(Replies)]
  OBVIOUS
<1>3. TypeOK
  BY <1>1, <1>2 DEF TypeOK, IsMap, Locations
<1>4. CommandsOK
  BY DEF CommandsOK
<1>5. LocalsOK
  BY DEF LocalsOK, AtRedis
<1> QED
  BY <1>3, <1>4, <1>5 DEF TInv

LEMMA GetTyped ==
    ASSUME TInv, NEW t \in Clients, NEW k \in Keys, Get(t, k)
    PROVE  TInv'
<1> USE DEF TInv, Get, Goto, Called, Threads, redis
<1>0. IsMap(l1', [val : Answers, stored : Nat, ttl : Nat])
  BY WithoutMap DEF TypeOK
<1>1. TypeOK'
  BY <1>0 DEF TypeOK, Locations
<1>2. CommandsOK'
  BY DEF CommandsOK, TypeOK
<1>3. LocalsOK'
  BY DEF LocalsOK, AtRedis, TypeOK
<1> QED
  BY <1>1, <1>2, <1>3

LEMMA PutTyped ==
    ASSUME TInv, NEW t \in Clients, NEW k \in Keys, NEW ttl \in Ttls,
           Put(t, k, ttl)
    PROVE  TInv'
<1> USE DEF TInv, Put, Goto, Called, Threads, redis
<1>0. /\ ttl \in Nat /\ [key |-> k, exp |-> now + ttl] \in Answers
      /\ IsMap(l1', L1Entries)
  <2>1. ttl \in Nat /\ [key |-> k, exp |-> now + ttl] \in Answers
    BY TieredAssumption DEF TypeOK, Answers
  <2> QED
    BY <2>1, PutL1Effect
<1>1. TypeOK'
  BY <1>0 DEF TypeOK, Locations, L1Entries, Answers
<1>2. CommandsOK'
  BY DEF CommandsOK, TypeOK
<1>3. LocalsOK'
  BY <1>0 DEF LocalsOK, AtRedis, TypeOK, Answers
<1> QED
  BY <1>1, <1>2, <1>3

LEMMA GetL2Typed ==
    ASSUME TInv, NEW t \in Threads, GetL2(t)
    PROVE  TInv'
<1> USE DEF TInv, GetL2, InL2, Goto, tiers, redis, bounds
<1>1. TypeOK'
  BY DEF TypeOK, Locations, IsMap
<1>2. CommandsOK'
  BY DEF CommandsOK, TypeOK
<1>3. LocalsOK'
  BY DEF LocalsOK, AtRedis, TypeOK, IsMap
<1> QED
  BY <1>1, <1>2, <1>3

LEMMA MissL2Typed ==
    ASSUME TInv, NEW t \in Threads, MissL2(t)
    PROVE  TInv'
<1> USE DEF TInv, MissL2, Goto, tiers, redis, bounds
<1>1. TypeOK'
  BY DEF TypeOK, Locations, LocalsOK, Gets
<1>2. CommandsOK'
  BY DEF CommandsOK, TypeOK, LocalsOK, Commands, Gets
<1>3. LocalsOK'
  BY DEF LocalsOK, AtRedis, TypeOK, Gets, Commands
<1> QED
  BY <1>1, <1>2, <1>3

LEMMA FillTyped ==
    ASSUME TInv, NEW t \in Threads, Fill(t)
    PROVE  TInv'
<1> USE DEF TInv, Fill, Delayed, Goto, redis
<1>0. IsMap(l2', [val : Answers, exp : Nat]) /\ faults' \in Nat
  BY PutL2Effect, TieredAssumption DEF LocalsOK
<1>1. TypeOK'
  BY <1>0 DEF TypeOK, Locations, Larger
<1>2. CommandsOK'
  BY DEF CommandsOK, TypeOK
<1>3. LocalsOK'
  BY DEF LocalsOK, AtRedis, TypeOK
<1> QED
  BY <1>1, <1>2, <1>3

LEMMA PromoteTyped ==
    ASSUME TInv, NEW t \in Threads, Promote(t)
    PROVE  TInv'
<1> USE DEF TInv, Promote, Return, Delayed, Goto, redis, bounds
<1>0. IsMap(l1', L1Entries)
  BY PutL1Effect, TieredAssumption DEF LocalsOK
<1>1. TypeOK'
  BY <1>0 DEF TypeOK, Locations, Larger, L1Entries
<1>2. CommandsOK'
  BY DEF CommandsOK, TypeOK
<1>3. LocalsOK'
  BY DEF LocalsOK, AtRedis, TypeOK
<1> QED
  BY <1>1, <1>2, <1>3

LEMMA StoreL2Typed ==
    ASSUME TInv, NEW t \in Threads, StoreL2(t)
    PROVE  TInv'
<1> USE DEF TInv, StoreL2, Delayed, Goto, redis
<1>0. IsMap(l2', [val : Answers, exp : Nat]) /\ faults' \in Nat
  <2>1. TtlOf(t) \in Nat
    BY DEF LocalsOK, TypeOK, TtlOf, Answers
  <2> QED
    BY <2>1, PutL2Effect DEF LocalsOK
<1>1. TypeOK'
  BY <1>0 DEF TypeOK, Locations, Larger
<1>2. CommandsOK'
  BY DEF CommandsOK, TypeOK
<1>3. LocalsOK'
  BY DEF LocalsOK, AtRedis, TypeOK
<1> QED
  BY <1>1, <1>2, <1>3

LEMMA EnqueueTyped ==
    ASSUME TInv, NEW t \in Threads, Enqueue(t)
    PROVE  TInv'
<1> USE DEF TInv, Enqueue, Return, Goto, tiers, redis, bounds
<1>0. [op |-> "SET", key |-> arg[t], val |-> val[t], ttl |-> TtlOf(t)]
        \in OwnSets
  BY DEF LocalsOK, TypeOK, TtlOf, Answers, OwnSets, Sets
<1>1. TypeOK'
  BY <1>0 DEF TypeOK, Locations, OwnSets
<1>2. CommandsOK'
  BY <1>0 DEF CommandsOK, TypeOK
<1>3. LocalsOK'
  BY DEF LocalsOK, AtRedis, TypeOK
<1> QED
  BY <1>1, <1>2, <1>3

LEMMA DequeueTyped ==
    ASSUME TInv, Dequeue
    PROVE  TInv'
<1> USE DEF TInv, Dequeue, Threads, Goto, tiers, redis, bounds
<1>1. TypeOK'
  BY DEF TypeOK, Locations, CommandsOK, OwnSets
<1>2. CommandsOK'
  BY DEF CommandsOK, TypeOK, Commands
<1>3. LocalsOK'
  BY DEF LocalsOK, AtRedis, TypeOK, Commands, CommandsOK, OwnSets, Sets
<1> QED
  BY <1>1, <1>2, <1>3

ConnType == [alive : BOOLEAN, wire : Seq(Sets \cup Gets), replies : Seq(Replies)]

\* Updating the two directions of a connection.
LEMMA ConnWire ==
    ASSUME NEW c \in ConnType, NEW w \in Seq(Sets \cup Gets)
    PROVE  LET d == [c EXCEPT !.wire = w]
           IN  d \in ConnType /\ d.wire = w /\ d.replies = c.replies
               /\ d.alive = c.alive
BY DEF ConnType

LEMMA ConnReplies ==
    ASSUME NEW c \in ConnType, NEW r \in Seq(Replies)
    PROVE  LET d == [c EXCEPT !.replies = r]
           IN  d \in ConnType /\ d.wire = c.wire /\ d.replies = r
               /\ d.alive = c.alive
BY DEF ConnType

LEMMA SendTyped ==
    ASSUME TInv, NEW t \in Threads, Send(t)
    PROVE  TInv'
<1> USE DEF TInv, Send, Goto, tiers, bounds
<1>1. conn' \in ConnType /\ conn'.wire \in Seq(Commands)
  <2>1. cmd[t] \in Commands /\ cmd[t] \in Sets \cup Gets
    BY DEF LocalsOK, AtRedis, Commands, OwnSets
  <2>2. conn \in ConnType /\ conn.wire \in Seq(Commands)
        /\ conn.wire \in Seq(Sets \cup Gets)
    BY DEF TypeOK, CommandsOK, ConnType
  <2>3. Append(conn.wire, cmd[t]) \in Seq(Commands)
        /\ Append(conn.wire, cmd[t]) \in Seq(Sets \cup Gets)
    BY <2>1, <2>2
  <2>4. CASE conn.alive
    <3> DEFINE w == Append(conn.wire, cmd[t])
               d == [conn EXCEPT !.wire = w]
    <3>1. conn' = d
      BY <2>4
    <3> HIDE DEF w, TInv, Send, Goto, tiers, bounds
    <3>2. w \in Seq(Commands) /\ w \in Seq(Sets \cup Gets)
      BY <2>3 DEF w
    <3>3. d \in ConnType /\ d.wire = w
      BY <2>2, <3>2, ConnWire
    <3> HIDE DEF d
    <3> QED
      BY <3>1, <3>2, <3>3
  <2>5. CASE ~conn.alive
    BY <2>2, <2>5
  <2> QED
    BY <2>4, <2>5
<1>2. TypeOK'
  BY <1>1 DEF TypeOK, Locations, ConnType
<1>3. CommandsOK'
  BY <1>1 DEF CommandsOK, TypeOK
<1>4. LocalsOK'
  BY DEF LocalsOK, AtRedis, TypeOK
<1> QED
  BY <1>2, <1>3, <1>4

LocalsTyped ==
    /\ pc \in [Threads -> Locations]
    /\ arg \in [Threads -> Keys \cup {None}]
    /\ val \in [Threads -> Answers \cup {None}]
    /\ since \in [Threads -> Nat]
    /\ cmd \in [Threads -> Sets \cup Gets \cup {None}]
    /\ cmd \in [Threads -> Commands \cup {None}]

\* A thread that returns leaves the others alone.
LEMMA ReturnEffect ==
    ASSUME TInv, NEW t \in Threads, Return(t)
    PROVE  LocalsTyped' /\ LocalsOK'
<1>1. LocalsTyped'
  BY DEF TInv, TypeOK, CommandsOK, LocalsTyped, Return, Goto, Locations
<1>2. LocalsOK'
  BY DEF TInv, TypeOK, LocalsOK, AtRedis, Return, Goto
<1> QED
  BY <1>1, <1>2

\* The next reply is taken off the connection.
LEMMA ReceiveEffect ==
    ASSUME TypeOK, NEW t \in Threads, Receive(t)
    PROVE  /\ conn' \in ConnType /\ conn'.wire = conn.wire
           /\ conn'.replies = Tail(conn.replies) /\ conn'.alive = conn.alive
           /\ Head(conn.replies) \in Replies
<1>1. conn \in ConnType /\ conn.replies \in Seq(Replies) /\ conn.replies # <<>>
  BY DEF TypeOK, ConnType, Receive
<1>2. Tail(conn.replies) \in Seq(Replies) /\ Head(conn.replies) \in Replies
  BY <1>1
<1>3. conn' = [conn EXCEPT !.replies = Tail(conn.replies)]
  BY DEF Receive
<1> QED
  BY <1>1, <1>2, <1>3, ConnReplies

LEMMA ReceiveTyped ==
    ASSUME TInv, NEW t \in Threads, Receive(t)
    PROVE  TInv'
<1> DEFINE r == Head(conn.replies)
<1>1. /\ conn' \in ConnType /\ conn'.wire = conn.wire /\ r \in Replies
  BY ReceiveEffect DEF TInv
<1>2. r.kind = "value" => r.val \in Answers /\ r.at \in Nat
  BY <1>1 DEF Replies
<1>3. Accept(t, r)
  BY DEF Receive
<1> HIDE DEF r
<1>4. /\ UNCHANGED <<now, tiers, queue, late, bounds, delay, timedOut>>
      /\ holder' = None
  BY DEF Receive
<1>5. LocalsTyped' /\ LocalsOK'
  <2>1. CASE cmd[t].op = "GET" /\ r.kind = "value"
    <3>1. arg[t] \in Keys
      BY <2>1 DEF TInv, LocalsOK, AtRedis, Receive
    <3>2. /\ val' = [val EXCEPT ![t] = r.val]
          /\ since' = [since EXCEPT ![t] = r.at]
          /\ cmd' = [cmd EXCEPT ![t] = None]
          /\ pc' = [pc EXCEPT ![t] = "fill"]
          /\ arg' = arg
      BY <1>3, <2>1 DEF Accept, Goto
    <3>3. LocalsTyped'
      BY <1>2, <2>1, <3>2
         DEF TInv, TypeOK, CommandsOK, LocalsTyped, Locations
    <3>4. LocalsOK'
      BY <1>2, <2>1, <3>1, <3>2 DEF TInv, TypeOK, LocalsOK, AtRedis
    <3> QED
      BY <3>3, <3>4
  <2>2. CASE ~(cmd[t].op = "GET" /\ r.kind = "value")
    BY <1>3, <2>2, ReturnEffect DEF Accept
  <2> QED
    BY <2>1, <2>2
<1>6. TypeOK'
  BY <1>1, <1>4, <1>5 DEF TInv, TypeOK, LocalsTyped, ConnType, tiers, bounds
<1>7. CommandsOK'
  BY <1>1, <1>4, <1>5 DEF TInv, CommandsOK, LocalsTyped
<1> QED
  BY <1>5, <1>6, <1>7 DEF TInv

LEMMA GiveUpTyped ==
    ASSUME TInv, NEW t \in Threads, CommandFails(t) \/ CommandTimesOut(t)
    PROVE  TInv'
<1>1. /\ GiveUp(t) /\ pc[t] \in {"recv1", "recv2"}
      /\ UNCHANGED <<now, tiers, queue, conn, late, calls, delay>>
  BY DEF CommandFails, CommandTimesOut, bounds
<1>2. timedOut' \in BOOLEAN
  BY Zenon DEF CommandFails, CommandTimesOut, TInv, TypeOK
<1>3. faults' \in Nat
  BY DEF CommandFails, CommandTimesOut, Fails, bounds, TInv, TypeOK
<1>4. LocalsTyped' /\ LocalsOK' /\ holder' = None
  <2>1. CASE pc[t] = "recv1"
    <3>1. pc' = [pc EXCEPT ![t] = "reconnect"] /\ UNCHANGED <<arg, val, since, cmd>>
          /\ holder' = None
      BY <1>1, <2>1 DEF GiveUp, Goto
    <3>2. LocalsTyped'
      BY <3>1 DEF TInv, TypeOK, CommandsOK, LocalsTyped, Locations
    <3>3. LocalsOK'
      BY <2>1, <3>1 DEF TInv, TypeOK, LocalsOK, AtRedis
    <3> QED
      BY <3>1, <3>2, <3>3
  <2>2. CASE pc[t] # "recv1"
    BY <1>1, <2>2, ReturnEffect DEF GiveUp
  <2> QED
    BY <2>1, <2>2
<1>5. TypeOK'
  BY <1>1, <1>2, <1>3, <1>4 DEF TInv, TypeOK, LocalsTyped, tiers
<1>6. CommandsOK'
  BY <1>1, <1>4 DEF TInv, CommandsOK, LocalsTyped
<1> QED
  BY <1>4, <1>5, <1>6 DEF TInv

LEMMA ReconnectTyped ==
    ASSUME TInv, NEW t \in Threads, Reconnect(t)
    PROVE  TInv'
<1> USE DEF TInv, Reconnect, NewConn, Goto, tiers, bounds
<1>0. late' \subseteq OwnSets /\ conn' \in ConnType /\ conn'.wire = <<>>
  <2>1. Orphans \subseteq OwnSets
    BY DEF Orphans, CommandsOK, Commands, Gets
  <2> QED
    BY <2>1 DEF CommandsOK, ConnType
<1>1. TypeOK'
  BY <1>0 DEF TypeOK, Locations, ConnType, OwnSets
<1>2. CommandsOK'
  BY <1>0 DEF CommandsOK, TypeOK
<1>3. LocalsOK'
  BY DEF LocalsOK, AtRedis, TypeOK
<1> QED
  BY <1>1, <1>2, <1>3

LEMMA ReconnectFailsTyped ==
    ASSUME TInv, NEW t \in Threads, ReconnectFails(t)
    PROVE  TInv'
<1> USE DEF TInv, ReconnectFails, Goto, tiers, redis, bounds
<1>1. TypeOK'
  BY DEF TypeOK, Locations
<1>2. CommandsOK'
  BY DEF CommandsOK, TypeOK
<1>3. LocalsOK'
  BY DEF LocalsOK, AtRedis, TypeOK
<1> QED
  BY <1>1, <1>2, <1>3

L3Entries == [val : Answers, exp : Nat]

\* The server stores what the command says, and nothing else.
LEMMA ExecuteEffect ==
    ASSUME TypeOK, NEW c \in Commands, Execute(c)
    PROVE  /\ IsMap(l3', L3Entries) /\ delay' \in Nat /\ delay' >= delay
           /\ \A j \in DOMAIN l3' :
                \/ j \in DOMAIN l3 /\ l3'[j] = l3[j]
                \/ /\ j = c.key /\ l3'[j].val = c.val /\ c \in OwnSets
                   /\ l3'[j].exp <= c.val.exp + delay'
<1>0. IsMap(l3, L3Entries) /\ delay \in Nat /\ now \in Nat
  BY DEF TypeOK, L3Entries
<1>1. CASE c.op # "SET"
  BY <1>0, <1>1 DEF Execute
<1>2. CASE c.op = "SET"
  <2> DEFINE e == [val |-> c.val, exp |-> now + c.ttl]
  <2>1. c \in OwnSets /\ c \in Sets
    BY <1>2 DEF Commands, OwnSets, Gets
  <2>2. e \in L3Entries /\ c.key \in Keys /\ c.val.exp \in Nat /\ c.ttl \in Nat
    BY <1>0, <2>1 DEF Sets, Answers, L3Entries
  <2>3. l3' = Insert(l3, c.key, e)
        /\ delay' = Larger(delay, (now + c.ttl) - c.val.exp)
    BY <1>2 DEF Execute
  <2>4. IsMap(l3', L3Entries)
    BY <1>0, <2>2, <2>3, InsertMap
  <2>5. delay' \in Nat /\ delay' >= delay /\ now + c.ttl <= c.val.exp + delay'
    BY <1>0, <2>2, <2>3 DEF Larger
  <2>6. \A j \in DOMAIN l3' : IF j = c.key THEN l3'[j] = e
                              ELSE j \in DOMAIN l3 /\ l3'[j] = l3[j]
    BY <2>3 DEF Insert
  <2> QED
    BY <2>1, <2>4, <2>5, <2>6
<1> QED
  BY <1>1, <1>2

\* Its reply to a GET is a live entry of that key.
LEMMA ReplyEffect ==
    ASSUME TypeOK, NEW c \in Commands
    PROVE  LET r == ReplyTo(c)
           IN  /\ r \in Replies /\ r.at = now
               /\ r.kind = "value" =>
                    /\ c.key \in DOMAIN l3 /\ r.val = l3[c.key].val
                    /\ now < l3[c.key].exp
BY DEF ReplyTo, Found3, TypeOK, IsMap, Replies

\* What the server and the network do to the connection.
LEMMA ServerTyped ==
    ASSUME TInv, Serve \/ (\E c \in late : ServeLate(c)) \/ Reset
    PROVE  TInv'
<1>1. IsMap(l3', L3Entries) /\ delay' \in Nat /\ faults' \in Nat
  <2>0. IsMap(l3, L3Entries) /\ delay \in Nat /\ faults \in Nat
    BY DEF TInv, TypeOK, L3Entries
  <2>1. CASE Serve
    <3>1. Head(conn.wire) \in Commands
      BY <2>1 DEF Serve, TInv, CommandsOK
    <3> QED
      BY <2>0, <2>1, <3>1, ExecuteEffect DEF Serve, TInv, bounds
  <2>2. ASSUME NEW c \in late, ServeLate(c) PROVE <1>1!:
    <3>1. c \in Commands
      BY DEF TInv, CommandsOK, Commands
    <3> QED
      BY <2>0, <2>2, <3>1, ExecuteEffect DEF ServeLate, TInv, bounds
  <2>3. CASE Reset
    BY <2>0, <2>3 DEF Reset, Fails, tiers
  <2> QED
    BY <2>1, <2>2, <2>3
<1>2. late' \subseteq OwnSets
  <2>1. Orphans \subseteq OwnSets /\ late \subseteq OwnSets
    BY DEF Orphans, TInv, CommandsOK, Commands, Gets
  <2> QED
    BY <2>1 DEF Serve, ServeLate, Reset
<1>3. conn' \in ConnType /\ conn'.wire \in Seq(Commands)
  <2>0. conn \in ConnType /\ conn.wire \in Seq(Commands)
    BY DEF TInv, TypeOK, CommandsOK, ConnType
  <2>1. CASE Serve
    <3>1. Head(conn.wire) \in Commands /\ Tail(conn.wire) \in Seq(Commands)
          /\ Tail(conn.wire) \in Seq(Sets \cup Gets)
      BY <2>0, <2>1 DEF Serve, ConnType
    <3> DEFINE w == Tail(conn.wire)
               q == Append(conn.replies, ReplyTo(Head(conn.wire)))
    <3>2. q \in Seq(Replies)
      <4>1. ReplyTo(Head(conn.wire)) \in Replies
        BY <3>1, ReplyEffect DEF TInv
      <4> QED
        BY <2>0, <4>1 DEF ConnType
    <3>3. conn' = [[conn EXCEPT !.wire = w] EXCEPT !.replies = q]
      BY <2>0, <2>1 DEF Serve, ConnType
    <3>4. [conn EXCEPT !.wire = w] \in ConnType
          /\ [conn EXCEPT !.wire = w].wire = w
      BY <2>0, <3>1, ConnWire
    <3> HIDE DEF w, q
    <3>5. conn' \in ConnType /\ conn'.wire = w
      BY <3>2, <3>3, <3>4, ConnReplies
    <3> QED
      BY <3>1, <3>5 DEF w
  <2>2. CASE \E c \in late : ServeLate(c)
    BY <2>0, <2>2 DEF ServeLate
  <2>3. CASE Reset
    BY <2>3 DEF Reset, ConnType
  <2> QED
    BY <2>1, <2>2, <2>3
<1>4. UNCHANGED <<now, l1, l2, queue, holder, locals, calls, timedOut>>
  BY DEF Serve, ServeLate, Reset, bounds, tiers
<1>5. TypeOK'
  BY <1>1, <1>2, <1>3, <1>4
     DEF TInv, TypeOK, L3Entries, ConnType, OwnSets, locals
<1>6. CommandsOK'
  BY <1>2, <1>3, <1>4 DEF TInv, CommandsOK, locals
<1>7. LocalsOK'
  BY <1>4 DEF TInv, LocalsOK, locals
<1> QED
  BY <1>5, <1>6, <1>7 DEF TInv

LEMMA TickTyped ==
    ASSUME TInv, Tick
    PROVE  TInv'
<1> USE DEF TInv, Tick, locals, tiers, redis, bounds
<1>1. TypeOK'
  BY DEF TypeOK
<1>2. CommandsOK'
  BY DEF CommandsOK, TypeOK
<1>3. LocalsOK'
  BY DEF LocalsOK, AtRedis, TypeOK
<1> QED
  BY <1>1, <1>2, <1>3

\* The steps of one thread.
LEMMA NextCases ==
    ASSUME [Next]_vars
    PROVE  \/ \E t \in Clients, k \in Keys : Get(t, k)
           \/ \E t \in Clients, k \in Keys, ttl \in Ttls : Put(t, k, ttl)
           \/ \E t \in Threads :
                \/ GetL2(t) \/ MissL2(t) \/ Fill(t) \/ Promote(t) \/ StoreL2(t)
                \/ Enqueue(t) \/ Send(t) \/ Receive(t)
                \/ (CommandFails(t) \/ CommandTimesOut(t))
                \/ Reconnect(t) \/ ReconnectFails(t)
           \/ Dequeue
           \/ (Serve \/ (\E c \in late : ServeLate(c)) \/ Reset)
           \/ Tick
           \/ UNCHANGED vars
BY DEF Next, Step, Finished

LEMMA NextTInv == TInv /\ [Next]_vars => TInv'
<1> SUFFICES ASSUME TInv, [Next]_vars PROVE TInv'
  OBVIOUS
<1>1. CASE UNCHANGED vars
  BY <1>1 DEF vars, TInv, TypeOK, CommandsOK, LocalsOK, tiers, redis, locals,
              bounds
<1> QED
  BY <1>1, NextCases, GetTyped, PutTyped, GetL2Typed, MissL2Typed, FillTyped,
     PromoteTyped, StoreL2Typed, EnqueueTyped, DequeueTyped, SendTyped,
     ReceiveTyped, GiveUpTyped, ReconnectTyped, ReconnectFailsTyped,
     ServerTyped, TickTyped

\* Every variable keeps its type.
THEOREM TypeCorrect == Spec => []TypeOK
<1>1. TInv => TypeOK
  BY DEF TInv
<1> QED
  BY <1>1, InitTInv, NextTInv, PTL DEF Spec

-----------------------------------------------------------------------------
\* Bounded staleness: how long after its DNS TTL each tier, each reply and each
\* thread may still hold an answer.

\* How long a promoted entry stays in L1.
Promo1 == Lesser(Promo, MaxTtl)

Limit1(x, d) == x + Promo + Promo1 + 3 * d
Limit2(x, d) == x + Promo + 2 * d

L1Stale == \A k \in DOMAIN l1 : l1[k].stored + l1[k].ttl <=
        Limit1(l1[k].val.exp, delay)
L2Stale == \A k \in DOMAIN l2 : l2[k].exp <= Limit2(l2[k].val.exp, delay)
L3Stale == \A k \in DOMAIN l3 : l3[k].exp <= l3[k].val.exp + delay
RepliesStale == \A i \in 1..Len(conn.replies) :
    conn.replies[i].kind = "value" =>
        conn.replies[i].at < conn.replies[i].val.exp + delay
ValsStale == \A t \in Threads :
    /\ pc[t] = "fill" => since[t] < val[t].exp + delay
    /\ pc[t] = "promote" => since[t] < Limit2(val[t].exp, delay)

SInv == L1Stale /\ L2Stale /\ L3Stale /\ RepliesStale /\ ValsStale

LEMMA Promo1Natural == Promo1 \in Nat
BY TieredAssumption DEF Promo1, Lesser

\* What is within a limit stays within it when the delay grows.
LEMMA LimitsGrow ==
    ASSUME NEW x \in Nat, NEW d \in Nat, NEW e \in Nat, e >= d, NEW y \in Nat
    PROVE  /\ y <= Limit1(x, d) => y <= Limit1(x, e)
           /\ y <= Limit2(x, d) => y <= Limit2(x, e)
           /\ y < Limit2(x, d) => y < Limit2(x, e)
BY TieredAssumption, Promo1Natural DEF Limit1, Limit2

\* A value known since time s is written at time n, with a delay of at most e.
LEMMA Hops ==
    ASSUME NEW x \in Nat, NEW d \in Nat, NEW e \in Nat, e >= d,
           NEW s \in Nat, NEW n \in Nat, n - s <= e
    PROVE  /\ s < x + d => n + Promo <= Limit2(x, e) /\ s < Limit2(x, e)
           /\ s < Limit2(x, d) => n + Promo1 <= Limit1(x, e)
           /\ n + (x - s) <= Limit2(x, e)
BY TieredAssumption, Promo1Natural DEF Limit1, Limit2

\* The numbers in the bounds are naturals.
LEMMA StaleNumbers ==
    ASSUME TInv
    PROVE  /\ Promo \in Nat /\ delay \in Nat /\ now \in Nat
           /\ \A k \in DOMAIN l1 : /\ l1[k].val.exp \in Nat
                                   /\ l1[k].stored \in Nat /\ l1[k].ttl \in Nat
           /\ \A k \in DOMAIN l2 : l2[k].val.exp \in Nat /\ l2[k].exp \in Nat
           /\ \A k \in DOMAIN l3 : l3[k].val.exp \in Nat /\ l3[k].exp \in Nat
           /\ \A i \in 1..Len(conn.replies) :
                /\ conn.replies[i] \in Replies
                /\ conn.replies[i].kind = "value" =>
                     conn.replies[i].val.exp \in Nat /\ conn.replies[i].at \in Nat
           /\ \A t \in Threads :
                /\ since[t] \in Nat
                /\ pc[t] \in {"fill", "promote", "put_l2", "enqueue"} =>
                     val[t] \in Answers /\ val[t].exp \in Nat
<1> USE DEF TInv, TypeOK, Answers
<1>1. Promo \in Nat
  BY TieredAssumption
<1>2. \A k \in DOMAIN l1 : l1[k] \in [val : Answers, stored : Nat, ttl : Nat]
  BY DEF IsMap
<1>3. \A k \in DOMAIN l2 : l2[k] \in [val : Answers, exp : Nat]
  BY DEF IsMap
<1>4. \A k \in DOMAIN l3 : l3[k] \in [val : Answers, exp : Nat]
  BY DEF IsMap
<1>5. \A i \in 1..Len(conn.replies) : conn.replies[i] \in Replies
  OBVIOUS
<1>6. \A t \in Threads :
        /\ since[t] \in Nat
        /\ pc[t] \in {"fill", "promote", "put_l2", "enqueue"} =>
             val[t] \in Answers
  BY DEF LocalsOK
<1> QED
  BY <1>1, <1>2, <1>3, <1>4, <1>5, <1>6 DEF Replies

\* The recorded delay never shrinks.
LEMMA DelayGrows ==
    ASSUME TInv, [Next]_vars
    PROVE  delay' \in Nat /\ delay' >= delay
<1>1. CASE UNCHANGED delay
  BY <1>1, StaleNumbers
<1>2. ASSUME NEW t \in Threads, Delayed(since[t]) PROVE delay' >= delay
  BY <1>2, StaleNumbers DEF Delayed, Larger
<1>3. CASE Serve
  <2>1. Head(conn.wire) \in Commands
    BY <1>3 DEF Serve, TInv, CommandsOK
  <2> QED
    BY <1>3, <2>1, ExecuteEffect DEF Serve, TInv
<1>4. ASSUME NEW c \in late, Execute(c) PROVE delay' >= delay
  <2>1. c \in Commands
    BY DEF TInv, CommandsOK, Commands
  <2> QED
    BY <1>4, <2>1, ExecuteEffect DEF TInv
<1>5. delay' \in Nat
  BY NextTInv, StaleNumbers DEF TInv, TypeOK
<1>6. \/ UNCHANGED delay \/ Serve
      \/ \E t \in Threads : Delayed(since[t])
      \/ \E c \in late : Execute(c)
  BY NextCases DEF Get, Put, GetL2, MissL2, Fill, Promote, StoreL2, Enqueue,
     Send, Receive, CommandFails, CommandTimesOut, Reconnect, ReconnectFails,
     Dequeue, ServeLate, Reset, Tick, vars
<1> QED
  BY <1>1, <1>2, <1>3, <1>4, <1>5, <1>6

\* A longer delay only loosens the bounds.
LEMMA StaleMonotone ==
    ASSUME TInv, SInv, NEW e \in Nat, e >= delay
    PROVE  /\ \A k \in DOMAIN l1 :
                l1[k].stored + l1[k].ttl <= Limit1(l1[k].val.exp, e)
           /\ \A k \in DOMAIN l2 : l2[k].exp <= Limit2(l2[k].val.exp, e)
           /\ \A k \in DOMAIN l3 : l3[k].exp <= l3[k].val.exp + e
           /\ \A i \in 1..Len(conn.replies) :
                conn.replies[i].kind = "value" =>
                    conn.replies[i].at < conn.replies[i].val.exp + e
           /\ \A t \in Threads :
                /\ pc[t] = "fill" => since[t] < val[t].exp + e
                /\ pc[t] = "promote" => since[t] < Limit2(val[t].exp, e)
<1> USE StaleNumbers DEF SInv
<1>1. ASSUME NEW k \in DOMAIN l1
      PROVE  l1[k].stored + l1[k].ttl <= Limit1(l1[k].val.exp, e)
  <2>1. l1[k].stored + l1[k].ttl \in Nat
    OBVIOUS
  <2>2. l1[k].stored + l1[k].ttl <= Limit1(l1[k].val.exp, delay)
    BY DEF L1Stale
  <2> QED
    BY <2>1, <2>2, LimitsGrow
<1>2. ASSUME NEW k \in DOMAIN l2
      PROVE  l2[k].exp <= Limit2(l2[k].val.exp, e)
  BY LimitsGrow DEF L2Stale
<1>3. \A k \in DOMAIN l3 : l3[k].exp <= l3[k].val.exp + e
  BY DEF L3Stale
<1>4. \A i \in 1..Len(conn.replies) :
        conn.replies[i].kind = "value" =>
            conn.replies[i].at < conn.replies[i].val.exp + e
  BY DEF RepliesStale
<1>5. ASSUME NEW t \in Threads, pc[t] = "fill"
      PROVE  since[t] < val[t].exp + e
  BY <1>5 DEF ValsStale
<1>6. ASSUME NEW t \in Threads, pc[t] = "promote"
      PROVE  since[t] < Limit2(val[t].exp, e)
  BY <1>6, LimitsGrow DEF ValsStale
<1> QED
  BY <1>1, <1>2, <1>3, <1>4, <1>5, <1>6

LEMMA NextL1Stale ==
    ASSUME TInv, SInv, [Next]_vars
    PROVE  L1Stale'
<1>0. delay' \in Nat /\ delay' >= delay
  BY DelayGrows
<1> DEFINE Within(x) == x.stored + x.ttl <= Limit1(x.val.exp, delay')
<1>00. /\ \A k \in DOMAIN l1 : Within(l1[k])
       /\ (\A k \in DOMAIN l1' : Within(l1'[k])) => L1Stale'
  BY <1>0, StaleMonotone DEF L1Stale
<1> HIDE DEF Within
<1>1. CASE UNCHANGED l1
  BY <1>00, <1>1
<1>2. ASSUME NEW t \in Clients, NEW k \in Keys, Get(t, k) PROVE L1Stale'
  BY <1>00, <1>2 DEF Get, Without
<1>3. ASSUME NEW t \in Clients, NEW k \in Keys, NEW ttl \in Ttls, Put(t, k, ttl)
      PROVE  L1Stale'
  <2> DEFINE v == [key |-> k, exp |-> now + ttl]
  <2>1. ttl \in Nat /\ v \in Answers /\ v.exp = now + ttl /\ delay' = delay
    BY <1>3, TieredAssumption, StaleNumbers DEF Put, Answers
  <2>2. PutL1(k, v, ttl)
    BY <1>3 DEF Put
  <2> HIDE DEF v
  <2>3. \A j \in DOMAIN l1' :
          \/ j \in DOMAIN l1 /\ l1'[j] = l1[j]
          \/ l1'[j].val = v /\ l1'[j].stored + l1'[j].ttl <= now + ttl
    BY <2>1, <2>2, PutL1Effect DEF TInv
  <2>4. IsMap(l1', L1Entries)
    BY <2>1, <2>2, PutL1Effect DEF TInv
  <2>5. \A j \in DOMAIN l1' : l1'[j].stored \in Nat /\ l1'[j].ttl \in Nat
    BY <2>4 DEF IsMap, L1Entries
  <2>6. now + ttl <= Limit1(v.exp, delay') /\ Limit1(v.exp, delay') \in Nat
    BY <2>1, StaleNumbers, TieredAssumption, Promo1Natural DEF Limit1
  <2>7. ASSUME NEW j \in DOMAIN l1', l1'[j].val = v,
               l1'[j].stored + l1'[j].ttl <= now + ttl
        PROVE  Within(l1'[j])
    BY <2>1, <2>5, <2>6, <2>7, StaleNumbers DEF Within
  <2> QED
    BY <1>00, <2>3, <2>7
<1>4. ASSUME NEW t \in Threads, Promote(t) PROVE L1Stale'
  <2>1. arg[t] \in Keys /\ val[t] \in Answers /\ val[t].exp \in Nat
        /\ since[t] \in Nat /\ Promo \in Nat /\ pc[t] = "promote"
    BY <1>4, StaleNumbers DEF Promote, TInv, LocalsOK
  <2>2. since[t] < Limit2(val[t].exp, delay) /\ now - since[t] <= delay'
    BY <1>4, <2>1, StaleNumbers DEF Promote, Delayed, Larger, SInv, ValsStale
  <2>3. now + Promo1 <= Limit1(val[t].exp, delay')
        /\ Limit1(val[t].exp, delay') \in Nat
    <3>1. now + Promo1 <= Limit1(val[t].exp, delay')
      BY <1>0, <2>1, <2>2, StaleNumbers, Hops
    <3>2. Limit1(val[t].exp, delay') \in Nat
      BY <1>0, <2>1, Promo1Natural DEF Limit1
    <3> QED
      BY <3>1, <3>2
  <2>4. PutL1(arg[t], val[t], Promo)
    BY <1>4 DEF Promote
  <2>5. \A j \in DOMAIN l1' :
          \/ j \in DOMAIN l1 /\ l1'[j] = l1[j]
          \/ l1'[j].val = val[t] /\ l1'[j].stored + l1'[j].ttl <= now + Promo1
    BY <2>1, <2>4, PutL1Effect DEF TInv, Promo1
  <2>6. IsMap(l1', L1Entries)
    BY <2>1, <2>4, PutL1Effect DEF TInv
  <2>7. \A j \in DOMAIN l1' : l1'[j].stored \in Nat /\ l1'[j].ttl \in Nat
    BY <2>6 DEF IsMap, L1Entries
  <2>8. ASSUME NEW j \in DOMAIN l1', l1'[j].val = val[t],
               l1'[j].stored + l1'[j].ttl <= now + Promo1
        PROVE  Within(l1'[j])
    BY <2>1, Promo1Natural, <2>3, <2>7, <2>8, StaleNumbers DEF Within
  <2> QED
    BY <1>00, <2>5, <2>8
<1> QED
  BY <1>1, <1>2, <1>3, <1>4, NextCases
     DEF GetL2, MissL2, Fill, StoreL2, Enqueue, Send, Receive, CommandFails,
     CommandTimesOut, Reconnect, ReconnectFails, Dequeue, Serve, ServeLate,
     Reset, Tick, vars, tiers

LEMMA NextL2Stale ==
    ASSUME TInv, SInv, [Next]_vars
    PROVE  L2Stale'
<1>0. delay' \in Nat /\ delay' >= delay
  BY DelayGrows
<1> DEFINE Within(x) == x.exp <= Limit2(x.val.exp, delay')
<1>00. /\ \A k \in DOMAIN l2 : Within(l2[k])
       /\ (\A k \in DOMAIN l2' : Within(l2'[k])) => L2Stale'
  BY <1>0, StaleMonotone DEF L2Stale
<1> HIDE DEF Within
<1>1. CASE UNCHANGED l2
  BY <1>00, <1>1
<1>2. ASSUME NEW t \in Threads, Fill(t) PROVE L2Stale'
  <2>1. arg[t] \in Keys /\ val[t] \in Answers /\ val[t].exp \in Nat
        /\ since[t] \in Nat /\ Promo \in Nat /\ pc[t] = "fill"
    BY <1>2, StaleNumbers DEF Fill, TInv, LocalsOK
  <2>2. since[t] < val[t].exp + delay /\ now - since[t] <= delay'
    BY <1>2, <2>1, StaleNumbers DEF Fill, Delayed, Larger, SInv, ValsStale
  <2>3. now + Promo <= Limit2(val[t].exp, delay')
    BY <1>0, <2>1, <2>2, StaleNumbers, Hops
  <2>4. \A j \in DOMAIN l2' :
          \/ j \in DOMAIN l2 /\ l2'[j] = l2[j]
          \/ l2'[j].val = val[t] /\ l2'[j].exp = now + Promo
    BY <1>2, <2>1, PutL2Effect DEF Fill, TInv
  <2> QED
    BY <1>00, <2>3, <2>4 DEF Within
<1>3. ASSUME NEW t \in Threads, StoreL2(t) PROVE L2Stale'
  <2>1. arg[t] \in Keys /\ val[t] \in Answers /\ val[t].exp \in Nat
        /\ since[t] \in Nat /\ since[t] <= val[t].exp
    BY <1>3, StaleNumbers DEF StoreL2, TInv, LocalsOK
  <2>2. now - since[t] <= delay' /\ TtlOf(t) = val[t].exp - since[t]
    BY <1>3, <2>1, StaleNumbers DEF StoreL2, Delayed, Larger, TtlOf
  <2>3. TtlOf(t) \in Nat /\ now + TtlOf(t) <= Limit2(val[t].exp, delay')
    <3>1. TtlOf(t) \in Nat
      BY <2>1, <2>2
    <3>2. now + (val[t].exp - since[t]) <= Limit2(val[t].exp, delay')
      BY <1>0, <2>1, <2>2, StaleNumbers, Hops
    <3> QED
      BY <2>2, <3>1, <3>2
  <2>4. \A j \in DOMAIN l2' :
          \/ j \in DOMAIN l2 /\ l2'[j] = l2[j]
          \/ l2'[j].val = val[t] /\ l2'[j].exp = now + TtlOf(t)
    BY <1>3, <2>1, <2>3, PutL2Effect DEF StoreL2, TInv
  <2> QED
    BY <1>00, <2>3, <2>4 DEF Within
<1> QED
  BY <1>1, <1>2, <1>3, NextCases
     DEF Get, Put, GetL2, MissL2, Promote, Enqueue, Send, Receive, CommandFails,
     CommandTimesOut, Reconnect, ReconnectFails, Dequeue, Serve, ServeLate,
     Reset, Tick, vars, tiers

LEMMA NextL3Stale ==
    ASSUME TInv, SInv, [Next]_vars
    PROVE  L3Stale'
<1>0. delay' \in Nat /\ delay' >= delay
  BY DelayGrows
<1>1. CASE UNCHANGED l3
  BY <1>0, <1>1, StaleMonotone DEF L3Stale
<1>2. ASSUME NEW c \in Commands, Execute(c) PROVE L3Stale'
  BY <1>0, <1>2, ExecuteEffect, StaleMonotone DEF L3Stale, TInv
<1>3. CASE Serve
  <2>1. Head(conn.wire) \in Commands
    BY <1>3 DEF Serve, TInv, CommandsOK
  <2> QED
    BY <1>2, <1>3, <2>1 DEF Serve
<1>4. \A c \in late : c \in Commands
  BY DEF TInv, CommandsOK, Commands
<1> QED
  BY <1>1, <1>2, <1>3, <1>4, NextCases
     DEF Get, Put, GetL2, MissL2, Fill, Promote, StoreL2, Enqueue, Send,
     Receive, CommandFails, CommandTimesOut, Reconnect, ReconnectFails,
     Dequeue, ServeLate, Reset, Tick, vars, tiers

\* Serving a command moves it from one direction of the connection to the other.
LEMMA ServeEffect ==
    ASSUME TInv, Serve
    PROVE  /\ Head(conn.wire) \in Commands
           /\ conn'.wire = Tail(conn.wire) /\ conn'.alive = conn.alive
           /\ conn'.replies = Append(conn.replies, ReplyTo(Head(conn.wire)))
<1>1. conn \in ConnType /\ conn.wire \in Seq(Commands) /\ conn.wire # <<>>
  BY DEF TInv, TypeOK, CommandsOK, ConnType, Serve
<1>2. Head(conn.wire) \in Commands
  BY <1>1
<1>3. conn' = [conn EXCEPT !.wire = Tail(conn.wire),
                 !.replies = Append(conn.replies, ReplyTo(Head(conn.wire)))]
  BY DEF Serve
<1> QED
  BY <1>1, <1>2, <1>3 DEF ConnType

LEMMA NextRepliesStale ==
    ASSUME TInv, SInv, [Next]_vars
    PROVE  RepliesStale'
<1>0. delay' \in Nat /\ delay' >= delay
  BY DelayGrows
<1> DEFINE Within(r) == r.kind = "value" => r.at < r.val.exp + delay'
<1>00. /\ \A i \in 1..Len(conn.replies) : Within(conn.replies[i])
       /\ (\A i \in 1..Len(conn'.replies) : Within(conn'.replies[i])) =>
            RepliesStale'
       /\ conn.replies \in Seq(Replies)
  BY <1>0, StaleMonotone DEF RepliesStale, TInv, TypeOK
<1> HIDE DEF Within
<1>1. CASE conn'.replies = conn.replies
  BY <1>00, <1>1
<1>2. CASE conn'.replies = <<>>
  BY <1>00, <1>2
<1>3. ASSUME NEW t \in Threads, Receive(t) PROVE RepliesStale'
  <2>1. conn'.replies = Tail(conn.replies) /\ conn.replies # <<>>
    BY <1>3, ReceiveEffect DEF TInv, Receive
  <2> QED
    BY <1>00, <2>1
<1>4. CASE Serve
  <2> DEFINE c == Head(conn.wire)
             r == ReplyTo(c)
  <2>1. c \in Commands /\ conn'.replies = Append(conn.replies, r)
    BY <1>4, ServeEffect
  <2>2. r \in Replies /\ r.at = now
        /\ (r.kind = "value" =>
              /\ c.key \in DOMAIN l3 /\ r.val = l3[c.key].val
              /\ now < l3[c.key].exp)
    BY <2>1, ReplyEffect DEF TInv
  <2> HIDE DEF c, r
  <2>3. Within(r)
    <3> SUFFICES ASSUME r.kind = "value" PROVE r.at < r.val.exp + delay'
      BY DEF Within
    <3>1. l3[c.key].exp <= l3[c.key].val.exp + delay'
      BY <1>0, <2>2, StaleMonotone
    <3> QED
      BY <1>0, <2>2, <3>1, StaleNumbers
  <2> QED
    BY <1>00, <2>1, <2>2, <2>3
<1>5. ASSUME NEW t \in Threads, Send(t) PROVE conn'.replies = conn.replies
  BY <1>5 DEF Send, TInv, TypeOK
<1>6. ASSUME NEW t \in Threads, Reconnect(t) PROVE conn'.replies = <<>>
  BY <1>6 DEF Reconnect, NewConn
<1>7. CASE Reset
  BY <1>2, <1>7 DEF Reset
<1>8. CASE UNCHANGED conn
  BY <1>1, <1>8
<1>9. \/ UNCHANGED conn \/ Serve \/ Reset
      \/ \E t \in Threads : Receive(t) \/ Send(t) \/ Reconnect(t)
  BY NextCases
     DEF Get, Put, GetL2, MissL2, Fill, Promote, StoreL2, Enqueue,
     CommandFails, CommandTimesOut, ReconnectFails, Dequeue, ServeLate, Tick,
     vars, redis
<1> QED
  BY <1>1, <1>2, <1>3, <1>4, <1>5, <1>6, <1>7, <1>8, <1>9

\* A step of thread t that takes it to neither of the two places where its
\* value's age matters.
LEMMA ValsElsewhere ==
    ASSUME TInv, SInv, delay' \in Nat, delay' >= delay, NEW t \in Threads,
           NEW l \in Locations \ {"fill", "promote"}, Goto(t, l),
           \A u \in Threads \ {t} : val'[u] = val[u] /\ since'[u] = since[u]
    PROVE  ValsStale'
<1>1. \A u \in Threads : pc'[u] = IF u = t THEN l ELSE pc[u]
  BY DEF Goto, TInv, TypeOK
<1> QED
  BY <1>1, StaleMonotone DEF ValsStale

LEMMA NextValsStale ==
    ASSUME TInv, SInv, [Next]_vars
    PROVE  ValsStale'
<1>0. delay' \in Nat /\ delay' >= delay
  BY DelayGrows
<1>1. CASE UNCHANGED <<pc, val, since>>
  BY <1>0, <1>1, StaleMonotone DEF ValsStale
<1>2. ASSUME NEW t \in Threads, NEW l \in Locations \ {"fill", "promote"},
             Goto(t, l), UNCHANGED <<val, since>>
      PROVE  ValsStale'
  BY <1>0, <1>2, ValsElsewhere
<1>3. ASSUME NEW t \in Threads, Return(t) PROVE ValsStale'
  <2>1. Goto(t, "idle") /\ "idle" \in Locations \ {"fill", "promote"}
    BY <1>3 DEF Return, Locations
  <2>2. \A u \in Threads \ {t} : val'[u] = val[u] /\ since'[u] = since[u]
    BY <1>3 DEF Return, TInv, TypeOK
  <2> QED
    BY <1>0, <2>1, <2>2, ValsElsewhere
<1>4. ASSUME NEW t \in Clients, NEW k \in Keys, NEW ttl \in Ttls, Put(t, k, ttl)
      PROVE  ValsStale'
  <2>1. Goto(t, "put_l2") /\ "put_l2" \in Locations \ {"fill", "promote"}
    BY <1>4 DEF Put, Locations
  <2>2. t \in Threads
        /\ \A u \in Threads \ {t} : val'[u] = val[u] /\ since'[u] = since[u]
    BY <1>4 DEF Put, TInv, TypeOK, Threads
  <2> QED
    BY <1>0, <2>1, <2>2, ValsElsewhere
<1> DEFINE Others(t) == \A u \in Threads \ {t} :
               val'[u] = val[u] /\ since'[u] = since[u] /\ pc'[u] = pc[u]
<1>5. ASSUME NEW t \in Threads, GetL2(t) PROVE ValsStale'
  <2> DEFINE e == l2[arg[t]]
  <2>1. /\ val'[t] = e.val /\ since'[t] = now /\ pc'[t] = "promote" /\ Others(t)
        /\ arg[t] \in DOMAIN l2 /\ now < e.exp
    BY <1>5 DEF GetL2, InL2, Goto, TInv, TypeOK
  <2>2. e.exp \in Nat /\ e.val.exp \in Nat /\ e.exp <= Limit2(e.val.exp, delay')
    BY <1>0, <2>1, StaleNumbers, StaleMonotone
  <2> HIDE DEF e
  <2>3. now < Limit2(e.val.exp, delay')
    BY <1>0, <2>1, <2>2, StaleNumbers DEF Limit2
  <2> QED
    BY <1>0, <2>1, <2>3, StaleMonotone DEF ValsStale
<1>6. ASSUME NEW t \in Threads, Fill(t) PROVE ValsStale'
  <2>1. /\ val'[t] = val[t] /\ since'[t] = since[t] /\ pc'[t] = "promote"
        /\ pc[t] = "fill" /\ Others(t)
    BY <1>6 DEF Fill, Goto, TInv, TypeOK
  <2>2. since[t] < val[t].exp + delay /\ now - since[t] <= delay'
    BY <1>6, <2>1, StaleNumbers DEF Fill, Delayed, Larger, SInv, ValsStale
  <2>3. since[t] < Limit2(val[t].exp, delay')
    BY <1>0, <2>1, <2>2, StaleNumbers, Hops
  <2> QED
    BY <1>0, <2>1, <2>3, StaleMonotone DEF ValsStale
<1>7. ASSUME NEW t \in Threads, Receive(t) PROVE ValsStale'
  <2> DEFINE r == Head(conn.replies)
  <2>1. Accept(t, r)
    BY <1>7 DEF Receive
  <2>2. r.kind = "value" => r.at < r.val.exp + delay'
    <3>1. conn.replies # <<>> /\ conn.replies \in Seq(Replies)
      BY <1>7 DEF Receive, TInv, TypeOK
    <3>2. 1 \in 1..Len(conn.replies) /\ r = conn.replies[1]
      BY <3>1
    <3> QED
      BY <1>0, <3>2, StaleMonotone
  <2> HIDE DEF r
  <2>3. CASE cmd[t].op = "GET" /\ r.kind = "value"
    <3>1. /\ val'[t] = r.val /\ since'[t] = r.at /\ pc'[t] = "fill" /\ Others(t)
      BY <2>1, <2>3 DEF Accept, Goto, TInv, TypeOK
    <3> QED
      BY <1>0, <2>2, <2>3, <3>1, StaleMonotone DEF ValsStale
  <2>4. CASE ~(cmd[t].op = "GET" /\ r.kind = "value")
    BY <1>3, <2>1, <2>4 DEF Accept
  <2> QED
    BY <2>3, <2>4
<1>8. ASSUME NEW t \in Threads, CommandFails(t) \/ CommandTimesOut(t)
      PROVE  ValsStale'
  BY <1>2, <1>3, <1>8 DEF CommandFails, CommandTimesOut, GiveUp, Locations
<1>9. ASSUME NEW t \in Threads,
             MissL2(t) \/ StoreL2(t) \/ Send(t) \/ Reconnect(t)
               \/ ReconnectFails(t)
      PROVE  ValsStale'
  BY <1>2, <1>9 DEF MissL2, StoreL2, Send, Reconnect, ReconnectFails, Locations
<1>10. ASSUME NEW t \in Threads, Promote(t) \/ Enqueue(t) PROVE ValsStale'
  BY <1>3, <1>10 DEF Promote, Enqueue
<1>11. ASSUME NEW t \in Clients, NEW k \in Keys, Get(t, k) PROVE ValsStale'
  BY <1>2, <1>11 DEF Get, Locations, Threads
<1>12. CASE Dequeue
  BY <1>2, <1>12 DEF Dequeue, Locations, Threads
<1>13. CASE Serve \/ (\E c \in late : ServeLate(c)) \/ Reset \/ Tick
              \/ UNCHANGED vars
  BY <1>1, <1>13 DEF Serve, ServeLate, Reset, Tick, vars, locals
<1> QED
  BY <1>4, <1>5, <1>6, <1>7, <1>8, <1>9, <1>10, <1>11, <1>12, <1>13, NextCases

\* Whatever is served from memory is at most two promotions and three delays
\* older than its DNS TTL allows, for any number of threads and keys and with
\* every failure of Redis and of the disk.
THEOREM BoundedStaleness == Spec => []StalenessBounded
<1>1. Init => SInv
  BY DEF Init, SInv, L1Stale, L2Stale, L3Stale, RepliesStale, ValsStale,
         EmptyMap, NewConn
<1>2. TInv /\ SInv /\ [Next]_vars => SInv'
  BY NextL1Stale, NextL2Stale, NextL3Stale, NextRepliesStale, NextValsStale
     DEF SInv
<1>3. TInv /\ SInv => StalenessBounded
  <2> SUFFICES ASSUME TInv, SInv, NEW k \in DOMAIN l1, Fresh1(l1[k])
               PROVE  now < l1[k].val.exp + Promo + Promo1 + 3 * delay
    BY DEF StalenessBounded, Promo1
  <2>1. l1[k].stored + l1[k].ttl <= Limit1(l1[k].val.exp, delay)
    BY DEF SInv, L1Stale
  <2>2. now < l1[k].stored + l1[k].ttl
    BY DEF Fresh1
  <2> QED
    BY <2>1, <2>2, StaleNumbers, Promo1Natural DEF Limit1
<1> QED
  BY <1>1, <1>2, <1>3, InitTInv, NextTInv, PTL DEF Spec

-----------------------------------------------------------------------------
\* The size of the shard

L1Bounded == IsFiniteSet(DOMAIN l1) /\ L1WithinCapacity

\* Making room leaves space for one entry.
LEMMA RoomHasSpace ==
    ASSUME L1Bounded, NEW room \in RoomIn(l1)
    PROVE  IsFiniteSet(DOMAIN room) /\ Cardinality(DOMAIN room) < Capacity
<1> DEFINE D == {j \in DOMAIN l1 : Fresh1(l1[j])}
           kept == [k \in D |-> l1[k]]
<1>0. Capacity \in Nat /\ Cardinality(DOMAIN l1) \in Nat
  BY TieredAssumption, FS_CardinalityType DEF L1Bounded
<1>1. IsFiniteSet(D) /\ Cardinality(D) <= Cardinality(DOMAIN l1)
      /\ Cardinality(D) \in Nat
  <2>1. D \subseteq DOMAIN l1
    OBVIOUS
  <2> HIDE DEF D
  <2> QED
    BY <2>1, FS_Subset, FS_CardinalityType DEF L1Bounded
<1>2. DOMAIN kept = D
  OBVIOUS
<1>3. \/ room = l1 /\ Cardinality(DOMAIN l1) < Capacity
      \/ room = kept /\ Cardinality(D) < Capacity
      \/ \E k \in D : room = Without(kept, {k})
  BY <1>2 DEF RoomIn
<1> HIDE DEF D, kept
<1>4. ASSUME NEW k \in D, room = Without(kept, {k})
      PROVE  IsFiniteSet(DOMAIN room) /\ Cardinality(DOMAIN room) < Capacity
  <2>1. DOMAIN room = D \ {k}
    BY <1>2, <1>4 DEF Without
  <2>2. IsFiniteSet(D \ {k}) /\ Cardinality(D \ {k}) = Cardinality(D) - 1
    BY <1>1, FS_RemoveElement
  <2> QED
    BY <1>0, <1>1, <2>1, <2>2 DEF L1Bounded, L1WithinCapacity
<1> QED
  BY <1>1, <1>2, <1>3, <1>4 DEF L1Bounded

LEMMA PutL1Bounded ==
    ASSUME L1Bounded, NEW k, NEW v, NEW ttl, PutL1(k, v, ttl)
    PROVE  L1Bounded'
<1>1. PICK room \in RoomIn(l1) : \E e : l1' = Insert(room, k, e)
  BY DEF PutL1
<1>2. IsFiniteSet(DOMAIN room) /\ Cardinality(DOMAIN room) < Capacity
      /\ Cardinality(DOMAIN room) \in Nat /\ Capacity \in Nat
  BY RoomHasSpace, FS_CardinalityType, TieredAssumption
<1>3. DOMAIN l1' = DOMAIN room \cup {k}
  BY <1>1 DEF Insert
<1>4. /\ IsFiniteSet(DOMAIN room \cup {k})
      /\ \/ Cardinality(DOMAIN room \cup {k}) = Cardinality(DOMAIN room)
         \/ Cardinality(DOMAIN room \cup {k}) = Cardinality(DOMAIN room) + 1
  BY <1>2, FS_AddElement
<1> QED
  BY <1>2, <1>3, <1>4 DEF L1Bounded, L1WithinCapacity

\* The shard never holds more than its limit, for every limit and every
\* interleaving of promotions and stores.
THEOREM L1Capacity == Spec => []L1WithinCapacity
<1>1. Init => L1Bounded
  <2> SUFFICES ASSUME Init PROVE L1Bounded
    OBVIOUS
  <2>1. DOMAIN l1 = {}
    BY DEF Init, EmptyMap
  <2> QED
    BY <2>1, FS_EmptySet, TieredAssumption DEF L1Bounded, L1WithinCapacity
<1>2. L1Bounded /\ [Next]_vars => L1Bounded'
  <2> SUFFICES ASSUME L1Bounded, [Next]_vars PROVE L1Bounded'
    OBVIOUS
  <2>1. CASE UNCHANGED l1
    BY <2>1 DEF L1Bounded, L1WithinCapacity
  <2>2. ASSUME NEW t \in Clients, NEW k \in Keys, Get(t, k) PROVE L1Bounded'
    <3>1. DOMAIN l1' \subseteq DOMAIN l1
      BY <2>2 DEF Get, Without
    <3>2. IsFiniteSet(DOMAIN l1')
          /\ Cardinality(DOMAIN l1') <= Cardinality(DOMAIN l1)
      BY <3>1, FS_Subset DEF L1Bounded
    <3>3. Cardinality(DOMAIN l1') \in Nat /\ Cardinality(DOMAIN l1) \in Nat
      BY <3>2, FS_CardinalityType DEF L1Bounded
    <3> QED
      BY <3>2, <3>3, TieredAssumption DEF L1Bounded, L1WithinCapacity
  <2>3. \/ UNCHANGED l1
        \/ \E t \in Clients, k \in Keys : Get(t, k)
        \/ \E k, v, ttl : PutL1(k, v, ttl)
    BY NextCases
       DEF Put, Promote, GetL2, MissL2, Fill, StoreL2, Enqueue, Send, Receive,
       CommandFails, CommandTimesOut, Reconnect, ReconnectFails, Dequeue,
       Serve, ServeLate, Reset, Tick, vars, tiers
  <2> QED
    BY <2>1, <2>2, <2>3, PutL1Bounded
<1>3. L1Bounded => L1WithinCapacity
  BY DEF L1Bounded
<1> QED
  BY <1>1, <1>2, <1>3, PTL DEF Spec

-----------------------------------------------------------------------------
\* Replies belong to the commands they answer, until a command times out.

\* Who holds the mutex is between sending and receiving.
MutexOK == holder # None => holder \in Threads /\ pc[holder] \in {"recv1", "recv2"}

\* The connection is empty unless somebody holds the mutex, and then it holds
\* only that thread's command or the reply to it.
EmptyLink == conn.wire = <<>> /\ conn.replies = <<>>
Asked == conn.wire = <<cmd[holder]>> /\ conn.replies = <<>>
Answered ==
    /\ conn.wire = <<>>
    /\ \E r \in Replies :
        /\ conn.replies = <<r>>
        /\ r.kind = "value" => r.val.key = cmd[holder].key
LinkOK ==
    /\ holder = None \/ ~conn.alive => EmptyLink
    /\ EmptyLink \/ Asked \/ Answered

\* A value on its way from one tier to another is under its own key.
ValsOwnKey == \A t \in Threads :
    pc[t] \in {"fill", "promote"} => val[t].key = arg[t]

MixedFree == MutexOK /\ LinkOK /\ EntriesOwnKey /\ ValsOwnKey

\* As long as nothing has timed out, nothing times out.
LEMMA NotYet ==
    ASSUME TInv, [Next]_vars, ~timedOut'
    PROVE  ~timedOut /\ \A t \in Threads : ~CommandTimesOut(t)
<1>1. \A t \in Threads : ~CommandTimesOut(t)
  BY Zenon DEF CommandTimesOut
<1>2. UNCHANGED timedOut
  BY <1>1, NextCases, Zenon
     DEF Get, Put, GetL2, MissL2, Fill, Promote, StoreL2, Enqueue, Send,
     Receive, CommandFails, Reconnect, ReconnectFails, Dequeue, Serve,
     ServeLate, Reset, Tick, vars
<1> QED
  BY <1>1, <1>2

\* The mutex is held across the command: a step of another thread changes
\* neither the holder nor its place and its command.
LEMMA NextMutexOK ==
    ASSUME TInv, MutexOK, [Next]_vars
    PROVE  MutexOK'
<1>0. None \notin Threads /\ pc \in [Threads -> Locations]
  BY TieredAssumption DEF Threads, TInv, TypeOK
<1>1. CASE holder' = None
  BY <1>1 DEF MutexOK
<1>2. ASSUME NEW t \in Threads, Send(t) PROVE MutexOK'
  BY <1>0, <1>2 DEF Send, Goto, MutexOK
<1>3. ASSUME NEW t \in Threads, NEW l \in Locations, Goto(t, l),
             pc[t] \notin {"recv1", "recv2"}, UNCHANGED holder
      PROVE  MutexOK'
  BY <1>0, <1>3 DEF MutexOK, Goto
<1>4. CASE UNCHANGED <<holder, pc>>
  BY <1>4 DEF MutexOK
<1>5. ASSUME NEW t \in Threads,
             \/ GetL2(t) \/ MissL2(t) \/ Fill(t) \/ Promote(t) \/ StoreL2(t)
             \/ Enqueue(t) \/ Reconnect(t) \/ ReconnectFails(t)
      PROVE  MutexOK'
  BY <1>3, <1>5 DEF GetL2, MissL2, Fill, Promote, StoreL2, Enqueue, Reconnect,
                    ReconnectFails, Return, Locations, redis
<1>6. ASSUME NEW t \in Clients, NEW k \in Keys,
             Get(t, k) \/ \E ttl \in Ttls : Put(t, k, ttl)
      PROVE  MutexOK'
  BY <1>3, <1>6 DEF Get, Put, Locations, Threads, redis
<1>7. CASE Dequeue
  BY <1>3, <1>7 DEF Dequeue, Locations, Threads, redis
<1>8. ASSUME NEW t \in Threads,
             Receive(t) \/ CommandFails(t) \/ CommandTimesOut(t)
      PROVE  holder' = None
  BY <1>8 DEF Receive, CommandFails, CommandTimesOut, GiveUp
<1>9. CASE Serve \/ (\E c \in late : ServeLate(c)) \/ Reset \/ Tick
             \/ UNCHANGED vars
  BY <1>4, <1>9 DEF Serve, ServeLate, Reset, Tick, vars, redis, locals
<1> QED
  BY <1>1, <1>2, <1>5, <1>6, <1>7, <1>8, <1>9, NextCases

LEMMA NextEntriesOwnKey ==
    ASSUME TInv, EntriesOwnKey, ValsOwnKey, [Next]_vars
    PROVE  EntriesOwnKey'
<1>1. \A k \in DOMAIN l1' : l1'[k].val.key = k
  <2>1. CASE UNCHANGED l1
    BY <2>1 DEF EntriesOwnKey
  <2>2. ASSUME NEW t \in Clients, NEW k \in Keys, Get(t, k) PROVE <1>1!:
    BY <2>2 DEF Get, Without, EntriesOwnKey
  <2>3. ASSUME NEW t \in Clients, NEW k \in Keys, NEW ttl \in Ttls,
               Put(t, k, ttl)
        PROVE  <1>1!:
    <3> DEFINE v == [key |-> k, exp |-> now + ttl]
    <3>1. ttl \in Nat /\ v \in Answers /\ v.key = k /\ PutL1(k, v, ttl)
      BY <2>3, TieredAssumption DEF Put, Answers, TInv, TypeOK
    <3> HIDE DEF v
    <3> QED
      BY <3>1, PutL1Effect DEF EntriesOwnKey, TInv
  <2>4. ASSUME NEW t \in Threads, Promote(t) PROVE <1>1!:
    <3>1. /\ arg[t] \in Keys /\ val[t] \in Answers /\ val[t].key = arg[t]
          /\ PutL1(arg[t], val[t], Promo) /\ Promo \in Nat
      BY <2>4, TieredAssumption DEF Promote, TInv, LocalsOK, ValsOwnKey
    <3> QED
      BY <3>1, PutL1Effect DEF EntriesOwnKey, TInv
  <2> QED
    BY <2>1, <2>2, <2>3, <2>4, NextCases
       DEF GetL2, MissL2, Fill, StoreL2, Enqueue, Send, Receive, CommandFails,
       CommandTimesOut, Reconnect, ReconnectFails, Dequeue, Serve, ServeLate,
       Reset, Tick, vars, tiers
<1>2. \A k \in DOMAIN l2' : l2'[k].val.key = k
  <2>1. CASE UNCHANGED l2
    BY <2>1 DEF EntriesOwnKey
  <2>2. ASSUME NEW t \in Threads, Fill(t) PROVE <1>2!:
    <3>1. /\ arg[t] \in Keys /\ val[t] \in Answers /\ val[t].key = arg[t]
          /\ PutL2(arg[t], val[t], Promo) /\ Promo \in Nat
      BY <2>2, TieredAssumption DEF Fill, TInv, LocalsOK, ValsOwnKey
    <3> QED
      BY <3>1, PutL2Effect DEF EntriesOwnKey, TInv
  <2>3. ASSUME NEW t \in Threads, StoreL2(t) PROVE <1>2!:
    <3>1. /\ arg[t] \in Keys /\ val[t] \in Answers /\ val[t].key = arg[t]
          /\ PutL2(arg[t], val[t], TtlOf(t)) /\ TtlOf(t) \in Nat
      BY <2>3 DEF StoreL2, TInv, LocalsOK, TypeOK, TtlOf, Answers
    <3> QED
      BY <3>1, PutL2Effect DEF EntriesOwnKey, TInv
  <2> QED
    BY <2>1, <2>2, <2>3, NextCases
       DEF Get, Put, GetL2, MissL2, Promote, Enqueue, Send, Receive,
       CommandFails, CommandTimesOut, Reconnect, ReconnectFails, Dequeue,
       Serve, ServeLate, Reset, Tick, vars, tiers
<1>3. \A k \in DOMAIN l3' : l3'[k].val.key = k
  <2>1. CASE UNCHANGED l3
    BY <2>1 DEF EntriesOwnKey
  <2>2. ASSUME NEW c \in Commands, Execute(c) PROVE <1>3!:
    BY <2>2, ExecuteEffect DEF EntriesOwnKey, TInv, OwnSets
  <2>3. CASE Serve
    BY <2>2, <2>3, ServeEffect DEF Serve
  <2>4. \A c \in late : c \in Commands
    BY DEF TInv, CommandsOK, Commands
  <2> QED
    BY <2>1, <2>2, <2>3, <2>4, NextCases
       DEF Get, Put, GetL2, MissL2, Fill, Promote, StoreL2, Enqueue, Send,
       Receive, CommandFails, CommandTimesOut, Reconnect, ReconnectFails,
       Dequeue, ServeLate, Reset, Tick, vars, tiers
<1> QED
  BY <1>1, <1>2, <1>3 DEF EntriesOwnKey

\* A reply that is read while nothing has timed out answers the reader.
LEMMA ReceiveOwn ==
    ASSUME TInv, MixedFree, NEW t \in Threads, Receive(t)
    PROVE  LET r == Head(conn.replies)
           IN  /\ r.kind = "value" => r.val.key = cmd[t].key
               /\ conn.wire = <<>> /\ Tail(conn.replies) = <<>>
<1>1. holder = t /\ conn.replies # <<>>
  BY DEF Receive
<1>2. Answered
  BY <1>1 DEF MixedFree, LinkOK, EmptyLink, Asked
<1> QED
  BY <1>1, <1>2 DEF Answered

LEMMA NextValsOwnKey ==
    ASSUME TInv, MixedFree, [Next]_vars
    PROVE  ValsOwnKey'
<1>0. pc \in [Threads -> Locations] /\ arg \in [Threads -> Keys \cup {None}]
      /\ val \in [Threads -> Answers \cup {None}] /\ ValsOwnKey
  BY DEF TInv, TypeOK, MixedFree
<1>1. ASSUME NEW t \in Threads, NEW l \in Locations \ {"fill", "promote"},
             Goto(t, l),
             \A u \in Threads \ {t} : val'[u] = val[u] /\ arg'[u] = arg[u]
      PROVE  ValsOwnKey'
  BY <1>0, <1>1 DEF Goto, ValsOwnKey
<1>2. ASSUME NEW t \in Threads, Return(t) PROVE ValsOwnKey'
  <2>1. Goto(t, "idle") /\ "idle" \in Locations \ {"fill", "promote"}
        /\ \A u \in Threads \ {t} : val'[u] = val[u] /\ arg'[u] = arg[u]
    BY <1>0, <1>2 DEF Return, Locations
  <2> QED
    BY <1>1, <2>1
<1>3. CASE UNCHANGED <<pc, val, arg>>
  BY <1>0, <1>3 DEF ValsOwnKey
<1>4. ASSUME NEW t \in Threads, GetL2(t) PROVE ValsOwnKey'
  <2>1. l2[arg[t]].val.key = arg[t]
    BY <1>4 DEF GetL2, InL2, MixedFree, EntriesOwnKey
  <2> QED
    BY <1>0, <1>4, <2>1 DEF GetL2, Goto, ValsOwnKey
<1>5. ASSUME NEW t \in Threads, Fill(t) PROVE ValsOwnKey'
  BY <1>0, <1>5 DEF Fill, Goto, ValsOwnKey
<1>6. ASSUME NEW t \in Threads, Receive(t) PROVE ValsOwnKey'
  <2> DEFINE r == Head(conn.replies)
  <2>1. Accept(t, r) /\ pc[t] \in {"recv1", "recv2"}
        /\ (r.kind = "value" => r.val.key = cmd[t].key)
    BY <1>6, ReceiveOwn DEF Receive
  <2> HIDE DEF r
  <2>2. CASE cmd[t].op = "GET" /\ r.kind = "value"
    <3>1. r.val.key = arg[t]
      BY <2>1, <2>2 DEF TInv, LocalsOK, AtRedis
    <3>2. /\ pc' = [pc EXCEPT ![t] = "fill"] /\ arg' = arg
          /\ val' = [val EXCEPT ![t] = r.val]
      BY <2>1, <2>2 DEF Accept, Goto
    <3> QED
      BY <1>0, <3>1, <3>2 DEF ValsOwnKey
  <2>3. CASE ~(cmd[t].op = "GET" /\ r.kind = "value")
    BY <1>2, <2>1, <2>3 DEF Accept
  <2> QED
    BY <2>2, <2>3
<1>7. ASSUME NEW t \in Threads, CommandFails(t) \/ CommandTimesOut(t)
      PROVE  ValsOwnKey'
  BY <1>1, <1>2, <1>7 DEF CommandFails, CommandTimesOut, GiveUp, Locations
<1>8. ASSUME NEW t \in Threads,
             MissL2(t) \/ StoreL2(t) \/ Send(t) \/ Reconnect(t)
               \/ ReconnectFails(t)
      PROVE  ValsOwnKey'
  BY <1>1, <1>8 DEF MissL2, StoreL2, Send, Reconnect, ReconnectFails, Locations
<1>9. ASSUME NEW t \in Threads, Promote(t) \/ Enqueue(t) PROVE ValsOwnKey'
  BY <1>2, <1>9 DEF Promote, Enqueue
<1>10. ASSUME NEW t \in Clients, NEW k \in Keys, Get(t, k) PROVE ValsOwnKey'
  BY <1>0, <1>1, <1>10 DEF Get, Locations, Threads
<1>11. ASSUME NEW t \in Clients, NEW k \in Keys, NEW ttl \in Ttls, Put(t, k, ttl)
       PROVE  ValsOwnKey'
  BY <1>0, <1>1, <1>11 DEF Put, Locations, Threads
<1>12. CASE Dequeue
  BY <1>1, <1>12 DEF Dequeue, Locations, Threads
<1>13. CASE Serve \/ (\E c \in late : ServeLate(c)) \/ Reset \/ Tick
              \/ UNCHANGED vars
  BY <1>3, <1>13 DEF Serve, ServeLate, Reset, Tick, vars, locals
<1> QED
  BY <1>4, <1>5, <1>6, <1>7, <1>8, <1>9, <1>10, <1>11, <1>12, <1>13, NextCases

\* The connection, the mutex and the holder's command are left alone.
LEMMA LinkFrame ==
    ASSUME LinkOK, UNCHANGED <<conn, holder>>,
           holder = None \/ cmd'[holder] = cmd[holder]
    PROVE  LinkOK'
BY DEF LinkOK, EmptyLink, Asked, Answered

LEMMA NextLinkOK ==
    ASSUME TInv, MixedFree, [Next]_vars,
           \A t \in Threads : ~CommandTimesOut(t)
    PROVE  LinkOK'
<1>0. /\ conn \in ConnType /\ cmd \in [Threads -> Commands \cup {None}]
      /\ pc \in [Threads -> Locations] /\ None \notin Threads
      /\ MutexOK /\ LinkOK
  BY TieredAssumption DEF TInv, TypeOK, CommandsOK, MixedFree, ConnType, Threads
<1>1. CASE EmptyLink'
  BY <1>1 DEF LinkOK
<1>2. ASSUME NEW t \in Threads, pc[t] \notin {"recv1", "recv2"},
             UNCHANGED <<conn, holder>>,
             \A u \in Threads \ {t} : cmd'[u] = cmd[u]
      PROVE  LinkOK'
  <2>1. holder # t
    BY <1>0, <1>2 DEF MutexOK
  <2> QED
    BY <1>0, <1>2, <2>1, LinkFrame DEF MutexOK
<1>3. ASSUME NEW t \in Threads,
             \/ GetL2(t) \/ MissL2(t) \/ Fill(t) \/ Promote(t) \/ StoreL2(t)
             \/ Enqueue(t) \/ ReconnectFails(t)
      PROVE  LinkOK'
  BY <1>0, <1>2, <1>3 DEF GetL2, MissL2, Fill, Promote, StoreL2, Enqueue,
                          ReconnectFails, Return, redis
<1>4. ASSUME NEW t \in Clients, NEW k \in Keys,
             Get(t, k) \/ \E ttl \in Ttls : Put(t, k, ttl)
      PROVE  LinkOK'
  BY <1>0, <1>2, <1>4 DEF Get, Put, Threads, redis
<1>5. CASE Dequeue
  BY <1>0, <1>2, <1>5 DEF Dequeue, Threads, redis
<1>6. CASE (\E c \in late : ServeLate(c)) \/ Tick \/ UNCHANGED vars
  BY <1>0, <1>6, LinkFrame DEF ServeLate, Tick, vars, redis, locals
<1>7. ASSUME NEW t \in Threads, Send(t) PROVE LinkOK'
  <2>1. EmptyLink /\ holder' = t /\ cmd' = cmd
    BY <1>0, <1>7 DEF Send, Unlocked, LinkOK
  <2>2. CASE conn.alive
    <3>1. conn' = [conn EXCEPT !.wire = Append(conn.wire, cmd[t])]
      BY <1>7, <2>2 DEF Send
    <3>2. conn'.wire = <<cmd[t]>> /\ conn'.replies = <<>> /\ conn'.alive
      BY <1>0, <2>1, <2>2, <3>1 DEF ConnType, EmptyLink
    <3> QED
      BY <1>0, <2>1, <3>2 DEF LinkOK, Asked
  <2>3. CASE ~conn.alive
    BY <1>1, <1>7, <2>1, <2>3 DEF Send, EmptyLink
  <2> QED
    BY <2>2, <2>3
<1>8. ASSUME NEW t \in Threads, Receive(t) PROVE EmptyLink'
  BY <1>8, ReceiveOwn, ReceiveEffect DEF TInv, EmptyLink
<1>9. ASSUME NEW t \in Threads, CommandFails(t) PROVE EmptyLink'
  BY <1>0, <1>9 DEF CommandFails, LinkOK, EmptyLink
<1>10. ASSUME NEW t \in Threads, Reconnect(t) PROVE EmptyLink'
  BY <1>10 DEF Reconnect, NewConn, EmptyLink
<1>11. CASE Reset
  BY <1>1, <1>11 DEF Reset, EmptyLink
<1>12. CASE Serve
  <2> DEFINE c == Head(conn.wire)
             r == ReplyTo(c)
  <2>1. /\ c \in Commands /\ conn'.wire = Tail(conn.wire)
        /\ conn'.alive = conn.alive /\ conn'.replies = Append(conn.replies, r)
        /\ UNCHANGED <<holder, cmd>> /\ conn.wire # <<>> /\ conn.alive
    BY <1>12, ServeEffect DEF Serve, locals
  <2>2. Asked /\ holder # None
    BY <1>0, <2>1 DEF LinkOK, EmptyLink, Answered
  <2>3. c = cmd[holder] /\ conn'.wire = <<>>
    BY <2>1, <2>2 DEF Asked
  <2>4. r \in Replies /\ (r.kind = "value" => r.val.key = c.key)
    BY <2>1, ReplyEffect DEF TInv, MixedFree, EntriesOwnKey
  <2> HIDE DEF c, r
  <2>5. conn'.replies = <<r>>
    BY <2>1, <2>2, <2>4 DEF Asked
  <2> QED
    BY <2>1, <2>2, <2>3, <2>4, <2>5 DEF LinkOK, Answered
<1> QED
  BY <1>1, <1>3, <1>4, <1>5, <1>6, <1>7, <1>8, <1>9, <1>10, <1>11, <1>12,
     NextCases

MInv == ~timedOut => MixedFree

\* Unless a command to Redis has timed out, every tier holds under a key only
\* answers resolved for it, whatever connections break, reconnects fail and
\* commands run late.
THEOREM NoMixing == Spec => []MixedOnlyAfterTimeout
<1>1. Init => MInv
  BY DEF Init, MInv, MixedFree, MutexOK, LinkOK, EmptyLink, EntriesOwnKey,
         ValsOwnKey, EmptyMap, NewConn
<1>2. TInv /\ MInv /\ [Next]_vars => MInv'
  <2> SUFFICES ASSUME TInv, MInv, [Next]_vars, ~timedOut' PROVE MixedFree'
    BY DEF MInv
  <2>1. MixedFree /\ \A t \in Threads : ~CommandTimesOut(t)
    BY NotYet DEF MInv
  <2> QED
    BY <2>1, NextMutexOK, NextLinkOK, NextEntriesOwnKey, NextValsOwnKey
       DEF MixedFree
<1>3. MInv => MixedOnlyAfterTimeout
  BY DEF MInv, MixedFree, MixedOnlyAfterTimeout
<1> QED
  BY <1>1, <1>2, <1>3, InitTInv, NextTInv, PTL DEF Spec

=============================================================================
