----------------------------- MODULE UdpServer -----------------------------
(***************************************************************************)
(* The UDP front end (src/server/udp.rs) with what its workers share: the   *)
(* rate limiter and the query log.  One reader thread puts datagrams into   *)
(* an unbounded channel; the workers take turns to wait on its receiving    *)
(* end, handle a datagram (Pipeline::handle) and reply.                     *)
(*                                                                          *)
(* A handler may panic: on a datagram the parser indexes out of bounds,     *)
(* before the limiter is asked, or on an upstream reply, while it leads the *)
(* resolution of its key.  A panic ends the worker; in the second case the  *)
(* flight of that key stays claimed and without a result, and every later   *)
(* handler of the key waits for it for ever (module SingleFlight).          *)
(***************************************************************************)
EXTENDS Limiter, QueryLog, Functions

CONSTANTS
    Workers,        \* worker threads
    Keys,           \* what datagrams ask for (singleflight key)
    NoWorker,       \* the receiver's mutex is free
    MaxDatagrams,   \* bound on the number of datagrams
    MaxPanics       \* bound on the number of panics

ASSUME UdpAssumption ==
    /\ NoWorker \notin Workers
    /\ MaxDatagrams \in Nat /\ MaxPanics \in Nat

VARIABLES
    received,   \* the datagrams read so far, [client, key]; a datagram is named
                \*   by its position
    queue,      \* the channel between reader and workers
    reading,    \* whether the reader thread runs
    rx,         \* which worker holds the receiver's mutex
    pc,         \* where each worker is in its loop
    cur,        \* the datagram each worker holds, 0 for none
    poisoned,   \* keys whose flight was left behind by a panic
    casualties, \* history: datagrams lost with a worker that died
    dropped,    \* history: datagrams lost with the channel, or not taken by it
    panics      \* history: number of panics

poolVars ==
    <<received, queue, reading, rx, pc, cur, poisoned, casualties, dropped, panics>>
vars == <<limiterVars, logVars, poolVars>>

Datagrams == 1..Len(received)

Init ==
    /\ LimiterInit /\ LogInit
    /\ received = <<>> /\ queue = <<>> /\ reading = TRUE
    /\ rx = NoWorker
    /\ pc = [w \in Workers |-> "idle"]
    /\ cur = [w \in Workers |-> 0]
    /\ poisoned = {} /\ casualties = {} /\ dropped = {} /\ panics = 0

\* The receiver lives as long as one worker, be it a stuck one.
AllDead == \A w \in Workers : pc[w] = "dead"

Read(c, k) ==
    /\ reading /\ ~AllDead
    /\ Len(received) < MaxDatagrams
    /\ received' = Append(received, [client |-> c, key |-> k])
    /\ queue' = Append(queue, Len(received) + 1)
    /\ UNCHANGED <<limiterVars, logVars, reading, rx, pc, cur, poisoned,
                   casualties, dropped, panics>>

\* Without a receiver send() fails: the datagram just read is lost and the reader
\* returns.
ReaderStops(c, k) ==
    /\ reading /\ AllDead
    /\ Len(received) < MaxDatagrams
    /\ received' = Append(received, [client |-> c, key |-> k])
    /\ dropped' = dropped \cup {Len(received) + 1}
    /\ reading' = FALSE
    /\ UNCHANGED <<limiterVars, logVars, queue, rx, pc, cur, poisoned, casualties,
                   panics>>

\* rx.lock()
Lock(w) ==
    /\ pc[w] = "idle" /\ rx = NoWorker
    /\ rx' = w
    /\ pc' = [pc EXCEPT ![w] = "receiving"]
    /\ UNCHANGED <<limiterVars, logVars, received, queue, reading, cur, poisoned,
                   casualties, dropped, panics>>

BugReceive(w) ==
    /\ pc[w] = "receiving" /\ queue # <<>>
    /\ cur' = [cur EXCEPT ![w] = Head(queue)]
    /\ queue' = Tail(queue)
    /\ rx' = w
    /\ pc' = [pc EXCEPT ![w] = "handling"]
    /\ UNCHANGED <<limiterVars, logVars, received, reading, poisoned, casualties,
                   dropped, panics>>

\* rx.recv() returns; the guard is dropped at the end of the block.
Receive(w) ==
    /\ pc[w] = "receiving" /\ queue # <<>>
    /\ cur' = [cur EXCEPT ![w] = Head(queue)]
    /\ queue' = Tail(queue)
    /\ rx' = NoWorker
    /\ pc' = [pc EXCEPT ![w] = "handling"]
    /\ UNCHANGED <<limiterVars, logVars, received, reading, poisoned, casualties,
                   dropped, panics>>

\* Pipeline::process up to the rate limit.  A refused query is answered at once,
\* a granted one goes on to cache and resolver.
Admit(w) ==
    /\ pc[w] = "handling"
    /\ \E granted \in BOOLEAN :
        /\ allow(received[cur[w]].client, granted)
        /\ pc' = [pc EXCEPT ![w] = IF granted THEN "resolving" ELSE "replying"]
    /\ UNCHANGED <<logVars, received, queue, reading, rx, cur, poisoned, casualties,
                   dropped, panics>>

\* Pipeline::process returns before the limiter is asked: the datagram does not
\* parse, is a response, has no question, too long a name or an unknown EDNS
\* version.
Reject(w) ==
    /\ pc[w] = "handling"
    /\ pc' = [pc EXCEPT ![w] = "replying"]
    /\ UNCHANGED <<limiterVars, logVars, received, queue, reading, rx, cur, poisoned,
                   casualties, dropped, panics>>

\* The answer was found or the resolver gave up (its deadline bounds it).  A key
\* whose leader panicked is answered only if the cache has it: else the worker
\* waits for ever.
Resolve(w) ==
    /\ pc[w] = "resolving"
    /\ \/ pc' = [pc EXCEPT ![w] = "replying"]
       \/ /\ received[cur[w]].key \in poisoned
          /\ pc' = [pc EXCEPT ![w] = "stuck"]
    /\ UNCHANGED <<limiterVars, logVars, received, queue, reading, rx, cur, poisoned,
                   casualties, dropped, panics>>

BugReply(w) ==
    /\ pc[w] = "replying"
    /\ \/ write(cur[w])
       \/ UNCHANGED logVars
    /\ pc' = [pc EXCEPT ![w] = "idle"]
    /\ cur' = [cur EXCEPT ![w] = 0]
    /\ UNCHANGED <<limiterVars, received, queue, reading, rx, poisoned, casualties,
                   dropped, panics>>

\* The end of Pipeline::handle, then send_to: one row per handled datagram,
\* granted or refused.
Reply(w) ==
    /\ pc[w] = "replying"
    /\ write(cur[w])
    /\ pc' = [pc EXCEPT ![w] = "idle"]
    /\ cur' = [cur EXCEPT ![w] = 0]
    /\ UNCHANGED <<limiterVars, received, queue, reading, rx, poisoned, casualties,
                   dropped, panics>>

\* The handler panics: the thread ends, nothing is logged and nothing is sent.
\* The last worker to die drops the receiver, with everything queued.
Panic(w) ==
    /\ pc[w] \in {"handling", "resolving"} /\ panics < MaxPanics
    /\ pc[w] = "resolving" => received[cur[w]].key \notin poisoned
    /\ panics' = panics + 1
    /\ poisoned' = IF pc[w] = "resolving"
                   THEN poisoned \cup {received[cur[w]].key} ELSE poisoned
    /\ casualties' = casualties \cup {cur[w]}
    /\ IF \A v \in Workers \ {w} : pc[v] = "dead"
       THEN queue' = <<>> /\ dropped' = dropped \cup Range(queue)
       ELSE UNCHANGED <<queue, dropped>>
    /\ pc' = [pc EXCEPT ![w] = "dead"]
    /\ cur' = [cur EXCEPT ![w] = 0]
    /\ UNCHANGED <<limiterVars, logVars, received, reading, rx>>

Tick == LimiterTick /\ UNCHANGED <<logVars, poolVars>>

Flusher == (Collect \/ FlushOnTimeout) /\ UNCHANGED <<limiterVars, poolVars>>

WorkerStep(w) ==
    Lock(w) \/ Receive(w) \/ Reject(w) \/ Admit(w) \/ Resolve(w) \/ Reply(w)

Next ==
    \/ \E c \in Clients, k \in Keys : Read(c, k) \/ ReaderStops(c, k)
    \/ \E w \in Workers : WorkerStep(w) \/ Panic(w)
    \/ Flusher
    \/ Tick

\* Threads are scheduled: a worker that can take a step takes one, and so does
\* the flusher; its timer runs out when nothing arrives.  Nothing forces a
\* datagram to arrive, a panic to happen or a clock tick to be observed.
Fairness == (\A w \in Workers : WF_vars(WorkerStep(w))) /\ WF_vars(Flusher)

Spec == Init /\ [][Next]_vars /\ Fairness

----------------------------------------------------------------------------
Locations == {"idle", "receiving", "handling", "resolving", "replying", "stuck",
              "dead"}

TypeOK ==
    /\ LimiterTypeOK
    /\ LogTypeOK(Nat)
    /\ received \in Seq([client : Clients, key : Keys])
    /\ queue \in Seq(Nat)
    /\ reading \in BOOLEAN
    /\ rx \in Workers \cup {NoWorker}
    /\ pc \in [Workers -> Locations]
    /\ cur \in [Workers -> Nat]
    /\ poisoned \subseteq Keys
    /\ casualties \subseteq Nat /\ dropped \subseteq Nat
    /\ panics \in 0..MaxPanics

\* What became of datagram d: waiting, in the hands of worker w, logged, or lost
\* with a worker or with the channel.
Waiting(d) == d \in Range(queue)
HeldBy(d, w) == cur[w] = d
Logged(d) == d \in Range(written)
Lost(d) == d \in casualties \cup dropped

\* Each datagram is handled once and leaves one row in the query log, also when it
\* was refused by the limiter; the only datagrams without a row are those still on
\* their way, those a worker died with, and those that were in the channel or came
\* to it when its last worker had died: none is dropped while a worker lives
\* (serve_udp's loops and Pipeline::handle).
DatagramsAccounted ==
    /\ \A d \in Datagrams :
        /\ Waiting(d) \/ (\E w \in Workers : HeldBy(d, w)) \/ Logged(d) \/ Lost(d)
        /\ Waiting(d) => ~Logged(d) /\ ~Lost(d) /\ \A w \in Workers : ~HeldBy(d, w)
        /\ Logged(d) => ~Lost(d) /\ \A w \in Workers : ~HeldBy(d, w)
        /\ \A v, w \in Workers : HeldBy(d, v) /\ HeldBy(d, w) => v = w
    /\ \A i, j \in DOMAIN written : written[i] = written[j] => i = j
    /\ dropped # {} => AllDead
    /\ casualties \cap dropped = {}

\* No row is lost but in an insert that failed, and then at most one batch of them
\* (flush_batch drops what an error left over and keeps no more than BatchSize).
LossNeedsFailedInsert ==
    LET lost == {i \in DOMAIN flushed : ~flushed[i].stored}
    IN  /\ Cardinality(lost) <= fails * BatchSize
        /\ (fails = 0 => lost = {})

Available == {w \in Workers : pc[w] \notin {"dead", "stuck"}}

\* A datagram that was read comes into the hands of a worker as long as some worker
\* is neither dead nor waiting for a flight a panic left behind: no scheduling of
\* workers, panics and stuck handlers leaves it in the channel for ever.
EveryDatagramServed ==
    \A d \in 1..MaxDatagrams :
        Waiting(d) ~> ((\E w \in Workers : HeldBy(d, w)) \/ Available = {})

\* With MySQL there, a row that was written does not stay in memory: the batch it
\* waits in is inserted (or dropped) although it never fills up (flush_loop's
\* timeout).
EveryRowLeaves ==
    \A d \in 1..MaxDatagrams :
        (logging /\ d \in Range(written)) ~> d \in Range(FlushedRows)
=============================================================================
