# dnsd-rs: a TLA+ model of the caching recursive DNS server

dnsd-rs answers DNS queries over UDP, TCP and DoH from block lists, custom zones, a three-tier
cache and an iterative resolver, and is managed over an HTTP API backed by MySQL. This directory
models the parts whose correctness depends on interleavings, failures and restarts, checks them
with TLC and proves their invariants with TLAPS. Paths below are relative to the repository.

## 1. Inventory

| Component | State | Operations | What is hard | What makes it correct |
|---|---|---|---|---|
| L2 store (`src/cache/l2.rs`) | log file, index, size, dead bytes, two file handles | open/replay, put, get, delete, compaction thread | the copy loop of a compaction runs unlocked; torn tails; any system call can fail | index entries describe whole records of their key; get returns only what was put; compaction and replay lose nothing they should keep |
| Tiered cache, L1, Redis client (`src/cache/mod.rs`, `l1.rs`, `redis.rs`) | 64 shards, L2, one Redis connection and its mutex, a queue | get with promotion, put, writer thread, command with one retry | three tiers with three locks; replies after a timeout; failed reconnects; commands executed late | answers stay under their key; shards keep their limit; promotions do not chain |
| Singleflight (`src/resolve/recurse.rs` 76-120) | map of flights, each with a flag, a result and a condition variable | join or create, claim, resolve, publish, remove, wait | removal by key after publication; lost wakeups; a leader that panics | one upstream resolution per key; results are shared only while in flight; everybody returns |
| Management API, store, audit log (`src/api/mod.rs`, `src/store/mod.rs`, `src/store/logs.rs`) | MySQL tables, the policy in memory, the last audit hash | create zone/record, add/remove block, reload; audit; restart | handlers interleave between statements; a committed insert reported as failed; restart without MySQL | audit rows form one chain; no change without an audit row; a reload installs tables that existed while it ran |
| Iterative resolver (`recurse.rs` 122-366) | the walk's servers, depth, deadline; a stack of nested walks | iterate, query servers, UDP exchange, TCP on truncation | lost replies, truncation, nested walks for name servers without glue | ends soon after the deadline; work bounded by replies; dead servers are skipped |
| Query pipeline (`src/resolve/mod.rs`) | policy lock, binding table | handle, process, reload | policy read under three separate locks, cache and flights shared between handlers | answered by a policy in force; own id, name, type and subnet; caching limits |
| Rate limiter (`src/resolve/mod.rs` 334-370) | token bucket per client | allow | one client's request drops other clients' buckets | acts as one bucket per client, never forgotten |
| Block lists, zones, dual stack, qqwry (`src/resolve/{block,custom,dualstack,qqwry}.rs`) | read-only once installed | lookups | label boundaries, longest match, binary search | agree with a reference definition |
| Query log (`src/store/logs.rs` 20-119) | channel, batch | write, flush loop | failing batches, timer against size | a row is inserted at most once, order kept, none stays in memory |
| UDP server (`src/server/udp.rs`) | channel, mutex of its receiver, workers | read, receive, handle, reply | a panic shrinks the pool, an abandoned flight blocks it | each datagram handled and logged once, or lost with a worker or the channel; the channel is served while a worker lives |
| TCP, DoH, codec, start-up (`src/server/*`, `src/proto.rs`, `src/main.rs`, ...) | connections | a thread per connection around `Pipeline::handle`, encode/decode | byte formats | every request is answered or refused |

Interactions: every server thread calls `Pipeline::handle`, which reads the policy (installed by the
API's `reload_all`), then the tiered cache, then the resolver through its singleflight, and stores the
result with `TieredCache::put`. The Redis writer and the L2 compactor are threads of their own.
API connections are served by one thread each. The hazards this exposes the code to are listed in
`PROJECT.json`, each with the properties that cover it or the reason none does yet.

## 2. Plan

Modelled: everything in the inventory but its last row. Each module composes as the code does:
`UdpServer` extends `Limiter` and `QueryLog`; `Pipeline` extends `Policy` and `Dualstack` and uses
`TieredCache`, `SingleFlight` and `Limiter` by what they promise (an entry is found until it is
dropped, flights are shared by key, any query may be refused).

Every safety property of a passing run, both refinements included, is also a theorem (section 5). Left:
the framing loops of the TCP and DoH servers and name compression of the codec, as models of their own.

## 3. Modules and their correspondence to the code

`PROJECT.json` maps each definition to its lines. One action is one lock-protected region, one SQL
statement or one message; unlocked code is split where another thread can intervene.

- **L2Store** (`l2.rs`). A file is the set of whole records it holds and its length; bytes of no
  record are torn fragments. `Open`, `ReplayRecord`, `ReplayEnd` are `open`/`replay`, with the short
  header read of the `BufReader`; `Put`, `PutFails`, `Delete`; `Compact*`, `CopyRecord`, `CopyEnd`,
  `CopyFails`, `Swap` and the four `SwapFails*` are `compact`; `GetResults` is what `get` may return;
  `Crash` loses up to `MaxLost` bytes of the tail; `SetClock` moves the wall clock either way. A swap that
  fails leaves handles on the temporary file; `CompactTrigger` does not look at them, so the next turn of
  `compaction_loop` truncates and copies into the very file they are open on. The copy's own
  handle has no append mode: it writes at its own position (`wpos`, `WriteAt`) over what puts have appended
  there in the meantime (`Overwrite`). `acked` and `puts` are history.
- **L2Contract** is what callers may rely on: an exact map; a compaction may fall back to part of its
  snapshot, a restart to anything once put. **L2Refinement** holds the refinement mapping.
- **SingleFlight** (`Resolver::resolve`). `Lookup`, `Claim`, `Resolved`/`Panic`, `Publish`,
  `RemoveEntry`, `CheckState`, `SpuriousWakeup`. Flights are freed with their last reference and may
  be allocated again.
- **ManagementApi** (`api/mod.rs`, `store`, `AuditWriter`, `Pipeline::reload`). A handler is
  `Request`, `Audit`, `Write`, four `Load*`, `Install`; each has its failing variants, `*AckLost` is a
  statement committed but reported as failed; `Restart` is `main`. `pooled` says whether MySQL answered
  when the process started: without a pool nothing is audited, writes fail, and the `Load*` return empty
  tables without an error, so that a reload answers ok and installs an empty policy. `versions` (every
  state the tables have had), `began` and `basis` (the versions between which the installed policy was
  read) are history. A row's hash is its position.
- **TieredCache** (`cache/mod.rs`, `l1.rs`, `redis.rs`). `Get`, `GetL2`, `MissL2`, `Fill`, `Promote`
  are `get`; `Put`, `StoreL2`, `Enqueue` are `put`; `Dequeue` is the writer; `Send`, `Receive`,
  `CommandFails`, `CommandTimesOut`, `Reconnect`, `ReconnectFails` are `Redis::cmd`. The server
  (`Serve`, `ServeLate`, `Reset`) is external. L2 is an exact map here, as in `L2Contract`. `delay` (the
  longest time a
  value spent between tiers) and `timedOut` are history.

- **Recurse** (`recurse.rs` 122-366). The stack is the calls of `iterative`; `Ask` is `do_resolve`,
  `Turn` the head of the loop, `NameServers` the loop over the NS records with its nested walks
  (`WithAddresses` is what the caller makes of their result), `QueryServer` and the six network steps
  are `query_servers`, `exchange` and `exchange_tcp`. Time passes only on the network; a reply takes at
  least one tick, a failing socket none. `sound` is the set of servers that answer within the probe
  timeout, chosen once; the others do anything. `sent`, `answered`, `ended` are history.
- **Pipeline** (`resolve/mod.rs`). `Begin`, `Subnet`, `Block`, `ZoneLookup`, `CacheLookup`, `Resolve`,
  `Store` are the numbered steps of `process`, one per access to shared state; `Finish` is the end of
  `handle`; `Reload`, `ReloadBindings` come from the API, `Expire` from the cache. `seen` and `bound`
  record the policies and binding tables in force during a query. An upstream answer keeps its OPT record
  and so its whole code in the cache; only messages made here pass through `encode`, which keeps four bits
  of the code and gives no bytes at all (`NoBytes`, `unwrap_or_default`) when the question or a zone's
  record holds a label of more than 63 bytes. `LongLabels` are such labels: `read_name` makes them out of
  22 or more bytes that are no UTF-8. The resolver's answers are to names that could be written.
- **Policy** (`block.rs`, `custom.rs`): names are sequences of labels; `LabelTail` says which labels
  end with the text of others, because the code compares text (the properties compare labels, `Under`);
  tables are sequences of rows, and the
  structures built from them are functions of the rows' positions. **Dualstack** (`dualstack.rs`,
  `qqwry.rs`, ECS of `proto.rs`): addresses are sequences of octets, masks and prefixes are computed;
  `SearchTurn` is one turn of the binary search, `Search` the loop.
- **Limiter** (`Limiter`): tokens and time in fractions of a second. **TokenBucket** is the abstract
  specification it refines: a level per client that refills and never is forgotten.
- **QueryLog** (`QueryLogWriter`, `flush_loop`, `flush_batch`): an insert stores a prefix of its batch;
  `logging` is false when MySQL was missing at the start, and `write` then drops the row.
- **UdpServer** (`udp.rs`): reader, channel, receiver mutex, workers, panics before and during
  resolution; composes limiter and log. What is answered or ignored before the limiter is asked is
  `Reject`. The last worker to die drops the receiver and with it everything queued, and the datagram
  whose `send` then fails is lost as well (`dropped`).

`MC*` modules give TLC its instances; `*Proofs` hold the theorems (`PolicyProofs` what `Pipeline`'s
operators compute, `PipelineProofs` the theorems about its steps).

## 4. Runs

| Run | Result | Shows |
|---|---|---|
| `l2_safe` | pass | index integrity, get returns only live puts, dead bytes, what a swap keeps, refinement of `L2Contract`; under crashes, torn tails, short reads, failed copies |
| `l2_faults` | pass | all six system calls may fail: a restart heals the store; once puts stop, every compaction ends, a retry on the temporary file too |
| `l2_race` | violation | a put between a compaction's snapshot and its swap is acknowledged and lost |
| `sf` | pass | deduplication, own removal, no lost wakeup, no result shared once its leader has returned; every call returns unless a leader panicked |
| `api` | pass | chain and logging properties under failures and restarts, with and without a pool; whatever reloads and writes interleave, the policy is made of tables that existed while its own reload ran |
| `api_stale` | violation | a reload that read the older tables installs last, over a write's newer policy |
| `tiered` | pass | L1 limit, promotions that do not chain, no mixing of keys before a timeout |
| `tiered_mixed` | violation | a reply later than the read timeout ends up under another key |
| `recurse` | pass | every resolution ends, at most one exchange after its deadline; nesting and queries are bounded by replies, though not by `recurse_max_depth`; dead servers are skipped |
| `pipeline` | pass | answers by a policy in force, own answers, caching limits, the log names the reply's code or nothing could be written, justified subnets; under reloads, shared flights, expiry |
| `pipeline_ecs` | violation | a shortened ECS address is decoded as none: its queries share cache entries with others |
| `udp` | pass | each datagram handled and logged once or lost with a worker or, after the last, with the channel; limiter refines `TokenBucket`; log rows in order, lost only in a failed insert; channel and buffer always drained, whatever workers panic or hang |

The four violations are findings: the code does not do what its documentation, comments or tests say.

**Bounds.** Two keys are the fewest that can be confused; two clients the fewest that race. L2: two
values, record lengths small and different, `BufLen` 5 so that a header crosses the buffer, `MaxFile`
4 and `DeadMin` 2 so that two records trigger a compaction, `MaxLen` for two or three records of three or
four bytes. In `l2_faults` the clock stands
still: expiry is `l2_safe`'s question. Singleflight: three threads (leader, follower, late caller) and four
flights, one more than can be referenced. API: three requests, so that one runs against the two racing ones.
Tiered cache: a shard limit of 1 makes every second insert evict; a DNS TTL of one tick, a promotion of
three and L1's `max_ttl` of two, so that every promotion outlives the DNS TTL and L2 outlives L1. `MCScope`
is the union of two scopes, whose product TLC could not finish: two keys, one failure of any kind and any
number of refused connects, two ticks, three calls (confusing keys needs no more time), and one key without
failures, nine ticks, four calls, hops of at most one tick (chaining promotions). There the bound of
`StalenessBounded` lies at tick 6, or 9 after a hop of one tick, within the clock; an answer is in fact
served up to three ticks before it, which is as late as whole seconds and strict comparisons allow. Lookups
that refill L2 from L2 exceed it in four calls. The queue of length 1 is a bound of the model only
(`Enqueue` waits, the code never does).
Resolver: budget 3, probe 2 and two reads, so that a clipped timeout, an overrun and four nested
walks happen; referrals of two names, lists of two servers, every set of dead servers. Pipeline: two
threads with one query each, or two in turn, of many kinds, and at most two policies per query; one name is
blocked by its own row and served by a zone, another by wildcards and by text alone, a third cannot be
written; ECS options are longer and shorter than `ecs_scope_max`, shortened, and of IPv6; two bindings have
one prefix; both geographic databases are loaded and agree on some addresses. UDP: three datagrams of two
clients, one key, one bucket allowed
so that every second client runs the cleanup, batches of two, one failed insert, both workers may panic.
`Finished` in `TieredCache` marks the end of the bounded run, so deadlocks are real.
Symmetry is used where only safety is checked.

**Fairness.** `SingleFlight`: weak fairness of every thread inside `resolve`; its upstream work ends
because each socket has a timeout and the walk a deadline. New calls, panics and spurious wakeups get none.
`L2Store`: weak fairness of the successful steps of the compaction thread and of `open`, both loops over a
file; no failure is ever forced to happen, so none is needed to end a compaction. That the file the copy
loop reads ends is not taken from the bound on its length: `CompactionEnds` has the premise that puts
stop (`AppendsStop`), because nothing in the code slows them down while the loop reads.
`Recurse`: weak fairness of the resolving thread as a whole; every socket operation has a timeout, and which
way it ends is left open. `UdpServer`: weak fairness of each worker and of the flusher, whose timer runs
out when nothing arrives; a worker stuck on an abandoned flight has no step, and nothing forces a
datagram, a panic, a tick or a successful insert.

## 5. Proofs

All for arbitrary constants, under the named assumptions of the modules: types and ranges of the
parameters, and two facts about data: `LabelTailAssumption` (what "ends with the text of" means for
labels) and `AddressesAssumption` (addresses have their octets, the entries of the IPv4 database are in
order, as a binary search needs). TLC evaluates each of them on the runs' instances.

- **L2StoreProofs**. `TypeCorrect` and `OpenHeals` hold whatever system calls fail: for the latter
  `ReplayOK` says that what replay has indexed so far it has just read. The others assume that only harmless
  failures (`HarmlessFailures`: copying and opening for writing) occur; after the rest the running store is
  unsound until it is reopened. `IndexIsSound`, `GetIsSound`: `IndexIntegrity` is not inductive; `IInv` adds
  that no two records start at the same byte, that all were put and lie within the file (`FilesOK`), that
  both handles are on the log and `size` is its length (`HandlesOK`), and the same of the new index over the
  temporary file (`NewIndexOK`). `SwapKeepsWhatItPassed`: `JInv` adds that records do not overlap
  (`Apart`), that the snapshot names one record of each key and nothing appended since (`LiveOK`), that what
  lies behind the reader has been copied (`CopiedOK`) and that what has been copied is of the snapshot
  (`NewFromLive`). `DeadBytesBounded`: the bytes of the entries are disjoint intervals of the log, so an
  overwrite or a delete moves exactly the old record's bytes to `dead_bytes` (`DeadOK`).
  `StoreImplementsContract`: `L2Store` refines `L2Contract`; put, delete, the snapshot, the end of a
  compaction, crash and replay's end are steps of the map, everything else is invisible; that offsets are
  unique is what makes appending invisible to the rest of the map, and `LiveOK` to the snapshot.
- **SingleFlightProofs**: `TypeCorrect`, `Deduplication`, `RemovalIsOwn`, `NoLostWakeup`, `SharedWhileInFlight`,
  `LeadersStay`. `FInv` says who holds a flight, that a flight
  belongs to one key in the map and in every thread, that a leader is the only one of its flight and the
  key still maps to it until the leader removes it, and that a flight of the map with a result has its leader
  about to remove it.
- **ManagementApiProofs**: `TypeCorrect`, `AuditChain`, `ChangesAreLogged`, `ReloadIsFaithful`. `AInv`
  adds that the last hash is the length of an unbroken log, where each handler's request is
  logged, that the tables in force are the last version (`VersionsOK`), and of which versions, in which order
  and from the reload's beginning on, each part a reload has read is (`LoadsOK`) and the policy was
  (`PolicyOK`).
- **TieredCacheProofs**: `TypeCorrect` (`TInv`: commands are well formed wherever they are, threads
  have their locals where they use them), `BoundedStaleness` (`SInv`: a bound for each tier, each
  reply and each value in transit, one delay per hop; the last stay, in L1, is the smaller of `Promo` and
  `MaxTtl`), `L1Capacity` (the shard is finite and making
  room leaves space for one), `NoMixing` (`MInv`: until a timeout the connection holds only the
  command of the mutex's holder or the reply to it).

- **RecurseProofs**: `DeadlineOverrun`, `RepliesTakeTime`, `RecurseTypes`, `WorkIsBounded`,
  `FailoverHolds`. `OverrunBounded` says nothing about the exchange under way; `OInv` adds that it began
  before the deadline with a timeout clipped to it and has spent at most one timeout per socket operation
  since (`InTime`), that its reply is already paid for once it is repeated over TCP (`Paid`), and that only
  the loop over the servers has an exchange under way (`WireOwned`). `SInv` charges the walks to replies:
  what a call on the stack may hold (`StackOK`, `WireInList`), that there are no more nested walks than
  replies (`Nested`), and the ledger that a reply buys at most `1 + 2 * MaxNs` rounds of queries (`Ledger`).
  `FInv` adds to `Failover` that, before the deadline, no server the loop has passed over was sound
  (`Skipped`), and that a timeout below the probe's reaches the deadline (`Clipped`).
- **UdpServerProofs**: `UdpTypes`, `RowsInOrder`, `LossBounded`, `LimiterRefines`,
  `DatagramsInOnePlace`. `ServerInv` joins the pool (who holds the mutex and which datagram, `PoolInv`),
  the log (rows in channel, buffer and batches are the rows written, in order, `LogInv`), its losses
  (`LossInv`) and the limiter's types; `LimiterRefines` shows that a forgotten bucket is a full one, so the
  map with its
  cleanup implements one `TokenBucket` per client; `DInv` says that each datagram read is queued, held by one worker,
  logged, lost with a worker or dropped with the channel, in one of these places only, and that none is
  dropped while a worker lives.
- **PolicyProofs** proves what the operators compute: the block list and the zone index say what their
  rows say, the zone found is the longest and, but for names claimed by text alone, the longest the name is
  under, label by label (`UnderIs`, `UnderEnds`, `UnderCompare`), what a zone makes of a name and when that
  cannot be written (`ZoneMakes`, `ZoneUnfit`), `msg_ttl` obeys its limits, the longest binding exists and
  the first row of its prefix counts. `SearchExact` is about the binary search. Its recursive function is a
  choice of a
  function that satisfies its equation; that one exists is shown by building the loop's states (`Runs`,
  `LoopStates`), and `SearchInv` holds after every turn by an induction that is stated for sets of numbers
  (`NatSetInduction`, from the least counterexample) and so needs no operator as a parameter.
- **PipelineProofs**: `PipelineTypes`, `PolicyHolds`, `OwnQuestion`, `CacheIsSound`, `RowTellsReply`,
  `SubnetIsJustified`, for any number of threads. `PInv` says where threads are (`Threads`), that policy
  and tables agree (`InForce`), what each thread holds where (`Working`: asked, resolved for its own key,
  replied) and that a cached message was resolved for its key within its limits (`Cached`). `Following` ties
  the histories to the present, `Obeying` says which lookups a query has already passed under some policy in
  force, `Sending` that its subnet is justified.

Only model-checked: the liveness properties (`CompactionEnds`, `CallsReturnOrOrphaned`, `Terminates`,
`EveryDatagramServed`, `EveryRowLeaves`), which need fairness and are beyond the prover, and the four
violations.

## 6. Limits

Known behaviour that the models contain and no violation run singles out:

- L2 store: a torn tail is not truncated on open, so records appended after it are lost by the next
  replay (`l2.rs` 14-16); a record header across the 8 KiB buffer of the `BufReader` ends the replay of
  an intact log (260); a failed rename or reopen leaves the old index with handles on the temporary file
  (231-244) until a
  restart or a later compaction that succeeds, which still leaves `size` short if a put reached the
  temporary file while it copied; each retry, 30 s apart, truncates the file the handles are on; a failed
  append leaves `size` short of the file (138); a delete writes no tombstone, so a
  restart brings the key back; nothing evicts, `L2_MAX_BYTES` only triggers compactions (326).
- Singleflight: after a leader's panic its flight stays claimed and unpublished and every later caller
  of the key waits for ever (`recurse.rs` 99); `UdpServer` contains what that does to the pool.
- Audit log: an insert committed but reported as failed is followed by a row with the same `prev_hash`
  (`logs.rs` 170): the chain forks, which `ChainBreaksOnlyOnLostHash` excludes by name.
- Resolver: the CNAME loop of `do_resolve` cannot be reached (`recurse.rs` 131-136 return before it), so
  an answer that ends in a CNAME goes to the client as it is.
- API: a process that started without MySQL has no pool for its lifetime; POST /reload answers ok and
  installs an empty policy (`store/mod.rs` 61), which `PolicyFromItsReload` names.
- Tiered cache: a promotion can put an older answer over a newer one stored between its L2 lookup and its
  L1 put (`cache/mod.rs` 67); no property forbids it, `StalenessBounded` limits how old it can be. The
  channel to the Redis writer is unbounded (89).
- Log and reply: where `encode` fails the client gets no bytes and the row names SERVFAIL, REFUSED,
  NXDOMAIN or NOERROR all the same (`resolve/mod.rs` 295-308); `LogTellsReply` says exactly when.
- UDP: after the last worker's death everything queued is lost without a row (`udp.rs` 29-30, 38-55).
- Zones: a zone matches by text, without a label boundary (`custom.rs` 50): with a zone `ex.com`, `notex.com`
  is answered from it, though the comments (`custom.rs` 6 and 59) say that names outside any zone fall
  through to recursion; `PolicyInForce` compares labels and excepts such names (`TextOnly`). A name with records of
  another type only is answered from the wildcard or with NXDOMAIN (97-110).
- Codec: BADVERS (16) goes out as NOERROR, the header holds four bits and no extended code is written.
- Qqwry: the search runs over entry numbers but starts with the byte offsets of the index
  (`qqwry.rs` 89-90), so in a real file it finds nothing, and with both databases loaded no subnet is
  derived; where it finds an entry it is the right one (`SearchExact`). With one database missing the check
  is skipped.

`AnswersOwnQuestion` takes the cache to be exact: an entry is found under the key it was stored under. That
the tiered cache can break this after a Redis timeout is `tiered_mixed`'s finding.

Not modelled: replies of Redis cut in the middle, and a command half written when its 3 s write timeout
passes; `del`, `purge_prefix` and `ping`, which have no
caller; a cache without Redis (a subset of the behaviours here); concurrent instances of the server
on one database (the audit chain assumes one); checksum collisions; the TCP and DoH loops (a thread
per connection, no shared state but the pipeline), byte formats of the codec, start-up and
configuration, for the reasons given with the components in `PROJECT.json`.
