------------------------------ MODULE L2Store ------------------------------
(***************************************************************************)
(* The L2 cache of dnsd (src/cache/l2.rs): a Bitcask-style append-only log *)
(* with an in-memory index, a background compaction thread, and replay of  *)
(* the log when the process starts.                                        *)
(*                                                                         *)
(* A file is the set of whole records it holds and its length in bytes.    *)
(* Bytes that belong to no record are the fragments torn off by a crash or *)
(* by a failed write; read_record stops at them because their checksum (or *)
(* magic byte) does not match.  Every lock-protected region of the code is *)
(* one step; the copy loop of compact(), which runs without the lock, takes*)
(* one step per record, so puts and deletes interleave with it.            *)
(***************************************************************************)
EXTENDS Naturals, FiniteSets

CONSTANTS
    Keys,       \* cache keys
    Vals,       \* encoded DNS answers
    Answers,    \* Answers[k]: the answers callers put under key k
    HeaderLen,  \* HEADER_LEN
    BodyLen,    \* BodyLen[k][v]: key_len + val_len of a record
    BufLen,     \* capacity of the BufReader that scans the log
    MaxFile,    \* max_file_bytes
    DeadMin,    \* the 64 MiB of compaction_loop
    TTLs,       \* positive values of ttl_secs
    MaxLost,    \* bytes of the unsynced tail a crash can lose (0: a kill)
    Failures,   \* system calls that may fail, a subset of FailurePoints
    MaxLen,     \* bound on the log and on size, in put's guard
    MaxTime     \* bound on the clock

FailurePoints == {"append", "copy", "open_w", "open_r", "rename", "reopen"}

\* A failure of these system calls leaves the running store as it was.
HarmlessFailures == {"copy", "open_w"}

ASSUME LengthsAssumption ==
    /\ HeaderLen \in Nat \ {0}
    /\ Answers \in [Keys -> SUBSET Vals]
    /\ BodyLen \in [Keys -> [Vals -> Nat]]
    /\ BufLen \in Nat /\ BufLen > HeaderLen

ASSUME LimitsAssumption ==
    /\ {MaxFile, DeadMin, MaxLost, MaxLen, MaxTime} \subseteq Nat
    /\ TTLs \subseteq Nat \ {0}
    /\ Failures \subseteq FailurePoints

VARIABLES
    data,       \* the file data.log
    tmp,        \* the file data.log.tmp
    wh, rh,     \* the file write_file / read_file are open on: "data" or "tmp"
    index,      \* inner.index: a partial function from keys to entries
    size,       \* inner.size
    dead,       \* inner.dead_bytes
    pc,         \* what open() or the compaction thread is doing
    live,       \* live_offsets of the running compact()
    rd,         \* the BufReader of replay() or compact()
    newIndex,   \* new_index of the running compact()
    wpos,       \* offset of the running compact(): its place in the temporary file
    now,        \* now_ms(); the system clock can be set back
    acked,      \* history: the last put of each key that was acknowledged and
                \*   that neither a delete nor a crash has taken back
    puts        \* history: everything put() was ever asked to store

memory == <<wh, rh, index, size, dead>>
vars == <<data, tmp, wh, rh, index, size, dead, pc, live, rd, newIndex, wpos,
          now, acked, puts>>

-----------------------------------------------------------------------------
\* Files, records and the index

Record == [off : Nat, key : Keys, val : Vals, exp : Nat]
Entry  == [off : Nat, len : Nat, exp : Nat]
Stored == [key : Keys, val : Vals, exp : Nat]

RecLen(k, v) == HeaderLen + BodyLen[k][v]
EndOf(r) == r.off + RecLen(r.key, r.val)

EmptyFile == [recs |-> {}, len |-> 0]
EmptyMap == [k \in {} |-> 0]

\* A handle opened with append(true) writes at the end of the file.
AppendRec(f, k, v, e) ==
    [recs |-> f.recs \cup {[off |-> f.len, key |-> k, val |-> v, exp |-> e]},
     len  |-> f.len + RecLen(k, v)]

\* A handle opened without append(true) writes at its own offset: the n bytes from
\* pos on are replaced, and with them every record they belong to.
Overwrite(f, pos, n) ==
    [recs |-> {r \in f.recs : EndOf(r) <= pos \/ r.off >= pos + n},
     len  |-> IF pos + n <= f.len THEN f.len ELSE pos + n]

WriteAt(f, pos, k, v, e) ==
    LET g == Overwrite(f, pos, RecLen(k, v))
    IN  [g EXCEPT !.recs = @ \cup {[off |-> pos, key |-> k, val |-> v,
                                    exp |-> e]}]

\* What is left of a file when everything from byte c on is lost.
Cut(f, c) == [recs |-> {r \in f.recs : EndOf(r) <= c}, len |-> c]

FileOf(h) == IF h = "data" THEN data ELSE tmp

\* HashMap::insert and HashMap::remove
Insert(f, k, x) == [i \in DOMAIN f \cup {k} |-> IF i = k THEN x ELSE f[i]]
Remove(f, k) == [i \in DOMAIN f \ {k} |-> f[i]]

Expired(e) == now >= e.exp

Lesser(a, b) == IF a <= b THEN a ELSE b

-----------------------------------------------------------------------------
\* read_record over a BufReader.  A reader is at byte pos of its file and has
\* buffered the bytes up to fill.

Rewound == [pos |-> 0, fill |-> 0]

\* The buffer's end after r.read(&mut hdr): refilled only if it was empty.
BufferEnd(f, r) ==
    IF r.pos < r.fill THEN r.fill ELSE Lesser(r.pos + BufLen, f.len)

\* r.read returns fewer than HEADER_LEN bytes when the header crosses the end
\* of the buffer, not only at the end of the file.
HeaderRead(f, r) == r.pos + HeaderLen <= BufferEnd(f, r)

\* The records read_record returns: at most one, none when the loop stops.
ReadRecord(f, r) == {x \in f.recs : x.off = r.pos /\ HeaderRead(f, r)}

\* The reader after record x: read_exact takes the rest of the buffer, then
\* refills it, or bypasses it for a remainder of BufLen bytes or more.
Advance(f, r, x) ==
    LET end == EndOf(x)
        b   == BufferEnd(f, r)
    IN  [pos  |-> end,
         fill |-> IF end <= b THEN b
                  ELSE IF end >= b + BufLen THEN end
                  ELSE Lesser(b + BufLen, f.len)]

-----------------------------------------------------------------------------
Init ==
    /\ data = EmptyFile /\ tmp = EmptyFile
    /\ wh = "data" /\ rh = "data"
    /\ index = EmptyMap /\ size = 0 /\ dead = 0
    /\ pc = "down"
    /\ live = {} /\ rd = Rewound /\ newIndex = EmptyMap /\ wpos = 0
    /\ now = 0
    /\ acked = EmptyMap /\ puts = {}

Running == pc \notin {"down", "replay"}

\* The locals of replay() and compact() end with the call.
DropLocals == live' = {} /\ rd' = Rewound /\ newIndex' = EmptyMap /\ wpos' = 0

\* L2Store::open starts: replay() opens the log with an empty index.
Open ==
    /\ pc = "down"
    /\ pc' = "replay" /\ rd' = Rewound /\ index' = EmptyMap
    /\ UNCHANGED <<data, tmp, wh, rh, size, dead, live, newIndex, wpos, now, acked,
                   puts>>

\* Mutant: the offset is taken after read_offset has been advanced.
ReplayRecordLateOffset ==
    /\ pc = "replay"
    /\ \E x \in ReadRecord(data, rd) :
        /\ index' = Insert(index, x.key, [off |-> EndOf(x),
                                          len |-> RecLen(x.key, x.val),
                                          exp |-> x.exp])
        /\ rd' = Advance(data, rd, x)
    /\ UNCHANGED <<data, tmp, wh, rh, size, dead, pc, live, newIndex, wpos, now,
                   acked, puts>>

ReplayRecord ==
    /\ pc = "replay"
    /\ \E x \in ReadRecord(data, rd) :
        /\ index' = Insert(index, x.key, [off |-> x.off,
                                          len |-> RecLen(x.key, x.val),
                                          exp |-> x.exp])
        /\ rd' = Advance(data, rd, x)
    /\ UNCHANGED <<data, tmp, wh, rh, size, dead, pc, live, newIndex, wpos, now,
                   acked, puts>>

\* read_record returned None: open() opens its handles, takes the size from the
\* file's metadata and spawns compaction_loop.
ReplayEnd ==
    /\ pc = "replay"
    /\ ReadRecord(data, rd) = {}
    /\ wh' = "data" /\ rh' = "data"
    /\ size' = data.len /\ dead' = 0
    /\ pc' = "idle" /\ DropLocals
    /\ UNCHANGED <<data, tmp, index, now, acked, puts>>

\* put() with a positive ttl (any other returns at once): append, then index.
PutDead(k) == IF k \in DOMAIN index THEN index[k].len ELSE 0

Put(k, v, ttl) ==
    LET exp == now + ttl
    IN  /\ Running
        /\ FileOf(wh).len + RecLen(k, v) <= MaxLen
        /\ size + RecLen(k, v) <= MaxLen
        /\ IF wh = "data"
           THEN data' = AppendRec(data, k, v, exp) /\ tmp' = tmp
           ELSE tmp' = AppendRec(tmp, k, v, exp) /\ data' = data
        /\ size' = size + RecLen(k, v)
        /\ index' = Insert(index, k, [off |-> size, len |-> RecLen(k, v),
                                      exp |-> exp])
        /\ dead' = dead + PutDead(k)
        /\ acked' = Insert(acked, k, [val |-> v, exp |-> exp])
        /\ puts' = puts \cup {[key |-> k, val |-> v, exp |-> exp]}
        /\ UNCHANGED <<wh, rh, pc, live, rd, newIndex, wpos, now>>

\* write_all fails after n bytes of the record: put() returns the error, and
\* neither the file is cut back nor size adjusted.
PutFails(k, v, n) ==
    /\ Running /\ "append" \in Failures
    /\ n < RecLen(k, v)
    /\ FileOf(wh).len + n <= MaxLen
    /\ IF wh = "data"
       THEN data' = [data EXCEPT !.len = @ + n] /\ tmp' = tmp
       ELSE tmp' = [tmp EXCEPT !.len = @ + n] /\ data' = data
    /\ UNCHANGED <<wh, rh, index, size, dead, pc, live, rd, newIndex, wpos, now,
                   acked, puts>>

\* delete() touches the index only: no tombstone is written.
Delete(k) ==
    /\ Running
    /\ k \in DOMAIN index
    /\ index' = Remove(index, k)
    /\ dead' = dead + index[k].len
    /\ acked' = Remove(acked, k)
    /\ UNCHANGED <<data, tmp, wh, rh, size, pc, live, rd, newIndex, wpos, now, puts>>

-----------------------------------------------------------------------------
\* compaction_loop and compact()

ShouldCompact ==
    \/ size > MaxFile
    \/ dead > size \div 2 /\ dead > DeadMin

\* The loop reads dead_bytes and size under the lock and releases it.  After a
\* failed swap the next turn compacts again, whatever the handles are open on.
CompactTrigger ==
    /\ pc = "idle"
    /\ ShouldCompact
    /\ pc' = "snapshot"
    /\ UNCHANGED <<data, tmp, memory, live, rd, newIndex, wpos, now, acked, puts>>

\* The offsets of the unexpired entries, collected under the lock.
LiveOffsets == {index[k].off : k \in {j \in DOMAIN index : ~Expired(index[j])}}

CompactSnapshot ==
    /\ pc = "snapshot"
    /\ live' = LiveOffsets
    /\ pc' = "truncate"
    /\ UNCHANGED <<data, tmp, memory, rd, newIndex, wpos, now, acked, puts>>

\* Open the temporary file with truncate(true), and a reader on the log.
CompactOpen ==
    /\ pc = "truncate"
    /\ tmp' = EmptyFile /\ rd' = Rewound /\ newIndex' = EmptyMap /\ wpos' = 0
    /\ pc' = "copy"
    /\ UNCHANGED <<data, memory, live, now, acked, puts>>

\* Mutant: the new index keeps the offset in the old log.
CopyRecordOldOffset ==
    /\ pc = "copy"
    /\ \E x \in ReadRecord(data, rd) :
        /\ rd' = Advance(data, rd, x)
        /\ IF x.off \in live
           THEN /\ tmp' = WriteAt(tmp, wpos, x.key, x.val, x.exp)
                /\ wpos' = wpos + RecLen(x.key, x.val)
                /\ newIndex' = Insert(newIndex, x.key,
                                 [off |-> x.off,
                                  len |-> RecLen(x.key, x.val),
                                  exp |-> x.exp])
           ELSE UNCHANGED <<tmp, newIndex, wpos>>
    /\ UNCHANGED <<data, memory, pc, live, now, acked, puts>>

\* Mutant: every record is copied, live or not.
CopyRecordAll ==
    /\ pc = "copy"
    /\ \E x \in ReadRecord(data, rd) :
        /\ rd' = Advance(data, rd, x)
        /\ tmp' = WriteAt(tmp, wpos, x.key, x.val, x.exp)
        /\ wpos' = wpos + RecLen(x.key, x.val)
        /\ newIndex' = Insert(newIndex, x.key, [off |-> wpos,
                                               len |-> RecLen(x.key, x.val),
                                               exp |-> x.exp])
    /\ UNCHANGED <<data, memory, pc, live, now, acked, puts>>

\* One turn of the copy loop, without the lock.  Puts can append to the log being
\* read and, after a failed swap, to the very file being written.
CopyRecord ==
    /\ pc = "copy"
    /\ \E x \in ReadRecord(data, rd) :
        /\ rd' = Advance(data, rd, x)
        /\ IF x.off \in live
           THEN /\ tmp' = WriteAt(tmp, wpos, x.key, x.val, x.exp)
                /\ wpos' = wpos + RecLen(x.key, x.val)
                /\ newIndex' = Insert(newIndex, x.key,
                                 [off |-> wpos,
                                  len |-> RecLen(x.key, x.val),
                                  exp |-> x.exp])
           ELSE UNCHANGED <<tmp, newIndex, wpos>>
    /\ UNCHANGED <<data, memory, pc, live, now, acked, puts>>

\* Mutant: a short or corrupt header is retried instead of ending the loop.
CopyEndAtEof ==
    /\ pc = "copy"
    /\ rd.pos = data.len
    /\ pc' = "swap"
    /\ UNCHANGED <<data, tmp, memory, live, rd, newIndex, wpos, now, acked, puts>>

\* The copy loop ends where read_record returns None.
CopyEnd ==
    /\ pc = "copy"
    /\ ReadRecord(data, rd) = {}
    /\ pc' = "swap"
    /\ UNCHANGED <<data, tmp, memory, live, rd, newIndex, wpos, now, acked, puts>>

\* Opening the temporary file or the log fails, before or after the truncation,
\* or a write does after n bytes: compact() returns the error.
CopyFails ==
    /\ "copy" \in Failures
    /\ \/ pc \in {"truncate", "copy"} /\ tmp' = tmp
       \/ pc = "truncate" /\ tmp' = EmptyFile
       \/ /\ pc = "copy"
          /\ \E x \in ReadRecord(data, rd) :
                /\ x.off \in live
                /\ \E n \in 0..(RecLen(x.key, x.val) - 1) :
                      tmp' = Overwrite(tmp, wpos, n)
    /\ pc' = "idle" /\ DropLocals
    /\ UNCHANGED <<data, memory, now, acked, puts>>

\* Mutant: dead_bytes is not reset.
SwapKeepsDead ==
    /\ pc = "swap"
    /\ data' = tmp /\ tmp' = EmptyFile
    /\ wh' = "data" /\ rh' = "data"
    /\ size' = wpos /\ dead' = dead /\ index' = newIndex
    /\ pc' = "idle" /\ DropLocals
    /\ UNCHANGED <<now, acked, puts>>

\* Mutant: dead_bytes is lowered by what the compaction reclaimed.
SwapSubtractsDead ==
    /\ pc = "swap"
    /\ data' = tmp /\ tmp' = EmptyFile
    /\ wh' = "data" /\ rh' = "data"
    /\ size' = wpos /\ dead' = dead - (size - wpos) /\ index' = newIndex
    /\ pc' = "idle" /\ DropLocals
    /\ UNCHANGED <<now, acked, puts>>

\* The swap, under the lock: both handles to the temporary file, rename it to
\* data.log, reopen both, and replace size (by what the compaction wrote),
\* dead_bytes and index.
Swap ==
    /\ pc = "swap"
    /\ data' = tmp /\ tmp' = EmptyFile
    /\ wh' = "data" /\ rh' = "data"
    /\ size' = wpos /\ dead' = 0 /\ index' = newIndex
    /\ pc' = "idle" /\ DropLocals
    /\ UNCHANGED <<now, acked, puts>>

\* The first open fails: nothing has changed yet.
SwapFailsOpenWrite ==
    /\ pc = "swap" /\ "open_w" \in Failures
    /\ pc' = "idle" /\ DropLocals
    /\ UNCHANGED <<data, tmp, memory, now, acked, puts>>

\* The second open fails: writes now go to the temporary file.
SwapFailsOpenRead ==
    /\ pc = "swap" /\ "open_r" \in Failures
    /\ wh' = "tmp"
    /\ pc' = "idle" /\ DropLocals
    /\ UNCHANGED <<data, tmp, rh, index, size, dead, now, acked, puts>>

\* The rename fails: both handles stay on the temporary file, the index and the
\* size are still those of data.log.
SwapFailsRename ==
    /\ pc = "swap" /\ "rename" \in Failures
    /\ wh' = "tmp" /\ rh' = "tmp"
    /\ pc' = "idle" /\ DropLocals
    /\ UNCHANGED <<data, tmp, index, size, dead, now, acked, puts>>

\* Reopening after the rename fails: the handles are on the new data.log, the
\* index and the size are those of the old one.
SwapFailsReopen ==
    /\ pc = "swap" /\ "reopen" \in Failures
    /\ data' = tmp /\ tmp' = EmptyFile
    /\ wh' = "data" /\ rh' = "data"
    /\ pc' = "idle" /\ DropLocals
    /\ UNCHANGED <<index, size, dead, now, acked, puts>>

-----------------------------------------------------------------------------
\* The environment

\* The process dies.  Its memory is gone; the unsynced tail of the log may be
\* lost from byte c on.  A write in progress is a put cut short here.
Crash(c) ==
    /\ pc # "down"
    /\ c <= data.len /\ data.len <= c + MaxLost
    /\ data' = Cut(data, c)
    /\ acked' = [k \in {j \in DOMAIN acked :
                          \E r \in Cut(data, c).recs :
                             /\ r.key = j
                             /\ r.val = acked[j].val
                             /\ r.exp = acked[j].exp} |-> acked[k]]
    /\ wh' = "data" /\ rh' = "data" /\ index' = EmptyMap /\ size' = 0
    /\ dead' = 0
    /\ pc' = "down" /\ DropLocals
    /\ UNCHANGED <<tmp, now, puts>>

SetClock(t) ==
    /\ now' = t
    /\ UNCHANGED <<data, tmp, memory, pc, live, rd, newIndex, wpos, acked, puts>>

\* The compaction thread's steps when no system call fails.
CompactStep ==
    CompactTrigger \/ CompactSnapshot \/ CompactOpen \/ CopyRecord \/ CopyEnd
    \/ Swap

Compactor ==
    \/ CompactStep
    \/ CopyFails \/ SwapFailsOpenWrite \/ SwapFailsOpenRead \/ SwapFailsRename
    \/ SwapFailsReopen

Client ==
    \E k \in Keys :
        \/ \E v \in Answers[k] :
            \/ \E ttl \in TTLs : Put(k, v, ttl)
            \/ \E n \in 0..(RecLen(k, v) - 1) : PutFails(k, v, n)
        \/ Delete(k)

Next ==
    \/ Open \/ ReplayRecord \/ ReplayEnd
    \/ Client
    \/ Compactor
    \/ \E c \in 0..data.len : Crash(c)
    \/ \E t \in 0..MaxTime : SetClock(t)

Spec == Init /\ [][Next]_vars

\* The compaction thread and the thread in open() are scheduled by the OS and
\* run whenever they can; nothing makes a client call, a failure or a crash
\* happen.
FairSpec == Spec /\ WF_vars(CompactStep)
                 /\ WF_vars(Open \/ ReplayRecord \/ ReplayEnd)

-----------------------------------------------------------------------------
\* get()

\* The results get(k) may return: it checks the expiry and the magic byte,
\* neither the key nor the checksum.  A read that does not start at a record
\* may miss or return bytes that are no one's value.
Miss == [found |-> "miss"]
Garbage == [found |-> "garbage"]
Hit(v) == [found |-> "hit", val |-> v]

\* Mutant: the expiry is not checked.
GetResultsNoExpiry(k) ==
    IF ~Running \/ k \notin DOMAIN index THEN {Miss}
    ELSE {Hit(r.val) : r \in {x \in FileOf(rh).recs : x.off = index[k].off}}

GetResults(k) ==
    IF ~Running \/ k \notin DOMAIN index \/ Expired(index[k]) THEN {Miss}
    ELSE LET at == {r \in FileOf(rh).recs : r.off = index[k].off}
         IN  IF at # {} THEN {Hit(r.val) : r \in at}
             ELSE IF index[k].off + HeaderLen > FileOf(rh).len THEN {Miss}
             ELSE {Miss, Garbage}

-----------------------------------------------------------------------------
\* Properties

IsMap(f, S) ==
    /\ DOMAIN f \subseteq Keys
    /\ f = [k \in DOMAIN f |-> f[k]]
    /\ \A k \in DOMAIN f : f[k] \in S

IsFile(f) ==
    /\ f = [recs |-> f.recs, len |-> f.len]
    /\ f.recs \subseteq Record
    /\ f.len \in Nat

\* The type of every variable.
TypeOK ==
    /\ IsFile(data) /\ IsFile(tmp)
    /\ wh \in {"data", "tmp"} /\ rh \in {"data", "tmp"}
    /\ IsMap(index, Entry) /\ IsMap(newIndex, Entry)
    /\ size \in Nat /\ dead \in Nat
    /\ pc \in {"down", "replay", "idle", "snapshot", "truncate", "copy", "swap"}
    /\ live \subseteq Nat /\ wpos \in Nat
    /\ rd \in [pos : Nat, fill : Nat]
    /\ now \in Nat
    /\ IsMap(acked, [val : Vals, exp : Nat])
    /\ puts \subseteq Stored

\* Entry e describes a whole record of key k in file f.
Describes(e, k, f) ==
    \E r \in f.recs : /\ r.off = e.off /\ r.key = k /\ r.exp = e.exp
                      /\ RecLen(r.key, r.val) = e.len

\* get() reads the record at the indexed offset and checks neither key nor
\* checksum, so every index entry must point at a whole record of its own key
\* with its own expiry in the file read_file is open on: through concurrent
\* puts, deletes, compactions, crashes with torn tails, and replays.
IndexIntegrity ==
    /\ Running => \A k \in DOMAIN index : Describes(index[k], k, FileOf(rh))
    /\ pc = "replay" => \A k \in DOMAIN index : Describes(index[k], k, data)

\* get() never returns another key's answer, bytes of no record, or an answer
\* past the expiry its put gave it: what it returns for k was put under k.
GetReturnsOnlyPuts ==
    \A k \in Keys : \A g \in GetResults(k) :
        \/ g = Miss
        \/ \E p \in puts : p.key = k /\ g = Hit(p.val) /\ now < p.exp

\* The bytes of entry e, and those of all indexed records.
Bytes(e) == e.off..(e.off + e.len - 1)
UsedBytes == UNION {Bytes(index[k]) : k \in DOMAIN index}

\* dead_bytes decides when the log is compacted: no two entries share a byte, and
\* the bytes of the indexed records and dead_bytes never exceed size together,
\* through puts, deletes, swaps and replays, so the compaction thread is never
\* woken for bytes still in use.
DeadBytesAreDead ==
    Running => /\ \A j, k \in DOMAIN index :
                    j # k => Bytes(index[j]) \cap Bytes(index[k]) = {}
               /\ Cardinality(UsedBytes) + dead <= size

\* A value that put() acknowledged, that has not expired and that no later put,
\* delete or crash has taken back, is what get() returns.
ReadYourWrites ==
    Running => \A k \in DOMAIN acked :
        now < acked[k].exp => GetResults(k) = {Hit(acked[k].val)}

\* The swap loses no entry the copy loop has passed: an entry that is still the
\* one of the snapshot, and lies before the point where the scan stopped, is in
\* the new index with the same record; and the swap brings in nothing that was
\* not in the snapshot.
SwapKeepsSnapshot ==
    [][(pc = "swap" /\ pc' = "idle" /\ index' # index) =>
        /\ \A k \in DOMAIN index :
             (index[k].off \in live /\ index[k].off < rd.pos) =>
                /\ k \in DOMAIN index'
                /\ \E r \in data.recs, s \in data'.recs :
                     /\ r.off = index[k].off /\ s.off = index'[k].off
                     /\ [r EXCEPT !.off = 0] = [s EXCEPT !.off = 0]
        /\ \A k \in DOMAIN index' : \E r \in data.recs :
             r.off \in live /\ r.key = k /\ r.exp = index'[k].exp]_vars

\* Opening the store repairs what failed writes and failed swaps did to the
\* running one: after the replay every index entry is sound again and new
\* records are indexed where they are appended, whatever bytes the log holds.
RestartHeals ==
    [][(pc = "replay" /\ pc' = "idle") =>
        IndexIntegrity' /\ size' = FileOf(wh)'.len]_vars

\* From some moment on no put appends to the log.  Nothing in the code slows
\* puts down while the copy loop reads the same file.
AppendsStop ==
    <>[][\A k \in Keys, v \in Vals, ttl \in TTLs : ~Put(k, v, ttl)]_vars

\* Once callers stop appending, a compaction that has started ends, successfully
\* or not, or the process dies: whatever fragments of failed writes the copy loop
\* meets, and also when it is the retry of a failed swap, with the store's
\* handles still on the temporary file it truncates and writes.
CompactionEnds ==
    AppendsStop => (pc \in {"snapshot", "truncate", "copy", "swap"}
                      ~> pc \in {"idle", "down"})

=============================================================================
