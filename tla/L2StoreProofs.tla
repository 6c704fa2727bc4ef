--------------------------- MODULE L2StoreProofs ---------------------------
(***************************************************************************)
(* Proofs about L2Store for every set of keys and values, every record     *)
(* length, buffer size, limit and bound.  The types, and what opening the   *)
(* store repairs, hold whatever system calls fail; the rest holds as long   *)
(* as none fails in a way compact() or put() does not recover from          *)
(* (Failures \subseteq HarmlessFailures).                                   *)
(***************************************************************************)
EXTENDS L2Refinement, FiniteSetTheorems, TLAPS

\* A file's records lie within it, and no two start at the same byte.
FileOK(f) ==
    /\ \A r \in f.recs : EndOf(r) <= f.len
    /\ \A r, s \in f.recs : r.off = s.off => r = s

\* Everything on disk came from a put.
FromPuts(f) ==
    \A r \in f.recs : [key |-> r.key, val |-> r.val, exp |-> r.exp] \in puts

FilesOK == FileOK(data) /\ FileOK(tmp) /\ FromPuts(data) /\ FromPuts(tmp)

\* The handles never leave data.log, and size is where the next record goes.
HandlesOK == wh = "data" /\ rh = "data" /\ (Running => size = data.len)

IndexOK ==
    pc # "down" => \A k \in DOMAIN index : Describes(index[k], k, data)

\* The compaction is the only writer of the temporary file, so it writes at its end.
NewIndexOK ==
    pc \in {"copy", "swap"} =>
        /\ wpos = tmp.len
        /\ \A k \in DOMAIN newIndex : Describes(newIndex[k], k, tmp)

\* The inductive invariant.
IInv == TypeOK /\ FilesOK /\ HandlesOK /\ IndexOK /\ NewIndexOK

-----------------------------------------------------------------------------
\* Lemmas about the operators

\* A record is never empty.
LEMMA RecLenPositive ==
    \A k \in Keys, v \in Vals : RecLen(k, v) \in Nat /\ RecLen(k, v) > 0
BY LengthsAssumption DEF RecLen

LEMMA EmptyIsMap == ASSUME NEW S PROVE IsMap(EmptyMap, S)
BY DEF IsMap, EmptyMap

LEMMA EmptyIsFile == IsFile(EmptyFile) /\ FileOK(EmptyFile)
BY DEF IsFile, FileOK, EmptyFile

\* HashMap::insert and HashMap::remove keep a map a map.
LEMMA InsertIsMap ==
    ASSUME NEW S, NEW f, IsMap(f, S), NEW k \in Keys, NEW x \in S
    PROVE  IsMap(Insert(f, k, x), S)
BY DEF IsMap, Insert

LEMMA RemoveIsMap ==
    ASSUME NEW S, NEW f, IsMap(f, S), NEW k
    PROVE  IsMap(Remove(f, k), S)
BY DEF IsMap, Remove

\* Appending keeps a file sound and keeps its records.
LEMMA AppendFile ==
    ASSUME NEW f, IsFile(f), FileOK(f),
           NEW k \in Keys, NEW v \in Vals, NEW e \in Nat
    PROVE  /\ IsFile(AppendRec(f, k, v, e))
           /\ FileOK(AppendRec(f, k, v, e))
<1> DEFINE n == [off |-> f.len, key |-> k, val |-> v, exp |-> e]
           g == AppendRec(f, k, v, e)
<1>1. /\ n \in Record /\ EndOf(n) = f.len + RecLen(k, v)
      /\ RecLen(k, v) \in Nat /\ RecLen(k, v) > 0 /\ f.len \in Nat
  BY RecLenPositive DEF IsFile, Record, EndOf
<1>2. \A r \in f.recs : /\ r \in Record /\ RecLen(r.key, r.val) \in Nat
                        /\ RecLen(r.key, r.val) > 0
                        /\ EndOf(r) = r.off + RecLen(r.key, r.val)
                        /\ r.off \in Nat
  BY RecLenPositive DEF IsFile, Record, EndOf
<1>3. g.recs = f.recs \cup {n} /\ g.len = f.len + RecLen(k, v)
  BY DEF AppendRec
<1>4. IsFile(g)
  BY <1>1, <1>3 DEF IsFile, AppendRec
<1>5. \A r \in f.recs : r.off < f.len /\ EndOf(r) <= f.len + RecLen(k, v)
  BY <1>1, <1>2 DEF FileOK
<1>6. \A r \in g.recs : EndOf(r) <= g.len
  <2> TAKE r \in g.recs
  <2>1. CASE r = n
    BY <2>1, <1>1, <1>3
  <2>2. CASE r \in f.recs
    BY <2>2, <1>3, <1>5
  <2> QED
    BY <2>1, <2>2, <1>3
<1>7. \A r, s \in g.recs : r.off = s.off => r = s
  <2> TAKE r, s \in g.recs
  <2>1. n.off = f.len
    OBVIOUS
  <2> HIDE DEF n, g
  <2>2. CASE r = n /\ s = n
    BY <2>2
  <2>3. CASE r \in f.recs /\ s \in f.recs
    BY <2>3 DEF FileOK
  <2>4. CASE r = n /\ s \in f.recs
    BY <2>1, <2>4, <1>1, <1>2, <1>5
  <2>5. CASE r \in f.recs /\ s = n
    BY <2>1, <2>5, <1>1, <1>2, <1>5
  <2> QED
    BY <2>2, <2>3, <2>4, <2>5, <1>3
<1> QED
  BY <1>4, <1>6, <1>7 DEF FileOK

\* Appending disturbs no entry, and the new record can be described.
LEMMA AppendDescribes ==
    ASSUME NEW f, NEW k, NEW v, NEW e
    PROVE  /\ \A ent, j : Describes(ent, j, f) =>
                            Describes(ent, j, AppendRec(f, k, v, e))
           /\ Describes([off |-> f.len, len |-> RecLen(k, v), exp |-> e], k,
                        AppendRec(f, k, v, e))
<1> DEFINE n == [off |-> f.len, key |-> k, val |-> v, exp |-> e]
<1>1. /\ n \in AppendRec(f, k, v, e).recs
      /\ n.off = f.len /\ n.key = k /\ n.exp = e /\ n.val = v
  BY DEF AppendRec
<1>2. \A r \in f.recs : r \in AppendRec(f, k, v, e).recs
  BY DEF AppendRec
<1> HIDE DEF n
<1>3. Describes([off |-> f.len, len |-> RecLen(k, v), exp |-> e], k,
                AppendRec(f, k, v, e))
  BY <1>1 DEF Describes
<1> QED
  BY <1>2, <1>3 DEF Describes

\* Writing at any offset leaves a file; writing at the end of a sound one appends.
LEMMA OverwriteIsFile ==
    ASSUME NEW f, IsFile(f), NEW pos \in Nat, NEW n \in Nat
    PROVE  /\ IsFile(Overwrite(f, pos, n))
           /\ Overwrite(f, pos, n).recs \subseteq f.recs
<1>1. /\ Overwrite(f, pos, n).recs \subseteq f.recs
      /\ Overwrite(f, pos, n).len \in Nat
      /\ Overwrite(f, pos, n) = [recs |-> Overwrite(f, pos, n).recs,
                                 len |-> Overwrite(f, pos, n).len]
  BY DEF Overwrite, IsFile
<1> QED
  BY <1>1 DEF IsFile

LEMMA WriteAtIsFile ==
    ASSUME NEW f, IsFile(f), NEW pos \in Nat,
           NEW k \in Keys, NEW v \in Vals, NEW e \in Nat
    PROVE  IsFile(WriteAt(f, pos, k, v, e))
<1> DEFINE n == [off |-> pos, key |-> k, val |-> v, exp |-> e]
           g == Overwrite(f, pos, RecLen(k, v))
<1>1. n \in Record /\ RecLen(k, v) \in Nat
  BY RecLenPositive DEF Record
<1>2. IsFile(g)
  BY <1>1, OverwriteIsFile
<1>3. WriteAt(f, pos, k, v, e) = [g EXCEPT !.recs = @ \cup {n}]
  BY DEF WriteAt
<1> HIDE DEF g, n
<1> QED
  BY <1>1, <1>2, <1>3 DEF IsFile

LEMMA OverwriteAtEnd ==
    ASSUME NEW f, IsFile(f), FileOK(f), NEW n \in Nat
    PROVE  Overwrite(f, f.len, n) = [recs |-> f.recs, len |-> f.len + n]
<1>1. f.len \in Nat
  BY DEF IsFile
<1>2. {r \in f.recs : EndOf(r) <= f.len \/ r.off >= f.len + n} = f.recs
  BY DEF FileOK
<1>3. (IF f.len + n <= f.len THEN f.len ELSE f.len + n) = f.len + n
  BY <1>1
<1> QED
  BY <1>2, <1>3 DEF Overwrite

LEMMA WriteAtEnd ==
    ASSUME NEW f, IsFile(f), FileOK(f),
           NEW k \in Keys, NEW v \in Vals, NEW e \in Nat
    PROVE  WriteAt(f, f.len, k, v, e) = AppendRec(f, k, v, e)
<1>1. RecLen(k, v) \in Nat
  BY RecLenPositive
<1>2. Overwrite(f, f.len, RecLen(k, v))
        = [recs |-> f.recs, len |-> f.len + RecLen(k, v)]
  BY <1>1, OverwriteAtEnd
<1> QED
  BY <1>2 DEF WriteAt, AppendRec

\* A crash that cuts a sound file leaves a sound file.
LEMMA CutFile ==
    ASSUME NEW f, IsFile(f), FileOK(f), NEW c \in Nat
    PROVE  IsFile(Cut(f, c)) /\ FileOK(Cut(f, c))
BY DEF IsFile, FileOK, Cut

\* A record that the reader returns is a record of the file, and the reader
\* stays a reader.
LEMMA ReadFile ==
    ASSUME NEW f, IsFile(f), NEW r \in [pos : Nat, fill : Nat],
           NEW x \in ReadRecord(f, r)
    PROVE  /\ x \in f.recs /\ x \in Record
           /\ Advance(f, r, x) \in [pos : Nat, fill : Nat]
           /\ [off |-> x.off, len |-> RecLen(x.key, x.val), exp |-> x.exp]
                \in Entry
           /\ Describes([off |-> x.off, len |-> RecLen(x.key, x.val),
                         exp |-> x.exp], x.key, f)
<1>1. x \in f.recs /\ x \in Record /\ f.len \in Nat
  BY DEF ReadRecord, IsFile
<1>2. RecLen(x.key, x.val) \in Nat /\ x.off \in Nat /\ EndOf(x) \in Nat
      /\ x.exp \in Nat
  BY <1>1, RecLenPositive DEF Record, EndOf
<1>3. BufferEnd(f, r) \in Nat /\ BufLen \in Nat
  BY <1>1, LengthsAssumption DEF BufferEnd, Lesser
<1>4. Advance(f, r, x) \in [pos : Nat, fill : Nat]
  BY <1>1, <1>2, <1>3 DEF Advance, Lesser
<1> QED
  BY <1>1, <1>2, <1>4 DEF Entry, Describes

-----------------------------------------------------------------------------
\* The steps of the invariance proof

LEMMA InitIInv == Init => IInv
<1> SUFFICES ASSUME Init PROVE IInv
  OBVIOUS
<1>1. TypeOK
  BY EmptyIsMap, EmptyIsFile DEF Init, TypeOK, Rewound
<1>2. FilesOK
  BY EmptyIsFile DEF Init, FilesOK, FromPuts, EmptyFile
<1>3. HandlesOK /\ IndexOK /\ NewIndexOK
  BY DEF Init, HandlesOK, IndexOK, NewIndexOK, Running
<1> QED
  BY <1>1, <1>2, <1>3 DEF IInv

\* Steps that leave the files and the handles as they are, and at most move
\* the compaction on, drop its locals or set the clock.
LEMMA QuietStep ==
    ASSUME IInv, UNCHANGED <<data, tmp, wh, rh, index, size, dead, acked, puts>>,
           now' \in Nat, live' \subseteq Nat, rd' \in [pos : Nat, fill : Nat],
           wpos' \in Nat,
           IsMap(newIndex', Entry),
           pc' \in {"idle", "snapshot", "truncate", "copy", "swap", pc},
           pc' # pc => Running,
           NewIndexOK'
    PROVE  IInv'
<1>1. TypeOK'
  BY DEF IInv, TypeOK
<1>2. FilesOK'
  BY DEF IInv, FilesOK, FileOK, FromPuts, EndOf, RecLen
<1>3. HandlesOK' /\ IndexOK'
  BY DEF IInv, HandlesOK, IndexOK, Running, Describes, RecLen
<1> QED
  BY <1>1, <1>2, <1>3 DEF IInv

LEMMA OpenStep == ASSUME IInv, Open PROVE IInv'
<1>1. TypeOK'
  BY EmptyIsMap DEF IInv, TypeOK, Open, Rewound
<1>2. FilesOK'
  BY DEF IInv, FilesOK, FileOK, FromPuts, EndOf, RecLen, Open
<1>3. HandlesOK' /\ IndexOK' /\ NewIndexOK'
  BY DEF IInv, HandlesOK, IndexOK, NewIndexOK, Running, Open, EmptyMap
<1> QED
  BY <1>1, <1>2, <1>3 DEF IInv

LEMMA ReplayRecordStep == ASSUME IInv, ReplayRecord PROVE IInv'
<1>1. PICK x \in ReadRecord(data, rd) :
        /\ index' = Insert(index, x.key, [off |-> x.off,
                                          len |-> RecLen(x.key, x.val),
                                          exp |-> x.exp])
        /\ rd' = Advance(data, rd, x)
  BY DEF ReplayRecord
<1>2. /\ x \in data.recs /\ x.key \in Keys
      /\ rd' \in [pos : Nat, fill : Nat]
      /\ [off |-> x.off, len |-> RecLen(x.key, x.val), exp |-> x.exp] \in Entry
      /\ Describes([off |-> x.off, len |-> RecLen(x.key, x.val),
                    exp |-> x.exp], x.key, data)
  BY <1>1, ReadFile DEF IInv, TypeOK, Record
<1>3. IsMap(index', Entry)
  <2>1. IsMap(index, Entry)
    BY DEF IInv, TypeOK
  <2>2. IsMap(Insert(index, x.key, [off |-> x.off, len |-> RecLen(x.key, x.val),
                                    exp |-> x.exp]), Entry)
    BY <1>2, <2>1, InsertIsMap
  <2> QED
    BY <1>1, <2>2
<1>4. TypeOK'
  BY <1>2, <1>3 DEF IInv, TypeOK, ReplayRecord
<1>5. FilesOK'
  BY DEF IInv, FilesOK, FileOK, FromPuts, EndOf, RecLen, ReplayRecord
<1>6. HandlesOK' /\ NewIndexOK'
  BY DEF IInv, HandlesOK, NewIndexOK, Running, ReplayRecord
<1>7. \A k \in DOMAIN index' : Describes(index'[k], k, data)
  BY <1>1, <1>2 DEF IInv, IndexOK, ReplayRecord, Insert
<1>8. IndexOK'
  BY <1>7 DEF IndexOK, ReplayRecord, Describes, RecLen
<1> QED
  BY <1>4, <1>5, <1>6, <1>8 DEF IInv

LEMMA ReplayEndStep == ASSUME IInv, ReplayEnd PROVE IInv'
<1>1. TypeOK'
  BY EmptyIsMap DEF IInv, TypeOK, ReplayEnd, DropLocals, Rewound, IsFile
<1>2. FilesOK'
  BY DEF IInv, FilesOK, FileOK, FromPuts, EndOf, RecLen, ReplayEnd
<1>3. HandlesOK' /\ NewIndexOK'
  BY DEF IInv, HandlesOK, NewIndexOK, Running, ReplayEnd
<1>4. IndexOK'
  BY DEF IInv, IndexOK, ReplayEnd, Describes, RecLen
<1> QED
  BY <1>1, <1>2, <1>3, <1>4 DEF IInv

\* put() indexes the record at size, and size is the end of data.log, where the
\* append puts it.
LEMMA PutStep ==
    ASSUME IInv, NEW k \in Keys, NEW v \in Vals, NEW ttl \in TTLs,
           Put(k, v, ttl)
    PROVE  IInv'
<1> DEFINE e == now + ttl
           ent == [off |-> size, len |-> RecLen(k, v), exp |-> e]
           p == [key |-> k, val |-> v, exp |-> e]
<1>1. /\ Running /\ wh = "data" /\ rh = "data" /\ size = data.len
      /\ data' = AppendRec(data, k, v, e) /\ tmp' = tmp
      /\ index' = Insert(index, k, ent)
      /\ puts' = puts \cup {p}
      /\ wh' = wh /\ rh' = rh /\ pc' = pc /\ newIndex' = newIndex
      /\ wpos' = wpos
  BY DEF Put, IInv, HandlesOK
<1>2. e \in Nat /\ RecLen(k, v) \in Nat /\ ent \in Entry /\ p \in Stored
  BY RecLenPositive, LimitsAssumption DEF IInv, TypeOK, Entry, Stored
<1>3. PutDead(k) \in Nat
  BY DEF PutDead, IInv, TypeOK, IsMap, Entry
<1>4. IsMap(index', Entry) /\ IsMap(acked', [val : Vals, exp : Nat])
  <2> DEFINE ack == [val |-> v, exp |-> e]
  <2>1. IsMap(index, Entry) /\ IsMap(acked, [val : Vals, exp : Nat])
    BY DEF IInv, TypeOK
  <2>2. acked' = Insert(acked, k, ack)
    BY DEF Put
  <2>3. ack \in [val : Vals, exp : Nat]
    BY <1>2
  <2> HIDE DEF ack, ent
  <2>4. IsMap(Insert(index, k, ent), Entry)
    BY <1>2, <2>1, InsertIsMap
  <2>5. IsMap(Insert(acked, k, ack), [val : Vals, exp : Nat])
    BY <2>1, <2>3, InsertIsMap
  <2> QED
    BY <1>1, <2>2, <2>4, <2>5
<1>5. IsFile(data') /\ FileOK(data')
  BY <1>1, <1>2, AppendFile DEF IInv, TypeOK, FilesOK
<1>6. TypeOK'
  <2>1. IsFile(data)' /\ IsFile(tmp)'
    BY <1>1, <1>5 DEF IInv, TypeOK
  <2>2. IsMap(index, Entry)' /\ IsMap(newIndex, Entry)'
        /\ IsMap(acked, [val : Vals, exp : Nat])'
    BY <1>1, <1>4 DEF IInv, TypeOK
  <2>3. size' \in Nat /\ dead' \in Nat /\ puts' \subseteq Stored
    BY <1>1, <1>2, <1>3 DEF IInv, TypeOK, Put
  <2>4. /\ wh' \in {"data", "tmp"} /\ rh' \in {"data", "tmp"}
        /\ pc' \in {"down", "replay", "idle", "snapshot", "truncate", "copy",
                    "swap"}
        /\ live' \subseteq Nat /\ rd' \in [pos : Nat, fill : Nat]
        /\ now' \in Nat /\ wpos' \in Nat
    BY DEF IInv, TypeOK, Put
  <2> QED
    BY <2>1, <2>2, <2>3, <2>4 DEF TypeOK
<1>7. FromPuts(data)' /\ FromPuts(tmp)'
  <2>1. data'.recs = data.recs \cup {[off |-> data.len, key |-> k, val |-> v,
                                      exp |-> e]}
    BY <1>1 DEF AppendRec
  <2>2. FromPuts(data)'
    <3> SUFFICES ASSUME NEW r \in data'.recs
                 PROVE  [key |-> r.key, val |-> r.val, exp |-> r.exp] \in puts'
      BY DEF FromPuts
    <3>1. CASE r \in data.recs
      BY <3>1, <1>1 DEF IInv, FilesOK, FromPuts
    <3>2. CASE r = [off |-> data.len, key |-> k, val |-> v, exp |-> e]
      BY <3>2, <1>1
    <3> QED
      BY <2>1, <3>1, <3>2
  <2>3. FromPuts(tmp)'
    BY <1>1 DEF IInv, FilesOK, FromPuts
  <2> QED
    BY <2>2, <2>3
<1>8. FilesOK'
  BY <1>1, <1>5, <1>7 DEF IInv, FilesOK, FileOK, EndOf, RecLen
<1>9. size' = data'.len
  BY <1>1, <1>2 DEF Put, AppendRec
<1>10. HandlesOK'
  BY <1>1, <1>9 DEF HandlesOK, Running
<1>11. \A j \in DOMAIN index' : Describes(index'[j], j, data')
  <2>1. Describes(ent, k, data')
    BY <1>1, AppendDescribes
  <2>2. \A j \in DOMAIN index : Describes(index[j], j, data')
    BY <1>1, AppendDescribes DEF IInv, IndexOK, Running
  <2> QED
    BY <1>1, <2>1, <2>2 DEF Insert
<1>12. IndexOK'
  BY <1>11 DEF IndexOK, Describes, RecLen
<1>13. NewIndexOK'
  BY <1>1 DEF IInv, NewIndexOK, Describes, RecLen
<1> QED
  BY <1>6, <1>8, <1>10, <1>12, <1>13 DEF IInv

LEMMA DeleteStep == ASSUME IInv, NEW k \in Keys, Delete(k) PROVE IInv'
<1>1. /\ index' = Remove(index, k) /\ acked' = Remove(acked, k)
      /\ UNCHANGED <<data, tmp, wh, rh, size, pc, live, rd, newIndex, wpos, now,
                     puts>>
  BY DEF Delete
<1>2. IsMap(index', Entry) /\ IsMap(acked', [val : Vals, exp : Nat])
  <2>1. IsMap(index, Entry) /\ IsMap(acked, [val : Vals, exp : Nat])
    BY DEF IInv, TypeOK
  <2> QED
    BY <1>1, <2>1, RemoveIsMap
<1>3. dead' \in Nat
  BY DEF Delete, IInv, TypeOK, IsMap, Entry
<1>4. TypeOK'
  BY <1>1, <1>2, <1>3 DEF IInv, TypeOK
<1>5. FilesOK' /\ HandlesOK' /\ NewIndexOK'
  BY <1>1 DEF IInv, FilesOK, FileOK, FromPuts, EndOf, RecLen, HandlesOK,
              NewIndexOK, Running, Describes
<1>6. IndexOK'
  BY <1>1 DEF IInv, IndexOK, Describes, RecLen, Remove
<1> QED
  BY <1>4, <1>5, <1>6 DEF IInv

LEMMA SnapshotStep == ASSUME IInv, CompactSnapshot PROVE IInv'
<1>1. LiveOffsets \subseteq Nat
  BY DEF LiveOffsets, IInv, TypeOK, IsMap, Entry
<1>2. NewIndexOK'
  BY DEF CompactSnapshot, NewIndexOK
<1> QED
  BY <1>1, <1>2, QuietStep DEF CompactSnapshot, memory, IInv, TypeOK, Running

\* compact() truncates the temporary file: no entry describes a record of it yet.
LEMMA CompactOpenStep == ASSUME IInv, CompactOpen PROVE IInv'
<1>1. UNCHANGED <<data, wh, rh, index, size, dead, live, now, acked, puts>>
      /\ tmp' = EmptyFile /\ rd' = Rewound /\ newIndex' = EmptyMap
      /\ pc = "truncate" /\ pc' = "copy" /\ wpos' = 0
  BY DEF CompactOpen, memory
<1>2. TypeOK'
  BY <1>1, EmptyIsMap, EmptyIsFile DEF IInv, TypeOK, Rewound
<1>3. FilesOK'
  BY <1>1, EmptyIsFile DEF IInv, FilesOK, FileOK, FromPuts, EndOf, RecLen,
                           EmptyFile
<1>4. HandlesOK' /\ IndexOK'
  BY <1>1 DEF IInv, HandlesOK, IndexOK, Running, Describes, RecLen
<1>5. NewIndexOK'
  BY <1>1 DEF NewIndexOK, EmptyMap, EmptyFile
<1> QED
  BY <1>2, <1>3, <1>4, <1>5 DEF IInv

\* A turn of the copy loop, with nobody else writing the temporary file.
LEMMA CopyAppends ==
    ASSUME IInv, CopyRecord
    PROVE  \E x \in ReadRecord(data, rd) :
             /\ rd' = Advance(data, rd, x)
             /\ IF x.off \in live
                THEN /\ tmp' = AppendRec(tmp, x.key, x.val, x.exp)
                     /\ newIndex' = Insert(newIndex, x.key,
                                      [off |-> tmp.len,
                                       len |-> RecLen(x.key, x.val),
                                       exp |-> x.exp])
                ELSE UNCHANGED <<tmp, newIndex>>
             /\ wpos' = tmp'.len
<1>1. wpos = tmp.len
  BY DEF IInv, NewIndexOK, CopyRecord
<1>2. PICK x \in ReadRecord(data, rd) :
        /\ rd' = Advance(data, rd, x)
        /\ IF x.off \in live
           THEN /\ tmp' = WriteAt(tmp, tmp.len, x.key, x.val, x.exp)
                /\ wpos' = tmp.len + RecLen(x.key, x.val)
                /\ newIndex' = Insert(newIndex, x.key,
                                 [off |-> tmp.len,
                                  len |-> RecLen(x.key, x.val),
                                  exp |-> x.exp])
           ELSE UNCHANGED <<tmp, newIndex, wpos>>
  BY <1>1 DEF CopyRecord
<1>3. x.key \in Keys /\ x.val \in Vals /\ x.exp \in Nat
  <2>1. x \in Record
    BY ReadFile DEF IInv, TypeOK
  <2> QED
    BY <2>1 DEF Record
<1>4. WriteAt(tmp, tmp.len, x.key, x.val, x.exp)
        = AppendRec(tmp, x.key, x.val, x.exp)
  BY <1>3, WriteAtEnd DEF IInv, TypeOK, FilesOK
<1>5. AppendRec(tmp, x.key, x.val, x.exp).len = tmp.len + RecLen(x.key, x.val)
  BY DEF AppendRec
<1> QED
  BY <1>1, <1>2, <1>4, <1>5

\* The copy loop appends a live record and indexes it at the offset it got.
LEMMA CopyRecordStep == ASSUME IInv, CopyRecord PROVE IInv'
<1>1. PICK x \in ReadRecord(data, rd) :
        /\ rd' = Advance(data, rd, x)
        /\ IF x.off \in live
           THEN /\ tmp' = AppendRec(tmp, x.key, x.val, x.exp)
                /\ newIndex' = Insert(newIndex, x.key,
                                 [off |-> tmp.len,
                                  len |-> RecLen(x.key, x.val),
                                  exp |-> x.exp])
           ELSE UNCHANGED <<tmp, newIndex>>
        /\ wpos' = tmp'.len
  BY CopyAppends
<1>2. /\ UNCHANGED <<data, wh, rh, index, size, dead, pc, live, now, acked, puts>>
      /\ pc = "copy"
  BY DEF CopyRecord, memory
<1>3. x \in data.recs /\ x \in Record /\ rd' \in [pos : Nat, fill : Nat]
  BY <1>1, ReadFile DEF IInv, TypeOK
<1>4. CASE x.off \notin live
  BY <1>1, <1>2, <1>3, <1>4, QuietStep
     DEF IInv, TypeOK, NewIndexOK, Describes, RecLen, IsFile
<1>5. CASE x.off \in live
  <2> DEFINE ent == [off |-> tmp.len, len |-> RecLen(x.key, x.val),
                     exp |-> x.exp]
  <2>1. /\ tmp' = AppendRec(tmp, x.key, x.val, x.exp)
        /\ newIndex' = Insert(newIndex, x.key, ent)
    BY <1>1, <1>5
  <2>2. x.key \in Keys /\ x.val \in Vals /\ x.exp \in Nat
    BY <1>3 DEF Record
  <2>3. ent \in Entry
    BY <2>2, RecLenPositive DEF IInv, TypeOK, IsFile, Entry
  <2>4. IsFile(tmp') /\ FileOK(tmp')
    BY <2>1, <2>2, AppendFile DEF IInv, TypeOK, FilesOK
  <2>5. IsMap(newIndex', Entry)
    <3>1. IsMap(newIndex, Entry)
      BY DEF IInv, TypeOK
    <3> QED
      BY <2>1, <2>2, <2>3, <3>1, InsertIsMap
  <2>6. TypeOK'
    BY <1>1, <1>2, <1>3, <2>4, <2>5 DEF IInv, TypeOK, IsFile
  <2>7. FromPuts(tmp)'
    <3>1. tmp'.recs = tmp.recs \cup {[off |-> tmp.len, key |-> x.key,
                                      val |-> x.val, exp |-> x.exp]}
      BY <2>1 DEF AppendRec
    <3>2. [key |-> x.key, val |-> x.val, exp |-> x.exp] \in puts
      BY <1>3 DEF IInv, FilesOK, FromPuts
    <3> SUFFICES ASSUME NEW r \in tmp'.recs
                 PROVE  [key |-> r.key, val |-> r.val, exp |-> r.exp] \in puts
      BY <1>2 DEF FromPuts
    <3>3. CASE r \in tmp.recs
      BY <3>3 DEF IInv, FilesOK, FromPuts
    <3>4. CASE r = [off |-> tmp.len, key |-> x.key, val |-> x.val,
                    exp |-> x.exp]
      BY <3>4, <3>2
    <3> QED
      BY <3>1, <3>3, <3>4
  <2>8. FilesOK'
    BY <1>2, <2>4, <2>7 DEF IInv, FilesOK, FileOK, FromPuts, EndOf, RecLen
  <2>9. HandlesOK' /\ IndexOK'
    BY <1>2 DEF IInv, HandlesOK, IndexOK, Running, Describes, RecLen
  <2>10. \A j \in DOMAIN newIndex' : Describes(newIndex'[j], j, tmp')
    <3>1. Describes(ent, x.key, tmp')
      BY <2>1, AppendDescribes
    <3>2. \A j \in DOMAIN newIndex : Describes(newIndex[j], j, tmp')
      BY <1>2, <2>1, AppendDescribes DEF IInv, NewIndexOK
    <3> QED
      BY <2>1, <3>1, <3>2 DEF Insert
  <2>11. NewIndexOK'
    BY <1>1, <2>10 DEF NewIndexOK, Describes, RecLen
  <2> QED
    BY <2>6, <2>8, <2>9, <2>11 DEF IInv
<1> QED
  BY <1>4, <1>5

\* A compaction that fails leaves a sound temporary file: the old one, an empty one,
\* or one with a fragment at its end.
LEMMA AbandonedFile ==
    ASSUME TypeOK, CopyFails
    PROVE  /\ IsFile(tmp') /\ (tmp'.recs \subseteq tmp.recs)
           /\ IInv => FileOK(tmp')
<1>1. IsFile(tmp) /\ wpos \in Nat
  BY DEF TypeOK
<1>2. CASE tmp' = tmp \/ tmp' = EmptyFile
  BY <1>1, <1>2, EmptyIsFile DEF IInv, FilesOK, EmptyFile
<1>3. ASSUME NEW x \in ReadRecord(data, rd), NEW n \in 0..(RecLen(x.key, x.val) - 1),
             tmp' = Overwrite(tmp, wpos, n), pc = "copy"
      PROVE  /\ IsFile(tmp') /\ (tmp'.recs \subseteq tmp.recs)
             /\ IInv => FileOK(tmp')
  <2>1. x \in Record
    BY <1>3, ReadFile DEF TypeOK
  <2>2. n \in Nat
    BY <1>3, <2>1, RecLenPositive DEF Record
  <2>3. IsFile(tmp') /\ (tmp'.recs \subseteq tmp.recs)
    BY <1>1, <1>3, <2>2, OverwriteIsFile
  <2>4. ASSUME IInv PROVE FileOK(tmp')
    <3>1. wpos = tmp.len /\ FileOK(tmp)
      BY <1>3, <2>4 DEF IInv, NewIndexOK, FilesOK
    <3>2. tmp' = [recs |-> tmp.recs, len |-> tmp.len + n]
      BY <1>1, <1>3, <2>2, <3>1, OverwriteAtEnd
    <3>3. \A r \in tmp.recs : EndOf(r) \in Nat /\ EndOf(r) <= tmp.len
      <4>1. \A r \in tmp.recs : r \in Record
        BY <1>1 DEF IsFile
      <4>2. \A r \in tmp.recs : EndOf(r) \in Nat
        BY <4>1, RecLenPositive DEF Record, EndOf
      <4> QED
        BY <3>1, <4>2 DEF FileOK
    <3>4. tmp.len \in Nat
      BY <1>1 DEF IsFile
    <3> QED
      BY <2>2, <3>1, <3>2, <3>3, <3>4 DEF FileOK
  <2> QED
    BY <2>3, <2>4
<1> QED
  BY <1>2, <1>3 DEF CopyFails

LEMMA CopyFailsStep == ASSUME IInv, CopyFails PROVE IInv'
<1>1. /\ IsFile(tmp') /\ (tmp'.recs \subseteq tmp.recs) /\ FileOK(tmp')
  BY AbandonedFile DEF IInv
<1>2. UNCHANGED <<data, wh, rh, index, size, dead, now, acked, puts>>
      /\ pc \in {"truncate", "copy"} /\ pc' = "idle" /\ DropLocals
  BY DEF CopyFails, memory
<1>3. TypeOK'
  BY <1>1, <1>2, EmptyIsMap DEF IInv, TypeOK, DropLocals, Rewound
<1>4. FilesOK'
  BY <1>1, <1>2 DEF IInv, FilesOK, FileOK, FromPuts, EndOf, RecLen
<1>5. HandlesOK' /\ IndexOK' /\ NewIndexOK'
  BY <1>2 DEF IInv, HandlesOK, IndexOK, NewIndexOK, Running, Describes, RecLen
<1> QED
  BY <1>3, <1>4, <1>5 DEF IInv

\* The swap exchanges the log and the index together.
LEMMA SwapStep == ASSUME IInv, Swap PROVE IInv'
<1>1. TypeOK'
  BY EmptyIsMap, EmptyIsFile
     DEF IInv, TypeOK, Swap, DropLocals, Rewound, IsFile
<1>2. FilesOK'
  BY EmptyIsFile DEF IInv, FilesOK, FileOK, FromPuts, EndOf, RecLen, Swap,
                     EmptyFile
<1>3. HandlesOK'
  BY DEF IInv, NewIndexOK, HandlesOK, Swap
<1>4. IndexOK' /\ NewIndexOK'
  BY DEF IInv, NewIndexOK, IndexOK, Swap, Describes, RecLen
<1> QED
  BY <1>1, <1>2, <1>3, <1>4 DEF IInv

LEMMA CrashStep ==
    ASSUME IInv, NEW c \in 0..data.len, Crash(c)
    PROVE  IInv'
<1>1. c \in Nat
  BY DEF IInv, TypeOK, IsFile
<1>2. IsFile(data') /\ FileOK(data') /\ data'.recs \subseteq data.recs
  BY <1>1, CutFile DEF IInv, TypeOK, FilesOK, Crash, Cut
<1>3. IsMap(acked', [val : Vals, exp : Nat])
  BY DEF IInv, TypeOK, IsMap, Crash
<1>4. TypeOK'
  BY <1>2, <1>3, EmptyIsMap DEF IInv, TypeOK, Crash, DropLocals, Rewound
<1>5. FilesOK'
  BY <1>2 DEF IInv, FilesOK, FileOK, FromPuts, EndOf, RecLen, Crash
<1>6. HandlesOK' /\ IndexOK' /\ NewIndexOK'
  BY DEF Crash, HandlesOK, IndexOK, NewIndexOK, Running
<1> QED
  BY <1>4, <1>5, <1>6 DEF IInv

\* Every step of the store keeps the inductive invariant.
LEMMA NextIInv ==
    ASSUME Failures \subseteq HarmlessFailures, IInv, [Next]_vars
    PROVE  IInv'
<1>1. CASE UNCHANGED vars
  BY <1>1, QuietStep DEF vars, IInv, TypeOK, NewIndexOK, Describes, RecLen
<1>2. CASE Open
  BY <1>2, OpenStep
<1>3. CASE ReplayRecord
  BY <1>3, ReplayRecordStep
<1>4. CASE ReplayEnd
  BY <1>4, ReplayEndStep
<1>5. CASE Client
  <2>1. PICK k \in Keys :
          \/ \E v \in Answers[k] :
               \/ \E ttl \in TTLs : Put(k, v, ttl)
               \/ \E n \in 0..(RecLen(k, v) - 1) : PutFails(k, v, n)
          \/ Delete(k)
    BY <1>5 DEF Client
  <2>2. ASSUME NEW v \in Vals, NEW n, PutFails(k, v, n) PROVE FALSE
    BY <2>2 DEF PutFails, HarmlessFailures
  <2>3. Answers[k] \subseteq Vals
    BY LengthsAssumption
  <2> QED
    BY <2>1, <2>2, <2>3, PutStep, DeleteStep
<1>6. CASE Compactor
  <2>1. CASE CompactTrigger
    BY <2>1, QuietStep DEF CompactTrigger, memory, IInv, TypeOK, NewIndexOK,
                           Running
  <2>2. CASE CompactSnapshot
    BY <2>2, SnapshotStep
  <2>3. CASE CompactOpen
    BY <2>3, CompactOpenStep
  <2>4. CASE CopyRecord
    BY <2>4, CopyRecordStep
  <2>5. CASE CopyEnd
    BY <2>5, QuietStep DEF CopyEnd, memory, IInv, TypeOK, NewIndexOK, Running,
                           Describes, RecLen
  <2>6. CASE SwapFailsOpenWrite
    <3>1. NewIndexOK'
      BY <2>6 DEF SwapFailsOpenWrite, NewIndexOK
    <3> QED
      BY <2>6, <3>1, QuietStep, EmptyIsMap
         DEF SwapFailsOpenWrite, memory, IInv, TypeOK, Running, DropLocals,
             Rewound
  <2>9. CASE CopyFails
    BY <2>9, CopyFailsStep
  <2>7. CASE Swap
    BY <2>7, SwapStep
  <2>8. ~(SwapFailsOpenRead \/ SwapFailsRename \/ SwapFailsReopen)
    BY DEF SwapFailsOpenRead, SwapFailsRename, SwapFailsReopen,
           HarmlessFailures
  <2> QED
    BY <1>6, <2>1, <2>2, <2>3, <2>4, <2>5, <2>6, <2>7, <2>8, <2>9 DEF Compactor,
       CompactStep
<1>7. CASE \E c \in 0..data.len : Crash(c)
  BY <1>7, CrashStep
<1>8. CASE \E t \in 0..MaxTime : SetClock(t)
  BY <1>8, QuietStep, LimitsAssumption
     DEF SetClock, memory, IInv, TypeOK, NewIndexOK, Describes, RecLen
<1> QED
  BY <1>1, <1>2, <1>3, <1>4, <1>5, <1>6, <1>7, <1>8 DEF Next

-----------------------------------------------------------------------------
\* The theorems

\* The types need no assumption on what fails.
LEMMA AppendIsFile ==
    ASSUME NEW f, IsFile(f), NEW k \in Keys, NEW v \in Vals, NEW e \in Nat
    PROVE  IsFile(AppendRec(f, k, v, e))
<1>1. [off |-> f.len, key |-> k, val |-> v, exp |-> e] \in Record
      /\ f.len + RecLen(k, v) \in Nat
  BY RecLenPositive DEF IsFile, Record
<1> QED
  BY <1>1 DEF IsFile, AppendRec

LEMMA LocalsTyped ==
    IsMap(EmptyMap, Entry) /\ Rewound \in [pos : Nat, fill : Nat] /\ IsFile(EmptyFile)
BY EmptyIsMap, EmptyIsFile DEF Rewound

LEMMA PutTypes ==
    ASSUME TypeOK, NEW k \in Keys, NEW v \in Vals, NEW ttl \in TTLs, Put(k, v, ttl)
    PROVE  TypeOK'
<1> DEFINE ent == [off |-> size, len |-> RecLen(k, v), exp |-> now + ttl]
           ack == [val |-> v, exp |-> now + ttl]
           p == [key |-> k, val |-> v, exp |-> now + ttl]
<1>1. /\ now + ttl \in Nat /\ RecLen(k, v) \in Nat /\ size \in Nat
      /\ dead \in Nat /\ IsMap(index, Entry) /\ IsMap(acked, [val : Vals, exp : Nat])
      /\ puts \subseteq Stored /\ IsFile(data) /\ IsFile(tmp)
  BY RecLenPositive, LimitsAssumption DEF TypeOK
<1>2. PutDead(k) \in Nat
  BY <1>1 DEF PutDead, IsMap, Entry
<1>3. ent \in Entry /\ ack \in [val : Vals, exp : Nat] /\ p \in Stored
  BY <1>1 DEF Entry, Stored
<1>4. /\ \/ data' = AppendRec(data, k, v, now + ttl) /\ tmp' = tmp
         \/ tmp' = AppendRec(tmp, k, v, now + ttl) /\ data' = data
      /\ size' = size + RecLen(k, v) /\ index' = Insert(index, k, ent)
      /\ dead' = dead + PutDead(k) /\ acked' = Insert(acked, k, ack)
      /\ puts' = puts \cup {p}
      /\ UNCHANGED <<wh, rh, pc, live, rd, newIndex, wpos, now>>
  BY DEF Put
<1> HIDE DEF ent, ack, p
<1>5. IsFile(data') /\ IsFile(tmp')
  BY <1>1, <1>4, AppendIsFile
<1>6. IsMap(index', Entry) /\ IsMap(acked', [val : Vals, exp : Nat])
  BY <1>1, <1>3, <1>4, InsertIsMap
<1>7. size' \in Nat /\ dead' \in Nat /\ puts' \subseteq Stored
  BY <1>1, <1>2, <1>3, <1>4
<1> QED
  BY <1>4, <1>5, <1>6, <1>7 DEF TypeOK

LEMMA CopyRecordTypes ==
    ASSUME TypeOK, CopyRecord
    PROVE  TypeOK'
<1>1. PICK x \in ReadRecord(data, rd) :
        /\ rd' = Advance(data, rd, x)
        /\ IF x.off \in live
           THEN /\ tmp' = WriteAt(tmp, wpos, x.key, x.val, x.exp)
                /\ wpos' = wpos + RecLen(x.key, x.val)
                /\ newIndex' = Insert(newIndex, x.key, [off |-> wpos,
                                                        len |-> RecLen(x.key, x.val),
                                                        exp |-> x.exp])
           ELSE UNCHANGED <<tmp, newIndex, wpos>>
  BY DEF CopyRecord
<1> DEFINE ent == [off |-> wpos, len |-> RecLen(x.key, x.val), exp |-> x.exp]
<1>2. /\ x.key \in Keys /\ x.val \in Vals /\ x.exp \in Nat
      /\ rd' \in [pos : Nat, fill : Nat]
  <2>1. rd' = Advance(data, rd, x)
    BY <1>1
  <2>2. x \in Record /\ Advance(data, rd, x) \in [pos : Nat, fill : Nat]
    BY ReadFile DEF TypeOK
  <2> QED
    BY <2>1, <2>2 DEF Record
<1>3. ent \in Entry
  BY <1>2, RecLenPositive DEF TypeOK, Entry
<1>4. IsFile(tmp')
  BY <1>1, <1>2, WriteAtIsFile DEF TypeOK
<1>7. wpos' \in Nat
  BY <1>1, <1>2, RecLenPositive DEF TypeOK
<1> HIDE DEF ent
<1>5. IsMap(newIndex', Entry)
  BY <1>1, <1>2, <1>3, InsertIsMap DEF TypeOK, ent
<1>6. UNCHANGED <<data, wh, rh, index, size, dead, pc, live, now, acked, puts>>
  BY DEF CopyRecord, memory
<1> QED
  BY <1>2, <1>4, <1>5, <1>6, <1>7 DEF TypeOK

LEMMA NextTypes == ASSUME TypeOK, [Next]_vars PROVE TypeOK'
<1>1. CASE UNCHANGED vars
  BY <1>1 DEF vars, TypeOK
<1>2. CASE Open
  BY <1>2, LocalsTyped DEF Open, TypeOK
<1>3. CASE ReplayRecord
  <2>1. PICK x \in ReadRecord(data, rd) :
          /\ index' = Insert(index, x.key, [off |-> x.off, len |-> RecLen(x.key, x.val),
                                            exp |-> x.exp])
          /\ rd' = Advance(data, rd, x)
    BY <1>3 DEF ReplayRecord
  <2> DEFINE ent == [off |-> x.off, len |-> RecLen(x.key, x.val), exp |-> x.exp]
  <2>2. ent \in Entry /\ x.key \in Keys /\ rd' \in [pos : Nat, fill : Nat]
    BY <2>1, ReadFile DEF TypeOK, Record
  <2>3. index' = Insert(index, x.key, ent)
    BY <2>1
  <2> HIDE DEF ent
  <2>4. IsMap(index', Entry)
    BY <2>2, <2>3, InsertIsMap DEF TypeOK
  <2> QED
    BY <1>3, <2>2, <2>4 DEF ReplayRecord, TypeOK
<1>4. CASE ReplayEnd
  BY <1>4, LocalsTyped DEF ReplayEnd, DropLocals, TypeOK, IsFile
<1>5. CASE Client
  <2>1. PICK k \in Keys :
          \/ \E v \in Answers[k] :
               \/ \E ttl \in TTLs : Put(k, v, ttl)
               \/ \E n \in 0..(RecLen(k, v) - 1) : PutFails(k, v, n)
          \/ Delete(k)
    BY <1>5 DEF Client
  <2>2. Answers[k] \subseteq Vals
    BY LengthsAssumption
  <2>3. ASSUME NEW v \in Vals, NEW n \in 0..(RecLen(k, v) - 1), PutFails(k, v, n)
        PROVE  TypeOK'
    <3>1. n \in Nat
      BY <2>3, RecLenPositive
    <3>2. IsFile(data') /\ IsFile(tmp')
      BY <2>3, <3>1 DEF PutFails, TypeOK, IsFile
    <3> QED
      BY <2>3, <3>2 DEF PutFails, TypeOK
  <2>4. CASE Delete(k)
    <3>1. IsMap(index', Entry) /\ IsMap(acked', [val : Vals, exp : Nat])
      BY <2>4, RemoveIsMap DEF Delete, TypeOK
    <3>2. dead' \in Nat
      BY <2>4 DEF Delete, TypeOK, IsMap, Entry
    <3> QED
      BY <2>4, <3>1, <3>2 DEF Delete, TypeOK
  <2> QED
    BY <2>1, <2>2, <2>3, <2>4, PutTypes
<1>6. CASE CompactTrigger \/ CopyEnd
  BY <1>6 DEF CompactTrigger, CopyEnd, memory, TypeOK
<1>7. CASE CompactSnapshot
  <2>1. LiveOffsets \subseteq Nat
    BY DEF LiveOffsets, TypeOK, IsMap, Entry
  <2> QED
    BY <1>7, <2>1 DEF CompactSnapshot, memory, TypeOK
<1>8. CASE CompactOpen
  BY <1>8, LocalsTyped DEF CompactOpen, memory, TypeOK
<1>9. CASE CopyFails \/ Swap \/ SwapFailsOpenWrite \/ SwapFailsOpenRead \/ SwapFailsRename
           \/ SwapFailsReopen
  <2>1. /\ IsFile(data') /\ IsFile(tmp') /\ IsMap(index', Entry)
        /\ size' \in Nat /\ dead' \in Nat
        /\ wh' \in {"data", "tmp"} /\ rh' \in {"data", "tmp"}
    <3>1. CASE CopyFails
      BY <3>1, AbandonedFile DEF CopyFails, memory, TypeOK
    <3>2. CASE Swap \/ SwapFailsOpenWrite \/ SwapFailsOpenRead \/ SwapFailsRename
               \/ SwapFailsReopen
      BY <3>2, LocalsTyped DEF Swap, SwapFailsOpenWrite, SwapFailsOpenRead,
         SwapFailsRename, SwapFailsReopen, memory, TypeOK
    <3> QED
      BY <1>9, <3>1, <3>2
  <2>2. pc' = "idle" /\ DropLocals /\ UNCHANGED <<now, acked, puts>>
    BY <1>9 DEF CopyFails, Swap, SwapFailsOpenWrite, SwapFailsOpenRead, SwapFailsRename,
       SwapFailsReopen
  <2> QED
    BY <2>1, <2>2, LocalsTyped DEF DropLocals, TypeOK
<1>10. CASE \E c \in 0..data.len : Crash(c)
  <2>1. PICK c \in 0..data.len : Crash(c)
    BY <1>10
  <2>2. c \in Nat
    BY <2>1 DEF TypeOK, IsFile
  <2>3. IsFile(data')
    BY <2>1, <2>2 DEF Crash, Cut, TypeOK, IsFile
  <2>4. IsMap(acked', [val : Vals, exp : Nat])
    BY <2>1 DEF Crash, TypeOK, IsMap
  <2> QED
    BY <2>1, <2>3, <2>4, LocalsTyped DEF Crash, DropLocals, TypeOK
<1>11. CASE \E t \in 0..MaxTime : SetClock(t)
  BY <1>11, LimitsAssumption DEF SetClock, memory, TypeOK
<1> QED
  BY <1>1, <1>2, <1>3, <1>4, <1>5, <1>6, <1>7, <1>8, <1>9, <1>10, <1>11, CopyRecordTypes
     DEF Next, Compactor, CompactStep

\* The variables of the L2 store keep their types, whatever system calls fail.
THEOREM TypeCorrect == Spec => []TypeOK
<1>1. Init => TypeOK
  BY InitIInv DEF IInv
<1> QED
  BY <1>1, NextTypes, PTL DEF Spec

\* Every index entry points at a whole record of its own key with its own
\* expiry, whatever the interleaving of put, delete, compact and replay and
\* wherever crashes cut the log: get() needs no key check.
THEOREM IndexIsSound ==
    ASSUME Failures \subseteq HarmlessFailures
    PROVE  Spec => []IndexIntegrity
<1>1. IInv => IndexIntegrity
  BY DEF IInv, HandlesOK, IndexOK, IndexIntegrity, Running, FileOf
<1> QED
  BY <1>1, InitIInv, NextIInv, PTL DEF Spec

\* get() returns only what was put under the key it was asked for, and only
\* before the expiry that put computed.
THEOREM GetIsSound ==
    ASSUME Failures \subseteq HarmlessFailures
    PROVE  Spec => []GetReturnsOnlyPuts
<1>1. IInv => GetReturnsOnlyPuts
  <2> SUFFICES ASSUME IInv, NEW k \in Keys, NEW g \in GetResults(k), g # Miss
               PROVE  \E p \in puts :
                        p.key = k /\ g = Hit(p.val) /\ now < p.exp
    BY DEF GetReturnsOnlyPuts
  <2>1. /\ Running /\ k \in DOMAIN index /\ now < index[k].exp
        /\ Describes(index[k], k, data) /\ rh = "data"
    BY DEF GetResults, Expired, IInv, TypeOK, IsMap, Entry, IndexOK, HandlesOK,
           Running
  <2>2. PICK r \in data.recs : r.off = index[k].off /\ r.key = k
                               /\ r.exp = index[k].exp
    BY <2>1 DEF Describes
  <2>3. {x \in data.recs : x.off = index[k].off} = {r}
    BY <2>2 DEF IInv, FilesOK, FileOK
  <2>4. g = Hit(r.val)
    BY <2>1, <2>3 DEF GetResults, Expired, FileOf
  <2>5. [key |-> r.key, val |-> r.val, exp |-> r.exp] \in puts
    BY DEF IInv, FilesOK, FromPuts
  <2> QED
    BY <2>1, <2>2, <2>4, <2>5
<1> QED
  BY <1>1, InitIInv, NextIInv, PTL DEF Spec

-----------------------------------------------------------------------------
\* Compaction.  What the copy loop has done so far

\* No two records of a file overlap.
Apart(f) ==
    \A r, s \in f.recs : r = s \/ EndOf(r) <= s.off \/ EndOf(s) <= r.off

Same(r, s) == r.key = s.key /\ r.val = s.val /\ r.exp = s.exp

\* The snapshot names at most one record of each key, and none appended later.
LiveOK ==
    pc \in {"truncate", "copy", "swap"} =>
        /\ \A o \in live : o < data.len
        /\ \A r, s \in data.recs :
             (r.off \in live /\ s.off \in live /\ r.key = s.key) => r = s

\* What lies behind the reader has been copied.
CopiedOK ==
    pc \in {"copy", "swap"} =>
        \A r \in data.recs : (r.off \in live /\ r.off < rd.pos) =>
            /\ r.key \in DOMAIN newIndex
            /\ \E s \in tmp.recs : s.off = newIndex[r.key].off /\ Same(r, s)

\* What has been copied is of the snapshot.
NewFromLive ==
    pc \in {"copy", "swap"} =>
        \A k \in DOMAIN newIndex : \E r \in data.recs, s \in tmp.recs :
            /\ r.off \in live /\ r.key = k /\ Same(r, s)
            /\ s.off = newIndex[k].off /\ s.exp = newIndex[k].exp

JInv == Apart(data) /\ Apart(tmp) /\ LiveOK /\ CopiedOK /\ NewFromLive

\* What the lengths of a sound file's records are.
LEMMA RecordLengths ==
    ASSUME NEW f, IsFile(f), FileOK(f)
    PROVE  /\ f.len \in Nat
           /\ \A r \in f.recs : /\ r \in Record /\ r.off \in Nat /\ EndOf(r) \in Nat
                                /\ r.off < EndOf(r) /\ EndOf(r) <= f.len
                                /\ EndOf(r) = r.off + RecLen(r.key, r.val)
                                /\ RecLen(r.key, r.val) \in Nat
<1>1. \A r \in f.recs : r \in Record /\ EndOf(r) <= f.len
  BY DEF IsFile, FileOK
<1>2. \A r \in Record : /\ r.off \in Nat /\ RecLen(r.key, r.val) \in Nat
                        /\ RecLen(r.key, r.val) > 0
  BY RecLenPositive DEF Record
<1> QED
  BY <1>1, <1>2 DEF IsFile, EndOf

LEMMA AppendApart ==
    ASSUME NEW f, IsFile(f), FileOK(f), Apart(f), NEW k, NEW v, NEW e
    PROVE  Apart(AppendRec(f, k, v, e))
<1> DEFINE n == [off |-> f.len, key |-> k, val |-> v, exp |-> e]
<1>1. AppendRec(f, k, v, e).recs = f.recs \cup {n} /\ n.off = f.len
  BY DEF AppendRec
<1>2. \A r \in f.recs : EndOf(r) <= f.len
  BY DEF FileOK
<1> HIDE DEF n
<1> QED
  BY <1>1, <1>2 DEF Apart

LEMMA InitJInv == Init => JInv
BY DEF Init, JInv, Apart, LiveOK, CopiedOK, NewFromLive, EmptyFile

\* A step that changes neither file and starts no compaction.
LEMMA JInvQuiet ==
    ASSUME JInv, data' = data, tmp' = tmp,
           \/ pc' \notin {"truncate", "copy", "swap"}
           \/ pc' = pc /\ live' = live /\ rd' = rd /\ newIndex' = newIndex
           \/ pc = "copy" /\ pc' = "swap" /\ live' = live /\ rd' = rd /\ newIndex' = newIndex
    PROVE  JInv'
<1>1. Apart(data)' /\ Apart(tmp)'
  BY DEF JInv, Apart, EndOf, RecLen
<1>2. LiveOK'
  BY DEF JInv, LiveOK
<1>3. CopiedOK' /\ NewFromLive'
  BY DEF JInv, CopiedOK, NewFromLive, Same
<1> QED
  BY <1>1, <1>2, <1>3 DEF JInv

\* The snapshot: offsets of index entries, each of a record of its own key.
LEMMA JInvSnapshot ==
    ASSUME IInv, JInv, CompactSnapshot
    PROVE  JInv'
<1>1. /\ pc = "snapshot" /\ pc' = "truncate" /\ live' = LiveOffsets
      /\ data' = data /\ tmp' = tmp
  BY DEF CompactSnapshot
<1>2. \A o \in LiveOffsets : \E k \in DOMAIN index : o = index[k].off
  BY DEF LiveOffsets
<1>3. \A k \in DOMAIN index : \E r \in data.recs : r.off = index[k].off /\ r.key = k
  BY <1>1 DEF IInv, IndexOK, Describes
<1>4. IsFile(data) /\ FileOK(data)
  BY DEF IInv, TypeOK, FilesOK
<1>5. \A r \in data.recs : r.off < data.len
  BY <1>4, RecordLengths
<1>6. \A r, s \in data.recs : r.off = s.off => r = s
  BY <1>4 DEF FileOK
<1>7. \A o \in LiveOffsets : o < data.len
  BY <1>2, <1>3, <1>5
<1>8. ASSUME NEW r \in data.recs, NEW s \in data.recs, r.off \in LiveOffsets,
             s.off \in LiveOffsets, r.key = s.key
      PROVE  r = s
  <2>1. PICK k \in DOMAIN index : r.off = index[k].off
    BY <1>2, <1>8
  <2>2. PICK j \in DOMAIN index : s.off = index[j].off
    BY <1>2, <1>8
  <2>3. r.key = k
    BY <1>3, <1>6, <2>1
  <2>4. s.key = j
    BY <1>3, <1>6, <2>2
  <2> QED
    BY <1>6, <1>8, <2>1, <2>2, <2>3, <2>4
<1>9. LiveOK'
  BY <1>1, <1>7, <1>8 DEF LiveOK
<1>10. Apart(data)' /\ Apart(tmp)'
  BY <1>1 DEF JInv, Apart, EndOf, RecLen
<1> QED
  BY <1>1, <1>9, <1>10 DEF JInv, CopiedOK, NewFromLive

LEMMA JInvOpen ==
    ASSUME IInv, JInv, CompactOpen
    PROVE  JInv'
<1>1. /\ pc = "truncate" /\ pc' = "copy" /\ live' = live /\ data' = data
      /\ tmp' = EmptyFile /\ rd' = Rewound /\ newIndex' = EmptyMap
  BY DEF CompactOpen
<1>2. Apart(data)' /\ Apart(tmp)'
  BY <1>1 DEF JInv, Apart, EndOf, RecLen, EmptyFile
<1>3. LiveOK'
  BY <1>1 DEF JInv, LiveOK
<1>4. \A r \in data.recs : ~(r.off < rd'.pos)
  <2>1. \A r \in data.recs : r.off \in Nat
    BY RecordLengths DEF IInv, TypeOK, FilesOK
  <2>2. rd'.pos = 0
    BY <1>1 DEF Rewound
  <2> QED
    BY <2>1, <2>2
<1>5. CopiedOK'
  BY <1>1, <1>4 DEF CopiedOK
<1>6. NewFromLive'
  BY <1>1 DEF NewFromLive, EmptyMap
<1> QED
  BY <1>2, <1>3, <1>5, <1>6 DEF JInv

\* A put appends behind everything the snapshot names.
LEMMA JInvPut ==
    ASSUME IInv, JInv, NEW k \in Keys, NEW v \in Vals, NEW ttl \in TTLs, Put(k, v, ttl)
    PROVE  JInv'
<1> DEFINE e == now + ttl
           n == [off |-> data.len, key |-> k, val |-> v, exp |-> e]
<1>1. /\ data' = AppendRec(data, k, v, e) /\ tmp' = tmp
      /\ pc' = pc /\ live' = live /\ rd' = rd /\ newIndex' = newIndex
  BY DEF Put, IInv, HandlesOK
<1>2. IsFile(data) /\ FileOK(data)
  BY DEF IInv, TypeOK, FilesOK
<1>3. data'.recs = data.recs \cup {n} /\ data'.len = data.len + RecLen(k, v) /\ n.off = data.len
  BY <1>1 DEF AppendRec
<1>4. data.len \in Nat /\ RecLen(k, v) \in Nat /\ live \subseteq Nat
  BY <1>2, RecLenPositive DEF IsFile, IInv, TypeOK
<1>5. Apart(data')
  BY <1>1, <1>2, AppendApart DEF JInv
<1>6. Apart(data)' /\ Apart(tmp)'
  BY <1>1, <1>5 DEF JInv, Apart, EndOf, RecLen
<1> HIDE DEF n
<1>7. pc \in {"truncate", "copy", "swap"} => n.off \notin live
  BY <1>3, <1>4 DEF JInv, LiveOK
<1>8. LiveOK'
  <2>1. pc \in {"truncate", "copy", "swap"} => \A o \in live : o < data'.len
    <3>1. pc \in {"truncate", "copy", "swap"} => \A o \in live : o < data.len
      BY DEF JInv, LiveOK
    <3>2. \A o \in live : o \in Nat
      BY <1>4
    <3>3. data'.len = data.len + RecLen(k, v)
      BY <1>3
    <3> QED
      BY <1>4, <3>1, <3>2, <3>3
  <2>2. pc \in {"truncate", "copy", "swap"} =>
          \A r, s \in data'.recs :
             (r.off \in live /\ s.off \in live /\ r.key = s.key) => r = s
    BY <1>3, <1>7 DEF JInv, LiveOK
  <2> QED
    BY <1>1, <2>1, <2>2 DEF LiveOK
<1>9. CopiedOK'
  BY <1>1, <1>3, <1>7 DEF JInv, CopiedOK, Same
<1>10. NewFromLive'
  BY <1>1, <1>3 DEF JInv, NewFromLive, Same
<1> QED
  BY <1>6, <1>8, <1>9, <1>10 DEF JInv

\* One turn of the copy loop: the reader passes one record, and copies it if the
\* snapshot names it.
LEMMA JInvCopyRecord ==
    ASSUME IInv, JInv, CopyRecord
    PROVE  JInv'
<1>1. PICK x \in ReadRecord(data, rd) :
        /\ rd' = Advance(data, rd, x)
        /\ IF x.off \in live
           THEN /\ tmp' = AppendRec(tmp, x.key, x.val, x.exp)
                /\ newIndex' = Insert(newIndex, x.key,
                                 [off |-> tmp.len,
                                  len |-> RecLen(x.key, x.val),
                                  exp |-> x.exp])
           ELSE UNCHANGED <<tmp, newIndex>>
        /\ wpos' = tmp'.len
  BY CopyAppends
<1>2. pc = "copy" /\ pc' = "copy" /\ data' = data /\ live' = live
  BY DEF CopyRecord
<1>3. x \in data.recs /\ x.off = rd.pos /\ rd'.pos = EndOf(x)
  BY <1>1 DEF ReadRecord, Advance
<1>4. IsFile(data) /\ FileOK(data) /\ IsFile(tmp) /\ FileOK(tmp)
  BY DEF IInv, TypeOK, FilesOK
<1>5. \A r \in data.recs : r.off \in Nat /\ EndOf(r) \in Nat /\ r.off < EndOf(r)
  BY <1>4, RecordLengths
<1>6. rd.pos \in Nat
  BY <1>3, <1>5
\* Behind the new position lie what was behind the old one, and x.
<1>7. ASSUME NEW r \in data.recs, r.off < rd'.pos
      PROVE  r = x \/ r.off < rd.pos
  <2>1. r = x \/ EndOf(r) <= x.off \/ EndOf(x) <= r.off
    BY <1>3 DEF JInv, Apart
  <2> QED
    BY <1>3, <1>5, <1>7, <2>1
<1>8. LiveOK'
  BY <1>2 DEF JInv, LiveOK
<1>9. CASE x.off \notin live
  <2>1. tmp' = tmp /\ newIndex' = newIndex
    BY <1>1, <1>9
  <2>2. Apart(data)' /\ Apart(tmp)'
    BY <1>2, <2>1 DEF JInv, Apart, EndOf, RecLen
  <2>3. CopiedOK'
    BY <1>2, <1>7, <1>9, <2>1 DEF JInv, CopiedOK, Same
  <2>4. NewFromLive'
    BY <1>2, <2>1 DEF JInv, NewFromLive, Same
  <2> QED
    BY <1>8, <2>2, <2>3, <2>4 DEF JInv
<1>10. CASE x.off \in live
  <2> DEFINE n == [off |-> tmp.len, key |-> x.key, val |-> x.val, exp |-> x.exp]
             ent == [off |-> tmp.len, len |-> RecLen(x.key, x.val), exp |-> x.exp]
  <2>1. /\ tmp' = AppendRec(tmp, x.key, x.val, x.exp)
        /\ newIndex' = Insert(newIndex, x.key, ent)
    BY <1>1, <1>10
  <2>2. tmp'.recs = tmp.recs \cup {n} /\ n.off = tmp.len /\ Same(x, n) /\ n.exp = x.exp
        /\ ent.off = tmp.len /\ ent.exp = x.exp
    BY <2>1 DEF AppendRec, Same
  <2>3. Apart(tmp')
    BY <1>4, <2>1, AppendApart DEF JInv
  <2>4. Apart(data)' /\ Apart(tmp)'
    BY <1>2, <2>3 DEF JInv, Apart, EndOf, RecLen
  <2> HIDE DEF n, ent
  <2>5. /\ DOMAIN newIndex' = DOMAIN newIndex \cup {x.key}
        /\ newIndex'[x.key] = ent
        /\ \A k \in DOMAIN newIndex : k # x.key => newIndex'[k] = newIndex[k]
    BY <2>1 DEF Insert
  <2>6. ASSUME NEW r \in data.recs, r.off \in live, r.off < rd'.pos
        PROVE  /\ r.key \in DOMAIN newIndex'
               /\ \E s \in tmp'.recs : s.off = newIndex'[r.key].off /\ Same(r, s)
    <3>1. CASE r = x
      BY <2>2, <2>5, <3>1
    <3>2. CASE r # x
      <4>1. r.off < rd.pos
        BY <1>7, <2>6, <3>2
      <4>2. r.key # x.key
        BY <1>2, <1>3, <1>10, <2>6, <3>2 DEF JInv, LiveOK
      <4>3. /\ r.key \in DOMAIN newIndex
            /\ \E s \in tmp.recs : s.off = newIndex[r.key].off /\ Same(r, s)
        BY <1>2, <2>6, <4>1 DEF JInv, CopiedOK
      <4> QED
        BY <2>2, <2>5, <4>2, <4>3
    <3> QED
      BY <3>1, <3>2
  <2>7. CopiedOK'
    BY <1>2, <2>6 DEF CopiedOK, Same
  <2>8. ASSUME NEW k \in DOMAIN newIndex'
        PROVE  \E r \in data.recs, s \in tmp'.recs :
                  /\ r.off \in live /\ r.key = k /\ Same(r, s)
                  /\ s.off = newIndex'[k].off /\ s.exp = newIndex'[k].exp
    <3>1. CASE k = x.key
      BY <1>3, <1>10, <2>2, <2>5, <3>1
    <3>2. CASE k # x.key
      <4>1. k \in DOMAIN newIndex /\ newIndex'[k] = newIndex[k]
        BY <2>5, <2>8, <3>2
      <4> QED
        BY <1>2, <2>2, <4>1 DEF JInv, NewFromLive
    <3> QED
      BY <3>1, <3>2
  <2>9. NewFromLive'
    BY <1>2, <2>8 DEF NewFromLive, Same
  <2> QED
    BY <1>8, <2>4, <2>7, <2>9 DEF JInv
<1> QED
  BY <1>9, <1>10

LEMMA JInvSwap ==
    ASSUME JInv, Swap
    PROVE  JInv'
<1>1. data' = tmp /\ tmp' = EmptyFile /\ pc' = "idle"
  BY DEF Swap
<1>2. Apart(data)' /\ Apart(tmp)'
  BY <1>1 DEF JInv, Apart, EndOf, RecLen, EmptyFile
<1> QED
  BY <1>1, <1>2 DEF JInv, LiveOK, CopiedOK, NewFromLive

LEMMA JInvCrash ==
    ASSUME JInv, NEW c, Crash(c)
    PROVE  JInv'
<1>1. data'.recs \subseteq data.recs /\ tmp' = tmp /\ pc' = "down"
  BY DEF Crash, Cut
<1>2. Apart(data)' /\ Apart(tmp)'
  BY <1>1 DEF JInv, Apart, EndOf, RecLen
<1> QED
  BY <1>1, <1>2 DEF JInv, LiveOK, CopiedOK, NewFromLive

LEMMA NextJInv ==
    ASSUME Failures \subseteq HarmlessFailures, IInv, JInv, [Next]_vars
    PROVE  JInv'
<1>1. CASE UNCHANGED vars
  BY <1>1, JInvQuiet DEF vars
<1>2. CASE Open \/ ReplayRecord \/ ReplayEnd
  <2>1. data' = data /\ tmp' = tmp /\ pc' \notin {"truncate", "copy", "swap"}
    BY <1>2 DEF Open, ReplayRecord, ReplayEnd
  <2> QED
    BY <2>1, JInvQuiet
<1>3. CASE Client
  <2>1. PICK k \in Keys :
          \/ \E v \in Answers[k] :
               \/ \E ttl \in TTLs : Put(k, v, ttl)
               \/ \E n \in 0..(RecLen(k, v) - 1) : PutFails(k, v, n)
          \/ Delete(k)
    BY <1>3 DEF Client
  <2>2. ASSUME NEW v, NEW n, PutFails(k, v, n) PROVE FALSE
    BY <2>2 DEF PutFails, HarmlessFailures
  <2>3. Answers[k] \subseteq Vals
    BY LengthsAssumption
  <2>4. CASE Delete(k)
    BY <2>4, JInvQuiet DEF Delete
  <2> QED
    BY <2>1, <2>2, <2>3, <2>4, JInvPut
<1>4. CASE Compactor
  <2>1. CASE CompactTrigger
    BY <2>1, JInvQuiet DEF CompactTrigger
  <2>2. CASE CompactSnapshot
    BY <2>2, JInvSnapshot
  <2>3. CASE CompactOpen
    BY <2>3, JInvOpen
  <2>4. CASE CopyRecord
    BY <2>4, JInvCopyRecord
  <2>5. CASE CopyEnd
    BY <2>5, JInvQuiet DEF CopyEnd
  <2>6. CASE SwapFailsOpenWrite
    BY <2>6, JInvQuiet DEF SwapFailsOpenWrite
  <2>9. CASE CopyFails
    <3>1. tmp'.recs \subseteq tmp.recs
      BY <2>9, AbandonedFile DEF IInv
    <3>2. data' = data /\ pc' = "idle"
      BY <2>9 DEF CopyFails
    <3>3. Apart(data)' /\ Apart(tmp)'
      BY <3>1, <3>2 DEF JInv, Apart, EndOf, RecLen
    <3> QED
      BY <3>2, <3>3 DEF JInv, LiveOK, CopiedOK, NewFromLive
  <2>7. CASE Swap
    BY <2>7, JInvSwap
  <2>8. ~(SwapFailsOpenRead \/ SwapFailsRename \/ SwapFailsReopen)
    BY DEF SwapFailsOpenRead, SwapFailsRename, SwapFailsReopen,
           HarmlessFailures
  <2> QED
    BY <1>4, <2>1, <2>2, <2>3, <2>4, <2>5, <2>6, <2>7, <2>8, <2>9
       DEF Compactor,
       CompactStep
<1>5. CASE \E c \in 0..data.len : Crash(c)
  BY <1>5, JInvCrash
<1>6. CASE \E t \in 0..MaxTime : SetClock(t)
  BY <1>6, JInvQuiet DEF SetClock
<1> QED
  BY <1>1, <1>2, <1>3, <1>4, <1>5, <1>6 DEF Next

LEMMA CompactionAlways ==
    ASSUME Failures \subseteq HarmlessFailures
    PROVE  Spec => [](IInv /\ JInv)
<1>1. IInv /\ JInv /\ [Next]_vars => (IInv /\ JInv)'
  BY NextIInv, NextJInv
<1> QED
  BY <1>1, InitIInv, InitJInv, PTL DEF Spec

\* The swap loses no entry the copy loop has passed, and brings in nothing that was
\* not in the snapshot, whatever is put and deleted while it copies (compact).
THEOREM SwapKeepsWhatItPassed ==
    ASSUME Failures \subseteq HarmlessFailures
    PROVE  Spec => SwapKeepsSnapshot
<1> DEFINE Keeps ==
      (pc = "swap" /\ pc' = "idle" /\ index' # index) =>
        /\ \A k \in DOMAIN index :
             (index[k].off \in live /\ index[k].off < rd.pos) =>
                /\ k \in DOMAIN index'
                /\ \E r \in data.recs, s \in data'.recs :
                     /\ r.off = index[k].off /\ s.off = index'[k].off
                     /\ [r EXCEPT !.off = 0] = [s EXCEPT !.off = 0]
        /\ \A k \in DOMAIN index' : \E r \in data.recs :
             r.off \in live /\ r.key = k /\ r.exp = index'[k].exp
<1>1. ASSUME IInv, JInv, [Next]_vars PROVE Keeps
  <2> SUFFICES ASSUME pc = "swap", pc' = "idle", index' # index
               PROVE  /\ \A k \in DOMAIN index :
                           (index[k].off \in live /\ index[k].off < rd.pos) =>
                             /\ k \in DOMAIN index'
                             /\ \E r \in data.recs, s \in data'.recs :
                                  /\ r.off = index[k].off /\ s.off = index'[k].off
                                  /\ [r EXCEPT !.off = 0] = [s EXCEPT !.off = 0]
                      /\ \A k \in DOMAIN index' : \E r \in data.recs :
                           r.off \in live /\ r.key = k /\ r.exp = index'[k].exp
    OBVIOUS
  <2>1. Swap
    <3>1. ~(UNCHANGED vars)
      BY DEF vars
    <3>2. ~Open /\ ~ReplayRecord /\ ~ReplayEnd
      BY DEF Open, ReplayRecord, ReplayEnd
    <3>3. ~Client
      BY DEF Client, Put, PutFails, Delete
    <3>4. ~(\E c \in 0..data.len : Crash(c)) /\ ~(\E t \in 0..MaxTime : SetClock(t))
      BY DEF Crash, SetClock
    <3>5. Compactor
      BY <1>1, <3>1, <3>2, <3>3, <3>4 DEF Next
    <3>6. ~CompactTrigger /\ ~CompactSnapshot /\ ~CompactOpen /\ ~CopyRecord /\ ~CopyEnd
      BY DEF CompactTrigger, CompactSnapshot, CompactOpen, CopyRecord, CopyEnd
    <3>7. /\ ~CopyFails /\ ~SwapFailsOpenWrite /\ ~SwapFailsOpenRead /\ ~SwapFailsRename
          /\ ~SwapFailsReopen
      BY DEF CopyFails, SwapFailsOpenWrite, SwapFailsOpenRead, SwapFailsRename,
             SwapFailsReopen, memory
    <3> QED
      BY <3>5, <3>6, <3>7 DEF Compactor, CompactStep
  <2>2. data' = tmp /\ index' = newIndex
    BY <2>1 DEF Swap
  <2>3. ASSUME NEW k \in DOMAIN index, index[k].off \in live, index[k].off < rd.pos
        PROVE  /\ k \in DOMAIN index'
               /\ \E r \in data.recs, s \in data'.recs :
                    /\ r.off = index[k].off /\ s.off = index'[k].off
                    /\ [r EXCEPT !.off = 0] = [s EXCEPT !.off = 0]
    <3>1. PICK r \in data.recs : r.off = index[k].off /\ r.key = k
      BY <1>1 DEF IInv, IndexOK, Describes
    <3>2. /\ k \in DOMAIN newIndex
          /\ \E s \in tmp.recs : s.off = newIndex[k].off /\ Same(r, s)
      BY <1>1, <2>3, <3>1 DEF JInv, CopiedOK
    <3>3. PICK s \in tmp.recs : s.off = newIndex[k].off /\ Same(r, s)
      BY <3>2
    <3>4. r \in Record /\ s \in Record
      BY <1>1 DEF IInv, TypeOK, IsFile
    <3>5. [r EXCEPT !.off = 0] = [s EXCEPT !.off = 0]
      BY <3>3, <3>4 DEF Record, Same
    <3> QED
      BY <2>2, <3>1, <3>2, <3>3, <3>5
  <2>4. \A k \in DOMAIN index' : \E r \in data.recs :
           r.off \in live /\ r.key = k /\ r.exp = index'[k].exp
    BY <1>1, <2>2 DEF JInv, NewFromLive, Same
  <2> QED
    BY <2>3, <2>4
<1>2. IInv /\ JInv /\ [Next]_vars => [Keeps]_vars
  BY <1>1
<1> QED
  BY <1>2, CompactionAlways, PTL DEF Spec, SwapKeepsSnapshot

-----------------------------------------------------------------------------
\* Restarts

\* What the replay has indexed so far is in the log, whatever failed before.
ReplayOK == pc = "replay" => \A k \in DOMAIN index : Describes(index[k], k, data)

LEMMA NextReplayOK == ReplayOK /\ [Next]_vars => ReplayOK'
<1> SUFFICES ASSUME ReplayOK, [Next]_vars PROVE ReplayOK'
  OBVIOUS
<1>1. CASE UNCHANGED vars
  BY <1>1 DEF vars, ReplayOK, Describes, RecLen
<1>2. CASE Open
  BY <1>2 DEF Open, ReplayOK, EmptyMap
<1>3. CASE ReplayRecord
  <2>1. PICK x \in ReadRecord(data, rd) :
          index' = Insert(index, x.key, [off |-> x.off, len |-> RecLen(x.key, x.val),
                                         exp |-> x.exp])
    BY <1>3 DEF ReplayRecord
  <2> DEFINE ent == [off |-> x.off, len |-> RecLen(x.key, x.val), exp |-> x.exp]
  <2>2. x \in data.recs
    BY DEF ReadRecord
  <2>3. Describes(ent, x.key, data)
    BY <2>2 DEF Describes
  <2>4. pc = "replay" /\ data' = data
    BY <1>3 DEF ReplayRecord
  <2> HIDE DEF ent
  <2>5. \A k \in DOMAIN index' : Describes(index'[k], k, data)
    BY <2>1, <2>3, <2>4 DEF Insert, ReplayOK, ent
  <2> QED
    BY <2>4, <2>5 DEF ReplayOK, Describes, RecLen
<1>4. CASE ReplayEnd \/ Compactor \/ \E c \in 0..data.len : Crash(c)
  <2>1. pc' # "replay"
    BY <1>4 DEF ReplayEnd, Compactor, CompactStep, Crash, CompactTrigger, CompactSnapshot,
                CompactOpen, CopyRecord, CopyEnd, Swap, CopyFails, SwapFailsOpenWrite,
                SwapFailsOpenRead, SwapFailsRename, SwapFailsReopen
  <2> QED
    BY <2>1 DEF ReplayOK
<1>5. CASE Client
  <2>1. pc' # "replay"
    BY <1>5 DEF Client, Put, PutFails, Delete, Running
  <2> QED
    BY <2>1 DEF ReplayOK
<1>6. CASE \E t \in 0..MaxTime : SetClock(t)
  BY <1>6 DEF SetClock, memory, ReplayOK, Describes, RecLen
<1> QED
  BY <1>1, <1>2, <1>3, <1>4, <1>5, <1>6 DEF Next

\* Whatever system calls failed before, whatever bytes the log holds: when open() is
\* done, every index entry is sound and the next record is indexed where it is appended.
THEOREM OpenHeals == Spec => RestartHeals
<1> DEFINE Heals == (pc = "replay" /\ pc' = "idle") => IndexIntegrity' /\ size' = FileOf(wh)'.len
<1>1. ASSUME ReplayOK, [Next]_vars PROVE Heals
  <2> SUFFICES ASSUME pc = "replay", pc' = "idle"
               PROVE  IndexIntegrity' /\ size' = FileOf(wh)'.len
    OBVIOUS
  <2>1. ReplayEnd
    <3>1. ~(UNCHANGED vars) /\ ~Open /\ ~ReplayRecord /\ ~Client
      BY DEF vars, Open, ReplayRecord, Client, Put, PutFails, Delete
    <3>2. ~(\E c \in 0..data.len : Crash(c)) /\ ~(\E t \in 0..MaxTime : SetClock(t))
      BY DEF Crash, SetClock
    <3>3. ~Compactor
      BY DEF Compactor, CompactStep, CompactTrigger, CompactSnapshot, CompactOpen, CopyRecord,
             CopyEnd, Swap, CopyFails, SwapFailsOpenWrite, SwapFailsOpenRead, SwapFailsRename,
             SwapFailsReopen
    <3> QED
      BY <1>1, <3>1, <3>2, <3>3 DEF Next
  <2>2. wh' = "data" /\ rh' = "data" /\ size' = data.len /\ data' = data /\ index' = index
    BY <2>1 DEF ReplayEnd
  <2>3. \A k \in DOMAIN index : Describes(index[k], k, data)
    BY <1>1 DEF ReplayOK
  <2>4. FileOf(wh)' = data' /\ FileOf(rh)' = data'
    BY <2>2 DEF FileOf
  <2>5. IndexIntegrity'
    BY <2>2, <2>3, <2>4 DEF IndexIntegrity, Describes, RecLen
  <2> QED
    BY <2>2, <2>4, <2>5
<1>2. ReplayOK /\ [Next]_vars => [Heals]_vars
  BY <1>1
<1>3. Init => ReplayOK
  BY DEF Init, ReplayOK
<1> QED
  BY <1>2, <1>3, NextReplayOK, PTL DEF Spec, RestartHeals

-----------------------------------------------------------------------------
\* Dead bytes

\* The bytes of all entries of an index.
UsedBy(f) == UNION {Bytes(f[k]) : k \in DOMAIN f}

DeadOK == Running => Cardinality(UsedBytes) + dead <= size

LEMMA BytesOfEntry ==
    ASSUME NEW e, e.off \in Nat, e.len \in Nat
    PROVE  IsFiniteSet(Bytes(e)) /\ Cardinality(Bytes(e)) = e.len
<1> DEFINE b == e.off + e.len - 1
<1>1. b \in Int /\ e.off \in Int
  OBVIOUS
<1>2. /\ IsFiniteSet(e.off..b)
      /\ Cardinality(e.off..b) = IF e.off > b THEN 0 ELSE b - e.off + 1
  BY <1>1, FS_Interval
<1>3. (IF e.off > b THEN 0 ELSE b - e.off + 1) = e.len
  OBVIOUS
<1> QED
  BY <1>2, <1>3 DEF Bytes

\* The indexed records lie within the log, and no two overlap.
LEMMA EntriesApart ==
    ASSUME IInv, JInv, Running
    PROVE  /\ \A k \in DOMAIN index :
                /\ index[k].off \in Nat /\ index[k].len \in Nat
                /\ Bytes(index[k]) \subseteq 0..(size - 1)
           /\ \A j, k \in DOMAIN index :
                j # k => Bytes(index[j]) \cap Bytes(index[k]) = {}
<1>1. size = data.len /\ size \in Nat
  BY DEF IInv, HandlesOK, TypeOK
<1>2. \A k \in DOMAIN index :
        \E r \in data.recs : /\ r.key = k /\ r.off = index[k].off
                             /\ RecLen(r.key, r.val) = index[k].len
  BY DEF IInv, IndexOK, Describes, Running
<1>3. \A r \in data.recs : /\ r.off \in Nat /\ EndOf(r) \in Nat /\ EndOf(r) <= data.len
                           /\ EndOf(r) = r.off + RecLen(r.key, r.val)
                           /\ RecLen(r.key, r.val) \in Nat
  BY RecordLengths DEF IInv, TypeOK, FilesOK
<1>4. ASSUME NEW k \in DOMAIN index
      PROVE  /\ index[k].off \in Nat /\ index[k].len \in Nat
             /\ Bytes(index[k]) \subseteq 0..(size - 1)
  <2>1. PICK r \in data.recs : r.off = index[k].off /\ RecLen(r.key, r.val) = index[k].len
    BY <1>2
  <2>2. index[k].off \in Nat /\ index[k].len \in Nat /\ index[k].off + index[k].len <= size
    BY <1>1, <1>3, <2>1
  <2> QED
    BY <1>1, <2>2 DEF Bytes
<1>5. ASSUME NEW j \in DOMAIN index, NEW k \in DOMAIN index, j # k
      PROVE  Bytes(index[j]) \cap Bytes(index[k]) = {}
  <2>1. PICK r \in data.recs : /\ r.key = j /\ r.off = index[j].off
                               /\ RecLen(r.key, r.val) = index[j].len
    BY <1>2
  <2>2. PICK s \in data.recs : /\ s.key = k /\ s.off = index[k].off
                               /\ RecLen(s.key, s.val) = index[k].len
    BY <1>2
  <2>3. EndOf(r) <= s.off \/ EndOf(s) <= r.off
    BY <1>5, <2>1, <2>2 DEF JInv, Apart
  <2>4. /\ EndOf(r) = index[j].off + index[j].len /\ EndOf(s) = index[k].off + index[k].len
        /\ index[j].off \in Nat /\ index[j].len \in Nat
        /\ index[k].off \in Nat /\ index[k].len \in Nat
    BY <1>3, <2>1, <2>2
  <2>5. \/ index[j].off + index[j].len <= index[k].off
        \/ index[k].off + index[k].len <= index[j].off
    BY <2>1, <2>2, <2>3, <2>4
  <2> QED
    BY <2>4, <2>5 DEF Bytes
<1> QED
  BY <1>4, <1>5

LEMMA UsedWithinLog ==
    ASSUME IInv, JInv, Running
    PROVE  /\ UsedBytes \subseteq 0..(size - 1) /\ IsFiniteSet(UsedBytes)
           /\ Cardinality(UsedBytes) \in Nat /\ Cardinality(UsedBytes) <= size
           /\ size \in Nat /\ dead \in Nat
<1>1. size \in Nat /\ dead \in Nat
  BY DEF IInv, TypeOK
<1>2. UsedBytes \subseteq 0..(size - 1)
  BY EntriesApart DEF UsedBytes
<1>3. 0 \in Int /\ size - 1 \in Int
  BY <1>1
<1>4. /\ IsFiniteSet(0..(size - 1))
      /\ Cardinality(0..(size - 1)) = IF 0 > size - 1 THEN 0 ELSE size - 1 - 0 + 1
  BY <1>3, FS_Interval
<1>5. Cardinality(0..(size - 1)) = size
  BY <1>1, <1>4
<1>6. IsFiniteSet(UsedBytes) /\ Cardinality(UsedBytes) <= Cardinality(0..(size - 1))
  BY <1>2, <1>4, FS_Subset
<1>7. Cardinality(UsedBytes) \in Nat
  BY <1>6, FS_CardinalityType
<1> QED
  BY <1>1, <1>2, <1>5, <1>6, <1>7

\* The same, for the state after a step.
UsedInLog ==
    IInv /\ JInv /\ Running =>
        Cardinality(UsedBytes) \in Nat /\ Cardinality(UsedBytes) <= size /\ size \in Nat

LEMMA UsedInLogNow == UsedInLog
BY UsedWithinLog DEF UsedInLog

LEMMA UsedInLogNext == UsedInLog'
BY UsedInLogNow, PTL

\* Taking an entry out frees its bytes.
LEMMA RemoveFrees ==
    ASSUME IInv, JInv, Running, NEW k \in DOMAIN index
    PROVE  /\ IsFiniteSet(UsedBy(Remove(index, k)))
           /\ Cardinality(UsedBy(Remove(index, k))) \in Nat
           /\ Cardinality(UsedBy(Remove(index, k))) + index[k].len = Cardinality(UsedBytes)
<1> DEFINE B == Bytes(index[k])
           rest == UsedBy(Remove(index, k))
<1>1. rest = UsedBytes \ B
  <2>1. rest = UNION {Bytes(index[j]) : j \in DOMAIN index \ {k}}
    BY DEF UsedBy, Remove
  <2>2. \A j \in DOMAIN index \ {k} : Bytes(index[j]) \cap B = {}
    BY EntriesApart
  <2> HIDE DEF B, rest
  <2>3. \A b : b \in UsedBytes <=> b \in B \/ b \in rest
    BY <2>1 DEF UsedBytes, B
  <2>4. \A b : b \in rest => b \notin B
    BY <2>1, <2>2
  <2> QED
    BY <2>3, <2>4
<1>2. index[k].off \in Nat /\ index[k].len \in Nat
  BY EntriesApart
<1>3. Cardinality(B) = index[k].len /\ IsFiniteSet(B)
  BY <1>2, BytesOfEntry
<1>4. UsedBytes \cap B = B
  BY DEF UsedBytes
<1>5. IsFiniteSet(UsedBytes) /\ Cardinality(UsedBytes) \in Nat
  BY UsedWithinLog
<1> HIDE DEF B, rest
<1>6. IsFiniteSet(UsedBytes \ B)
      /\ Cardinality(UsedBytes \ B) = Cardinality(UsedBytes) - Cardinality(UsedBytes \cap B)
  BY <1>5, FS_Difference
<1>7. Cardinality(rest) = Cardinality(UsedBytes) - index[k].len /\ IsFiniteSet(rest)
  BY <1>1, <1>3, <1>4, <1>6
<1>8. Cardinality(rest) \in Nat
  BY <1>7, FS_CardinalityType
<1>9. Cardinality(rest) + index[k].len = Cardinality(UsedBytes)
  BY <1>2, <1>5, <1>7
<1> QED
  BY <1>7, <1>8, <1>9 DEF rest

LEMMA DeadPut ==
    ASSUME IInv, JInv, DeadOK, NEW k \in Keys, NEW v \in Vals, NEW ttl, Put(k, v, ttl)
    PROVE  DeadOK'
<1> DEFINE ent == [off |-> size, len |-> RecLen(k, v), exp |-> now + ttl]
           rest == UsedBy(Remove(index, k))
<1>1. /\ Running /\ index' = Insert(index, k, ent) /\ dead' = dead + PutDead(k)
      /\ size' = size + RecLen(k, v)
  BY DEF Put
<1>2. RecLen(k, v) \in Nat /\ size \in Nat /\ dead \in Nat
      /\ Cardinality(UsedBytes) \in Nat /\ IsFiniteSet(UsedBytes)
      /\ Cardinality(UsedBytes) + dead <= size
  BY <1>1, RecLenPositive, UsedWithinLog DEF DeadOK
<1>3. UsedBytes' = rest \cup Bytes(ent)
  <2>1. /\ DOMAIN index' = DOMAIN index \cup {k} /\ index'[k] = ent
        /\ \A j \in DOMAIN index \ {k} : index'[j] = index[j]
    BY <1>1 DEF Insert
  <2>2. rest = UNION {Bytes(index[j]) : j \in DOMAIN index \ {k}}
    BY DEF UsedBy, Remove
  <2>3. UsedBytes' = UNION {Bytes(index'[j]) : j \in DOMAIN index'}
    BY DEF UsedBytes, Bytes
  <2> HIDE DEF rest, ent
  <2> QED
    BY <2>1, <2>2, <2>3
<1>4. /\ IsFiniteSet(rest) /\ Cardinality(rest) \in Nat /\ PutDead(k) \in Nat
      /\ Cardinality(rest) + PutDead(k) = Cardinality(UsedBytes)
  <2>1. CASE k \in DOMAIN index
    <3>1. index[k].len \in Nat
      BY <1>1, <2>1, EntriesApart
    <3> QED
      BY <1>1, <2>1, <3>1, RemoveFrees DEF PutDead
  <2>2. CASE k \notin DOMAIN index
    <3>1. rest = UsedBytes
      BY <2>2 DEF UsedBy, Remove, UsedBytes
    <3>2. PutDead(k) = 0
      BY <2>2 DEF PutDead
    <3> HIDE DEF rest
    <3> QED
      BY <1>2, <3>1, <3>2
  <2> QED
    BY <2>1, <2>2
<1>5. ent.off \in Nat /\ ent.len = RecLen(k, v)
  BY <1>2
<1> HIDE DEF ent, rest
<1>6. IsFiniteSet(Bytes(ent)) /\ Cardinality(Bytes(ent)) = RecLen(k, v)
  BY <1>2, <1>5, BytesOfEntry
<1>7. /\ Cardinality(rest \cup Bytes(ent)) =
           Cardinality(rest) + Cardinality(Bytes(ent)) - Cardinality(rest \cap Bytes(ent))
      /\ IsFiniteSet(rest \cap Bytes(ent))
  BY <1>4, <1>6, FS_Union, FS_Intersection
<1>8. Cardinality(rest \cap Bytes(ent)) \in Nat
  BY <1>7, FS_CardinalityType
<1>9. Cardinality(UsedBytes') + dead' <= size'
  BY <1>1, <1>2, <1>3, <1>4, <1>6, <1>7, <1>8
<1> QED
  BY <1>9 DEF DeadOK

LEMMA NextDeadOK ==
    ASSUME Failures \subseteq HarmlessFailures, IInv, JInv, DeadOK, [Next]_vars
    PROVE  DeadOK'
<1>1. IInv' /\ JInv'
  BY NextIInv, NextJInv
\* With no dead bytes there is nothing to show.
<1>2. ASSUME dead' = 0 PROVE DeadOK'
  <2> SUFFICES ASSUME Running' PROVE Cardinality(UsedBytes') + dead' <= size'
    BY DEF DeadOK
  <2>1. Cardinality(UsedBytes') \in Nat /\ Cardinality(UsedBytes') <= size' /\ size' \in Nat
    BY <1>1, UsedInLogNext DEF UsedInLog
  <2> QED
    BY <1>2, <2>1
<1>3. ASSUME UNCHANGED <<index, dead, size>>, Running' => Running PROVE DeadOK'
  BY <1>3 DEF DeadOK, UsedBytes, Bytes
<1>4. CASE UNCHANGED vars
  BY <1>3, <1>4 DEF vars, Running
<1>5. CASE Open \/ ReplayRecord
  BY <1>5 DEF Open, ReplayRecord, DeadOK, Running
<1>6. CASE ReplayEnd \/ Swap \/ \E c \in 0..data.len : Crash(c)
  BY <1>2, <1>6 DEF ReplayEnd, Swap, Crash
<1>7. CASE Client
  <2>1. PICK k \in Keys :
          \/ \E v \in Answers[k] :
               \/ \E ttl \in TTLs : Put(k, v, ttl)
               \/ \E n \in 0..(RecLen(k, v) - 1) : PutFails(k, v, n)
          \/ Delete(k)
    BY <1>7 DEF Client
  <2>2. ASSUME NEW v, NEW n, PutFails(k, v, n) PROVE FALSE
    BY <2>2 DEF PutFails, HarmlessFailures
  <2>3. Answers[k] \subseteq Vals
    BY LengthsAssumption
  <2>4. CASE Delete(k)
    <3>1. /\ Running /\ k \in DOMAIN index /\ index' = Remove(index, k)
          /\ dead' = dead + index[k].len /\ size' = size
      BY <2>4 DEF Delete
    <3>2. UsedBytes' = UsedBy(Remove(index, k))
      BY <3>1 DEF UsedBytes, UsedBy, Bytes
    <3>3. /\ Cardinality(UsedBy(Remove(index, k))) \in Nat
          /\ Cardinality(UsedBy(Remove(index, k))) + index[k].len = Cardinality(UsedBytes)
          /\ index[k].len \in Nat
      BY <3>1, RemoveFrees, EntriesApart
    <3>4. Cardinality(UsedBytes) + dead <= size /\ dead \in Nat /\ size \in Nat
      BY <3>1, UsedWithinLog DEF DeadOK
    <3>5. Cardinality(UsedBytes') + dead' <= size'
      BY <3>1, <3>2, <3>3, <3>4
    <3> QED
      BY <3>5 DEF DeadOK
  <2> QED
    BY <2>1, <2>2, <2>3, <2>4, DeadPut
<1>8. CASE \/ CompactTrigger \/ CompactSnapshot \/ CompactOpen \/ CopyRecord \/ CopyEnd
           \/ CopyFails \/ SwapFailsOpenWrite
  <2>1. UNCHANGED <<index, dead, size>> /\ Running
    BY <1>8 DEF CompactTrigger, CompactSnapshot, CompactOpen, CopyRecord, CopyEnd, CopyFails,
                SwapFailsOpenWrite, memory, Running
  <2> QED
    BY <1>3, <2>1
<1>9. ~(SwapFailsOpenRead \/ SwapFailsRename \/ SwapFailsReopen)
  BY DEF SwapFailsOpenRead, SwapFailsRename, SwapFailsReopen, HarmlessFailures
<1>10. CASE \E t \in 0..MaxTime : SetClock(t)
  BY <1>3, <1>10 DEF SetClock, memory, Running
<1> QED
  BY <1>4, <1>5, <1>6, <1>7, <1>8, <1>9, <1>10 DEF Next, Compactor, CompactStep

\* For records of every length and any interleaving of puts, deletes and compactions,
\* indexed records never overlap and their bytes and dead_bytes stay within size.
THEOREM DeadBytesBounded ==
    ASSUME Failures \subseteq HarmlessFailures
    PROVE  Spec => []DeadBytesAreDead
<1>1. IInv /\ JInv /\ DeadOK => DeadBytesAreDead
  BY EntriesApart DEF DeadOK, DeadBytesAreDead
<1>2. Init => DeadOK
  BY DEF Init, DeadOK, Running
<1>3. IInv /\ JInv /\ DeadOK /\ [Next]_vars => DeadOK'
  BY NextDeadOK
<1> QED
  BY <1>1, <1>2, <1>3, CompactionAlways, PTL DEF Spec

-----------------------------------------------------------------------------
\* The store implements its contract

\* The map that index f describes in the records S, and the map that the
\* offsets L describe in them.
ReadIn(S, o) == LET r == CHOOSE x \in S : x.off = o IN [val |-> r.val, exp |-> r.exp]
MapIn(S, f) == [k \in DOMAIN f |-> ReadIn(S, f[k].off)]

KeyIn(S, L, k) == LET r == CHOOSE x \in S : x.off \in L /\ x.key = k
                  IN  [val |-> r.val, exp |-> r.exp]
SnapIn(S, L) == [k \in {r.key : r \in {x \in S : x.off \in L}} |-> KeyIn(S, L, k)]

Compacting == pc \in {"truncate", "copy", "swap"}

LEMMA MapsNow ==
    /\ CurrentMap = IF Running THEN MapIn(data.recs, index) ELSE EmptyMap
    /\ SnapshotMap = IF Compacting THEN SnapIn(data.recs, live) ELSE EmptyMap
BY DEF CurrentMap, ContentAt, MapIn, ReadIn, SnapshotMap, SnapIn, KeyIn, Compacting

LEMMA MapsNext ==
    /\ CurrentMap' = IF Running' THEN MapIn(data'.recs, index') ELSE EmptyMap
    /\ SnapshotMap' = IF Compacting' THEN SnapIn(data'.recs, live') ELSE EmptyMap
BY DEF CurrentMap, ContentAt, MapIn, ReadIn, SnapshotMap, SnapIn, KeyIn, Compacting, EmptyMap

\* Offsets are unique in a sound file, so reading at a record's offset reads it.
LEMMA ReadInIs ==
    ASSUME NEW S, NEW r \in S, \A x, y \in S : x.off = y.off => x = y
    PROVE  ReadIn(S, r.off) = [val |-> r.val, exp |-> r.exp]
<1>1. (CHOOSE x \in S : x.off = r.off) = r
  OBVIOUS
<1> QED
  BY <1>1 DEF ReadIn

\* The snapshot has one record of a key.
OneEach(S, L) == \A x, y \in S : (x.off \in L /\ y.off \in L /\ x.key = y.key) => x = y

LEMMA SnapInIs ==
    ASSUME NEW S, NEW L, OneEach(S, L), NEW r \in S, r.off \in L
    PROVE  /\ r.key \in DOMAIN SnapIn(S, L)
           /\ SnapIn(S, L)[r.key] = [val |-> r.val, exp |-> r.exp]
<1>1. (CHOOSE x \in S : x.off \in L /\ x.key = r.key) = r
  BY DEF OneEach
<1>2. KeyIn(S, L, r.key) = [val |-> r.val, exp |-> r.exp]
  BY <1>1 DEF KeyIn
<1>3. r.key \in {x.key : x \in {y \in S : y.off \in L}}
  OBVIOUS
<1> QED
  BY <1>2, <1>3 DEF SnapIn

LEMMA SnapInDomain ==
    ASSUME NEW S, NEW L, NEW k \in DOMAIN SnapIn(S, L)
    PROVE  \E r \in S : r.off \in L /\ r.key = k
BY DEF SnapIn

\* Appended records change neither map.
LEMMA MapInAppend ==
    ASSUME NEW S, NEW f, NEW T, S \subseteq T,
           \A k \in DOMAIN f : \E r \in S : r.off = f[k].off,
           \A x, y \in T : x.off = y.off => x = y
    PROVE  MapIn(T, f) = MapIn(S, f)
<1>1. ASSUME NEW k \in DOMAIN f PROVE ReadIn(T, f[k].off) = ReadIn(S, f[k].off)
  <2>1. PICK r \in S : r.off = f[k].off
    OBVIOUS
  <2>2. ReadIn(S, r.off) = [val |-> r.val, exp |-> r.exp]
    BY ReadInIs
  <2>3. ReadIn(T, r.off) = [val |-> r.val, exp |-> r.exp]
    BY ReadInIs
  <2> QED
    BY <2>1, <2>2, <2>3
<1> QED
  BY <1>1 DEF MapIn

LEMMA SnapInAppend ==
    ASSUME NEW S, NEW L, NEW n, n.off \notin L, OneEach(S, L), NEW T, T = S \cup {n}
    PROVE  SnapIn(T, L) = SnapIn(S, L)
<1>1. OneEach(T, L)
  BY DEF OneEach
<1>2. {r.key : r \in {x \in T : x.off \in L}} = {r.key : r \in {x \in S : x.off \in L}}
  OBVIOUS
<1>3. ASSUME NEW k \in {r.key : r \in {x \in S : x.off \in L}}
      PROVE  KeyIn(T, L, k) = KeyIn(S, L, k)
  <2>1. PICK r \in S : r.off \in L /\ r.key = k
    OBVIOUS
  <2>2. (CHOOSE x \in S : x.off \in L /\ x.key = k) = r
    BY <2>1 DEF OneEach
  <2>3. (CHOOSE x \in T : x.off \in L /\ x.key = k) = r
    BY <1>1, <2>1 DEF OneEach
  <2> QED
    BY <2>2, <2>3 DEF KeyIn
<1> QED
  BY <1>2, <1>3 DEF SnapIn

\* What the invariants say of the records, the index and the snapshot.
LEMMA RecordFacts ==
    ASSUME IInv, JInv
    PROVE  /\ \A x, y \in data.recs : x.off = y.off => x = y
           /\ \A r \in data.recs : [key |-> r.key, val |-> r.val, exp |-> r.exp] \in puts
           /\ pc # "down" => \A k \in DOMAIN index : \E r \in data.recs :
                               r.off = index[k].off /\ r.key = k
           /\ Compacting => OneEach(data.recs, live) /\ \A o \in live : o < data.len
           /\ data.len \in Nat
<1>1. data.len \in Nat
  BY DEF IInv, TypeOK, IsFile
<1>2. pc # "down" => \A k \in DOMAIN index : \E r \in data.recs :
                       r.off = index[k].off /\ r.key = k
  BY DEF IInv, IndexOK, Describes
<1>3. Compacting => OneEach(data.recs, live) /\ \A o \in live : o < data.len
  BY DEF JInv, LiveOK, Compacting, OneEach
<1> QED
  BY <1>1, <1>2, <1>3 DEF IInv, FilesOK, FileOK, FromPuts

\* The steps of the contract.
cstate == <<Running, CurrentMap, SnapshotMap, puts>>

LEMMA StepUnseen ==
    ASSUME puts' = puts, Running' = Running, Compacting' = Compacting,
           Running => data' = data /\ index' = index,
           Compacting => live' = live
    PROVE  UNCHANGED cstate
<1>1. Compacting => Running
  BY DEF Compacting, Running
<1>2. CurrentMap' = CurrentMap
  BY MapsNow, MapsNext
<1>3. SnapshotMap' = SnapshotMap
  BY <1>1, MapsNow, MapsNext
<1> QED
  BY <1>2, <1>3 DEF cstate

LEMMA StepPut ==
    ASSUME IInv, JInv, IInv', NEW k \in Keys, NEW v \in Vals, NEW ttl \in TTLs,
           Put(k, v, ttl)
    PROVE  Contract!Next
<1> DEFINE p == [key |-> k, val |-> v, exp |-> now + ttl]
           n == [off |-> data.len, key |-> k, val |-> v, exp |-> now + ttl]
           ent == [off |-> size, len |-> RecLen(k, v), exp |-> now + ttl]
<1>1. /\ Running /\ size = data.len /\ data' = AppendRec(data, k, v, now + ttl)
      /\ index' = Insert(index, k, ent)
      /\ puts' = puts \cup {p} /\ pc' = pc /\ live' = live
  BY DEF Put, IInv, HandlesOK
<1>2. data'.recs = data.recs \cup {n}
  BY <1>1 DEF AppendRec
<1>3. \A x, y \in data'.recs : x.off = y.off => x = y
  BY DEF IInv, FilesOK, FileOK
<1>4. \A j \in DOMAIN index : \E r \in data.recs : r.off = index[j].off
  BY <1>1, RecordFacts DEF Running
<1>5. n.off = data.len /\ n.val = v /\ n.exp = now + ttl
  OBVIOUS
<1>6. /\ DOMAIN index' = DOMAIN index \cup {k} /\ index'[k].off = data.len
      /\ \A j \in DOMAIN index : j # k => index'[j] = index[j]
  BY <1>1 DEF Insert
<1> HIDE DEF n, ent
<1>7. CurrentMap = MapIn(data.recs, index) /\ CurrentMap' = MapIn(data'.recs, index')
      /\ Running' = Running
  BY <1>1, MapsNow, MapsNext DEF Running
<1>8. MapIn(data'.recs, index) = MapIn(data.recs, index)
  <2> DEFINE S == data.recs
             T == data'.recs
  <2>1. /\ S \subseteq T /\ \A x, y \in T : x.off = y.off => x = y
        /\ \A j \in DOMAIN index : \E r \in S : r.off = index[j].off
    BY <1>2, <1>3, <1>4
  <2> HIDE DEF S, T
  <2>2. MapIn(T, index) = MapIn(S, index)
    BY <2>1, MapInAppend
  <2> QED
    BY <2>2 DEF S, T
<1>9. ReadIn(data'.recs, data.len) = [val |-> v, exp |-> now + ttl]
  <2>1. n \in data'.recs
    BY <1>2
  <2>2. ReadIn(data'.recs, n.off) = [val |-> n.val, exp |-> n.exp]
    BY <1>3, <2>1, ReadInIs
  <2> QED
    BY <1>5, <2>2
<1>10. CurrentMap' = [j \in DOMAIN CurrentMap \cup {k} |->
                        IF j = k THEN [val |-> v, exp |-> now + ttl] ELSE CurrentMap[j]]
  <2>1. DOMAIN CurrentMap = DOMAIN index
    BY <1>7 DEF MapIn
  <2>2. CurrentMap' = [j \in DOMAIN index \cup {k} |-> ReadIn(data'.recs, index'[j].off)]
    BY <1>6, <1>7 DEF MapIn
  <2>3. ASSUME NEW j \in DOMAIN index, j # k
        PROVE  ReadIn(data'.recs, index'[j].off) = CurrentMap[j]
    <3>1. index'[j] = index[j]
      BY <1>6, <2>3
    <3>2. MapIn(data'.recs, index)[j] = ReadIn(data'.recs, index[j].off)
      BY DEF MapIn
    <3> QED
      BY <1>7, <1>8, <3>1, <3>2
  <2>4. ReadIn(data'.recs, index'[k].off) = [val |-> v, exp |-> now + ttl]
    BY <1>6, <1>9
  <2> QED
    BY <2>1, <2>2, <2>3, <2>4
<1>11. SnapshotMap' = SnapshotMap
  <2>1. CASE Compacting
    <3>1. OneEach(data.recs, live) /\ n.off \notin live
      BY <1>5, <2>1, RecordFacts
    <3>2. SnapIn(data'.recs, live) = SnapIn(data.recs, live)
      BY <1>2, <3>1, SnapInAppend
    <3> QED
      BY <1>1, <2>1, <3>2, MapsNow, MapsNext DEF Compacting
  <2>2. CASE ~Compacting
    BY <1>1, <2>2, MapsNow, MapsNext DEF Compacting
  <2> QED
    BY <2>1, <2>2
<1>12. Contract!Put(p)
  BY <1>1, <1>7, <1>10, <1>11 DEF Contract!Put
<1>13. p \in [key : Keys, val : Vals, exp : {q.exp : q \in puts'}]
  BY <1>1
<1> QED
  BY <1>12, <1>13 DEF Contract!Next

LEMMA StepDelete ==
    ASSUME NEW k \in Keys, Delete(k)
    PROVE  Contract!Next
<1>1. /\ Running /\ index' = Remove(index, k) /\ data' = data /\ live' = live /\ pc' = pc
      /\ puts' = puts
  BY DEF Delete
<1>2. Running' = Running /\ Compacting' = Compacting
  BY <1>1 DEF Running, Compacting
<1>3. SnapshotMap' = SnapshotMap
  BY <1>1, <1>2, MapsNow, MapsNext
<1>4. CurrentMap = MapIn(data.recs, index) /\ CurrentMap' = MapIn(data.recs, Remove(index, k))
  BY <1>1, <1>2, MapsNow, MapsNext
<1>5. CurrentMap' = [j \in DOMAIN CurrentMap \ {k} |-> CurrentMap[j]]
  BY <1>4 DEF MapIn, Remove
<1>6. Contract!Delete(k)
  BY <1>1, <1>2, <1>3, <1>5 DEF Contract!Delete
<1> QED
  BY <1>6 DEF Contract!Next

LEMMA StepReplayEnd ==
    ASSUME IInv, JInv, ReplayEnd
    PROVE  Contract!Next
<1>1. /\ pc = "replay" /\ pc' = "idle" /\ index' = index /\ data' = data /\ puts' = puts
  BY DEF ReplayEnd
<1>2. ~Running /\ Running' /\ ~Compacting /\ ~Compacting'
  BY <1>1 DEF Running, Compacting
<1>3. SnapshotMap' = SnapshotMap /\ CurrentMap' = MapIn(data.recs, index)
  BY <1>1, <1>2, MapsNow, MapsNext
<1>4. ASSUME NEW k \in DOMAIN CurrentMap'
      PROVE  \E p \in puts : p.key = k /\ CurrentMap'[k] = [val |-> p.val, exp |-> p.exp]
  <2>1. k \in DOMAIN index
    BY <1>3 DEF MapIn
  <2>2. PICK r \in data.recs : r.off = index[k].off /\ r.key = k
    BY <1>1, <2>1, RecordFacts
  <2>3. [key |-> r.key, val |-> r.val, exp |-> r.exp] \in puts
    BY RecordFacts
  <2>4. ReadIn(data.recs, r.off) = [val |-> r.val, exp |-> r.exp]
    BY RecordFacts, ReadInIs
  <2>5. CurrentMap'[k] = [val |-> r.val, exp |-> r.exp]
    BY <1>3, <2>1, <2>2, <2>4 DEF MapIn
  <2> QED
    BY <2>2, <2>3, <2>5
<1>5. Contract!Recover
  BY <1>1, <1>2, <1>3, <1>4 DEF Contract!Recover
<1> QED
  BY <1>5 DEF Contract!Next

LEMMA StepSnapshot ==
    ASSUME IInv, JInv, JInv', CompactSnapshot
    PROVE  Contract!Next
<1>1. /\ pc = "snapshot" /\ pc' = "truncate" /\ live' = LiveOffsets
      /\ data' = data /\ index' = index /\ puts' = puts
  BY DEF CompactSnapshot, memory
<1>2. Running /\ Running' /\ Compacting'
  BY <1>1 DEF Running, Compacting
<1>3. CurrentMap' = CurrentMap /\ CurrentMap = MapIn(data.recs, index)
      /\ SnapshotMap' = SnapIn(data.recs, live')
  BY <1>1, <1>2, MapsNow, MapsNext
<1>4. OneEach(data.recs, live')
  BY <1>1 DEF JInv, LiveOK, OneEach
<1>5. ASSUME NEW k \in DOMAIN SnapshotMap'
      PROVE  k \in DOMAIN CurrentMap /\ SnapshotMap'[k] = CurrentMap[k]
  <2>1. PICK r \in data.recs : r.off \in live' /\ r.key = k
    BY <1>3, SnapInDomain
  <2>2. PICK j \in DOMAIN index : r.off = index[j].off
    BY <1>1, <2>1 DEF LiveOffsets
  <2>3. j = k
    BY <1>1, <2>1, <2>2, RecordFacts
  <2>4. SnapshotMap'[k] = [val |-> r.val, exp |-> r.exp]
    BY <1>3, <1>4, <2>1, SnapInIs
  <2>5. ReadIn(data.recs, r.off) = [val |-> r.val, exp |-> r.exp]
    BY RecordFacts, ReadInIs
  <2> QED
    BY <1>3, <2>2, <2>3, <2>4, <2>5 DEF MapIn
<1>6. Contract!Snapshot
  BY <1>1, <1>2, <1>3, <1>5 DEF Contract!Snapshot, Contract!PartOf
<1> QED
  BY <1>6 DEF Contract!Next

LEMMA StepSwap ==
    ASSUME IInv, JInv, Swap
    PROVE  Contract!Next
<1>1. /\ pc = "swap" /\ pc' = "idle" /\ data' = tmp /\ index' = newIndex /\ puts' = puts
  BY DEF Swap
<1>2. Running /\ Running' /\ Compacting /\ ~Compacting'
  BY <1>1 DEF Running, Compacting
<1>3. /\ CurrentMap' = MapIn(tmp.recs, newIndex)
      /\ SnapshotMap = SnapIn(data.recs, live) /\ SnapshotMap' = EmptyMap
  BY <1>1, <1>2, MapsNow, MapsNext
<1>4. ASSUME NEW k \in DOMAIN CurrentMap'
      PROVE  k \in DOMAIN SnapshotMap /\ CurrentMap'[k] = SnapshotMap[k]
  <2>1. k \in DOMAIN newIndex
    BY <1>3 DEF MapIn
  <2>2. PICK r \in data.recs, s \in tmp.recs :
          /\ r.off \in live /\ r.key = k /\ Same(r, s) /\ s.off = newIndex[k].off
    BY <1>1, <2>1 DEF JInv, NewFromLive
  <2>3. k \in DOMAIN SnapshotMap /\ SnapshotMap[k] = [val |-> r.val, exp |-> r.exp]
    BY <1>2, <1>3, <2>2, RecordFacts, SnapInIs
  <2>4. \A x, y \in tmp.recs : x.off = y.off => x = y
    BY DEF IInv, FilesOK, FileOK
  <2>5. ReadIn(tmp.recs, s.off) = [val |-> s.val, exp |-> s.exp]
    BY <2>4, ReadInIs
  <2>6. CurrentMap'[k] = [val |-> r.val, exp |-> r.exp]
    BY <1>3, <2>1, <2>2, <2>5 DEF MapIn, Same
  <2> QED
    BY <2>3, <2>6
<1>5. Contract!Compacted
  BY <1>1, <1>2, <1>3, <1>4 DEF Contract!Compacted, Contract!PartOf, Contract!EmptyMap, EmptyMap
<1> QED
  BY <1>5 DEF Contract!Next

LEMMA StepAbandon ==
    ASSUME CopyFails \/ SwapFailsOpenWrite
    PROVE  Contract!Next
<1>1. /\ Running /\ pc' = "idle" /\ data' = data /\ index' = index /\ puts' = puts
  BY DEF CopyFails, SwapFailsOpenWrite, memory, Running
<1>2. Running' /\ ~Compacting'
  BY <1>1 DEF Running, Compacting
<1>3. CurrentMap' = CurrentMap /\ SnapshotMap' = EmptyMap
  BY <1>1, <1>2, MapsNow, MapsNext
<1>4. Contract!Compacted
  BY <1>1, <1>2, <1>3 DEF Contract!Compacted, Contract!EmptyMap, EmptyMap
<1> QED
  BY <1>4 DEF Contract!Next

LEMMA StepCrash ==
    ASSUME NEW c, Crash(c)
    PROVE  Contract!Next
<1>1. ~Running' /\ ~Compacting' /\ puts' = puts
  BY DEF Crash, Running, Compacting
<1>2. CurrentMap' = EmptyMap /\ SnapshotMap' = EmptyMap
  BY <1>1, MapsNext
<1>3. Running' = FALSE
  BY <1>1 DEF Running
<1>4. Contract!Crash
  BY <1>1, <1>2, <1>3 DEF Contract!Crash, Contract!EmptyMap, EmptyMap
<1> QED
  BY <1>4 DEF Contract!Next

LEMMA NextContract ==
    ASSUME Failures \subseteq HarmlessFailures, IInv, JInv, [Next]_vars
    PROVE  [Contract!Next]_cstate
<1>1. IInv' /\ JInv'
  BY NextIInv, NextJInv
<1>2. CASE UNCHANGED vars
  BY <1>2, StepUnseen DEF vars, Running, Compacting
<1>3. CASE Open \/ ReplayRecord
  BY <1>3, StepUnseen DEF Open, ReplayRecord, Running, Compacting
<1>4. CASE Client
  <2>1. PICK k \in Keys :
          \/ \E v \in Answers[k] :
               \/ \E ttl \in TTLs : Put(k, v, ttl)
               \/ \E n \in 0..(RecLen(k, v) - 1) : PutFails(k, v, n)
          \/ Delete(k)
    BY <1>4 DEF Client
  <2>2. ASSUME NEW v, NEW n, PutFails(k, v, n) PROVE FALSE
    BY <2>2 DEF PutFails, HarmlessFailures
  <2>3. Answers[k] \subseteq Vals
    BY LengthsAssumption
  <2> QED
    BY <1>1, <2>1, <2>2, <2>3, StepPut, StepDelete
<1>5. CASE CompactTrigger \/ CompactOpen \/ CopyRecord \/ CopyEnd
  BY <1>5, StepUnseen DEF CompactTrigger, CompactOpen, CopyRecord, CopyEnd, memory, Running,
                          Compacting
<1>6. ~(SwapFailsOpenRead \/ SwapFailsRename \/ SwapFailsReopen)
  BY DEF SwapFailsOpenRead, SwapFailsRename, SwapFailsReopen, HarmlessFailures
<1>7. CASE \E t \in 0..MaxTime : SetClock(t)
  BY <1>7, StepUnseen DEF SetClock, memory, Running, Compacting
<1> QED
  BY <1>1, <1>2, <1>3, <1>4, <1>5, <1>6, <1>7, StepReplayEnd, StepSnapshot, StepSwap,
     StepAbandon, StepCrash DEF Next, Compactor, CompactStep

\* The log with its index, its unlocked copy loop, its crashes and replays implements the
\* map of L2Contract: a compaction falls back to a part of its own snapshot, a restart
\* finds only what was put, and nothing else moves (put, delete, compact, open).
THEOREM StoreImplementsContract ==
    ASSUME Failures \subseteq HarmlessFailures
    PROVE  Spec => RefinesContract
<1>1. Init => Contract!Init
  <2>1. ASSUME Init PROVE Running = FALSE /\ ~Compacting /\ puts = {}
    BY <2>1 DEF Init, Running, Compacting
  <2> QED
    BY <2>1, MapsNow DEF Contract!Init, Contract!EmptyMap, EmptyMap
<1>2. IInv /\ JInv /\ [Next]_vars => [Contract!Next]_cstate
  BY NextContract
<1> QED
  BY <1>1, <1>2, CompactionAlways, PTL
  DEF Spec, RefinesContract, Contract!Spec, Contract!cvars, cstate
=============================================================================
