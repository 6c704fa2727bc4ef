-------------------------- MODULE UdpServerProofs --------------------------
(***************************************************************************)
(* The front end for every number of clients, workers, datagrams and panics *)
(* and every rate and batch size: what the limiter promises each client,    *)
(* where the rows of the query log are, and where the datagrams are.        *)
(***************************************************************************)
EXTENDS UdpServer, SequenceTheorems, FiniteSetTheorems, TLAPS

----------------------------------------------------------------------------
(* The limiter: what a bucket holds. *)

LEMMA BurstNat == Burst \in Nat /\ Burst >= Second /\ Qps \in Nat /\ Second \in Nat
  <1>1. Qps \in Nat /\ Second \in Nat /\ Qps >= 1
    BY LimiterAssumption
  <1>2. PICK q \in Nat : Qps = q + 1
    <2>1. Qps - 1 \in Nat /\ Qps = (Qps - 1) + 1
      BY <1>1
    <2> QED  BY <2>1
  <1>3. (q + 1) * Second = q * Second + Second /\ q * Second \in Nat
    BY <1>1
  <1> QED  BY <1>1, <1>2, <1>3 DEF Burst

LEMMA RefilledIsContent ==
    ASSUME NEW t \in 0..Burst, NEW a \in Nat
    PROVE  Refilled(t, a) \in 0..Burst
  <1>1. a * Qps \in Nat
    BY BurstNat
  <1> QED  BY <1>1, BurstNat DEF Refilled

\* One more tick adds Qps, up to the brim.
LEMMA RefilledByTick ==
    ASSUME NEW t \in 0..Burst, NEW a \in Nat
    PROVE  Refilled(t, a + 1) = IF Refilled(t, a) + Qps > Burst
                                THEN Burst ELSE Refilled(t, a) + Qps
  <1>1. (a + 1) * Qps = a * Qps + Qps /\ a * Qps \in Nat
    BY BurstNat
  <1> QED  BY <1>1, BurstNat DEF Refilled

\* A bucket left alone for the time after which it may be dropped is full.
LEMMA RefilledWhenIdle ==
    ASSUME NEW t \in 0..Burst, NEW a \in Nat, a >= Idle
    PROVE  Refilled(t, a) = Burst
  <1>1. PICK e \in Nat : a = Second + e
    <2>1. Idle \in Nat /\ Idle >= Second /\ Second \in Nat
      BY LimiterAssumption
    <2>2. a - Second \in Nat /\ a = Second + (a - Second)
      BY <2>1
    <2> QED  BY <2>2
  <1>2. (Second + e) * Qps = Qps * Second + e * Qps /\ e * Qps \in Nat
    BY BurstNat
  <1> QED  BY <1>1, <1>2, BurstNat DEF Refilled, Burst

BucketsOK(b) ==
    /\ DOMAIN b \subseteq Clients
    /\ \A c \in DOMAIN b : b[c] \in [tokens : 0..Burst, age : 0..Idle]

LEMMA TokensAreContent ==
    ASSUME NEW b, BucketsOK(b), NEW c
    PROVE  /\ Entry(b, c).tokens \in 0..Burst /\ Entry(b, c).age \in Nat
           /\ Tokens(b, c) \in 0..Burst
  <1>1. Entry(b, c).tokens \in 0..Burst /\ Entry(b, c).age \in Nat
    BY BurstNat, LimiterAssumption DEF Entry, BucketsOK
  <1> QED  BY <1>1, RefilledIsContent DEF Tokens

\* The cleanup takes nothing from a client and gives it nothing.
LEMMA CleanedKeepsTokens ==
    ASSUME NEW b, BucketsOK(b), NEW c
    PROVE  BucketsOK(Cleaned(b)) /\ Tokens(Cleaned(b), c) = Tokens(b, c)
  <1>1. CASE Cleaned(b) = b
    BY <1>1
  <1>2. CASE Cleaned(b) = [x \in {x \in DOMAIN b : b[x].age < Idle} |-> b[x]]
    <2>1. BucketsOK(Cleaned(b))
      BY <1>2 DEF BucketsOK
    <2>2. CASE c \in DOMAIN Cleaned(b)
      <3>1. c \in DOMAIN b /\ Cleaned(b)[c] = b[c]
        BY <1>2, <2>2
      <3> QED  BY <2>1, <2>2, <3>1 DEF Tokens, Entry
    <2>3. CASE c \notin DOMAIN Cleaned(b) /\ c \notin DOMAIN b
      BY <2>1, <2>3 DEF Tokens, Entry
    <2>4. CASE c \notin DOMAIN Cleaned(b) /\ c \in DOMAIN b
      <3>1. b[c].age \in Nat /\ b[c].age >= Idle /\ b[c].tokens \in 0..Burst
        BY <1>2, <2>4, LimiterAssumption DEF BucketsOK
      <3>2. Tokens(b, c) = Burst
        BY <2>4, <3>1, RefilledWhenIdle DEF Tokens, Entry
      <3>3. Refilled(Burst, 0) = Burst
        BY BurstNat DEF Refilled
      <3>4. Tokens(Cleaned(b), c) = Burst
        BY <2>4, <3>3 DEF Tokens, Entry
      <3> QED  BY <2>1, <3>2, <3>4
    <2> QED  BY <2>2, <2>3, <2>4
  <1> QED  BY <1>1, <1>2 DEF Cleaned

\* A call of allow(): the client pays or is refused, the others are not touched.
LEMMA AllowPays ==
    ASSUME LimiterTypeOK, NEW c \in Clients, NEW g \in BOOLEAN, allow(c, g)
    PROVE  /\ LimiterTypeOK'
           /\ g = (Tokens(buckets, c) >= Second)
           /\ Tokens(buckets', c) = IF g THEN Tokens(buckets, c) - Second
                                    ELSE Tokens(buckets, c)
           /\ \A x \in Clients \ {c} : Tokens(buckets', x) = Tokens(buckets, x)
  <1> DEFINE b == Cleaned(buckets)
             left == IF g THEN Tokens(b, c) - Second ELSE Tokens(b, c)
  <1>1. BucketsOK(buckets)
    BY DEF LimiterTypeOK, BucketsOK
  <1>2. BucketsOK(b) /\ \A x : Tokens(b, x) = Tokens(buckets, x)
    BY <1>1, CleanedKeepsTokens
  <1>3. /\ g = (Tokens(b, c) >= Second)
        /\ buckets' = [x \in DOMAIN b \cup {c} |->
                         IF x = c THEN [tokens |-> left, age |-> 0] ELSE b[x]]
        /\ grants' = [grants EXCEPT ![c] = @ + 1] \/ grants' = grants
        /\ refusals' = [refusals EXCEPT ![c] = @ + 1] \/ refusals' = refusals
    BY DEF allow
  <1> HIDE DEF b
  <1>4. left \in 0..Burst
    <2>1. Tokens(b, c) \in 0..Burst
      BY <1>2, TokensAreContent
    <2>2. CASE g
      <3>1. Tokens(b, c) >= Second
        BY <1>3, <2>2, Zenon
      <3>2. left = Tokens(b, c) - Second
        BY <2>2
      <3> QED  BY <2>1, <3>1, <3>2, BurstNat
    <2>3. CASE ~g
      BY <2>1, <2>3
    <2> QED  BY <2>2, <2>3
  <1> HIDE DEF left
  <1>5. BucketsOK(buckets')
    BY <1>2, <1>3, <1>4, LimiterAssumption DEF BucketsOK
  <1>6. LimiterTypeOK'
    BY <1>3, <1>5 DEF LimiterTypeOK, BucketsOK
  <1>7. Tokens(buckets', c) = left
    <2>1. Entry(buckets', c) = [tokens |-> left, age |-> 0]
      BY <1>3 DEF Entry
    <2>2. Refilled(left, 0) = left
      BY <1>4, BurstNat DEF Refilled
    <2> QED  BY <2>1, <2>2 DEF Tokens
  <1>8. ASSUME NEW x \in Clients \ {c} PROVE Tokens(buckets', x) = Tokens(buckets, x)
    <2>1. Entry(buckets', x) = Entry(b, x)
      BY <1>3 DEF Entry
    <2> QED  BY <2>1, <1>2 DEF Tokens
  <1> QED  BY <1>2, <1>3, <1>6, <1>7, <1>8 DEF left

\* A tick: every client's bucket gains Qps, in the map or not.
LEMMA TickRefills ==
    ASSUME LimiterTypeOK, LimiterTick
    PROVE  /\ LimiterTypeOK'
           /\ \A c \in Clients :
                Tokens(buckets', c) = IF Tokens(buckets, c) + Qps > Burst
                                      THEN Burst ELSE Tokens(buckets, c) + Qps
  <1>0. Idle \in Nat
    BY LimiterAssumption
  <1>1. BucketsOK(buckets)
    BY DEF LimiterTypeOK, BucketsOK
  <1>2. /\ DOMAIN buckets' = DOMAIN buckets
        /\ \A c \in DOMAIN buckets :
             /\ buckets'[c].tokens = buckets[c].tokens
             /\ buckets'[c].age = IF buckets[c].age < Idle
                                  THEN buckets[c].age + 1 ELSE buckets[c].age
             /\ buckets'[c] \in [tokens : 0..Burst, age : 0..Idle]
    BY <1>0, <1>1 DEF LimiterTick, BucketsOK
  <1>3. LimiterTypeOK'
    BY <1>2 DEF LimiterTypeOK, LimiterTick
  <1>4. ASSUME NEW c \in DOMAIN buckets, buckets[c].age < Idle
        PROVE  Tokens(buckets', c) = IF Tokens(buckets, c) + Qps > Burst
                                     THEN Burst ELSE Tokens(buckets, c) + Qps
    <2>1. buckets[c].tokens \in 0..Burst /\ buckets[c].age \in Nat
      BY <1>1, <1>0 DEF BucketsOK
    <2> QED  BY <1>2, <1>4, <2>1, RefilledByTick DEF Tokens, Entry
  <1>5. ASSUME NEW c \in DOMAIN buckets, ~(buckets[c].age < Idle)
        PROVE  Tokens(buckets', c) = Burst /\ Tokens(buckets, c) = Burst
    <2>1. buckets[c].tokens \in 0..Burst /\ buckets[c].age \in Nat /\ buckets[c].age >= Idle
      BY <1>1, <1>0, <1>5 DEF BucketsOK
    <2> QED  BY <1>2, <1>5, <2>1, RefilledWhenIdle DEF Tokens, Entry
  <1>6. ASSUME NEW c \in Clients, c \notin DOMAIN buckets
        PROVE  Tokens(buckets', c) = Burst /\ Tokens(buckets, c) = Burst
    <2>1. Refilled(Burst, 0) = Burst
      BY BurstNat DEF Refilled
    <2> QED  BY <1>2, <1>6, <2>1 DEF Tokens, Entry
  <1> QED  BY <1>3, <1>4, <1>5, <1>6, BurstNat

----------------------------------------------------------------------------
(* The limiter implements one bucket per client. *)

Level == [c \in Clients |-> Tokens(buckets, c)]

LEMMA IdealInit == LimiterInit => LimiterTypeOK /\ Ideal!Init
  <1> SUFFICES ASSUME LimiterInit PROVE LimiterTypeOK /\ Ideal!Init
    OBVIOUS
  <1>1. LimiterTypeOK
    BY DEF LimiterInit, LimiterTypeOK
  <1>2. Refilled(Burst, 0) = Burst
    BY BurstNat DEF Refilled
  <1>3. \A c \in Clients : Tokens(buckets, c) = Burst
    BY <1>2 DEF LimiterInit, Tokens, Entry
  <1> QED  BY <1>1, <1>3 DEF LimiterInit, Ideal!Init

LEMMA IdealRequest ==
    ASSUME LimiterTypeOK, NEW c \in Clients, NEW g \in BOOLEAN, allow(c, g)
    PROVE  Ideal!Grant(c) \/ Ideal!Refuse(c)
  <1>0. BucketsOK(buckets)
    BY DEF LimiterTypeOK, BucketsOK
  <1>1. Tokens(buckets, c) \in 0..Burst
    BY <1>0, TokensAreContent
  <1>2. /\ g = (Tokens(buckets, c) >= Second)
        /\ Tokens(buckets', c) = IF g THEN Tokens(buckets, c) - Second
                                 ELSE Tokens(buckets, c)
        /\ \A x \in Clients \ {c} : Tokens(buckets', x) = Tokens(buckets, x)
    BY AllowPays
  <1>3. CASE g
    <2>1. Tokens(buckets, c) >= Second
      BY <1>2, <1>3, Zenon
    <2>2. Level' = [Level EXCEPT ![c] = @ - Second]
      BY <1>2, <1>3 DEF Level
    <2>3. grants' = [grants EXCEPT ![c] = @ + 1] /\ UNCHANGED refusals
      BY <1>3 DEF allow
    <2> QED  BY <2>1, <2>2, <2>3 DEF Ideal!Grant, Level
  <1>4. CASE ~g
    <2>1. ~(Tokens(buckets, c) >= Second)
      BY <1>2, <1>4, Zenon
    <2>2. Level' = Level
      BY <1>2, <1>4 DEF Level
    <2>3. refusals' = [refusals EXCEPT ![c] = @ + 1] /\ UNCHANGED grants
      BY <1>4 DEF allow
    <2> QED  BY <1>1, <2>1, <2>2, <2>3, BurstNat DEF Ideal!Refuse, Level
  <1> QED  BY <1>3, <1>4

LEMMA IdealTick ==
    ASSUME LimiterTypeOK, LimiterTick
    PROVE  Ideal!Tick
  <1>1. \A c \in Clients :
          Tokens(buckets', c) = IF Tokens(buckets, c) + Qps > Burst
                                THEN Burst ELSE Tokens(buckets, c) + Qps
    BY TickRefills
  <1> QED  BY <1>1 DEF Ideal!Tick, Ideal!Capped, LimiterTick

LEMMA IdealStutter ==
    ASSUME UNCHANGED limiterVars
    PROVE  UNCHANGED <<Level, grants, refusals>>
  BY DEF limiterVars, Level

----------------------------------------------------------------------------
(* The query log.  Rows is whatever handlers log. *)

LogRows(Rows) == [row : Rows, stored : BOOLEAN]
RowsOf(f) == [i \in 1..Len(f) |-> f[i].row]
LostOf(f) == {i \in DOMAIN f : ~f[i].stored}

LEMMA MappedSeq ==
    ASSUME NEW S, NEW n \in Nat, NEW f \in [1..n -> S]
    PROVE  f \in Seq(S) /\ Len(f) = n /\ DOMAIN f = 1..n
  <1>1. f \in Seq(S)
    BY SeqDef
  <1>2. DOMAIN f = 1..n /\ DOMAIN f = 1..Len(f) /\ Len(f) \in Nat
    BY <1>1, LenProperties
  <1> QED  BY <1>1, <1>2

LEMMA OutcomeIsSeq ==
    ASSUME NEW Rows, NEW rows \in Seq(Rows), NEW k \in 0..Len(rows)
    PROVE  /\ Outcome(rows, k) \in Seq(LogRows(Rows))
           /\ Len(Outcome(rows, k)) = Len(rows)
           /\ \A i \in 1..Len(rows) : /\ Outcome(rows, k)[i].row = rows[i]
                                      /\ Outcome(rows, k)[i].stored = (i <= k)
  <1>1. Len(rows) \in Nat /\ \A i \in 1..Len(rows) : rows[i] \in Rows
    BY LenProperties, ElementOfSeq
  <1>2. \A i \in 1..Len(rows) : (i <= k) \in BOOLEAN
    OBVIOUS
  <1>3. Outcome(rows, k) \in [1..Len(rows) -> LogRows(Rows)]
    BY <1>1, <1>2 DEF Outcome, LogRows
  <1>4. Outcome(rows, k) \in Seq(LogRows(Rows)) /\ Len(Outcome(rows, k)) = Len(rows)
    BY <1>1, <1>3, MappedSeq
  <1> QED  BY <1>4 DEF Outcome

\* The rows of two batches, one after the other.
LEMMA RowsOfConcat ==
    ASSUME NEW Rows, NEW f \in Seq(LogRows(Rows)), NEW g \in Seq(LogRows(Rows))
    PROVE  /\ RowsOf(f) \in Seq(Rows) /\ Len(RowsOf(f)) = Len(f)
           /\ RowsOf(f \o g) = RowsOf(f) \o RowsOf(g)
  <1>1. ASSUME NEW h \in Seq(LogRows(Rows))
        PROVE  /\ RowsOf(h) \in Seq(Rows) /\ Len(RowsOf(h)) = Len(h) /\ Len(h) \in Nat
               /\ \A i \in 1..Len(h) : RowsOf(h)[i] = h[i].row
    <2>1. Len(h) \in Nat /\ \A i \in 1..Len(h) : h[i] \in LogRows(Rows)
      BY LenProperties, ElementOfSeq
    <2>2. RowsOf(h) \in [1..Len(h) -> Rows]
      BY <2>1 DEF RowsOf, LogRows
    <2>3. RowsOf(h) \in Seq(Rows) /\ Len(RowsOf(h)) = Len(h)
      BY <2>1, <2>2, MappedSeq
    <2> QED  BY <2>1, <2>3 DEF RowsOf
  <1>2. /\ f \o g \in Seq(LogRows(Rows)) /\ Len(f \o g) = Len(f) + Len(g)
        /\ \A i \in 1..(Len(f) + Len(g)) :
             (f \o g)[i] = IF i <= Len(f) THEN f[i] ELSE g[i - Len(f)]
    BY ConcatProperties
  <1>3. /\ RowsOf(f) \o RowsOf(g) \in Seq(Rows)
        /\ Len(RowsOf(f) \o RowsOf(g)) = Len(f) + Len(g)
        /\ \A i \in 1..(Len(f) + Len(g)) :
             (RowsOf(f) \o RowsOf(g))[i] =
               IF i <= Len(f) THEN RowsOf(f)[i] ELSE RowsOf(g)[i - Len(f)]
    <2>1. RowsOf(f) \in Seq(Rows) /\ RowsOf(g) \in Seq(Rows)
      BY <1>1
    <2>2. Len(RowsOf(f)) = Len(f) /\ Len(RowsOf(g)) = Len(g)
      BY <1>1
    <2>3. /\ RowsOf(f) \o RowsOf(g) \in Seq(Rows)
          /\ Len(RowsOf(f) \o RowsOf(g)) = Len(RowsOf(f)) + Len(RowsOf(g))
          /\ \A i \in 1..(Len(RowsOf(f)) + Len(RowsOf(g))) :
               (RowsOf(f) \o RowsOf(g))[i] =
                 IF i <= Len(RowsOf(f)) THEN RowsOf(f)[i] ELSE RowsOf(g)[i - Len(RowsOf(f))]
      BY <2>1, ConcatProperties
    <2> QED  BY <2>2, <2>3
  <1>4. /\ RowsOf(f \o g) \in Seq(Rows) /\ Len(RowsOf(f \o g)) = Len(f) + Len(g)
        /\ \A i \in 1..(Len(f) + Len(g)) : RowsOf(f \o g)[i] = (f \o g)[i].row
    BY <1>1, <1>2
  <1>5. ASSUME NEW i \in 1..(Len(f) + Len(g))
        PROVE  RowsOf(f \o g)[i] = (RowsOf(f) \o RowsOf(g))[i]
    <2>1. CASE i <= Len(f)
      <3>1. i \in 1..Len(f)
        BY <2>1
      <3>2. RowsOf(f)[i] = f[i].row
        BY <1>1, <3>1
      <3>3. (f \o g)[i] = f[i] /\ (RowsOf(f) \o RowsOf(g))[i] = RowsOf(f)[i]
        BY <1>2, <1>3, <2>1
      <3> QED  BY <1>4, <3>2, <3>3
    <2>2. CASE ~(i <= Len(f))
      <3>1. i - Len(f) \in 1..Len(g)
        BY <1>1, <2>2
      <3> QED  BY <1>1, <1>2, <1>3, <1>4, <2>2, <3>1
    <2> QED  BY <2>1, <2>2
  <1>6. RowsOf(f \o g) = RowsOf(f) \o RowsOf(g)
    BY <1>3, <1>4, <1>5, SeqEqual
  <1> QED  BY <1>1, <1>6

\* A batch that was inserted, in whole or in part.
LEMMA FlushTakesBatch ==
    ASSUME NEW Rows, LogTypeOK(Rows), NEW rows \in Seq(Rows), flush_batch(rows)
    PROVE  /\ buf' = <<>> /\ fails' \in 0..MaxFails
           /\ flushed' \in Seq(LogRows(Rows))
           /\ RowsOf(flushed') = RowsOf(flushed) \o rows
  <1>1. PICK k \in 0..Len(rows) :
          /\ k < Len(rows) => fails < MaxFails
          /\ fails' = IF k < Len(rows) THEN fails + 1 ELSE fails
          /\ flushed' = flushed \o Outcome(rows, k)
          /\ buf' = <<>>
    BY DEF flush_batch
  <1>2. flushed \in Seq(LogRows(Rows)) /\ fails \in 0..MaxFails
    BY DEF LogTypeOK, LogRows
  <1>3. fails' \in 0..MaxFails
    BY <1>1, <1>2, QueryLogAssumption
  <1> DEFINE o == Outcome(rows, k)
  <1>4. /\ o \in Seq(LogRows(Rows)) /\ Len(o) = Len(rows)
        /\ \A i \in 1..Len(rows) : o[i].row = rows[i]
    BY OutcomeIsSeq
  <1> HIDE DEF o
  <1>5. flushed \o o \in Seq(LogRows(Rows))
    BY <1>2, <1>4, ConcatProperties
  <1>6. RowsOf(o) = rows
    <2>1. RowsOf(o) \in Seq(Rows) /\ Len(RowsOf(o)) = Len(rows)
      BY <1>4, RowsOfConcat
    <2>2. \A i \in 1..Len(rows) : RowsOf(o)[i] = rows[i]
      BY <1>4 DEF RowsOf
    <2> QED  BY <2>1, <2>2, SeqEqual
  <1>7. RowsOf(flushed \o o) = RowsOf(flushed) \o RowsOf(o)
    BY <1>2, <1>4, RowsOfConcat
  <1>8. flushed' = flushed \o o
    BY <1>1 DEF o
  <1> QED  BY <1>1, <1>3, <1>5, <1>6, <1>7, <1>8

\* What one row of the channel adds to the buffer.
LEMMA TakenFromChannel ==
    ASSUME NEW Rows, LogTypeOK(Rows), chan # <<>>
    PROVE  /\ Append(buf, Head(chan)) \in Seq(Rows) /\ Tail(chan) \in Seq(Rows)
           /\ Len(Append(buf, Head(chan))) = Len(buf) + 1
           /\ Len(buf) + 1 <= BatchSize
           /\ Append(buf, Head(chan)) \o Tail(chan) = buf \o chan
  <1>1. chan \in Seq(Rows) /\ buf \in Seq(Rows) /\ Len(buf) < BatchSize /\ Len(buf) \in Nat
    BY LenProperties DEF LogTypeOK
  <1>2. Head(chan) \in Rows /\ Tail(chan) \in Seq(Rows)
    BY <1>1, HeadTailProperties
  <1>3. /\ Append(buf, Head(chan)) \in Seq(Rows)
        /\ Len(Append(buf, Head(chan))) = Len(buf) + 1
        /\ Append(buf, Head(chan)) = buf \o <<Head(chan)>>
    BY <1>1, <1>2, AppendProperties, AppendIsConcat
  <1>4. <<Head(chan)>> \in Seq(Rows) /\ Len(<<Head(chan)>>) = 1
    BY <1>2
  <1>5. <<Head(chan)>> \o Tail(chan) = chan
    BY <1>1, <1>2
  <1>6. (buf \o <<Head(chan)>>) \o Tail(chan) = buf \o (<<Head(chan)>> \o Tail(chan))
    BY <1>1, <1>2, <1>4, ConcatAssociative
  <1>7. Len(buf) + 1 <= BatchSize
    BY <1>1, QueryLogAssumption
  <1> QED  BY <1>2, <1>3, <1>5, <1>6, <1>7

LogInv(Rows) == LogTypeOK(Rows) /\ RowsAccounted

\* The rows that were sent: all that were written, or none.
Kept == IF logging THEN written ELSE <<>>

\* RowsAccounted with its concatenations the other way round.
LEMMA Accounts ==
    ASSUME NEW Rows, LogTypeOK(Rows)
    PROVE  /\ RowsOf(flushed) \in Seq(Rows) /\ buf \in Seq(Rows) /\ chan \in Seq(Rows)
           /\ RowsAccounted <=> RowsOf(flushed) \o (buf \o chan) = Kept
  <1>1. buf \in Seq(Rows) /\ chan \in Seq(Rows) /\ flushed \in Seq(LogRows(Rows))
    BY DEF LogTypeOK, LogRows
  <1>2. RowsOf(flushed) \in Seq(Rows)
    BY <1>1, RowsOfConcat
  <1>3. (RowsOf(flushed) \o buf) \o chan = RowsOf(flushed) \o (buf \o chan)
    BY <1>1, <1>2, ConcatAssociative
  <1> QED  BY <1>1, <1>2, <1>3 DEF RowsAccounted, FlushedRows, RowsOf, Kept

LEMMA LogInvInit ==
    ASSUME NEW Rows, LogInit
    PROVE  LogInv(Rows)
  <1>1. LogTypeOK(Rows)
    <2>1. Len(<<>>) = 0 /\ <<>> \in Seq(Rows) /\ <<>> \in Seq(LogRows(Rows))
      BY EmptySeq
    <2> QED  BY <2>1, QueryLogAssumption DEF LogInit, LogTypeOK, LogRows
  <1>2. /\ RowsOf(flushed) = <<>>
        /\ flushed = <<>> /\ buf = <<>> /\ chan = <<>> /\ Kept = <<>>
    BY DEF LogInit, RowsOf, Kept
  <1>3. <<>> \o (<<>> \o <<>>) = <<>>
    OBVIOUS
  <1> QED  BY <1>1, <1>2, <1>3, Accounts DEF LogInv

LEMMA LogInvWrite ==
    ASSUME NEW Rows, LogInv(Rows), NEW r \in Rows, write(r)
    PROVE  LogInv(Rows)'
  <1>1. /\ chan \in Seq(Rows) /\ buf \in Seq(Rows) /\ written \in Seq(Rows)
        /\ flushed \in Seq(LogRows(Rows)) /\ logging \in BOOLEAN
    BY DEF LogInv, LogTypeOK, LogRows
  <1>2. /\ chan' = IF logging THEN Append(chan, r) ELSE chan
        /\ written' = Append(written, r) /\ UNCHANGED <<logging, buf, flushed, fails>>
    BY DEF write
  <1>3. LogTypeOK(Rows)'
    BY <1>1, <1>2, AppendProperties DEF LogInv, LogTypeOK
  <1> DEFINE R == RowsOf(flushed)
  <1>4. R \in Seq(Rows) /\ R \o (buf \o chan) = Kept
    BY Accounts DEF LogInv
  <1>5. R' = R
    BY <1>2
  <1>6. (RowsAccounted <=> RowsOf(flushed) \o (buf \o chan) = Kept)'
    BY <1>3, Accounts, PTL
  <1> HIDE DEF R
  <1>7. CASE logging
    <2>1. chan' = chan \o <<r>> /\ written' = written \o <<r>> /\ <<r>> \in Seq(Rows)
      BY <1>1, <1>2, <1>7, AppendIsConcat
    <2>2. buf \o chan \in Seq(Rows)
      BY <1>1, ConcatProperties
    <2>3. buf \o (chan \o <<r>>) = (buf \o chan) \o <<r>>
      BY <1>1, <2>1, ConcatAssociative
    <2>4. R \o ((buf \o chan) \o <<r>>) = (R \o (buf \o chan)) \o <<r>>
      <3>1. R \in Seq(Rows) /\ <<r>> \in Seq(Rows)
        BY <1>4, <2>1
      <3> QED  BY <2>2, <3>1, ConcatAssociative
    <2>5. Kept = written /\ Kept' = written'
      BY <1>2, <1>7 DEF Kept
    <2>6. R' \o (buf' \o chan') = Kept'
      BY <1>2, <1>4, <1>5, <2>1, <2>3, <2>4, <2>5
    <2> QED  BY <1>3, <1>6, <2>6 DEF LogInv, R
  <1>8. CASE ~logging
    <2>1. chan' = chan /\ Kept' = Kept
      BY <1>2, <1>8 DEF Kept
    <2>2. R' \o (buf' \o chan') = Kept'
      BY <1>2, <1>4, <1>5, <2>1
    <2> QED  BY <1>3, <1>6, <2>2 DEF LogInv, R
  <1> QED  BY <1>7, <1>8

LEMMA FlushedInPlace ==
    ASSUME NEW Rows, NEW R \in Seq(Rows), NEW rows \in Seq(Rows), NEW rest \in Seq(Rows)
    PROVE  (R \o rows) \o (<<>> \o rest) = R \o (rows \o rest)
  <1>1. <<>> \o rest = rest
    BY ConcatEmptySeq
  <1> QED  BY <1>1, ConcatAssociative

\* Rows move on from the channel and the buffer to the table, in order.
LEMMA LogInvMoves ==
    ASSUME NEW Rows, LogInv(Rows), LogTypeOK(Rows)', UNCHANGED <<logging, written>>,
           NEW rows \in Seq(Rows), NEW rest \in Seq(Rows)
    PROVE  /\ rows \o rest = buf \o chan /\ chan' = rest
           /\ \/ buf' = rows /\ RowsOf(flushed') = RowsOf(flushed)
              \/ buf' = <<>> /\ RowsOf(flushed') = RowsOf(flushed) \o rows
           => LogInv(Rows)'
  <1> DEFINE R == RowsOf(flushed)
  <1>1. R \in Seq(Rows) /\ R \o (buf \o chan) = Kept
    BY Accounts DEF LogInv
  <1>2. (RowsAccounted <=> RowsOf(flushed) \o (buf \o chan) = Kept)'
    BY Accounts, PTL
  <1>0. Kept' = Kept
    BY DEF Kept
  <1> HIDE DEF R
  <1>3. (R \o rows) \o (<<>> \o rest) = R \o (rows \o rest)
    BY <1>1, FlushedInPlace
  <1> SUFFICES ASSUME rows \o rest = buf \o chan, chan' = rest,
                      \/ buf' = rows /\ R' = R
                      \/ buf' = <<>> /\ R' = R \o rows
               PROVE  LogInv(Rows)'
    BY DEF R
  <1>4. CASE buf' = rows /\ R' = R
    <2>1. R' \o (buf' \o chan') = R \o (rows \o rest)
      BY <1>4
    <2>2. R' \o (buf' \o chan') = Kept'
      BY <1>0, <1>1, <2>1
    <2> QED  BY <1>2, <2>2 DEF LogInv, R
  <1>5. CASE buf' = <<>> /\ R' = R \o rows
    <2>1. R' \o (buf' \o chan') = Kept'
      BY <1>0, <1>1, <1>3, <1>5
    <2> QED  BY <1>2, <2>1 DEF LogInv, R
  <1> QED  BY <1>4, <1>5

LEMMA LogInvCollect ==
    ASSUME NEW Rows, LogInv(Rows), Collect
    PROVE  LogInv(Rows)'
  <1> DEFINE rows == Append(buf, Head(chan))
  <1>1. /\ rows \in Seq(Rows) /\ Tail(chan) \in Seq(Rows)
        /\ Len(rows) = Len(buf) + 1 /\ rows \o Tail(chan) = buf \o chan
    BY TakenFromChannel DEF LogInv, Collect
  <1>2. chan' = Tail(chan) /\ UNCHANGED <<logging, written>>
    BY DEF Collect
  <1>3. LogTypeOK(Rows)
    BY DEF LogInv
  <1>4. CASE Len(buf) + 1 >= BatchSize
    <2>1. flush_batch(rows)
      BY <1>4 DEF Collect
    <2> HIDE DEF rows
    <2>2. /\ buf' = <<>> /\ fails' \in 0..MaxFails /\ flushed' \in Seq(LogRows(Rows))
          /\ RowsOf(flushed') = RowsOf(flushed) \o rows
      BY <1>1, <1>3, <2>1, FlushTakesBatch
    <2>3. <<>> \in Seq(Rows) /\ Len(<<>>) = 0
      BY EmptySeq
    <2>4. LogTypeOK(Rows)'
      BY <1>1, <1>2, <1>3, <2>2, <2>3, QueryLogAssumption DEF LogTypeOK, LogRows
    <2> QED  BY <1>1, <1>2, <2>2, <2>4, LogInvMoves
  <1>5. CASE ~(Len(buf) + 1 >= BatchSize)
    <2>1. buf' = rows /\ UNCHANGED <<flushed, fails>>
      BY <1>5 DEF Collect
    <2>2. buf \in Seq(Rows) /\ Len(buf) \in Nat
      BY <1>3, LenProperties DEF LogTypeOK
    <2> HIDE DEF rows
    <2>3. LogTypeOK(Rows)'
      BY <1>1, <1>2, <1>3, <1>5, <2>1, <2>2, QueryLogAssumption DEF LogTypeOK
    <2>4. RowsOf(flushed') = RowsOf(flushed)
      BY <2>1
    <2> QED  BY <1>1, <1>2, <2>1, <2>3, <2>4, LogInvMoves
  <1> QED  BY <1>4, <1>5

LEMMA LogInvTimeout ==
    ASSUME NEW Rows, LogInv(Rows), FlushOnTimeout
    PROVE  LogInv(Rows)'
  <1>1. buf \in Seq(Rows) /\ chan \in Seq(Rows) /\ LogTypeOK(Rows)
    BY DEF LogInv, LogTypeOK
  <1>2. flush_batch(buf) /\ chan' = chan /\ UNCHANGED <<logging, written>>
    BY DEF FlushOnTimeout
  <1>3. /\ buf' = <<>> /\ fails' \in 0..MaxFails /\ flushed' \in Seq(LogRows(Rows))
        /\ RowsOf(flushed') = RowsOf(flushed) \o buf
    BY <1>1, <1>2, FlushTakesBatch
  <1>4. <<>> \in Seq(Rows) /\ Len(<<>>) = 0
    BY EmptySeq
  <1>5. LogTypeOK(Rows)'
    BY <1>1, <1>2, <1>3, <1>4, QueryLogAssumption DEF LogTypeOK, LogRows
  <1> QED  BY <1>1, <1>2, <1>3, <1>5, LogInvMoves

----------------------------------------------------------------------------
(* Rows that were lost. *)

\* A failed insert loses a part of one batch.
LossInv == IsFiniteSet(LostOf(flushed)) /\ Cardinality(LostOf(flushed)) <= fails * BatchSize

LEMMA LossOfBatch ==
    ASSUME NEW Rows, LogTypeOK(Rows), LossInv, NEW rows \in Seq(Rows),
           Len(rows) <= BatchSize, flush_batch(rows)
    PROVE  LossInv'
  <1>1. PICK k \in 0..Len(rows) :
          /\ fails' = IF k < Len(rows) THEN fails + 1 ELSE fails
          /\ flushed' = flushed \o Outcome(rows, k)
    BY DEF flush_batch
  <1> DEFINE o == Outcome(rows, k)
             n == Len(flushed)
             m == Len(rows)
             new == (n + k + 1)..(n + m)
  <1>2. flushed \in Seq(LogRows(Rows)) /\ fails \in Nat /\ n \in Nat /\ m \in Nat
        /\ k \in Nat /\ k <= m /\ BatchSize \in Nat
    BY LenProperties, QueryLogAssumption DEF LogTypeOK, LogRows
  <1>3. /\ o \in Seq(LogRows(Rows)) /\ Len(o) = m
        /\ \A i \in 1..m : o[i].stored = (i <= k)
    BY OutcomeIsSeq
  <1> HIDE DEF o
  <1>4. /\ flushed \o o \in Seq(LogRows(Rows)) /\ Len(flushed \o o) = n + m
        /\ DOMAIN (flushed \o o) = 1..(n + m)
        /\ DOMAIN flushed = 1..n
        /\ \A i \in 1..(n + m) : (flushed \o o)[i] = IF i <= n THEN flushed[i] ELSE o[i - n]
    <2>1. /\ flushed \o o \in Seq(LogRows(Rows)) /\ Len(flushed \o o) = n + Len(o)
          /\ \A i \in 1..(n + Len(o)) :
               (flushed \o o)[i] = IF i <= n THEN flushed[i] ELSE o[i - n]
      BY <1>2, <1>3, ConcatProperties
    <2>2. DOMAIN (flushed \o o) = 1..Len(flushed \o o) /\ DOMAIN flushed = 1..n
      BY <1>2, <2>1, LenProperties
    <2> QED  BY <1>3, <2>1, <2>2
  <1>5. LostOf(flushed') \subseteq LostOf(flushed) \cup new
    <2> SUFFICES ASSUME NEW i \in 1..(n + m), ~(flushed \o o)[i].stored
                 PROVE  i \in LostOf(flushed) \cup new
      BY <1>1, <1>4 DEF LostOf, o
    <2>1. CASE i <= n
      BY <1>4, <2>1 DEF LostOf
    <2>2. CASE ~(i <= n)
      <3>1. i - n \in 1..m /\ (flushed \o o)[i] = o[i - n]
        BY <1>2, <1>4, <2>2
      <3>2. ~(i - n <= k)
        BY <1>3, <3>1, Zenon
      <3> QED  BY <1>2, <3>1, <3>2
    <2> QED  BY <2>1, <2>2
  <1>6. IsFiniteSet(new) /\ Cardinality(new) = m - k
    <2>1. n + k + 1 \in Int /\ n + m \in Int
      BY <1>2
    <2>2. /\ IsFiniteSet(new)
          /\ Cardinality(new) = IF n + k + 1 > n + m THEN 0 ELSE (n + m) - (n + k + 1) + 1
      BY <2>1, FS_Interval
    <2> QED  BY <1>2, <2>2
  <1> HIDE DEF new, n, m
  <1> DEFINE both == LostOf(flushed) \cup new
  <1>7. /\ IsFiniteSet(both) /\ Cardinality(both) \in Nat
        /\ Cardinality(both) <= Cardinality(LostOf(flushed)) + Cardinality(new)
        /\ Cardinality(LostOf(flushed)) \in Nat
    <2>1. /\ IsFiniteSet(both)
          /\ Cardinality(both) = Cardinality(LostOf(flushed)) + Cardinality(new)
                                 - Cardinality(LostOf(flushed) \cap new)
      BY <1>6, FS_Union DEF LossInv
    <2>2. IsFiniteSet(LostOf(flushed) \cap new)
      BY <1>6, FS_Intersection
    <2>3. /\ Cardinality(LostOf(flushed) \cap new) \in Nat /\ Cardinality(both) \in Nat
          /\ Cardinality(LostOf(flushed)) \in Nat /\ Cardinality(new) \in Nat
      BY <1>6, <2>1, <2>2, FS_CardinalityType DEF LossInv
    <2> QED  BY <2>1, <2>3
  <1>8. /\ IsFiniteSet(LostOf(flushed')) /\ Cardinality(LostOf(flushed')) <= Cardinality(both)
        /\ Cardinality(LostOf(flushed')) \in Nat
    BY <1>5, <1>7, FS_Subset, FS_CardinalityType
  <1>9. (fails + 1) * BatchSize = fails * BatchSize + BatchSize /\ fails * BatchSize \in Nat
    BY <1>2
  <1>10. Cardinality(LostOf(flushed')) <= fails' * BatchSize
    <2>1. CASE k < m
      <3>1. fails' = fails + 1 /\ m <= BatchSize
        BY <1>1, <2>1 DEF m
      <3> HIDE DEF both
      <3>2. Cardinality(LostOf(flushed')) <= fails * BatchSize + BatchSize
        BY <1>2, <1>6, <1>7, <1>8, <1>9, <3>1 DEF LossInv
      <3> QED  BY <1>9, <3>1, <3>2
    <2>2. CASE ~(k < m)
      <3>1. fails' = fails /\ m - k = 0
        BY <1>1, <1>2, <2>2 DEF m
      <3> HIDE DEF both
      <3>2. Cardinality(LostOf(flushed')) <= fails * BatchSize
        BY <1>2, <1>6, <1>7, <1>8, <1>9, <3>1 DEF LossInv
      <3> QED  BY <3>1, <3>2
    <2> QED  BY <2>1, <2>2
  <1> QED  BY <1>8, <1>10 DEF LossInv

LEMMA LossInvInit == LogInit => LossInv
  <1> SUFFICES ASSUME LogInit PROVE LossInv
    OBVIOUS
  <1>1. LostOf(flushed) = {} /\ fails = 0
    BY DEF LogInit, LostOf
  <1> QED  BY <1>1, FS_EmptySet, QueryLogAssumption DEF LossInv

\* Only the flusher can lose rows.
LEMMA LossInvFlusher ==
    ASSUME NEW Rows, LogTypeOK(Rows), LossInv, Collect \/ FlushOnTimeout
    PROVE  LossInv'
  <1>1. CASE Collect
    <2>1. /\ Append(buf, Head(chan)) \in Seq(Rows)
          /\ Len(Append(buf, Head(chan))) <= BatchSize
      BY <1>1, TakenFromChannel DEF Collect
    <2>2. \/ flush_batch(Append(buf, Head(chan)))
          \/ UNCHANGED <<flushed, fails>>
      BY <1>1 DEF Collect
    <2> QED  BY <2>1, <2>2, LossOfBatch DEF LossInv
  <1>2. CASE FlushOnTimeout
    <2>1. buf \in Seq(Rows) /\ Len(buf) <= BatchSize
      BY LenProperties, QueryLogAssumption DEF LogTypeOK
    <2> QED  BY <1>2, <2>1, LossOfBatch DEF FlushOnTimeout
  <1> QED  BY <1>1, <1>2

LEMMA LossInvWrite ==
    ASSUME LossInv, NEW r, write(r) \/ UNCHANGED logVars
    PROVE  LossInv'
  BY DEF LossInv, write, logVars

LEMMA LossInvShows ==
    ASSUME LossInv, NEW Rows, LogTypeOK(Rows)
    PROVE  LossNeedsFailedInsert
  <1>1. LostOf(flushed) = {i \in DOMAIN flushed : ~flushed[i].stored}
    BY DEF LostOf
  <1>2. Cardinality(LostOf(flushed)) <= fails * BatchSize
    BY DEF LossInv
  <1>3. fails = 0 => LostOf(flushed) = {}
    <2> SUFFICES ASSUME fails = 0 PROVE LostOf(flushed) = {}
      OBVIOUS
    <2>1. Cardinality(LostOf(flushed)) <= 0 /\ Cardinality(LostOf(flushed)) \in Nat
      BY <1>2, FS_CardinalityType, QueryLogAssumption DEF LossInv
    <2> QED  BY <2>1, FS_EmptySet DEF LossInv
  <1> QED  BY <1>1, <1>2, <1>3 DEF LossNeedsFailedInsert

----------------------------------------------------------------------------
(* The pool of workers. *)

Busy == {"handling", "resolving", "replying", "stuck"}

\* A worker holds a datagram just when it is busy with one.
Held == \A w \in Workers : /\ pc[w] \in Busy => cur[w] \in Datagrams
                           /\ pc[w] \notin Busy => cur[w] = 0

\* What the types of the pool's variables rest on.
PoolInv ==
    /\ received \in Seq([client : Clients, key : Keys])
    /\ queue \in Seq(Nat) /\ reading \in BOOLEAN /\ rx \in Workers \cup {NoWorker}
    /\ pc \in [Workers -> Locations] /\ cur \in [Workers -> Nat]
    /\ poisoned \subseteq Keys /\ panics \in 0..MaxPanics
    /\ casualties \subseteq Nat /\ dropped \subseteq Nat
    /\ \A i \in DOMAIN queue : queue[i] \in Datagrams
    /\ Held

LEMMA PoolInvInit == Init => PoolInv
  <1> SUFFICES ASSUME Init PROVE PoolInv
    OBVIOUS
  <1>1. <<>> \in Seq([client : Clients, key : Keys]) /\ <<>> \in Seq(Nat) /\ DOMAIN <<>> = {}
    OBVIOUS
  <1>2. Held
    BY DEF Init, Held, Busy
  <1> QED  BY <1>1, <1>2, UdpAssumption DEF Init, PoolInv, Locations

\* The datagram a busy worker holds.
LEMMA HeldDatagram ==
    ASSUME PoolInv, NEW w \in Workers, pc[w] \in Busy
    PROVE  /\ cur[w] \in 1..Len(received) /\ cur[w] \in Nat
           /\ received[cur[w]].client \in Clients /\ received[cur[w]].key \in Keys
  <1>1. cur[w] \in 1..Len(received) /\ cur[w] \in Nat
    BY DEF PoolInv, Held, Datagrams
  <1>2. received[cur[w]] \in [client : Clients, key : Keys]
    BY <1>1, ElementOfSeq DEF PoolInv
  <1> QED  BY <1>1, <1>2

\* The range of the channel.
LEMMA QueuedDatagrams ==
    ASSUME PoolInv
    PROVE  Range(queue) \subseteq Datagrams /\ Range(queue) \subseteq Nat
  BY DEF PoolInv, Range, Datagrams

LEMMA PoolInvRead ==
    ASSUME PoolInv, NEW c \in Clients, NEW k \in Keys, Read(c, k)
    PROVE  PoolInv'
  <1> DEFINE e == [client |-> c, key |-> k]
             n == Len(received)
  <1>1. /\ received \in Seq([client : Clients, key : Keys]) /\ n \in Nat
        /\ queue \in Seq(Nat) /\ Len(queue) \in Nat /\ n + 1 \in Nat
        /\ e \in [client : Clients, key : Keys]
    BY LenProperties DEF PoolInv
  <1>2. received' \in Seq([client : Clients, key : Keys]) /\ Len(received') = n + 1
    BY <1>1, AppendProperties DEF Read
  <1>3. /\ queue' \in Seq(Nat) /\ DOMAIN queue' = 1..(Len(queue) + 1)
        /\ DOMAIN queue = 1..Len(queue)
        /\ \A i \in 1..Len(queue) : queue'[i] = queue[i]
        /\ queue'[Len(queue) + 1] = n + 1
    <2>1. /\ Append(queue, n + 1) \in Seq(Nat)
          /\ Len(Append(queue, n + 1)) = Len(queue) + 1
          /\ \A i \in 1..Len(queue) : Append(queue, n + 1)[i] = queue[i]
          /\ Append(queue, n + 1)[Len(queue) + 1] = n + 1
      BY <1>1, AppendProperties
    <2>2. /\ DOMAIN Append(queue, n + 1) = 1..Len(Append(queue, n + 1))
          /\ DOMAIN queue = 1..Len(queue)
      BY <1>1, <2>1, LenProperties
    <2> QED  BY <2>1, <2>2 DEF Read
  <1>4. \A i \in DOMAIN queue' : queue'[i] \in Datagrams'
    <2> SUFFICES ASSUME NEW i \in 1..(Len(queue) + 1) PROVE queue'[i] \in 1..(n + 1)
      BY <1>2, <1>3 DEF Datagrams
    <2>1. CASE i \in 1..Len(queue)
      <3>1. queue[i] \in 1..n
        BY <1>3, <2>1 DEF PoolInv, Datagrams
      <3> QED  BY <1>1, <1>3, <2>1, <3>1
    <2>2. CASE i = Len(queue) + 1
      BY <1>1, <1>3, <2>2
    <2> QED  BY <1>1, <2>1, <2>2
  <1>5. Held'
    <2>1. Datagrams \subseteq Datagrams'
      BY <1>1, <1>2 DEF Datagrams
    <2>2. pc' = pc /\ cur' = cur
      BY DEF Read
    <2> QED  BY <2>1, <2>2 DEF PoolInv, Held
  <1> QED  BY <1>2, <1>3, <1>4, <1>5 DEF PoolInv, Read

LEMMA PoolInvReaderStops ==
    ASSUME PoolInv, NEW c \in Clients, NEW k \in Keys, ReaderStops(c, k)
    PROVE  PoolInv'
  <1> DEFINE n == Len(received)
  <1>1. /\ received \in Seq([client : Clients, key : Keys]) /\ n \in Nat
        /\ [client |-> c, key |-> k] \in [client : Clients, key : Keys]
    BY LenProperties DEF PoolInv
  <1>2. received' \in Seq([client : Clients, key : Keys]) /\ Len(received') = n + 1
    BY <1>1, AppendProperties DEF ReaderStops
  <1>3. Datagrams \subseteq Datagrams'
    BY <1>1, <1>2 DEF Datagrams
  <1>4. pc' = pc /\ cur' = cur /\ queue' = queue
    BY DEF ReaderStops
  <1>5. Held' /\ \A i \in DOMAIN queue' : queue'[i] \in Datagrams'
    BY <1>3, <1>4 DEF PoolInv, Held
  <1>6. dropped' \subseteq Nat
    <2>1. dropped' = dropped \cup {n + 1} /\ dropped \subseteq Nat /\ n + 1 \in Nat
      BY <1>1 DEF PoolInv, ReaderStops
    <2> QED  BY <2>1
  <1> QED  BY <1>2, <1>4, <1>5, <1>6 DEF PoolInv, ReaderStops

\* Steps that change the place of a worker and what it holds, and keep the channel
\* or empty it.
LEMMA PoolInvWorker ==
    ASSUME PoolInv, NEW w \in Workers, UNCHANGED received, queue' \in {queue, <<>>},
           NEW l \in Locations, pc' = [pc EXCEPT ![w] = l],
           \/ l \in Busy /\ pc[w] \in Busy /\ cur' = cur
           \/ l \notin Busy /\ cur' = [cur EXCEPT ![w] = 0]
           \/ l \notin Busy /\ pc[w] \notin Busy /\ cur' = cur,
           reading' \in BOOLEAN, rx' \in Workers \cup {NoWorker}, poisoned' \subseteq Keys,
           casualties' \subseteq Nat, dropped' \subseteq Nat, panics' \in 0..MaxPanics
    PROVE  PoolInv'
  <1>1. pc' \in [Workers -> Locations] /\ cur' \in [Workers -> Nat]
    <2>1. pc \in [Workers -> Locations] /\ cur \in [Workers -> Nat]
      BY DEF PoolInv
    <2>2. pc' \in [Workers -> Locations]
      BY <2>1
    <2>3. cur' = cur \/ cur' = [cur EXCEPT ![w] = 0]
      OBVIOUS
    <2> QED  BY <2>1, <2>2, <2>3
  <1>2. Datagrams' = Datagrams
    BY DEF Datagrams
  <1>3. Held'
    BY <1>2 DEF PoolInv, Held
  <1>4. queue' \in Seq(Nat) /\ \A i \in DOMAIN queue' : queue'[i] \in Datagrams
    <2>1. CASE queue' = queue
      BY <2>1 DEF PoolInv
    <2>2. CASE queue' = <<>>
      BY <2>2, EmptySeq
    <2> QED  BY <2>1, <2>2
  <1> QED  BY <1>1, <1>2, <1>3, <1>4 DEF PoolInv

LEMMA PoolInvReceive ==
    ASSUME PoolInv, NEW w \in Workers, Receive(w)
    PROVE  PoolInv'
  <1>1. queue \in Seq(Nat) /\ queue # <<>> /\ Len(queue) \in Nat /\ DOMAIN queue = 1..Len(queue)
    BY LenProperties DEF PoolInv, Receive
  <1>2. Head(queue) = queue[1] /\ 1 \in DOMAIN queue
    BY <1>1
  <1>3. Head(queue) \in Datagrams /\ Head(queue) \in Nat
    BY <1>1, <1>2 DEF PoolInv, Datagrams
  <1>4. /\ Tail(queue) \in Seq(Nat) /\ Len(Tail(queue)) = Len(queue) - 1
        /\ \A i \in 1..Len(Tail(queue)) : Tail(queue)[i] = queue[i + 1]
    BY <1>1, HeadTailProperties
  <1>5. DOMAIN Tail(queue) = 1..Len(Tail(queue))
    BY <1>4, LenProperties
  <1>6. \A i \in DOMAIN queue' : queue'[i] \in Datagrams'
    <2> SUFFICES ASSUME NEW i \in 1..(Len(queue) - 1) PROVE Tail(queue)[i] \in Datagrams
      BY <1>4, <1>5 DEF Receive, Datagrams
    <2>1. i + 1 \in DOMAIN queue
      BY <1>1
    <2> QED  BY <1>4, <2>1 DEF PoolInv
  <1>7. pc' \in [Workers -> Locations] /\ cur' \in [Workers -> Nat]
    BY <1>3 DEF PoolInv, Receive, Locations
  <1>8. Held'
    BY <1>3 DEF PoolInv, Held, Receive, Busy, Datagrams
  <1> QED  BY <1>4, <1>6, <1>7, <1>8 DEF PoolInv, Receive

LEMMA PoolInvWorkerStep ==
    ASSUME PoolInv, NEW w \in Workers, WorkerStep(w)
    PROVE  PoolInv'
  <1>0. /\ reading \in BOOLEAN /\ rx \in Workers \cup {NoWorker} /\ poisoned \subseteq Keys
        /\ casualties \subseteq Nat /\ dropped \subseteq Nat /\ panics \in 0..MaxPanics
    BY DEF PoolInv
  <1>1. CASE Lock(w)
    <2>1. /\ pc' = [pc EXCEPT ![w] = "receiving"] /\ pc[w] = "idle" /\ rx' = w
          /\ UNCHANGED <<received, queue, reading, cur, poisoned, casualties, dropped,
                         panics>>
      BY <1>1 DEF Lock
    <2>2. "receiving" \in Locations /\ "receiving" \notin Busy /\ pc[w] \notin Busy
      BY <2>1 DEF Locations, Busy
    <2> QED  BY <1>0, <2>1, <2>2, PoolInvWorker
  <1>2. CASE Admit(w)
    <2>1. PICK l \in {"resolving", "replying"} : pc' = [pc EXCEPT ![w] = l]
      BY <1>2 DEF Admit
    <2>2. /\ pc[w] = "handling"
          /\ UNCHANGED <<received, queue, reading, rx, cur, poisoned, casualties, dropped,
                         panics>>
      BY <1>2 DEF Admit
    <2>3. l \in Locations /\ l \in Busy /\ pc[w] \in Busy
      BY <2>2 DEF Locations, Busy
    <2> QED  BY <1>0, <2>1, <2>2, <2>3, PoolInvWorker
  <1>3. CASE Resolve(w)
    <2>1. PICK l \in {"stuck", "replying"} : pc' = [pc EXCEPT ![w] = l]
      BY <1>3 DEF Resolve
    <2>2. /\ pc[w] = "resolving"
          /\ UNCHANGED <<received, queue, reading, rx, cur, poisoned, casualties, dropped,
                         panics>>
      BY <1>3 DEF Resolve
    <2>3. l \in Locations /\ l \in Busy /\ pc[w] \in Busy
      BY <2>2 DEF Locations, Busy
    <2> QED  BY <1>0, <2>1, <2>2, <2>3, PoolInvWorker
  <1>4. CASE Reply(w)
    <2>1. /\ pc' = [pc EXCEPT ![w] = "idle"] /\ cur' = [cur EXCEPT ![w] = 0]
          /\ UNCHANGED <<received, queue, reading, rx, poisoned, casualties, dropped,
                         panics>>
      BY <1>4 DEF Reply
    <2>2. "idle" \in Locations /\ "idle" \notin Busy
      BY DEF Locations, Busy
    <2> QED  BY <1>0, <2>1, <2>2, PoolInvWorker
  <1>5. CASE Reject(w)
    <2>1. /\ pc' = [pc EXCEPT ![w] = "replying"] /\ pc[w] = "handling"
          /\ UNCHANGED <<received, queue, reading, rx, cur, poisoned, casualties, dropped,
                         panics>>
      BY <1>5 DEF Reject
    <2>2. "replying" \in Locations /\ "replying" \in Busy /\ pc[w] \in Busy
      BY <2>1 DEF Locations, Busy
    <2> QED  BY <1>0, <2>1, <2>2, PoolInvWorker
  <1> QED  BY <1>1, <1>2, <1>3, <1>4, <1>5, PoolInvReceive DEF WorkerStep

LEMMA PoolInvPanic ==
    ASSUME PoolInv, NEW w \in Workers, Panic(w)
    PROVE  PoolInv'
  <1>1. /\ pc' = [pc EXCEPT ![w] = "dead"] /\ cur' = [cur EXCEPT ![w] = 0]
        /\ panics' = panics + 1 /\ panics < MaxPanics
        /\ casualties' = casualties \cup {cur[w]}
        /\ UNCHANGED <<received, reading, rx>>
        /\ \/ queue' = <<>> /\ dropped' = dropped \cup Range(queue)
           \/ UNCHANGED <<queue, dropped>>
    BY DEF Panic
  <1>2. pc[w] \in Busy
    BY DEF Panic, Busy
  <1>3. cur[w] \in Nat /\ received[cur[w]].key \in Keys
    BY <1>2, HeldDatagram
  <1>4. poisoned' = poisoned \/ poisoned' = poisoned \cup {received[cur[w]].key}
    BY DEF Panic
  <1>5. /\ poisoned' \subseteq Keys /\ casualties' \subseteq Nat /\ panics' \in 0..MaxPanics
        /\ reading' \in BOOLEAN /\ rx' \in Workers \cup {NoWorker}
    <2>1. panics \in 0..MaxPanics /\ poisoned \subseteq Keys /\ casualties \subseteq Nat
          /\ reading \in BOOLEAN /\ rx \in Workers \cup {NoWorker}
      BY DEF PoolInv
    <2>2. panics' \in 0..MaxPanics
      BY <1>1, <2>1, UdpAssumption
    <2>3. poisoned' \subseteq Keys /\ casualties' \subseteq Nat
      BY <1>1, <1>3, <1>4, <2>1
    <2> QED  BY <1>1, <2>1, <2>2, <2>3
  <1>6. "dead" \in Locations /\ "dead" \notin Busy
    BY DEF Locations, Busy
  <1>7. queue' \in {queue, <<>>} /\ dropped' \subseteq Nat
    BY <1>1, QueuedDatagrams DEF PoolInv
  <1> QED  BY <1>1, <1>5, <1>6, <1>7, PoolInvWorker

LEMMA PoolInvNext == PoolInv /\ [Next]_vars => PoolInv'
  <1> SUFFICES ASSUME PoolInv, [Next]_vars PROVE PoolInv'
    OBVIOUS
  <1>1. CASE UNCHANGED poolVars
    BY <1>1 DEF poolVars, PoolInv, Held, Datagrams
  <1>3. CASE UNCHANGED vars
    BY <1>1, <1>3 DEF vars
  <1>4. CASE Flusher \/ Tick
    BY <1>1, <1>4 DEF Flusher, Tick
  <1> QED  BY <1>3, <1>4, PoolInvRead, PoolInvReaderStops, PoolInvWorkerStep, PoolInvPanic
           DEF Next

----------------------------------------------------------------------------
(* The limiter and the log as the workers use them. *)

ServerInv == PoolInv /\ LimiterTypeOK /\ LogInv(Nat) /\ LossInv

LEMMA ServerInvInit == Init => ServerInv
  BY PoolInvInit, IdealInit, LogInvInit, LossInvInit DEF Init, ServerInv

LEMMA LimiterSteps ==
    ASSUME PoolInv, LimiterTypeOK, [Next]_vars
    PROVE  \/ UNCHANGED limiterVars
           \/ LimiterTick
           \/ \E c \in Clients, g \in BOOLEAN : allow(c, g)
  <1>1. ASSUME NEW w \in Workers, Admit(w)
        PROVE  \E c \in Clients, g \in BOOLEAN : allow(c, g)
    <2>1. received[cur[w]].client \in Clients
      BY <1>1, HeldDatagram DEF Admit, Busy
    <2> QED  BY <1>1, <2>1 DEF Admit
  <1>2. ASSUME NEW w \in Workers,
                     Lock(w) \/ Receive(w) \/ Reject(w) \/ Resolve(w) \/ Reply(w) \/ Panic(w)
        PROVE  UNCHANGED limiterVars
    BY <1>2 DEF Lock, Receive, Reject, Resolve, Reply, Panic
  <1>3. ASSUME NEW c \in Clients, NEW k \in Keys, Read(c, k) \/ ReaderStops(c, k)
        PROVE  UNCHANGED limiterVars
    BY <1>3 DEF Read, ReaderStops
  <1> QED  BY <1>1, <1>2, <1>3 DEF Next, WorkerStep, Flusher, Tick, vars

LEMMA LogSteps ==
    ASSUME PoolInv, [Next]_vars
    PROVE  \/ UNCHANGED logVars
           \/ Collect \/ FlushOnTimeout
           \/ \E r \in Nat : write(r)
  <1>1. ASSUME NEW w \in Workers, Reply(w)
        PROVE  \E r \in Nat : write(r)
    <2>1. cur[w] \in Nat
      BY DEF PoolInv
    <2> QED  BY <1>1, <2>1 DEF Reply
  <1>2. ASSUME NEW w \in Workers,
                     Lock(w) \/ Receive(w) \/ Reject(w) \/ Resolve(w) \/ Admit(w) \/ Panic(w)
        PROVE  UNCHANGED logVars
    BY <1>2 DEF Lock, Receive, Reject, Resolve, Admit, Panic
  <1>3. ASSUME NEW c \in Clients, NEW k \in Keys, Read(c, k) \/ ReaderStops(c, k)
        PROVE  UNCHANGED logVars
    BY <1>3 DEF Read, ReaderStops
  <1> QED  BY <1>1, <1>2, <1>3 DEF Next, WorkerStep, Flusher, Tick, vars

LEMMA ServerInvNext == ServerInv /\ [Next]_vars => ServerInv'
  <1> SUFFICES ASSUME ServerInv, [Next]_vars PROVE ServerInv'
    OBVIOUS
  <1>1. PoolInv'
    BY PoolInvNext DEF ServerInv
  <1>2. LimiterTypeOK'
    <2>1. CASE UNCHANGED limiterVars
      BY <2>1 DEF limiterVars, LimiterTypeOK, ServerInv
    <2> QED  BY <2>1, LimiterSteps, AllowPays, TickRefills DEF ServerInv
  <1>3. LogInv(Nat)'
    <2>1. CASE UNCHANGED logVars
      BY <2>1 DEF logVars, LogInv, LogTypeOK, RowsAccounted, FlushedRows, ServerInv
    <2> QED  BY <2>1, LogSteps, LogInvWrite, LogInvCollect, LogInvTimeout DEF ServerInv
  <1>4. LossInv'
    <2>1. LogTypeOK(Nat)
      BY DEF ServerInv, LogInv
    <2> QED  BY <2>1, LogSteps, LossInvWrite, LossInvFlusher DEF ServerInv
  <1> QED  BY <1>1, <1>2, <1>3, <1>4 DEF ServerInv

\* Threads, clients and flusher in any order keep the types, and no batch outgrows
\* log_batch_size (serve_udp, Limiter::allow, flush_loop).
THEOREM UdpTypes == Spec => []TypeOK
  <1>1. ServerInv => TypeOK
    BY DEF ServerInv, PoolInv, LogInv, TypeOK
  <1> QED  BY <1>1, ServerInvInit, ServerInvNext, PTL DEF Spec

\* Whatever order handlers and flusher run in, for every batch size, every row written is
\* in the channel, in the buffer or in one batch, in the order of writing (flush_loop,
\* flush_batch).
THEOREM RowsInOrder == Spec => []RowsAccounted
  <1>1. ServerInv => RowsAccounted
    BY DEF ServerInv, LogInv
  <1> QED  BY <1>1, ServerInvInit, ServerInvNext, PTL DEF Spec

\* Each failed insert costs at most one batch of rows, and without one none is lost
\* (flush_batch).
THEOREM LossBounded == Spec => []LossNeedsFailedInsert
  <1>1. ServerInv => LossNeedsFailedInsert
    BY LossInvShows DEF ServerInv, LogInv
  <1> QED  BY <1>1, ServerInvInit, ServerInvNext, PTL DEF Spec

\* For every rate, every number of clients and every limit on the map's size, the limiter
\* the workers share behaves as one token bucket per client that is never forgotten
\* (Limiter::allow with its cleanup).
THEOREM LimiterRefines == Spec => ActsAsTokenBuckets
  <1>1. ServerInv /\ [Next]_vars => [Ideal!Next]_<<Level, grants, refusals>>
    <2> SUFFICES ASSUME ServerInv, [Next]_vars
                 PROVE  [Ideal!Next]_<<Level, grants, refusals>>
      OBVIOUS
    <2>1. \/ UNCHANGED limiterVars
          \/ LimiterTick
          \/ \E c \in Clients, g \in BOOLEAN : allow(c, g)
      BY LimiterSteps DEF ServerInv
    <2>2. CASE UNCHANGED limiterVars
      BY <2>2, IdealStutter
    <2>3. CASE LimiterTick
      BY <2>3, IdealTick DEF ServerInv, Ideal!Next
    <2>4. CASE \E c \in Clients, g \in BOOLEAN : allow(c, g)
      BY <2>4, IdealRequest DEF ServerInv, Ideal!Next
    <2> QED  BY <2>1, <2>2, <2>3, <2>4
  <1>2. Init => Ideal!Init
    BY IdealInit DEF Init
  <1> QED  BY <1>1, <1>2, ServerInvInit, ServerInvNext, PTL
           DEF Spec, ActsAsTokenBuckets, Ideal!Spec, Level

----------------------------------------------------------------------------
(* Where the datagrams are.  n of them were read; Q are queued, W logged, L   *)
(* lost, and worker w holds h[w].                                             *)

Everywhere(n, Q, W, L, h) ==
    \A d \in 1..n : d \in Q \/ (\E w \in Workers : h[w] = d) \/ d \in W \/ d \in L

Once(n, Q, W, L, h) ==
    /\ Q \subseteq 1..n /\ W \subseteq 1..n /\ L \subseteq 1..n
    /\ Q \cap W = {} /\ Q \cap L = {} /\ W \cap L = {}
    /\ \A w \in Workers : h[w] \in 0..n /\ h[w] \notin Q /\ h[w] \notin W /\ h[w] \notin L
    /\ \A v, w \in Workers : h[v] = h[w] /\ h[v] # 0 => v = w

Partition(n, Q, W, L, h) ==
    /\ n \in Nat /\ h \in [Workers -> Nat]
    /\ Everywhere(n, Q, W, L, h) /\ Once(n, Q, W, L, h)

LEMMA PartitionRead ==
    ASSUME NEW n, NEW Q, NEW W, NEW L, NEW h, Partition(n, Q, W, L, h)
    PROVE  Partition(n + 1, Q \cup {n + 1}, W, L, h)
  <1>1. n \in Nat /\ 1..(n + 1) = (1..n) \cup {n + 1} /\ n + 1 \notin 0..n
    BY DEF Partition
  <1>2. Everywhere(n + 1, Q \cup {n + 1}, W, L, h)
    BY <1>1 DEF Partition, Everywhere
  <1>3. Once(n + 1, Q \cup {n + 1}, W, L, h)
    BY <1>1 DEF Partition, Once
  <1> QED  BY <1>1, <1>2, <1>3 DEF Partition

\* A datagram that is read and not queued.
LEMMA PartitionReadLost ==
    ASSUME NEW n, NEW Q, NEW W, NEW L, NEW h, Partition(n, Q, W, L, h)
    PROVE  Partition(n + 1, Q, W, L \cup {n + 1}, h)
  <1>1. n \in Nat /\ 1..(n + 1) = (1..n) \cup {n + 1} /\ n + 1 \notin 0..n
    BY DEF Partition
  <1>2. Everywhere(n + 1, Q, W, L \cup {n + 1}, h)
    BY <1>1 DEF Partition, Everywhere
  <1>3. Once(n + 1, Q, W, L \cup {n + 1}, h)
    BY <1>1 DEF Partition, Once
  <1> QED  BY <1>1, <1>2, <1>3 DEF Partition

\* The channel goes, with all that is in it.
LEMMA PartitionDrop ==
    ASSUME NEW n, NEW Q, NEW W, NEW L, NEW h, Partition(n, Q, W, L, h)
    PROVE  Partition(n, {}, W, L \cup Q, h)
  <1>1. Everywhere(n, {}, W, L \cup Q, h)
    BY DEF Partition, Everywhere
  <1>2. Once(n, {}, W, L \cup Q, h)
    BY DEF Partition, Once
  <1> QED  BY <1>1, <1>2 DEF Partition

LEMMA PartitionReceive ==
    ASSUME NEW n, NEW Q, NEW W, NEW L, NEW h, Partition(n, Q, W, L, h),
           NEW w \in Workers, h[w] = 0, NEW d \in Q
    PROVE  Partition(n, Q \ {d}, W, L, [h EXCEPT ![w] = d])
  <1> DEFINE g == [h EXCEPT ![w] = d]
  <1>1. /\ n \in Nat /\ d \in 1..n /\ d \in Nat /\ d # 0 /\ h \in [Workers -> Nat]
        /\ d \notin W /\ d \notin L
    BY DEF Partition, Once
  <1>2. /\ g \in [Workers -> Nat] /\ g[w] = d
        /\ \A v \in Workers \ {w} : g[v] = h[v] /\ h[v] # d
    BY <1>1 DEF Partition, Once
  <1> HIDE DEF g
  <1>3. Everywhere(n, Q \ {d}, W, L, g)
    BY <1>1, <1>2 DEF Partition, Everywhere
  <1>4. Once(n, Q \ {d}, W, L, g)
    BY <1>1, <1>2 DEF Partition, Once
  <1> QED  BY <1>1, <1>2, <1>3, <1>4 DEF Partition, g

\* A worker is done with its datagram: it is logged, or lost.
LEMMA PartitionDone ==
    ASSUME NEW n, NEW Q, NEW W, NEW L, NEW h, Partition(n, Q, W, L, h),
           NEW w \in Workers, h[w] # 0
    PROVE  /\ Partition(n, Q, W \cup {h[w]}, L, [h EXCEPT ![w] = 0])
           /\ Partition(n, Q, W, L \cup {h[w]}, [h EXCEPT ![w] = 0])
           /\ h[w] \notin W
  <1> DEFINE g == [h EXCEPT ![w] = 0]
  <1>1. /\ n \in Nat /\ h[w] \in 1..n /\ h \in [Workers -> Nat]
        /\ h[w] \notin Q /\ h[w] \notin W /\ h[w] \notin L /\ 0 \notin 1..n
    BY DEF Partition, Once
  <1>2. /\ g \in [Workers -> Nat] /\ g[w] = 0
        /\ \A v \in Workers \ {w} : g[v] = h[v] /\ h[v] # h[w]
    BY <1>1 DEF Partition, Once
  <1> HIDE DEF g
  <1>3. Everywhere(n, Q, W \cup {h[w]}, L, g) /\ Everywhere(n, Q, W, L \cup {h[w]}, g)
    BY <1>1, <1>2 DEF Partition, Everywhere
  <1>4. /\ Q \subseteq 1..n /\ W \subseteq 1..n /\ L \subseteq 1..n
        /\ Q \cap W = {} /\ Q \cap L = {} /\ W \cap L = {}
    BY DEF Partition, Once
  <1>5. \A v \in Workers : /\ g[v] \in 0..n /\ g[v] \notin Q /\ g[v] \notin W
                           /\ g[v] \notin L /\ g[v] # h[w]
    <2> SUFFICES ASSUME NEW v \in Workers
                 PROVE  /\ g[v] \in 0..n /\ g[v] \notin Q /\ g[v] \notin W
                        /\ g[v] \notin L /\ g[v] # h[w]
      OBVIOUS
    <2>1. CASE v = w
      BY <1>1, <1>2, <1>4, <2>1
    <2>2. CASE v # w
      BY <1>2, <2>2 DEF Partition, Once
    <2> QED  BY <2>1, <2>2
  <1>6. \A v, x \in Workers : g[v] = g[x] /\ g[v] # 0 => v = x
    BY <1>2 DEF Partition, Once
  <1>7. Once(n, Q, W \cup {h[w]}, L, g)
    BY <1>1, <1>4, <1>5, <1>6 DEF Once
  <1>8. Once(n, Q, W, L \cup {h[w]}, g)
    BY <1>1, <1>4, <1>5, <1>6 DEF Once
  <1> QED  BY <1>1, <1>2, <1>3, <1>7, <1>8 DEF Partition, g

LEMMA RangeAppend ==
    ASSUME NEW S, NEW s \in Seq(S), NEW e \in S
    PROVE  /\ Range(Append(s, e)) = Range(s) \cup {e}
           /\ IsInjective(s) /\ e \notin Range(s) => IsInjective(Append(s, e))
  <1>1. /\ Append(s, e) \in Seq(S) /\ Len(Append(s, e)) = Len(s) + 1
        /\ \A i \in 1..Len(s) : Append(s, e)[i] = s[i]
        /\ Append(s, e)[Len(s) + 1] = e
    BY AppendProperties
  <1>2. /\ DOMAIN s = 1..Len(s) /\ DOMAIN Append(s, e) = 1..Len(Append(s, e))
        /\ Len(s) \in Nat
    BY <1>1, LenProperties
  <1>3. 1..(Len(s) + 1) = (1..Len(s)) \cup {Len(s) + 1}
    BY <1>2
  <1>4. Range(Append(s, e)) = Range(s) \cup {e}
    BY <1>1, <1>2, <1>3 DEF Range
  <1>5. ASSUME IsInjective(s), e \notin Range(s)
        PROVE  IsInjective(Append(s, e))
    BY <1>1, <1>2, <1>3, <1>5 DEF IsInjective, Range
  <1> QED  BY <1>4, <1>5

LEMMA RangeTail ==
    ASSUME NEW S, NEW s \in Seq(S), s # <<>>, IsInjective(s)
    PROVE  /\ Range(Tail(s)) = Range(s) \ {Head(s)}
           /\ Head(s) \in Range(s) /\ IsInjective(Tail(s))
  <1>1. /\ Tail(s) \in Seq(S) /\ Len(Tail(s)) = Len(s) - 1
        /\ \A i \in 1..Len(Tail(s)) : Tail(s)[i] = s[i + 1]
    BY HeadTailProperties
  <1>2. /\ DOMAIN s = 1..Len(s) /\ DOMAIN Tail(s) = 1..Len(Tail(s))
        /\ Len(s) \in Nat \ {0} /\ Head(s) = s[1]
    BY <1>1, LenProperties, EmptySeq
  <1> DEFINE t == Tail(s)
             n == Len(s)
  <1>3. n \in Nat \ {0} /\ DOMAIN t = 1..(n - 1) /\ \A i \in 1..(n - 1) : t[i] = s[i + 1]
    BY <1>1, <1>2
  <1> HIDE DEF t
  <1>4. ASSUME NEW x \in Range(t) PROVE x \in Range(s) /\ x # s[1]
    <2>1. PICK i \in 1..(n - 1) : x = s[i + 1]
      BY <1>3 DEF Range
    <2>2. i + 1 \in 1..n /\ i + 1 # 1 /\ 1 \in 1..n
      BY <1>3
    <2> QED  BY <1>2, <2>1, <2>2 DEF Range, IsInjective
  <1>5. ASSUME NEW x \in Range(s), x # s[1] PROVE x \in Range(t)
    <2>1. PICK i \in 1..n : x = s[i]
      BY <1>2 DEF Range
    <2>2. i - 1 \in 1..(n - 1) /\ (i - 1) + 1 = i
      BY <1>3, <1>5, <2>1
    <2>3. t[i - 1] = x
      BY <1>3, <2>1, <2>2
    <2> QED  BY <1>3, <2>2, <2>3 DEF Range
  <1>6. Range(t) = Range(s) \ {s[1]}
    BY <1>4, <1>5
  <1>7. IsInjective(t)
    <2> SUFFICES ASSUME NEW i \in 1..(n - 1), NEW j \in 1..(n - 1), t[i] = t[j] PROVE i = j
      BY <1>3 DEF IsInjective
    <2>1. i + 1 \in DOMAIN s /\ j + 1 \in DOMAIN s /\ s[i + 1] = s[j + 1]
      BY <1>2, <1>3
    <2>2. i + 1 = j + 1
      BY <2>1 DEF IsInjective
    <2> QED  BY <2>2
  <1>8. s[1] \in Range(s)
    BY <1>2 DEF Range
  <1> QED  BY <1>2, <1>6, <1>7, <1>8 DEF t

Casualties == casualties \cup dropped

DInv ==
    /\ Partition(Len(received), Range(queue), Range(written), Casualties, cur)
    /\ IsInjective(queue) /\ IsInjective(written)
    /\ casualties \cap dropped = {}
    /\ dropped # {} => AllDead

LEMMA DInvInit == Init => DInv
  <1> SUFFICES ASSUME Init PROVE DInv
    OBVIOUS
  <1>1. /\ Len(received) = 0 /\ Range(queue) = {} /\ Range(written) = {}
        /\ casualties = {} /\ dropped = {} /\ Casualties = {}
        /\ cur = [w \in Workers |-> 0] /\ IsInjective(queue) /\ IsInjective(written)
    BY DEF Init, LogInit, Range, IsInjective, Casualties
  <1>2. Everywhere(0, {}, {}, {}, [w \in Workers |-> 0])
    BY DEF Everywhere
  <1>3. Once(0, {}, {}, {}, [w \in Workers |-> 0])
    BY DEF Once
  <1> QED  BY <1>1, <1>2, <1>3 DEF DInv, Partition

LEMMA DInvRead ==
    ASSUME ServerInv, DInv, NEW c \in Clients, NEW k \in Keys, Read(c, k)
    PROVE  DInv'
  <1> DEFINE n == Len(received)
  <1>1. n \in Nat /\ n + 1 \in Nat /\ queue \in Seq(Nat)
    BY LenProperties DEF ServerInv, PoolInv
  <1>2. /\ Len(received') = n + 1 /\ queue' = Append(queue, n + 1)
        /\ UNCHANGED <<written, casualties, dropped, cur, pc>> /\ ~AllDead
    <2>1. received \in Seq([client : Clients, key : Keys])
      BY DEF ServerInv, PoolInv
    <2>2. Len(Append(received, [client |-> c, key |-> k])) = n + 1
      BY <2>1, AppendProperties
    <2> QED  BY <2>2 DEF Read, logVars
  <1>3. n + 1 \notin Range(queue)
    BY <1>1 DEF DInv, Partition, Once
  <1>4. Range(queue') = Range(queue) \cup {n + 1} /\ IsInjective(queue')
    BY <1>1, <1>2, <1>3, RangeAppend DEF DInv
  <1> HIDE DEF n
  <1>5. Partition(n + 1, Range(queue) \cup {n + 1}, Range(written), Casualties, cur)
    BY PartitionRead DEF DInv, n
  <1>6. Casualties' = Casualties /\ AllDead' = AllDead
    BY <1>2 DEF Casualties, AllDead
  <1> QED  BY <1>2, <1>4, <1>5, <1>6 DEF DInv

LEMMA DInvReaderStops ==
    ASSUME ServerInv, DInv, NEW c \in Clients, NEW k \in Keys, ReaderStops(c, k)
    PROVE  DInv'
  <1> DEFINE n == Len(received)
  <1>1. n \in Nat
    BY LenProperties DEF ServerInv, PoolInv
  <1>2. /\ Len(received') = n + 1 /\ dropped' = dropped \cup {n + 1}
        /\ UNCHANGED <<written, casualties, queue, cur, pc>> /\ AllDead
    <2>1. received \in Seq([client : Clients, key : Keys])
      BY DEF ServerInv, PoolInv
    <2>2. Len(Append(received, [client |-> c, key |-> k])) = n + 1
      BY <2>1, AppendProperties
    <2> QED  BY <2>2 DEF ReaderStops, logVars
  <1>3. casualties \cap dropped' = {}
    BY <1>1, <1>2 DEF DInv, Partition, Once, Casualties
  <1> HIDE DEF n
  <1>4. Partition(n + 1, Range(queue), Range(written), Casualties \cup {n + 1}, cur)
    BY PartitionReadLost DEF DInv, n
  <1>5. Casualties' = Casualties \cup {n + 1} /\ AllDead'
    BY <1>2 DEF Casualties, AllDead
  <1> QED  BY <1>2, <1>3, <1>4, <1>5 DEF DInv

\* While a worker steps the channel lives, and nothing was dropped with it.
LEMMA NothingDropped ==
    ASSUME DInv, NEW w \in Workers, pc[w] # "dead"
    PROVE  dropped = {} /\ Casualties = casualties
  BY DEF DInv, AllDead, Casualties

LEMMA DInvReceive ==
    ASSUME ServerInv, DInv, NEW w \in Workers, Receive(w)
    PROVE  DInv'
  <1>1. /\ cur' = [cur EXCEPT ![w] = Head(queue)] /\ queue' = Tail(queue)
        /\ UNCHANGED <<written, casualties, dropped, received>>
        /\ queue # <<>> /\ pc[w] # "dead"
    BY DEF Receive, logVars
  <1>2. queue \in Seq(Nat) /\ cur[w] = 0
    BY DEF ServerInv, PoolInv, Held, Receive, Busy
  <1>3. /\ Range(Tail(queue)) = Range(queue) \ {Head(queue)}
        /\ Head(queue) \in Range(queue) /\ IsInjective(Tail(queue))
    BY <1>1, <1>2, RangeTail DEF DInv
  <1>4. Partition(Len(received), Range(queue) \ {Head(queue)}, Range(written), Casualties,
                  [cur EXCEPT ![w] = Head(queue)])
    BY <1>2, <1>3, PartitionReceive DEF DInv
  <1>5. dropped' = {} /\ Casualties' = Casualties
    BY <1>1, NothingDropped DEF Casualties
  <1> QED  BY <1>1, <1>3, <1>4, <1>5 DEF DInv

LEMMA DInvReply ==
    ASSUME ServerInv, DInv, NEW w \in Workers, Reply(w)
    PROVE  DInv'
  <1>1. /\ cur' = [cur EXCEPT ![w] = 0] /\ written' = Append(written, cur[w])
        /\ UNCHANGED <<queue, casualties, dropped, received>> /\ pc[w] # "dead"
    BY DEF Reply, write
  <1>2. cur[w] \in Nat /\ cur[w] # 0 /\ written \in Seq(Nat)
    <2>1. pc[w] \in Busy
      BY DEF Reply, Busy
    <2> QED  BY <2>1, HeldDatagram DEF ServerInv, LogInv, LogTypeOK
  <1>3. /\ Partition(Len(received), Range(queue), Range(written) \cup {cur[w]}, Casualties,
                     [cur EXCEPT ![w] = 0])
        /\ cur[w] \notin Range(written)
    BY <1>2, PartitionDone DEF DInv
  <1>4. Range(written') = Range(written) \cup {cur[w]} /\ IsInjective(written')
    BY <1>1, <1>2, <1>3, RangeAppend DEF DInv
  <1>5. dropped' = {} /\ Casualties' = Casualties
    BY <1>1, NothingDropped DEF Casualties
  <1> QED  BY <1>1, <1>3, <1>4, <1>5 DEF DInv

LEMMA DInvPanic ==
    ASSUME ServerInv, DInv, NEW w \in Workers, Panic(w)
    PROVE  DInv'
  <1>1. /\ cur' = [cur EXCEPT ![w] = 0] /\ casualties' = casualties \cup {cur[w]}
        /\ UNCHANGED <<written, received>> /\ pc[w] # "dead"
        /\ pc' = [pc EXCEPT ![w] = "dead"] /\ pc \in [Workers -> Locations]
    BY DEF Panic, logVars, ServerInv, PoolInv
  <1>2. cur[w] # 0
    <2>1. pc[w] \in Busy
      BY DEF Panic, Busy
    <2> QED  BY <2>1, HeldDatagram DEF ServerInv
  <1>3. dropped = {} /\ Casualties = casualties
    BY <1>1, NothingDropped
  <1>4. Partition(Len(received), Range(queue), Range(written), casualties \cup {cur[w]},
                  [cur EXCEPT ![w] = 0])
    BY <1>2, <1>3, PartitionDone DEF DInv
  <1>5. CASE \A v \in Workers \ {w} : pc[v] = "dead"
    <2>1. queue' = <<>> /\ dropped' = Range(queue)
      BY <1>3, <1>5 DEF Panic
    <2>2. Partition(Len(received), {}, Range(written),
                    (casualties \cup {cur[w]}) \cup Range(queue), [cur EXCEPT ![w] = 0])
      BY <1>4, PartitionDrop
    <2>3. Range(queue') = {} /\ IsInjective(queue')
      BY <2>1 DEF Range, IsInjective
    <2>4. casualties' \cap dropped' = {}
      BY <1>1, <1>4, <2>1 DEF Partition, Once
    <2>5. AllDead'
      BY <1>1, <1>5 DEF AllDead
    <2>6. Casualties' = (casualties \cup {cur[w]}) \cup Range(queue)
      BY <1>1, <2>1 DEF Casualties
    <2> QED  BY <1>1, <2>2, <2>3, <2>4, <2>5, <2>6 DEF DInv
  <1>6. CASE ~(\A v \in Workers \ {w} : pc[v] = "dead")
    <2>1. queue' = queue /\ dropped' = {}
      BY <1>3, <1>6 DEF Panic
    <2>2. Casualties' = casualties \cup {cur[w]}
      BY <1>1, <2>1 DEF Casualties
    <2> QED  BY <1>1, <1>4, <2>1, <2>2 DEF DInv
  <1> QED  BY <1>5, <1>6

LEMMA DInvNext == ServerInv /\ DInv /\ [Next]_vars => DInv'
  <1> SUFFICES ASSUME ServerInv, DInv, [Next]_vars PROVE DInv'
    OBVIOUS
  <1> DEFINE places == <<received, queue, written, casualties, dropped, cur>>
  <1>1. CASE UNCHANGED places /\ (UNCHANGED pc \/ dropped = {})
    <2>1. Casualties' = Casualties
      BY <1>1 DEF Casualties
    <2>2. dropped' # {} => AllDead'
      BY <1>1 DEF DInv, AllDead
    <2> QED  BY <1>1, <2>1, <2>2 DEF DInv
  <1>2. ASSUME NEW w \in Workers, Lock(w) \/ Reject(w) \/ Admit(w) \/ Resolve(w)
        PROVE  UNCHANGED places /\ dropped = {}
    <2>1. UNCHANGED places /\ pc[w] # "dead"
      BY <1>2 DEF Lock, Reject, Admit, Resolve, logVars
    <2> QED  BY <2>1, NothingDropped
  <1>3. CASE Flusher \/ Tick \/ UNCHANGED vars
    <2>1. UNCHANGED places /\ UNCHANGED pc
      BY <1>3 DEF Flusher, Collect, FlushOnTimeout, Tick, vars, logVars, poolVars
    <2> QED  BY <1>1, <2>1
  <1>4. ASSUME NEW w \in Workers, WorkerStep(w) PROVE DInv'
    BY <1>1, <1>2, <1>4, DInvReceive, DInvReply DEF WorkerStep
  <1> QED  BY <1>3, <1>4, DInvRead, DInvReaderStops, DInvPanic DEF Next

\* However many workers there are and wherever they panic, each datagram that was read is
\* in one place, its row is written once, and none is lost with the channel while a worker
\* lives (serve_udp, Pipeline::handle).
THEOREM DatagramsInOnePlace == Spec => []DatagramsAccounted
  <1>1. DInv => DatagramsAccounted
    <2> SUFFICES ASSUME DInv PROVE DatagramsAccounted
      OBVIOUS
    <2>1. /\ Everywhere(Len(received), Range(queue), Range(written), Casualties, cur)
          /\ Once(Len(received), Range(queue), Range(written), Casualties, cur)
          /\ Len(received) \in Nat
      BY DEF DInv, Partition
    <2>0. \A d : Lost(d) <=> d \in Casualties
      BY DEF Lost, Casualties
    <2>2. \A d \in Datagrams :
            Waiting(d) \/ (\E w \in Workers : HeldBy(d, w)) \/ Logged(d) \/ Lost(d)
      BY <2>0, <2>1 DEF Everywhere, Datagrams, Waiting, HeldBy, Logged
    <2>3. \A d \in Datagrams :
            /\ Waiting(d) => ~Logged(d) /\ ~Lost(d) /\ \A w \in Workers : ~HeldBy(d, w)
            /\ Logged(d) => ~Lost(d) /\ \A w \in Workers : ~HeldBy(d, w)
            /\ \A v, w \in Workers : HeldBy(d, v) /\ HeldBy(d, w) => v = w
      BY <2>0, <2>1 DEF Once, Datagrams, Waiting, HeldBy, Logged
    <2>4. \A i, j \in DOMAIN written : written[i] = written[j] => i = j
      BY DEF DInv, IsInjective
    <2> QED  BY <2>2, <2>3, <2>4 DEF DatagramsAccounted, DInv
  <1> QED  BY <1>1, ServerInvInit, ServerInvNext, DInvInit, DInvNext, PTL DEF Spec
=============================================================================
