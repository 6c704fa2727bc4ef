------------------------------ MODULE QueryLog ------------------------------
(***************************************************************************)
(* The query log (QueryLogWriter, flush_loop, flush_batch in                *)
(* src/store/logs.rs): handlers send rows into an unbounded channel; one    *)
(* thread collects them and inserts a batch when it is full or when nothing *)
(* arrived until the flush interval was over.                               *)
(*                                                                          *)
(* exec_batch inserts row by row without a transaction: a failure leaves    *)
(* the rows before it in the table, and flush_batch drops the rest.         *)
(***************************************************************************)
EXTENDS Naturals, Sequences

CONSTANTS
    BatchSize,  \* log_batch_size
    MaxFails    \* bound on the number of inserts that fail

ASSUME QueryLogAssumption == BatchSize \in Nat \ {0} /\ MaxFails \in Nat

VARIABLES
    logging,    \* tx is Some: MySQL was there when the process started
    chan,       \* rows sent and not yet received
    buf,        \* buf of flush_loop
    flushed,    \* history: [row, stored] for every row flush_batch has taken
    fails,      \* history: number of failed inserts
    written     \* history: the rows handed to write(), in order

logVars == <<logging, chan, buf, flushed, fails, written>>

LogInit ==
    /\ logging \in BOOLEAN
    /\ chan = <<>> /\ buf = <<>>
    /\ flushed = <<>> /\ fails = 0 /\ written = <<>>

\* QueryLogWriter::write: send() on an unbounded channel never blocks; without
\* MySQL at the start there is no channel and the row is dropped.
write(row) ==
    /\ chan' = IF logging THEN Append(chan, row) ELSE chan
    /\ written' = Append(written, row)
    /\ UNCHANGED <<logging, buf, flushed, fails>>

BugOutcome(rows, k) == [i \in 1..Len(rows) |-> [row |-> rows[i], stored |-> i < k]]

\* insert_query_batch: the first k rows get into the table.
Outcome(rows, k) == [i \in 1..Len(rows) |-> [row |-> rows[i], stored |-> i <= k]]

BugFlushBatch(rows) ==
    \E k \in 0..Len(rows) :
        /\ k < Len(rows) => fails < MaxFails
        /\ fails' = IF k < Len(rows) THEN fails + 1 ELSE fails
        /\ flushed' = flushed \o Outcome(rows, k)
        /\ buf' = IF k < Len(rows) THEN rows ELSE <<>>

\* std::mem::take(buf), then insert; what an error leaves over is dropped.
flush_batch(rows) ==
    \E k \in 0..Len(rows) :
        /\ k < Len(rows) => fails < MaxFails
        /\ fails' = IF k < Len(rows) THEN fails + 1 ELSE fails
        /\ flushed' = flushed \o Outcome(rows, k)
        /\ buf' = <<>>

BugCollect ==
    /\ chan # <<>>
    /\ chan' = Tail(chan)
    /\ IF Len(buf) >= BatchSize
       THEN flush_batch(Append(buf, Head(chan)))
       ELSE buf' = Append(buf, Head(chan)) /\ UNCHANGED <<flushed, fails>>
    /\ UNCHANGED <<logging, written>>

\* recv_timeout returned a row.
Collect ==
    /\ chan # <<>>
    /\ chan' = Tail(chan)
    /\ IF Len(buf) + 1 >= BatchSize
       THEN flush_batch(Append(buf, Head(chan)))
       ELSE buf' = Append(buf, Head(chan)) /\ UNCHANGED <<flushed, fails>>
    /\ UNCHANGED <<logging, written>>

BugFlushOnTimeout ==
    /\ chan = <<>> /\ Len(buf) = BatchSize
    /\ flush_batch(buf)
    /\ UNCHANGED <<logging, chan, written>>

\* recv_timeout timed out: nothing was in the channel for as long as was left of
\* the flush interval (1 ms once it is over).
FlushOnTimeout ==
    /\ chan = <<>> /\ buf # <<>>
    /\ flush_batch(buf)
    /\ UNCHANGED <<logging, chan, written>>

LogTypeOK(Rows) ==
    /\ logging \in BOOLEAN
    /\ chan \in Seq(Rows) /\ buf \in Seq(Rows) /\ Len(buf) < BatchSize
    /\ flushed \in Seq([row : Rows, stored : BOOLEAN])
    /\ written \in Seq(Rows)
    /\ fails \in 0..MaxFails

----------------------------------------------------------------------------
FlushedRows == [i \in 1..Len(flushed) |-> flushed[i].row]

\* With MySQL there, every row written is in the channel, in the buffer or in exactly
\* one batch that was inserted or dropped, and rows reach the table in the order in
\* which they were written; without it none is kept (flush_loop and flush_batch,
\* src/store/logs.rs).
RowsAccounted ==
    FlushedRows \o buf \o chan = (IF logging THEN written ELSE <<>>)
=============================================================================
