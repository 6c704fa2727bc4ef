---------------------------- MODULE L2Refinement ----------------------------
(* L2Store implements L2Contract.  The map is what the index describes in   *)
(* the log; the fallback map is what the live offsets describe.             *)
EXTENDS L2Store

\* The value and expiry of the record at byte o of the log.
ContentAt(o) == LET r == CHOOSE x \in data.recs : x.off = o
                IN  [val |-> r.val, exp |-> r.exp]

CurrentMap ==
    IF Running THEN [k \in DOMAIN index |-> ContentAt(index[k].off)]
    ELSE EmptyMap

SnapshotMap ==
    IF pc \in {"truncate", "copy", "swap"}
    THEN [k \in {r.key : r \in {x \in data.recs : x.off \in live}} |->
            LET r == CHOOSE x \in data.recs : x.off \in live /\ x.key = k
            IN  [val |-> r.val, exp |-> r.exp]]
    ELSE EmptyMap

Contract == INSTANCE L2Contract
              WITH up <- Running, cur <- CurrentMap, snap <- SnapshotMap

\* The log with its index, its unlocked copy loop, its crashes and replays
\* behaves as the contract says: a compaction falls back to a part of its own
\* snapshot, a restart finds only what was put, and nothing else moves.
RefinesContract == Contract!Spec
=============================================================================
