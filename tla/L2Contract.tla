----------------------------- MODULE L2Contract -----------------------------
(***************************************************************************)
(* What the L2 cache promises its caller (src/cache/l2.rs): between         *)
(* maintenance steps it is an exact map from keys to values with their      *)
(* expiry.  A compaction replaces the map by a part of what it was when the *)
(* compaction took its snapshot; a restart by any answers that were put for *)
(* their keys at some time.  Nothing else ever changes the map.             *)
(***************************************************************************)
CONSTANTS Keys, Vals

VARIABLES
    up,     \* the store is open
    cur,    \* the map get() reads: a partial function to [val, exp]
    snap,   \* the map a running compaction will fall back to
    puts    \* everything put() was ever asked to store

cvars == <<up, cur, snap, puts>>

EmptyMap == [k \in {} |-> 0]

\* g maps some of f's keys, to what f maps them to.
PartOf(g, f) ==
    /\ DOMAIN g \subseteq DOMAIN f
    /\ \A k \in DOMAIN g : g[k] = f[k]

Init == up = FALSE /\ cur = EmptyMap /\ snap = EmptyMap /\ puts = {}

Put(p) ==
    /\ up
    /\ cur' = [k \in DOMAIN cur \cup {p.key} |->
                 IF k = p.key THEN [val |-> p.val, exp |-> p.exp] ELSE cur[k]]
    /\ puts' = puts \cup {p}
    /\ UNCHANGED <<up, snap>>

Delete(k) ==
    /\ up
    /\ cur' = [j \in DOMAIN cur \ {k} |-> cur[j]]
    /\ UNCHANGED <<up, snap, puts>>

Snapshot ==
    /\ up
    /\ PartOf(snap', cur)
    /\ UNCHANGED <<up, cur, puts>>

\* A compaction ends, with or without replacing the map.
Compacted ==
    /\ up
    /\ cur' = cur \/ PartOf(cur', snap)
    /\ snap' = EmptyMap
    /\ UNCHANGED <<up, puts>>

Crash ==
    /\ up' = FALSE /\ cur' = EmptyMap /\ snap' = EmptyMap
    /\ UNCHANGED puts

Recover ==
    /\ ~up /\ up' = TRUE
    /\ \A k \in DOMAIN cur' :
         \E p \in puts : p.key = k /\ cur'[k] = [val |-> p.val, exp |-> p.exp]
    /\ UNCHANGED <<snap, puts>>

Next ==
    \/ \E p \in [key : Keys, val : Vals, exp : {q.exp : q \in puts'}] : Put(p)
    \/ \E k \in Keys : Delete(k)
    \/ Snapshot \/ Compacted \/ Crash \/ Recover

Spec == Init /\ [][Next]_cvars

=============================================================================
