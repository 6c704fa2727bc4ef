--------------------------- MODULE MCTieredCache ---------------------------
(***************************************************************************)
(* Instances of TieredCache for TLC.  Confusing keys takes two of them and  *)
(* failures but little time; chaining promotions takes time and calls but   *)
(* one key.  MCScope explores both and leaves out their product.            *)
(***************************************************************************)
EXTENDS TieredCache, TLC

MCSymmetry == Permutations(Clients) \cup Permutations(Keys)

KeysInUse == DOMAIN l1 \cup DOMAIN l2 \cup DOMAIN l3
               \cup ({arg[t] : t \in Threads} \ {None})

MCWide == now <= 2 /\ calls <= 3

\* No failure, and no value on its way to the next tier for more than one tick.
MCLong ==
    /\ faults = 0 /\ Cardinality(KeysInUse) <= 1
    /\ delay <= 1
    /\ \A t \in Threads : val[t] # None => now - since[t] <= 1

MCScope == MCWide \/ MCLong
=============================================================================
