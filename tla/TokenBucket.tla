---------------------------- MODULE TokenBucket ----------------------------
(***************************************************************************)
(* What the rate limiter promises: one token bucket per client, for every   *)
(* client there is and for ever.  A bucket holds at most Burst, gains Rate  *)
(* per tick, and a request is granted exactly when the bucket can pay Cost. *)
(***************************************************************************)
EXTENDS Naturals

CONSTANTS Clients, Rate, Cost, Burst

VARIABLES
    level,      \* the content of each client's bucket
    grants,     \* the number of requests granted to each client
    refusals    \* the number of requests refused to each client

Capped(x) == IF x > Burst THEN Burst ELSE x

Init ==
    /\ level = [c \in Clients |-> Burst]
    /\ grants = [c \in Clients |-> 0]
    /\ refusals = [c \in Clients |-> 0]

Grant(c) ==
    /\ level[c] >= Cost
    /\ level' = [level EXCEPT ![c] = @ - Cost]
    /\ grants' = [grants EXCEPT ![c] = @ + 1]
    /\ UNCHANGED refusals

Refuse(c) ==
    /\ level[c] < Cost
    /\ refusals' = [refusals EXCEPT ![c] = @ + 1]
    /\ UNCHANGED <<level, grants>>

Tick ==
    /\ level' = [c \in Clients |-> Capped(level[c] + Rate)]
    /\ UNCHANGED <<grants, refusals>>

Next == Tick \/ \E c \in Clients : Grant(c) \/ Refuse(c)

Spec == Init /\ [][Next]_<<level, grants, refusals>>
=============================================================================
