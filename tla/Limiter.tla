------------------------------ MODULE Limiter ------------------------------
(***************************************************************************)
(* The rate limiter of the query pipeline (struct Limiter in                *)
(* src/resolve/mod.rs): a map from client address to (tokens, last use)     *)
(* under one lock, so that a call of allow() is one step.                   *)
(*                                                                          *)
(* Time passes in ticks of 1/Second of a second and tokens are counted in   *)
(* the same fractions, which makes elapsed * qps a whole number; the code   *)
(* computes it in f64.  Where the code keeps the Instant of the last use    *)
(* the model keeps the bucket's age.  An age stops growing at Idle: from    *)
(* there on the code can tell no two ages apart.                            *)
(***************************************************************************)
EXTENDS Naturals, FiniteSets

CONSTANTS
    Clients,        \* client addresses
    Qps,            \* rate_limit_qps.max(1)
    Second,         \* ticks per second
    Idle,           \* the 300 s after which a bucket may be dropped, in ticks
    MaxBuckets      \* the 65536 buckets above which idle ones are dropped

\* Dropping a bucket forgets nothing only if it is full again by then.
ASSUME LimiterAssumption ==
    /\ Qps \in Nat \ {0}
    /\ Second \in Nat \ {0}
    /\ Idle \in Nat /\ Idle >= Second
    /\ MaxBuckets \in Nat

VARIABLES
    buckets,    \* Limiter.buckets: a partial function from clients to buckets
    grants,     \* history: how many requests of each client were allowed
    refusals    \* history: and how many were not

limiterVars == <<buckets, grants, refusals>>

\* A full bucket: qps tokens.
Burst == Qps * Second

Refilled(tokens, ticks) ==
    IF tokens + ticks * Qps > Burst THEN Burst ELSE tokens + ticks * Qps

BugCleaned(b) ==
    IF Cardinality(DOMAIN b) > MaxBuckets
    THEN [c \in {x \in DOMAIN b : b[x].age < 1} |-> b[c]]
    ELSE b

\* b.retain(last.elapsed() < 300), done only when the map has grown too large.
Cleaned(b) ==
    IF Cardinality(DOMAIN b) > MaxBuckets
    THEN [c \in {x \in DOMAIN b : b[x].age < Idle} |-> b[c]]
    ELSE b

LimiterInit ==
    /\ buckets = [c \in {} |-> [tokens |-> 0, age |-> 0]]
    /\ grants = [c \in Clients |-> 0]
    /\ refusals = [c \in Clients |-> 0]

\* b.entry(ip).or_insert((qps, now)): a client that is not in the map starts full.
Entry(b, c) == IF c \in DOMAIN b THEN b[c] ELSE [tokens |-> Burst, age |-> 0]

\* The tokens allow() finds for client c.
Tokens(b, c) == Refilled(Entry(b, c).tokens, Entry(b, c).age)

allow(c, granted) ==
    LET b == Cleaned(buckets)
        tokens == Tokens(b, c)
        left == IF granted THEN tokens - Second ELSE tokens
    IN  /\ granted = (tokens >= Second)
        /\ buckets' = [x \in DOMAIN b \cup {c} |->
                         IF x = c THEN [tokens |-> left, age |-> 0] ELSE b[x]]
        /\ IF granted
           THEN grants' = [grants EXCEPT ![c] = @ + 1] /\ UNCHANGED refusals
           ELSE refusals' = [refusals EXCEPT ![c] = @ + 1] /\ UNCHANGED grants

\* Time passes.
LimiterTick ==
    /\ buckets' = [c \in DOMAIN buckets |->
                     [buckets[c] EXCEPT !.age = IF @ < Idle THEN @ + 1 ELSE @]]
    /\ UNCHANGED <<grants, refusals>>

LimiterTypeOK ==
    /\ DOMAIN buckets \subseteq Clients
    /\ \A c \in DOMAIN buckets : buckets[c] \in [tokens : 0..Burst, age : 0..Idle]
    /\ grants \in [Clients -> Nat]
    /\ refusals \in [Clients -> Nat]

----------------------------------------------------------------------------
Ideal == INSTANCE TokenBucket WITH
    Rate <- Qps, Cost <- Second, level <- [c \in Clients |-> Tokens(buckets, c)]

\* The map with its refills on demand and its cleanup is one bucket per client
\* that is never forgotten (Limiter::allow, src/resolve/mod.rs): no client gains
\* tokens by being dropped from the map or by the cleanup another client's
\* request runs, and none is refused what its bucket can pay.
ActsAsTokenBuckets == Ideal!Spec
=============================================================================
