---------------------------- MODULE SingleFlight ----------------------------
(***************************************************************************)
(* In-flight deduplication in Resolver::resolve (src/resolve/recurse.rs):   *)
(* threads that ask for the same name, type and client subnet share one     *)
(* Flight.  The first to set its started flag leads: it runs do_resolve,    *)
(* publishes the result, wakes the others and removes the flight from the   *)
(* map.  The others wait on the flight's condition variable.                *)
(*                                                                          *)
(* One step is one critical section (the map's mutex, the flight's mutex)   *)
(* or one atomic operation.  do_resolve itself is the work of one step that *)
(* ends in an answer or an error.                                           *)
(***************************************************************************)
EXTENDS Naturals, FiniteSets

CONSTANTS
    Threads,    \* server threads: UDP workers, TCP and DoH connections
    Keys,       \* canonical name | type | ECS token
    Flights,    \* allocations of Flight; freed when the last Arc is dropped
    CanPanic,   \* whether do_resolve may panic (a reply its parser indexes
                \*   out of bounds)
    NoResult,   \* state: None
    NoFlight,   \* a thread that holds no flight
    NoKey       \* a thread that is not in resolve()

ASSUME SingleFlightAssumption ==
    /\ CanPanic \in BOOLEAN
    /\ NoFlight \notin Flights
    /\ NoKey \notin Keys
    /\ NoResult \notin Keys

\* Resolved: the packed answer for a key, or the error do_resolve returned; all
\* that matters here is which key it was resolved for.
Results == Keys

VARIABLES
    inflight,   \* Resolver.inflight: a partial function from keys to flights
    started,    \* Flight.started
    state,      \* Flight.state
    pc,         \* where each thread is in resolve()
    arg,        \* the key each thread was called with
    fl,         \* the flight each thread holds an Arc of
    ret         \* the leader's result between do_resolve and its return

vars == <<inflight, started, state, pc, arg, fl, ret>>

Locations == {"idle", "lookup", "claim", "leading", "publish", "remove",
              "check", "waiting"}

LeaderAt == {"leading", "publish", "remove"}
HoldsFlight == {"claim", "check", "waiting"} \cup LeaderAt

Init ==
    /\ inflight = [k \in {} |-> NoFlight]
    /\ started = [f \in Flights |-> FALSE]
    /\ state = [f \in Flights |-> NoResult]
    /\ pc = [t \in Threads |-> "idle"]
    /\ arg = [t \in Threads |-> NoKey]
    /\ fl = [t \in Threads |-> NoFlight]
    /\ ret = [t \in Threads |-> NoResult]

\* Thread t leaves resolve() and drops its locals.
Return(t) ==
    /\ pc' = [pc EXCEPT ![t] = "idle"]
    /\ arg' = [arg EXCEPT ![t] = NoKey]
    /\ fl' = [fl EXCEPT ![t] = NoFlight]
    /\ ret' = [ret EXCEPT ![t] = NoResult]

\* The pipeline missed the cache and calls resolve().
Call(t, k) ==
    /\ pc[t] = "idle"
    /\ pc' = [pc EXCEPT ![t] = "lookup"]
    /\ arg' = [arg EXCEPT ![t] = k]
    /\ UNCHANGED <<inflight, started, state, fl, ret>>

\* No Arc of f is left: neither the map nor a thread holds it.
Free(f) ==
    /\ \A k \in DOMAIN inflight : inflight[k] # f
    /\ \A t \in Threads : fl[t] # f

\* The allocation a new flight gets; which one it is does not matter.
Allocated == {f \in Flights : Free(f) /\ f = CHOOSE g \in Flights : Free(g)}

\* Under the map's mutex: join the key's flight or insert a new one.
Join(t) ==
    /\ arg[t] \in DOMAIN inflight
    /\ fl' = [fl EXCEPT ![t] = inflight[arg[t]]]
    /\ UNCHANGED <<inflight, started, state>>

Create(t) ==
    /\ arg[t] \notin DOMAIN inflight
    /\ \E f \in Allocated :
        /\ inflight' = [k \in DOMAIN inflight \cup {arg[t]} |->
                          IF k = arg[t] THEN f ELSE inflight[k]]
        /\ started' = [started EXCEPT ![f] = FALSE]
        /\ state' = [state EXCEPT ![f] = NoResult]
        /\ fl' = [fl EXCEPT ![t] = f]

Lookup(t) ==
    /\ pc[t] = "lookup"
    /\ Join(t) \/ Create(t)
    /\ pc' = [pc EXCEPT ![t] = "claim"]
    /\ UNCHANGED <<arg, ret>>

\* Mutant: load, then store: two threads can both see started unset.
ClaimRacy(t) ==
    /\ pc[t] = "claim"
    /\ started' = [started EXCEPT ![fl[t]] = TRUE]
    /\ pc' = [pc EXCEPT ![t] = IF started[fl[t]] /\ state[fl[t]] # NoResult
                               THEN "check" ELSE "leading"]
    /\ UNCHANGED <<inflight, state, arg, fl, ret>>

\* started.swap(true): the thread that finds it unset leads.
Claim(t) ==
    /\ pc[t] = "claim"
    /\ started' = [started EXCEPT ![fl[t]] = TRUE]
    /\ pc' = [pc EXCEPT ![t] = IF started[fl[t]] THEN "check" ELSE "leading"]
    /\ UNCHANGED <<inflight, state, arg, fl, ret>>

\* do_resolve and encode return, with an answer or an error.
Resolved(t) ==
    /\ pc[t] = "leading"
    /\ ret' = [ret EXCEPT ![t] = arg[t]]
    /\ pc' = [pc EXCEPT ![t] = "publish"]
    /\ UNCHANGED <<inflight, started, state, arg, fl>>

\* do_resolve panics: the thread unwinds out of resolve() and is gone.  A later
\* query is served by another thread, which takes its name here.  No lock is held, so no
\* mutex is poisoned, and nothing publishes or removes the flight.
Panic(t) ==
    /\ CanPanic
    /\ pc[t] = "leading"
    /\ Return(t)
    /\ UNCHANGED <<inflight, started, state>>

\* Mutant: notify_one wakes a single waiter.
PublishWakesOne(t) ==
    /\ pc[t] = "publish"
    /\ state' = [state EXCEPT ![fl[t]] = ret[t]]
    /\ \E w \in {u \in Threads : pc[u] = "waiting" /\ fl[u] = fl[t]} \cup {t} :
         pc' = [pc EXCEPT ![w] = "check", ![t] = "remove"]
    /\ UNCHANGED <<inflight, started, arg, fl, ret>>

\* Under the flight's mutex: set the state and notify_all.
Publish(t) ==
    /\ pc[t] = "publish"
    /\ state' = [state EXCEPT ![fl[t]] = ret[t]]
    /\ pc' = [u \in Threads |->
                IF u = t THEN "remove"
                ELSE IF pc[u] = "waiting" /\ fl[u] = fl[t] THEN "check"
                ELSE pc[u]]
    /\ UNCHANGED <<inflight, started, arg, fl, ret>>

\* Mutant: the whole map is cleared.
RemoveAll(t) ==
    /\ pc[t] = "remove"
    /\ inflight' = [k \in {} |-> NoFlight]
    /\ Return(t)
    /\ UNCHANGED <<started, state>>

\* Mutant: the entry is emptied but stays in the map.
RemoveLeavesEntry(t) ==
    /\ pc[t] = "remove"
    /\ inflight' = [inflight EXCEPT ![arg[t]] = NoFlight]
    /\ Return(t)
    /\ UNCHANGED <<started, state>>

\* Mutant: the leader returns and leaves its finished flight in the map.
RemoveForgotten(t) ==
    /\ pc[t] = "remove"
    /\ Return(t)
    /\ UNCHANGED <<inflight, started, state>>

\* Remove the key's entry, whichever flight it maps to, and return.
RemoveEntry(t) ==
    /\ pc[t] = "remove"
    /\ inflight' = [k \in DOMAIN inflight \ {arg[t]} |-> inflight[k]]
    /\ Return(t)
    /\ UNCHANGED <<started, state>>

\* A follower holds the flight's mutex: it waits, releasing the mutex in the
\* same step, or takes the result and returns.
CheckState(t) ==
    /\ pc[t] = "check"
    /\ IF state[fl[t]] = NoResult
       THEN /\ pc' = [pc EXCEPT ![t] = "waiting"]
            /\ UNCHANGED <<arg, fl, ret>>
       ELSE Return(t)
    /\ UNCHANGED <<inflight, started, state>>

\* A condition variable may wake a waiter for no reason.
SpuriousWakeup(t) ==
    /\ pc[t] = "waiting"
    /\ pc' = [pc EXCEPT ![t] = "check"]
    /\ UNCHANGED <<inflight, started, state, arg, fl, ret>>

\* A step the thread takes by itself once it is in resolve().
Step(t) ==
    \/ Lookup(t) \/ Claim(t) \/ Resolved(t) \/ Publish(t) \/ RemoveEntry(t)
    \/ CheckState(t)

Next ==
    \E t \in Threads :
        \/ \E k \in Keys : Call(t, k)
        \/ Step(t) \/ Panic(t) \/ SpuriousWakeup(t)

Spec == Init /\ [][Next]_vars

\* Every thread in resolve() is scheduled, and do_resolve returns: each of its
\* exchanges has a socket timeout and the walk a deadline.  Nothing makes a
\* call happen, nor a spurious wakeup.
FairSpec == Spec /\ \A t \in Threads : WF_vars(Step(t))

-----------------------------------------------------------------------------
\* Properties

\* The type of every variable.
TypeOK ==
    /\ DOMAIN inflight \subseteq Keys
    /\ \A k \in DOMAIN inflight : inflight[k] \in Flights
    /\ started \in [Flights -> BOOLEAN]
    /\ state \in [Flights -> Results \cup {NoResult}]
    /\ pc \in [Threads -> Locations]
    /\ arg \in [Threads -> Keys \cup {NoKey}]
    /\ fl \in [Threads -> Flights \cup {NoFlight}]
    /\ ret \in [Threads -> Results \cup {NoResult}]

\* Deduplication: at no time do two threads resolve the same key upstream.
OneResolutionPerKey ==
    \A t, u \in Threads :
        (pc[t] = "leading" /\ pc[u] = "leading" /\ arg[t] = arg[u]) => t = u

\* remove(&key) is by key, not by flight: it must never take out a flight that
\* another thread has inserted in the meantime.
RemovesOwnFlight ==
    \A t \in Threads : pc[t] = "remove" =>
        arg[t] \in DOMAIN inflight /\ inflight[arg[t]] = fl[t]

\* No lost wakeup: no thread sleeps on a flight whose result is published.
NoSleepOnResult ==
    \A t \in Threads : pc[t] = "waiting" => state[fl[t]] = NoResult

\* The map is no cache: a flight with a result is in it only while the thread that
\* resolved it is on its way to remove it.  A call that begins once that thread has
\* returned is never given the old answer, or the old error, which no TTL bounds.
SharedOnlyInFlight ==
    \A k \in DOMAIN inflight : state[inflight[k]] # NoResult =>
        \E t \in Threads : pc[t] = "remove" /\ arg[t] = k /\ fl[t] = inflight[k]

\* Some thread will claim or finish the flight that key k maps to.
Served(k) ==
    \E t \in Threads :
        /\ arg[t] = k /\ fl[t] = inflight[k]
        /\ IF started[fl[t]] THEN pc[t] \in LeaderAt ELSE pc[t] = "claim"

\* Only a panic leaves a flight in the map that no thread will finish.
FlightHasLeader == ~CanPanic => \A k \in DOMAIN inflight : Served(k)

\* The leader of k's flight has panicked.
Orphaned(k) == k \in DOMAIN inflight /\ ~Served(k)

\* Every call of resolve() returns, unless the leader of its flight panics.
CallsReturnOrOrphaned ==
    \A t \in Threads : pc[t] # "idle" ~> (pc[t] = "idle" \/ Orphaned(arg[t]))
=============================================================================
