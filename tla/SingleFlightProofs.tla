------------------------- MODULE SingleFlightProofs -------------------------
(***************************************************************************)
(* Proofs about SingleFlight for any number of threads, keys and flights,   *)
(* with panicking leaders included.                                         *)
(***************************************************************************)
EXTENDS SingleFlight, TLAPS

Holds(t) == pc[t] \in HoldsFlight
Leads(t) == pc[t] \in LeaderAt
InMap(k, f) == k \in DOMAIN inflight /\ inflight[k] = f

\* A thread holds a flight exactly where its code has the Arc.
HoldersOK == \A t \in Threads :
    /\ IF Holds(t) THEN fl[t] \in Flights ELSE fl[t] = NoFlight
    /\ pc[t] # "idle" => arg[t] \in Keys

\* A flight belongs to one key, in the map and in every thread.
OneKeyPerFlight ==
    /\ \A j, k \in DOMAIN inflight : inflight[j] = inflight[k] => j = k
    /\ \A t \in Threads : \A k \in DOMAIN inflight :
         (Holds(t) /\ inflight[k] = fl[t]) => k = arg[t]
    /\ \A t, u \in Threads :
         (Holds(t) /\ Holds(u) /\ fl[t] = fl[u]) => arg[t] = arg[u]

\* A flight leaves the map only after it was started, and its leader holds it
\* in the map until it removes it.
LeadersOK ==
    /\ \A t \in Threads : (pc[t] = "claim" /\ ~started[fl[t]]) =>
         InMap(arg[t], fl[t])
    /\ \A t \in Threads : Leads(t) =>
         started[fl[t]] /\ InMap(arg[t], fl[t])
    /\ \A t, u \in Threads : (Leads(t) /\ Leads(u) /\ fl[t] = fl[u]) => t = u

\* The inductive invariant.
FInv == /\ TypeOK /\ HoldersOK /\ OneKeyPerFlight /\ LeadersOK /\ SharedOnlyInFlight
        /\ NoSleepOnResult

-----------------------------------------------------------------------------

LEMMA InitFInv == Init => FInv
BY SingleFlightAssumption
   DEF Init, FInv, TypeOK, HoldersOK, OneKeyPerFlight, LeadersOK, SharedOnlyInFlight,
       NoSleepOnResult, Holds, Leads, InMap, HoldsFlight,
       LeaderAt, Locations

LEMMA CallStep ==
    ASSUME FInv, NEW t \in Threads, NEW k \in Keys, Call(t, k)
    PROVE  FInv'
<1> USE DEF FInv, TypeOK, Holds, Leads, InMap, HoldsFlight, LeaderAt, Call
<1>1. TypeOK' /\ HoldersOK'
  BY DEF HoldersOK, Locations
<1>2. OneKeyPerFlight'
  BY DEF OneKeyPerFlight
<1>3. LeadersOK'
  BY DEF LeadersOK
<1>4. SharedOnlyInFlight' /\ NoSleepOnResult'
  BY DEF SharedOnlyInFlight, NoSleepOnResult
<1> QED
  BY <1>1, <1>2, <1>3, <1>4

\* A caller that finds the key's flight in the map holds a flight of its key.
LEMMA JoinStep ==
    ASSUME FInv, NEW t \in Threads, Lookup(t), Join(t)
    PROVE  FInv'
<1> USE DEF FInv, TypeOK, Holds, Leads, InMap, HoldsFlight, LeaderAt, Lookup,
            Join
<1>1. TypeOK' /\ HoldersOK'
  BY DEF HoldersOK, Locations
<1>2. OneKeyPerFlight'
  BY DEF OneKeyPerFlight, HoldersOK
<1>3. LeadersOK'
  BY DEF LeadersOK
<1>4. SharedOnlyInFlight'
  BY DEF SharedOnlyInFlight
<1>5. NoSleepOnResult'
  BY DEF NoSleepOnResult
<1> QED
  BY <1>1, <1>2, <1>3, <1>4, <1>5

\* A new flight is held by no other thread and mapped to by no other key.
LEMMA CreateStep ==
    ASSUME FInv, NEW t \in Threads, Lookup(t), Create(t)
    PROVE  FInv'
<1>1. PICK f \in Flights :
        /\ Free(f) /\ arg[t] \notin DOMAIN inflight
        /\ inflight' = [k \in DOMAIN inflight \cup {arg[t]} |->
                          IF k = arg[t] THEN f ELSE inflight[k]]
        /\ started' = [started EXCEPT ![f] = FALSE]
        /\ state' = [state EXCEPT ![f] = NoResult]
        /\ fl' = [fl EXCEPT ![t] = f]
  BY DEF Create, Allocated
<1>2. /\ pc[t] = "lookup" /\ pc' = [pc EXCEPT ![t] = "claim"]
      /\ arg' = arg /\ ret' = ret
  BY DEF Lookup
<1> USE <1>1, <1>2 DEF FInv, TypeOK, Holds, Leads, InMap, HoldsFlight,
                        LeaderAt, Free
<1>3. TypeOK' /\ HoldersOK'
  BY DEF HoldersOK, Locations
<1>4. OneKeyPerFlight'
  BY DEF OneKeyPerFlight, HoldersOK
<1>5. LeadersOK'
  BY DEF LeadersOK, HoldersOK
<1>6. SharedOnlyInFlight'
  <2> SUFFICES ASSUME NEW k \in DOMAIN inflight', state'[inflight'[k]] # NoResult
               PROVE  \E u \in Threads : pc'[u] = "remove" /\ arg[u] = k /\ fl'[u] = inflight'[k]
    BY DEF SharedOnlyInFlight
  <2>1. k \in DOMAIN inflight /\ inflight'[k] = inflight[k] /\ state[inflight[k]] # NoResult
    OBVIOUS
  <2>2. PICK u \in Threads : pc[u] = "remove" /\ arg[u] = k /\ fl[u] = inflight[k]
    BY <2>1 DEF SharedOnlyInFlight
  <2>3. u # t /\ pc'[u] = pc[u] /\ fl'[u] = fl[u]
    BY <2>2
  <2> QED
    BY <2>1, <2>2, <2>3
<1>7. NoSleepOnResult'
  BY DEF NoSleepOnResult, HoldersOK
<1> QED
  BY <1>3, <1>4, <1>5, <1>6, <1>7

\* swap(true) makes at most one thread the leader of a flight.
LEMMA ClaimStep ==
    ASSUME FInv, NEW t \in Threads, Claim(t)
    PROVE  FInv'
<1> USE DEF FInv, TypeOK, Holds, Leads, InMap, HoldsFlight, LeaderAt, Claim
<1>1. TypeOK' /\ HoldersOK'
  BY DEF HoldersOK, Locations
<1>2. OneKeyPerFlight'
  BY DEF OneKeyPerFlight
<1>3. LeadersOK'
  BY DEF LeadersOK, HoldersOK
<1>4. SharedOnlyInFlight' /\ NoSleepOnResult'
  BY DEF SharedOnlyInFlight, NoSleepOnResult
<1> QED
  BY <1>1, <1>2, <1>3, <1>4

LEMMA ResolvedStep ==
    ASSUME FInv, NEW t \in Threads, Resolved(t)
    PROVE  FInv'
<1> USE DEF FInv, TypeOK, Holds, Leads, InMap, HoldsFlight, LeaderAt, Resolved
<1>1. arg[t] \in Results
  BY DEF Results, HoldersOK
<1>2. TypeOK' /\ HoldersOK'
  BY <1>1 DEF HoldersOK, Locations
<1>3. OneKeyPerFlight' /\ LeadersOK'
  BY DEF OneKeyPerFlight, LeadersOK
<1>4. SharedOnlyInFlight' /\ NoSleepOnResult'
  BY <1>1 DEF SharedOnlyInFlight, NoSleepOnResult
<1> QED
  BY <1>2, <1>3, <1>4

\* notify_all under the mutex leaves no one asleep on the published flight.
LEMMA PublishStep ==
    ASSUME FInv, NEW t \in Threads, Publish(t)
    PROVE  FInv'
<1> USE DEF FInv, TypeOK, Holds, Leads, InMap, HoldsFlight, LeaderAt, Publish
<1>1. TypeOK' /\ HoldersOK'
  BY DEF HoldersOK, Locations
<1>2. OneKeyPerFlight'
  BY DEF OneKeyPerFlight
<1>3. LeadersOK'
  BY DEF LeadersOK
<1>5. SharedOnlyInFlight'
  <2> SUFFICES ASSUME NEW k \in DOMAIN inflight, state'[inflight[k]] # NoResult
               PROVE  \E u \in Threads : pc'[u] = "remove" /\ arg[u] = k /\ fl[u] = inflight[k]
    BY DEF SharedOnlyInFlight
  <2>1. CASE inflight[k] = fl[t]
    <3>1. k = arg[t] /\ pc'[t] = "remove"
      BY <2>1 DEF OneKeyPerFlight
    <3> QED
      BY <2>1, <3>1
  <2>2. CASE inflight[k] # fl[t]
    <3>1. state[inflight[k]] # NoResult
      BY <2>2
    <3>2. PICK u \in Threads : pc[u] = "remove" /\ arg[u] = k /\ fl[u] = inflight[k]
      BY <3>1 DEF SharedOnlyInFlight
    <3>3. pc'[u] = "remove"
      BY <3>2
    <3> QED
      BY <3>2, <3>3
  <2> QED
    BY <2>1, <2>2
<1>6. NoSleepOnResult'
  BY DEF NoSleepOnResult, HoldersOK
<1> QED
  BY <1>1, <1>2, <1>3, <1>5, <1>6

\* remove(&key) takes out the leader's own flight and no other leader's.
LEMMA RemoveStep ==
    ASSUME FInv, NEW t \in Threads, RemoveEntry(t)
    PROVE  FInv'
<1> USE DEF FInv, TypeOK, Holds, Leads, InMap, HoldsFlight, LeaderAt,
            RemoveEntry, Return
<1>1. TypeOK' /\ HoldersOK'
  BY DEF HoldersOK, Locations
<1>2. OneKeyPerFlight'
  BY DEF OneKeyPerFlight
<1>3. LeadersOK'
  BY DEF LeadersOK, OneKeyPerFlight
<1>4. SharedOnlyInFlight' /\ NoSleepOnResult'
  BY DEF SharedOnlyInFlight, NoSleepOnResult
<1> QED
  BY <1>1, <1>2, <1>3, <1>4

\* Steps that leave the map and the flights alone: a thread drops its flight and
\* returns, or a follower goes to sleep or wakes up.
LEMMA LocalStep ==
    ASSUME FInv, NEW t \in Threads,
           Panic(t) \/ CheckState(t) \/ SpuriousWakeup(t)
    PROVE  FInv'
<1> USE DEF FInv, TypeOK, Holds, Leads, InMap, HoldsFlight, LeaderAt, Return
<1>1. CASE Panic(t)
  BY <1>1 DEF Panic, HoldersOK, OneKeyPerFlight, LeadersOK, SharedOnlyInFlight,
              NoSleepOnResult, Locations
<1>2. CASE CheckState(t) /\ state[fl[t]] = NoResult
  BY <1>2 DEF CheckState, HoldersOK, OneKeyPerFlight, LeadersOK, SharedOnlyInFlight,
              NoSleepOnResult, Locations
<1>3. CASE CheckState(t) /\ state[fl[t]] # NoResult
  BY <1>3 DEF CheckState, HoldersOK, OneKeyPerFlight, LeadersOK, SharedOnlyInFlight,
              NoSleepOnResult, Locations
<1>4. CASE SpuriousWakeup(t)
  BY <1>4 DEF SpuriousWakeup, HoldersOK, OneKeyPerFlight, LeadersOK, SharedOnlyInFlight,
              NoSleepOnResult, Locations
<1> QED
  BY <1>1, <1>2, <1>3, <1>4

\* Every step keeps the inductive invariant.
LEMMA NextFInv == FInv /\ [Next]_vars => FInv'
<1> SUFFICES ASSUME FInv, [Next]_vars PROVE FInv'
  OBVIOUS
<1>1. CASE UNCHANGED vars
  BY <1>1 DEF vars, FInv, TypeOK, HoldersOK, OneKeyPerFlight, LeadersOK,
              SharedOnlyInFlight, NoSleepOnResult, Holds, Leads, InMap
<1>2. CASE Next
  <2>1. PICK t \in Threads :
          \/ \E k \in Keys : Call(t, k)
          \/ Step(t) \/ Panic(t) \/ SpuriousWakeup(t)
    BY <1>2 DEF Next
  <2>2. CASE Lookup(t)
    BY <2>2, JoinStep, CreateStep DEF Lookup
  <2> QED
    BY <2>1, <2>2, CallStep, ClaimStep, ResolvedStep, PublishStep, RemoveStep,
       LocalStep DEF Step
<1> QED
  BY <1>1, <1>2

\* Unless leaders panic, every flight in the map keeps a thread that will
\* finish it.
LEMMA LeaderStep ==
    ASSUME FInv, FlightHasLeader, [Next]_vars
    PROVE  FlightHasLeader'
<1> SUFFICES ASSUME CanPanic = FALSE PROVE FlightHasLeader'
  BY SingleFlightAssumption DEF FlightHasLeader
<1> DEFINE Serves(t, k) ==
             /\ arg[t] = k /\ fl[t] = inflight[k]
             /\ IF started[fl[t]] THEN pc[t] \in LeaderAt ELSE pc[t] = "claim"
<1> USE DEF FInv, TypeOK, HoldsFlight, LeaderAt, Return, Served
<1>1. CASE UNCHANGED vars
  BY <1>1 DEF vars, FlightHasLeader
<1>2. ASSUME NEW t \in Threads, NEW k \in Keys, Call(t, k)
      PROVE  FlightHasLeader'
  BY <1>2 DEF Call, FlightHasLeader
<1>3. ASSUME NEW t \in Threads, Lookup(t), Join(t)
      PROVE  FlightHasLeader'
  BY <1>3 DEF Lookup, Join, FlightHasLeader
<1>4. ASSUME NEW t \in Threads, Lookup(t), Create(t)
      PROVE  FlightHasLeader'
  <2>1. PICK f \in Flights :
          /\ Free(f) /\ arg[t] \notin DOMAIN inflight
          /\ inflight' = [k \in DOMAIN inflight \cup {arg[t]} |->
                            IF k = arg[t] THEN f ELSE inflight[k]]
          /\ started' = [started EXCEPT ![f] = FALSE]
          /\ fl' = [fl EXCEPT ![t] = f]
    BY <1>4 DEF Create, Allocated
  <2>2. pc[t] = "lookup" /\ pc' = [pc EXCEPT ![t] = "claim"] /\ arg' = arg
    BY <1>4 DEF Lookup
  <2> SUFFICES ASSUME NEW k \in DOMAIN inflight'
               PROVE  \E u \in Threads : Serves(u, k)'
    BY DEF FlightHasLeader
  <2>3. CASE k = arg[t]
    <3>1. Serves(t, k)'
      BY <2>1, <2>2, <2>3
    <3> QED
      BY <3>1
  <2>4. CASE k # arg[t]
    <3>1. k \in DOMAIN inflight
      BY <2>1, <2>4
    <3>2. PICK u \in Threads : Serves(u, k)
      BY <3>1 DEF FlightHasLeader
    <3>3. Serves(u, k)'
      BY <2>1, <2>2, <2>4, <3>1, <3>2 DEF Free
    <3> QED
      BY <3>3
  <2> QED
    BY <2>3, <2>4
<1>5. ASSUME NEW t \in Threads, Claim(t)
      PROVE  FlightHasLeader'
  <2> SUFFICES ASSUME NEW k \in DOMAIN inflight
               PROVE  \E u \in Threads : Serves(u, k)'
    BY <1>5 DEF FlightHasLeader, Claim
  <2>1. PICK u \in Threads : Serves(u, k)
    BY DEF FlightHasLeader
  <2>2. CASE fl[t] # fl[u]
    BY <1>5, <2>1, <2>2 DEF Claim
  <2>3. CASE fl[t] = fl[u] /\ started[fl[t]]
    BY <1>5, <2>1, <2>3 DEF Claim
  <2>4. CASE fl[t] = fl[u] /\ ~started[fl[t]]
    <3>1. arg[t] = k
      BY <1>5, <2>1, <2>4 DEF OneKeyPerFlight, Holds, Claim
    <3>2. Serves(t, k)'
      BY <1>5, <2>1, <2>4, <3>1 DEF Claim, HoldersOK, Holds
    <3> QED
      BY <3>2
  <2> QED
    BY <2>2, <2>3, <2>4
<1>6. ASSUME NEW t \in Threads, Resolved(t)
      PROVE  FlightHasLeader'
  BY <1>6 DEF Resolved, FlightHasLeader
<1>7. ASSUME NEW t \in Threads, Publish(t)
      PROVE  FlightHasLeader'
  BY <1>7 DEF Publish, FlightHasLeader
<1>8. ASSUME NEW t \in Threads, RemoveEntry(t)
      PROVE  FlightHasLeader'
  <2> SUFFICES ASSUME NEW k \in DOMAIN inflight, k # arg[t]
               PROVE  \E u \in Threads : Serves(u, k)'
    BY <1>8 DEF FlightHasLeader, RemoveEntry
  <2>1. PICK u \in Threads : Serves(u, k)
    BY DEF FlightHasLeader
  <2> QED
    BY <1>8, <2>1 DEF RemoveEntry
<1>9. ASSUME NEW t \in Threads, CheckState(t) \/ SpuriousWakeup(t)
      PROVE  FlightHasLeader'
  BY <1>9 DEF CheckState, SpuriousWakeup, FlightHasLeader
<1> QED
  BY <1>1, <1>2, <1>3, <1>4, <1>5, <1>6, <1>7, <1>8, <1>9
     DEF Next, Step, Lookup, Panic

-----------------------------------------------------------------------------
\* The theorems

\* The variables of the singleflight map and its threads keep their types.
THEOREM TypeCorrect == Spec => []TypeOK
<1>1. FInv => TypeOK
  BY DEF FInv
<1> QED
  BY <1>1, InitFInv, NextFInv, PTL DEF Spec

\* At no time do two threads run do_resolve for the same key.
THEOREM Deduplication == Spec => []OneResolutionPerKey
<1>1. FInv => OneResolutionPerKey
  BY DEF FInv, LeadersOK, OneResolutionPerKey, Leads, LeaderAt, InMap
<1> QED
  BY <1>1, InitFInv, NextFInv, PTL DEF Spec

\* A leader's remove(&key) takes out its own flight.
THEOREM RemovalIsOwn == Spec => []RemovesOwnFlight
<1>1. FInv => RemovesOwnFlight
  BY DEF FInv, LeadersOK, RemovesOwnFlight, Leads, LeaderAt, InMap
<1> QED
  BY <1>1, InitFInv, NextFInv, PTL DEF Spec

\* No follower sleeps on a flight whose result is published: the state is checked
\* and waited for under one lock.
THEOREM NoLostWakeup == Spec => []NoSleepOnResult
<1>1. FInv => NoSleepOnResult
  BY DEF FInv
<1> QED
  BY <1>1, InitFInv, NextFInv, PTL DEF Spec

\* A finished flight is in the map only until its leader, which is about to remove it,
\* has done so: no later caller is given its result.
THEOREM SharedWhileInFlight == Spec => []SharedOnlyInFlight
<1>1. FInv => SharedOnlyInFlight
  BY DEF FInv
<1> QED
  BY <1>1, InitFInv, NextFInv, PTL DEF Spec

\* Unless do_resolve panics, a caller that joins a flight is never left to wait
\* for nobody.
THEOREM LeadersStay == Spec => []FlightHasLeader
<1>1. Init => FlightHasLeader
  BY DEF Init, FlightHasLeader
<1> QED
  BY <1>1, InitFInv, NextFInv, LeaderStep, PTL DEF Spec

=============================================================================
