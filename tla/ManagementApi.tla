--------------------------- MODULE ManagementApi ---------------------------
(***************************************************************************)
(* The management API (src/api/mod.rs) with what its handlers change: the   *)
(* MySQL tables (src/store/mod.rs), the hash-chained audit log              *)
(* (src/store/logs.rs) and the policy that queries are answered by          *)
(* (Pipeline::reload in src/resolve/mod.rs).                                *)
(*                                                                          *)
(* Every connection is served by a thread of its own.  A handler records    *)
(* the request in the audit log, changes a table, then reloads: four        *)
(* separate SELECTs and one installation under the policy's write lock.     *)
(* Requests of different threads interleave between any two statements,     *)
(* any statement can fail, and the process can be restarted at any time.    *)
(***************************************************************************)
EXTENDS Naturals, Sequences, FiniteSets

CONSTANTS
    Admins,         \* API connection threads
    Names,          \* domain names
    NoReq,          \* a thread that serves no request
    DbFailures,     \* what can go wrong with a statement, see FailureKinds
    MaxRequests     \* bound on the number of requests

\* "error": a statement, reading or writing, fails and changes nothing;
\* "lost_ack": the server commits an INSERT or DELETE, but the connection breaks
\* before the reply.
FailureKinds == {"error", "lost_ack"}

ASSUME ApiAssumption ==
    /\ DbFailures \subseteq FailureKinds
    /\ MaxRequests \in Nat

Ops == {"reload", "zone.create", "record.create", "block.add", "block.remove"}
Requests == [id : Nat, op : Ops, name : Names]

VARIABLES
    blocked,    \* table blocked_domains
    zones,      \* table zones
    records,    \* table zone_records: the zones that have records
    rows,       \* table audit_logs: [req, prev]; a row's entry_hash is written
                \*   as its position, GENESIS as 0
    prevHash,   \* AuditWriter.prev_hash
    policy,     \* Pipeline.policy: [block, zoned]
    pc,         \* where each thread is in its handler
    req,        \* the request each thread serves
    loaded,     \* the tables each thread's reload_all has read so far
    pooled,     \* Store.pool is Some: MySQL answered when the process started
    issued,     \* number of requests so far
    applied,    \* history: ids of the requests that changed a table
    unlogged,   \* history: ids of the requests whose audit insert failed
    versions,   \* history: the tables after each change, the first ones first
    began,      \* history: the version at which each thread's reload began
    basis,      \* history: the versions between which the policy was loaded
    broken      \* history: the chain's last hash was lost

tables == <<blocked, zones, records>>
auditLog == <<rows, prevHash, unlogged, broken>>
vars == <<tables, auditLog, policy, pc, req, loaded, pooled, issued, applied,
          versions, began, basis>>

Locations == {"idle", "audit", "write", "load_zones", "load_records",
              "load_blocked", "load_bindings", "install"}

Nothing == [zones |-> {}, records |-> {}, blocked |-> {}]

\* BlockList::new and ZoneIndex::new: a record counts if its zone was loaded too.
PolicyOf(l) == [block |-> l.blocked, zoned |-> l.zones \cap l.records]

\* The versions a policy was loaded between: none for the empty one that
\* Pipeline::new starts with and that a reload without MySQL installs.
NoBasis == [from |-> 0, to |-> 0]

TablesNow == [zones |-> zones, records |-> records, blocked |-> blocked]

\* What the policy would be if it were loaded now.
CurrentPolicy == [block |-> blocked, zoned |-> zones \cap records]

EmptyPolicy == [block |-> {}, zoned |-> {}]

Init ==
    /\ blocked = {} /\ zones = {} /\ records = {}
    /\ rows = <<>> /\ prevHash = 0
    /\ policy = EmptyPolicy
    /\ pc = [t \in Admins |-> "idle"]
    /\ req = [t \in Admins |-> NoReq]
    /\ loaded = [t \in Admins |-> Nothing]
    /\ pooled \in BOOLEAN /\ (pooled \/ "error" \in DbFailures)
    /\ issued = 0 /\ applied = {} /\ unlogged = {}
    /\ versions = <<Nothing>> /\ began = [t \in Admins |-> 0]
    /\ basis = IF pooled THEN [from |-> 1, to |-> 1] ELSE NoBasis
    /\ broken = FALSE

Goto(t, l) == pc' = [pc EXCEPT ![t] = l]

\* The response is written, the thread ends with its locals.
Respond(t) ==
    /\ Goto(t, "idle")
    /\ req' = [req EXCEPT ![t] = NoReq]
    /\ loaded' = [loaded EXCEPT ![t] = Nothing]
    /\ began' = [began EXCEPT ![t] = 0]

-----------------------------------------------------------------------------
\* handle, route and the audit record each writing route starts with

\* Mutant: the handler goes on without a record in the audit log.
RequestUnaudited(t, op, n) ==
    /\ pc[t] = "idle" /\ issued < MaxRequests
    /\ issued' = issued + 1
    /\ req' = [req EXCEPT ![t] = [id |-> issued + 1, op |-> op, name |-> n]]
    /\ Goto(t, IF op = "reload" THEN "load_zones" ELSE "write")
    /\ UNCHANGED <<tables, auditLog, policy, loaded, pooled, applied, versions,
                   began, basis>>

\* handle reads the request; route picks the operation.  The routes that only
\* read, and the requests refused with 400 or 404, change nothing.
Request(t, op, n) ==
    /\ pc[t] = "idle" /\ issued < MaxRequests
    /\ issued' = issued + 1
    /\ req' = [req EXCEPT ![t] = [id |-> issued + 1, op |-> op, name |-> n]]
    /\ Goto(t, "audit")
    /\ UNCHANGED <<tables, auditLog, policy, loaded, pooled, applied, versions,
                   began, basis>>

AfterAudit(t) ==
    /\ Goto(t, IF req[t].op = "reload" THEN "load_zones" ELSE "write")
    /\ UNCHANGED <<tables, policy, req, loaded, pooled, issued, applied, versions,
                   began, basis>>

NewRow(t) == [req |-> req[t].id, prev |-> prevHash]

\* Mutant: prev_hash is not advanced.
AuditForgetsHash(t) ==
    /\ pc[t] = "audit" /\ pooled
    /\ rows' = Append(rows, NewRow(t))
    /\ UNCHANGED <<prevHash, unlogged, broken>>
    /\ AfterAudit(t)

\* AuditWriter::record, under the mutex that holds prev_hash.
Audit(t) ==
    /\ pc[t] = "audit" /\ pooled
    /\ rows' = Append(rows, NewRow(t))
    /\ prevHash' = Len(rows) + 1
    /\ UNCHANGED <<unlogged, broken>>
    /\ AfterAudit(t)

\* Without a pool nothing is recorded; the handler goes on all the same.
AuditSkipped(t) ==
    /\ pc[t] = "audit" /\ ~pooled
    /\ UNCHANGED auditLog
    /\ AfterAudit(t)

\* The INSERT fails; the handler goes on all the same.
AuditFails(t) ==
    /\ pc[t] = "audit" /\ pooled /\ "error" \in DbFailures
    /\ unlogged' = unlogged \cup {req[t].id}
    /\ UNCHANGED <<rows, prevHash, broken>>
    /\ AfterAudit(t)

\* The INSERT is committed but reported as failed: prev_hash is not advanced.
AuditAckLost(t) ==
    /\ pc[t] = "audit" /\ pooled /\ "lost_ack" \in DbFailures
    /\ rows' = Append(rows, NewRow(t))
    /\ broken' = TRUE
    /\ UNCHANGED <<prevHash, unlogged>>
    /\ AfterAudit(t)

-----------------------------------------------------------------------------
\* The statements of Store

\* The tables after request r, with their UNIQUE and FOREIGN KEY constraints as
\* preconditions.
Violates(r) ==
    \/ r.op = "zone.create" /\ r.name \in zones
    \/ r.op = "record.create" /\ r.name \notin zones
    \/ r.op = "block.add" /\ r.name \in blocked

Apply(r) ==
    /\ zones' = IF r.op = "zone.create" THEN zones \cup {r.name} ELSE zones
    /\ records' = IF r.op = "record.create" THEN records \cup {r.name}
                  ELSE records
    /\ blocked' = CASE r.op = "block.add" -> blocked \cup {r.name}
                    [] r.op = "block.remove" -> blocked \ {r.name}
                    [] OTHER -> blocked
    /\ applied' = applied \cup {r.id}
    /\ versions' = Append(versions, TablesNow')

\* insert_zone, insert_zone_record, insert_blocked, delete_blocked
Write(t) ==
    /\ pc[t] = "write" /\ pooled
    /\ ~Violates(req[t])
    /\ Apply(req[t])
    /\ Goto(t, "load_zones")
    /\ UNCHANGED <<auditLog, policy, req, loaded, pooled, issued, began, basis>>

\* There is no pool, a constraint is violated or the statement fails: 500, and
\* no reload.
WriteFails(t) ==
    /\ pc[t] = "write"
    /\ ~pooled \/ Violates(req[t]) \/ "error" \in DbFailures
    /\ Respond(t)
    /\ UNCHANGED <<tables, auditLog, policy, pooled, issued, applied, versions,
                   basis>>

\* The change is committed but reported as failed: 500, and no reload.
WriteAckLost(t) ==
    /\ pc[t] = "write" /\ pooled /\ "lost_ack" \in DbFailures
    /\ ~Violates(req[t])
    /\ Apply(req[t])
    /\ Respond(t)
    /\ UNCHANGED <<auditLog, policy, pooled, issued, basis>>

-----------------------------------------------------------------------------
\* reload_all

\* What load_zones and its like return: the rows, or an empty list without a pool.
Rows(table) == IF pooled THEN table ELSE {}

LoadFrame == UNCHANGED <<tables, auditLog, policy, req, pooled, issued, applied,
                         versions, basis>>

LoadZones(t) ==
    /\ pc[t] = "load_zones"
    /\ loaded' = [loaded EXCEPT ![t].zones = Rows(zones)]
    /\ began' = [began EXCEPT ![t] = Len(versions)]
    /\ Goto(t, "load_records")
    /\ LoadFrame

LoadRecords(t) ==
    /\ pc[t] = "load_records"
    /\ loaded' = [loaded EXCEPT ![t].records = Rows(records)]
    /\ Goto(t, "load_blocked")
    /\ UNCHANGED began
    /\ LoadFrame

\* Mutant: the blocklist is taken from the policy in force.
LoadBlockedKept(t) ==
    /\ pc[t] = "load_blocked"
    /\ loaded' = [loaded EXCEPT ![t].blocked = policy.block]
    /\ Goto(t, "load_bindings")
    /\ UNCHANGED began
    /\ LoadFrame

LoadBlocked(t) ==
    /\ pc[t] = "load_blocked"
    /\ loaded' = [loaded EXCEPT ![t].blocked = Rows(blocked)]
    /\ Goto(t, "load_bindings")
    /\ UNCHANGED began
    /\ LoadFrame

\* No route changes the bindings: only that the SELECT can fail matters.
LoadBindings(t) ==
    /\ pc[t] = "load_bindings"
    /\ Goto(t, "install")
    /\ UNCHANGED <<loaded, began>>
    /\ LoadFrame

LoadFails(t) ==
    /\ pc[t] \in {"load_zones", "load_records", "load_blocked", "load_bindings"}
    /\ pooled /\ "error" \in DbFailures
    /\ Respond(t)
    /\ UNCHANGED <<tables, auditLog, policy, pooled, issued, applied, versions,
                   basis>>

\* Pipeline::reload, under the write lock: blocklist and zones together.
Install(t) ==
    /\ pc[t] = "install"
    /\ policy' = PolicyOf(loaded[t])
    /\ basis' = IF pooled THEN [from |-> began[t], to |-> Len(versions)]
                ELSE NoBasis
    /\ Respond(t)
    /\ UNCHANGED <<tables, auditLog, pooled, issued, applied, versions>>

-----------------------------------------------------------------------------
\* The process is restarted (main.rs): Store::connect gets a pool or goes on
\* without; AuditWriter::new reads the last hash, or takes GENESIS if it cannot;
\* the initial load installs the tables, or leaves the policy empty.

\* last_entry_hash: the hash of the newest row, GENESIS if there is none.
LastHash == Len(rows)

StartThreads ==
    /\ pc' = [t \in Admins |-> "idle"]
    /\ req' = [t \in Admins |-> NoReq]
    /\ loaded' = [t \in Admins |-> Nothing]
    /\ began' = [t \in Admins |-> 0]
    /\ UNCHANGED <<tables, rows, unlogged, issued, applied, versions>>

InitialLoad ==
    \/ /\ policy' = CurrentPolicy
       /\ basis' = [from |-> Len(versions), to |-> Len(versions)]
    \/ "error" \in DbFailures /\ policy' = EmptyPolicy /\ basis' = NoBasis

\* Mutant: the hash of the last row but one is read.
RestartOneEarly ==
    /\ StartThreads
    /\ pooled' = TRUE
    /\ prevHash' = Len(rows) - 1 /\ broken' = broken
    /\ InitialLoad

Restart ==
    /\ StartThreads
    /\ pooled' = TRUE
    /\ \/ prevHash' = LastHash /\ broken' = broken
       \/ /\ "error" \in DbFailures
          /\ prevHash' = 0 /\ broken' = (broken \/ rows # <<>>)
    /\ InitialLoad

\* Without MySQL: no hash is read, but none is written either, and the initial
\* load installs empty tables.
RestartWithoutPool ==
    /\ "error" \in DbFailures
    /\ StartThreads
    /\ pooled' = FALSE
    /\ prevHash' = 0 /\ broken' = broken
    /\ policy' = EmptyPolicy /\ basis' = NoBasis

Handler(t) ==
    \/ Audit(t) \/ AuditSkipped(t) \/ AuditFails(t) \/ AuditAckLost(t)
    \/ Write(t) \/ WriteFails(t) \/ WriteAckLost(t)
    \/ LoadZones(t) \/ LoadRecords(t) \/ LoadBlocked(t) \/ LoadBindings(t)
    \/ LoadFails(t) \/ Install(t)

Next ==
    \/ \E t \in Admins :
        \/ \E op \in Ops, n \in Names : Request(t, op, n)
        \/ Handler(t)
    \/ Restart \/ RestartWithoutPool

Spec == Init /\ [][Next]_vars

-----------------------------------------------------------------------------
\* Properties

\* The type of every variable.
TypeOK ==
    /\ blocked \subseteq Names /\ zones \subseteq Names
    /\ records \subseteq Names
    /\ rows \in Seq([req : Nat, prev : Nat])
    /\ prevHash \in Nat
    /\ policy \in [block : SUBSET Names, zoned : SUBSET Names]
    /\ pc \in [Admins -> Locations]
    /\ req \in [Admins -> Requests \cup {NoReq}]
    /\ loaded \in [Admins -> [zones : SUBSET Names, records : SUBSET Names,
                              blocked : SUBSET Names]]
    /\ issued \in Nat /\ applied \subseteq Nat /\ unlogged \subseteq Nat
    /\ versions \in Seq([zones : SUBSET Names, records : SUBSET Names,
                         blocked : SUBSET Names])
    /\ began \in [Admins -> 0..Len(versions)]
    /\ basis \in [from : 0..Len(versions), to : 0..Len(versions)]
    /\ pooled \in BOOLEAN /\ broken \in BOOLEAN

\* The chain: every audit row carries the hash of the row before it.
AuditChainIntact == \A i \in 1..Len(rows) : rows[i].prev = i - 1

\* Handlers that run concurrently, failed inserts and restarts never break the
\* hash chain; only a committed insert that was reported as failed, or a start
\* that could not read the last hash, does.
ChainBreaksOnlyOnLostHash == ~broken => AuditChainIntact

\* No table is changed by a request that has no audit row, unless its audit
\* insert was reported as failed.
EveryChangeLogged ==
    applied \subseteq {rows[i].req : i \in 1..Len(rows)} \cup unlogged

\* However reloads and changes of the tables interleave, the policy in force is
\* made of tables that existed while its own reload ran: the blocklist of one
\* version, and of the zones of one version those with records in the same or a
\* later one, none from before the first SELECT (so a handler's own change is
\* always in what it installs).  If no table changed meanwhile it is exactly the
\* policy of the tables.  A process that loaded nothing, MySQL being away, has
\* the empty policy.
PolicyFromItsReload ==
    IF basis = NoBasis
    THEN policy = EmptyPolicy
    ELSE /\ \E i \in basis.from..basis.to : policy.block = versions[i].blocked
         /\ \E i, j \in basis.from..basis.to :
                /\ i <= j
                /\ policy.zoned = versions[i].zones \cap versions[j].records
         /\ basis.from = Len(versions) => policy = CurrentPolicy

\* Once every handler has returned, the policy is the one in the tables.
QuiescentPolicyCurrent ==
    (\A t \in Admins : pc[t] = "idle") => policy = CurrentPolicy

=============================================================================
