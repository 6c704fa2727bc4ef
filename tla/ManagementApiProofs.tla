------------------------ MODULE ManagementApiProofs ------------------------
(***************************************************************************)
(* Proofs about ManagementApi for any number of API threads, names and      *)
(* requests, with every failure of the database and restarts included.      *)
(***************************************************************************)
EXTENDS ManagementApi, TLAPS

\* The requests that are in the audit log or known to be missing from it.
Logged == {rows[i].req : i \in 1..Len(rows)} \cup unlogged

\* As long as no hash was lost the rows are a chain and, in a process that can
\* write any, prev_hash is the hash of the last one.
ChainOK == ~broken => (AuditChainIntact /\ (pooled => prevHash = Len(rows)))

\* A thread that serves a request holds it; past its audit record, the request
\* is logged unless there is no database to change.
HandlersOK == \A t \in Admins :
    /\ pc[t] # "idle" => req[t] \in Requests
    /\ pooled /\ pc[t] \notin {"idle", "audit"} => req[t].id \in Logged

TableSets == [zones : SUBSET Names, records : SUBSET Names,
              blocked : SUBSET Names]

\* The newest version is what is in the tables.
VersionsOK == Len(versions) >= 1 /\ versions[Len(versions)] = TablesNow

\* What a reload that began at version b has read comes from b or later: the
\* records not from before the zones.
ZonesOf(l, b) == \E i \in b..Len(versions) : l.zones = versions[i].zones
RecordsOf(l, b) == \E i, j \in b..Len(versions) :
    i <= j /\ l.zones = versions[i].zones /\ l.records = versions[j].records
BlockedOf(l, b) == \E i \in b..Len(versions) : l.blocked = versions[i].blocked

Reading == {"load_records", "load_blocked", "load_bindings", "install"}

LoadsOK == \A t \in Admins :
    /\ ~pooled => loaded[t] = Nothing
    /\ pooled /\ pc[t] \in Reading =>
        /\ began[t] >= 1
        /\ ZonesOf(loaded[t], began[t])
        /\ pc[t] # "load_records" => RecordsOf(loaded[t], began[t])
        /\ pc[t] \in {"load_bindings", "install"}
              => BlockedOf(loaded[t], began[t])

\* The policy in force was built from the versions of its basis.
BlockFrom(b) == \E i \in b.from..b.to : policy.block = versions[i].blocked
ZonedFrom(b) == \E i, j \in b.from..b.to :
    i <= j /\ policy.zoned = versions[i].zones \cap versions[j].records

PolicyOK ==
    IF basis = NoBasis THEN policy = EmptyPolicy
    ELSE basis.from >= 1 /\ BlockFrom(basis) /\ ZonedFrom(basis)

\* The inductive invariant.
AInv == /\ TypeOK /\ ChainOK /\ HandlersOK /\ EveryChangeLogged /\ VersionsOK
        /\ LoadsOK /\ PolicyOK

-----------------------------------------------------------------------------

LEMMA InitAInv == Init => AInv
<1> SUFFICES ASSUME Init PROVE AInv
  OBVIOUS
<1> USE DEF Init
<1>1. pooled \in BOOLEAN /\ broken \in BOOLEAN
  BY Zenon
<1>2. rows \in Seq([req : Nat, prev : Nat]) /\ Len(rows) = 0
  OBVIOUS
<1>3. /\ versions \in Seq(TableSets) /\ Len(versions) = 1
      /\ versions[1] = Nothing
  BY DEF TableSets, Nothing
<1>4. basis \in [from : 0..Len(versions), to : 0..Len(versions)]
  BY <1>3 DEF NoBasis
<1>5. TypeOK
  BY <1>1, <1>2, <1>3, <1>4
     DEF TypeOK, EmptyPolicy, Nothing, Locations, TableSets
<1>6. ChainOK
  BY <1>2 DEF ChainOK, AuditChainIntact
<1>7. HandlersOK /\ EveryChangeLogged
  BY DEF HandlersOK, EveryChangeLogged
<1>8. VersionsOK /\ LoadsOK
  BY <1>3 DEF VersionsOK, LoadsOK, TablesNow, Nothing, Reading
<1>9. PolicyOK
  <2>1. CASE pooled
    <3>1. basis.from = 1 /\ basis.to = 1 /\ basis # NoBasis
      BY <2>1 DEF NoBasis
    <3>2. BlockFrom(basis) /\ ZonedFrom(basis)
      BY <3>1, <1>3 DEF BlockFrom, ZonedFrom, EmptyPolicy, Nothing
    <3> QED
      BY <3>1, <3>2 DEF PolicyOK
  <2>2. CASE ~pooled
    BY <2>2 DEF PolicyOK
  <2> QED
    BY <2>1, <2>2
<1> QED
  BY <1>5, <1>6, <1>7, <1>8, <1>9 DEF AInv

\* The log only grows by a row: what was logged stays logged.
LEMMA AppendLogged ==
    ASSUME TypeOK, NEW r \in [req : Nat, prev : Nat], rows' = Append(rows, r),
           unlogged' = unlogged
    PROVE  /\ rows' \in Seq([req : Nat, prev : Nat])
           /\ Len(rows') = Len(rows) + 1
           /\ \A i \in 1..Len(rows) : rows'[i] = rows[i]
           /\ rows'[Len(rows) + 1] = r
           /\ Logged \subseteq Logged'
           /\ r.req \in Logged'
<1>1. rows \in Seq([req : Nat, prev : Nat])
  BY DEF TypeOK
<1>2. /\ rows' \in Seq([req : Nat, prev : Nat])
      /\ Len(rows') = Len(rows) + 1
      /\ \A i \in 1..Len(rows) : rows'[i] = rows[i]
      /\ rows'[Len(rows) + 1] = r
  BY <1>1
<1>3. Len(rows) \in Nat
  BY <1>1
<1>4. Logged \subseteq Logged'
  BY <1>2, <1>3 DEF Logged
<1>5. r.req \in Logged'
  BY <1>2, <1>3 DEF Logged
<1> QED
  BY <1>2, <1>4, <1>5

\* The history of the tables and the policy stay as they are when no table, no
\* load and no policy changes.
LEMMA HistoryFrame ==
    ASSUME AInv, UNCHANGED <<tables, policy, versions, basis>>
    PROVE  VersionsOK' /\ PolicyOK'
BY DEF AInv, VersionsOK, TablesNow, PolicyOK, BlockFrom, ZonedFrom, tables

LEMMA LoadsFrame ==
    ASSUME AInv, UNCHANGED <<loaded, began, versions, pooled>>,
           \A t \in Admins : pc'[t] = pc[t] \/ pc'[t] \notin Reading
    PROVE  LoadsOK'
BY DEF AInv, LoadsOK, ZonesOf, RecordsOf, BlockedOf

LEMMA RequestStep ==
    ASSUME AInv, NEW t \in Admins, NEW op \in Ops, NEW n \in Names,
           Request(t, op, n)
    PROVE  AInv'
<1> USE DEF Request, Goto, auditLog
<1>1. TypeOK'
  BY DEF AInv, TypeOK, Locations, Requests, Ops, tables
<1>2. ChainOK' /\ EveryChangeLogged'
  BY DEF AInv, ChainOK, AuditChainIntact, EveryChangeLogged
<1>3. HandlersOK'
  BY DEF AInv, TypeOK, HandlersOK, Logged, Requests
<1>4. VersionsOK' /\ PolicyOK'
  BY HistoryFrame
<1>5. LoadsOK'
  BY LoadsFrame DEF AInv, TypeOK, Reading
<1> QED
  BY <1>1, <1>2, <1>3, <1>4, <1>5 DEF AInv

\* The parts that the rest of a handler's audit step does not touch.
LEMMA AfterAuditFrame ==
    ASSUME AInv, NEW t \in Admins, pc[t] = "audit", AfterAudit(t),
           Logged \subseteq Logged', pooled => req[t].id \in Logged'
    PROVE  /\ HandlersOK' /\ VersionsOK' /\ LoadsOK' /\ PolicyOK'
           /\ EveryChangeLogged'
           /\ pc' \in [Admins -> Locations]
<1> USE DEF AfterAudit, Goto
<1>1. HandlersOK'
  BY DEF AInv, TypeOK, HandlersOK
<1>2. VersionsOK' /\ PolicyOK'
  BY HistoryFrame
<1>3. LoadsOK'
  BY LoadsFrame DEF AInv, TypeOK, Reading
<1>4. EveryChangeLogged'
  BY DEF AInv, EveryChangeLogged, Logged
<1>5. pc' \in [Admins -> Locations]
  BY DEF AInv, TypeOK, Locations
<1> QED
  BY <1>1, <1>2, <1>3, <1>4, <1>5

LEMMA AuditStep ==
    ASSUME AInv, NEW t \in Admins, Audit(t) \/ AuditAckLost(t)
    PROVE  AInv'
<1>1. pc[t] = "audit" /\ AfterAudit(t) /\ rows' = Append(rows, NewRow(t))
      /\ unlogged' = unlogged /\ pooled
  BY DEF Audit, AuditAckLost
<1>2. NewRow(t) \in [req : Nat, prev : Nat] /\ NewRow(t).req = req[t].id
  BY <1>1 DEF AInv, TypeOK, HandlersOK, NewRow, Requests
<1>3. /\ rows' \in Seq([req : Nat, prev : Nat])
      /\ Len(rows') = Len(rows) + 1
      /\ \A i \in 1..Len(rows) : rows'[i] = rows[i]
      /\ rows'[Len(rows) + 1] = NewRow(t)
      /\ Logged \subseteq Logged'
      /\ req[t].id \in Logged'
  BY <1>1, <1>2, AppendLogged DEF AInv
<1>4. /\ HandlersOK' /\ VersionsOK' /\ LoadsOK' /\ PolicyOK'
      /\ EveryChangeLogged' /\ pc' \in [Admins -> Locations]
  BY <1>1, <1>3, AfterAuditFrame
<1>5. Len(rows) \in Nat
  BY DEF AInv, TypeOK
<1>6. prevHash' \in Nat /\ broken' \in BOOLEAN
  <2>1. prevHash' \in Nat
    BY <1>5 DEF Audit, AuditAckLost, AInv, TypeOK
  <2>2. broken' \in BOOLEAN
    BY Zenon DEF Audit, AuditAckLost, AInv, TypeOK
  <2> QED
    BY <2>1, <2>2
<1>7. TypeOK'
  BY <1>1, <1>3, <1>4, <1>6 DEF AInv, TypeOK, AfterAudit, tables
<1>8. ChainOK'
  <2>1. CASE Audit(t)
    BY <2>1, <1>1, <1>3, <1>5
       DEF Audit, AInv, ChainOK, AuditChainIntact, NewRow
  <2>2. CASE AuditAckLost(t)
    BY <2>2 DEF AuditAckLost, ChainOK
  <2> QED
    BY <2>1, <2>2
<1> QED
  BY <1>4, <1>7, <1>8 DEF AInv

LEMMA AuditFailsStep ==
    ASSUME AInv, NEW t \in Admins, AuditFails(t) \/ AuditSkipped(t)
    PROVE  AInv'
<1>1. req[t].id \in Nat
  BY DEF AInv, HandlersOK, AuditFails, AuditSkipped, Requests
<1>2. Logged \subseteq Logged' /\ (pooled => req[t].id \in Logged')
  BY DEF AuditFails, AuditSkipped, Logged, auditLog
<1>3. /\ HandlersOK' /\ VersionsOK' /\ LoadsOK' /\ PolicyOK'
      /\ EveryChangeLogged' /\ pc' \in [Admins -> Locations]
  BY <1>2, AfterAuditFrame DEF AuditFails, AuditSkipped
<1>4. TypeOK'
  BY <1>1, <1>3 DEF AuditFails, AuditSkipped, AInv, TypeOK, AfterAudit, tables,
                    auditLog
<1>5. ChainOK'
  BY DEF AuditFails, AuditSkipped, AInv, ChainOK, AuditChainIntact, AfterAudit,
         auditLog
<1> QED
  BY <1>3, <1>4, <1>5 DEF AInv

\* A change adds a version; what was read or installed keeps its place.
LEMMA NewVersion ==
    ASSUME AInv, versions' = Append(versions, TablesNow'),
           TablesNow' \in TableSets
    PROVE  /\ versions' \in Seq(TableSets)
           /\ Len(versions') = Len(versions) + 1
           /\ Len(versions) \in Nat
           /\ \A i \in 1..Len(versions) : versions'[i] = versions[i]
           /\ VersionsOK'
<1>1. versions \in Seq(TableSets)
  BY DEF AInv, TypeOK, TableSets
<1>2. /\ versions' \in Seq(TableSets)
      /\ Len(versions') = Len(versions) + 1
      /\ Len(versions) \in Nat
      /\ \A i \in 1..Len(versions) : versions'[i] = versions[i]
      /\ versions'[Len(versions) + 1] = TablesNow'
  BY <1>1
<1>3. VersionsOK'
  BY <1>2 DEF VersionsOK
<1> QED
  BY <1>2, <1>3

\* A change belongs to a logged request.
LEMMA WriteStep ==
    ASSUME AInv, NEW t \in Admins, Write(t) \/ WriteAckLost(t)
    PROVE  AInv'
<1>1. /\ req[t] \in Requests /\ req[t].id \in Logged /\ Apply(req[t])
      /\ pooled /\ UNCHANGED <<auditLog, policy, issued, pooled, basis>>
  BY DEF Write, WriteAckLost, AInv, HandlersOK
<1>2. /\ blocked' \subseteq Names /\ zones' \subseteq Names
      /\ records' \subseteq Names /\ applied' \subseteq Nat
  BY <1>1 DEF Apply, AInv, TypeOK, Requests
<1>3. /\ versions' \in Seq(TableSets)
      /\ Len(versions') = Len(versions) + 1
      /\ Len(versions) \in Nat
      /\ \A i \in 1..Len(versions) : versions'[i] = versions[i]
      /\ VersionsOK'
  <2>1. TablesNow' \in TableSets
    BY <1>2 DEF TablesNow, TableSets
  <2> QED
    BY <1>1, <2>1, NewVersion DEF Apply
<1>4. TypeOK'
  <2>1. /\ pc' \in [Admins -> Locations]
        /\ req' \in [Admins -> Requests \cup {NoReq}]
        /\ loaded' \in [Admins -> TableSets]
        /\ began' \in [Admins -> 0..Len(versions')]
    <3> USE <1>3 DEF AInv, TypeOK, Goto, Nothing, Locations, TableSets
    <3>1. CASE Write(t)
      BY <3>1 DEF Write
    <3>2. CASE WriteAckLost(t)
      BY <3>2 DEF WriteAckLost, Respond
    <3> QED
      BY <3>1, <3>2
  <2>2. basis' \in [from : 0..Len(versions'), to : 0..Len(versions')]
    BY <1>1, <1>3 DEF AInv, TypeOK
  <2> QED
    BY <1>1, <1>2, <1>3, <2>1, <2>2 DEF AInv, TypeOK, auditLog, TableSets
<1>5. ChainOK'
  BY <1>1 DEF AInv, ChainOK, AuditChainIntact, auditLog
<1>6. HandlersOK'
  <2>1. Logged' = Logged
    BY <1>1 DEF Logged, auditLog
  <2>2. CASE Write(t)
    BY <1>1, <2>1, <2>2 DEF AInv, TypeOK, HandlersOK, Write, Goto
  <2>3. CASE WriteAckLost(t)
    BY <1>1, <2>1, <2>3
       DEF AInv, TypeOK, HandlersOK, WriteAckLost, Respond, Goto
  <2> QED
    BY <2>2, <2>3
<1>7. EveryChangeLogged'
  BY <1>1 DEF AInv, EveryChangeLogged, Logged, Apply, auditLog
<1>8. LoadsOK'
  <2> SUFFICES ASSUME NEW u \in Admins, pc'[u] \in Reading
               PROVE  /\ began'[u] >= 1
                      /\ ZonesOf(loaded[u], began[u])'
                      /\ pc'[u] # "load_records"
                            => RecordsOf(loaded[u], began[u])'
                      /\ pc'[u] \in {"load_bindings", "install"}
                            => BlockedOf(loaded[u], began[u])'
    BY <1>1 DEF LoadsOK
  <2>1. u # t /\ pc'[u] = pc[u] /\ loaded'[u] = loaded[u]
        /\ began'[u] = began[u]
    BY DEF Write, WriteAckLost, Respond, Goto, AInv, TypeOK, Reading
  <2>2. began[u] \in Nat
    BY <1>3 DEF AInv, TypeOK
  <2> QED
    BY <1>1, <1>3, <2>1, <2>2
       DEF AInv, LoadsOK, ZonesOf, RecordsOf, BlockedOf
<1>9. PolicyOK'
  <2>1. basis.from \in 0..Len(versions) /\ basis.to \in 0..Len(versions)
    BY DEF AInv, TypeOK
  <2>2. CASE basis = NoBasis
    BY <1>1, <2>2 DEF AInv, PolicyOK
  <2>3. CASE basis # NoBasis
    <3>1. basis.from >= 1 /\ BlockFrom(basis) /\ ZonedFrom(basis)
      BY <2>3 DEF AInv, PolicyOK
    <3>2. \A i \in basis.from..basis.to : versions'[i] = versions[i]
      BY <1>3, <2>1, <3>1
    <3>3. BlockFrom(basis)' /\ ZonedFrom(basis)'
      BY <1>1, <3>1, <3>2 DEF BlockFrom, ZonedFrom
    <3> QED
      BY <1>1, <2>3, <3>1, <3>3 DEF PolicyOK
  <2> QED
    BY <2>2, <2>3
<1> QED
  BY <1>3, <1>4, <1>5, <1>6, <1>7, <1>8, <1>9 DEF AInv

\* A response that follows no change of a table or the policy.
LEMMA RespondStep ==
    ASSUME AInv, NEW t \in Admins, WriteFails(t) \/ LoadFails(t)
    PROVE  AInv'
<1>1. Respond(t)
      /\ UNCHANGED <<tables, auditLog, policy, pooled, issued, applied, versions,
                     basis>>
  BY DEF WriteFails, LoadFails
<1> USE <1>1 DEF Respond, Goto, auditLog
<1>2. TypeOK'
  BY DEF AInv, TypeOK, Nothing, Locations, tables
<1>3. ChainOK' /\ EveryChangeLogged'
  BY DEF AInv, ChainOK, AuditChainIntact, EveryChangeLogged
<1>4. HandlersOK'
  BY DEF AInv, TypeOK, HandlersOK, Logged
<1>5. VersionsOK' /\ PolicyOK'
  BY HistoryFrame
<1>6. LoadsOK'
  BY DEF AInv, TypeOK, LoadsOK, ZonesOf, RecordsOf, BlockedOf, Reading
<1> QED
  BY <1>2, <1>3, <1>4, <1>5, <1>6 DEF AInv

\* A SELECT reads the newest version, or nothing without a pool.
LEMMA LoadStep ==
    ASSUME AInv, NEW t \in Admins,
           \/ LoadZones(t) \/ LoadRecords(t) \/ LoadBlocked(t)
           \/ LoadBindings(t)
    PROVE  AInv'
<1>1. UNCHANGED <<tables, auditLog, policy, req, pooled, issued, applied,
                  versions, basis>>
  BY DEF LoadZones, LoadRecords, LoadBlocked, LoadBindings, LoadFrame
<1> USE DEF Goto, LoadZones, LoadRecords, LoadBlocked, LoadBindings
<1>2. Len(versions) \in Nat /\ Len(versions) >= 1
  BY DEF AInv, TypeOK, VersionsOK
<1>3. TypeOK'
  <2>1. pc' \in [Admins -> Locations]
    BY DEF AInv, TypeOK, Locations
  <2>2. loaded' \in [Admins -> TableSets]
    <3>1. /\ Rows(zones) \subseteq Names /\ Rows(records) \subseteq Names
          /\ Rows(blocked) \subseteq Names
      BY DEF AInv, TypeOK, Rows
    <3>2. loaded \in [Admins -> TableSets]
      BY DEF AInv, TypeOK, TableSets
    <3>3. CASE LoadZones(t)
      BY <3>1, <3>2, <3>3 DEF TableSets
    <3>4. CASE LoadRecords(t)
      BY <3>1, <3>2, <3>4 DEF TableSets
    <3>5. CASE LoadBlocked(t)
      BY <3>1, <3>2, <3>5 DEF TableSets
    <3>6. CASE LoadBindings(t)
      BY <3>2, <3>6
    <3> QED
      BY <3>3, <3>4, <3>5, <3>6
  <2>3. began' \in [Admins -> 0..Len(versions)]
    <3>1. Len(versions) \in 0..Len(versions)
      BY <1>2
    <3>2. began \in [Admins -> 0..Len(versions)]
      BY DEF AInv, TypeOK
    <3>3. began' = began \/ began' = [began EXCEPT ![t] = Len(versions)]
      OBVIOUS
    <3> QED
      BY <3>1, <3>2, <3>3
  <2> QED
    BY <1>1, <2>1, <2>2, <2>3 DEF AInv, TypeOK, tables, auditLog, TableSets
<1>4. ChainOK' /\ EveryChangeLogged'
  BY <1>1 DEF AInv, ChainOK, AuditChainIntact, EveryChangeLogged, auditLog
<1>5. HandlersOK'
  BY <1>1 DEF AInv, TypeOK, HandlersOK, Logged, auditLog
<1>6. VersionsOK' /\ PolicyOK'
  BY <1>1, HistoryFrame
<1>7. LoadsOK'
  <2>1. ASSUME NEW u \in Admins, ~pooled
        PROVE  loaded'[u] = Nothing
    <3>1. loaded[u] = Nothing
      BY <2>1 DEF AInv, LoadsOK
    <3>2. \A x \in TableSets :
              x.zones = {} /\ x.records = {} /\ x.blocked = {} => x = Nothing
      BY DEF TableSets, Nothing
    <3>3. loaded'[u] \in TableSets
      BY <1>3 DEF TypeOK, TableSets
    <3>4. /\ loaded'[u].zones = {} /\ loaded'[u].records = {}
          /\ loaded'[u].blocked = {}
      <4>1. Rows(zones) = {} /\ Rows(records) = {} /\ Rows(blocked) = {}
        BY <2>1 DEF Rows
      <4>2. loaded[u].zones = {} /\ loaded[u].records = {}
            /\ loaded[u].blocked = {}
        BY <3>1 DEF Nothing
      <4>3. loaded \in [Admins -> TableSets]
        BY DEF AInv, TypeOK, TableSets
      <4>4. \/ loaded' = [loaded EXCEPT ![t].zones = {}]
            \/ loaded' = [loaded EXCEPT ![t].records = {}]
            \/ loaded' = [loaded EXCEPT ![t].blocked = {}]
            \/ loaded' = loaded
        BY <4>1
      <4> HIDE DEF LoadZones, LoadRecords, LoadBlocked, LoadBindings
      <4>5. CASE loaded' = [loaded EXCEPT ![t].zones = {}]
        BY <4>2, <4>3, <4>5 DEF TableSets
      <4>6. CASE loaded' = [loaded EXCEPT ![t].records = {}]
        BY <4>2, <4>3, <4>6 DEF TableSets
      <4>7. CASE loaded' = [loaded EXCEPT ![t].blocked = {}]
        BY <4>2, <4>3, <4>7 DEF TableSets
      <4> QED
        BY <4>2, <4>4, <4>5, <4>6, <4>7
    <3> QED
      BY <3>2, <3>3, <3>4
  <2>2. ASSUME NEW u \in Admins, u # t, pooled, pc'[u] \in Reading
        PROVE  /\ began'[u] >= 1
               /\ ZonesOf(loaded[u], began[u])'
               /\ pc'[u] # "load_records" => RecordsOf(loaded[u], began[u])'
               /\ pc'[u] \in {"load_bindings", "install"}
                     => BlockedOf(loaded[u], began[u])'
    <3>1. pc'[u] = pc[u] /\ loaded'[u] = loaded[u] /\ began'[u] = began[u]
      BY <2>2 DEF AInv, TypeOK
    <3>2. /\ began[u] >= 1
          /\ ZonesOf(loaded[u], began[u])
          /\ pc[u] # "load_records" => RecordsOf(loaded[u], began[u])
          /\ pc[u] \in {"load_bindings", "install"}
                => BlockedOf(loaded[u], began[u])
      BY <2>2, <3>1 DEF AInv, LoadsOK
    <3> QED
      BY <1>1, <3>1, <3>2 DEF ZonesOf, RecordsOf, BlockedOf
  <2>3. ASSUME pooled, pc'[t] \in Reading
        PROVE  /\ began'[t] >= 1
               /\ ZonesOf(loaded[t], began[t])'
               /\ pc'[t] # "load_records" => RecordsOf(loaded[t], began[t])'
               /\ pc'[t] \in {"load_bindings", "install"}
                     => BlockedOf(loaded[t], began[t])'
    <3> USE <2>3, <1>1, <1>2 DEF Rows
    <3>1. /\ versions[Len(versions)].zones = zones
          /\ versions[Len(versions)].records = records
          /\ versions[Len(versions)].blocked = blocked
      BY DEF AInv, VersionsOK, TablesNow
    <3>2. CASE LoadZones(t)
      <4>1. began'[t] = Len(versions) /\ loaded'[t].zones = zones
            /\ pc'[t] = "load_records"
        BY <3>2 DEF AInv, TypeOK
      <4> QED
        BY <3>1, <4>1 DEF ZonesOf
    <3>3. CASE LoadRecords(t)
      <4>1. /\ began'[t] = began[t] /\ loaded'[t].zones = loaded[t].zones
            /\ loaded'[t].records = records /\ pc'[t] = "load_blocked"
        BY <3>3 DEF AInv, TypeOK
      <4>2. began[t] >= 1 /\ ZonesOf(loaded[t], began[t])
        BY <3>3 DEF AInv, LoadsOK, Reading
      <4>3. began[t] \in 0..Len(versions)
        BY DEF AInv, TypeOK
      <4>4. ZonesOf(loaded[t], began[t])'
        BY <4>1, <4>2 DEF ZonesOf
      <4>5. RecordsOf(loaded[t], began[t])'
        <5>1. PICK i \in began[t]..Len(versions) :
                       loaded[t].zones = versions[i].zones
          BY <4>2 DEF ZonesOf
        <5>2. Len(versions) \in began[t]..Len(versions) /\ i <= Len(versions)
          BY <5>1, <4>3
        <5> QED
          BY <3>1, <4>1, <5>1, <5>2 DEF RecordsOf
      <4> QED
        BY <4>1, <4>2, <4>4, <4>5
    <3>4. CASE LoadBlocked(t)
      <4>1. /\ began'[t] = began[t] /\ loaded'[t].zones = loaded[t].zones
            /\ loaded'[t].records = loaded[t].records
            /\ loaded'[t].blocked = blocked /\ pc'[t] = "load_bindings"
        BY <3>4 DEF AInv, TypeOK
      <4>2. /\ began[t] >= 1 /\ ZonesOf(loaded[t], began[t])
            /\ RecordsOf(loaded[t], began[t])
        BY <3>4 DEF AInv, LoadsOK, Reading
      <4>3. Len(versions) \in began[t]..Len(versions)
        BY DEF AInv, TypeOK
      <4>4. ZonesOf(loaded[t], began[t])' /\ RecordsOf(loaded[t], began[t])'
        BY <4>1, <4>2 DEF ZonesOf, RecordsOf
      <4>5. BlockedOf(loaded[t], began[t])'
        BY <3>1, <4>1, <4>3 DEF BlockedOf
      <4> QED
        BY <4>1, <4>2, <4>4, <4>5
    <3>5. CASE LoadBindings(t)
      <4>1. began'[t] = began[t] /\ loaded' = loaded /\ pc'[t] = "install"
        BY <3>5 DEF AInv, TypeOK
      <4>2. /\ began[t] >= 1 /\ ZonesOf(loaded[t], began[t])
            /\ RecordsOf(loaded[t], began[t]) /\ BlockedOf(loaded[t], began[t])
        BY <3>5 DEF AInv, LoadsOK, Reading
      <4> QED
        BY <4>1, <4>2 DEF ZonesOf, RecordsOf, BlockedOf
    <3> QED
      BY <3>2, <3>3, <3>4, <3>5
  <2> QED
    BY <1>1, <2>1, <2>2, <2>3 DEF LoadsOK
<1> QED
  BY <1>3, <1>4, <1>5, <1>6, <1>7 DEF AInv

\* What a thread installs was read between its first SELECT and now.
LEMMA InstallStep ==
    ASSUME AInv, NEW t \in Admins, Install(t)
    PROVE  AInv'
<1> USE DEF Install, Respond, Goto, auditLog
<1>1. TypeOK'
  <2>1. Len(versions) \in Nat
    BY DEF AInv, TypeOK
  <2>2. /\ basis' \in [from : 0..Len(versions), to : 0..Len(versions)]
        /\ began' \in [Admins -> 0..Len(versions)]
    BY <2>1 DEF AInv, TypeOK, NoBasis
  <2>3. policy' \in [block : SUBSET Names, zoned : SUBSET Names]
    BY DEF AInv, TypeOK, PolicyOf
  <2> QED
    BY <2>2, <2>3 DEF AInv, TypeOK, Nothing, Locations, tables
<1>2. ChainOK' /\ EveryChangeLogged'
  BY DEF AInv, ChainOK, AuditChainIntact, EveryChangeLogged
<1>3. HandlersOK'
  BY DEF AInv, TypeOK, HandlersOK, Logged
<1>4. VersionsOK'
  BY DEF AInv, VersionsOK, TablesNow, tables
<1>5. LoadsOK'
  BY DEF AInv, TypeOK, LoadsOK, ZonesOf, RecordsOf, BlockedOf, Reading
<1>6. PolicyOK'
  <2>1. CASE pooled
    <3>1. /\ began[t] >= 1 /\ RecordsOf(loaded[t], began[t])
          /\ BlockedOf(loaded[t], began[t])
      BY <2>1 DEF AInv, LoadsOK, Reading
    <3>2. /\ basis'.from = began[t] /\ basis'.to = Len(versions)
          /\ versions' = versions
      BY <2>1
    <3>3. /\ policy'.block = loaded[t].blocked
          /\ policy'.zoned = loaded[t].zones \cap loaded[t].records
      BY DEF PolicyOf
    <3>4. BlockFrom(basis)'
      BY <3>1, <3>2, <3>3 DEF BlockFrom, BlockedOf
    <3>5. ZonedFrom(basis)'
      <4>1. PICK i \in began[t]..Len(versions), j \in began[t]..Len(versions) :
                   /\ i <= j /\ loaded[t].zones = versions[i].zones
                   /\ loaded[t].records = versions[j].records
        BY <3>1 DEF RecordsOf
      <4>2. policy'.zoned = versions'[i].zones \cap versions'[j].records
        BY <3>2, <3>3, <4>1
      <4> QED
        BY <3>2, <4>1, <4>2 DEF ZonedFrom
    <3>6. basis' # NoBasis
      BY <3>1, <3>2 DEF NoBasis
    <3> QED
      BY <3>1, <3>2, <3>4, <3>5, <3>6 DEF PolicyOK
  <2>2. CASE ~pooled
    <3>1. loaded[t] = Nothing
      BY <2>2 DEF AInv, LoadsOK
    <3> QED
      BY <2>2, <3>1 DEF PolicyOK, PolicyOf, Nothing, EmptyPolicy
  <2> QED
    BY <2>1, <2>2
<1> QED
  BY <1>1, <1>2, <1>3, <1>4, <1>5, <1>6 DEF AInv

LEMMA RestartStep ==
    ASSUME AInv, Restart \/ RestartWithoutPool
    PROVE  AInv'
<1>0. StartThreads
  BY DEF Restart, RestartWithoutPool
<1> USE <1>0 DEF StartThreads
<1>1. Len(rows) \in Nat /\ Len(versions) \in Nat /\ Len(versions) >= 1
  BY DEF AInv, TypeOK, VersionsOK
<1>2. broken' \in BOOLEAN /\ pooled' \in BOOLEAN
  BY Zenon DEF AInv, TypeOK, Restart, RestartWithoutPool
<1>3. \/ /\ policy' = CurrentPolicy
         /\ basis' = [from |-> Len(versions), to |-> Len(versions)]
      \/ policy' = EmptyPolicy /\ basis' = NoBasis
  BY DEF Restart, RestartWithoutPool, InitialLoad
<1>4. TypeOK'
  <2>1. policy' \in [block : SUBSET Names, zoned : SUBSET Names]
    BY <1>3 DEF AInv, TypeOK, CurrentPolicy, EmptyPolicy
  <2>2. prevHash' \in Nat
    BY <1>1 DEF Restart, RestartWithoutPool, LastHash
  <2>3. basis' \in [from : 0..Len(versions), to : 0..Len(versions)]
    BY <1>1, <1>3 DEF NoBasis
  <2> QED
    BY <1>1, <1>2, <2>1, <2>2, <2>3 DEF AInv, TypeOK, Nothing, Locations, tables
<1>5. ChainOK'
  <2>1. CASE Restart /\ prevHash' = Len(rows) /\ broken' = broken
    BY <2>1 DEF AInv, ChainOK, AuditChainIntact
  <2>2. CASE Restart /\ prevHash' = 0 /\ broken' = (broken \/ rows # <<>>)
    <3> SUFFICES ASSUME ~broken'
                 PROVE  prevHash' = Len(rows') /\ AuditChainIntact'
      BY DEF ChainOK
    <3>1. rows = <<>>
      BY <2>2, Zenon
    <3> QED
      BY <2>2, <3>1 DEF AuditChainIntact
  <2>3. CASE RestartWithoutPool
    BY <2>3 DEF RestartWithoutPool, AInv, ChainOK, AuditChainIntact
  <2> QED
    BY <2>1, <2>2, <2>3 DEF Restart, LastHash
<1>6. HandlersOK' /\ EveryChangeLogged'
  BY DEF AInv, HandlersOK, EveryChangeLogged
<1>7. VersionsOK' /\ LoadsOK'
  BY DEF AInv, VersionsOK, TablesNow, LoadsOK, Reading, tables
<1>8. PolicyOK'
  <2>1. CASE policy' = EmptyPolicy /\ basis' = NoBasis
    BY <2>1 DEF PolicyOK
  <2>2. CASE /\ policy' = CurrentPolicy
             /\ basis' = [from |-> Len(versions), to |-> Len(versions)]
    <3>1. /\ basis'.from = Len(versions) /\ basis'.to = Len(versions)
          /\ basis' # NoBasis
      BY <2>2, <1>1 DEF NoBasis
    <3>2. /\ versions'[Len(versions)].zones = zones
          /\ versions'[Len(versions)].records = records
          /\ versions'[Len(versions)].blocked = blocked
      BY DEF AInv, VersionsOK, TablesNow
    <3>3. BlockFrom(basis)' /\ ZonedFrom(basis)'
      BY <2>2, <1>1, <3>1, <3>2 DEF BlockFrom, ZonedFrom, CurrentPolicy
    <3> QED
      BY <1>1, <3>1, <3>3 DEF PolicyOK
  <2> QED
    BY <1>3, <2>1, <2>2
<1> QED
  BY <1>4, <1>5, <1>6, <1>7, <1>8 DEF AInv

LEMMA NextAInv == AInv /\ [Next]_vars => AInv'
<1> SUFFICES ASSUME AInv, [Next]_vars PROVE AInv'
  OBVIOUS
<1>1. CASE Restart \/ RestartWithoutPool
  BY <1>1, RestartStep
<1>2. CASE \E t \in Admins, op \in Ops, n \in Names : Request(t, op, n)
  BY <1>2, RequestStep
<1>3. CASE \E t \in Admins : Handler(t)
  <2> PICK t \in Admins : Handler(t)
    BY <1>3
  <2>1. CASE Audit(t) \/ AuditAckLost(t)
    BY <2>1, AuditStep
  <2>2. CASE AuditFails(t) \/ AuditSkipped(t)
    BY <2>2, AuditFailsStep
  <2>3. CASE Write(t) \/ WriteAckLost(t)
    BY <2>3, WriteStep
  <2>4. CASE WriteFails(t) \/ LoadFails(t)
    BY <2>4, RespondStep
  <2>5. CASE LoadZones(t) \/ LoadRecords(t) \/ LoadBlocked(t)
             \/ LoadBindings(t)
    BY <2>5, LoadStep
  <2>6. CASE Install(t)
    BY <2>6, InstallStep
  <2> QED
    BY <2>1, <2>2, <2>3, <2>4, <2>5, <2>6 DEF Handler
<1>4. CASE UNCHANGED vars
  BY <1>4 DEF vars, AInv, TypeOK, ChainOK, AuditChainIntact, HandlersOK,
              EveryChangeLogged, VersionsOK, TablesNow, LoadsOK, ZonesOf,
              RecordsOf, BlockedOf, PolicyOK, BlockFrom, ZonedFrom, Logged,
              tables, auditLog
<1> QED
  BY <1>1, <1>2, <1>3, <1>4 DEF Next

LEMMA AlwaysAInv == Spec => []AInv
<1> QED
  BY InitAInv, NextAInv, PTL DEF Spec

-----------------------------------------------------------------------------

\* Every variable keeps its type.
THEOREM TypeCorrect == Spec => []TypeOK
<1>1. AInv => TypeOK
  BY DEF AInv
<1> QED
  BY <1>1, AlwaysAInv, PTL

\* AuditWriter::record and AuditWriter::new keep the hash chain whole under any
\* interleaving, failed insert and restart, until a hash is lost.
THEOREM AuditChain == Spec => []ChainBreaksOnlyOnLostHash
<1>1. AInv => ChainBreaksOnlyOnLostHash
  BY DEF AInv, ChainOK, ChainBreaksOnlyOnLostHash
<1> QED
  BY <1>1, AlwaysAInv, PTL

\* route records a request before it changes a table: no change goes unlogged
\* unless the audit insert itself was reported as failed.
THEOREM ChangesAreLogged == Spec => []EveryChangeLogged
<1>1. AInv => EveryChangeLogged
  BY DEF AInv
<1> QED
  BY <1>1, AlwaysAInv, PTL

\* reload_all installs only tables that existed while it ran, whatever other
\* threads write and install meanwhile, exactly the current ones if none changed,
\* and nothing without MySQL.
THEOREM ReloadIsFaithful == Spec => []PolicyFromItsReload
<1>1. AInv => PolicyFromItsReload
  <2> SUFFICES ASSUME AInv, basis # NoBasis
               PROVE  /\ BlockFrom(basis) /\ ZonedFrom(basis)
                      /\ basis.from = Len(versions) => policy = CurrentPolicy
    BY DEF AInv, PolicyOK, PolicyFromItsReload, BlockFrom, ZonedFrom
  <2>1. BlockFrom(basis) /\ ZonedFrom(basis)
    BY DEF AInv, PolicyOK
  <2>2. ASSUME basis.from = Len(versions) PROVE policy = CurrentPolicy
    <3>1. basis.to \in 0..Len(versions) /\ Len(versions) \in Nat
      BY DEF AInv, TypeOK
    <3>2. /\ versions[Len(versions)].zones = zones
          /\ versions[Len(versions)].records = records
          /\ versions[Len(versions)].blocked = blocked
      BY DEF AInv, VersionsOK, TablesNow
    <3>3. \A i \in basis.from..basis.to : i = Len(versions)
      BY <2>2, <3>1
    <3>4. policy.block = blocked
      BY <2>1, <3>2, <3>3 DEF BlockFrom
    <3>5. policy.zoned = zones \cap records
      BY <2>1, <3>2, <3>3 DEF ZonedFrom
    <3> QED
      BY <3>4, <3>5 DEF AInv, TypeOK, CurrentPolicy
  <2> QED
    BY <2>1, <2>2
<1> QED
  BY <1>1, AlwaysAInv, PTL

=============================================================================
