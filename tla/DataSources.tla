---------------------------- MODULE DataSources ----------------------------
(***************************************************************************)
(* The data sources of one tenant: DataSourceService                       *)
(* (src/api/datasource_service.py) over the registry                       *)
(* (src/data_agent/datasources/sqlite_registry.py), the snapshot files, the *)
(* connectors and the PostgreSQL pools of one process.                     *)
(*                                                                         *)
(* A registry operation is one transaction, serialised by the registry's   *)
(* lock; a service call awaits several of them, uploads, pools and         *)
(* catalogues.  job[r] is what request r awaits next, with what it has     *)
(* read.  Code between two awaits is one action, except that the process   *)
(* may stop between the commit of a deletion and what follows it.          *)
(*                                                                         *)
(* CSV, XLSX and SQLite sources are "file" sources: they differ in how the *)
(* file is written, not in when.  Every import publishes version 1 and     *)
(* nothing publishes another, so a source has at most one snapshot.  What  *)
(* a source holds is an opaque content, which is also its fingerprint.     *)
(* Bindings are of one domain; graph bindings are in MetricGovernance, and *)
(* relationship drafts in RelationshipDrafts.                              *)
(***************************************************************************)
EXTENDS Integers, FiniteSetsExt

CONSTANTS Sources,    \* source ids
          Contents,   \* what an upload or a database may hold
          Bindings,   \* binding ids
          Threads,    \* conversations that can be pinned
          Requests,   \* API requests in progress
          MaxPools,   \* bound: pools open at a time
          MaxBinding  \* bound: versions of a source's bindings

ASSUME PoolsAssumption == MaxPools \in Nat
ASSUME BindingAssumption == MaxBinding \in Nat

VARIABLES data_sources,      \* rows of data_sources
          snapshots,         \* rows of data_source_snapshots
          bindings,          \* rows of semantic_bindings
          packs,             \* sources with a domain pack assignment
          pins,              \* rows of conversation_datasource_pins
          files,             \* snapshot files on disk, by source
          connectors,        \* ConnectorRegistry._connectors
          open_pools,        \* PostgreSQL pools that are open
          source_resources,  \* _source_resources: pools to close with a source
          resources,         \* _resources: pools to close at shutdown
          job                \* what each request awaits

registry_vars == <<data_sources, snapshots, bindings, packs, pins>>
process_vars == <<connectors, open_pools, source_resources, resources>>
source_vars == <<registry_vars, files, process_vars, job>>

Pools == 1..MaxPools
NoPool == 0
Absent == [kind |-> "absent"]
Nothing == "nothing"

ASSUME ContentAssumption == Nothing \notin Contents

Idle == [at |-> "idle"]

SourceKinds == {"file", "postgres"}
SourceRows == [kind : SourceKinds, content : Contents, active : {0, 1}]
BindingRows == [id : Bindings, source : Sources, version : 1..MaxBinding,
                status : {"draft", "active", "retired"}]
Pins == [source : Sources, binding : Bindings, version : 1..MaxBinding]
OpenConnectors == [kind : SourceKinds, content : Contents, pool : Pools \cup {NoPool}]

Published(s) == data_sources[s] # Absent /\ data_sources[s].active = 1
PoolsOf(r) == IF "pool" \in DOMAIN job[r] THEN {job[r].pool} \ {NoPool} ELSE {}

(* Faulty: the handler of a failing request forgets the pool it has opened. *)
LeavesPool(r) == {}
(* Faulty: a binding is saved for the snapshot that the call has seen. *)
SnapshotSeen(s) == TRUE

(* What a request that fails closes: the handler of the pool it has opened. *)
ClosesOnFailure(r) == PoolsOf(r)

(* save_binding: the snapshot is still there in its own transaction. *)
SnapshotStored(s) == snapshots[s] # Nothing

(* The pins that a deletion removes with the source. *)
PinsOf(s) == {t \in Threads : pins[t] # Absent /\ pins[t].source = s}

(* The registry's lock is free: a deletion whose commit has not been seen by *)
(* the event loop still holds it.                                            *)
Unlocked == \A r \in Requests : job[r].at # "removing"

Awaits(r, at) == job[r].at = at
Becomes(r, j) == job' = [job EXCEPT ![r] = j]
RequestEnds(r) == Becomes(r, Idle)

-----------------------------------------------------------------------------
(* Uploads: import_file_source and import_sqlite_source. *)

(* registry.get says that the id is free; then the uploads are staged. *)
ImportStarts(r, s, c) ==
  /\ Awaits(r, "idle") /\ Unlocked
  /\ data_sources[s] = Absent
  /\ Becomes(r, [at |-> "staging", source |-> s, content |-> c, kind |-> "file",
                 pool |-> NoPool])
  /\ UNCHANGED <<registry_vars, files, process_vars>>

(* The importer writes the snapshot file without an await; a file of the     *)
(* same content is SNAPSHOT_EXISTS.                                          *)
FilesImported(r) ==
  /\ Awaits(r, "staging")
  /\ job[r].content \notin files[job[r].source]
  /\ files' = [files EXCEPT ![job[r].source] = @ \cup {job[r].content}]
  /\ job' = [job EXCEPT ![r].at = "creating"]
  /\ UNCHANGED <<registry_vars, process_vars>>

SourceCreated(r) ==
  /\ Awaits(r, "creating") /\ Unlocked
  /\ data_sources[job[r].source] = Absent
  /\ data_sources' = [data_sources EXCEPT ![job[r].source] =
                        [kind |-> "file", content |-> job[r].content, active |-> 0]]
  /\ job' = [job EXCEPT ![r].at = "publishing"]
  /\ UNCHANGED <<snapshots, bindings, packs, pins, files, process_vars>>

(* register_postgres stores the definition; its catalogue is read later. *)
RegisterPostgres(r, s, c) ==
  /\ Awaits(r, "idle") /\ Unlocked
  /\ data_sources[s] = Absent
  /\ data_sources' = [data_sources EXCEPT ![s] =
                        [kind |-> "postgres", content |-> c, active |-> 0]]
  /\ UNCHANGED <<snapshots, bindings, packs, pins, files, process_vars, job>>

-----------------------------------------------------------------------------
(* Publication and connectors. *)

(* ConnectorRegistry.register refuses a second connector and another kind. *)
Registrable(s, connector) ==
  connectors[s] = Absent /\ data_sources[s].kind = connector.kind

Tracks(s, pools) ==
  /\ source_resources' = [source_resources EXCEPT ![s] = @ \cup pools]
  /\ resources' = resources \cup pools

(* publish_snapshot: the next version, once. *)
Publishable(s) ==
  data_sources[s] # Absent /\ data_sources[s].active = 0 /\ snapshots[s] = Nothing

(* The snapshot is published; registering the connector follows without an   *)
(* await.  If it is refused the request fails, with the snapshot published.  *)
Publish(r) ==
  LET s == job[r].source
      connector == [kind |-> job[r].kind, content |-> job[r].content, pool |-> job[r].pool]
  IN /\ Awaits(r, "publishing") /\ Unlocked
     /\ Publishable(s)
     /\ snapshots' = [snapshots EXCEPT ![s] = job[r].content]
     /\ data_sources' = [data_sources EXCEPT ![s].active = 1]
     /\ \/ /\ Registrable(s, connector)
           /\ connectors' = [connectors EXCEPT ![s] = connector]
           /\ Tracks(s, PoolsOf(r))
           /\ job' = [job EXCEPT ![r].at = "describing"]
           /\ UNCHANGED open_pools
        \/ /\ ~ Registrable(s, connector)
           /\ open_pools' = open_pools \ ClosesOnFailure(r)
           /\ RequestEnds(r)
           /\ UNCHANGED <<connectors, source_resources, resources>>
     /\ UNCHANGED <<bindings, packs, pins, files>>

(* ensure_relationship_discovery has been awaited. *)
Described(r) ==
  /\ Awaits(r, "describing")
  /\ RequestEnds(r)
  /\ UNCHANGED <<registry_vars, files, process_vars>>

(* get_snapshot of a PostgreSQL source without a snapshot materialises it. *)
Materialise(r, s) ==
  /\ Awaits(r, "idle") /\ Unlocked
  /\ data_sources[s] # Absent
  /\ data_sources[s].kind = "postgres" /\ data_sources[s].active = 0
  /\ Becomes(r, [at |-> "pooling", source |-> s, content |-> data_sources[s].content,
                 kind |-> "postgres", restores |-> FALSE, pin |-> Absent, thread |-> Nothing])
  /\ UNCHANGED <<registry_vars, files, process_vars>>

(* get_connector reads the source; a registered connector is the answer. *)
ConnectorAsked(r, s, pin, thread) ==
  /\ Published(s)
  /\ \/ /\ connectors[s] # Absent
        /\ Becomes(r, IF thread = Nothing THEN Idle
                      ELSE [at |-> "pinning", pin |-> pin, thread |-> thread])
     \/ /\ connectors[s] = Absent
        /\ Becomes(r, [at |-> "opening", source |-> s, kind |-> data_sources[s].kind,
                       content |-> data_sources[s].content, pin |-> pin, thread |-> thread])
  /\ UNCHANGED <<registry_vars, files, process_vars>>

GetConnector(r, s) ==
  /\ Awaits(r, "idle") /\ Unlocked
  /\ ConnectorAsked(r, s, Absent, Nothing)

(* What follows get_connector in the request. *)
AfterConnector(r) ==
  IF job[r].thread = Nothing THEN Idle
  ELSE [at |-> "pinning", pin |-> job[r].pin, thread |-> job[r].thread]

(* register in get_connector: when another request was first, the connector  *)
(* it has registered is the answer.                                          *)
RegisterOrUse(r, connector) ==
  connectors' = [connectors EXCEPT ![job[r].source] =
                   IF @ = Absent THEN connector ELSE @]

(* The snapshot is read; a file connector is restored from the only file of  *)
(* the source and registered without an await.                               *)
RestoreFile(r) ==
  LET s == job[r].source
  IN /\ Awaits(r, "opening") /\ Unlocked
     /\ snapshots[s] # Nothing
     /\ job[r].kind = "file"
     /\ \E c \in files[s] :
          /\ files[s] = {c}
          /\ RegisterOrUse(r, [kind |-> "file", content |-> c, pool |-> NoPool])
     /\ Becomes(r, AfterConnector(r))
     /\ UNCHANGED <<registry_vars, files, open_pools, source_resources, resources>>

RestorePostgres(r) ==
  /\ Awaits(r, "opening") /\ Unlocked
  /\ snapshots[job[r].source] # Nothing
  /\ job[r].kind = "postgres"
  /\ Becomes(r, [at |-> "pooling", source |-> job[r].source, content |-> job[r].content,
                 kind |-> "postgres", restores |-> TRUE,
                 pin |-> job[r].pin, thread |-> job[r].thread])
  /\ UNCHANGED <<registry_vars, files, process_vars>>

(* A pool is open to the database of the source that the request has read. *)
PoolOpened(r) ==
  /\ Awaits(r, "pooling")
  /\ Pools \ open_pools # {}
  /\ LET p == CHOOSE free \in Pools \ open_pools : TRUE
     IN /\ open_pools' = open_pools \cup {p}
        /\ Becomes(r, [at |-> "cataloguing", source |-> job[r].source,
                       content |-> job[r].content, kind |-> "postgres", pool |-> p,
                       restores |-> job[r].restores, pin |-> job[r].pin,
                       thread |-> job[r].thread])
  /\ UNCHANGED <<registry_vars, files, connectors, source_resources, resources>>

(* The catalogue is read.  A materialisation goes on to publish it; a         *)
(* restoration tracks its pool and registers, whoever was first.  A schema    *)
(* that has changed is a failure (JobFails).                                  *)
Catalogued(r) ==
  /\ Awaits(r, "cataloguing")
  /\ \/ /\ ~ job[r].restores
        /\ job' = [job EXCEPT ![r].at = "publishing"]
        /\ UNCHANGED process_vars
     \/ /\ job[r].restores
        /\ Tracks(job[r].source, {job[r].pool})
        /\ RegisterOrUse(r, [kind |-> "postgres", content |-> job[r].content,
                             pool |-> job[r].pool])
        /\ Becomes(r, AfterConnector(r))
        /\ UNCHANGED open_pools
  /\ UNCHANGED <<registry_vars, files>>

-----------------------------------------------------------------------------
(* Deletion: delete_source. *)

(* registry.delete removes every row of the source in one transaction. *)
Delete(r, s) ==
  /\ Awaits(r, "idle") /\ Unlocked
  /\ data_sources[s] # Absent
  /\ data_sources' = [data_sources EXCEPT ![s] = Absent]
  /\ snapshots' = [snapshots EXCEPT ![s] = Nothing]
  /\ bindings' = {b \in bindings : b.source # s}
  /\ packs' = packs \ {s}
  /\ pins' = [t \in Threads |-> IF t \in PinsOf(s) THEN Absent ELSE pins[t]]
  /\ Becomes(r, [at |-> "removing", source |-> s, kind |-> data_sources[s].kind])
  /\ UNCHANGED <<files, process_vars>>

(* The snapshot directory of a file source. *)
RemovesFiles(s, kind) ==
  files' = IF kind = "file" THEN [files EXCEPT ![s] = {}] ELSE files

(* Connectors and tracked pools are taken out; without a pool to close the   *)
(* files follow at once.                                                     *)
DeleteRow(r) ==
  LET s == job[r].source
      doomed == source_resources[s]
  IN /\ Awaits(r, "removing")
     /\ connectors' = [connectors EXCEPT ![s] = Absent]
     /\ source_resources' = [source_resources EXCEPT ![s] = {}]
     /\ \/ /\ doomed = {}
           /\ RemovesFiles(s, job[r].kind)
           /\ RequestEnds(r)
        \/ /\ doomed # {}
           /\ Becomes(r, [at |-> "closing", source |-> s, kind |-> job[r].kind,
                          doomed |-> doomed])
           /\ UNCHANGED files
     /\ UNCHANGED <<registry_vars, open_pools, resources>>

(* One pool after the other is closed; the files follow the last. *)
ClosePool(r) ==
  /\ Awaits(r, "closing")
  /\ LET p == Max(job[r].doomed)
         left == job[r].doomed \ {p}
     IN /\ open_pools' = open_pools \ {p}
        /\ resources' = resources \ {p}
        /\ \/ /\ left # {}
              /\ job' = [job EXCEPT ![r].doomed = left]
              /\ UNCHANGED files
           \/ /\ left = {}
              /\ RemovesFiles(job[r].source, job[r].kind)
              /\ RequestEnds(r)
  /\ UNCHANGED <<registry_vars, connectors, source_resources>>

-----------------------------------------------------------------------------
(* Bindings and the conversations pinned to them. *)

(* create_binding: the source has a snapshot; the next version is counted in *)
(* the bindings there are; then the binding is saved.                        *)
BindingAsked(r, s, b) ==
  /\ Awaits(r, "idle") /\ Unlocked
  /\ Published(s)
  /\ Becomes(r, [at |-> "versioning", source |-> s, binding |-> b])
  /\ UNCHANGED <<registry_vars, files, process_vars>>

(* Faulty: the version of the latest binding is taken again. *)
LatestVersion(s) == Max({0} \cup {b.version : b \in {x \in bindings : x.source = s}})

NextVersion(s) == Max({0} \cup {b.version : b \in {x \in bindings : x.source = s}}) + 1

BindingVersioned(r) ==
  /\ Awaits(r, "versioning") /\ Unlocked
  /\ NextVersion(job[r].source) <= MaxBinding
  /\ Becomes(r, [at |-> "saving", source |-> job[r].source, binding |-> job[r].binding,
                 version |-> NextVersion(job[r].source)])
  /\ UNCHANGED <<registry_vars, files, process_vars>>

SaveBinding(r) ==
  LET s == job[r].source
  IN /\ Awaits(r, "saving") /\ Unlocked
     /\ SnapshotStored(s)
     /\ \A b \in bindings : b.id # job[r].binding
     /\ bindings' = bindings \cup {[id |-> job[r].binding, source |-> s,
                                    version |-> job[r].version, status |-> "draft"]}
     /\ RequestEnds(r)
     /\ UNCHANGED <<data_sources, snapshots, packs, pins, files, process_vars>>

(* activate_binding finds the binding by its id, checks that its snapshot is *)
(* there and retires the others of the source.                               *)
ActivateBinding(r, binding) ==
  /\ Awaits(r, "idle") /\ Unlocked
  /\ binding \in bindings
  /\ SnapshotStored(binding.source)
  /\ bindings' = {IF b = binding THEN [b EXCEPT !.status = "active"]
                  ELSE IF b.source = binding.source /\ b.status = "active"
                       THEN [b EXCEPT !.status = "retired"]
                       ELSE b : b \in bindings}
  /\ Becomes(r, [at |-> "assigning", source |-> binding.source])
  /\ UNCHANGED <<data_sources, snapshots, packs, pins, files, process_vars>>

(* _ensure_domain_pack_assignment, in transactions of its own. *)
AssignPack(r) ==
  /\ Awaits(r, "assigning") /\ Unlocked
  /\ data_sources[job[r].source] # Absent
  /\ packs' = packs \cup {job[r].source}
  /\ RequestEnds(r)
  /\ UNCHANGED <<data_sources, snapshots, bindings, pins, files, process_vars>>

(* resolve_active_binding: the source, then its bindings, then a connector;  *)
(* the conversation is pinned when the run has its context.                  *)
ResolveStarts(r, s, binding, thread) ==
  /\ Awaits(r, "idle") /\ Unlocked
  /\ Published(s)
  /\ Becomes(r, [at |-> "resolving", source |-> s, binding |-> binding, thread |-> thread])
  /\ UNCHANGED <<registry_vars, files, process_vars>>

Resolve(r) ==
  /\ Awaits(r, "resolving") /\ Unlocked
  /\ \E b \in bindings :
       /\ b.source = job[r].source /\ b.id = job[r].binding /\ b.status = "active"
       /\ ConnectorAsked(r, b.source,
                         [source |-> b.source, binding |-> b.id, version |-> b.version],
                         job[r].thread)

(* pin_conversation: a conversation has one pin, and keeps it. *)
PinConversation(r) ==
  /\ Awaits(r, "pinning") /\ Unlocked
  /\ pins[job[r].thread] = Absent
  /\ pins' = [pins EXCEPT ![job[r].thread] = job[r].pin]
  /\ RequestEnds(r)
  /\ UNCHANGED <<data_sources, snapshots, bindings, packs, files, process_vars>>

-----------------------------------------------------------------------------
(* An await raises or a check fails.  What a deletion                        *)
(* does after its commit is not interrupted before its first await.          *)
JobFails(r) ==
  /\ job[r].at \notin {"idle", "removing"}
  /\ open_pools' = IF Awaits(r, "closing")
                   THEN open_pools \ {Max(job[r].doomed)}
                   ELSE open_pools \ ClosesOnFailure(r)
  /\ resources' = IF Awaits(r, "closing") THEN resources \ {Max(job[r].doomed)}
                  ELSE resources
  /\ RequestEnds(r)
  /\ UNCHANGED <<registry_vars, files, connectors, source_resources>>

(* The process stops and starts again; pools end with it. *)
Restart ==
  /\ connectors' = [s \in Sources |-> Absent]
  /\ open_pools' = {}
  /\ source_resources' = [s \in Sources |-> {}]
  /\ resources' = {}
  /\ job' = [r \in Requests |-> Idle]
  /\ UNCHANGED <<registry_vars, files>>

SourceInit ==
  /\ data_sources = [s \in Sources |-> Absent]
  /\ snapshots = [s \in Sources |-> Nothing]
  /\ bindings = {}
  /\ packs = {}
  /\ pins = [t \in Threads |-> Absent]
  /\ files = [s \in Sources |-> {}]
  /\ connectors = [s \in Sources |-> Absent]
  /\ open_pools = {}
  /\ source_resources = [s \in Sources |-> {}]
  /\ resources = {}
  /\ job = [r \in Requests |-> Idle]

SourceNext ==
  \/ \E r \in Requests :
       \/ \E s \in Sources :
            \/ \E c \in Contents : ImportStarts(r, s, c) \/ RegisterPostgres(r, s, c)
            \/ Materialise(r, s) \/ GetConnector(r, s) \/ Delete(r, s)
            \/ \E b \in Bindings :
                 BindingAsked(r, s, b) \/ \E t \in Threads : ResolveStarts(r, s, b, t)
       \/ FilesImported(r) \/ SourceCreated(r) \/ Publish(r) \/ Described(r)
       \/ RestoreFile(r) \/ RestorePostgres(r) \/ PoolOpened(r) \/ Catalogued(r)
       \/ DeleteRow(r) \/ ClosePool(r)
       \/ BindingVersioned(r) \/ SaveBinding(r) \/ AssignPack(r)
       \/ \E b \in bindings : ActivateBinding(r, b)
       \/ Resolve(r) \/ PinConversation(r)
       \/ JobFails(r)
  \/ Restart

SourceSpec == SourceInit /\ [][SourceNext]_source_vars

-----------------------------------------------------------------------------
(* Every table, file and pool holds values of its kind. *)
SourceTypeOK ==
  /\ data_sources \in [Sources -> SourceRows \cup {Absent}]
  /\ snapshots \in [Sources -> Contents \cup {Nothing}]
  /\ bindings \subseteq BindingRows
  /\ packs \subseteq Sources
  /\ pins \in [Threads -> Pins \cup {Absent}]
  /\ files \in [Sources -> SUBSET Contents]
  /\ connectors \in [Sources -> OpenConnectors \cup {Absent}]
  /\ open_pools \subseteq Pools
  /\ source_resources \in [Sources -> SUBSET Pools]
  /\ resources \subseteq Pools
  /\ DOMAIN job = Requests

(* The registry's tables agree however creations, activations and deletions  *)
(* overlap: an active version has its snapshot, a binding has the snapshot   *)
(* it maps, a pack assignment has its source, and one binding of a source is *)
(* in force (sqlite_registry.py: delete, save_binding, activate_binding).    *)
RegistryIsClosed ==
  /\ \A s \in Sources : Published(s) <=> snapshots[s] # Nothing
  /\ \A b \in bindings : snapshots[b.source] # Nothing
  /\ \A s \in packs : data_sources[s] # Absent
  /\ \A a, b \in bindings :
       a.source = b.source /\ a.status = "active" /\ b.status = "active" => a = b

(* No PostgreSQL pool is forgotten: one that is open belongs to a request    *)
(* that will close or hand it over, or is on the list that shutdown closes   *)
(* (datasource_service.py: the handlers of _materialize_postgres_source and  *)
(* _restore_postgres_connector, delete_source, close).                       *)
PoolsAreOwned ==
  open_pools \subseteq resources \cup UNION {PoolsOf(r) : r \in Requests}
                       \cup UNION {job[r].doomed : r \in {q \in Requests : Awaits(q, "closing")}}
=============================================================================
