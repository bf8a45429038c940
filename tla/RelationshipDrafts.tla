------------------------- MODULE RelationshipDrafts -------------------------
(***************************************************************************)
(* The draft of a source's relationship graph, while editors patch it,     *)
(* discoveries are started and their background tasks add what the model   *)
(* recommends (src/api/datasource_service.py over the registry             *)
(* src/data_agent/datasources/sqlite_registry.py, PATCH and activation     *)
(* through src/api/routes.py).                                             *)
(*                                                                         *)
(* One source, which may be deleted and imported again with another        *)
(* schema.  A registry operation is a transaction; discovery[d] is a call  *)
(* of ensure_relationship_discovery together with the background task that *)
(* it spawns, and at names the operation it awaits next.  An editor has    *)
(* the draft it last read.  An edge is opaque; which edges the constraints *)
(* of a schema declare is a constant.  Graph ids are random, and the       *)
(* registry returns the draft with the least id.                           *)
(***************************************************************************)
EXTENDS Integers

CONSTANTS Schemas,       \* fingerprints that the source may be published with
          Edges,         \* relationship edges
          DeclaredEdges, \* the edges that a schema's foreign keys declare
          GraphIds,      \* bound: random graph ids, as numbers
          Discoveries,   \* calls of ensure_relationship_discovery
          Editors,       \* clients that patch the draft
          MaxDraft       \* bound: revisions of a draft

ASSUME DraftAssumption == MaxDraft \in Nat \ {0} /\ GraphIds \subseteq Nat
ASSUME DeclaredAssumption == DeclaredEdges \in [Schemas -> SUBSET Edges]

VARIABLES schema,      \* the source's published fingerprint
          drafts,      \* rows of relationship_graph_drafts
          used_ids,    \* graph ids that were ever drawn
          recommended, \* rows of relationship_recommendation_runs, by discovery
          discovery,   \* what each discovery awaits
          seen,        \* the draft that each editor has read
          activating,  \* the draft that an activation has validated
          in_force     \* edges of the active graph binding

draft_vars == <<schema, drafts, used_ids, recommended, discovery, seen,
                activating, in_force>>

Unpublished == "unpublished"
NoDraft == [graph |-> -1]
NoDiscovery == [status |-> "none"]
NoBinding == [schema |-> "none"]
Drafts == [graph : GraphIds, schema : Schemas, revision : 1..MaxDraft, edges : SUBSET Edges]
RunStatuses == {"queued", "running", "succeeded", "retryable_failed"}

(* get_graph_draft: the row with the least id. *)
CurrentDraft ==
  IF drafts = {} THEN NoDraft
  ELSE CHOOSE d \in drafts : \A other \in drafts : d.graph <= other.graph

(* Faulty: a draft is saved over whatever revision is there. *)
AnyRevision(d, expected) == TRUE

(* save_graph_draft replaces the revision it expects. *)
IsExpected(d, expected) == d.revision = expected

NextRevision(read, edges) ==
  [graph |-> read.graph, schema |-> read.schema, revision |-> read.revision + 1,
   edges |-> edges]

(* save_graph_draft over the draft that was read; the source's snapshot       *)
(* cannot change under a draft, whose row would be gone.                      *)
Saves(read, edges) ==
  \E d \in drafts :
    /\ d.graph = read.graph /\ d.schema = read.schema
    /\ IsExpected(d, read.revision)
    /\ read.revision < MaxDraft
    /\ drafts' = (drafts \ {d}) \cup {NextRevision(read, edges)}

Waits(d, at) == discovery[d].at = at
GoesFor(d, at, graph) ==
  discovery' = [discovery EXCEPT ![d] = [at |-> at, schema |-> @.schema, graph |-> graph]]
Goes(d, at) == GoesFor(d, at, discovery[d].graph)
DiscoveryEnds(d) == discovery' = [discovery EXCEPT ![d] = [at |-> "idle"]]

(* save_recommendation_run needs the graph that the run was started for. *)
Records(d, status) ==
  /\ \E g \in drafts : g.graph = discovery[d].graph /\ g.schema = discovery[d].schema
  /\ recommended' = [recommended EXCEPT ![d] =
                       [status |-> status, graph |-> discovery[d].graph]]

-----------------------------------------------------------------------------
(* The source. *)
PublishSchema(f) ==
  /\ schema = Unpublished
  /\ schema' = f
  /\ UNCHANGED <<drafts, used_ids, recommended, discovery, seen, activating, in_force>>

(* registry.delete takes the drafts, runs and bindings of the source along. *)
DeleteSource ==
  /\ schema # Unpublished
  /\ schema' = Unpublished
  /\ drafts' = {}
  /\ recommended' = [d \in Discoveries |-> NoDiscovery]
  /\ in_force' = NoBinding
  /\ UNCHANGED <<used_ids, discovery, seen, activating>>

-----------------------------------------------------------------------------
(* ensure_relationship_discovery. *)

(* get_snapshot. *)
DiscoveryStarts(d) ==
  /\ Waits(d, "idle")
  /\ schema # Unpublished
  /\ discovery' = [discovery EXCEPT ![d] =
                     [at |-> "draft", schema |-> schema, graph |-> -1]]
  /\ UNCHANGED <<schema, drafts, used_ids, recommended, seen, activating, in_force>>

(* get_graph_draft: an existing draft is kept, otherwise an id is drawn. *)
DraftLookedUp(d) ==
  /\ Waits(d, "draft")
  /\ \/ /\ drafts # {}
        /\ GoesFor(d, "queue", CurrentDraft.graph)
        /\ UNCHANGED used_ids
     \/ /\ drafts = {}
        /\ \E g \in GraphIds \ used_ids :
             /\ used_ids' = used_ids \cup {g}
             /\ GoesFor(d, "create", g)
  /\ UNCHANGED <<schema, drafts, recommended, seen, activating, in_force>>

(* create_graph_draft: revision 1 with the declared edges, if the snapshot   *)
(* is still there.  The registry compares only its version, which is 1 again *)
(* after another import.                                                     *)
DraftCreated(d) ==
  /\ Waits(d, "create")
  /\ schema # Unpublished
  /\ drafts' = drafts \cup {[graph |-> discovery[d].graph, schema |-> discovery[d].schema,
                             revision |-> 1, edges |-> DeclaredEdges[discovery[d].schema]]}
  /\ Goes(d, "queue")
  /\ UNCHANGED <<schema, used_ids, recommended, seen, activating, in_force>>

(* The run is saved: queued with a task, or as failed without a model.  The  *)
(* graph id is the draft's, its fingerprint the snapshot's.                  *)
RunQueued(d) ==
  /\ Waits(d, "queue")
  /\ \/ Records(d, "queued") /\ Goes(d, "start")
     \/ Records(d, "retryable_failed") /\ DiscoveryEnds(d)
  /\ UNCHANGED <<schema, drafts, used_ids, seen, activating, in_force>>

-----------------------------------------------------------------------------
(* _run_relationship_recommendations, the background task. *)

DiscoveryRuns(d) ==
  /\ Waits(d, "start")
  /\ Records(d, "running")
  /\ Goes(d, "recommend")
  /\ UNCHANGED <<schema, drafts, used_ids, seen, activating, in_force>>

(* The model has answered; the current draft is read after it. *)
Recommends(d, edges) ==
  /\ Waits(d, "recommend")
  /\ drafts # {}
  /\ discovery' = [discovery EXCEPT ![d] =
       [at |-> IF edges \subseteq CurrentDraft.edges THEN "succeed" ELSE "save",
        schema |-> @.schema, graph |-> @.graph,
        read |-> CurrentDraft, edges |-> CurrentDraft.edges \cup edges]]
  /\ UNCHANGED <<schema, drafts, used_ids, recommended, seen, activating, in_force>>

(* The draft with the new edges replaces the revision that was read. *)
RecommendationSaved(d) ==
  /\ Waits(d, "save")
  /\ Saves(discovery[d].read, discovery[d].edges)
  /\ Goes(d, "succeed")
  /\ UNCHANGED <<schema, used_ids, recommended, seen, activating, in_force>>

RunSucceeds(d) ==
  /\ Waits(d, "succeed")
  /\ Records(d, "succeeded")
  /\ DiscoveryEnds(d)
  /\ UNCHANGED <<schema, drafts, used_ids, seen, activating, in_force>>

(* Any error after the run is running is recorded, and saved edges stay. *)
RunFails(d) ==
  /\ discovery[d].at \in {"recommend", "save", "succeed"}
  /\ Records(d, "retryable_failed")
  /\ DiscoveryEnds(d)
  /\ UNCHANGED <<schema, drafts, used_ids, seen, activating, in_force>>

(* The call or the task ends where it is: an error before the run is         *)
(* running, an error that cannot be recorded, a cancellation or a restart.   *)
DiscoveryStops(d) ==
  /\ ~ Waits(d, "idle")
  /\ DiscoveryEnds(d)
  /\ UNCHANGED <<schema, drafts, used_ids, recommended, seen, activating, in_force>>

-----------------------------------------------------------------------------
(* Editors: GET draft, PATCH graph, activation. *)

ReadDraft(e) ==
  /\ CurrentDraft # NoDraft
  /\ seen' = [seen EXCEPT ![e] = CurrentDraft]
  /\ UNCHANGED <<schema, drafts, used_ids, recommended, discovery, activating, in_force>>

PatchGraph(e, edges) ==
  /\ seen[e] # NoDraft
  /\ Saves(seen[e], edges)
  /\ seen' = [seen EXCEPT ![e] = NextRevision(@, edges)]
  /\ UNCHANGED <<schema, used_ids, recommended, discovery, activating, in_force>>

(* activate_relationship_graph validates the draft that is current, against  *)
(* the current catalogue, if it has the id the editor names; the editor      *)
(* sends no revision.                                                        *)
ActivationStarts(e) ==
  /\ seen[e] # NoDraft /\ activating[e] = NoDraft
  /\ CurrentDraft.graph = seen[e].graph
  /\ CurrentDraft.schema = schema
  /\ activating' = [activating EXCEPT ![e] = CurrentDraft]
  /\ UNCHANGED <<schema, drafts, used_ids, recommended, discovery, seen, in_force>>

(* Faulty: only the version of the snapshot is compared. *)
VersionMatches(f) == schema # Unpublished

(* activate_graph_binding compares the fingerprint in its own transaction. *)
FingerprintMatches(f) == schema = f

ActivationCommits(e) ==
  /\ activating[e] # NoDraft
  /\ \/ /\ FingerprintMatches(activating[e].schema)
        /\ in_force' = [schema |-> activating[e].schema, edges |-> activating[e].edges]
     \/ UNCHANGED in_force
  /\ activating' = [activating EXCEPT ![e] = NoDraft]
  /\ UNCHANGED <<schema, drafts, used_ids, recommended, discovery, seen>>

DraftInit ==
  /\ schema = Unpublished
  /\ drafts = {}
  /\ used_ids = {}
  /\ recommended = [d \in Discoveries |-> NoDiscovery]
  /\ discovery = [d \in Discoveries |-> [at |-> "idle"]]
  /\ seen = [e \in Editors |-> NoDraft]
  /\ activating = [e \in Editors |-> NoDraft]
  /\ in_force = NoBinding

DraftNext ==
  \/ \E f \in Schemas : PublishSchema(f)
  \/ DeleteSource
  \/ \E d \in Discoveries :
       \/ DiscoveryStarts(d) \/ DraftLookedUp(d) \/ DraftCreated(d) \/ RunQueued(d)
       \/ DiscoveryRuns(d) \/ RecommendationSaved(d) \/ RunSucceeds(d) \/ RunFails(d)
       \/ \E edges \in SUBSET Edges : Recommends(d, edges)
       \/ DiscoveryStops(d)
  \/ \E e \in Editors :
       \/ ReadDraft(e) \/ ActivationStarts(e) \/ ActivationCommits(e)
       \/ \E edges \in SUBSET Edges : PatchGraph(e, edges)

DraftSpec == DraftInit /\ [][DraftNext]_draft_vars

-----------------------------------------------------------------------------
(* Every row and every call holds values of its kind. *)
DraftTypeOK ==
  /\ schema \in Schemas \cup {Unpublished}
  /\ drafts \subseteq Drafts
  /\ used_ids \subseteq GraphIds
  /\ recommended \in [Discoveries -> [status : RunStatuses, graph : GraphIds] \cup {NoDiscovery}]
  /\ DOMAIN discovery = Discoveries
  /\ seen \in [Editors -> Drafts \cup {NoDraft}]
  /\ activating \in [Editors -> Drafts \cup {NoDraft}]
  /\ in_force \in [schema : Schemas, edges : SUBSET Edges] \cup {NoBinding}

(* An editor saves the revision after d, which it has read. *)
EditedBy(e, d) ==
  /\ seen[e] = d
  /\ seen'[e] \in drafts'
  /\ seen'[e].revision = d.revision + 1

(* Nobody's edges are lost: an edge leaves a draft only with the source or   *)
(* because an editor who has read it saves the draft without it, never       *)
(* because a recommendation or another editor overwrites it; and a graph     *)
(* that is put in force was validated for the schema that is published       *)
(* (save_graph_draft, activate_graph_binding).                               *)
DraftsAreHonoured ==
  [][ /\ \A d \in drafts : \A edge \in d.edges :
           \/ schema' = Unpublished
           \/ \E next \in drafts' : next.graph = d.graph /\ edge \in next.edges
           \/ \E e \in Editors : EditedBy(e, d)
      /\ in_force' # in_force /\ in_force' # NoBinding => in_force'.schema = schema
    ]_draft_vars
=============================================================================
