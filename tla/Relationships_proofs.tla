------------------------ MODULE Relationships_proofs ------------------------
(***************************************************************************)
(* Theorems about RelationshipDrafts, RelationshipRoutes and               *)
(* QueryPrograms: how a graph of relationships is edited, how the tables   *)
(* of a question are routed over one, and how a program of query stages    *)
(* keeps to it.                                                            *)
(***************************************************************************)
EXTENDS RelationshipDrafts, RelationshipRoutes, QueryPrograms, WellFoundedInduction,
        FiniteSetTheorems, TLAPS

(***************************************************************************)
(* Drafts, for any schemas, edges, discoveries and editors.                *)
(*                                                                         *)
(* A save compares a number, the revision, and replaces a whole graph.     *)
(* That no edge is lost by it means that the number stands for the graph:  *)
(* whoever holds the revision that is stored holds the draft that is       *)
(* stored.  The invariant says so of every draft that an editor or a       *)
(* recommendation has read, over deletions of the source: a graph id is    *)
(* drawn once, and until its draft is created nobody has read it.          *)
(***************************************************************************)
Ids == GraphIds \cup {-1}

(* What a discovery holds at the operation it awaits. *)
Started == [at : {"draft", "create", "queue", "start", "recommend", "succeed"},
            schema : Schemas, graph : Ids]
Recommended == [at : {"save", "succeed"}, schema : Schemas, graph : Ids,
             read : Drafts, edges : SUBSET Edges]
Discovering == {[at |-> "idle"]} \cup Started \cup Recommended

(* The drafts that somebody has read and may still save over. *)
DraftsRead ==
  {seen[e] : e \in Editors} \cup
  {discovery[d].read : d \in {c \in Discoveries : Waits(c, "save")}}

(* The graph ids that are drawn and not yet created. *)
Drawing(d) == Waits(d, "create")

(* A reader of y, where x is stored, has it as it is or an earlier revision. *)
Dates(y, x) == y.graph = x.graph => y = x \/ y.revision < x.revision

(* Nobody has read or stored a draft of graph g. *)
Unseen(g) == \A x \in drafts \cup DraftsRead : x.graph # g

CallsFit ==
  /\ discovery \in [Discoveries -> Discovering]
  /\ \A d \in Discoveries :
       /\ Drawing(d) => discovery[d].graph \in used_ids /\ Unseen(discovery[d].graph)
       /\ Waits(d, "save") => discovery[d].read.edges \subseteq discovery[d].edges
  /\ \A c, d \in Discoveries :
       Drawing(c) /\ Drawing(d) /\ discovery[c].graph = discovery[d].graph => c = d

DraftsFit ==
  /\ drafts \subseteq Drafts
  /\ DraftsRead \subseteq Drafts \cup {NoDraft}
  /\ \A x \in drafts \cup DraftsRead : x = NoDraft \/ x.graph \in used_ids
  /\ \A x, y \in drafts : x.graph = y.graph => x = y
  /\ \A x \in drafts : \A y \in DraftsRead : Dates(y, x)

DraftInv == DraftTypeOK /\ CallsFit /\ DraftsFit

-----------------------------------------------------------------------------
(* Shapes of the values. *)

(* A draft is not the mark of none, and its graph and revision are numbers. *)
LEMMA DraftShape ==
  ASSUME NEW x \in Drafts
  PROVE  /\ x # NoDraft /\ x.graph # -1 /\ x.graph \in GraphIds /\ x.graph \in Nat
         /\ x.revision \in Nat /\ x.schema \in Schemas /\ x.edges \in SUBSET Edges
<1>1. x.graph \in GraphIds /\ x.revision \in 1..MaxDraft /\ x.schema \in Schemas
      /\ x.edges \in SUBSET Edges
  BY DEF Drafts
<1>2. x.graph \in Nat
  BY <1>1, DraftAssumption
<1>3. x.graph # -1 /\ x.revision \in Nat
  BY <1>1, <1>2, DraftAssumption
<1>4. NoDraft.graph = -1
  BY DEF NoDraft
<1> QED BY <1>1, <1>2, <1>3, <1>4

(* Among stored drafts there is one with the least id, which is the current. *)
LEMMA CurrentIsStored ==
  ASSUME drafts \subseteq Drafts, drafts # {}
  PROVE  CurrentDraft \in drafts
<1> DEFINE T == {x.graph : x \in drafts}
           R == OpToRel(<, Nat)
<1>1. T \subseteq Nat /\ T # {}
  BY DraftShape
<1>2. PICK g \in T : \A h \in T : ~ (<<h, g>> \in R)
  <2> HIDE DEF T, R
  <2>1. IsWellFoundedOn(R, Nat)
    BY NatLessThanWellFounded DEF R
  <2> QED BY <1>1, <2>1, WFMin
<1>3. \A h \in T : g <= h
  <2> SUFFICES ASSUME NEW h \in T PROVE ~ (h < g)
    BY <1>1
  <2>1. R = {pair \in Nat \X Nat : pair[1] < pair[2]}
    BY DEF OpToRel
  <2> HIDE DEF T, R
  <2> QED BY <1>1, <1>2, <2>1
<1>4. PICK x \in drafts : x.graph = g
  BY <1>2
<1>5. \A other \in drafts : x.graph <= other.graph
  BY <1>3, <1>4
<1>6. CurrentDraft = CHOOSE d \in drafts : \A other \in drafts : d.graph <= other.graph
  BY DEF CurrentDraft
<1> HIDE DEF T, R
<1> QED BY <1>5, <1>6

(* There is a current draft unless none is stored. *)
LEMMA CurrentExists ==
  ASSUME drafts \subseteq Drafts, CurrentDraft # NoDraft
  PROVE  CurrentDraft \in drafts
BY CurrentIsStored DEF CurrentDraft

(* What a discovery holds, by the operation it awaits. *)
LEMMA DiscoveryShape ==
  ASSUME CallsFit, NEW d \in Discoveries, ~ Waits(d, "idle")
  PROVE  /\ discovery[d] \in Started \cup Recommended
         /\ discovery[d].schema \in Schemas /\ discovery[d].graph \in Ids
         /\ Waits(d, "save") => discovery[d] \in Recommended
         /\ Drawing(d) => discovery[d] \in Started
<1>1. discovery[d] \in Discovering
  BY DEF CallsFit
<1> QED BY <1>1 DEF Discovering, Waits, Started, Recommended, Drawing

-----------------------------------------------------------------------------
(* What a step does to drafts and readers. *)

(* A discovery that goes on without drawing an id keeps what all calls rely  *)
(* on, if nobody has come to see a graph id that is still to be created.     *)
LEMMA CallsGoOn ==
  ASSUME CallsFit, NEW d \in Discoveries, NEW new \in Discovering,
         discovery' = [discovery EXCEPT ![d] = new],
         new.at # "create", new.at = "save" => new.read.edges \subseteq new.edges,
         used_ids' = used_ids, \A g \in used_ids : Unseen(g) => Unseen(g)'
  PROVE  CallsFit'
<1>1. discovery' \in [Discoveries -> Discovering] /\ discovery'[d] = new
  BY DEF CallsFit
<1>2. \A c \in Discoveries : c # d => discovery'[c] = discovery[c]
  BY DEF CallsFit
<1>3. ~ Drawing(d)' /\ (Waits(d, "save")' => new.at = "save")
  BY <1>1 DEF Waits, Drawing
<1>4. \A c \in Discoveries : Drawing(c)' =>
         /\ Drawing(c) /\ discovery'[c] = discovery[c]
         /\ discovery[c].graph \in used_ids /\ Unseen(discovery[c].graph)
  BY <1>2, <1>3 DEF CallsFit, Drawing, Waits
<1>5. ASSUME NEW c \in Discoveries, Drawing(c)'
      PROVE  discovery'[c].graph \in used_ids' /\ Unseen(discovery[c].graph)'
  BY <1>4, <1>5 DEF Unseen
<1>6. \A c \in Discoveries : Waits(c, "save")' => discovery'[c].read.edges \subseteq discovery'[c].edges
  BY <1>1, <1>2, <1>3 DEF CallsFit, Waits
<1>7. \A b, c \in Discoveries :
         Drawing(b)' /\ Drawing(c)' /\ discovery'[b].graph = discovery'[c].graph => b = c
  BY <1>4 DEF CallsFit
<1> QED BY <1>1, <1>5, <1>6, <1>7 DEF CallsFit, Unseen

(* A reader reads what is stored. *)
LEMMA ReadingFits ==
  ASSUME DraftsFit, NEW x \in drafts, DraftsRead' \subseteq DraftsRead \cup {x},
         UNCHANGED <<drafts, used_ids>>
  PROVE  DraftsFit' /\ \A g : Unseen(g) => Unseen(g)'
<1>1. x \in Drafts
  BY DEF DraftsFit
<1>2. \A y \in drafts : Dates(x, y)
  BY DEF DraftsFit, Dates
<1> QED BY <1>1, <1>2 DEF DraftsFit, Dates, Unseen

(* A save replaces the draft that its author has read, and an earlier        *)
(* revision of it is then nobody's to save over.                             *)
LEMMA SavingFits ==
  ASSUME DraftsFit, NEW y \in DraftsRead, y \in Drafts, NEW edges \in SUBSET Edges,
         Saves(y, edges), NEW new, new = NextRevision(y, edges),
         DraftsRead' \subseteq DraftsRead \cup {new}, UNCHANGED used_ids
  PROVE  /\ DraftsFit'
         /\ y \in drafts /\ new \in Drafts /\ drafts' = (drafts \ {y}) \cup {new}
         /\ \A g : Unseen(g) => Unseen(g)'
<1>1. PICK d \in drafts :
         /\ d.graph = y.graph /\ d.revision = y.revision /\ y.revision < MaxDraft
         /\ drafts' = (drafts \ {d}) \cup {new}
  BY DEF Saves, IsExpected
<1>2. y.revision \in Nat /\ y.graph # -1 /\ y.graph \in GraphIds
      /\ y.schema \in Schemas /\ y.revision \in 1..MaxDraft
  BY DraftShape DEF Drafts
<1>3. y = d
  BY <1>1, <1>2 DEF DraftsFit, Dates
<1>4. new.graph = y.graph /\ new.revision = y.revision + 1
  BY DEF NextRevision
<1>5. new \in Drafts
  BY <1>1, <1>2, DraftAssumption DEF Drafts, NextRevision
<1>6. drafts' \subseteq Drafts /\ DraftsRead' \subseteq Drafts \cup {NoDraft}
  BY <1>1, <1>5 DEF DraftsFit
<1>7. \A x \in drafts' \cup DraftsRead' : x = NoDraft \/ x.graph \in used_ids'
  BY <1>1, <1>3, <1>4, DraftShape DEF DraftsFit
<1>8. \A x, z \in drafts' : x.graph = z.graph => x = z
  BY <1>1, <1>3, <1>4 DEF DraftsFit
<1>9. ASSUME NEW x \in drafts', NEW z \in DraftsRead' PROVE Dates(z, x)
  <2>1. CASE x \in drafts \ {y} /\ z \in DraftsRead
    BY <2>1 DEF DraftsFit
  <2>2. CASE x \in drafts \ {y} /\ z = new
    BY <2>2, <1>1, <1>3, <1>4 DEF DraftsFit, Dates
  <2>3. CASE x = new /\ z \in DraftsRead
    <3> SUFFICES ASSUME z.graph = y.graph PROVE z.revision < new.revision
      BY <2>3, <1>4 DEF Dates
    <3>1. z # NoDraft
      BY <1>2 DEF NoDraft
    <3>2. z \in Drafts /\ z.revision \in Nat
      BY <2>3, <3>1, DraftShape DEF DraftsFit
    <3>3. z = y \/ z.revision < y.revision
      BY <2>3, <1>1, <1>3 DEF DraftsFit, Dates
    <3> QED BY <3>2, <3>3, <1>2, <1>4
  <2>4. CASE x = new /\ z = new
    BY <2>4 DEF Dates
  <2> QED BY <1>1, <1>3, <2>1, <2>2, <2>3, <2>4
<1>10. \A g : Unseen(g) => Unseen(g)'
  BY <1>1, <1>3, <1>4 DEF Unseen
<1>11. DraftsFit'
  <2> HIDE DEF Dates
  <2> QED BY <1>6, <1>7, <1>8, <1>9 DEF DraftsFit, Dates
<1> QED BY <1>1, <1>3, <1>5, <1>10, <1>11

-----------------------------------------------------------------------------
(* One discovery goes on; nothing is stored and nothing new is read. *)

(* A discovery moves to another operation than a draw or a save. *)
LEMMA DiscoveryMoves ==
  ASSUME DraftInv, NEW d \in Discoveries, NEW new \in Discovering,
         discovery' = [discovery EXCEPT ![d] = new],
         new.at \notin {"create", "save"},
         UNCHANGED <<schema, drafts, used_ids, seen, activating, in_force>>,
         recommended' \in [Discoveries -> [status : RunStatuses, graph : GraphIds]
                                           \cup {NoDiscovery}]
  PROVE  DraftInv'
<1> USE DEF DraftInv
<1>1. discovery' \in [Discoveries -> Discovering] /\ discovery'[d] = new
  BY DEF CallsFit
<1>2. \A c \in Discoveries : c # d => discovery'[c] = discovery[c]
  BY DEF CallsFit
<1>3. ~ Waits(d, "save")'
  BY <1>1 DEF Waits
<1>4. DraftsRead' \subseteq DraftsRead
  BY <1>2, <1>3 DEF DraftsRead, Waits
<1>5. DraftTypeOK'
  BY <1>1 DEF DraftTypeOK
<1>6. CallsFit'
  BY <1>4, CallsGoOn DEF Unseen
<1>7. DraftsFit'
  BY <1>4 DEF DraftsFit, Dates
<1> QED BY <1>5, <1>6, <1>7

(* Looking up, queueing, running and ending. *)
LEMMA DiscoveryKeeps ==
  ASSUME DraftInv, NEW d \in Discoveries,
         \/ DiscoveryStarts(d) \/ RunQueued(d) \/ DiscoveryRuns(d)
         \/ RunSucceeds(d) \/ RunFails(d) \/ DiscoveryStops(d)
  PROVE  DraftInv'
<1> DEFINE Rows == [status : RunStatuses, graph : GraphIds] \cup {NoDiscovery}
<1>1. drafts \subseteq Drafts /\ recommended \in [Discoveries -> Rows]
  BY DEF DraftInv, DraftTypeOK
<1>2. ASSUME NEW status \in RunStatuses, Records(d, status)
      PROVE  recommended' \in [Discoveries -> Rows]
  <2>1. discovery[d].graph \in GraphIds
    BY <1>1, <1>2, DraftShape DEF Records
  <2> QED BY <1>1, <1>2, <2>1 DEF Records
<1>3. [at |-> "idle"] \in Discovering
  BY DEF Discovering
<1>4. ASSUME DiscoveryEnds(d), recommended' \in [Discoveries -> Rows],
             UNCHANGED <<schema, drafts, used_ids, seen, activating, in_force>>
      PROVE  DraftInv'
  BY <1>3, <1>4, DiscoveryMoves DEF DiscoveryEnds
<1>5. ASSUME NEW at \in {"start", "recommend"}, ~ Waits(d, "idle"), Goes(d, at),
             recommended' \in [Discoveries -> Rows],
             UNCHANGED <<schema, drafts, used_ids, seen, activating, in_force>>
      PROVE  DraftInv'
  <2> DEFINE new == [at |-> at, schema |-> discovery[d].schema, graph |-> discovery[d].graph]
  <2>1. discovery[d].schema \in Schemas /\ discovery[d].graph \in Ids
    BY <1>5, DiscoveryShape DEF DraftInv
  <2>2. new \in Discovering /\ new.at = at
    BY <2>1 DEF Discovering, Started
  <2>3. discovery' = [discovery EXCEPT ![d] = new]
    BY <1>5 DEF Goes, GoesFor
  <2> HIDE DEF new
  <2> QED BY <1>5, <2>2, <2>3, DiscoveryMoves
<1>6. CASE DiscoveryStarts(d)
  <2>1. [at |-> "draft", schema |-> schema, graph |-> -1] \in Discovering
    BY <1>6 DEF DiscoveryStarts, DraftInv, DraftTypeOK, Discovering, Started, Ids
  <2> QED BY <1>1, <1>6, <2>1, DiscoveryMoves DEF DiscoveryStarts
<1>7. CASE RunQueued(d)
  BY <1>2, <1>4, <1>5, <1>7 DEF RunQueued, Waits, RunStatuses
<1>8. CASE DiscoveryRuns(d)
  BY <1>2, <1>5, <1>8 DEF DiscoveryRuns, Waits, RunStatuses
<1>9. CASE RunSucceeds(d) \/ RunFails(d)
  BY <1>2, <1>4, <1>9 DEF RunSucceeds, RunFails, RunStatuses
<1>10. CASE DiscoveryStops(d)
  BY <1>1, <1>4, <1>10 DEF DiscoveryStops
<1> QED BY <1>6, <1>7, <1>8, <1>9, <1>10

(* An existing draft is kept, or an id is drawn that nobody has seen. *)
LEMMA DraftLookedUpKeeps ==
  ASSUME DraftInv, NEW d \in Discoveries, DraftLookedUp(d)
  PROVE  DraftInv'
<1> USE DEF DraftInv
<1>1. discovery[d] \in Started
  BY DiscoveryShape DEF DraftLookedUp, Waits, Started, Recommended
<1>2. discovery[d].schema \in Schemas /\ discovery \in [Discoveries -> Discovering]
  BY <1>1 DEF Started, CallsFit
<1>3. CASE drafts # {} /\ GoesFor(d, "queue", CurrentDraft.graph) /\ UNCHANGED used_ids
  <2> DEFINE new == [at |-> "queue", schema |-> discovery[d].schema, graph |-> CurrentDraft.graph]
  <2>1. CurrentDraft.graph \in GraphIds
    BY <1>3, CurrentIsStored, DraftShape DEF DraftsFit
  <2>2. new \in Discovering /\ new.at = "queue"
    BY <1>2, <2>1 DEF Discovering, Started, Ids
  <2>3. discovery' = [discovery EXCEPT ![d] = new]
    BY <1>3 DEF GoesFor
  <2>4. recommended' \in [Discoveries -> [status : RunStatuses, graph : GraphIds] \cup {NoDiscovery}]
    BY DEF DraftLookedUp, DraftTypeOK
  <2> HIDE DEF new
  <2> QED BY <1>3, <2>2, <2>3, <2>4, DiscoveryMoves DEF DraftLookedUp
<1>4. CASE \E g \in GraphIds \ used_ids :
             /\ used_ids' = used_ids \cup {g}
             /\ GoesFor(d, "create", g)
  <2>1. PICK g \in GraphIds \ used_ids :
          /\ used_ids' = used_ids \cup {g}
          /\ GoesFor(d, "create", g)
    BY <1>4
  <2> DEFINE new == [at |-> "create", schema |-> discovery[d].schema, graph |-> g]
  <2>2. new \in Discovering /\ new.at = "create" /\ new.graph = g
    BY <1>2 DEF Discovering, Started, Ids
  <2>3. discovery' = [discovery EXCEPT ![d] = new]
    BY <2>1 DEF GoesFor
  <2> HIDE DEF new
  <2>4. /\ discovery' \in [Discoveries -> Discovering] /\ discovery'[d] = new
        /\ \A c \in Discoveries : c # d => discovery'[c] = discovery[c]
    BY <1>2, <2>2, <2>3
  <2>5. DraftsRead' = DraftsRead
    BY <2>2, <2>4 DEF DraftsRead, Waits, DraftLookedUp
  <2>6. Unseen(g)
    <3>1. \A x \in drafts \cup DraftsRead : x = NoDraft \/ x.graph \in used_ids
      BY DEF DraftsFit
    <3>2. g # -1 /\ NoDraft.graph = -1
      BY DraftAssumption DEF NoDraft
    <3> QED BY <3>1, <3>2 DEF Unseen
  <2>7. \A h : Unseen(h) => Unseen(h)'
    BY <2>5 DEF Unseen, DraftLookedUp
  <2>8. CallsFit'
    <3>1. ASSUME NEW c \in Discoveries, Drawing(c)'
          PROVE  discovery'[c].graph \in used_ids' /\ Unseen(discovery[c].graph)'
      <4>1. CASE c = d
        BY <2>1, <2>2, <2>4, <2>6, <2>7, <4>1 DEF Unseen
      <4>2. CASE c # d
        BY <2>1, <2>4, <2>7, <3>1, <4>2 DEF CallsFit, Drawing, Waits, Unseen
      <4> QED BY <4>1, <4>2
    <3>2. \A c \in Discoveries : Waits(c, "save")' =>
             discovery'[c].read.edges \subseteq discovery'[c].edges
      BY <2>2, <2>4 DEF CallsFit, Waits
    <3>3. \A b \in Discoveries \ {d} : Drawing(b)' =>
             Drawing(b) /\ discovery'[b].graph = discovery[b].graph /\ discovery[b].graph # g
      BY <2>4 DEF CallsFit, Drawing, Waits
    <3>4. \A b, c \in Discoveries :
             Drawing(b)' /\ Drawing(c)' /\ discovery'[b].graph = discovery'[c].graph => b = c
      BY <2>2, <2>4, <3>3 DEF CallsFit
    <3> QED BY <2>4, <3>1, <3>2, <3>4 DEF CallsFit
  <2>9. DraftsFit'
    BY <2>1, <2>5 DEF DraftsFit, Dates, DraftLookedUp
  <2>10. DraftTypeOK'
    BY <2>1, <2>4 DEF DraftTypeOK, DraftLookedUp
  <2> QED BY <2>8, <2>9, <2>10
<1> QED BY <1>3, <1>4 DEF DraftLookedUp

(* The draft of an id that nobody has seen. *)
LEMMA DraftCreatedKeeps ==
  ASSUME DraftInv, NEW d \in Discoveries, DraftCreated(d)
  PROVE  DraftInv' /\ drafts \subseteq drafts'
<1> USE DEF DraftInv
<1> DEFINE g == discovery[d].graph
           x == [graph |-> g, schema |-> discovery[d].schema, revision |-> 1,
                 edges |-> DeclaredEdges[discovery[d].schema]]
           new == [at |-> "queue", schema |-> discovery[d].schema, graph |-> g]
<1>1. g \in used_ids /\ g \in GraphIds /\ Unseen(g) /\ discovery[d].schema \in Schemas
  BY DiscoveryShape DEF DraftCreated, CallsFit, Drawing, Waits, DraftTypeOK
<1>2. x \in Drafts /\ x.graph = g
  BY <1>1, DraftAssumption, DeclaredAssumption DEF Drafts
<1>3. new \in Discovering /\ new.at = "queue"
  BY <1>1 DEF Discovering, Started, Ids
<1>4. discovery' = [discovery EXCEPT ![d] = new] /\ drafts' = drafts \cup {x}
  BY DEF DraftCreated, Goes, GoesFor
<1> HIDE DEF x, new
<1>5. /\ discovery' \in [Discoveries -> Discovering] /\ discovery'[d] = new
      /\ \A c \in Discoveries : c # d => discovery'[c] = discovery[c]
  BY <1>3, <1>4 DEF CallsFit
<1>6. DraftsRead' \subseteq DraftsRead
  BY <1>3, <1>5 DEF DraftsRead, Waits, DraftCreated
<1>7. \A c \in Discoveries : Drawing(c)' =>
         Drawing(c) /\ discovery'[c] = discovery[c] /\ discovery[c].graph # g
  BY <1>3, <1>5 DEF CallsFit, Drawing, Waits, DraftCreated
<1>8. ASSUME NEW c \in Discoveries, Drawing(c)'
      PROVE  discovery'[c].graph \in used_ids' /\ Unseen(discovery[c].graph)'
  BY <1>2, <1>4, <1>6, <1>7, <1>8 DEF CallsFit, Unseen, DraftCreated
<1>9. \A c \in Discoveries : Waits(c, "save")' =>
         discovery'[c].read.edges \subseteq discovery'[c].edges
  BY <1>3, <1>5 DEF CallsFit, Waits
<1>10. CallsFit'
  BY <1>5, <1>7, <1>8, <1>9 DEF CallsFit
<1>11. DraftsFit'
  <2>1. \A y \in drafts \cup DraftsRead : y.graph # g
    BY <1>1 DEF Unseen
  <2> QED BY <1>1, <1>2, <1>4, <1>6, <2>1 DEF DraftsFit, Dates, DraftCreated
<1>12. DraftTypeOK'
  BY <1>2, <1>4, <1>5 DEF DraftTypeOK, DraftCreated
<1> QED BY <1>4, <1>10, <1>11, <1>12

(* The model has answered: the draft that is current now is read. *)
LEMMA RecommendsKeeps ==
  ASSUME DraftInv, NEW d \in Discoveries, NEW edges \in SUBSET Edges, Recommends(d, edges)
  PROVE  DraftInv'
<1> USE DEF DraftInv
<1> DEFINE new == [at |-> IF edges \subseteq CurrentDraft.edges THEN "succeed" ELSE "save",
                   schema |-> discovery[d].schema, graph |-> discovery[d].graph,
                   read |-> CurrentDraft, edges |-> CurrentDraft.edges \cup edges]
<1>1. CurrentDraft \in drafts /\ CurrentDraft \in Drafts /\ CurrentDraft.edges \in SUBSET Edges
  BY CurrentIsStored, DraftShape DEF Recommends, DraftsFit
<1>2. discovery[d].schema \in Schemas /\ discovery[d].graph \in Ids
  BY DiscoveryShape DEF Recommends, Waits
<1>3. new \in Discovering
  BY <1>1, <1>2 DEF Discovering, Recommended
<1>4. new.at # "create" /\ new.read = CurrentDraft /\ new.read.edges \subseteq new.edges
  OBVIOUS
<1>5. discovery' = [discovery EXCEPT ![d] = new]
  BY DEF Recommends
<1> HIDE DEF new
<1>6. /\ discovery' \in [Discoveries -> Discovering] /\ discovery'[d] = new
      /\ \A c \in Discoveries : c # d => discovery'[c] = discovery[c]
  BY <1>3, <1>5 DEF CallsFit
<1>7. DraftsRead' \subseteq DraftsRead \cup {CurrentDraft}
  BY <1>4, <1>6 DEF DraftsRead, Waits, Recommends
<1>8. DraftsFit' /\ \A g : Unseen(g) => Unseen(g)'
  BY <1>1, <1>7, ReadingFits DEF Recommends
<1>9. CallsFit'
  BY <1>3, <1>4, <1>5, <1>8, CallsGoOn DEF Recommends
<1>10. DraftTypeOK'
  BY <1>6 DEF DraftTypeOK, Recommends
<1> QED BY <1>8, <1>9, <1>10

(* A recommendation adds its edges to the draft that it has read. *)
LEMMA RecommendationSavedKeeps ==
  ASSUME DraftInv, NEW d \in Discoveries, RecommendationSaved(d)
  PROVE  /\ DraftInv'
         /\ \E y \in drafts, n \in drafts' :
               /\ drafts' = (drafts \ {y}) \cup {n}
               /\ n.graph = y.graph /\ y.edges \subseteq n.edges
<1> USE DEF DraftInv
<1> DEFINE y == discovery[d].read
           n == NextRevision(y, discovery[d].edges)
           new == [at |-> "succeed", schema |-> discovery[d].schema,
                   graph |-> discovery[d].graph]
<1>1. /\ discovery[d] \in Recommended /\ Waits(d, "save")
      /\ discovery[d].schema \in Schemas /\ discovery[d].graph \in Ids
  BY DiscoveryShape DEF RecommendationSaved, Waits
<1>2. y \in Drafts /\ discovery[d].edges \in SUBSET Edges
  BY <1>1 DEF Recommended
<1>3. y \in DraftsRead /\ y.edges \subseteq discovery[d].edges
  BY <1>1 DEF DraftsRead, CallsFit
<1>4. new \in Discovering /\ new.at = "succeed"
  BY <1>1 DEF Discovering, Started
<1>5. discovery' = [discovery EXCEPT ![d] = new]
  BY DEF RecommendationSaved, Goes, GoesFor
<1>6. Saves(y, discovery[d].edges)
  BY DEF RecommendationSaved
<1>7. n.graph = y.graph /\ n.edges = discovery[d].edges
  BY DEF NextRevision
<1> HIDE DEF new
<1>8. /\ discovery' \in [Discoveries -> Discovering] /\ discovery'[d] = new
      /\ \A c \in Discoveries : c # d => discovery'[c] = discovery[c]
  BY <1>4, <1>5 DEF CallsFit
<1>9. DraftsRead' \subseteq DraftsRead
  BY <1>4, <1>8 DEF DraftsRead, Waits, RecommendationSaved
<1>10. /\ DraftsFit' /\ y \in drafts /\ n \in Drafts /\ drafts' = (drafts \ {y}) \cup {n}
       /\ \A g : Unseen(g) => Unseen(g)'
  <2>1. used_ids' = used_ids
    BY DEF RecommendationSaved
  <2> HIDE DEF y
  <2> QED BY <1>2, <1>3, <1>6, <1>9, <2>1, SavingFits
<1>11. CallsFit'
  BY <1>4, <1>5, <1>10, CallsGoOn DEF RecommendationSaved
<1>12. DraftTypeOK'
  BY <1>8, <1>10 DEF DraftTypeOK, RecommendationSaved, DraftsFit
<1> HIDE DEF y, n
<1> QED BY <1>3, <1>7, <1>10, <1>11, <1>12

(* An editor saves over the draft that it has read. *)
LEMMA PatchGraphKeeps ==
  ASSUME DraftInv, NEW e \in Editors, NEW edges \in SUBSET Edges, PatchGraph(e, edges)
  PROVE  /\ DraftInv'
         /\ seen[e] \in drafts /\ seen'[e] \in drafts'
         /\ seen'[e].revision = seen[e].revision + 1
         /\ drafts' = (drafts \ {seen[e]}) \cup {seen'[e]}
<1> USE DEF DraftInv
<1> DEFINE y == seen[e]
           n == NextRevision(y, edges)
<1>1. y \in Drafts /\ y \in DraftsRead /\ seen \in [Editors -> Drafts \cup {NoDraft}]
  BY DEF PatchGraph, DraftTypeOK, DraftsRead
<1>2. n.revision = y.revision + 1
  BY DEF NextRevision
<1>3. seen' = [seen EXCEPT ![e] = n]
  BY DEF PatchGraph
<1>4. Saves(y, edges) /\ UNCHANGED used_ids /\ UNCHANGED discovery
  BY DEF PatchGraph
<1>5. /\ seen'[e] = n
      /\ \A c \in Editors : c # e => seen'[c] = seen[c]
  BY <1>1, <1>3
<1>6. DraftsRead' \subseteq DraftsRead \cup {n}
  <2> HIDE DEF n, y
  <2> QED BY <1>4, <1>5 DEF DraftsRead, Waits
<1>7. /\ DraftsFit' /\ y \in drafts /\ n \in Drafts /\ drafts' = (drafts \ {y}) \cup {n}
      /\ \A g : Unseen(g) => Unseen(g)'
  <2> HIDE DEF y
  <2> QED BY <1>1, <1>4, <1>6, SavingFits
<1> HIDE DEF y, n
<1>8. CallsFit'
  BY <1>4, <1>7 DEF CallsFit, Drawing, Waits, Unseen
<1>9. DraftTypeOK'
  BY <1>1, <1>3, <1>7 DEF DraftTypeOK, PatchGraph, DraftsFit
<1> QED BY <1>2, <1>5, <1>7, <1>8, <1>9 DEF y

(* An editor reads the current draft. *)
LEMMA ReadDraftKeeps ==
  ASSUME DraftInv, NEW e \in Editors, ReadDraft(e)
  PROVE  DraftInv'
<1> USE DEF DraftInv
<1>1. CurrentDraft \in drafts /\ CurrentDraft \in Drafts
  BY CurrentExists DEF ReadDraft, DraftsFit
<1>2. DraftsRead' \subseteq DraftsRead \cup {CurrentDraft}
  BY DEF ReadDraft, DraftsRead, Waits, DraftTypeOK
<1>3. DraftsFit' /\ \A g : Unseen(g) => Unseen(g)'
  BY <1>1, <1>2, ReadingFits DEF ReadDraft
<1>4. CallsFit'
  BY <1>3 DEF CallsFit, Drawing, Waits, Unseen, ReadDraft
<1>5. DraftTypeOK'
  BY <1>1 DEF DraftTypeOK, ReadDraft
<1> QED BY <1>3, <1>4, <1>5

(* What leaves readers and calls alone, and stores nothing. *)
LEMMA OthersKeep ==
  ASSUME DraftInv,
         \/ \E f \in Schemas : PublishSchema(f)
         \/ DeleteSource
         \/ \E e \in Editors : ActivationStarts(e) \/ ActivationCommits(e)
         \/ UNCHANGED draft_vars
  PROVE  DraftInv'
<1> USE DEF DraftInv
<1>1. /\ UNCHANGED <<used_ids, discovery, seen>>
      /\ drafts' \subseteq drafts
  BY DEF PublishSchema, DeleteSource, ActivationStarts, ActivationCommits, draft_vars
<1>2. DraftsRead' = DraftsRead
  BY <1>1 DEF DraftsRead, Waits
<1>3. DraftsFit'
  BY <1>1, <1>2 DEF DraftsFit, Dates
<1>4. CallsFit'
  BY <1>1, <1>2 DEF CallsFit, Drawing, Waits, Unseen
<1>5. DraftTypeOK'
  <2>1. CASE \E f \in Schemas : PublishSchema(f)
    BY <2>1 DEF DraftTypeOK, PublishSchema
  <2>2. CASE DeleteSource
    BY <2>2 DEF DraftTypeOK, DeleteSource
  <2>3. ASSUME NEW e \in Editors, ActivationStarts(e) PROVE DraftTypeOK'
    <3>1. CurrentDraft \in Drafts
      <4>1. seen[e] \in Drafts
        BY <2>3 DEF ActivationStarts, DraftTypeOK
      <4>2. CurrentDraft.graph # -1
        BY <2>3, <4>1, DraftShape DEF ActivationStarts
      <4>3. CurrentDraft # NoDraft
        BY <4>2 DEF NoDraft
      <4> QED BY <4>3, CurrentExists DEF DraftsFit
    <3> QED BY <2>3, <3>1 DEF DraftTypeOK, ActivationStarts
  <2>4. ASSUME NEW e \in Editors, ActivationCommits(e) PROVE DraftTypeOK'
    <3>1. activating[e] \in Drafts
      BY <2>4 DEF ActivationCommits, DraftTypeOK
    <3>2. [schema |-> activating[e].schema, edges |-> activating[e].edges]
            \in [schema : Schemas, edges : SUBSET Edges]
      BY <3>1, DraftShape
    <3> QED BY <2>4, <3>2 DEF DraftTypeOK, ActivationCommits
  <2>5. CASE UNCHANGED draft_vars
    BY <2>5 DEF DraftTypeOK, draft_vars
  <2> QED BY <2>1, <2>2, <2>3, <2>4, <2>5
<1> QED BY <1>3, <1>4, <1>5

(* Nothing is stored, read or drawn. *)
LEMMA DraftInvInit == DraftInit => DraftInv
<1> SUFFICES ASSUME DraftInit PROVE DraftInv
  OBVIOUS
<1>1. DraftsRead = {} \/ DraftsRead = {NoDraft}
  BY DEF DraftInit, DraftsRead, Waits
<1>2. DraftsFit
  BY <1>1 DEF DraftInit, DraftsFit
<1>3. CallsFit
  BY DEF DraftInit, CallsFit, Discovering, Drawing, Waits
<1>4. DraftTypeOK
  BY DEF DraftInit, DraftTypeOK
<1> QED BY <1>2, <1>3, <1>4 DEF DraftInv

(* Every step keeps what readers and calls rely on. *)
LEMMA DraftInvStep == DraftInv /\ [DraftNext]_draft_vars => DraftInv'
<1> SUFFICES ASSUME DraftInv, [DraftNext]_draft_vars PROVE DraftInv'
  OBVIOUS
<1>1. ASSUME NEW d \in Discoveries,
             \/ DiscoveryStarts(d) \/ RunQueued(d) \/ DiscoveryRuns(d)
             \/ RunSucceeds(d) \/ RunFails(d) \/ DiscoveryStops(d)
      PROVE  DraftInv'
  BY <1>1, DiscoveryKeeps
<1>2. ASSUME NEW d \in Discoveries, DraftLookedUp(d) \/ DraftCreated(d) \/ RecommendationSaved(d)
      PROVE  DraftInv'
  BY <1>2, DraftLookedUpKeeps, DraftCreatedKeeps, RecommendationSavedKeeps
<1>3. ASSUME NEW d \in Discoveries, NEW edges \in SUBSET Edges, Recommends(d, edges)
      PROVE  DraftInv'
  BY <1>3, RecommendsKeeps
<1>4. ASSUME NEW e \in Editors, NEW edges \in SUBSET Edges, PatchGraph(e, edges)
      PROVE  DraftInv'
  BY <1>4, PatchGraphKeeps
<1>5. ASSUME NEW e \in Editors, ReadDraft(e) PROVE DraftInv'
  BY <1>5, ReadDraftKeeps
<1>6. CASE \/ \E f \in Schemas : PublishSchema(f)
           \/ DeleteSource
           \/ \E e \in Editors : ActivationStarts(e) \/ ActivationCommits(e)
           \/ UNCHANGED draft_vars
  BY <1>6, OthersKeep
<1> QED BY <1>1, <1>2, <1>3, <1>4, <1>5, <1>6 DEF DraftNext

(* Whoever still holds the stored revision of a draft holds the draft. *)
THEOREM DraftInvariant == DraftSpec => []DraftInv
BY DraftInvInit, DraftInvStep, PTL DEF DraftSpec

(* An edge of a stored draft stays, or its source goes, or an editor who has *)
(* read exactly this draft leaves it out.                                    *)
Kept(x, edge) ==
  \/ schema' = Unpublished
  \/ \E next \in drafts' : next.graph = x.graph /\ edge \in next.edges
  \/ \E e \in Editors : EditedBy(e, x)

LEMMA EdgesStay ==
  ASSUME DraftInv, DraftNext, NEW x \in drafts, NEW edge \in x.edges
  PROVE  Kept(x, edge)
<1>1. CASE x \in drafts'
  BY <1>1 DEF Kept
<1>2. CASE DeleteSource
  BY <1>2 DEF Kept, DeleteSource
<1>3. ASSUME NEW d \in Discoveries, RecommendationSaved(d) PROVE Kept(x, edge)
  <2>1. PICK y \in drafts, n \in drafts' :
          /\ drafts' = (drafts \ {y}) \cup {n}
          /\ n.graph = y.graph /\ y.edges \subseteq n.edges
    BY <1>3, RecommendationSavedKeeps
  <2> QED BY <2>1 DEF Kept
<1>4. ASSUME NEW e \in Editors, NEW edges \in SUBSET Edges, PatchGraph(e, edges)
      PROVE  Kept(x, edge)
  <2>1. /\ seen'[e] \in drafts' /\ seen'[e].revision = seen[e].revision + 1
        /\ drafts' = (drafts \ {seen[e]}) \cup {seen'[e]}
    BY <1>4, PatchGraphKeeps
  <2> QED BY <2>1 DEF Kept, EditedBy
<1>5. ASSUME NEW d \in Discoveries, DraftCreated(d) PROVE Kept(x, edge)
  BY <1>1, <1>5, DraftCreatedKeeps
<1>6. CASE UNCHANGED drafts
  BY <1>1, <1>6
<1>7. \/ DeleteSource
      \/ \E d \in Discoveries : RecommendationSaved(d) \/ DraftCreated(d)
      \/ \E e \in Editors : \E edges \in SUBSET Edges : PatchGraph(e, edges)
      \/ UNCHANGED drafts
  BY DEF DraftNext, PublishSchema, DiscoveryStarts, DraftLookedUp, RunQueued, DiscoveryRuns,
         RunSucceeds, RunFails, Recommends, DiscoveryStops, ReadDraft, ActivationStarts,
         ActivationCommits
<1> QED BY <1>2, <1>3, <1>4, <1>5, <1>6, <1>7

(* What comes into force was validated for the published schema. *)
LEMMA ActivationHonours ==
  ASSUME DraftNext, in_force' # in_force, in_force' # NoBinding
  PROVE  in_force'.schema = schema
<1>1. PICK e \in Editors : ActivationCommits(e)
  BY DEF DraftNext, PublishSchema, DeleteSource, DiscoveryStarts, DraftLookedUp, DraftCreated,
         RunQueued, DiscoveryRuns, RecommendationSaved, RunSucceeds, RunFails, Recommends,
         DiscoveryStops, ReadDraft, ActivationStarts, PatchGraph
<1> QED BY <1>1 DEF ActivationCommits, FingerprintMatches

(* No recommendation and no other editor overwrites an edge, however many of *)
(* them write one draft and however often its source is imported again.      *)
THEOREM DraftsStayHonoured == DraftSpec => DraftsAreHonoured
<1>1. DraftInv /\ [DraftNext]_draft_vars =>
        [ /\ \A d \in drafts : \A edge \in d.edges :
               \/ schema' = Unpublished
               \/ \E next \in drafts' : next.graph = d.graph /\ edge \in next.edges
               \/ \E e \in Editors : EditedBy(e, d)
          /\ in_force' # in_force /\ in_force' # NoBinding => in_force'.schema = schema
        ]_draft_vars
  BY EdgesStay, ActivationHonours DEF Kept
<1> QED BY <1>1, DraftInvariant, PTL DEF DraftSpec, DraftsAreHonoured

-----------------------------------------------------------------------------
(***************************************************************************)
(* Routes, for any graph, rules and questions.                             *)
(*                                                                         *)
(* The steps of a route are a tree because every path is a walk from the   *)
(* included roles through roles that are not: PathsAreWalks unfolds the    *)
(* recursion of PathsTo.  That NO_PATH is right whatever the order of the  *)
(* search is an argument about walks that have no step left: the roles to  *)
(* which they lead are closed under the directions that the edges allow,   *)
(* and walks never stop for want of length, for their roles are distinct.  *)
(***************************************************************************)
MaxHops == Cardinality(GraphNodes)
StepRecords == [edge : EdgeIds, existing : GraphNodes, introduced : GraphNodes]

(* A step across one of these edges, in a direction that it allows. *)
Crosses(s, edges) ==
  /\ s \in StepRecords /\ s.edge \in edges
  /\ {s.existing, s.introduced} = Ends(s.edge)
  /\ s.introduced # EdgeOf[s.edge].preserve

(* JoinTree, of any steps. *)
IsJoinTree(steps, root, edges) ==
  /\ steps \in Seq(StepRecords)
  /\ \A i \in 1 .. Len(steps) :
       /\ Crosses(steps[i], edges)
       /\ steps[i].introduced # root
       /\ \A j \in 1 .. i - 1 : steps[j].introduced # steps[i].introduced
       /\ steps[i].existing = root \/ \E j \in 1 .. i - 1 : steps[j].introduced = steps[i].existing

(* A path that leaves the included roles at its first step, and goes on from *)
(* there through roles that are neither included nor on it.                  *)
IsWalk(path, included, edges) ==
  /\ path \in Seq(StepRecords)
  /\ \A i \in 1 .. Len(path) :
       /\ Crosses(path[i], edges)
       /\ path[i].introduced \notin included
       /\ \A j \in 1 .. i - 1 : path[j].introduced # path[i].introduced
       /\ IF i = 1 THEN path[i].existing \in included
          ELSE path[i].existing = path[i - 1].introduced

(* Every role of the route is asked for, or leads on. *)
HasNoLooseEnd(steps) ==
  \A i \in 1 .. Len(steps) :
    \/ steps[i].introduced \in Required
    \/ \E j \in 1 .. Len(steps) : steps[j].existing = steps[i].introduced

Unreachable(root) == ~ (Required \subseteq ReachedBy(Directed(graph.edges), root))

PhaseFits ==
  /\ route.phase = "asked" => route = Unrouted
  /\ route.phase \in {"ruled", "searching", "resolved"} => route.root \in GraphNodes
  /\ route.phase = "ruled" => route.rule # 0 /\ route.left \in Seq(graph.edges)
  /\ route.phase = "searching" =>
       /\ route.rule = 0 /\ route.left \in Seq(GraphNodes)
       /\ ToSet(route.left) \subseteq Required /\ Required \subseteq Included \cup ToSet(route.left)
       /\ HasNoLooseEnd(route.steps)
  /\ route.phase = "resolved" =>
       Required \subseteq Included /\ (route.rule = 0 => HasNoLooseEnd(route.steps))
  /\ route.phase = "no_path" /\ route.root # NoNode /\ route.rule = 0 => Unreachable(route.root)

RouteInv ==
  /\ RouteTypeOK
  /\ IsJoinTree(route.steps, route.root, graph.edges)
  /\ PhaseFits

-----------------------------------------------------------------------------
(* A set that has 0, and with a number below n the next one, has all to n.   *)
LEMMA Counting ==
  ASSUME NEW n \in Nat, NEW S, 0 \in S, \A m \in 0 .. n - 1 : m \in S => m + 1 \in S
  PROVE  \A m \in 0 .. n : m \in S
<1> DEFINE Missed == {m \in 0 .. n : m \notin S}
           R == OpToRel(<, Nat)
<1>1. R = {pair \in Nat \X Nat : pair[1] < pair[2]}
  BY DEF OpToRel
<1> SUFFICES ASSUME Missed # {}
             PROVE  FALSE
  OBVIOUS
<1>2. Missed \subseteq Nat
  OBVIOUS
<1>3. \E x \in Missed : \A y \in Missed : ~ (<<y, x>> \in R)
  BY <1>2, NatLessThanWellFounded, WFMin
<1> HIDE DEF R
<1>4. PICK x \in Missed : \A y \in Missed : ~ (<<y, x>> \in R)
  BY <1>3
<1>5. x \in Nat /\ x # 0 /\ x <= n
  OBVIOUS
<1>6. x - 1 \in 0 .. n - 1 /\ <<x - 1, x>> \in R /\ (x - 1) + 1 = x
  BY <1>1, <1>5
<1>7. x - 1 \notin Missed
  BY <1>4, <1>6
<1>8. x - 1 \in S
  BY <1>5, <1>6, <1>7
<1>9. x \in S
  BY <1>6, <1>8
<1> QED
  BY <1>9

(* g is defined by recursion up to k: F gives its value at m from the one    *)
(* before.                                                                   *)
IsRecursive(g, k, D, base, F) ==
  /\ g \in [0 .. k -> D] /\ g[0] = base
  /\ \A m \in 1 .. k : g[m] = F[m][g[m - 1]]

LEMMA Recursion ==
  ASSUME NEW n \in Nat, NEW D, NEW base \in D, NEW F \in [1 .. n -> [D -> D]]
  PROVE  \E g : IsRecursive(g, n, D, base, F)
<1> DEFINE Defines(g, k) == IsRecursive(g, k, D, base, F)
           S == {k \in 0 .. n : \E g : Defines(g, k)}
<1>1. 0 \in S
  <2> DEFINE g == [m \in 0 .. 0 |-> base]
  <2>1. Defines(g, 0)
    <3>1. 0 \in 0 .. 0
      OBVIOUS
    <3> QED
      BY <3>1 DEF IsRecursive
  <2> HIDE DEF g, Defines
  <2> QED
    BY <2>1
<1>2. ASSUME NEW k \in 0 .. n - 1, k \in S
      PROVE  k + 1 \in S
  <2>1. PICK g : Defines(g, k)
    BY <1>2
  <2> DEFINE next == F[k + 1][g[k]]
             h == [m \in 0 .. k + 1 |-> IF m = k + 1 THEN next ELSE g[m]]
  <2>2. k \in Nat /\ k \in 0 .. k /\ g[k] \in D /\ k + 1 \in 1 .. n
    BY <2>1 DEF IsRecursive
  <2>3. next \in D
    BY <2>2
  <2> HIDE DEF next
  <2>4. h \in [0 .. k + 1 -> D] /\ h[0] = base /\ h[k + 1] = next /\ \A m \in 0 .. k : h[m] = g[m]
    BY <2>1, <2>2, <2>3 DEF IsRecursive
  <2> HIDE DEF h
  <2>5. ASSUME NEW m \in 1 .. k + 1
        PROVE  h[m] = F[m][h[m - 1]]
    <3>1. CASE m = k + 1
      <4>1. m - 1 = k /\ h[m - 1] = g[k]
        BY <3>1, <2>2, <2>4
      <4> QED
        BY <3>1, <4>1, <2>4 DEF next
    <3>2. CASE m # k + 1
      <4>1. m \in 1 .. k /\ m - 1 \in 0 .. k /\ m \in 0 .. k
        BY <3>2, <2>2
      <4> QED
        BY <4>1, <2>1, <2>4 DEF IsRecursive
    <3> QED
      BY <3>1, <3>2
  <2>6. Defines(h, k + 1)
    BY <2>4, <2>5 DEF IsRecursive
  <2>7. k + 1 \in 0 .. n
    BY <2>2
  <2> QED
    BY <2>6, <2>7
<1> HIDE DEF S
<1>3. n \in S
  <2>1. \A k \in 0 .. n : k \in S
    BY <1>1, <1>2, Counting
  <2> QED
    BY <2>1
<1> QED
  BY <1>3 DEF S

LEMMA MinimumIsThere ==
  ASSUME NEW S \in SUBSET Nat, S # {}
  PROVE  /\ Min(S) \in S
         /\ \E m \in S : \A y \in S : m <= y
<1> DEFINE R == OpToRel(<, Nat)
<1>1. \E x \in S : \A y \in S : ~ (<<y, x>> \in R)
  BY NatLessThanWellFounded, WFMin
<1>2. R = {pair \in Nat \X Nat : pair[1] < pair[2]}
  BY DEF OpToRel
<1> HIDE DEF R
<1>3. PICK x \in S : \A y \in S : ~ (<<y, x>> \in R)
  BY <1>1
<1>4. ASSUME NEW y \in S
      PROVE  x <= y
  <2>1. x \in Nat /\ y \in Nat /\ ~ (<<y, x>> \in R)
    BY <1>3
  <2>2. ~ (y < x)
    BY <2>1, <1>2
  <2> QED
    BY <2>1, <2>2
<1>5. \E m \in S : \A y \in S : m <= y
  BY <1>4
<1> QED
  BY <1>5 DEF Min

LEMMA HopsAreCounted == RouteAssumption => MaxHops \in Nat /\ IsFiniteSet(GraphNodes)
BY FS_CardinalityType DEF MaxHops, RouteAssumption

(* What is reached from a role of a set that no pair leaves is in the set.   *)
LEMMA ReachedStays ==
  ASSUME RouteAssumption, NEW pairs, NEW start, NEW closed, start \in closed,
         \A p \in pairs : p[1] \in closed => p[2] \in closed
  PROVE  ReachedBy(pairs, start) \subseteq closed
<1> DEFINE All == {start} \cup {p[2] : p \in pairs}
           D == SUBSET All
           From(X) == X \cup {p[2] : p \in {q \in pairs : q[1] \in X}}
           F == [m \in 1 .. MaxHops |-> [X \in D |-> From(X)]]
           Recurs(g) == g = [n \in 0 .. MaxHops |-> IF n = 0 THEN {start} ELSE From(g[n - 1])]
           Reach == CHOOSE g : Recurs(g)
           S == {n \in 0 .. MaxHops : Reach[n] \subseteq closed}
<1>1. MaxHops \in Nat
  BY HopsAreCounted
<1>2. \E g : Recurs(g)
  <2>1. {start} \in D
    OBVIOUS
  <2>2. \A X \in D : From(X) \in D
    OBVIOUS
  <2>3. F \in [1 .. MaxHops -> [D -> D]]
    BY <2>2
  <2>4. \A m \in 1 .. MaxHops, X \in D : F[m][X] = From(X)
    OBVIOUS
  <2> HIDE DEF F, D, From
  <2>5. PICK g : IsRecursive(g, MaxHops, D, {start}, F)
    BY <1>1, <2>1, <2>3, Recursion
  <2>9. /\ g \in [0 .. MaxHops -> D] /\ g[0] = {start}
        /\ \A m \in 1 .. MaxHops : g[m] = F[m][g[m - 1]]
    BY <2>5 DEF IsRecursive
  <2>6. \A n \in 0 .. MaxHops : g[n] = IF n = 0 THEN {start} ELSE From(g[n - 1])
    <3> SUFFICES ASSUME NEW n \in 0 .. MaxHops, n # 0
                 PROVE  g[n] = From(g[n - 1])
      BY <2>9
    <3>1. n \in 1 .. MaxHops /\ n - 1 \in 0 .. MaxHops
      BY <1>1
    <3>2. g[n - 1] \in D
      BY <3>1, <2>9
    <3> QED
      BY <3>1, <3>2, <2>4, <2>9
  <2>7. g = [n \in 0 .. MaxHops |-> g[n]]
    BY <2>9
  <2>8. Recurs(g)
    BY <2>6, <2>7
  <2> QED
    BY <2>8
<1>3. Recurs(Reach)
  BY <1>2
<1>4. ReachedBy(pairs, start) = Reach[MaxHops]
  BY DEF ReachedBy, MaxHops
<1> HIDE DEF Reach
<1>5. Reach[0] = {start} /\ \A n \in 1 .. MaxHops : Reach[n] = From(Reach[n - 1])
  <2>1. 0 \in 0 .. MaxHops /\ \A n \in 1 .. MaxHops : n \in 0 .. MaxHops /\ n # 0
    BY <1>1
  <2> HIDE DEF From
  <2> QED
    BY <1>3, <2>1
<1>6. 0 \in S
  BY <1>1, <1>5
<1>7. ASSUME NEW n \in 0 .. MaxHops - 1, n \in S
      PROVE  n + 1 \in S
  <2>1. n + 1 \in 1 .. MaxHops /\ (n + 1) - 1 = n /\ n + 1 \in 0 .. MaxHops
    BY <1>1
  <2>2. Reach[n + 1] = From(Reach[n])
    BY <2>1, <1>5
  <2>3. Reach[n] \subseteq closed
    BY <1>7
  <2>4. From(Reach[n]) \subseteq closed
    BY <2>3
  <2> HIDE DEF From
  <2> QED
    BY <2>1, <2>2, <2>4
<1>8. MaxHops \in S
  <2> HIDE DEF S
  <2>1. \A n \in 0 .. MaxHops : n \in S
    BY <1>1, <1>6, <1>7, Counting
  <2> QED
    BY <1>1, <2>1
<1> QED
  BY <1>4, <1>8

-----------------------------------------------------------------------------
Costs == Nat \X Nat \X Nat

LEMMA WeightsAreCounted ==
  ASSUME RouteAssumption, NEW e \in EdgeIds
  PROVE  Risk(e) \in Nat /\ CardinalityRisk(e) \in Nat /\ EdgeOf[e].priority \in Nat
BY DEF RouteAssumption, Risk, CardinalityRisk

LEMMA CostIsCounted ==
  ASSUME RouteAssumption, NEW steps \in Seq(StepRecords)
  PROVE  PathCost(steps) \in Costs
<1> DEFINE n == Len(steps)
           edge(m) == steps[m].edge
           Next(m, x) == <<x[1] + Risk(edge(m)) + CardinalityRisk(edge(m)),
                           x[2] + EdgeOf[edge(m)].priority, x[3] + 1>>
           F == [m \in 1 .. n |-> [x \in Costs |-> Next(m, x)]]
           Recurs(g) == g = [m \in 0 .. n |-> IF m = 0 THEN <<0, 0, 0>> ELSE Next(m, g[m - 1])]
           Cost == CHOOSE g : Recurs(g)
           S == {m \in 0 .. n : Cost[m] \in Costs}
<1>1. n \in Nat /\ \A m \in 1 .. n : edge(m) \in EdgeIds
  <2> HIDE DEF F, Recurs, Cost, S, Next
  <2>1. n \in Nat /\ \A m \in 1 .. n : steps[m] \in StepRecords
    OBVIOUS
  <2>2. \A s \in StepRecords : s.edge \in EdgeIds
    BY DEF StepRecords
  <2> QED
    BY <2>1, <2>2
<1>2. <<0, 0, 0>> \in Costs
  BY DEF Costs
<1>3. ASSUME NEW m \in 1 .. n, NEW x \in Costs
      PROVE  Next(m, x) \in Costs
  <2>1. x[1] \in Nat /\ x[2] \in Nat /\ x[3] \in Nat
    BY DEF Costs
  <2>2. Risk(edge(m)) \in Nat /\ CardinalityRisk(edge(m)) \in Nat /\ EdgeOf[edge(m)].priority \in Nat
    BY <1>1, WeightsAreCounted
  <2> HIDE DEF edge
  <2> QED
    BY <2>1, <2>2 DEF Costs
<1> HIDE DEF Next
<1>4. F \in [1 .. n -> [Costs -> Costs]] /\ \A m \in 1 .. n, x \in Costs : F[m][x] = Next(m, x)
  BY <1>3
<1>5. \E g : Recurs(g)
  <2> HIDE DEF F
  <2>1. PICK g : IsRecursive(g, n, Costs, <<0, 0, 0>>, F)
    BY <1>1, <1>2, <1>4, Recursion
  <2>2. /\ g \in [0 .. n -> Costs] /\ g[0] = <<0, 0, 0>>
        /\ \A m \in 1 .. n : g[m] = F[m][g[m - 1]]
    BY <2>1 DEF IsRecursive
  <2>3. \A m \in 0 .. n : g[m] = IF m = 0 THEN <<0, 0, 0>> ELSE Next(m, g[m - 1])
    <3> SUFFICES ASSUME NEW m \in 0 .. n, m # 0
                 PROVE  g[m] = Next(m, g[m - 1])
      BY <2>2
    <3>1. m \in 1 .. n /\ m - 1 \in 0 .. n
      BY <1>1
    <3>2. g[m - 1] \in Costs
      BY <3>1, <2>2
    <3> QED
      BY <3>1, <3>2, <1>4, <2>2
  <2>4. g = [m \in 0 .. n |-> g[m]]
    BY <2>2
  <2>5. Recurs(g)
    BY <2>3, <2>4
  <2> QED
    BY <2>5
<1>6. Recurs(Cost)
  BY <1>5
<1>7. PathCost(steps) = Cost[n]
  BY DEF PathCost, Next
<1> HIDE DEF Cost
<1>8. Cost[0] = <<0, 0, 0>> /\ \A m \in 1 .. n : Cost[m] = Next(m, Cost[m - 1])
  <2>1. 0 \in 0 .. n /\ \A m \in 1 .. n : m \in 0 .. n /\ m # 0
    BY <1>1
  <2> QED
    BY <1>6, <2>1
<1>9. 0 \in S
  BY <1>1, <1>2, <1>8
<1>10. ASSUME NEW m \in 0 .. n - 1, m \in S
       PROVE  m + 1 \in S
  <2>1. m + 1 \in 1 .. n /\ (m + 1) - 1 = m /\ m + 1 \in 0 .. n
    BY <1>1
  <2>2. Cost[m + 1] = Next(m + 1, Cost[m]) /\ Cost[m] \in Costs
    BY <2>1, <1>8, <1>10
  <2> QED
    BY <2>1, <2>2, <1>3
<1>11. n \in S
  <2> HIDE DEF S
  <2>1. \A m \in 0 .. n : m \in S
    BY <1>1, <1>9, <1>10, Counting
  <2> QED
    BY <1>1, <2>1
<1> QED
  BY <1>7, <1>11

(* Among paths there is one than which none is cheaper.                      *)
LEMMA CheapestIsThere ==
  ASSUME RouteAssumption, NEW paths \in SUBSET Seq(StepRecords), paths # {}
  PROVE  \E p \in paths : ~ \E other \in paths : Cheaper(PathCost(other), PathCost(p))
<1> DEFINE First == {PathCost(p)[1] : p \in paths}
<1>1. \A p \in paths : PathCost(p)[1] \in Nat /\ PathCost(p)[2] \in Nat /\ PathCost(p)[3] \in Nat
  BY CostIsCounted DEF Costs
<1> HIDE DEF Costs
<1>2. PICK a \in First : \A x \in First : a <= x
  <2>1. First \in SUBSET Nat /\ First # {}
    BY <1>1
  <2> HIDE DEF First
  <2> QED
    BY <2>1, MinimumIsThere
<1> DEFINE Some == {p \in paths : PathCost(p)[1] = a}
           Second == {PathCost(p)[2] : p \in Some}
<1>3. PICK b \in Second : \A x \in Second : b <= x
  <2>1. Second \in SUBSET Nat /\ Second # {}
    BY <1>1
  <2> HIDE DEF Second
  <2> QED
    BY <2>1, MinimumIsThere
<1> DEFINE Few == {p \in Some : PathCost(p)[2] = b}
           Third == {PathCost(p)[3] : p \in Few}
<1>4. PICK c \in Third : \A x \in Third : c <= x
  <2>1. Third \in SUBSET Nat /\ Third # {}
    BY <1>1
  <2> HIDE DEF Third
  <2> QED
    BY <2>1, MinimumIsThere
<1>5. PICK p \in Few : PathCost(p)[3] = c
  OBVIOUS
<1>6. ASSUME NEW other \in paths, Cheaper(PathCost(other), PathCost(p))
      PROVE  FALSE
  <2> DEFINE x == PathCost(other)
             y == PathCost(p)
  <2>1. y[1] = a /\ y[2] = b /\ y[3] = c
    BY <1>5
  <2>2. x[1] \in Nat /\ x[2] \in Nat /\ x[3] \in Nat /\ a \in Nat /\ b \in Nat /\ c \in Nat
    BY <1>1, <2>1
  <2>3. \/ x[1] < y[1]
        \/ x[2] < y[2] /\ x[1] = y[1]
        \/ x[3] < y[3] /\ x[1] = y[1] /\ x[2] = y[2]
    <3>1. PICK i \in 1 .. 3 : x[i] < y[i] /\ \A j \in 1 .. i - 1 : x[j] = y[j]
      BY <1>6 DEF Cheaper
    <3> HIDE DEF x, y
    <3>2. i = 1 \/ i = 2 \/ i = 3
      OBVIOUS
    <3> QED
      BY <3>1, <3>2
  <2>4. a <= x[1]
    BY <1>2
  <2>5. x[1] = a => b <= x[2]
    BY <1>3
  <2>6. x[1] = a /\ x[2] = b => c <= x[3]
    BY <1>4
  <2> HIDE DEF x, y
  <2> QED
    BY <2>1, <2>2, <2>3, <2>4, <2>5, <2>6
<1> QED
  BY <1>5, <1>6

-----------------------------------------------------------------------------
(* A crossing to another role is a step that its edge allows.                *)
LEMMA CrossingCrosses ==
  ASSUME RouteAssumption, NEW edges \in SUBSET EdgeIds, NEW x \in GraphNodes,
         NEW s \in Crossings(edges, x), s.introduced # x
  PROVE  Crosses(s, edges) /\ s.existing = x
<1>1. PICK e \in edges : x \in Origins(e) /\ s = [edge |-> e, existing |-> x, introduced |-> OtherEnd(e, x)]
  BY DEF Crossings
<1>2. /\ EdgeOf[e].from \in GraphNodes /\ EdgeOf[e].to \in GraphNodes
      /\ EdgeOf[e].preserve \in {NoNode, EdgeOf[e].from, EdgeOf[e].to}
      /\ NoNode \notin GraphNodes
  BY DEF RouteAssumption
<1>3. x \in {EdgeOf[e].from, EdgeOf[e].to}
  BY <1>1, <1>2 DEF Origins, Ends
<1>4. OtherEnd(e, x) \in GraphNodes /\ {x, OtherEnd(e, x)} = {EdgeOf[e].from, EdgeOf[e].to}
  BY <1>2, <1>3 DEF OtherEnd
<1>5. OtherEnd(e, x) # EdgeOf[e].preserve
  BY <1>1, <1>2, <1>4 DEF Origins
<1>6. s.edge = e /\ s.existing = x /\ s.introduced = OtherEnd(e, x)
  BY <1>1
<1>7. s \in StepRecords
  BY <1>1, <1>4 DEF StepRecords
<1> QED
  BY <1>4, <1>5, <1>6, <1>7 DEF Crosses, Ends

LEMMA IntroducedRoles ==
  ASSUME NEW path \in Seq(StepRecords)
  PROVE  /\ Introduced(path) \subseteq GraphNodes
         /\ \A i \in 1 .. Len(path) : path[i].introduced \in Introduced(path)
         /\ \A x \in Introduced(path) : \E i \in 1 .. Len(path) : path[i].introduced = x
<1>1. DOMAIN path = 1 .. Len(path) /\ \A i \in 1 .. Len(path) : path[i] \in StepRecords
  OBVIOUS
<1>2. \A s \in StepRecords : s.introduced \in GraphNodes
  BY DEF StepRecords
<1> QED
  BY <1>1, <1>2 DEF Introduced

(* A walk and one step more is a walk.                                       *)
LEMMA GrownIsWalk ==
  ASSUME RouteAssumption, NEW included \in SUBSET GraphNodes, NEW edges \in SUBSET EdgeIds,
         NEW w, IsWalk(w, included, edges), NEW v \in Grown(w, included, edges)
  PROVE  /\ IsWalk(v, included, edges)
         /\ \E s \in StepRecords : v = Append(w, s) /\ s.introduced \notin included \cup Introduced(w)
<1> DEFINE last == IF w = <<>> THEN included ELSE {w[Len(w)].introduced}
           n == Len(w)
<1>1. w \in Seq(StepRecords) /\ n \in Nat
  BY DEF IsWalk
<1>2. PICK x \in last : \E s \in Crossings(edges, x) :
        v = Append(w, s) /\ s.introduced \notin included \cup Introduced(w)
  BY DEF Grown
<1>3. PICK s \in Crossings(edges, x) : v = Append(w, s) /\ s.introduced \notin included \cup Introduced(w)
  BY <1>2
<1>4. x \in GraphNodes /\ s.introduced # x
  <2>1. CASE w = <<>>
    BY <2>1, <1>2, <1>3
  <2>2. CASE w # <<>>
    <3>1. n \in 1 .. n /\ x = w[n].introduced
      BY <2>2, <1>1, <1>2
    <3> QED
      BY <3>1, <1>1, <1>3, IntroducedRoles
  <2> QED
    BY <2>1, <2>2
<1>5. Crosses(s, edges) /\ s.existing = x
  BY <1>3, <1>4, CrossingCrosses
<1>6. s \in StepRecords
  BY <1>5 DEF Crosses
<1>7. v \in Seq(StepRecords) /\ Len(v) = n + 1 /\ v[n + 1] = s /\ \A i \in 1 .. n : v[i] = w[i]
  BY <1>1, <1>3, <1>6
<1>8. ASSUME NEW i \in 1 .. n + 1
      PROVE  /\ Crosses(v[i], edges)
             /\ v[i].introduced \notin included
             /\ \A j \in 1 .. i - 1 : v[j].introduced # v[i].introduced
             /\ IF i = 1 THEN v[i].existing \in included
                ELSE v[i].existing = v[i - 1].introduced
  <2>1. CASE i = n + 1
    <3>1. \A j \in 1 .. n : v[j].introduced # s.introduced
      BY <1>1, <1>3, <1>7, IntroducedRoles
    <3>2. IF i = 1 THEN s.existing \in included ELSE s.existing = v[i - 1].introduced
      <4>1. CASE w = <<>>
        BY <4>1, <2>1, <1>2, <1>5
      <4>2. CASE w # <<>>
        <5>1. n \in 1 .. n /\ x = w[n].introduced /\ i - 1 = n /\ i # 1
          BY <4>2, <2>1, <1>1, <1>2
        <5> QED
          BY <5>1, <1>5, <1>7
      <4> QED
        BY <4>1, <4>2
    <3> QED
      BY <2>1, <3>1, <3>2, <1>1, <1>3, <1>5, <1>7
  <2>2. CASE i # n + 1
    <3>1. i \in 1 .. n /\ \A j \in 1 .. i - 1 : j \in 1 .. n
      BY <2>2, <1>1
    <3>2. i # 1 => i - 1 \in 1 .. n
      BY <3>1, <1>1
    <3> QED
      BY <3>1, <3>2, <1>7 DEF IsWalk
  <2> QED
    BY <2>1, <2>2
<1>9. IsWalk(v, included, edges)
  BY <1>7, <1>8 DEF IsWalk
<1> QED
  BY <1>3, <1>6, <1>9

(* W[n] are the walks of n steps none of which but the last is at the target.*)
IsWalking(W, included, target, edges) ==
  /\ W \in [0 .. MaxHops -> SUBSET Seq(StepRecords)] /\ W[0] = {<<>>}
  /\ \A n \in 1 .. MaxHops :
       W[n] = UNION {Grown(w, included, edges) : w \in {v \in W[n - 1] : target \notin Introduced(v)}}

(* ... and the paths to the target are those that end there. *)
FindsPaths(W, included, target, edges) ==
  /\ IsWalking(W, included, target, edges)
  /\ PathsTo(included, target, edges) =
       {w \in UNION {W[n] : n \in 0 .. MaxHops} : target \in Introduced(w)}
  /\ \A n \in 0 .. MaxHops : \A w \in W[n] : IsWalk(w, included, edges) /\ Len(w) = n

LEMMA PathsAreWalks ==
  ASSUME RouteAssumption, NEW included \in SUBSET GraphNodes, NEW target,
         NEW edges \in SUBSET EdgeIds
  PROVE  \E W : FindsPaths(W, included, target, edges)
<1> DEFINE Walking == {w \in Seq(StepRecords) : IsWalk(w, included, edges)}
           D == SUBSET Walking
           Next(X) == UNION {Grown(w, included, edges) : w \in {v \in X : target \notin Introduced(v)}}
           F == [m \in 1 .. MaxHops |-> [X \in D |-> Next(X)]]
           Recurs(g) == g = [n \in 0 .. MaxHops |-> IF n = 0 THEN {<<>>} ELSE Next(g[n - 1])]
           W == CHOOSE g : Recurs(g)
<1>1. MaxHops \in Nat
  BY HopsAreCounted
<1>2. {<<>>} \in D
  <2>1. <<>> \in Seq(StepRecords) /\ Len(<<>>) = 0
    OBVIOUS
  <2> QED
    BY <2>1 DEF IsWalk
<1>3. ASSUME NEW X \in D
      PROVE  Next(X) \in D
  <2> SUFFICES ASSUME NEW w \in X, NEW v \in Grown(w, included, edges)
               PROVE  v \in Walking
    OBVIOUS
  <2>1. IsWalk(w, included, edges)
    OBVIOUS
  <2>2. IsWalk(v, included, edges)
    BY <2>1, GrownIsWalk
  <2> QED
    BY <2>2 DEF IsWalk
<1> HIDE DEF Next, D
<1>4. F \in [1 .. MaxHops -> [D -> D]] /\ \A m \in 1 .. MaxHops, X \in D : F[m][X] = Next(X)
  BY <1>3
<1>5. PICK g : Recurs(g) /\ g \in [0 .. MaxHops -> D]
  <2> HIDE DEF F
  <2>1. PICK g : IsRecursive(g, MaxHops, D, {<<>>}, F)
    BY <1>1, <1>2, <1>4, Recursion
  <2>2. /\ g \in [0 .. MaxHops -> D] /\ g[0] = {<<>>}
        /\ \A m \in 1 .. MaxHops : g[m] = F[m][g[m - 1]]
    BY <2>1 DEF IsRecursive
  <2>3. \A m \in 0 .. MaxHops : g[m] = IF m = 0 THEN {<<>>} ELSE Next(g[m - 1])
    <3> SUFFICES ASSUME NEW m \in 0 .. MaxHops, m # 0
                 PROVE  g[m] = Next(g[m - 1])
      BY <2>2
    <3>1. m \in 1 .. MaxHops /\ m - 1 \in 0 .. MaxHops
      BY <1>1
    <3>2. g[m - 1] \in D
      BY <3>1, <2>2
    <3> QED
      BY <3>1, <3>2, <1>4, <2>2
  <2>4. g = [m \in 0 .. MaxHops |-> g[m]]
    BY <2>2
  <2>5. Recurs(g)
    BY <2>3, <2>4
  <2> QED
    BY <2>2, <2>5
<1>6. Recurs(W)
  BY <1>5
<1>7. PathsTo(included, target, edges) =
        {w \in UNION {W[n] : n \in 0 .. MaxHops} : target \in Introduced(w)}
  BY DEF PathsTo, Next, MaxHops
<1> HIDE DEF W
<1>8. W[0] = {<<>>} /\ \A n \in 1 .. MaxHops : W[n] = Next(W[n - 1])
  <2>1. 0 \in 0 .. MaxHops /\ \A n \in 1 .. MaxHops : n \in 0 .. MaxHops /\ n # 0
    BY <1>1
  <2> QED
    BY <1>6, <2>1
<1> DEFINE S == {n \in 0 .. MaxHops : W[n] \in D /\ \A w \in W[n] : Len(w) = n}
<1>9. 0 \in S
  <2>1. Len(<<>>) = 0
    OBVIOUS
  <2>2. 0 \in 0 .. MaxHops /\ W[0] \in D /\ \A w \in W[0] : w = <<>>
    BY <1>1, <1>2, <1>8
  <2> QED
    BY <2>1, <2>2
<1>10. ASSUME NEW n \in 0 .. MaxHops - 1, n \in S
       PROVE  n + 1 \in S
  <2>1. n + 1 \in 1 .. MaxHops /\ (n + 1) - 1 = n /\ n + 1 \in 0 .. MaxHops /\ n \in Nat
    BY <1>1
  <2>2. W[n + 1] = Next(W[n]) /\ W[n] \in D /\ \A w \in W[n] : Len(w) = n
    BY <2>1, <1>8, <1>10
  <2>3. W[n + 1] \in D
    BY <2>2, <1>3
  <2>4. ASSUME NEW v \in W[n + 1]
        PROVE  Len(v) = n + 1
    <3>1. PICK w \in W[n] : v \in Grown(w, included, edges)
      BY <2>2, <2>4 DEF Next
    <3>2. IsWalk(w, included, edges) /\ w \in Seq(StepRecords) /\ Len(w) = n
      BY <2>2, <3>1 DEF D
    <3>4. \E s \in StepRecords :
             v = Append(w, s) /\ s.introduced \notin included \cup Introduced(w)
      BY <3>1, <3>2, GrownIsWalk
    <3>3. PICK s \in StepRecords : v = Append(w, s)
      BY <3>4
    <3> QED
      BY <3>2, <3>3
  <2> QED
    BY <2>1, <2>3, <2>4
<1>11. \A n \in 0 .. MaxHops : W[n] \in D /\ \A w \in W[n] : Len(w) = n
  <2> HIDE DEF S
  <2>1. \A n \in 0 .. MaxHops : n \in S
    BY <1>1, <1>9, <1>10, Counting
  <2> QED
    BY <2>1 DEF S
<1>12. \A n \in 0 .. MaxHops : \A w \in W[n] : IsWalk(w, included, edges) /\ Len(w) = n
  BY <1>11 DEF D
<1>13. IsWalking(W, included, target, edges)
  <2>1. W = [n \in 0 .. MaxHops |-> W[n]]
    BY <1>6
  <2>2. \A n \in 0 .. MaxHops : W[n] \subseteq Seq(StepRecords)
    BY <1>11 DEF D
  <2>3. W \in [0 .. MaxHops -> SUBSET Seq(StepRecords)]
    BY <2>1, <2>2
  <2> QED
    BY <2>3, <1>8 DEF IsWalking, Next
<1>14. FindsPaths(W, included, target, edges)
  BY <1>7, <1>12, <1>13 DEF FindsPaths
<1> QED
  BY <1>14

LEMMA IntroducedByAppend ==
  ASSUME NEW w \in Seq(StepRecords), NEW s \in StepRecords
  PROVE  Introduced(Append(w, s)) = Introduced(w) \cup {s.introduced}
<1> DEFINE v == Append(w, s)
           n == Len(w)
<1>1. n \in Nat /\ DOMAIN w = 1 .. n /\ DOMAIN v = 1 .. n + 1 /\ v[n + 1] = s
      /\ \A i \in 1 .. n : v[i] = w[i]
  OBVIOUS
<1> HIDE DEF v, n
<1>2. \A i \in 1 .. n + 1 : i \in 1 .. n \/ i = n + 1
  BY <1>1
<1>3. n + 1 \in 1 .. n + 1 /\ \A i \in 1 .. n : i \in 1 .. n + 1
  BY <1>1
<1>4. Introduced(v) = Introduced(w) \cup {s.introduced}
  BY <1>1, <1>2, <1>3 DEF Introduced
<1> QED
  BY <1>4 DEF v

(* A path that is found walks from the included roles to the target, where   *)
(* it ends.                                                                  *)
LEMMA PathsArrive ==
  ASSUME RouteAssumption, NEW included \in SUBSET GraphNodes, NEW target,
         NEW edges \in SUBSET EdgeIds, NEW path \in PathsTo(included, target, edges)
  PROVE  /\ IsWalk(path, included, edges) /\ Len(path) \in Nat \ {0}
         /\ path[Len(path)].introduced = target
<1>0. PICK W : FindsPaths(W, included, target, edges)
  BY PathsAreWalks
<1>1. /\ IsWalking(W, included, target, edges)
      /\ PathsTo(included, target, edges) =
           {w \in UNION {W[n] : n \in 0 .. MaxHops} : target \in Introduced(w)}
      /\ \A n \in 0 .. MaxHops : \A w \in W[n] : IsWalk(w, included, edges) /\ Len(w) = n
  BY <1>0 DEF FindsPaths
<1>2. PICK n \in 0 .. MaxHops : path \in W[n]
  BY <1>1
<1>3. IsWalk(path, included, edges) /\ Len(path) = n /\ target \in Introduced(path) /\ n \in Nat
  BY <1>1, <1>2, HopsAreCounted
<1>4. n # 0
  <2>1. Introduced(<<>>) = {}
    BY DEF Introduced
  <2> QED
    BY <2>1, <1>1, <1>2, <1>3 DEF IsWalking
<1>5. n \in 1 .. MaxHops /\ n - 1 \in 0 .. MaxHops
  BY <1>3, <1>4, HopsAreCounted
<1>6. PICK w \in W[n - 1] : target \notin Introduced(w) /\ path \in Grown(w, included, edges)
  <2>1. W[n] = UNION {Grown(w, included, edges) : w \in {v \in W[n - 1] : target \notin Introduced(v)}}
    BY <1>1, <1>5 DEF IsWalking
  <2> QED
    BY <2>1, <1>2
<1>7. IsWalk(w, included, edges) /\ w \in Seq(StepRecords) /\ Len(w) = n - 1
  BY <1>1, <1>5, <1>6 DEF IsWalk
<1>8. \E s \in StepRecords : path = Append(w, s) /\ s.introduced \notin included \cup Introduced(w)
  BY <1>6, <1>7, GrownIsWalk
<1>9. PICK s \in StepRecords : path = Append(w, s)
  BY <1>8
<1>10. Introduced(path) = Introduced(w) \cup {s.introduced}
  BY <1>7, <1>9, IntroducedByAppend
<1>11. path[n] = s
  BY <1>3, <1>7, <1>9
<1> QED
  BY <1>3, <1>4, <1>6, <1>10, <1>11

(* A pair of roles that an edge allows to join is a crossing.                *)
LEMMA DirectedCrosses ==
  ASSUME RouteAssumption, NEW edges \in SUBSET EdgeIds, NEW p \in Directed(edges)
  PROVE  p[1] \in GraphNodes /\ \E s \in Crossings(edges, p[1]) : s.introduced = p[2]
<1>1. PICK q \in edges \X GraphNodes :
        /\ q[2] \in Ends(q[1]) /\ OtherEnd(q[1], q[2]) # EdgeOf[q[1]].preserve
        /\ p = <<q[2], OtherEnd(q[1], q[2])>>
  BY DEF Directed
<1> DEFINE e == q[1]
           x == q[2]
<1>2. e \in edges /\ x \in GraphNodes /\ p[1] = x /\ p[2] = OtherEnd(e, x)
      /\ x \in Ends(e) /\ OtherEnd(e, x) # EdgeOf[e].preserve
  BY <1>1
<1> HIDE DEF e, x
<1>3. EdgeOf[e].preserve \in {NoNode, EdgeOf[e].from, EdgeOf[e].to}
  BY <1>2 DEF RouteAssumption
<1>4. x \in Origins(e)
  BY <1>2, <1>3 DEF Origins, Ends, OtherEnd
<1>5. [edge |-> e, existing |-> x, introduced |-> OtherEnd(e, x)] \in Crossings(edges, x)
  BY <1>2, <1>4 DEF Crossings
<1> QED
  BY <1>2, <1>5

(* When no path is found, the target cannot be reached: the roles to which   *)
(* the walks lead are closed under the directions that the edges allow.  A   *)
(* walk never runs out of steps, for its roles are distinct and leave out    *)
(* the included ones.                                                        *)
LEMMA NoPathMeansCut ==
  ASSUME RouteAssumption, NEW included \in SUBSET GraphNodes, NEW root \in included,
         NEW target, target \notin included, NEW edges \in SUBSET EdgeIds,
         PathsTo(included, target, edges) = {}
  PROVE  target \notin ReachedBy(Directed(edges), root)
<1>0. PICK W : FindsPaths(W, included, target, edges)
  BY PathsAreWalks
<1>1. /\ IsWalking(W, included, target, edges)
      /\ PathsTo(included, target, edges) =
           {w \in UNION {W[n] : n \in 0 .. MaxHops} : target \in Introduced(w)}
      /\ \A n \in 0 .. MaxHops : \A w \in W[n] : IsWalk(w, included, edges) /\ Len(w) = n
  BY <1>0 DEF FindsPaths
<1>2. MaxHops \in Nat /\ IsFiniteSet(GraphNodes) /\ MaxHops = Cardinality(GraphNodes)
  BY HopsAreCounted DEF MaxHops
<1>3. \A n \in 0 .. MaxHops : \A w \in W[n] :
        target \notin Introduced(w) /\ w \in Seq(StepRecords) /\ Len(w) = n
  BY <1>1 DEF IsWalk
<1> DEFINE Lasts == {x \in GraphNodes : \E n \in 1 .. MaxHops : \E w \in W[n] : w[n].introduced = x}
           closed == included \cup Lasts
           S == {n \in 0 .. MaxHops : \A w \in W[n] :
                   /\ Introduced(w) \subseteq Lasts /\ Introduced(w) \cap included = {}
                   /\ IsFiniteSet(Introduced(w)) /\ Cardinality(Introduced(w)) = n}
<1>4. 0 \in S
  <2>1. Introduced(<<>>) = {} /\ IsFiniteSet({}) /\ Cardinality({}) = 0
    BY FS_EmptySet DEF Introduced
  <2>2. W[0] = {<<>>} /\ 0 \in 0 .. MaxHops
    BY <1>1, <1>2 DEF IsWalking
  <2> QED
    BY <2>1, <2>2
<1>5. ASSUME NEW n \in 0 .. MaxHops - 1, n \in S
      PROVE  n + 1 \in S
  <2>1. n + 1 \in 1 .. MaxHops /\ (n + 1) - 1 = n /\ n + 1 \in 0 .. MaxHops /\ n \in 0 .. MaxHops
        /\ n \in Nat
    BY <1>2
  <2> SUFFICES ASSUME NEW v \in W[n + 1]
               PROVE  /\ Introduced(v) \subseteq Lasts /\ Introduced(v) \cap included = {}
                      /\ IsFiniteSet(Introduced(v)) /\ Cardinality(Introduced(v)) = n + 1
    BY <2>1
  <2>2. PICK w \in W[n] : v \in Grown(w, included, edges)
    BY <1>1, <2>1 DEF IsWalking
  <2>3. IsWalk(w, included, edges) /\ w \in Seq(StepRecords) /\ Len(w) = n
    BY <1>1, <1>3, <2>1
  <2>4. \E s \in StepRecords : v = Append(w, s) /\ s.introduced \notin included \cup Introduced(w)
    BY <2>2, <2>3, GrownIsWalk
  <2>5. PICK s \in StepRecords : v = Append(w, s) /\ s.introduced \notin included \cup Introduced(w)
    BY <2>4
  <2>6. Introduced(v) = Introduced(w) \cup {s.introduced}
    BY <2>3, <2>5, IntroducedByAppend
  <2>7. v[n + 1] = s /\ s.introduced \in GraphNodes
    BY <2>3, <2>5 DEF StepRecords
  <2>8. s.introduced \in Lasts
    BY <2>1, <2>7
  <2>9. /\ Introduced(w) \subseteq Lasts /\ Introduced(w) \cap included = {}
        /\ IsFiniteSet(Introduced(w)) /\ Cardinality(Introduced(w)) = n
    BY <1>5
  <2>10. IsFiniteSet(Introduced(v)) /\ Cardinality(Introduced(v)) = n + 1
    BY <2>5, <2>6, <2>9, FS_AddElement
  <2> QED
    BY <2>5, <2>6, <2>8, <2>9, <2>10
<1>6. \A n \in 0 .. MaxHops : n \in S
  <2> HIDE DEF S
  <2> QED
    BY <1>2, <1>4, <1>5, Counting
<1>7. ASSUME NEW p \in Directed(edges), p[1] \in closed
      PROVE  p[2] \in closed
  <2> SUFFICES ASSUME p[2] \notin closed
               PROVE  FALSE
    OBVIOUS
  <2>1. PICK s \in Crossings(edges, p[1]) : s.introduced = p[2]
    BY DirectedCrosses
  <2>2. p[1] \in GraphNodes /\ s.introduced # p[1]
    <3>1. p[1] \in GraphNodes
      BY DirectedCrosses
    <3> HIDE DEF closed
    <3> QED
      BY <3>1, <1>7, <2>1
  <2>3. s \in StepRecords /\ s.introduced \in GraphNodes
    <3> HIDE DEF closed, S, Lasts
    <3>1. s \in Crossings(edges, p[1])
      BY <2>1
    <3>2. edges \subseteq EdgeIds
      OBVIOUS
    <3>3. Crosses(s, edges)
      BY <3>1, <3>2, <2>2, CrossingCrosses
    <3> QED
      BY <3>3 DEF Crosses, StepRecords
  <2>4. ASSUME NEW n \in 0 .. MaxHops - 1, NEW w \in W[n],
               p[1] \in (IF w = <<>> THEN included ELSE {w[Len(w)].introduced})
        PROVE  FALSE
    <3>1. n + 1 \in 1 .. MaxHops /\ (n + 1) - 1 = n /\ n \in 0 .. MaxHops /\ n \in Nat
      BY <1>2
    <3>2. target \notin Introduced(w) /\ w \in Seq(StepRecords) /\ Len(w) = n
          /\ Introduced(w) \subseteq Lasts
      BY <1>3, <1>6, <3>1
    <3>3. s.introduced \notin included \cup Introduced(w)
      BY <2>1, <3>2
    <3>4. Append(w, s) \in Grown(w, included, edges)
      BY <2>1, <2>4, <3>3 DEF Grown
    <3>5. Append(w, s) \in W[n + 1]
      BY <1>1, <3>1, <3>2, <3>4 DEF IsWalking
    <3>6. Append(w, s)[n + 1] = s
      BY <2>3, <3>1, <3>2
    <3>7. s.introduced \in Lasts
      BY <2>3, <3>1, <3>5, <3>6
    <3> QED
      BY <2>1, <3>7
  <2>5. CASE p[1] \in included
    <3>1. GraphNodes # {}
      OBVIOUS
    <3>2. MaxHops # 0
      BY <3>1, <1>2, FS_EmptySet
    <3>3. 0 \in 0 .. MaxHops - 1 /\ <<>> \in W[0]
      BY <3>2, <1>1, <1>2 DEF IsWalking
    <3> QED
      BY <2>4, <2>5, <3>3
  <2>6. CASE p[1] \in Lasts
    <3>1. PICK n \in 1 .. MaxHops : \E w \in W[n] : w[n].introduced = p[1]
      BY <2>6
    <3>2. PICK w \in W[n] : w[n].introduced = p[1]
      BY <3>1
    <3>3. n \in 0 .. MaxHops /\ n \in Nat /\ n # 0
      BY <1>2
    <3>4. w \in Seq(StepRecords) /\ Len(w) = n /\ w # <<>>
      BY <1>3, <3>2, <3>3
    <3>5. /\ Introduced(w) \cap included = {} /\ Introduced(w) \subseteq Lasts
          /\ IsFiniteSet(Introduced(w)) /\ Cardinality(Introduced(w)) = n
      BY <1>6, <3>2, <3>3
    <3>6. Introduced(w) \in SUBSET (GraphNodes \ {root})
      BY <3>5
    <3>7. IsFiniteSet(GraphNodes \ {root}) /\ Cardinality(GraphNodes \ {root}) = MaxHops - 1
      BY <1>2, FS_RemoveElement
    <3>8. n <= MaxHops - 1
      BY <3>5, <3>6, <3>7, FS_Subset
    <3>9. n \in 0 .. MaxHops - 1
      BY <3>3, <3>8, <1>2
    <3> QED
      BY <2>4, <3>2, <3>4, <3>9
  <2> QED
    BY <1>7, <2>5, <2>6
<1>8. target \notin closed
  <2> SUFFICES ASSUME target \in Lasts
               PROVE  FALSE
    OBVIOUS
  <2>1. PICK n \in 1 .. MaxHops : \E w \in W[n] : w[n].introduced = target
    OBVIOUS
  <2>2. PICK w \in W[n] : w[n].introduced = target
    BY <2>1
  <2>3. n \in 0 .. MaxHops /\ n \in 1 .. n
    BY <1>2
  <2>4. w \in Seq(StepRecords) /\ Len(w) = n /\ target \notin Introduced(w)
    BY <1>3, <2>3
  <2> QED
    BY <2>2, <2>3, <2>4, IntroducedRoles
<1>9. ReachedBy(Directed(edges), root) \subseteq closed
  <2> HIDE DEF closed
  <2>1. root \in closed
    BY DEF closed
  <2> QED
    BY <1>7, <2>1, ReachedStays
<1> QED
  BY <1>8, <1>9

(* The asked roles.                                                          *)
LEMMA AskedRoles ==
  ASSUME NEW q \in Asked
  PROVE  /\ q \in Seq(GraphNodes) /\ q # <<>>
         /\ ToSet(q) = {q[i] : i \in DOMAIN q} /\ ToSet(q) \subseteq GraphNodes
         /\ DOMAIN q = 1 .. Len(q) /\ 1 \in DOMAIN q
<1>1. PICK n \in 1 .. MaxAsked : q \in [1 .. n -> GraphNodes]
  BY DEF Asked
<1>2. n \in Nat /\ n >= 1
  OBVIOUS
<1>3. q \in Seq(GraphNodes) /\ Len(q) = n /\ DOMAIN q = 1 .. n
  BY <1>1, <1>2
<1>4. ToSet(q) = {q[i] : i \in DOMAIN q}
  BY DEF ToSet
<1> QED
  BY <1>1, <1>2, <1>3, <1>4

(* The root is one of the asked roles.                                       *)
LEMMA RootIsAsked ==
  ASSUME NEW g, NEW q \in Asked
  PROVE  Root(g, q) \in ToSet(q) /\ Root(g, q) \in GraphNodes
<1> DEFINE anchored == {i \in DOMAIN q : q[i] \in g.anchors}
<1>1. /\ ToSet(q) = {q[i] : i \in DOMAIN q} /\ ToSet(q) \subseteq GraphNodes
      /\ DOMAIN q \subseteq Nat /\ 1 \in DOMAIN q
  BY AskedRoles
<1>2. anchored \in SUBSET Nat /\ anchored \subseteq DOMAIN q
  BY <1>1
<1>3. Root(g, q) = q[IF anchored = {} THEN 1 ELSE Min(anchored)]
  BY DEF Root
<1> HIDE DEF anchored
<1>4. anchored # {} => Min(anchored) \in anchored
  BY <1>2, MinimumIsThere
<1> QED
  BY <1>1, <1>2, <1>3, <1>4

(* A tree grows by a walk that leaves it.                                    *)
LEMMA WalkJoins ==
  ASSUME NEW root \in GraphNodes, NEW edges, NEW steps, IsJoinTree(steps, root, edges),
         NEW included, included = {root} \cup Introduced(steps),
         NEW path, IsWalk(path, included, edges)
  PROVE  /\ IsJoinTree(steps \o path, root, edges)
         /\ Introduced(steps \o path) = Introduced(steps) \cup Introduced(path)
<1> DEFINE both == steps \o path
           k == Len(steps)
           n == Len(path)
<1>1. steps \in Seq(StepRecords) /\ path \in Seq(StepRecords)
  BY DEF IsJoinTree, IsWalk
<1>2. /\ k \in Nat /\ n \in Nat /\ both \in Seq(StepRecords) /\ Len(both) = k + n
      /\ \A i \in 1 .. k : both[i] = steps[i]
      /\ \A i \in k + 1 .. k + n : both[i] = path[i - k]
  BY <1>1
<1>3. /\ \A i \in 1 .. k :
           /\ Crosses(steps[i], edges) /\ steps[i].introduced # root
           /\ \A j \in 1 .. i - 1 : steps[j].introduced # steps[i].introduced
           /\ steps[i].existing = root \/ \E j \in 1 .. i - 1 : steps[j].introduced = steps[i].existing
  BY DEF IsJoinTree
<1>4. \A i \in 1 .. n :
       /\ Crosses(path[i], edges)
       /\ path[i].introduced \notin included
       /\ \A j \in 1 .. i - 1 : path[j].introduced # path[i].introduced
       /\ IF i = 1 THEN path[i].existing \in included
          ELSE path[i].existing = path[i - 1].introduced
  BY DEF IsWalk
<1>5. /\ \A i \in 1 .. k : steps[i].introduced \in Introduced(steps)
      /\ \A x \in Introduced(steps) : \E i \in 1 .. k : steps[i].introduced = x
      /\ \A i \in 1 .. n : path[i].introduced \in Introduced(path)
      /\ \A x \in Introduced(path) : \E i \in 1 .. n : path[i].introduced = x
      /\ \A i \in 1 .. k + n : both[i].introduced \in Introduced(both)
      /\ \A x \in Introduced(both) : \E i \in 1 .. k + n : both[i].introduced = x
  <2> HIDE DEF both, k, n
  <2>1. k = Len(steps) /\ n = Len(path)
    BY DEF k, n
  <2> QED
    BY <1>1, <1>2, <2>1, IntroducedRoles
<1> HIDE DEF both, k, n
<1>6. Introduced(both) = Introduced(steps) \cup Introduced(path)
  <2>1. ASSUME NEW x \in Introduced(both)
        PROVE  x \in Introduced(steps) \cup Introduced(path)
    <3>1. PICK i \in 1 .. k + n : both[i].introduced = x
      BY <1>5
    <3>2. CASE i \in 1 .. k
      BY <1>2, <1>5, <3>1, <3>2
    <3>3. CASE i \in k + 1 .. k + n
      <4>1. both[i] = path[i - k] /\ i - k \in 1 .. n
        BY <1>2, <3>3
      <4> QED
        BY <1>5, <3>1, <4>1
    <3> QED
      BY <1>2, <3>2, <3>3
  <2>2. ASSUME NEW x \in Introduced(steps)
        PROVE  x \in Introduced(both)
    <3>1. PICK i \in 1 .. k : steps[i].introduced = x
      BY <1>5
    <3>2. i \in 1 .. k + n /\ both[i] = steps[i]
      BY <1>2
    <3> QED
      BY <1>5, <3>1, <3>2
  <2>3. ASSUME NEW x \in Introduced(path)
        PROVE  x \in Introduced(both)
    <3>1. PICK i \in 1 .. n : path[i].introduced = x
      BY <1>5
    <3>2. i + k \in k + 1 .. k + n /\ (i + k) - k = i /\ i + k \in 1 .. k + n
      BY <1>2
    <3>3. both[i + k] = path[i]
      BY <1>2, <3>2
    <3> QED
      BY <1>5, <3>1, <3>2, <3>3
  <2> QED
    BY <2>1, <2>2, <2>3
<1>7. ASSUME NEW i \in 1 .. k + n
      PROVE  /\ Crosses(both[i], edges)
             /\ both[i].introduced # root
             /\ \A j \in 1 .. i - 1 : both[j].introduced # both[i].introduced
             /\ \/ both[i].existing = root
                \/ \E j \in 1 .. i - 1 : both[j].introduced = both[i].existing
  <2>1. CASE i \in 1 .. k
    <3>1. \A j \in 1 .. i - 1 : j \in 1 .. k
      BY <1>2, <2>1
    <3>2. both[i] = steps[i] /\ \A j \in 1 .. i - 1 : both[j] = steps[j]
      BY <1>2, <2>1, <3>1
    <3> QED
      BY <1>3, <2>1, <3>2
  <2>2. CASE i \in k + 1 .. k + n
    <3> DEFINE m == i - k
    <3>1. m \in 1 .. n /\ both[i] = path[m] /\ i = m + k
      BY <1>2, <2>2
    <3>2. path[m].introduced \notin included /\ Crosses(path[m], edges)
      BY <1>4, <3>1
    <3>3. ASSUME NEW j \in 1 .. i - 1
          PROVE  both[j].introduced # both[i].introduced
      <4>1. CASE j \in 1 .. k
        BY <1>2, <1>5, <3>1, <3>2, <4>1
      <4>2. CASE j \in k + 1 .. k + n
        <5>1. j - k \in 1 .. m - 1 /\ both[j] = path[j - k]
          BY <1>2, <3>1, <4>2
        <5> QED
          BY <1>4, <3>1, <5>1
      <4> QED
        BY <1>2, <3>1, <4>1, <4>2
    <3>4. CASE m = 1
      <4>1. path[m].existing \in {root} \cup Introduced(steps)
        BY <1>4, <3>1, <3>4
      <4>2. CASE path[m].existing = root
        BY <3>1, <3>2, <3>3, <4>2
      <4>3. CASE path[m].existing \in Introduced(steps)
        <5>1. PICK j \in 1 .. k : steps[j].introduced = path[m].existing
          BY <1>5, <4>3
        <5>2. j \in 1 .. i - 1 /\ both[j] = steps[j]
          BY <1>2, <3>1, <5>1
        <5> QED
          BY <3>1, <3>2, <3>3, <5>1, <5>2
      <4> QED
        BY <4>1, <4>2, <4>3
    <3>5. CASE m # 1
      <4>1. path[m].existing = path[m - 1].introduced
        BY <1>4, <3>1, <3>5
      <4>2. i - 1 \in k + 1 .. k + n /\ (i - 1) - k = m - 1 /\ i - 1 \in 1 .. i - 1
        BY <1>2, <3>1, <3>5
      <4>3. both[i - 1] = path[m - 1]
        BY <1>2, <4>2
      <4> QED
        BY <3>1, <3>2, <3>3, <4>1, <4>2, <4>3
    <3> QED
      BY <3>4, <3>5
  <2> QED
    BY <1>2, <2>1, <2>2
<1>8. IsJoinTree(both, root, edges)
  BY <1>2, <1>7 DEF IsJoinTree
<1> QED
  BY <1>6, <1>8 DEF both

(* A walk leaves no loose end but its last role.                             *)
LEMMA WalkLeadsOn ==
  ASSUME NEW steps \in Seq(StepRecords), HasNoLooseEnd(steps),
         NEW included, NEW edges, NEW path, IsWalk(path, included, edges),
         Len(path) # 0, path[Len(path)].introduced \in Required
  PROVE  HasNoLooseEnd(steps \o path)
<1> DEFINE both == steps \o path
           k == Len(steps)
           n == Len(path)
<1>1. path \in Seq(StepRecords)
  BY DEF IsWalk
<1>2. /\ k \in Nat /\ n \in Nat /\ Len(both) = k + n /\ n # 0
      /\ \A i \in 1 .. k : both[i] = steps[i]
      /\ \A i \in k + 1 .. k + n : both[i] = path[i - k]
  BY <1>1
<1>3. \A i \in 1 .. k :
        \/ steps[i].introduced \in Required
        \/ \E j \in 1 .. k : steps[j].existing = steps[i].introduced
  BY DEF HasNoLooseEnd
<1>4. \A i \in 2 .. n : path[i].existing = path[i - 1].introduced
  BY DEF IsWalk
<1>5. path[n].introduced \in Required
  OBVIOUS
<1> HIDE DEF both, k, n
<1>6. ASSUME NEW i \in 1 .. k + n
      PROVE  \/ both[i].introduced \in Required
             \/ \E j \in 1 .. k + n : both[j].existing = both[i].introduced
  <2>1. CASE i \in 1 .. k
    <3>1. both[i] = steps[i] /\ \A j \in 1 .. k : j \in 1 .. k + n /\ both[j] = steps[j]
      BY <1>2, <2>1
    <3> QED
      BY <1>3, <2>1, <3>1
  <2>2. CASE i = k + n
    <3>1. i \in k + 1 .. k + n /\ i - k = n
      BY <1>2, <2>2
    <3> QED
      BY <1>2, <1>5, <3>1
  <2>3. CASE i \in k + 1 .. k + n /\ i # k + n
    <3>1. /\ i - k + 1 \in 2 .. n /\ (i - k + 1) - 1 = i - k
          /\ i + 1 \in k + 1 .. k + n /\ (i + 1) - k = i - k + 1 /\ i + 1 \in 1 .. k + n
      BY <1>2, <2>3
    <3>2. both[i + 1] = path[i - k + 1] /\ both[i] = path[i - k]
      BY <1>2, <2>3, <3>1
    <3> QED
      BY <1>4, <3>1, <3>2
  <2> QED
    BY <1>2, <2>1, <2>2, <2>3
<1> QED
  BY <1>2, <1>6 DEF HasNoLooseEnd, both

-----------------------------------------------------------------------------
(* What the rest of the proof uses of the types.                             *)
LEMMA RouteFacts ==
  ASSUME RouteAssumption, RouteTypeOK
  PROVE  /\ graph.edges \subseteq EdgeIds /\ question.required \in Asked
         /\ Required \subseteq GraphNodes /\ IsFiniteSet(Required) /\ NoNode \notin GraphNodes
         /\ question.required \in Seq(GraphNodes) /\ Required = ToSet(question.required)
         /\ \A i \in DOMAIN graph.rules :
              i \in 1 .. Len(graph.rules) /\ graph.rules[i].edges \in Seq(EdgeIds)
         /\ Len(graph.rules) \in Nat
<1>1. graph \in Graphs /\ question.required \in Asked
  BY DEF RouteTypeOK
<1>2. graph.edges \subseteq EdgeIds /\ graph.rules \in {<<>>} \cup {<<rule>> : rule \in RouteRules}
  BY <1>1 DEF Graphs
<1>3. Required \subseteq GraphNodes /\ question.required \in Seq(GraphNodes)
  BY <1>1, AskedRoles DEF Required
<1>4. IsFiniteSet(GraphNodes) /\ NoNode \notin GraphNodes
  BY DEF RouteAssumption
<1>5. IsFiniteSet(Required)
  BY <1>3, <1>4, FS_Subset
<1>6. /\ \A i \in DOMAIN graph.rules :
           i \in 1 .. Len(graph.rules) /\ graph.rules[i].edges \in Seq(EdgeIds)
      /\ Len(graph.rules) \in Nat
  <2>1. CASE graph.rules = <<>>
    BY <2>1
  <2>2. CASE \E rule \in RouteRules : graph.rules = <<rule>>
    <3>1. PICK rule \in RouteRules : graph.rules = <<rule>>
      BY <2>2
    <3>2. rule.edges \in Seq(EdgeIds)
      BY DEF RouteAssumption
    <3>3. DOMAIN graph.rules = 1 .. 1 /\ Len(graph.rules) = 1 /\ graph.rules[1] = rule
      BY <3>1
    <3>4. \A i \in DOMAIN graph.rules : i = 1
      BY <3>3
    <3> QED
      BY <3>2, <3>3, <3>4
  <2> QED
    BY <1>2, <2>1, <2>2
<1> QED
  BY <1>1, <1>2, <1>3, <1>4, <1>5, <1>6 DEF Required

LEMMA EmptyTree ==
  ASSUME NEW root, NEW edges
  PROVE  /\ IsJoinTree(<<>>, root, edges) /\ HasNoLooseEnd(<<>>) /\ Introduced(<<>>) = {}
         /\ <<>> \in Seq(StepRecords)
BY DEF IsJoinTree, HasNoLooseEnd, Introduced

(* Before a question is asked, nothing is joined.                            *)
LEMMA RouteStarts ==
  ASSUME RouteAssumption, RouteInit
  PROVE  RouteInv
<1>1. graph \in Graphs
  BY DEF RouteInit
<1>2. question \in [required : Asked, measures : {{}}, analysis : {"open"}]
  BY DEF RouteInit
<1>3. question.measures = {} /\ question \in
        [required : Asked, measures : SUBSET GraphNodes, analysis : {"open", "detail", "aggregate"}]
  BY <1>2
<1>4. route = Unrouted /\ fanout = "undecided"
  BY DEF RouteInit
<1>5. Len(graph.rules) \in Nat
  <2>1. graph.rules = <<>> \/ \E rule \in RouteRules : graph.rules = <<rule>>
    BY <1>1 DEF Graphs
  <2> QED
    BY <2>1
<1>6. 0 \in 0 .. Len(graph.rules)
  BY <1>5
<1>7. Unrouted \in
         [phase : {"asked", "ruled", "searching", "resolved", "no_path", "ambiguous"},
          root : GraphNodes \cup {NoNode}, rule : 0..Len(graph.rules),
          steps : Seq([edge : EdgeIds, existing : GraphNodes, introduced : GraphNodes]),
          left : Seq(EdgeIds \cup GraphNodes)]
  BY <1>6 DEF Unrouted
<1>8. RouteTypeOK
  BY <1>1, <1>3, <1>4, <1>7 DEF RouteTypeOK
<1>9. IsJoinTree(route.steps, route.root, graph.edges)
  BY <1>4, EmptyTree DEF Unrouted
<1>10. PhaseFits
  BY <1>4 DEF PhaseFits, Unrouted
<1> QED
  BY <1>8, <1>9, <1>10 DEF RouteInv

(* The checks and the choice of root and rule.                               *)
LEMMA AskedKeeps ==
  ASSUME RouteAssumption, RouteInv, RouteAsked
  PROVE  RouteInv'
<1> DEFINE rules == RulesFor(graph, question.required)
           root == Root(graph, question.required)
           single == Cardinality(Required) = 1
           rule == IF rules = {} \/ single THEN 0 ELSE Min(rules)
<1>1. RouteTypeOK /\ route.phase = "asked"
  BY DEF RouteInv, RouteAsked
<1>2. /\ graph.edges \subseteq EdgeIds /\ question.required \in Asked
      /\ Required \subseteq GraphNodes /\ IsFiniteSet(Required)
      /\ question.required \in Seq(GraphNodes) /\ Required = ToSet(question.required)
      /\ \A i \in DOMAIN graph.rules :
           i \in 1 .. Len(graph.rules) /\ graph.rules[i].edges \in Seq(EdgeIds)
      /\ Len(graph.rules) \in Nat
  BY <1>1, RouteFacts
<1>3. /\ rule # 0 => EdgesOfRule(graph.rules[rule]) \subseteq graph.edges
      /\ route' = [phase |-> CASE single -> "resolved" [] rule # 0 -> "ruled" [] OTHER -> "searching",
                   root |-> root, steps |-> <<>>, rule |-> rule,
                   left |-> CASE single -> <<>>
                              [] rule # 0 -> graph.rules[rule].edges
                              [] OTHER -> question.required]
      /\ graph' = graph /\ question' = question /\ fanout' = fanout
  BY DEF RouteAsked
<1>4. root \in Required /\ root \in GraphNodes
  BY <1>2, RootIsAsked
<1>5. rule \in 0 .. Len(graph.rules) /\ (rule # 0 => rule \in DOMAIN graph.rules) /\ (single => rule = 0)
  <2>1. rules \subseteq DOMAIN graph.rules
    BY DEF RulesFor
  <2>2. rules \in SUBSET Nat
    BY <1>2, <2>1
  <2> HIDE DEF rules
  <2>3. rules # {} => Min(rules) \in rules
    BY <2>2, MinimumIsThere
  <2>4. Min(rules) \in rules => Min(rules) \in 1 .. Len(graph.rules)
    BY <1>2, <2>1
  <2> QED
    BY <1>2, <2>1, <2>3, <2>4
<1> HIDE DEF rules, root, rule
<1>6. /\ route'.root = root /\ route'.steps = <<>> /\ route'.rule = rule
      /\ route'.phase \in {"resolved", "ruled", "searching"}
      /\ route'.phase = "resolved" => single /\ route'.left = <<>>
      /\ route'.phase = "ruled" => rule # 0 /\ ~single /\ route'.left = graph.rules[rule].edges
      /\ route'.phase = "searching" => rule = 0 /\ ~single /\ route'.left = question.required
  <2> DEFINE left(x) == CASE x -> <<>>
                          [] rule # 0 -> graph.rules[rule].edges
                          [] OTHER -> question.required
             phase(x) == CASE x -> "resolved" [] rule # 0 -> "ruled" [] OTHER -> "searching"
  <2>1. /\ route'.root = root /\ route'.steps = <<>> /\ route'.rule = rule
        /\ route'.phase = phase(single) /\ route'.left = left(single)
    BY <1>3
  <2>2. CASE single
    BY <1>5, <2>1, <2>2
  <2>3. CASE ~single /\ rule # 0
    BY <2>1, <2>3
  <2>4. CASE ~single /\ rule = 0
    BY <2>1, <2>4
  <2> QED
    BY <2>2, <2>3, <2>4
<1>7. rule # 0 => graph.rules[rule].edges \in Seq(graph.edges) /\ graph.rules[rule].edges \in Seq(EdgeIds)
  <2> SUFFICES ASSUME rule # 0
               PROVE  graph.rules[rule].edges \in Seq(graph.edges) /\ graph.rules[rule].edges \in Seq(EdgeIds)
    OBVIOUS
  <2> DEFINE t == graph.rules[rule].edges
  <2>1. t \in Seq(EdgeIds) /\ {t[i] : i \in DOMAIN t} \subseteq graph.edges
    BY <1>2, <1>3, <1>5 DEF EdgesOfRule, ToSet
  <2> HIDE DEF t
  <2>2. t \in Seq(graph.edges)
    BY <2>1
  <2> QED
    BY <2>1, <2>2 DEF t
<1>8. route'.left \in Seq(EdgeIds \cup GraphNodes)
  <2>1. CASE route'.phase = "resolved"
    <3>1. route'.left = <<>>
      BY <1>6, <2>1
    <3> QED
      BY <3>1
  <2>2. CASE route'.phase = "ruled"
    BY <1>6, <1>7, <2>2
  <2>3. CASE route'.phase = "searching"
    BY <1>2, <1>6, <2>3
  <2> QED
    BY <1>6, <2>1, <2>2, <2>3
<1>9. RouteTypeOK'
  <2>1. route' \in
         [phase : {"asked", "ruled", "searching", "resolved", "no_path", "ambiguous"},
          root : GraphNodes \cup {NoNode}, rule : 0..Len(graph.rules),
          steps : Seq([edge : EdgeIds, existing : GraphNodes, introduced : GraphNodes]),
          left : Seq(EdgeIds \cup GraphNodes)]
    <3>1. route' = [phase |-> route'.phase, root |-> route'.root, steps |-> route'.steps,
                    rule |-> route'.rule, left |-> route'.left]
      BY <1>3
    <3>2. route'.steps \in Seq([edge : EdgeIds, existing : GraphNodes, introduced : GraphNodes])
      BY <1>6
    <3>3. route'.phase \in {"asked", "ruled", "searching", "resolved", "no_path", "ambiguous"}
          /\ route'.root \in GraphNodes \cup {NoNode} /\ route'.rule \in 0 .. Len(graph.rules)
      BY <1>4, <1>5, <1>6
    <3> QED
      BY <1>8, <3>1, <3>2, <3>3
  <2> QED
    BY <1>1, <1>3, <2>1 DEF RouteTypeOK, Required
<1>10. IsJoinTree(route.steps, route.root, graph.edges)'
  BY <1>3, <1>6, EmptyTree
<1>11. Required' = Required /\ Included' = {root}
  BY <1>3, <1>6, EmptyTree DEF Required, Included
<1>12. HasNoLooseEnd(route.steps)'
  BY <1>6 DEF HasNoLooseEnd
<1>13. single => Required = {root}
  <2> SUFFICES ASSUME single
               PROVE  Required = {root}
    OBVIOUS
  <2>1. PICK x : Required = {x}
    BY <1>2, FS_Singleton
  <2> QED
    BY <1>4, <2>1
<1>14. PhaseFits'
  BY <1>3, <1>4, <1>6, <1>7, <1>2, <1>11, <1>12, <1>13 DEF PhaseFits
<1> QED
  BY <1>9, <1>10, <1>14 DEF RouteInv

(* What an action that only ends the resolution keeps.                       *)
LEMMA RouteFailsKeeps ==
  ASSUME RouteAssumption, RouteInv,
         NEW phase \in {"resolved", "no_path", "ambiguous"}, RouteFails(phase)
  PROVE  /\ RouteTypeOK' /\ IsJoinTree(route.steps, route.root, graph.edges)'
         /\ graph' = graph /\ question' = question /\ Required' = Required
         /\ Included' = Included /\ route'.phase = phase /\ route'.root = route.root
         /\ route'.steps = route.steps /\ route'.rule = route.rule
<1>1. RouteTypeOK /\ IsJoinTree(route.steps, route.root, graph.edges)
  BY DEF RouteInv
<1>2. route' = [route EXCEPT !.phase = phase] /\ graph' = graph /\ question' = question /\ fanout' = fanout
  BY DEF RouteFails
<1>3. /\ route'.phase = phase /\ route'.root = route.root
      /\ route'.steps = route.steps /\ route'.rule = route.rule
  BY <1>1, <1>2 DEF RouteTypeOK
<1>4. Required' = Required /\ Included' = Included
  BY <1>2, <1>3 DEF Required, Included
<1>5. RouteTypeOK'
  BY <1>1, <1>2, <1>4 DEF RouteTypeOK
<1>6. IsJoinTree(route.steps, route.root, graph.edges)'
  BY <1>1, <1>2, <1>3
<1> QED
  BY <1>2, <1>3, <1>4, <1>5, <1>6

LEMMA RefusedKeeps ==
  ASSUME RouteAssumption, RouteInv, RouteRefused
  PROVE  RouteInv'
<1>1. RouteFails("no_path") /\ route.phase = "asked" /\ PhaseFits
  BY DEF RouteRefused, RouteInv
<1>2. /\ RouteTypeOK' /\ IsJoinTree(route.steps, route.root, graph.edges)'
      /\ route'.phase = "no_path" /\ route'.root = route.root
  BY <1>1, RouteFailsKeeps
<1>3. route.root = NoNode
  BY <1>1 DEF PhaseFits, Unrouted
<1>4. PhaseFits'
  BY <1>2, <1>3 DEF PhaseFits
<1> QED
  BY <1>2, <1>4 DEF RouteInv

LEMMA RuleEndsKeeps ==
  ASSUME RouteAssumption, RouteInv, RuleEnds
  PROVE  RouteInv'
<1> DEFINE phase == IF Required \subseteq Included THEN "resolved" ELSE "no_path"
<1>1. RouteFails(phase) /\ route.phase = "ruled" /\ PhaseFits
  BY DEF RuleEnds, RouteInv
<1>2. phase \in {"resolved", "no_path", "ambiguous"}
  OBVIOUS
<1>3. /\ RouteTypeOK' /\ IsJoinTree(route.steps, route.root, graph.edges)'
      /\ Required' = Required /\ Included' = Included /\ route'.phase = phase
      /\ route'.root = route.root /\ route'.rule = route.rule
  <2> HIDE DEF phase
  <2> QED
    BY <1>1, <1>2, RouteFailsKeeps
<1>4. route.rule # 0 /\ route.root \in GraphNodes
  BY <1>1 DEF PhaseFits
<1>5. PhaseFits'
  BY <1>3, <1>4 DEF PhaseFits
<1> QED
  BY <1>3, <1>5 DEF RouteInv

LEMMA SearchEndsKeeps ==
  ASSUME RouteAssumption, RouteInv, SearchEnds
  PROVE  RouteInv'
<1>1. RouteFails("resolved") /\ route.phase = "searching" /\ route.left = <<>> /\ PhaseFits
  BY DEF SearchEnds, RouteInv
<1>2. /\ RouteTypeOK' /\ IsJoinTree(route.steps, route.root, graph.edges)'
      /\ Required' = Required /\ Included' = Included /\ route'.phase = "resolved"
      /\ route'.root = route.root /\ route'.rule = route.rule /\ route'.steps = route.steps
  BY <1>1, RouteFailsKeeps
<1>3. ToSet(route.left) = {}
  BY <1>1 DEF ToSet
<1>4. route.root \in GraphNodes /\ Required \subseteq Included /\ HasNoLooseEnd(route.steps)
  BY <1>1, <1>3 DEF PhaseFits
<1>5. HasNoLooseEnd(route.steps)'
  BY <1>2, <1>4 DEF HasNoLooseEnd
<1>6. PhaseFits'
  BY <1>2, <1>4, <1>5 DEF PhaseFits
<1> QED
  BY <1>2, <1>6 DEF RouteInv

(* The steps and what is left of the work, when neither phase nor root nor   *)
(* rule changes.                                                             *)
LEMMA JoiningKeeps ==
  ASSUME RouteAssumption, RouteInv, NEW path, NEW edges \in SUBSET graph.edges,
         route.root \in GraphNodes, IsWalk(path, Included, edges),
         route' = [route EXCEPT !.steps = @ \o path, !.left = Tail(@)],
         route.left # <<>>, UNCHANGED <<graph, question, fanout>>
  PROVE  /\ RouteTypeOK' /\ IsJoinTree(route.steps, route.root, graph.edges)'
         /\ route'.steps = route.steps \o path /\ route'.left = Tail(route.left)
         /\ Included' = Included \cup Introduced(path) /\ Required' = Required
         /\ route'.phase = route.phase /\ route'.root = route.root /\ route'.rule = route.rule
<1>1. RouteTypeOK /\ IsJoinTree(route.steps, route.root, graph.edges)
  BY DEF RouteInv
<1>2. /\ route'.steps = route.steps \o path /\ route'.left = Tail(route.left)
      /\ route'.phase = route.phase /\ route'.root = route.root /\ route'.rule = route.rule
  BY <1>1 DEF RouteTypeOK
<1>3. IsWalk(path, {route.root} \cup Introduced(route.steps), graph.edges)
  BY DEF IsWalk, Crosses, Included
<1>4. /\ IsJoinTree(route.steps \o path, route.root, graph.edges)
      /\ Introduced(route.steps \o path) = Introduced(route.steps) \cup Introduced(path)
  <2>1. Included = {route.root} \cup Introduced(route.steps)
    BY DEF Included
  <2>2. IsWalk(path, Included, graph.edges)
    BY <1>3, <2>1
  <2> QED
    BY <1>1, <2>1, <2>2, WalkJoins
<1>5. Included' = Included \cup Introduced(path) /\ Required' = Required
  BY <1>2, <1>4 DEF Included, Required
<1>6. IsJoinTree(route.steps, route.root, graph.edges)'
  BY <1>2, <1>4
<1>7. RouteTypeOK'
  <2>1. route.steps \o path \in Seq(StepRecords)
    BY <1>4 DEF IsJoinTree
  <2>2. Tail(route.left) \in Seq(EdgeIds \cup GraphNodes)
    BY <1>1 DEF RouteTypeOK
  <2>3. route' \in
         [phase : {"asked", "ruled", "searching", "resolved", "no_path", "ambiguous"},
          root : GraphNodes \cup {NoNode}, rule : 0..Len(graph.rules),
          steps : Seq(StepRecords), left : Seq(EdgeIds \cup GraphNodes)]
    <3>1. route \in
         [phase : {"asked", "ruled", "searching", "resolved", "no_path", "ambiguous"},
          root : GraphNodes \cup {NoNode}, rule : 0..Len(graph.rules),
          steps : Seq(StepRecords), left : Seq(EdgeIds \cup GraphNodes)]
      BY <1>1 DEF RouteTypeOK, StepRecords
    <3> HIDE DEF StepRecords
    <3> QED
      BY <1>2, <2>1, <2>2, <3>1
  <2> QED
    BY <1>1, <1>5, <2>3 DEF RouteTypeOK, StepRecords
<1> QED
  BY <1>2, <1>5, <1>6, <1>7

(* The next edge of the rule: the one crossing of it that brings in a role.  *)
LEMMA RuleEdgeKeeps ==
  ASSUME RouteAssumption, RouteInv, RuleEdge
  PROVE  RouteInv'
<1>1. RouteTypeOK /\ PhaseFits /\ route.phase = "ruled" /\ route.left # <<>>
  BY DEF RouteInv, RuleEdge
<1>2. route.rule # 0 /\ route.left \in Seq(graph.edges) /\ route.root \in GraphNodes
  BY <1>1 DEF PhaseFits
<1>3. CASE RouteFails("no_path")
  <2>1. /\ RouteTypeOK' /\ IsJoinTree(route.steps, route.root, graph.edges)'
        /\ route'.phase = "no_path" /\ route'.rule = route.rule
    BY <1>3, RouteFailsKeeps
  <2>2. PhaseFits'
    BY <1>2, <2>1 DEF PhaseFits
  <2> QED
    BY <2>1, <2>2 DEF RouteInv
<1>4. CASE \E step \in RuleCrossings :
             /\ route' = [route EXCEPT !.steps = Append(@, step), !.left = Tail(@)]
             /\ UNCHANGED <<graph, question, fanout>>
  <2>1. PICK step \in RuleCrossings :
             /\ route' = [route EXCEPT !.steps = Append(@, step), !.left = Tail(@)]
             /\ UNCHANGED <<graph, question, fanout>>
    BY <1>4
  <2> DEFINE edges == {Head(route.left)}
  <2>2. PICK x \in Included : step \in Crossings(edges, x) /\ step.introduced \notin Included
    <3>1. step \in UNION {Crossings(edges, n) : n \in Included} /\ step.introduced \notin Included
      BY <2>1 DEF RuleCrossings
    <3> HIDE DEF edges
    <3> QED
      BY <3>1
  <2>3. graph.edges \subseteq EdgeIds
    BY <1>1, RouteFacts
  <2>4. edges \subseteq graph.edges /\ edges \in SUBSET EdgeIds
    BY <1>1, <1>2, <2>3
  <2>5. Included \subseteq GraphNodes
    <3>1. route.steps \in Seq(StepRecords)
      BY <1>1 DEF RouteTypeOK, StepRecords
    <3> QED
      BY <1>2, <3>1, IntroducedRoles DEF Included
  <2> HIDE DEF edges
  <2>6. Crosses(step, edges) /\ step.existing = x
    <3>1. x \in GraphNodes /\ step.introduced # x
      BY <2>2, <2>5
    <3> QED
      BY <2>2, <2>4, <3>1, CrossingCrosses
  <2>7. step \in StepRecords
    BY <2>6 DEF Crosses
  <2>8. IsWalk(<<step>>, Included, edges)
    <3>1. <<step>> \in Seq(StepRecords) /\ Len(<<step>>) = 1 /\ <<step>>[1] = step
      BY <2>7
    <3>2. \A i \in 1 .. 1 : i = 1 /\ 1 .. i - 1 = {}
      OBVIOUS
    <3> QED
      BY <2>2, <2>6, <3>1, <3>2 DEF IsWalk
  <2>9. route' = [route EXCEPT !.steps = @ \o <<step>>, !.left = Tail(@)]
    <3>1. Append(route.steps, step) = route.steps \o <<step>>
      <4>1. route.steps \in Seq(StepRecords)
        BY <1>1 DEF RouteTypeOK, StepRecords
      <4> HIDE DEF StepRecords
      <4> QED
        BY <2>7, <4>1
    <3> QED
      BY <2>1, <3>1
  <2>10. /\ RouteTypeOK' /\ IsJoinTree(route.steps, route.root, graph.edges)'
         /\ route'.left = Tail(route.left) /\ graph' = graph
         /\ route'.phase = route.phase /\ route'.root = route.root /\ route'.rule = route.rule
    <3>1. edges \in SUBSET graph.edges /\ UNCHANGED <<graph, question, fanout>>
      BY <2>1, <2>4
    <3> QED
      BY <1>1, <1>2, <2>8, <2>9, <3>1, JoiningKeeps
  <2>11. Tail(route.left) \in Seq(graph.edges)
    <3> DEFINE left == route.left
               E == graph.edges
    <3>1. left \in Seq(E) /\ left # <<>>
      BY <1>1, <1>2
    <3> HIDE DEF left, E
    <3>2. Tail(left) \in Seq(E)
      BY <3>1
    <3> QED
      BY <3>2 DEF left, E
  <2>12. PhaseFits'
    BY <1>1, <1>2, <2>10, <2>11 DEF PhaseFits
  <2> QED
    BY <2>10, <2>12 DEF RouteInv
<1>5. RouteFails("no_path") \/ \E step \in RuleCrossings :
             /\ route' = [route EXCEPT !.steps = Append(@, step), !.left = Tail(@)]
             /\ UNCHANGED <<graph, question, fanout>>
  BY DEF RuleEdge
<1> QED
  BY <1>3, <1>4, <1>5

LEMMA HeadAndTail ==
  ASSUME NEW S, NEW left \in Seq(S), left # <<>>
  PROVE  /\ Tail(left) \in Seq(S) /\ Head(left) \in S
         /\ ToSet(left) = {Head(left)} \cup ToSet(Tail(left))
<1> DEFINE n == Len(left)
           rest == Tail(left)
<1>1. n \in Nat /\ n # 0 /\ DOMAIN left = 1 .. n /\ \A i \in 1 .. n : left[i] \in S
  OBVIOUS
<1>2. rest \in Seq(S) /\ Len(rest) = n - 1 /\ \A i \in 1 .. n - 1 : rest[i] = left[i + 1]
  OBVIOUS
<1>3. Head(left) = left[1]
  OBVIOUS
<1>4. DOMAIN rest = 1 .. n - 1
  BY <1>2
<1>5. ToSet(left) = {left[i] : i \in 1 .. n} /\ ToSet(rest) = {rest[i] : i \in 1 .. n - 1}
  BY <1>1, <1>4 DEF ToSet
<1> HIDE DEF n, rest
<1>6. ASSUME NEW i \in 1 .. n
      PROVE  left[i] \in {left[1]} \cup {rest[j] : j \in 1 .. n - 1}
  <2>1. CASE i = 1
    BY <2>1
  <2>2. CASE i # 1
    <3>1. i - 1 \in 1 .. n - 1 /\ (i - 1) + 1 = i
      BY <1>1, <2>2
    <3>2. rest[i - 1] = left[i]
      BY <1>2, <3>1
    <3> QED
      BY <3>1, <3>2
  <2> QED
    BY <2>1, <2>2
<1>7. 1 \in 1 .. n /\ \A j \in 1 .. n - 1 : j + 1 \in 1 .. n /\ rest[j] = left[j + 1]
  BY <1>1, <1>2
<1>8. ToSet(left) = {left[1]} \cup ToSet(rest)
  BY <1>5, <1>6, <1>7
<1> QED
  BY <1>1, <1>2, <1>3, <1>7, <1>8 DEF rest

(* The next asked role is joined already, or joined by the one cheapest      *)
(* path to it, or cannot be reached, or there are several such paths.        *)
LEMMA TargetJoinedKeeps ==
  ASSUME RouteAssumption, RouteInv, TargetJoined
  PROVE  RouteInv'
<1> DEFINE target == Head(route.left)
           best == BestPaths(Included, target, graph.edges)
           paths == PathsTo(Included, target, graph.edges)
<1>1. RouteTypeOK /\ IsJoinTree(route.steps, route.root, graph.edges) /\ PhaseFits
      /\ route.phase = "searching" /\ route.left # <<>>
  BY DEF RouteInv, TargetJoined
<1>2. /\ route.root \in GraphNodes /\ route.rule = 0 /\ route.left \in Seq(GraphNodes)
      /\ ToSet(route.left) \subseteq Required /\ Required \subseteq Included \cup ToSet(route.left)
      /\ HasNoLooseEnd(route.steps)
  BY <1>1 DEF PhaseFits
<1>3. /\ Tail(route.left) \in Seq(GraphNodes) /\ target \in Required
      /\ ToSet(Tail(route.left)) \subseteq Required
      /\ Required \subseteq Included \cup {target} \cup ToSet(Tail(route.left))
  <2> DEFINE left == route.left
  <2>1. left \in Seq(GraphNodes) /\ left # <<>>
    BY <1>1, <1>2
  <2> HIDE DEF left
  <2>2. Tail(left) \in Seq(GraphNodes) /\ ToSet(left) = {Head(left)} \cup ToSet(Tail(left))
    BY <2>1, HeadAndTail
  <2> QED
    BY <1>2, <2>2 DEF left
<1>4. Included \subseteq GraphNodes /\ route.root \in Included /\ graph.edges \in SUBSET EdgeIds
  <2>1. route.steps \in Seq(StepRecords)
    BY <1>1 DEF RouteTypeOK, StepRecords
  <2>2. graph.edges \subseteq EdgeIds
    BY <1>1, RouteFacts
  <2> QED
    BY <1>2, <2>1, <2>2, IntroducedRoles DEF Included
<1>5. best = {p \in paths : ~ \E other \in paths : Cheaper(PathCost(other), PathCost(p))}
  BY DEF BestPaths
<1>6. ASSUME NEW p \in paths
      PROVE  /\ IsWalk(p, Included, graph.edges) /\ p \in Seq(StepRecords) /\ Len(p) # 0
             /\ p[Len(p)].introduced = target /\ target \in Introduced(p)
  <2>1. /\ IsWalk(p, Included, graph.edges) /\ Len(p) \in Nat \ {0} /\ p[Len(p)].introduced = target
    BY <1>4, <1>6, PathsArrive
  <2>2. p \in Seq(StepRecords) /\ Len(p) \in 1 .. Len(p)
    BY <2>1 DEF IsWalk
  <2> QED
    BY <2>1, <2>2, IntroducedRoles
<1>7. /\ graph' = graph /\ question' = question /\ fanout' = fanout
      /\ \/ target \in Included /\ route' = [route EXCEPT !.left = Tail(@)]
         \/ /\ target \notin Included /\ Cardinality(best) # 1
            /\ RouteFails(IF best = {} THEN "no_path" ELSE "ambiguous")
         \/ \E path \in best :
              target \notin Included /\ route' = [route EXCEPT !.steps = @ \o path, !.left = Tail(@)]
  BY DEF TargetJoined, RouteFails
<1> HIDE DEF best, paths, target
<1>8. CASE target \in Included /\ route' = [route EXCEPT !.left = Tail(@)]
  <2>1. /\ route'.left = Tail(route.left) /\ route'.steps = route.steps
        /\ route'.phase = route.phase /\ route'.root = route.root /\ route'.rule = route.rule
    BY <1>1, <1>8 DEF RouteTypeOK
  <2>2. Included' = Included /\ Required' = Required
    BY <1>7, <2>1 DEF Included, Required
  <2>3. RouteTypeOK'
    <3>1. Tail(route.left) \in Seq(EdgeIds \cup GraphNodes)
      BY <1>3
    <3> QED
      BY <1>1, <1>7, <1>8, <2>2, <3>1 DEF RouteTypeOK
  <2>4. IsJoinTree(route.steps, route.root, graph.edges)' /\ HasNoLooseEnd(route.steps)'
    BY <1>1, <1>2, <1>7, <2>1, <2>2 DEF HasNoLooseEnd
  <2>5. PhaseFits'
    BY <1>1, <1>2, <1>3, <1>8, <2>1, <2>2, <2>4 DEF PhaseFits
  <2> QED
    BY <2>3, <2>4, <2>5 DEF RouteInv
<1>9. CASE target \notin Included /\ RouteFails(IF best = {} THEN "no_path" ELSE "ambiguous")
  <2> DEFINE phase == IF best = {} THEN "no_path" ELSE "ambiguous"
  <2>1. phase \in {"resolved", "no_path", "ambiguous"} /\ RouteFails(phase)
        /\ phase # "resolved" /\ phase # "searching" /\ phase # "asked" /\ phase # "ruled"
    BY <1>9
  <2>2. phase = "no_path" => best = {}
    OBVIOUS
  <2> HIDE DEF phase
  <2>3. /\ RouteTypeOK' /\ IsJoinTree(route.steps, route.root, graph.edges)'
        /\ graph' = graph /\ Required' = Required
        /\ route'.phase = phase /\ route'.root = route.root
    BY <2>1, RouteFailsKeeps
  <2>4. best = {} => Unreachable(route.root)
    <3> SUFFICES ASSUME best = {}
                 PROVE  Unreachable(route.root)
      OBVIOUS
    <3>1. paths = {}
      <4>1. paths \in SUBSET Seq(StepRecords)
        BY <1>6
      <4> QED
        BY <1>5, <4>1, CheapestIsThere
    <3>2. target \notin ReachedBy(Directed(graph.edges), route.root)
      BY <1>4, <1>9, <3>1, NoPathMeansCut DEF paths
    <3> QED
      BY <1>3, <3>2 DEF Unreachable
  <2>5. Unreachable(route.root) => Unreachable(route.root)'
    BY <2>3 DEF Unreachable
  <2>6. PhaseFits'
    BY <2>1, <2>2, <2>3, <2>4, <2>5 DEF PhaseFits
  <2> QED
    BY <2>3, <2>6 DEF RouteInv
<1>10. ASSUME NEW path \in best, target \notin Included,
              route' = [route EXCEPT !.steps = @ \o path, !.left = Tail(@)]
       PROVE  RouteInv'
  <2>1. /\ IsWalk(path, Included, graph.edges) /\ path \in Seq(StepRecords) /\ Len(path) # 0
        /\ path[Len(path)].introduced = target /\ target \in Introduced(path)
    BY <1>5, <1>6, <1>10
  <2>2. /\ RouteTypeOK' /\ IsJoinTree(route.steps, route.root, graph.edges)'
        /\ route'.steps = route.steps \o path /\ route'.left = Tail(route.left)
        /\ Included' = Included \cup Introduced(path) /\ Required' = Required
        /\ route'.phase = route.phase /\ route'.root = route.root /\ route'.rule = route.rule
    <3>1. graph.edges \in SUBSET graph.edges /\ UNCHANGED <<graph, question, fanout>>
      BY <1>7
    <3> QED
      BY <1>1, <1>2, <1>10, <2>1, <3>1, JoiningKeeps
  <2>3. HasNoLooseEnd(route.steps \o path)
    <3>1. route.steps \in Seq(StepRecords)
      BY <1>1 DEF RouteTypeOK, StepRecords
    <3> QED
      BY <1>2, <1>3, <2>1, <3>1, WalkLeadsOn
  <2>4. HasNoLooseEnd(route.steps)'
    BY <2>2, <2>3 DEF HasNoLooseEnd
  <2>5. PhaseFits'
    BY <1>1, <1>2, <1>3, <2>1, <2>2, <2>4 DEF PhaseFits
  <2> QED
    BY <2>2, <2>5 DEF RouteInv
<1> QED
  BY <1>7, <1>8, <1>9, <1>10

(* The guard's decision changes neither the route nor what was asked for.    *)
LEMMA GuardedKeeps ==
  ASSUME RouteInv,
         \/ Guarded
         \/ UNCHANGED route_vars
  PROVE  RouteInv'
<1>1. RouteTypeOK /\ IsJoinTree(route.steps, route.root, graph.edges) /\ PhaseFits
  BY DEF RouteInv
<1>2. graph' = graph /\ route' = route
  BY DEF Guarded, route_vars
<1>3. RouteTypeOK' /\ Required' = Required
  <2>1. CASE UNCHANGED route_vars
    BY <1>1, <2>1 DEF route_vars, RouteTypeOK, Required
  <2>2. CASE Guarded
    <3>1. PICK measures \in SUBSET Required, analysis \in {"detail", "aggregate"} :
            question' = [question EXCEPT !.measures = measures, !.analysis = analysis]
      BY <2>2 DEF Guarded
    <3>2. question.required \in Asked /\ question \in [required : Asked, measures : SUBSET GraphNodes,
                    analysis : {"open", "detail", "aggregate"}]
      BY <1>1 DEF RouteTypeOK
    <3>3. Required \subseteq GraphNodes
      BY <3>2, AskedRoles DEF Required
    <3>4. /\ question' \in [required : Asked, measures : SUBSET GraphNodes,
                    analysis : {"open", "detail", "aggregate"}]
          /\ question'.required = question.required /\ question'.measures = measures
      BY <3>1, <3>2, <3>3
    <3>5. Required' = Required /\ fanout' \in {"undecided", "safe", "unsafe"}
      BY <2>2, <3>4 DEF Required, Guarded
    <3> QED
      BY <1>1, <1>2, <3>1, <3>4, <3>5 DEF RouteTypeOK
  <2> QED
    BY <2>1, <2>2
<1>4. Included' = Included
  BY <1>2 DEF Included
<1>5. HasNoLooseEnd(route.steps)' = HasNoLooseEnd(route.steps)
  BY <1>2, <1>3 DEF HasNoLooseEnd
<1>6. PhaseFits'
  BY <1>1, <1>2, <1>3, <1>4, <1>5 DEF PhaseFits, Unreachable, Unrouted
<1> QED
  BY <1>1, <1>2, <1>3, <1>6 DEF RouteInv

(* The inductive invariant: the steps are a tree rooted at an asked role,    *)
(* the work that is left covers what the tree does not, and NO_PATH has a    *)
(* reason.                                                                   *)
THEOREM RouteInvariant == RouteSpec => []RouteInv
<1>1. RouteInit => RouteInv
  BY RouteAssumption, RouteStarts
<1>2. RouteInv /\ [RouteNext]_route_vars => RouteInv'
  BY RouteAssumption, AskedKeeps, RefusedKeeps, RuleEdgeKeeps, RuleEndsKeeps, TargetJoinedKeeps,
     SearchEndsKeeps, GuardedKeeps DEF RouteNext
<1> QED
  BY <1>1, <1>2, PTL DEF RouteSpec

(* The resolver's state keeps its types, whatever the graph and the question. *)
THEOREM RouteTypesHold == RouteSpec => []RouteTypeOK
<1>1. RouteInv => RouteTypeOK
  BY DEF RouteInv
<1> QED
  BY <1>1, RouteInvariant, PTL

LEMMA TreesAreJoined ==
  ASSUME IsJoinTree(route.steps, route.root, graph.edges)
  PROVE  JoinTree
<1> DEFINE steps == route.steps
           root == route.root
<1>1. /\ steps \in Seq(StepRecords)
      /\ \A i \in 1 .. Len(steps) :
           /\ Crosses(steps[i], graph.edges)
           /\ steps[i].introduced # root
           /\ \A j \in 1 .. i - 1 : steps[j].introduced # steps[i].introduced
           /\ steps[i].existing = root \/ \E j \in 1 .. i - 1 : steps[j].introduced = steps[i].existing
  BY DEF IsJoinTree
<1> HIDE DEF steps, root
<1>2. DOMAIN steps = 1 .. Len(steps) /\ Len(steps) \in Nat
  BY <1>1
<1>3. ASSUME NEW i \in 1 .. Len(steps)
      PROVE  LET before == {root} \cup Introduced(SubSeq(steps, 1, i - 1))
             IN /\ steps[i].edge \in graph.edges
                /\ steps[i].existing \in before /\ steps[i].introduced \notin before
                /\ {steps[i].existing, steps[i].introduced} = Ends(steps[i].edge)
                /\ steps[i].introduced # EdgeOf[steps[i].edge].preserve
  <2> DEFINE sub == SubSeq(steps, 1, i - 1)
  <2>1. sub \in Seq(StepRecords) /\ Len(sub) = i - 1 /\ \A j \in 1 .. i - 1 : sub[j] = steps[j]
    BY <1>1, <1>2
  <2> HIDE DEF sub
  <2>2. /\ \A j \in 1 .. i - 1 : sub[j].introduced \in Introduced(sub)
        /\ \A x \in Introduced(sub) : \E j \in 1 .. i - 1 : sub[j].introduced = x
    BY <2>1, IntroducedRoles
  <2>3. steps[i].existing \in {root} \cup Introduced(sub)
    BY <1>1, <1>3, <2>1, <2>2
  <2>4. steps[i].introduced \notin {root} \cup Introduced(sub)
    BY <1>1, <1>3, <2>1, <2>2
  <2>5. Crosses(steps[i], graph.edges)
    BY <1>1
  <2> QED
    BY <2>3, <2>4, <2>5 DEF sub, Crosses
<1> QED
  BY <1>2, <1>3 DEF JoinTree, steps, root

(* A resolved route is a join tree over enabled edges that reaches every     *)
(* asked role, without a branch that no one asked for, and NO_PATH is said   *)
(* only of roles that the edges cannot reach from the root.                  *)
THEOREM RoutesStayTrees == RouteSpec => []RoutesAreTrees
<1>1. RouteInv => RoutesAreTrees
  <2> SUFFICES ASSUME RouteInv
               PROVE  RoutesAreTrees
    OBVIOUS
  <2>1. JoinTree /\ PhaseFits /\ DOMAIN route.steps = 1 .. Len(route.steps)
    BY TreesAreJoined DEF RouteInv, IsJoinTree
  <2> QED
    BY <2>1 DEF RoutesAreTrees, PhaseFits, HasNoLooseEnd, Unreachable
<1> QED
  BY <1>1, RouteInvariant, PTL

(***************************************************************************)
(* Programs, for any catalog, programs, router answers and joins of the    *)
(* first version.                                                          *)
(*                                                                         *)
(* A program is accepted by the names that are expected of its stages and  *)
(* compiled stage by stage, each from what is recorded of its inputs.  So  *)
(* the invariant says of every compiled stage that its lineage is that of  *)
(* the root stages whose rows reach it, which is no longer looked up; and  *)
(* by induction along the stages the names are those that are produced.    *)
(***************************************************************************)
PlanFits ==
  /\ planning.phase = "asked" => planning.attempts < MaxAttempts
  /\ planning.phase \notin {"asked", "failed"} => planning.attempts = 0
  /\ program # NoProgram =>
       /\ WellFormed(program) /\ program.status = "ready"
       /\ planning.author = "planner" => InScope(program)
  /\ planning.phase = "planned" => compiled = <<>>
  /\ planning.phase = "prepared" => Len(compiled) = Len(program.stages) /\ Authorized

(* What the compiler has found out about a stage.                            *)
RowsFrom(i) == UNION {RootFields(program.stages[j]) : j \in RootsOf(program)[i]}

StageFits(i) ==
  LET stage == program.stages[i]
      built == compiled[i]
  IN /\ built.lineage = RowsFrom(i)
     /\ stage.kind = "root" =>
          RootFits(stage) /\ built.route \in ScopesFor(stage) \ {NoRoute}
     /\ stage.kind = "join" /\ binding = Graph =>
          RouteChoices[RolesOf(built.lineage)] # {NoRoute}
     /\ built.outputs =
          IF stage.kind = "union" THEN BuiltOf(stage.inputs[1]).outputs ELSE stage.outputs
     /\ stage.kind = "union" => UnionFits(stage)

ProgramInv ==
  /\ ProgramTypeOK
  /\ PlanFits
  /\ program # NoProgram => \A i \in DOMAIN compiled : StageFits(i)

(***************************************************************************)
(* Programs of query stages.                                               *)
(***************************************************************************)
(* A function on 1 .. n is defined when its value at i depends only on the   *)
(* values before i: F[i] gives it from any function that has these values.   *)
LooksBack(F, n, D) ==
  /\ F \in [1 .. n -> [[1 .. n -> D] -> D]]
  /\ \A i \in 1 .. n, g, h \in [1 .. n -> D] :
        (\A j \in 1 .. i - 1 : g[j] = h[j]) => F[i][g] = F[i][h]

IsDefinedBy(f, F, n, D) == f \in [1 .. n -> D] /\ \A i \in 1 .. n : f[i] = F[i][f]

LEMMA DefinedFromBefore ==
  ASSUME NEW n \in Nat, NEW D, NEW base \in D, NEW F, LooksBack(F, n, D)
  PROVE  \E f : IsDefinedBy(f, F, n, D)
<1>5. F \in [1 .. n -> [[1 .. n -> D] -> D]]
  BY DEF LooksBack
<1> DEFINE Defines(f, k) == f \in [1 .. n -> D] /\ \A i \in 1 .. k : f[i] = F[i][f]
           S == {k \in 0 .. n : \E f : Defines(f, k)}
<1>1. 0 \in S
  <2>1. Defines([i \in 1 .. n |-> base], 0)
    OBVIOUS
  <2> HIDE DEF Defines
  <2> QED
    BY <2>1
<1>2. ASSUME NEW k \in 0 .. n - 1, k \in S
      PROVE  k + 1 \in S
  <2>1. PICK f : Defines(f, k)
    BY <1>2
  <2> DEFINE value == F[k + 1][f]
             g == [f EXCEPT ![k + 1] = value]
  <2>2. k + 1 \in 1 .. n /\ value \in D
    BY <1>5, <2>1
  <2> HIDE DEF value
  <2>3. /\ g \in [1 .. n -> D] /\ g[k + 1] = value
        /\ \A i \in 1 .. k : g[i] = f[i]
    BY <2>1, <2>2
  <2> HIDE DEF g
  <2>4. ASSUME NEW i \in 1 .. k + 1
        PROVE  g[i] = F[i][g]
    <3>1. i \in 1 .. n /\ \A j \in 1 .. i - 1 : f[j] = g[j]
      BY <2>2, <2>3
    <3>2. F[i][f] = F[i][g]
      BY <3>1, <2>1, <2>3 DEF LooksBack
    <3>3. CASE i = k + 1
      BY <3>2, <3>3, <2>3 DEF value
    <3>4. CASE i \in 1 .. k
      BY <3>2, <3>4, <2>1, <2>3
    <3> QED
      BY <3>3, <3>4
  <2>5. Defines(g, k + 1)
    BY <2>3, <2>4
  <2> HIDE DEF Defines
  <2> QED
    BY <2>2, <2>5
<1> HIDE DEF S
<1>3. n \in S
  <2>1. \A k \in 0 .. n : k \in S
    BY <1>1, <1>2, Counting
  <2> QED
    BY <2>1
<1> QED
  BY <1>3 DEF S, IsDefinedBy

(* The stages of a program, in order.                                        *)
LEMMA StagesInOrder ==
  ASSUME ProgramAssumption, NEW p \in Programs
  PROVE  /\ Len(p.stages) \in Nat /\ StagesOf(p) = 1 .. Len(p.stages)
         /\ Shaped(p.stages)
BY DEF ProgramAssumption, StagesOf

(* What a stage names is an earlier stage.                                   *)
LEMMA InputsAreBefore ==
  ASSUME ProgramAssumption, NEW p \in Programs, WellFormed(p), p.status = "ready",
         NEW i \in StagesOf(p), NEW id \in InputsOf(p.stages[i])
  PROVE  Place(p, id) \in 1 .. i - 1 /\ Place(p, id) \in StagesOf(p)
<1>1. Len(p.stages) \in Nat /\ StagesOf(p) = 1 .. Len(p.stages)
  BY StagesInOrder
<1>2. id \in IdsBefore(p, i)
  BY DEF WellFormed
<1>3. PICK j \in 1 .. i - 1 : p.stages[j].id = id
  BY <1>2 DEF IdsBefore
<1>4. j \in StagesOf(p)
  BY <1>1, <1>3
<1>5. Place(p, id) \in StagesOf(p) /\ p.stages[Place(p, id)].id = id
  BY <1>3, <1>4 DEF Place
<1>6. ASSUME NEW a \in StagesOf(p), NEW b \in StagesOf(p), a < b
      PROVE  p.stages[a].id # p.stages[b].id
  <2>1. a \in 1 .. b - 1
    BY <1>1, <1>6
  <2>2. p.stages[a].id \in IdsBefore(p, b)
    BY <2>1 DEF IdsBefore
  <2> QED
    BY <2>2 DEF WellFormed
<1>7. ~ (j < Place(p, id)) /\ ~ (Place(p, id) < j)
  BY <1>3, <1>4, <1>5, <1>6
<1>8. Place(p, id) = j
  BY <1>1, <1>4, <1>5, <1>7
<1> QED
  BY <1>3, <1>4, <1>8

(* The inputs that a stage of a kind has.                                    *)
LEMMA KindsOfStages ==
  ASSUME ProgramAssumption, NEW p \in Programs, NEW i \in StagesOf(p)
  PROVE  LET stage == p.stages[i]
         IN /\ stage.kind \in {"root", "stage", "join", "union"}
            /\ stage.outputs \in Seq(OutputNames)
            /\ stage.kind = "root" => InputsOf(stage) = {}
            /\ stage.kind \in {"join", "union"} => stage.inputs[1] \in InputsOf(stage)
            /\ stage.kind = "join" => stage.inputs[2] \in InputsOf(stage)
            /\ stage.kind # "join" => stage.on = {}
            /\ stage.kind = "union" => stage.reads = {}
<1> DEFINE stage == p.stages[i]
<1>1. /\ stage.outputs \in Seq(OutputNames) /\ stage.inputs \in Seq(ToSet(stage.inputs))
      /\ \/ stage.kind = "root" /\ stage.inputs = <<>> /\ stage.on = {}
         \/ stage.kind = "stage" /\ Len(stage.inputs) = 1 /\ stage.on = {}
         \/ stage.kind = "join" /\ Len(stage.inputs) = 2
         \/ /\ stage.kind = "union" /\ Len(stage.inputs) >= 2
            /\ stage.reads = {} /\ stage.on = {}
  BY StagesInOrder DEF Shaped, StagesOf
<1>2. InputsOf(stage) = {stage.inputs[k] : k \in DOMAIN stage.inputs}
  BY DEF InputsOf, ToSet
<1>3. Len(stage.inputs) \in Nat /\ DOMAIN stage.inputs = 1 .. Len(stage.inputs)
  BY <1>1
<1> HIDE DEF stage
<1>4. stage.kind = "root" => InputsOf(stage) = {}
  BY <1>1, <1>2
<1> DEFINE count == Len(stage.inputs)
<1>10. \/ stage.kind = "root" \/ stage.kind = "stage"
       \/ stage.kind = "join" /\ count = 2
       \/ stage.kind = "union" /\ count >= 2
  BY <1>1, Zenon
<1>11. count \in Nat /\ DOMAIN stage.inputs = 1 .. count
  BY <1>3
<1> HIDE DEF count
<1>12. stage.kind \in {"join", "union"} => count >= 2
  BY <1>10, <1>11
<1>5. stage.kind \in {"join", "union"} => 1 \in DOMAIN stage.inputs
  BY <1>11, <1>12
<1>6. stage.kind = "join" => 2 \in DOMAIN stage.inputs
  BY <1>11, <1>12
<1>7. /\ stage.kind \in {"root", "stage", "join", "union"}
      /\ stage.kind # "join" => stage.on = {}
      /\ stage.kind = "union" => stage.reads = {}
  BY <1>1
<1>8. /\ stage.kind \in {"join", "union"} => stage.inputs[1] \in InputsOf(stage)
      /\ stage.kind = "join" => stage.inputs[2] \in InputsOf(stage)
  BY <1>2, <1>5, <1>6
<1>9. /\ stage.kind \in {"root", "stage", "join", "union"}
      /\ stage.outputs \in Seq(OutputNames)
      /\ stage.kind = "root" => InputsOf(stage) = {}
      /\ stage.kind \in {"join", "union"} => stage.inputs[1] \in InputsOf(stage)
      /\ stage.kind = "join" => stage.inputs[2] \in InputsOf(stage)
      /\ stage.kind # "join" => stage.on = {}
      /\ stage.kind = "union" => stage.reads = {}
  BY <1>1, <1>4, <1>7, <1>8
<1> QED
  BY <1>9 DEF stage

(* A stage shows its own outputs, a union those of its first input.          *)
LEMMA ShownNames ==
  ASSUME ProgramAssumption, NEW p \in Programs, WellFormed(p), p.status = "ready"
  PROVE  \A i \in StagesOf(p) :
            NamesShown(p)[i] =
               IF p.stages[i].kind = "union"
               THEN NamesShown(p)[Place(p, p.stages[i].inputs[1])]
               ELSE ToSet(p.stages[i].outputs)
<1> DEFINE n == Len(p.stages)
           D == SUBSET OutputNames
           Value(f, i) == IF p.stages[i].kind = "union" THEN f[Place(p, p.stages[i].inputs[1])]
                          ELSE ToSet(p.stages[i].outputs)
           F == [i \in 1 .. n |-> [f \in [1 .. n -> D] |-> Value(f, i)]]
           Recurs(f) == f = [i \in StagesOf(p) |-> Value(f, i)]
           Names == CHOOSE f : Recurs(f)
<1>1. n \in Nat /\ StagesOf(p) = 1 .. n
  BY StagesInOrder
<1>2. ASSUME NEW i \in 1 .. n
      PROVE  /\ p.stages[i].kind = "union" => /\ Place(p, p.stages[i].inputs[1]) \in 1 .. i - 1
                                              /\ Place(p, p.stages[i].inputs[1]) \in 1 .. n
             /\ ToSet(p.stages[i].outputs) \in D
  <2>1. /\ p.stages[i].kind \in {"join", "union"} =>
             p.stages[i].inputs[1] \in InputsOf(p.stages[i])
        /\ p.stages[i].outputs \in Seq(OutputNames)
    BY <1>1, KindsOfStages
  <2>2. ToSet(p.stages[i].outputs) \in D
    BY <2>1 DEF ToSet
  <2>3. i \in StagesOf(p)
    BY <1>1
  <2>4. \A id \in InputsOf(p.stages[i]) :
           Place(p, id) \in 1 .. i - 1 /\ Place(p, id) \in StagesOf(p)
    BY <2>3, InputsAreBefore
  <2> QED
    BY <1>1, <2>1, <2>2, <2>4
<1>3. \A i \in 1 .. n, f \in [1 .. n -> D] : Value(f, i) \in D
  BY <1>2
<1>4. \A i \in 1 .. n, f, g \in [1 .. n -> D] :
         (\A j \in 1 .. i - 1 : f[j] = g[j]) => Value(f, i) = Value(g, i)
  BY <1>2
<1> HIDE DEF Value
<1>5. F \in [1 .. n -> [[1 .. n -> D] -> D]]
  BY <1>3
<1>6. \A i \in 1 .. n, f \in [1 .. n -> D] : F[i][f] = Value(f, i)
  OBVIOUS
<1>7. {} \in D
  OBVIOUS
<1>8. \E f : Recurs(f)
  <2> HIDE DEF F, D, n
  <2>1. LooksBack(F, n, D)
    <3> SUFFICES ASSUME NEW i \in 1 .. n, NEW f \in [1 .. n -> D], NEW g \in [1 .. n -> D],
                        \A j \in 1 .. i - 1 : f[j] = g[j]
                 PROVE  F[i][f] = F[i][g]
      BY <1>5 DEF LooksBack
    <3>1. Value(f, i) = Value(g, i)
      BY <1>4
    <3>2. F[i][f] = Value(f, i) /\ F[i][g] = Value(g, i)
      BY <1>6
    <3> QED
      BY <3>1, <3>2
  <2>5. n \in Nat
    BY <1>1
  <2>6. PICK f : IsDefinedBy(f, F, n, D)
    BY <1>7, <2>1, <2>5, DefinedFromBefore
  <2>2. f \in [1 .. n -> D] /\ \A i \in 1 .. n : f[i] = F[i][f]
    BY <2>6 DEF IsDefinedBy
  <2>3. \A i \in 1 .. n : f[i] = Value(f, i)
    BY <2>2, <1>6
  <2>4. f = [i \in 1 .. n |-> Value(f, i)]
    BY <2>2, <2>3
  <2> QED
    BY <1>1, <2>4
<1>9. Recurs(Names)
  BY <1>8
<1>10. NamesShown(p) = Names
  BY DEF NamesShown, Value
<1> HIDE DEF Names
<1>11. \A i \in StagesOf(p) : Names[i] = Value(Names, i)
  BY <1>9
<1> QED
  BY <1>10, <1>11 DEF Value

(* The rows of a stage come from itself, or through its inputs.              *)
LEMMA ReachingRoots ==
  ASSUME ProgramAssumption, NEW p \in Programs, WellFormed(p), p.status = "ready"
  PROVE  \A i \in StagesOf(p) :
            RootsOf(p)[i] =
               IF p.stages[i].kind = "root" THEN {i}
               ELSE UNION {RootsOf(p)[Place(p, id)] : id \in InputsOf(p.stages[i])}
<1> DEFINE n == Len(p.stages)
           D == SUBSET (1 .. n)
           Value(f, i) == IF p.stages[i].kind = "root" THEN {i}
                          ELSE UNION {f[Place(p, id)] : id \in InputsOf(p.stages[i])}
           F == [i \in 1 .. n |-> [f \in [1 .. n -> D] |-> Value(f, i)]]
           Recurs(f) == f = [i \in StagesOf(p) |-> Value(f, i)]
           Roots == CHOOSE f : Recurs(f)
<1>1. n \in Nat /\ StagesOf(p) = 1 .. n
  BY StagesInOrder
<1>2. \A i \in 1 .. n : \A id \in InputsOf(p.stages[i]) :
         Place(p, id) \in 1 .. i - 1 /\ Place(p, id) \in 1 .. n
  BY <1>1, InputsAreBefore
<1>3. \A i \in 1 .. n, f \in [1 .. n -> D] : Value(f, i) \in D
  BY <1>2
<1>4. ASSUME NEW i \in 1 .. n, NEW f \in [1 .. n -> D], NEW g \in [1 .. n -> D],
             \A j \in 1 .. i - 1 : f[j] = g[j]
      PROVE  Value(f, i) = Value(g, i)
  <2>1. \A id \in InputsOf(p.stages[i]) : f[Place(p, id)] = g[Place(p, id)]
    BY <1>2, <1>4
  <2>2. {f[Place(p, id)] : id \in InputsOf(p.stages[i])}
          = {g[Place(p, id)] : id \in InputsOf(p.stages[i])}
    BY <2>1
  <2> QED
    BY <2>2
<1> HIDE DEF Value
<1>5. F \in [1 .. n -> [[1 .. n -> D] -> D]]
  BY <1>3
<1>6. \A i \in 1 .. n, f \in [1 .. n -> D] : F[i][f] = Value(f, i)
  OBVIOUS
<1>7. {} \in D
  OBVIOUS
<1>8. \E f : Recurs(f)
  <2> HIDE DEF F, D, n
  <2>1. LooksBack(F, n, D)
    <3> SUFFICES ASSUME NEW i \in 1 .. n, NEW f \in [1 .. n -> D], NEW g \in [1 .. n -> D],
                        \A j \in 1 .. i - 1 : f[j] = g[j]
                 PROVE  F[i][f] = F[i][g]
      BY <1>5 DEF LooksBack
    <3>1. Value(f, i) = Value(g, i)
      BY <1>4
    <3>2. F[i][f] = Value(f, i) /\ F[i][g] = Value(g, i)
      BY <1>6
    <3> QED
      BY <3>1, <3>2
  <2>5. n \in Nat
    BY <1>1
  <2>6. PICK f : IsDefinedBy(f, F, n, D)
    BY <1>7, <2>1, <2>5, DefinedFromBefore
  <2>2. f \in [1 .. n -> D] /\ \A i \in 1 .. n : f[i] = F[i][f]
    BY <2>6 DEF IsDefinedBy
  <2>3. \A i \in 1 .. n : f[i] = Value(f, i)
    BY <2>2, <1>6
  <2>4. f = [i \in 1 .. n |-> Value(f, i)]
    BY <2>2, <2>3
  <2> QED
    BY <1>1, <2>4
<1>9. Recurs(Roots)
  BY <1>8
<1>10. RootsOf(p) = Roots
  BY DEF RootsOf, Value
<1>11. Recurs(RootsOf(p))
  BY <1>9, <1>10
<1>12. \A i \in StagesOf(p) : RootsOf(p)[i] = Value(RootsOf(p), i)
  BY <1>11
<1> QED
  BY <1>12 DEF Value

(***************************************************************************)
(* Joins of the first version.                                             *)
(***************************************************************************)
(* A valid tree tells each relation but the primary one by one join, from    *)
(* relations told before.                                                    *)
LEMMA JoinsInOrder ==
  ASSUME ProgramAssumption, NEW b \in LegacyJoins, ValidJoins(b)
  PROVE  /\ Len(b.joins) \in Nat /\ DOMAIN b.joins = 1 .. Len(b.joins)
         /\ \A k \in DOMAIN b.joins : b.joins[k][1] \in Roles /\ b.joins[k][2] \in Roles
         /\ b.primary \in Roles
         /\ \A r \in Roles : r = b.primary \/ \E k \in DOMAIN b.joins : r = b.joins[k][2]
         /\ \A k \in DOMAIN b.joins :
               /\ b.joins[k][2] # b.primary
               /\ \A j \in 1 .. k - 1 : b.joins[j][2] # b.joins[k][2]
               /\ \/ b.joins[k][1] = b.primary
                  \/ \E j \in 1 .. k - 1 : b.joins[k][1] = b.joins[j][2]
<1> DEFINE Connected(k) == {b.primary} \cup {b.joins[j][2] : j \in 1 .. k - 1}
<1>1. b.joins \in Seq(Roles \X Roles)
  BY DEF ProgramAssumption
<1>2. /\ Len(b.joins) \in Nat /\ DOMAIN b.joins = 1 .. Len(b.joins)
      /\ \A k \in DOMAIN b.joins : b.joins[k] \in Roles \X Roles
  BY <1>1
<1>3. /\ \A k \in DOMAIN b.joins :
            b.joins[k][1] \in Connected(k) /\ b.joins[k][2] \notin Connected(k)
      /\ Connected(Len(b.joins) + 1) = Roles
  BY DEF ValidJoins
<1>4. \A k \in DOMAIN b.joins : b.joins[k][1] \in Roles /\ b.joins[k][2] \in Roles
  BY <1>2
<1>5. b.primary \in Roles
  BY <1>3
<1>6. ASSUME NEW r \in Roles, r # b.primary
      PROVE  \E k \in DOMAIN b.joins : r = b.joins[k][2]
  <2>1. PICK k \in 1 .. (Len(b.joins) + 1) - 1 : r = b.joins[k][2]
    BY <1>3, <1>6
  <2>2. k \in DOMAIN b.joins
    BY <1>2
  <2> QED
    BY <2>1, <2>2
<1>7. ASSUME NEW k \in DOMAIN b.joins
      PROVE  /\ b.joins[k][2] # b.primary
             /\ \A j \in 1 .. k - 1 : b.joins[j][2] # b.joins[k][2]
             /\ \/ b.joins[k][1] = b.primary
                \/ \E j \in 1 .. k - 1 : b.joins[k][1] = b.joins[j][2]
  BY <1>3
<1> QED
  BY <1>2, <1>4, <1>5, <1>6, <1>7

(* The relations above some relations hold these, and are closed upwards:    *)
(* no walk up is longer than there are joins, because each step of it is     *)
(* told by an earlier join than the one before.                              *)
LEMMA AboveIsClosed ==
  ASSUME ProgramAssumption, NEW b \in LegacyJoins, ValidJoins(b),
         NEW relations \in SUBSET Roles
  PROVE  /\ relations \subseteq RelationsAbove(b, relations)
         /\ RelationsAbove(b, relations) \in SUBSET Roles
         /\ \A k \in DOMAIN b.joins : b.joins[k][2] \in RelationsAbove(b, relations) =>
               b.joins[k][1] \in RelationsAbove(b, relations)
<1> DEFINE n == Len(b.joins)
           D == SUBSET Roles
           From(X) == X \cup {b.joins[k][1] : k \in {j \in DOMAIN b.joins : b.joins[j][2] \in X}}
           F == [m \in 1 .. n |-> [X \in D |-> From(X)]]
           Recurs(g) == g = [m \in 0 .. n |-> IF m = 0 THEN relations ELSE From(g[m - 1])]
           Up == CHOOSE g : Recurs(g)
<1>1. n \in Nat /\ DOMAIN b.joins = 1 .. n
  BY JoinsInOrder
<1>2. \A X \in D : From(X) \in D
  BY JoinsInOrder
<1>3. \E g : Recurs(g)
  <2>1. relations \in D
    OBVIOUS
  <2>3. F \in [1 .. n -> [D -> D]]
    BY <1>2
  <2>4. \A m \in 1 .. n, X \in D : F[m][X] = From(X)
    OBVIOUS
  <2> HIDE DEF F, D, From, n
  <2>5. PICK g : IsRecursive(g, n, D, relations, F)
    BY <1>1, <2>1, <2>3, Recursion
  <2>9. /\ g \in [0 .. n -> D] /\ g[0] = relations
        /\ \A m \in 1 .. n : g[m] = F[m][g[m - 1]]
    BY <2>5 DEF IsRecursive
  <2>6. \A m \in 0 .. n : g[m] = IF m = 0 THEN relations ELSE From(g[m - 1])
    <3> SUFFICES ASSUME NEW m \in 0 .. n, m # 0
                 PROVE  g[m] = From(g[m - 1])
      BY <2>9
    <3>1. m \in 1 .. n /\ m - 1 \in 0 .. n
      BY <1>1
    <3>2. g[m - 1] \in D
      BY <3>1, <2>9
    <3> QED
      BY <3>1, <3>2, <2>4, <2>9
  <2>7. g = [m \in 0 .. n |-> g[m]]
    BY <2>9
  <2>8. Recurs(g)
    BY <2>6, <2>7
  <2> QED
    BY <2>8
<1>4. Recurs(Up)
  BY <1>3
<1>5. RelationsAbove(b, relations) = Up[n]
  BY DEF RelationsAbove
<1> HIDE DEF Up
<1>6. Up[0] = relations /\ \A m \in 1 .. n : Up[m] = From(Up[m - 1])
  <2>1. 0 \in 0 .. n /\ \A m \in 1 .. n : m \in 0 .. n /\ m # 0
    BY <1>1
  <2> HIDE DEF From
  <2> QED
    BY <1>4, <2>1
<1> HIDE DEF n
<1>7. \A X : X \subseteq From(X)
  OBVIOUS
<1>8. \A X : \A k \in DOMAIN b.joins : b.joins[k][2] \in X => b.joins[k][1] \in From(X)
  OBVIOUS
<1>9. \A X : \A r \in From(X) : r \in X \/ \E k \in DOMAIN b.joins :
                                           b.joins[k][2] \in X /\ r = b.joins[k][1]
  OBVIOUS
<1> HIDE DEF From
<1> DEFINE Shape(m) ==
             /\ relations \subseteq Up[m] /\ Up[m] \in D
             /\ \A k \in DOMAIN b.joins : b.joins[k][2] \in Up[m] =>
                   \/ k <= n - m
                   \/ b.joins[k][1] \in Up[m]
           S == {m \in 0 .. n : Shape(m)}
<1>10. Shape(0)
  BY <1>1, <1>6
<1>11. ASSUME NEW m \in 0 .. n - 1, Shape(m)
       PROVE  Shape(m + 1)
  <2>1. m + 1 \in 1 .. n /\ (m + 1) - 1 = m /\ m \in Nat
    BY <1>1
  <2>2. Up[m + 1] = From(Up[m])
    BY <2>1, <1>6
  <2>3. relations \subseteq Up[m + 1] /\ Up[m + 1] \in D
    BY <2>2, <1>2, <1>7, <1>11
  <2>4. ASSUME NEW k \in DOMAIN b.joins, b.joins[k][2] \in Up[m + 1],
               b.joins[k][1] \notin Up[m + 1]
        PROVE  k <= n - (m + 1)
    <3>1. b.joins[k][2] \notin Up[m]
      BY <2>2, <2>4, <1>8
    <3>2. PICK j \in DOMAIN b.joins : b.joins[j][2] \in Up[m] /\ b.joins[k][2] = b.joins[j][1]
      BY <2>2, <2>4, <3>1, <1>9
    <3>3. j <= n - m
      BY <1>11, <3>1, <3>2
    <3>4. /\ b.joins[k][2] # b.primary
          /\ \/ b.joins[j][1] = b.primary
             \/ \E i \in 1 .. j - 1 : b.joins[j][1] = b.joins[i][2]
      BY JoinsInOrder
    <3>5. PICK i \in 1 .. j - 1 : b.joins[k][2] = b.joins[i][2]
      BY <3>2, <3>4
    <3>6. i \in 1 .. n /\ j \in 1 .. n /\ k \in 1 .. n
      BY <1>1
    <3>7. ~ (i < k)
      <4>1. i < k => i \in 1 .. k - 1
        BY <3>6
      <4> QED
        BY <4>1, <3>5, JoinsInOrder
    <3>8. k < j
      BY <3>6, <3>7
    <3> QED
      BY <1>1, <2>1, <3>3, <3>6, <3>8
  <2> QED
    BY <2>3, <2>4
<1> HIDE DEF Shape
<1>12. Shape(n)
  <2>1. 0 \in S
    BY <1>1, <1>10
  <2>2. ASSUME NEW m \in 0 .. n - 1, m \in S
        PROVE  m + 1 \in S
    BY <1>1, <1>11, <2>2
  <2> HIDE DEF S
  <2>3. \A m \in 0 .. n : m \in S
    BY <1>1, <2>1, <2>2, Counting
  <2>4. n \in S
    BY <1>1, <2>3
  <2> QED
    BY <2>4 DEF S
<1>13. \A k \in DOMAIN b.joins : ~ (k <= n - n)
  BY <1>1
<1> QED
  BY <1>5, <1>12, <1>13 DEF Shape

(* A route of the first version joins what is asked, each table to one       *)
(* that is joined before.                                                    *)
LEMMA LegacyRoutesJoin ==
  ASSUME ProgramAssumption, NEW b \in LegacyJoins, ValidJoins(b),
         NEW roles \in SUBSET Roles, roles # {}
  PROVE  /\ LegacyRoute(b, roles) \in Routes
         /\ roles \subseteq LegacyRoute(b, roles).roles
         /\ \A k \in JoinsFor(b, roles) :
               b.joins[k][1] \in JoinedBy(b, roles, JoinsFor(b, roles) \cap (1 .. k - 1))
<1> DEFINE Above == RelationsAbove(b, roles)
<1>1. IsFiniteSet(roles)
  <2>1. IsFiniteSet(Fields)
    BY DEF ProgramAssumption
  <2> DEFINE f == [x \in Fields |-> RoleOf[x]]
  <2>3. f \in Surjection(Fields, Roles)
    BY DEF Surjection, Roles
  <2> HIDE DEF f
  <2>2. IsFiniteSet(Roles)
    BY <2>1, <2>3, FS_Surjection
  <2> QED
    BY <2>2, FS_Subset
<1>2. LegacyRoute(b, roles).roles = JoinedBy(b, roles, JoinsFor(b, roles))
  BY DEF LegacyRoute
<1>3. CASE Cardinality(roles) = 1
  <2>1. PICK r : roles = {r}
    BY <1>1, <1>3, FS_Singleton
  <2>2. FirstRelation(b, roles) = r /\ JoinsFor(b, roles) = {}
    BY <1>3, <2>1 DEF FirstRelation, JoinsFor
  <2>3. JoinedBy(b, roles, JoinsFor(b, roles)) = {r}
    BY <2>2 DEF JoinedBy
  <2>4. LegacyRoute(b, roles) \in Routes
    BY <2>1, <2>3 DEF LegacyRoute, Routes
  <2> QED
    BY <1>2, <2>1, <2>2, <2>3, <2>4
<1>4. CASE Cardinality(roles) # 1
  <2>1. FirstRelation(b, roles) = b.primary
    BY <1>4 DEF FirstRelation
  <2>2. JoinsFor(b, roles) = {k \in DOMAIN b.joins : b.joins[k][2] \in Above}
    BY <1>4 DEF JoinsFor
  <2>3. /\ roles \subseteq Above /\ Above \in SUBSET Roles
        /\ \A k \in DOMAIN b.joins : b.joins[k][2] \in Above => b.joins[k][1] \in Above
    BY AboveIsClosed
  <2> HIDE DEF Above
  <2>4. \A S : JoinedBy(b, roles, S) = {b.primary} \cup {b.joins[k][2] : k \in S}
    BY <2>1 DEF JoinedBy
  <2>5. JoinedBy(b, roles, JoinsFor(b, roles)) \in SUBSET Roles
    BY <2>2, <2>4, JoinsInOrder
  <2>6. LegacyRoute(b, roles) \in Routes
    BY <2>5 DEF LegacyRoute, Routes
  <2>7. ASSUME NEW r \in roles
        PROVE  r \in JoinedBy(b, roles, JoinsFor(b, roles))
    <3>1. r = b.primary \/ \E k \in DOMAIN b.joins : r = b.joins[k][2]
      BY JoinsInOrder
    <3> QED
      BY <3>1, <2>2, <2>3, <2>4
  <2>8. ASSUME NEW k \in JoinsFor(b, roles)
        PROVE  b.joins[k][1] \in JoinedBy(b, roles, JoinsFor(b, roles) \cap (1 .. k - 1))
    <3>1. k \in DOMAIN b.joins /\ b.joins[k][1] \in Above
      BY <2>2, <2>3
    <3>2. CASE b.joins[k][1] = b.primary
      BY <3>2, <2>4
    <3>3. CASE \E j \in 1 .. k - 1 : b.joins[k][1] = b.joins[j][2]
      <4>1. PICK j \in 1 .. k - 1 : b.joins[k][1] = b.joins[j][2]
        BY <3>3
      <4>2. j \in DOMAIN b.joins
        BY <3>1, JoinsInOrder
      <4>3. j \in JoinsFor(b, roles) \cap (1 .. k - 1)
        BY <2>2, <3>1, <4>1, <4>2
      <4> DEFINE Before == JoinsFor(b, roles) \cap (1 .. k - 1)
      <4>4. j \in Before
        BY <4>3
      <4> HIDE DEF Before
      <4>5. b.joins[j][2] \in JoinedBy(b, roles, Before)
        BY <2>4, <4>4
      <4> QED
        BY <4>1, <4>5 DEF Before
    <3> QED
      BY <3>1, <3>2, <3>3, JoinsInOrder
  <2> QED
    BY <1>2, <2>6, <2>7, <2>8
<1> QED
  BY <1>3, <1>4

(***************************************************************************)
(* Planning and compiling.                                                 *)
(***************************************************************************)
(* The scopes of a root stage that fits.                                     *)
LEMMA RootsAreScoped ==
  ASSUME ProgramAssumption, binding \in Bound, NEW stage, RootFits(stage)
  PROVE  /\ RolesOf(RootFields(stage)) \in (SUBSET Roles) \ {{}}
         /\ \A scope \in ScopesFor(stage) :
              \/ scope = NoRoute
              \/ scope \in Routes /\ RolesOf(RootFields(stage)) \subseteq scope.roles
<1> DEFINE roles == RolesOf(RootFields(stage))
<1>1. roles \in (SUBSET Roles) \ {{}}
  <2> DEFINE fields == RootFields(stage)
  <2>1. fields # {} /\ fields \subseteq Fields
    BY DEF RootFits
  <2> HIDE DEF fields
  <2>2. RolesOf(fields) \in (SUBSET Roles) \ {{}}
    BY <2>1 DEF RolesOf, Roles
  <2> QED
    BY <2>2 DEF fields
<1> HIDE DEF roles
<1>2. ScopesFor(stage) = IF binding = Graph THEN RouteChoices[roles]
                         ELSE {LegacyRoute(binding, roles)}
  BY DEF ScopesFor, roles
<1>3. \A scope \in ScopesFor(stage) :
         scope = NoRoute \/ (scope \in Routes /\ roles \subseteq scope.roles)
  <2>1. CASE binding = Graph
    BY <1>1, <1>2, <2>1 DEF ProgramAssumption
  <2>2. CASE binding # Graph
    <3>1. binding \in LegacyJoins /\ ValidJoins(binding)
      BY <2>2 DEF Bound
    <3>2. roles \in SUBSET Roles /\ roles # {}
      BY <1>1
    <3>3. LegacyRoute(binding, roles) \in Routes
          /\ roles \subseteq LegacyRoute(binding, roles).roles
      BY <3>1, <3>2, LegacyRoutesJoin
    <3> QED
      BY <1>2, <2>2, <3>3
  <2> QED
    BY <2>1, <2>2
<1> QED
  BY <1>1, <1>3 DEF roles

(* What the invariant says of the stages that are compiled.                  *)
LEMMA CompiledShape ==
  ASSUME ProgramAssumption, ProgramInv, program # NoProgram
  PROVE  /\ program \in Programs /\ WellFormed(program) /\ program.status = "ready"
         /\ Len(compiled) \in Nat /\ DOMAIN compiled = 1 .. Len(compiled)
         /\ Len(program.stages) \in Nat /\ StagesOf(program) = 1 .. Len(program.stages)
         /\ Len(compiled) <= Len(program.stages)
         /\ \A i \in DOMAIN compiled :
               /\ i \in StagesOf(program)
               /\ compiled[i].outputs \in Seq(OutputNames)
               /\ compiled[i].lineage \in SUBSET Fields
               /\ compiled[i].route \in Routes \cup {NoRoute}
               /\ StageFits(i)
<1> DEFINE Built == [outputs : Seq(OutputNames), lineage : SUBSET Fields,
                     route : Routes \cup {NoRoute}]
<1>1. program \in Programs /\ WellFormed(program) /\ program.status = "ready"
  BY DEF ProgramInv, ProgramTypeOK, PlanFits
<1>2. compiled \in Seq(Built)
  BY DEF ProgramInv, ProgramTypeOK
<1>3. /\ Len(compiled) \in Nat /\ DOMAIN compiled = 1 .. Len(compiled)
      /\ \A i \in DOMAIN compiled : compiled[i] \in Built
  <2> HIDE DEF Built
  <2> QED
    BY <1>2
<1>4. Len(program.stages) \in Nat /\ StagesOf(program) = 1 .. Len(program.stages)
  BY <1>1, StagesInOrder
<1>5. Len(compiled) <= Len(program.stages)
  BY DEF ProgramInv, ProgramTypeOK
<1>6. \A i \in DOMAIN compiled : StageFits(i)
  BY DEF ProgramInv
<1>7. \A i \in DOMAIN compiled : i \in StagesOf(program)
  BY <1>3, <1>4, <1>5
<1>8. \A i \in DOMAIN compiled : /\ compiled[i].outputs \in Seq(OutputNames)
                                 /\ compiled[i].lineage \in SUBSET Fields
                                 /\ compiled[i].route \in Routes \cup {NoRoute}
  BY <1>3
<1> QED
  BY <1>1, <1>3, <1>4, <1>5, <1>6, <1>7, <1>8

(* When the next stage is reached, its inputs are compiled.                  *)
NextStage == Len(compiled) + 1

LEMMA InputsAreCompiled ==
  ASSUME ProgramAssumption, ProgramInv, program # NoProgram,
         NEW i \in StagesOf(program), i <= NextStage, NEW id \in InputsOf(program.stages[i])
  PROVE  Place(program, id) \in DOMAIN compiled
<1>1. Place(program, id) \in 1 .. i - 1
  BY CompiledShape, InputsAreBefore
<1>2. i \in Nat /\ Len(compiled) \in Nat /\ DOMAIN compiled = 1 .. Len(compiled)
  BY CompiledShape
<1> QED
  BY <1>1, <1>2 DEF NextStage

(* What flows into a stage from its inputs is what flows in from the roots.  *)
LEMMA LineageIsRows ==
  ASSUME ProgramAssumption, ProgramInv, program # NoProgram,
         NextStage \in StagesOf(program), Current.kind # "root"
  PROVE  LineageOf(Current) = RowsFrom(NextStage) /\ LineageOf(Current) \in SUBSET Fields
<1> DEFINE stage == program.stages[NextStage]
           Through(id) == RootsOf(program)[Place(program, id)]
<1>1. Current = stage
  BY DEF Current, NextStage
<1>2. Len(compiled) \in Nat
  BY CompiledShape
<1>3. \A id \in InputsOf(stage) : Place(program, id) \in DOMAIN compiled
  BY <1>2, InputsAreCompiled DEF NextStage
<1>4. ASSUME NEW id \in InputsOf(stage)
      PROVE  /\ BuiltOf(id).lineage = UNION {RootFields(program.stages[j]) : j \in Through(id)}
             /\ BuiltOf(id).lineage \in SUBSET Fields
  <2>1. StageFits(Place(program, id)) /\ compiled[Place(program, id)].lineage \in SUBSET Fields
    BY <1>3, <1>4, CompiledShape
  <2> QED
    BY <2>1 DEF StageFits, RowsFrom, BuiltOf
<1>5. RootsOf(program)[NextStage] = UNION {Through(id) : id \in InputsOf(stage)}
  <2>1. program \in Programs /\ WellFormed(program) /\ program.status = "ready"
    BY CompiledShape
  <2> QED
    BY <1>1, <2>1, ReachingRoots
<1>6. RowsFrom(NextStage)
        = UNION {RootFields(program.stages[j]) : j \in UNION {Through(id) : id \in InputsOf(stage)}}
  BY <1>5 DEF RowsFrom
<1>7. LineageOf(Current) = UNION {BuiltOf(id).lineage : id \in InputsOf(stage)}
  BY <1>1 DEF LineageOf
<1> HIDE DEF stage, Through
<1>8. ASSUME NEW f
      PROVE  f \in LineageOf(Current) <=> f \in RowsFrom(NextStage)
  <2>1. f \in LineageOf(Current) <=> \E id \in InputsOf(stage) : f \in BuiltOf(id).lineage
    BY <1>7
  <2>2. \A id \in InputsOf(stage) : f \in BuiltOf(id).lineage <=>
           \E j \in Through(id) : f \in RootFields(program.stages[j])
    BY <1>4
  <2>3. f \in RowsFrom(NextStage) <=>
           \E id \in InputsOf(stage) : \E j \in Through(id) : f \in RootFields(program.stages[j])
    BY <1>6
  <2> QED
    BY <2>1, <2>2, <2>3
<1>9. LineageOf(Current) \in SUBSET Fields
  BY <1>4, <1>7
<1> QED
  BY <1>8, <1>9

(* A stage that is compiled as it should be keeps the invariant: nothing is  *)
(* changed of the stages before.                                             *)
LEMMA StageIsAppended ==
  ASSUME ProgramAssumption, ProgramInv, planning.phase = "compiling",
         NextStage \in StagesOf(program),
         NEW outputs \in Seq(OutputNames), NEW lineage \in SUBSET Fields,
         NEW scope \in Routes \cup {NoRoute}, StageDone(outputs, lineage, scope),
         lineage = RowsFrom(NextStage),
         Current.kind = "root" => RootFits(Current) /\ scope \in ScopesFor(Current) \ {NoRoute},
         Current.kind = "join" /\ binding = Graph => RouteChoices[RolesOf(lineage)] # {NoRoute},
         outputs = IF Current.kind = "union" THEN BuiltOf(Current.inputs[1]).outputs
                   ELSE Current.outputs,
         Current.kind = "union" => UnionFits(Current)
  PROVE  ProgramInv'
<1> DEFINE next == [outputs |-> outputs, lineage |-> lineage, route |-> scope]
           Built == [outputs : Seq(OutputNames), lineage : SUBSET Fields,
                     route : Routes \cup {NoRoute}]
<1>1. compiled' = Append(compiled, next) /\ UNCHANGED <<binding, planning, program>>
  BY DEF StageDone
<1>2. program # NoProgram
  BY DEF ProgramInv, ProgramTypeOK
<1>3. /\ program \in Programs /\ Len(compiled) \in Nat /\ DOMAIN compiled = 1 .. Len(compiled)
      /\ Len(program.stages) \in Nat /\ StagesOf(program) = 1 .. Len(program.stages)
      /\ \A i \in DOMAIN compiled : i \in StagesOf(program) /\ StageFits(i)
  BY <1>2, CompiledShape
<1>4. compiled \in Seq(Built) /\ next \in Built
  BY DEF ProgramInv, ProgramTypeOK
<1> HIDE DEF next
<1>5. /\ compiled' \in Seq(Built) /\ Len(compiled') = NextStage
      /\ DOMAIN compiled' = 1 .. NextStage /\ compiled'[NextStage] = next
      /\ \A i \in DOMAIN compiled : compiled'[i] = compiled[i]
  BY <1>1, <1>3, <1>4 DEF NextStage
<1>6. NextStage \in Nat /\ NextStage <= Len(program.stages)
  BY <1>3 DEF NextStage
<1>7. ProgramTypeOK'
  BY <1>1, <1>2, <1>5, <1>6 DEF ProgramInv, ProgramTypeOK
<1>8. PlanFits'
  BY <1>1 DEF ProgramInv, PlanFits
<1>9. ASSUME NEW i \in StagesOf(program), i <= NextStage, NEW id \in InputsOf(program.stages[i])
      PROVE  BuiltOf(id)' = BuiltOf(id)
  <2>1. Place(program, id) \in DOMAIN compiled
    BY <1>2, <1>9, InputsAreCompiled
  <2> QED
    BY <1>1, <1>5, <2>1 DEF BuiltOf
<1>10. ASSUME NEW i \in StagesOf(program), i <= NextStage, program.stages[i].kind = "union"
       PROVE  /\ (BuiltOf(program.stages[i].inputs[1])') = BuiltOf(program.stages[i].inputs[1])
              /\ UnionFits(program.stages[i])' <=> UnionFits(program.stages[i])
  <2> DEFINE stage == program.stages[i]
  <2>1. stage.inputs[1] \in InputsOf(stage)
    BY <1>3, <1>10, KindsOfStages
  <2>2. \A id \in InputsOf(stage) : BuiltOf(id)' = BuiltOf(id)
    BY <1>9, <1>10
  <2>3. stage' = stage
    BY <1>1
  <2> HIDE DEF stage
  <2>4. UnionFits(stage)' <=>
          \A id \in InputsOf(stage) : (BuiltOf(id)').outputs = (BuiltOf(stage.inputs[1])').outputs
    BY <2>3 DEF UnionFits, InputsOf
  <2>5. UnionFits(stage) <=>
          \A id \in InputsOf(stage) : BuiltOf(id).outputs = BuiltOf(stage.inputs[1]).outputs
    BY DEF UnionFits
  <2> QED
    BY <2>1, <2>2, <2>3, <2>4, <2>5 DEF stage
<1>11. \A i : RowsFrom(i)' = RowsFrom(i)
  BY <1>1 DEF RowsFrom
<1>12. \A stage : (ScopesFor(stage)') = ScopesFor(stage)
  BY <1>1 DEF ScopesFor
<1>13. ASSUME NEW i \in DOMAIN compiled
       PROVE  StageFits(i)'
  <2> DEFINE stage == program.stages[i]
  <2>1. i \in StagesOf(program) /\ i <= NextStage /\ StageFits(i)
    BY <1>3, <1>13 DEF NextStage
  <2>2. compiled'[i] = compiled[i] /\ program' = program /\ binding' = binding
    BY <1>1, <1>5, <1>13
  <2>3. stage.kind = "union" => /\ UnionFits(stage)' <=> UnionFits(stage)
                                /\ (BuiltOf(stage.inputs[1])') = BuiltOf(stage.inputs[1])
    BY <2>1, <1>10
  <2> QED
    BY <2>1, <2>2, <2>3, <1>11, <1>12 DEF StageFits
<1>14. ASSUME NEW i \in StagesOf(program), i = NextStage
       PROVE  StageFits(i)'
  <2> DEFINE stage == program.stages[i]
  <2>1. Current = stage
    BY <1>14 DEF Current, NextStage
  <2>2. /\ compiled'[i].lineage = lineage /\ compiled'[i].outputs = outputs
        /\ compiled'[i].route = scope
    BY <1>5, <1>14 DEF next
  <2>3. i \in Nat /\ i <= NextStage
    BY <1>6, <1>14
  <2>4. stage.kind = "union" => /\ UnionFits(stage)' <=> UnionFits(stage)
                                /\ (BuiltOf(stage.inputs[1])') = BuiltOf(stage.inputs[1])
    BY <2>3, <1>10
  <2>5. program' = program /\ binding' = binding
    BY <1>1
  <2>6. lineage = RowsFrom(i)
    BY <1>14
  <2>7. /\ stage.kind = "root" => RootFits(stage) /\ scope \in ScopesFor(stage) \ {NoRoute}
        /\ stage.kind = "join" /\ binding = Graph => RouteChoices[RolesOf(lineage)] # {NoRoute}
        /\ outputs = IF stage.kind = "union" THEN BuiltOf(stage.inputs[1]).outputs
                     ELSE stage.outputs
        /\ stage.kind = "union" => UnionFits(stage)
    BY <2>1
  <2> QED
    BY <2>2, <2>4, <2>5, <2>6, <2>7, <1>11, <1>12 DEF StageFits
<1>15. ASSUME NEW i \in DOMAIN compiled'
       PROVE  StageFits(i)'
  <2>1. CASE i \in DOMAIN compiled
    BY <1>13, <2>1
  <2>2. CASE i \notin DOMAIN compiled
    <3>1. i = NextStage
      BY <1>3, <1>5, <1>6, <2>2 DEF NextStage
    <3>2. i \in StagesOf(program)
      BY <3>1
    <3> QED
      BY <1>14, <3>1, <3>2
  <2> QED
    BY <2>1, <2>2
<1> QED
  BY <1>7, <1>8, <1>15 DEF ProgramInv

LEMMA RootIsAppended ==
  ASSUME ProgramAssumption, ProgramInv, RootCompiled
  PROVE  ProgramInv'
<1>1. PICK scope \in ScopesFor(Current) :
         Readable(Current, scope) /\ StageDone(Current.outputs, RootFields(Current), scope)
  BY DEF RootCompiled
<1>2. /\ planning.phase = "compiling" /\ Len(compiled) < Len(program.stages)
      /\ Current.kind = "root" /\ RootFits(Current)
  BY DEF RootCompiled, Unfinished
<1>3. NextStage \in StagesOf(program) /\ program # NoProgram /\ program \in Programs
      /\ WellFormed(program) /\ program.status = "ready"
  <2>1. program # NoProgram
    BY <1>2 DEF ProgramInv, ProgramTypeOK
  <2> QED
    BY <1>2, <2>1, CompiledShape DEF NextStage
<1>4. Current = program.stages[NextStage]
  BY DEF Current, NextStage
<1>5. Current.outputs \in Seq(OutputNames)
  BY <1>3, <1>4, KindsOfStages
<1>6. RootFields(Current) \in SUBSET Fields
  BY <1>2 DEF RootFits
<1>7. scope # NoRoute /\ scope \in Routes
  <2>1. binding \in Bound
    BY DEF ProgramInv, ProgramTypeOK
  <2> QED
    BY <1>1, <1>2, <2>1, RootsAreScoped DEF Readable
<1>8. RootFields(Current) = RowsFrom(NextStage)
  <2>1. RootsOf(program)[NextStage] = {NextStage}
    BY <1>2, <1>3, <1>4, ReachingRoots
  <2>2. RowsFrom(NextStage) = UNION {RootFields(program.stages[j]) : j \in {NextStage}}
    BY <2>1 DEF RowsFrom
  <2> QED
    BY <2>2, <1>4
<1> QED
  BY <1>1, <1>2, <1>3, <1>5, <1>6, <1>7, <1>8, StageIsAppended

(* A later stage, of whatever kind, has its inputs' rows and no route.       *)
LEMMA LaterIsAppended ==
  ASSUME ProgramAssumption, ProgramInv, planning.phase = "compiling",
         Len(compiled) < Len(program.stages), Current.kind # "root",
         NEW outputs, StageDone(outputs, LineageOf(Current), NoRoute),
         outputs = IF Current.kind = "union" THEN BuiltOf(Current.inputs[1]).outputs
                   ELSE Current.outputs,
         Current.kind = "join" /\ binding = Graph => JoinRoutes(Current) # {NoRoute},
         Current.kind = "union" => UnionFits(Current)
  PROVE  ProgramInv'
<1>1. program # NoProgram
  BY DEF ProgramInv, ProgramTypeOK
<1>2. NextStage \in StagesOf(program) /\ program \in Programs
  BY <1>1, CompiledShape DEF NextStage
<1>3. Current = program.stages[NextStage]
  BY DEF Current, NextStage
<1>4. LineageOf(Current) = RowsFrom(NextStage) /\ LineageOf(Current) \in SUBSET Fields
  BY <1>1, <1>2, LineageIsRows
<1>5. outputs \in Seq(OutputNames)
  <2>1. CASE Current.kind # "union"
    BY <1>2, <1>3, <2>1, KindsOfStages
  <2>2. CASE Current.kind = "union"
    <3>1. Current.inputs[1] \in InputsOf(Current)
      BY <1>2, <1>3, <2>2, KindsOfStages
    <3>2. Place(program, Current.inputs[1]) \in DOMAIN compiled
      <4>1. NextStage <= NextStage
        BY <1>1, CompiledShape DEF NextStage
      <4> QED
        BY <1>1, <1>2, <1>3, <3>1, <4>1, InputsAreCompiled
    <3>3. compiled[Place(program, Current.inputs[1])].outputs \in Seq(OutputNames)
      BY <1>1, <3>2, CompiledShape
    <3> QED
      BY <2>2, <3>3 DEF BuiltOf
  <2> QED
    BY <2>1, <2>2
<1>6. Current.kind = "join" /\ binding = Graph =>
         RouteChoices[RolesOf(LineageOf(Current))] # {NoRoute}
  BY DEF JoinRoutes
<1> QED
  BY <1>2, <1>4, <1>5, <1>6, StageIsAppended

LEMMA StagesAreCompiled ==
  ASSUME ProgramAssumption, ProgramInv,
         RootCompiled \/ StageCompiled \/ JoinCompiled \/ UnionCompiled
  PROVE  ProgramInv'
<1>1. CASE RootCompiled
  BY <1>1, RootIsAppended
<1>2. CASE StageCompiled
  <2>1. /\ planning.phase = "compiling" /\ Len(compiled) < Len(program.stages)
        /\ Current.kind = "stage" /\ StageDone(Current.outputs, LineageOf(Current), NoRoute)
    BY <1>2 DEF StageCompiled, Unfinished
  <2> QED
    BY <2>1, LaterIsAppended
<1>3. CASE JoinCompiled
  <2>1. /\ planning.phase = "compiling" /\ Len(compiled) < Len(program.stages)
        /\ Current.kind = "join" /\ StageDone(Current.outputs, LineageOf(Current), NoRoute)
        /\ binding = Graph => JoinRoutes(Current) # {NoRoute}
    BY <1>3 DEF JoinCompiled, Unfinished
  <2> QED
    BY <2>1, LaterIsAppended
<1>4. CASE UnionCompiled
  <2>1. /\ planning.phase = "compiling" /\ Len(compiled) < Len(program.stages)
        /\ Current.kind = "union" /\ UnionFits(Current)
        /\ StageDone(BuiltOf(Current.inputs[1]).outputs, LineageOf(Current), NoRoute)
    BY <1>4 DEF UnionCompiled, Unfinished
  <2> QED
    BY <2>1, LaterIsAppended
<1> QED
  BY <1>1, <1>2, <1>3, <1>4

(* A step that only decides keeps what is compiled.                          *)
LEMMA DecisionsKeep ==
  ASSUME ProgramInv, UNCHANGED <<binding, program, compiled>>
  PROVE  program' # NoProgram => \A i \in DOMAIN compiled' : StageFits(i)'
<1>1. ASSUME NEW i
      PROVE  StageFits(i)' <=> StageFits(i)
  BY DEF StageFits, RowsFrom, ScopesFor, UnionFits, BuiltOf
<1> QED
  BY <1>1 DEF ProgramInv

LEMMA PlanningKeeps ==
  ASSUME ProgramAssumption, ProgramInv,
         \/ MetricUndefined \/ ProgramRejected \/ ModelCallFails \/ QuestionClarified
         \/ PlanCompiles \/ ToolFails \/ ToolSucceeds \/ QueryPrepared
  PROVE  ProgramInv'
<1>1. UNCHANGED <<binding, program, compiled>>
  BY DEF MetricUndefined, ProgramRejected, ModelCallFails, QuestionClarified,
         PlanCompiles, ToolFails, ToolSucceeds, QueryPrepared
<1>2. program' # NoProgram => \A i \in DOMAIN compiled' : StageFits(i)'
  BY <1>1, DecisionsKeep
<1>3. MaxAttempts \in Nat \ {0}
  BY DEF ProgramAssumption
<1>4. planning' \in PlanStates
      /\ (program' = NoProgram <=> planning'.phase \notin {"planned", "compiling", "prepared"})
  <2> USE <1>1, <1>3 DEF ProgramInv, ProgramTypeOK, PlanFits, PlanStates
  <2>1. CASE MetricUndefined
    BY <2>1 DEF MetricUndefined
  <2>2. CASE ProgramRejected
    <3>1. planning.phase = "asked" /\ planning.attempts \in Nat /\ planning.attempts < MaxAttempts
      BY <2>2 DEF ProgramRejected
    <3>2. planning.attempts + 1 \in 0 .. MaxAttempts
      BY <3>1
    <3> DEFINE next == IF LastAttempt THEN "failed" ELSE "asked"
    <3>3. planning' = [planning EXCEPT !.attempts = @ + 1, !.phase = next]
      BY <2>2 DEF ProgramRejected
    <3>4. next \in {"failed", "asked"}
      OBVIOUS
    <3> HIDE DEF next
    <3> QED
      BY <3>1, <3>2, <3>3, <3>4
  <2>3. CASE ModelCallFails
    BY <2>3 DEF ModelCallFails
  <2>4. CASE QuestionClarified
    BY <2>4 DEF QuestionClarified
  <2>5. CASE PlanCompiles
    BY <2>5 DEF PlanCompiles
  <2>6. CASE ToolFails
    BY <2>6 DEF ToolFails
  <2>7. CASE ToolSucceeds
    BY <2>7 DEF ToolSucceeds
  <2>8. CASE QueryPrepared
    BY <2>8 DEF QueryPrepared, AllCompiled
  <2> QED
    BY <2>1, <2>2, <2>3, <2>4, <2>5, <2>6, <2>7, <2>8
<1>5. ProgramTypeOK'
  BY <1>1, <1>4 DEF ProgramInv, ProgramTypeOK
<1>6. /\ planning'.phase = "asked" => planning'.attempts < MaxAttempts
      /\ planning'.phase \notin {"asked", "failed"} => planning'.attempts = 0
      /\ planning'.phase = "planned" => FALSE
      /\ planning'.author = planning.author
      /\ planning'.phase = "prepared" => Len(compiled) = Len(program.stages) /\ Authorized
  <2> USE <1>3 DEF ProgramInv, ProgramTypeOK, PlanFits, PlanStates
  <2>1. CASE MetricUndefined
    BY <2>1 DEF MetricUndefined
  <2>2. CASE ProgramRejected
    BY <2>2 DEF ProgramRejected, LastAttempt
  <2>3. CASE ModelCallFails
    BY <2>3 DEF ModelCallFails
  <2>4. CASE QuestionClarified
    BY <2>4 DEF QuestionClarified
  <2>5. CASE PlanCompiles
    BY <2>5 DEF PlanCompiles
  <2>6. CASE ToolFails
    BY <2>6 DEF ToolFails
  <2>7. CASE ToolSucceeds
    BY <2>7 DEF ToolSucceeds
  <2>8. CASE QueryPrepared
    BY <2>8 DEF QueryPrepared, AllCompiled
  <2> QED
    BY <2>1, <2>2, <2>3, <2>4, <2>5, <2>6, <2>7, <2>8
<1>7. Authorized' <=> Authorized
  BY <1>1 DEF Authorized, StagesRouted
<1>8. PlanFits'
  BY <1>1, <1>6, <1>7 DEF ProgramInv, PlanFits
<1> QED
  BY <1>2, <1>5, <1>8 DEF ProgramInv

LEMMA AcceptedKeeps ==
  ASSUME ProgramAssumption, ProgramInv, ProgramAccepted
  PROVE  ProgramInv'
<1>1. planning.phase = "asked" /\ UNCHANGED <<binding, compiled>> /\ MaxAttempts \in Nat \ {0}
  BY DEF ProgramAccepted, ProgramAssumption
<1>2. PICK p \in Programs :
         /\ WellFormed(p) /\ (p.status = "ready" => InScope(p) /\ MayBeRouted(p))
         /\ planning' = [planning EXCEPT !.attempts = 0, !.author = "planner",
                            !.kept = p.status = "ready",
                            !.phase = CASE p.status = "ready" -> "planned"
                                        [] p.status = "unsupported" -> "failed"
                                        [] OTHER -> "waiting"]
         /\ program' = IF p.status = "ready" THEN p ELSE NoProgram
  BY DEF ProgramAccepted
<1>3. program = NoProgram /\ compiled = <<>> /\ planning \in PlanStates /\ binding \in Bound
  BY <1>1 DEF ProgramInv, ProgramTypeOK
<1>4. NoProgram \notin Programs
  BY DEF ProgramAssumption
<1> DEFINE next == CASE p.status = "ready" -> "planned"
                      [] p.status = "unsupported" -> "failed"
                      [] OTHER -> "waiting"
           kept == p.status = "ready"
<1>7. /\ next = "planned" <=> p.status = "ready"
      /\ next \in {"planned", "failed", "waiting"}
  OBVIOUS
<1>8. kept \in BOOLEAN
  OBVIOUS
<1>9. planning' = [planning EXCEPT !.attempts = 0, !.author = "planner",
                                  !.kept = kept, !.phase = next]
  BY <1>2
<1> HIDE DEF next, kept
<1>10. planning' \in PlanStates /\ planning'.phase = next /\ planning'.attempts = 0
  <2>1. planning' = [phase |-> next, attempts |-> 0, author |-> "planner", kept |-> kept]
    BY <1>3, <1>9 DEF PlanStates
  <2>2. 0 \in 0 .. MaxAttempts
    BY <1>1
  <2>3. [phase |-> next, attempts |-> 0, author |-> "planner", kept |-> kept] \in PlanStates
    BY <1>7, <1>8, <2>2, Zenon DEF PlanStates
  <2> QED
    BY <2>1, <2>3
<1>5. CASE p.status = "ready"
  <2>1. program' = p /\ planning' \in PlanStates /\ planning'.phase = "planned"
        /\ planning'.attempts = 0
    BY <1>2, <1>5, <1>7, <1>10
  <2>2. Len(p.stages) \in Nat
    BY StagesInOrder
  <2>3. Len(compiled') = 0 /\ DOMAIN compiled' = {} /\ compiled' = <<>>
    BY <1>1, <1>3
  <2>4. ProgramTypeOK'
    <3>1. compiled' \in Seq([outputs : Seq(OutputNames), lineage : SUBSET Fields,
                             route : Routes \cup {NoRoute}])
      BY <2>3
    <3>2. p # NoProgram /\ Len(compiled') <= Len(p.stages)
      BY <1>4, <2>2, <2>3
    <3> QED
      BY <1>1, <1>3, <2>1, <2>3, <3>1, <3>2 DEF ProgramTypeOK
  <2>5. PlanFits'
    BY <1>2, <1>5, <2>1, <2>3 DEF PlanFits
  <2> QED
    BY <2>3, <2>4, <2>5 DEF ProgramInv
<1>6. CASE p.status # "ready"
  <2>1. program' = NoProgram /\ planning' \in PlanStates /\ planning'.phase \in {"failed", "waiting"}
        /\ planning'.attempts = 0
    BY <1>2, <1>6, <1>7, <1>10
  <2>2. ProgramTypeOK'
    BY <1>1, <1>3, <2>1 DEF ProgramInv, ProgramTypeOK
  <2>3. PlanFits'
    BY <2>1 DEF PlanFits
  <2> QED
    BY <2>1, <2>2, <2>3 DEF ProgramInv
<1> QED
  BY <1>5, <1>6

LEMMA ModelCompilesKeeps ==
  ASSUME ProgramAssumption, ProgramInv, ModelCompiles
  PROVE  ProgramInv'
<1>1. /\ planning.phase \in {"refused", "prepared"} /\ binding' = binding /\ compiled' = <<>>
      /\ planning' = [planning EXCEPT !.phase = "compiling", !.author = "model"]
  BY DEF ModelCompiles
<1>2. PICK p \in Programs : WellFormed(p) /\ p.status = "ready" /\ program' = p
  BY DEF ModelCompiles
<1>3. planning \in PlanStates /\ binding \in Bound /\ planning.attempts = 0
  BY <1>1 DEF ProgramInv, ProgramTypeOK, PlanFits
<1>4. NoProgram \notin Programs
  BY DEF ProgramAssumption
<1>5. planning' \in PlanStates /\ planning'.phase = "compiling" /\ planning'.attempts = 0
      /\ planning'.author = "model"
  BY <1>1, <1>3 DEF PlanStates
<1>6. Len(p.stages) \in Nat
  BY StagesInOrder
<1>7. Len(compiled') = 0 /\ DOMAIN compiled' = {}
  BY <1>1
<1>8. ProgramTypeOK'
  <2>1. compiled' \in Seq([outputs : Seq(OutputNames), lineage : SUBSET Fields,
                           route : Routes \cup {NoRoute}])
    BY <1>1
  <2>2. p # NoProgram /\ Len(compiled') <= Len(p.stages)
    BY <1>4, <1>6, <1>7
  <2> QED
    BY <1>1, <1>2, <1>3, <1>5, <2>1, <2>2 DEF ProgramTypeOK
<1>9. PlanFits'
  BY <1>2, <1>5 DEF PlanFits
<1> QED
  BY <1>7, <1>8, <1>9 DEF ProgramInv

LEMMA CompileFailsKeeps ==
  ASSUME ProgramAssumption, ProgramInv, CompileFails
  PROVE  ProgramInv'
<1>1. /\ planning' = [planning EXCEPT !.phase = "refused"] /\ binding' = binding
      /\ program' = NoProgram /\ compiled' = <<>>
  BY DEF CompileFails
<1>2. planning.phase = "compiling"
  BY DEF CompileFails, StageRefused, Unfinished, AllCompiled
<1>3. planning \in PlanStates /\ binding \in Bound /\ planning.attempts = 0
  BY <1>2 DEF ProgramInv, ProgramTypeOK, PlanFits
<1>4. planning' \in PlanStates /\ planning'.phase = "refused" /\ planning'.attempts = 0
  BY <1>1, <1>3 DEF PlanStates
<1>5. compiled' \in Seq([outputs : Seq(OutputNames), lineage : SUBSET Fields,
                         route : Routes \cup {NoRoute}])
  BY <1>1
<1>6. ProgramTypeOK'
  BY <1>1, <1>3, <1>4, <1>5 DEF ProgramTypeOK
<1>7. PlanFits'
  BY <1>1, <1>4 DEF PlanFits
<1> QED
  BY <1>1, <1>6, <1>7 DEF ProgramInv

LEMMA ProgramInvInit == ProgramAssumption /\ ProgramInit => ProgramInv
<1> SUFFICES ASSUME ProgramAssumption, ProgramInit
             PROVE  ProgramInv
  OBVIOUS
<1>1. MaxAttempts \in Nat \ {0}
  BY DEF ProgramAssumption
<1>2. planning \in PlanStates /\ compiled = <<>> /\ program = NoProgram /\ binding \in Bound
  BY <1>1 DEF ProgramInit, PlanStates
<1>3. compiled \in Seq([outputs : Seq(OutputNames), lineage : SUBSET Fields,
                        route : Routes \cup {NoRoute}])
  BY <1>2
<1>4. ProgramTypeOK
  BY <1>2, <1>3 DEF ProgramInit, ProgramTypeOK
<1>5. PlanFits
  BY <1>1 DEF ProgramInit, PlanFits
<1> QED
  BY <1>2, <1>4, <1>5 DEF ProgramInv

LEMMA ProgramInvStep == ProgramAssumption /\ ProgramInv /\ [ProgramNext]_program_vars => ProgramInv'
<1> SUFFICES ASSUME ProgramAssumption, ProgramInv, [ProgramNext]_program_vars
             PROVE  ProgramInv'
  OBVIOUS
<1>1. CASE ProgramNext
  BY <1>1, PlanningKeeps, AcceptedKeeps, ModelCompilesKeeps, StagesAreCompiled,
     CompileFailsKeeps DEF ProgramNext
<1>2. CASE UNCHANGED program_vars
  <2>1. UNCHANGED <<binding, program, compiled>> /\ planning' = planning
    BY <1>2 DEF program_vars
  <2>2. program' # NoProgram => \A i \in DOMAIN compiled' : StageFits(i)'
    BY <2>1, DecisionsKeep
  <2>3. ProgramTypeOK'
    BY <2>1 DEF ProgramInv, ProgramTypeOK
  <2>4. PlanFits'
    BY <2>1 DEF ProgramInv, PlanFits, Authorized, StagesRouted
  <2> QED
    BY <2>2, <2>3, <2>4 DEF ProgramInv
<1> QED
  BY <1>1, <1>2

(* Whatever the programs, the catalog and the router's answers, a program    *)
(* that is compiled is well formed, and what is recorded of each stage is    *)
(* what its rows, its joins and its outputs are.                             *)
THEOREM ProgramInvariant == ProgramSpec => []ProgramInv
<1>1. ProgramInit => ProgramInv
  BY ProgramInvInit, ProgramAssumption
<1>2. ProgramInv /\ [ProgramNext]_program_vars => ProgramInv'
  BY ProgramInvStep, ProgramAssumption
<1> QED
  BY <1>1, <1>2, PTL DEF ProgramSpec

(* A plan has been tried at most MaxAttempts times, and there is a program   *)
(* only while one is planned, compiled or prepared.                          *)
THEOREM ProgramTypesHold == ProgramSpec => []ProgramTypeOK
<1>1. ProgramInv => ProgramTypeOK
  BY DEF ProgramInv
<1> QED
  BY <1>1, ProgramInvariant, PTL

(* The planner's names are the outputs that the compiler has produced.       *)
LEMMA NamesAreProduced ==
  ASSUME ProgramAssumption, ProgramInv, program # NoProgram
  PROVE  \A i \in DOMAIN compiled : ToSet(compiled[i].outputs) = NamesShown(program)[i]
<1> DEFINE n == Len(compiled)
           Same(i) == ToSet(compiled[i].outputs) = NamesShown(program)[i]
           S == {m \in 0 .. n : \A i \in 1 .. m : Same(i)}
<1>1. /\ n \in Nat /\ DOMAIN compiled = 1 .. n /\ program \in Programs
      /\ WellFormed(program) /\ program.status = "ready"
      /\ \A i \in DOMAIN compiled : i \in StagesOf(program) /\ StageFits(i)
  BY CompiledShape
<1>2. ASSUME NEW i \in 1 .. n, \A j \in 1 .. i - 1 : Same(j)
      PROVE  Same(i)
  <2> DEFINE stage == program.stages[i]
  <2>1. i \in StagesOf(program) /\ StageFits(i)
    BY <1>1
  <2>2. NamesShown(program)[i] =
           IF stage.kind = "union" THEN NamesShown(program)[Place(program, stage.inputs[1])]
           ELSE ToSet(stage.outputs)
    BY <1>1, <2>1, ShownNames
  <2>3. compiled[i].outputs =
           IF stage.kind = "union" THEN compiled[Place(program, stage.inputs[1])].outputs
           ELSE stage.outputs
    BY <2>1 DEF StageFits, BuiltOf
  <2>4. stage.kind = "union" => Place(program, stage.inputs[1]) \in 1 .. i - 1
    <3>1. stage.kind = "union" => stage.inputs[1] \in InputsOf(stage)
      BY <1>1, <2>1, KindsOfStages
    <3> QED
      BY <1>1, <2>1, <3>1, InputsAreBefore
  <2> QED
    BY <1>2, <2>2, <2>3, <2>4
<1> HIDE DEF Same
<1>3. 0 \in S
  BY <1>1
<1>4. ASSUME NEW m \in 0 .. n - 1, m \in S
      PROVE  m + 1 \in S
  <2>1. m \in Nat /\ n \in Nat /\ m + 1 \in 1 .. n /\ (m + 1) - 1 = m
    BY <1>1
  <2>2. Same(m + 1)
    BY <1>2, <1>4, <2>1
  <2>3. \A i \in 1 .. m + 1 : i \in 1 .. m \/ i = m + 1
    BY <2>1
  <2> QED
    BY <1>4, <2>1, <2>2, <2>3
<1>5. n \in S
  <2> HIDE DEF S, n
  <2>1. \A m \in 0 .. n : m \in S
    BY <1>1, <1>3, <1>4, Counting
  <2>2. n \in 0 .. n
    BY <1>1
  <2> QED
    BY <2>1, <2>2
<1> QED
  BY <1>1, <1>5 DEF Same

LEMMA OutputsOfPlanExist ==
  ASSUME ProgramAssumption, ProgramInv, planning.phase = "prepared", planning.author = "planner"
  PROVE  OutputsExist
<1> DEFINE names == NamesShown(program)
           produced == [i \in StagesOf(program) |-> ToSet(compiled[i].outputs)]
<1>1. program # NoProgram /\ Len(compiled) = Len(program.stages) /\ InScope(program)
  BY DEF ProgramInv, ProgramTypeOK, PlanFits
<1>2. program \in Programs /\ DOMAIN compiled = StagesOf(program)
  BY <1>1, CompiledShape
<1>3. ASSUME NEW i \in StagesOf(program), NEW id \in InputsOf(program.stages[i])
      PROVE  produced[Place(program, id)] = names[Place(program, id)]
  <2>1. Place(program, id) \in StagesOf(program)
    BY <1>1, <1>2, CompiledShape, InputsAreBefore
  <2> QED
    BY <1>1, <1>2, <2>1, NamesAreProduced
<1>4. ASSUME NEW i \in StagesOf(program)
      PROVE  OutputsFit(program, program.stages[i], produced)
  <2> DEFINE stage == program.stages[i]
  <2>1. /\ stage.kind = "union" => stage.reads = {} /\ stage.on = {}
        /\ stage.kind # "join" => stage.on = {}
        /\ stage.kind = "join" => /\ stage.inputs[1] \in InputsOf(stage)
                                  /\ stage.inputs[2] \in InputsOf(stage)
    BY <1>2, KindsOfStages
  <2>2. stage.kind # "union" => OutputsFit(program, stage, names)
    BY <1>1 DEF InScope
  <2>3. \A id \in InputsOf(stage) : produced[Place(program, id)] = names[Place(program, id)]
    BY <1>3
  <2> HIDE DEF stage, names, produced
  <2> QED
    BY <2>1, <2>2, <2>3 DEF OutputsFit, stage
<1> QED
  BY <1>4 DEF OutputsExist

LEMMA PreparedIsJoined ==
  ASSUME ProgramAssumption, ProgramInv, planning.phase = "prepared"
  PROVE  JoinsFollowGraph /\ TablesAreJoined /\ UnionsAlign
<1>1. program # NoProgram /\ Len(compiled) = Len(program.stages) /\ Authorized /\ binding \in Bound
  BY DEF ProgramInv, ProgramTypeOK, PlanFits
<1>2. /\ program \in Programs /\ DOMAIN compiled = StagesOf(program)
      /\ \A i \in StagesOf(program) : StageFits(i)
  BY <1>1, CompiledShape
<1>3. JoinsFollowGraph
  BY <1>2 DEF JoinsFollowGraph, StageFits, RowsFrom
<1>4. ASSUME NEW i \in RootStages(program)
      PROVE  LET roles == RolesOf(RootFields(program.stages[i]))
                 joins == IF binding = Graph THEN {} ELSE JoinsFor(binding, roles)
             IN /\ roles \subseteq compiled[i].route.roles
                /\ compiled[i].route.roles \subseteq Authority
                /\ \A k \in joins :
                      binding.joins[k][1] \in JoinedBy(binding, roles, joins \cap (1..k-1))
  <2> DEFINE stage == program.stages[i]
             roles == RolesOf(RootFields(stage))
             joins == IF binding = Graph THEN {} ELSE JoinsFor(binding, roles)
  <2>1. i \in StagesOf(program) /\ stage.kind = "root"
    BY DEF RootStages
  <2>2. RootFits(stage) /\ compiled[i].route \in ScopesFor(stage) \ {NoRoute}
    BY <1>2, <2>1 DEF StageFits
  <2>3. /\ roles \in (SUBSET Roles) \ {{}}
        /\ roles \subseteq compiled[i].route.roles
    BY <1>1, <2>2, RootsAreScoped
  <2>4. compiled[i].route.roles \subseteq Authority
    BY <1>1, <1>2, <2>1, <2>2 DEF Authorized, StagesRouted
  <2> HIDE DEF stage, roles
  <2>5. ASSUME NEW k \in joins
        PROVE  binding.joins[k][1] \in JoinedBy(binding, roles, joins \cap (1..k-1))
    <3>1. binding \in LegacyJoins /\ ValidJoins(binding) /\ joins = JoinsFor(binding, roles)
      BY <1>1, <2>5 DEF Bound
    <3>2. roles \in SUBSET Roles /\ roles # {}
      BY <2>3
    <3> QED
      BY <3>1, <3>2, <2>5, LegacyRoutesJoin
  <2> QED
    BY <2>3, <2>4, <2>5 DEF roles, stage
<1>5. TablesAreJoined
  BY <1>4 DEF TablesAreJoined
<1>6. UnionsAlign
  BY <1>2 DEF UnionsAlign, StageFits, UnionFits
<1> QED
  BY <1>3, <1>5, <1>6

(* A prepared query joins only what its binding relates, through whatever    *)
(* stages, and reads only what the run may read, whoever wrote its program;  *)
(* and the names by which the planner has accepted a program of its own are  *)
(* those of columns that exist.                                              *)
THEOREM PreparedStaysGoverned == ProgramSpec => []PreparedIsGoverned
<1>1. ProgramInv => PreparedIsGoverned
  BY PreparedIsJoined, OutputsOfPlanExist, ProgramAssumption DEF PreparedIsGoverned
<1> QED
  BY <1>1, ProgramInvariant, PTL
=============================================================================
