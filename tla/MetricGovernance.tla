------------------------- MODULE MetricGovernance -------------------------
(***************************************************************************)
(* Which metrics a question may use: the bindings of a datasource, the     *)
(* proposals, validation reports and metric sets of one domain             *)
(* (semantic_metrics/service.py), and how a run resolves and pins them     *)
(* (api/datasource_service.py).  All of it is kept in one SQLite registry  *)
(* (datasources/sqlite_registry.py).                                       *)
(*                                                                         *)
(* One registry operation is one transaction and one action.  A service    *)
(* call awaits several of them, so other calls run in between: call[k].at  *)
(* names the operation that call k awaits next, the other fields what it   *)
(* has read so far.  An operation whose condition fails raises, which ends *)
(* the call, and so does an error of SQLite or a stop of the process at    *)
(* any await: CallStops stands for all of these.                           *)
(*                                                                         *)
(* One tenant, datasource and domain, whose snapshot is published: imports *)
(* publish version 1 and nothing publishes another.  The content of a      *)
(* binding never changes, so Mapped and Sound are functions of it.         *)
(* Provisional overlays (off by default), runs outside a conversation,     *)
(* which pin nothing, the audit trail, roles, domain packs and the deletion*)
(* of the datasource are left out.                                         *)
(***************************************************************************)
EXTENDS Integers, Sequences, FiniteSets

CONSTANTS LegacyBindings,  \* semantic_bindings
          GraphBindings,   \* semantic_graph_bindings
          Definitions,     \* metric definitions (V2 expressions)
          Mapped,          \* Mapped[b]: the definitions whose fields b maps
          Sound,           \* Sound[b]: those the static validator passes
          Names,           \* Names[d]: normalized ref, display name, synonyms
          Proposals,
          CandidateIds,    \* candidates within a proposal
          SetIds,          \* metric-set-<uuid>
          Calls,           \* requests served at the same time
          Conversations,   \* of one user
          MaxRevision,     \* bound: revision of a proposal being edited
          None

Bindings == LegacyBindings \cup GraphBindings

\* While required_decisions of a candidate is not empty it cannot be
\* validated, so its definition does not matter yet.
Undecided == "undecided"

ASSUME BindingAssumption == LegacyBindings \cap GraphBindings = {}
ASSUME ValidatorAssumption ==
  /\ Mapped \in [Bindings -> SUBSET Definitions]
  /\ Sound \in [Bindings -> SUBSET Definitions]
ASSUME NamesAssumption == \A d \in Definitions : Names[d] # {}
ASSUME RevisionAssumption == MaxRevision \in Nat
ASSUME UndecidedAssumption == Undecided \notin Definitions

VARIABLES binding_status,  \* of every binding, "absent" when not created
          proposals,       \* metric_proposals, None when not created
          reports,         \* metric_validation_reports
          metric_sets,     \* metric_sets[i][v]: version v of metric set i
          pointer,         \* active_metric_sets, None when nothing is active
          source_pin,      \* conversation_datasource_pins: a binding or None
          metric_pin,      \* conversation_metric_pins: a context or None
          call,            \* the requests in progress
          used             \* history: the contexts runs of a conversation got

releases == <<metric_sets, pointer>>
pins == <<source_pin, metric_pin, used>>
vars == <<binding_status, proposals, reports, releases, pins, call>>

Editable == {"draft", "needs_clarification"}
ProposalStatuses == Editable \cup {"pending_approval", "approved"}

Candidate == Definitions \cup {Undecided}
Proposal == [revision : 1..MaxRevision + 1,
             status : ProposalStatuses,
             binding : Bindings,
             candidates : [CandidateIds -> Candidate],
             selected : CandidateIds \cup {None}]

\* The digests of proposal and report cover what only a new revision changes.
Report == [proposal : Proposals, revision : 1..MaxRevision,
           definition : Definitions, allowed : BOOLEAN]

\* Rows are inserted once and only change status: a digest adds nothing.
MetricSet == [status : {"draft", "published"},
              definitions : SUBSET Definitions,
              binding : Bindings]
Identity == [id : SetIds, version : Nat \ {0}]
Pointer == [set : Identity, revision : Nat \ {0}]
Context == [binding : Bindings, set : Identity \cup {None}]

ASSUME NoneAssumption == None \notin Bindings \cup CandidateIds \cup Proposal
                                       \cup Identity \cup Pointer \cup Context

MetricSetOf(set) == metric_sets[set.id][set.version]
Stored(set) == set.version \in DOMAIN metric_sets[set.id]
PointerRevision == IF pointer = None THEN 0 ELSE pointer.revision
Chosen(proposal) == proposal.candidates[proposal.selected]

(* _authority: exactly one active binding.  The two tables are read one    *)
(* after the other; since a graph activation retires everything and a      *)
(* legacy activation every legacy binding, what passes was true at once.   *)
OnlyActive(b) == {c \in Bindings : binding_status[c] = "active"} = {b}

(* EffectiveMetricCatalog.build accepts the definition beside the others. *)
Compatible(definitions, d) ==
  \A e \in definitions : Names[d] \cap Names[e] = {}

ActiveDefinitions ==
  IF pointer = None THEN {} ELSE MetricSetOf(pointer.set).definitions

IdleCall == [at |-> "idle"]

Init ==
  /\ binding_status = [b \in Bindings |-> "absent"]
  /\ proposals = [p \in Proposals |-> None]
  /\ reports = {}
  /\ metric_sets = [i \in SetIds |-> <<>>]
  /\ pointer = None
  /\ source_pin = [c \in Conversations |-> None]
  /\ metric_pin = [c \in Conversations |-> None]
  /\ call = [k \in Calls |-> IdleCall]
  /\ used = [c \in Conversations |-> {}]

(***************************************************************************)
(* Faulty variants.  Each is a slip the definition after it could contain; *)
(* PROJECT.json names the property that TLC finds violated with it.        *)
(***************************************************************************)
ValidationStatusOwn(allowed) ==
  IF allowed THEN "validated" ELSE "needs_clarification"
ReportedUnchecked(p, proposal) == TRUE
PointerUnmovedUnchecked(k) == TRUE
PublishedLater(row) == row
MayPinSourceAlways(c, b) == TRUE
UnpinnedUnchecked(c) == TRUE

-----------------------------------------------------------------------------
(* Bindings *)

CreateBinding(b) ==
  /\ binding_status[b] = "absent"
  /\ binding_status' = [binding_status EXCEPT ![b] = "draft"]
  /\ UNCHANGED <<proposals, reports, releases, pins, call>>

(* A draft, or a retired one again; only legacy bindings are retired. *)
ActivateBinding(b) ==
  /\ binding_status[b] # "absent"
  /\ binding_status' =
       [c \in Bindings |->
          IF c = b THEN "active"
          ELSE IF c \in LegacyBindings /\ binding_status[c] = "active"
               THEN "retired" ELSE binding_status[c]]
  /\ UNCHANGED <<proposals, reports, releases, pins, call>>

(* A graph binding is created active, and retires both kinds. *)
ActivateGraphBinding(b) ==
  /\ binding_status[b] = "absent"
  /\ binding_status' =
       [c \in Bindings |->
          IF c = b THEN "active"
          ELSE IF binding_status[c] = "active"
               THEN "retired" ELSE binding_status[c]]
  /\ UNCHANGED <<proposals, reports, releases, pins, call>>

-----------------------------------------------------------------------------
(* Proposals *)

Goes(k, next) == call' = [call EXCEPT ![k] = next]

(* create_proposal: the authority and the candidates are checked here, and *)
(* save_metric_proposal checks the binding again.                          *)
BeginProposal(k, p, b, candidates) ==
  /\ call[k] = IdleCall
  /\ OnlyActive(b)
  /\ \A c \in CandidateIds :
       candidates[c] # Undecided => Compatible(ActiveDefinitions, candidates[c])
  /\ Goes(k, [at |-> "save_proposal", id |-> p, binding |-> b,
              candidates |-> candidates])
  /\ UNCHANGED <<binding_status, proposals, reports, releases, pins>>

SaveProposal(k) ==
  LET c == call[k] IN
  /\ c.at = "save_proposal"
  /\ proposals[c.id] = None
  /\ binding_status[c.binding] = "active"
  /\ proposals' = [proposals EXCEPT ![c.id] =
                     [revision |-> 1, status |-> "draft", binding |-> c.binding,
                      candidates |-> c.candidates, selected |-> None]]
  /\ Goes(k, IdleCall)
  /\ UNCHANGED <<binding_status, reports, releases, pins>>

MayEdit(p) == /\ proposals[p] # None
              /\ proposals[p].status \in Editable
              /\ proposals[p].revision < MaxRevision

EditedStatus(candidate) ==
  IF candidate = Undecided THEN "needs_clarification" ELSE "draft"

(* select_candidate and revise_candidate read the proposal and replace it  *)
(* under its revision, so that what they read is what they replace.        *)
SelectCandidate(p, c) ==
  /\ MayEdit(p)
  /\ proposals' = [proposals EXCEPT
       ![p].revision = @ + 1,
       ![p].selected = c,
       ![p].status = EditedStatus(proposals[p].candidates[c])]
  /\ UNCHANGED <<binding_status, reports, releases, pins, call>>

ReviseCandidate(p, c, candidate) ==
  /\ MayEdit(p)
  /\ proposals' = [proposals EXCEPT
       ![p].revision = @ + 1,
       ![p].candidates[c] = candidate,
       ![p].selected = c,
       ![p].status = EditedStatus(candidate)]
  /\ UNCHANGED <<binding_status, reports, releases, pins, call>>

-----------------------------------------------------------------------------
(* Validation *)

(* A proposal of any status is validated again. *)
BeginValidation(k, p) ==
  /\ call[k] = IdleCall
  /\ proposals[p] # None
  /\ proposals[p].revision < MaxRevision
  /\ proposals[p].selected # None
  /\ Chosen(proposals[p]) # Undecided
  /\ OnlyActive(proposals[p].binding)
  /\ Goes(k, [at |-> "update_validated", id |-> p, read |-> proposals[p]])
  /\ UNCHANGED <<binding_status, proposals, reports, releases, pins>>

Allowed(proposal) == Chosen(proposal) \in Sound[proposal.binding]

ValidationStatus(allowed) ==
  IF allowed THEN "pending_approval" ELSE "needs_clarification"

(* update_metric_proposal: compare and set on the revision. *)
StillRead(k) == proposals[call[k].id].revision = call[k].read.revision

UpdateValidated(k) ==
  LET c == call[k]
      updated == [c.read EXCEPT !.revision = @ + 1,
                                !.status = ValidationStatus(Allowed(c.read))] IN
  /\ c.at = "update_validated"
  /\ StillRead(k)
  /\ proposals' = [proposals EXCEPT ![c.id] = updated]
  /\ Goes(k, [at |-> "save_report", id |-> c.id, read |-> updated])
  /\ UNCHANGED <<binding_status, reports, releases, pins>>

ReportOf(p, proposal) ==
  [proposal |-> p, revision |-> proposal.revision,
   definition |-> Chosen(proposal), allowed |-> Allowed(proposal)]

(* The proposal must not have moved on between the two transactions. *)
SaveReport(k) ==
  LET c == call[k] IN
  /\ c.at = "save_report"
  /\ StillRead(k)
  /\ reports' = reports \cup {ReportOf(c.id, c.read)}
  /\ Goes(k, IdleCall)
  /\ UNCHANGED <<binding_status, proposals, releases, pins>>

-----------------------------------------------------------------------------
(* Approval *)

(* The report of this very revision found nothing wrong. *)
Reported(p, proposal) ==
  \E report \in reports :
    /\ report.allowed
    /\ report.proposal = p
    /\ report.revision = proposal.revision
    /\ report.definition = Chosen(proposal)

BeginApproval(k, p) ==
  /\ call[k] = IdleCall
  /\ proposals[p] # None
  /\ proposals[p].status = "pending_approval"
  /\ proposals[p].selected # None
  /\ Reported(p, proposals[p])
  /\ Goes(k, [at |-> "authority", id |-> p, read |-> proposals[p]])
  /\ UNCHANGED <<binding_status, proposals, reports, releases, pins>>

CheckAuthority(k) ==
  LET c == call[k] IN
  /\ c.at = "authority"
  /\ OnlyActive(c.read.binding)
  /\ Goes(k, [c EXCEPT !.at = "pointer"])
  /\ UNCHANGED <<binding_status, proposals, reports, releases, pins>>

(* What the approval will store: the first version of a new set, or the    *)
(* version after the active one, with all its definitions.                 *)
NextSets ==
  IF pointer = None
  THEN [id : {i \in SetIds : metric_sets[i] = <<>>}, version : {1}]
  ELSE {[pointer.set EXCEPT !.version = @ + 1]}

ReadPointer(k) ==
  LET c == call[k]
      chosen == Chosen(c.read) IN
  /\ c.at = "pointer"
  /\ Compatible(ActiveDefinitions, chosen)
  /\ \E set \in NextSets :
       Goes(k, [at |-> "save_set", id |-> c.id, read |-> c.read,
                expected |-> PointerRevision, set |-> set,
                definitions |-> ActiveDefinitions \cup {chosen}])
  /\ UNCHANGED <<binding_status, proposals, reports, releases, pins>>

SaveMetricSet(k) ==
  LET c == call[k]
      row == [status |-> "draft", definitions |-> c.definitions,
              binding |-> c.read.binding] IN
  /\ c.at = "save_set"
  /\ binding_status[c.read.binding] = "active"
  /\ c.set.version = Len(metric_sets[c.set.id]) + 1
  /\ c.definitions \subseteq Mapped[c.read.binding]
  /\ metric_sets' = [metric_sets EXCEPT ![c.set.id] = Append(@, row)]
  /\ Goes(k, [c EXCEPT !.at = "activate_set"])
  /\ UNCHANGED <<binding_status, proposals, reports, pointer, pins>>

PointerUnmoved(k) == PointerRevision = call[k].expected
Published(row) == [row EXCEPT !.status = "published"]

(* activate_metric_set: compare and set on the revision of the pointer.    *)
ActivateMetricSet(k) ==
  LET c == call[k] IN
  /\ c.at = "activate_set"
  /\ PointerUnmoved(k)
  /\ metric_sets' =
       [metric_sets EXCEPT ![c.set.id][c.set.version] = Published(@)]
  /\ pointer' = [set |-> c.set, revision |-> PointerRevision + 1]
  /\ Goes(k, [c EXCEPT !.at = "update_approved"])
  /\ UNCHANGED <<binding_status, proposals, reports, pins>>

UpdateApproved(k) ==
  LET c == call[k] IN
  /\ c.at = "update_approved"
  /\ StillRead(k)
  /\ proposals' = [proposals EXCEPT ![c.id] =
                     [c.read EXCEPT !.revision = @ + 1, !.status = "approved"]]
  /\ Goes(k, IdleCall)
  /\ UNCHANGED <<binding_status, reports, releases, pins>>

-----------------------------------------------------------------------------
(* What a run resolves (resolve in analysis_agent/composition.py) *)

(* resolve_active_binding: the request names a binding, which is active. *)
BeginRun(k, c, b) ==
  /\ call[k] = IdleCall
  /\ binding_status[b] = "active"
  /\ Goes(k, [at |-> "pin_source", conversation |-> c, binding |-> b])
  /\ UNCHANGED <<binding_status, proposals, reports, releases, pins>>

MayPinSource(c, b) == source_pin[c] \in {None, b}

(* pin_conversation: the first binding a conversation uses is its only one. *)
PinConversation(k) ==
  LET q == call[k] IN
  /\ q.at = "pin_source"
  /\ MayPinSource(q.conversation, q.binding)
  /\ source_pin' = [source_pin EXCEPT ![q.conversation] = q.binding]
  /\ Goes(k, [q EXCEPT !.at = "read_pin"])
  /\ UNCHANGED <<binding_status, proposals, reports, releases, metric_pin, used>>

With(q, at, set) ==
  [at |-> at, conversation |-> q.conversation, binding |-> q.binding, set |-> set]

(* A conversation with a metric pin goes on with it. *)
UsePin(k) ==
  LET q == call[k]
      pin == metric_pin[q.conversation] IN
  /\ q.at = "read_pin"
  /\ pin # None
  /\ pin.binding = q.binding
  /\ Goes(k, With(q, "read_set", pin.set))
  /\ UNCHANGED <<binding_status, proposals, reports, releases, pins>>

(* Without one it takes what is active.  No pin is ever removed, so the    *)
(* read of the pin and that of the pointer may be one step: if a pin came  *)
(* in between, PutPin would fail.                                          *)
UseActive(k) ==
  LET q == call[k] IN
  /\ q.at = "read_pin"
  /\ metric_pin[q.conversation] = None
  /\ pointer # None => MetricSetOf(pointer.set).binding = q.binding
  /\ Goes(k, With(q, "put_pin", IF pointer = None THEN None ELSE pointer.set))
  /\ UNCHANGED <<binding_status, proposals, reports, releases, pins>>

(* What both put_conversation_metric_pin and the resolution demand. *)
Usable(q) == q.set # None => /\ Stored(q.set)
                             /\ MetricSetOf(q.set).binding = q.binding

Unpinned(c) == metric_pin[c] = None
ContextOf(q) == [binding |-> q.binding, set |-> q.set]

(* put_conversation_metric_pin, with the expected revision 0. *)
PutPin(k) ==
  LET q == call[k] IN
  /\ q.at = "put_pin"
  /\ Unpinned(q.conversation)
  /\ Usable(q)
  /\ metric_pin' = [metric_pin EXCEPT ![q.conversation] = ContextOf(q)]
  /\ Goes(k, [q EXCEPT !.at = "read_set"])
  /\ UNCHANGED <<binding_status, proposals, reports, releases, source_pin, used>>

(* The definitions are read, and the run starts with them. *)
ReadSet(k) ==
  LET q == call[k] IN
  /\ q.at = "read_set"
  /\ Usable(q)
  /\ used' = [used EXCEPT ![q.conversation] = @ \cup {ContextOf(q)}]
  /\ Goes(k, IdleCall)
  /\ UNCHANGED <<binding_status, proposals, reports, releases, source_pin,
                 metric_pin>>

-----------------------------------------------------------------------------
(* A check failed, the registry raised, or the process stopped. *)
CallStops(k) ==
  /\ call[k] # IdleCall
  /\ Goes(k, IdleCall)
  /\ UNCHANGED <<binding_status, proposals, reports, releases, pins>>

BindingStep ==
  \/ \E b \in LegacyBindings : CreateBinding(b) \/ ActivateBinding(b)
  \/ \E b \in GraphBindings : ActivateGraphBinding(b)

EditStep ==
  \E p \in Proposals, c \in CandidateIds :
    \/ SelectCandidate(p, c)
    \/ \E candidate \in Candidate : ReviseCandidate(p, c, candidate)

ProposalStep(k) ==
  \/ \E p \in Proposals, b \in Bindings,
        candidates \in [CandidateIds -> Candidate] :
       BeginProposal(k, p, b, candidates)
  \/ SaveProposal(k)
  \/ \E p \in Proposals : BeginValidation(k, p)
  \/ UpdateValidated(k)
  \/ SaveReport(k)

ApprovalStep(k) ==
  \/ \E p \in Proposals : BeginApproval(k, p)
  \/ CheckAuthority(k)
  \/ ReadPointer(k)
  \/ SaveMetricSet(k)
  \/ ActivateMetricSet(k)
  \/ UpdateApproved(k)

RunStep(k) ==
  \/ \E c \in Conversations, b \in Bindings : BeginRun(k, c, b)
  \/ PinConversation(k)
  \/ UsePin(k)
  \/ UseActive(k)
  \/ PutPin(k)
  \/ ReadSet(k)

Next == \/ BindingStep
        \/ EditStep
        \/ \E k \in Calls : \/ ProposalStep(k)
                            \/ ApprovalStep(k)
                            \/ RunStep(k)
                            \/ CallStops(k)

Spec == Init /\ [][Next]_vars

-----------------------------------------------------------------------------
(* Types.  Every record is one of those its table can hold. *)
CallRecord ==
  {IdleCall}
  \cup [at : {"save_proposal"}, id : Proposals, binding : Bindings,
        candidates : [CandidateIds -> Candidate]]
  \cup [at : {"update_validated", "save_report", "authority", "pointer"},
        id : Proposals, read : Proposal]
  \cup [at : {"save_set", "activate_set", "update_approved"},
        id : Proposals, read : Proposal, expected : Nat, set : Identity,
        definitions : SUBSET Definitions]
  \cup [at : {"pin_source", "read_pin"}, conversation : Conversations,
        binding : Bindings]
  \cup [at : {"put_pin", "read_set"}, conversation : Conversations,
        binding : Bindings, set : Identity \cup {None}]

(* The state has the types the registry's tables and models declare. *)
TypeOK ==
  /\ binding_status \in
       [Bindings -> {"absent", "draft", "active", "retired"}]
  /\ proposals \in [Proposals -> Proposal \cup {None}]
  /\ reports \subseteq Report
  /\ metric_sets \in [SetIds -> Seq(MetricSet)]
  /\ pointer \in Pointer \cup {None}
  /\ source_pin \in [Conversations -> Bindings \cup {None}]
  /\ metric_pin \in [Conversations -> Context \cup {None}]
  /\ call \in [Calls -> CallRecord]
  /\ used \in [Conversations -> SUBSET Context]

(* What some validation found sound, for a binding. *)
Validated == {report.definition : report \in {q \in reports : q.allowed}}

(* An approved proposal is in force: its definition is in the active       *)
(* metric set, whatever was approved or activated since                    *)
(* (approve_and_activate).                                                 *)
ApprovedIsInForce ==
  \A p \in Proposals :
    (proposals[p] # None /\ proposals[p].status = "approved")
      => Chosen(proposals[p]) \in ActiveDefinitions

(* A run that resolved its context uses a published metric set of the      *)
(* binding it queries, and only definitions that a validation passed       *)
(* (resolve_metric_context).                                               *)
ResolvedIsGoverned ==
  \A c \in Conversations : \A context \in used[c] :
    context.set # None =>
      /\ Stored(context.set)
      /\ MetricSetOf(context.set).status = "published"
      /\ MetricSetOf(context.set).binding = context.binding
      /\ MetricSetOf(context.set).definitions \subseteq Validated

(* All runs of a conversation use the same binding and metric set, however *)
(* they overlap and whatever is published meanwhile (the pins of           *)
(* pin_conversation and put_conversation_metric_pin).                      *)
ConversationKeepsMetrics ==
  \A c \in Conversations : \A q, r \in used[c] : q = r

(* The two pins of a conversation, written by separate transactions and    *)
(* perhaps of different runs, name the same binding.                       *)
PinsAgree ==
  \A c \in Conversations :
    metric_pin[c] # None => metric_pin[c].binding = source_pin[c]

(* Governance as a whole: one validated definition after the other is put  *)
(* in force, and no approval undoes another (service.py).                  *)
Authority ==
  INSTANCE MetricAuthority WITH
    validated <- Validated,
    active <- ActiveDefinitions
ImplementsMetricAuthority == Authority!Spec

(* The runbook: an approval publishes a new metric set version and moves   *)
(* the pointer atomically.  So no draft version is left behind by an       *)
(* approval that has ended (save_metric_set, then activate_metric_set).    *)
PublicationIsAtomic ==
  \A i \in SetIds : \A v \in DOMAIN metric_sets[i] :
    metric_sets[i][v].status = "draft" =>
      \E k \in Calls : call[k].at = "activate_set"
                         /\ call[k].set = [id |-> i, version |-> v]
=============================================================================
