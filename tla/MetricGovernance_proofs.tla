----------------------- MODULE MetricGovernance_proofs -----------------------
(***************************************************************************)
(* Theorems about MetricGovernance, for any bindings, definitions, verdicts*)
(* of the validator, name conflicts, proposals, requests and conversations.*)
(*                                                                         *)
(* A call acts on what it read some awaits ago.  The invariant says what   *)
(* is still true of that when the call uses it: that a definition once     *)
(* found valid stays so, that a stored version never changes, and that a   *)
(* pointer that still has the revision a call read still names the set it  *)
(* read.  It has a part for every stage of a call and a part for the       *)
(* tables.                                                                 *)
(***************************************************************************)
EXTENDS MetricGovernance, TLAPS

Approving == {"authority", "pointer", "save_set", "activate_set",
              "update_approved"}
Reading == Approving \cup {"update_validated", "save_report"}
Resolving == {"read_pin", "put_pin", "read_set"}

PublishedRow(set) == Stored(set) /\ MetricSetOf(set).status = "published"

(* Parts about a call. *)

ReadIsSelected(k) ==
  call[k].at \in Reading =>
    /\ call[k].read.selected \in CandidateIds
    /\ Chosen(call[k].read) \in Definitions
    /\ call[k].read.revision <= MaxRevision
    /\ call[k].at = "update_validated" => call[k].read.revision < MaxRevision

ApprovedIsValidated(k) ==
  call[k].at \in Approving => Chosen(call[k].read) \in Validated

ReleaseAddsOne(k) ==
  call[k].at \in {"save_set", "activate_set"} =>
    /\ call[k].definitions \subseteq Validated
    /\ call[k].expected <= PointerRevision
    /\ call[k].expected = PointerRevision =>
         /\ call[k].definitions = ActiveDefinitions \cup {Chosen(call[k].read)}
         /\ Chosen(call[k].read) \notin ActiveDefinitions

TargetIsStored(k) ==
  call[k].at = "activate_set" =>
    /\ Stored(call[k].set)
    /\ MetricSetOf(call[k].set).definitions = call[k].definitions

ReleasedIsInForce(k) ==
  call[k].at = "update_approved" => Chosen(call[k].read) \in ActiveDefinitions

SourceIsPinned(k) ==
  call[k].at \in Resolving => source_pin[call[k].conversation] = call[k].binding

ResolvedIsPublished(k) ==
  (call[k].at \in {"put_pin", "read_set"} /\ call[k].set # None)
    => PublishedRow(call[k].set)

ReadIsPinned(k) ==
  call[k].at = "read_set" => metric_pin[call[k].conversation] = ContextOf(call[k])

CallInv(k) == /\ ReadIsSelected(k)
              /\ ApprovedIsValidated(k)
              /\ ReleaseAddsOne(k)
              /\ TargetIsStored(k)
              /\ ReleasedIsInForce(k)
              /\ SourceIsPinned(k)
              /\ ResolvedIsPublished(k)
              /\ ReadIsPinned(k)

(* Parts about the tables. *)

ActiveIsPublished == pointer # None => PublishedRow(pointer.set)

SetsAreValidated ==
  \A i \in SetIds : \A v \in DOMAIN metric_sets[i] :
    metric_sets[i][v].definitions \subseteq Validated

PinnedIsPublished ==
  \A c \in Conversations :
    (metric_pin[c] # None /\ metric_pin[c].set # None)
      => PublishedRow(metric_pin[c].set)

UsedIsPinned ==
  \A c \in Conversations : \A context \in used[c] : context = metric_pin[c]

UsedHasItsBinding ==
  \A c \in Conversations : \A context \in used[c] :
    context.set # None => MetricSetOf(context.set).binding = context.binding

TableInv == /\ ActiveIsPublished
            /\ SetsAreValidated
            /\ ApprovedIsInForce
            /\ PinnedIsPublished
            /\ PinsAgree
            /\ UsedIsPinned
            /\ UsedHasItsBinding

GovernanceInv == TypeOK /\ TableInv /\ \A k \in Calls : CallInv(k)

-----------------------------------------------------------------------------
(* The record of a call, by the operation it awaits. *)
LEMMA CallShape ==
  ASSUME TypeOK, NEW k \in Calls
  PROVE  /\ call[k].at = "save_proposal" =>
              call[k] \in [at : {"save_proposal"}, id : Proposals,
                           binding : Bindings,
                           candidates : [CandidateIds -> Candidate]]
         /\ call[k].at \in {"update_validated", "save_report", "authority", "pointer"} =>
              call[k] \in [at : {"update_validated", "save_report", "authority", "pointer"},
                           id : Proposals, read : Proposal]
         /\ call[k].at \in {"save_set", "activate_set", "update_approved"} =>
              call[k] \in [at : {"save_set", "activate_set", "update_approved"},
                           id : Proposals, read : Proposal, expected : Nat,
                           set : Identity, definitions : SUBSET Definitions]
         /\ call[k].at \in {"pin_source", "read_pin"} =>
              call[k] \in [at : {"pin_source", "read_pin"},
                           conversation : Conversations, binding : Bindings]
         /\ call[k].at \in {"put_pin", "read_set"} =>
              call[k] \in [at : {"put_pin", "read_set"},
                           conversation : Conversations, binding : Bindings,
                           set : Identity \cup {None}]
<1>1. call[k] \in CallRecord
  BY DEF TypeOK
<1> QED
  BY <1>1 DEF CallRecord, IdleCall

(* A call that goes on with a record of its kind keeps the types. *)
LEMMA GoesOn ==
  ASSUME TypeOK, NEW k \in Calls, NEW next \in CallRecord, Goes(k, next)
  PROVE  /\ call' \in [Calls -> CallRecord]
         /\ call'[k] = next
         /\ \A j \in Calls \ {k} : call'[j] = call[j]
BY DEF Goes, TypeOK

-----------------------------------------------------------------------------
(* Types *)

(* A selected candidate is a definition or undecided. *)
LEMMA ChosenIsTyped ==
  ASSUME NEW proposal \in Proposal, proposal.selected \in CandidateIds
  PROVE  Chosen(proposal) \in Candidate
BY DEF Chosen, Proposal

(* What is active are definitions. *)
LEMMA ActiveIsTyped ==
  ASSUME TypeOK, ActiveIsPublished
  PROVE  ActiveDefinitions \subseteq Definitions
<1> SUFFICES ASSUME pointer # None
             PROVE  MetricSetOf(pointer.set).definitions \subseteq Definitions
  BY DEF ActiveDefinitions
<1>1. pointer.set \in Identity /\ Stored(pointer.set)
  BY DEF TypeOK, Pointer, ActiveIsPublished, PublishedRow
<1>2. MetricSetOf(pointer.set) \in MetricSet
  BY <1>1 DEF TypeOK, Identity, Stored, MetricSetOf
<1> QED
  BY <1>2 DEF MetricSet

(* Creating and validating proposals. *)
LEMMA ProposalStepKeepsTypes ==
  ASSUME GovernanceInv, NEW k \in Calls, ProposalStep(k)
  PROVE  TypeOK'
<1> USE DEF GovernanceInv
<1>t. TypeOK /\ ReadIsSelected(k)
  BY DEF CallInv
<1>1. CASE \E p \in Proposals, b \in Bindings,
             candidates \in [CandidateIds -> Candidate] :
             BeginProposal(k, p, b, candidates)
  <2> PICK p \in Proposals, b \in Bindings,
           candidates \in [CandidateIds -> Candidate] :
           BeginProposal(k, p, b, candidates)
    BY <1>1
  <2> DEFINE next == [at |-> "save_proposal", id |-> p, binding |-> b,
                      candidates |-> candidates]
  <2>1. next \in CallRecord
    BY DEF CallRecord
  <2>2. Goes(k, next) /\ UNCHANGED <<binding_status, proposals, reports, releases, pins>>
    BY DEF BeginProposal
  <2> HIDE DEF next
  <2> QED
    BY <1>t, <2>1, <2>2, GoesOn DEF TypeOK, releases, pins
<1>2. CASE SaveProposal(k)
  <2> DEFINE c == call[k]
             row == [revision |-> 1, status |-> "draft", binding |-> c.binding,
                     candidates |-> c.candidates, selected |-> None]
  <2>1. /\ c.id \in Proposals /\ c.binding \in Bindings
        /\ c.candidates \in [CandidateIds -> Candidate]
    BY <1>2, <1>t, CallShape DEF SaveProposal
  <2>2. row \in Proposal
    BY <2>1, RevisionAssumption DEF Proposal, ProposalStatuses, Editable
  <2>3. /\ proposals' = [proposals EXCEPT ![c.id] = row]
        /\ Goes(k, IdleCall)
        /\ UNCHANGED <<binding_status, reports, releases, pins>>
    BY <1>2 DEF SaveProposal
  <2>4. IdleCall \in CallRecord
    BY DEF CallRecord
  <2> HIDE DEF row
  <2> QED
    BY <1>t, <2>1, <2>2, <2>3, <2>4, GoesOn DEF TypeOK, releases, pins
<1>3. CASE \E p \in Proposals : BeginValidation(k, p)
  <2> PICK p \in Proposals : BeginValidation(k, p)
    BY <1>3
  <2> DEFINE next == [at |-> "update_validated", id |-> p, read |-> proposals[p]]
  <2>1. next \in CallRecord
    BY <1>t DEF CallRecord, BeginValidation, TypeOK
  <2>2. Goes(k, next) /\ UNCHANGED <<binding_status, proposals, reports, releases, pins>>
    BY DEF BeginValidation
  <2> HIDE DEF next
  <2> QED
    BY <1>t, <2>1, <2>2, GoesOn DEF TypeOK, releases, pins
<1>4. CASE UpdateValidated(k)
  <2> DEFINE c == call[k]
             updated == [c.read EXCEPT !.revision = @ + 1,
                                       !.status = ValidationStatus(Allowed(c.read))]
             next == [at |-> "save_report", id |-> c.id, read |-> updated]
  <2>1. c.id \in Proposals /\ c.read \in Proposal /\ c.read.revision < MaxRevision
    BY <1>4, <1>t, CallShape DEF UpdateValidated, ReadIsSelected, Reading
  <2>s. ValidationStatus(Allowed(c.read)) \in ProposalStatuses
    BY DEF ProposalStatuses, ValidationStatus, Editable
  <2>r. c.read.revision + 1 \in 1..MaxRevision + 1
    BY <2>1, RevisionAssumption DEF Proposal
  <2>2. updated \in Proposal
    BY <2>1, <2>s, <2>r DEF Proposal
  <2>3. next \in CallRecord
    BY <2>1, <2>2 DEF CallRecord
  <2>4. /\ proposals' = [proposals EXCEPT ![c.id] = updated]
        /\ Goes(k, next)
        /\ UNCHANGED <<binding_status, reports, releases, pins>>
    BY <1>4 DEF UpdateValidated
  <2> HIDE DEF next, updated
  <2> QED
    BY <1>t, <2>1, <2>2, <2>3, <2>4, GoesOn DEF TypeOK, releases, pins
<1>5. CASE SaveReport(k)
  <2> DEFINE c == call[k]
  <2>1. /\ c.id \in Proposals /\ c.read \in Proposal
        /\ c.read.revision <= MaxRevision
        /\ Chosen(c.read) \in Definitions
    BY <1>5, <1>t, CallShape DEF SaveReport, ReadIsSelected, Reading
  <2>2. ReportOf(c.id, c.read) \in Report
    BY <2>1, RevisionAssumption DEF ReportOf, Report, Proposal, Allowed
  <2>3. /\ reports' = reports \cup {ReportOf(c.id, c.read)}
        /\ Goes(k, IdleCall)
        /\ UNCHANGED <<binding_status, proposals, releases, pins>>
    BY <1>5 DEF SaveReport
  <2>4. IdleCall \in CallRecord
    BY DEF CallRecord
  <2> QED
    BY <1>t, <2>2, <2>3, <2>4, GoesOn DEF TypeOK, releases, pins
<1> QED
  BY <1>1, <1>2, <1>3, <1>4, <1>5 DEF ProposalStep

(* The version an approval will store is an identity. *)
LEMMA NextSetIsTyped ==
  ASSUME TypeOK, NEW set \in NextSets
  PROVE  set \in Identity
<1>1. CASE pointer = None
  BY <1>1 DEF NextSets, Identity
<1>2. CASE pointer # None
  BY <1>2 DEF NextSets, TypeOK, Pointer, Identity
<1> QED
  BY <1>1, <1>2

(* Approving a proposal, up to the new version of the set. *)
LEMMA ApprovalStepKeepsTypes ==
  ASSUME GovernanceInv, NEW k \in Calls, ApprovalStep(k)
  PROVE  TypeOK'
<1> DEFINE c == call[k]
<1>t. TypeOK /\ ReadIsSelected(k) /\ ActiveIsPublished
  BY DEF CallInv, GovernanceInv, TableInv
<1>i. IdleCall \in CallRecord
  BY DEF CallRecord
<1>1. CASE \E p \in Proposals : BeginApproval(k, p)
  <2> PICK p \in Proposals : BeginApproval(k, p)
    BY <1>1
  <2> DEFINE next == [at |-> "authority", id |-> p, read |-> proposals[p]]
  <2>1. next \in CallRecord
    BY <1>t DEF CallRecord, BeginApproval, TypeOK
  <2>2. Goes(k, next) /\ UNCHANGED <<binding_status, proposals, reports, releases, pins>>
    BY DEF BeginApproval
  <2> HIDE DEF next
  <2> QED
    BY <1>t, <2>1, <2>2, GoesOn DEF TypeOK, releases, pins
<1>2. CASE CheckAuthority(k)
  <2> DEFINE next == [c EXCEPT !.at = "pointer"]
  <2>1. next \in CallRecord
    BY <1>2, <1>t, CallShape DEF CallRecord, CheckAuthority
  <2>2. Goes(k, next) /\ UNCHANGED <<binding_status, proposals, reports, releases, pins>>
    BY <1>2 DEF CheckAuthority
  <2> HIDE DEF next
  <2> QED
    BY <1>t, <2>1, <2>2, GoesOn DEF TypeOK, releases, pins
<1>3. CASE ReadPointer(k)
  <2> PICK set \in NextSets :
         Goes(k, [at |-> "save_set", id |-> c.id, read |-> c.read,
                  expected |-> PointerRevision, set |-> set,
                  definitions |-> ActiveDefinitions \cup {Chosen(c.read)}])
    BY <1>3 DEF ReadPointer
  <2> DEFINE next == [at |-> "save_set", id |-> c.id, read |-> c.read,
                      expected |-> PointerRevision, set |-> set,
                      definitions |-> ActiveDefinitions \cup {Chosen(c.read)}]
  <2>1. c.id \in Proposals /\ c.read \in Proposal /\ Chosen(c.read) \in Definitions
    BY <1>3, <1>t, CallShape DEF ReadPointer, ReadIsSelected, Reading, Approving
  <2>2. PointerRevision \in Nat
    BY <1>t DEF PointerRevision, TypeOK, Pointer
  <2>3. next \in CallRecord
    BY <1>t, <2>1, <2>2, NextSetIsTyped, ActiveIsTyped DEF CallRecord
  <2>4. Goes(k, next) /\ UNCHANGED <<binding_status, proposals, reports, releases, pins>>
    BY <1>3 DEF ReadPointer
  <2> HIDE DEF next
  <2> QED
    BY <1>t, <2>3, <2>4, GoesOn DEF TypeOK, releases, pins
<1>4. CASE SaveMetricSet(k)
  <2> DEFINE row == [status |-> "draft", definitions |-> c.definitions,
                     binding |-> c.read.binding]
             next == [c EXCEPT !.at = "activate_set"]
  <2>1. /\ c.set.id \in SetIds /\ row \in MetricSet
        /\ next \in CallRecord
    BY <1>4, <1>t, CallShape
       DEF SaveMetricSet, Identity, MetricSet, Proposal, CallRecord
  <2>2. /\ metric_sets' = [metric_sets EXCEPT ![c.set.id] = Append(@, row)]
        /\ Goes(k, next)
        /\ UNCHANGED <<binding_status, proposals, reports, pointer, pins>>
    BY <1>4 DEF SaveMetricSet
  <2>3. metric_sets' \in [SetIds -> Seq(MetricSet)]
    <3> HIDE DEF row
    <3>1. Append(metric_sets[c.set.id], row) \in Seq(MetricSet)
      BY <1>t, <2>1 DEF TypeOK
    <3> QED
      BY <1>t, <2>1, <2>2, <3>1 DEF TypeOK
  <2> HIDE DEF next, row
  <2> QED
    BY <1>t, <2>1, <2>2, <2>3, GoesOn DEF TypeOK, pins
<1>5. CASE ActivateMetricSet(k)
  <2> DEFINE next == [c EXCEPT !.at = "update_approved"]
             rows == [metric_sets[c.set.id] EXCEPT ![c.set.version] = Published(@)]
  <2>1. c.set \in Identity /\ next \in CallRecord
    BY <1>5, <1>t, CallShape DEF ActivateMetricSet, CallRecord
  <2>2. /\ metric_sets' = [metric_sets EXCEPT ![c.set.id] = rows]
        /\ pointer' = [set |-> c.set, revision |-> PointerRevision + 1]
        /\ Goes(k, next)
        /\ UNCHANGED <<binding_status, proposals, reports, pins>>
    BY <1>5 DEF ActivateMetricSet
  <2>3. pointer' \in Pointer
    BY <1>t, <2>1, <2>2 DEF Pointer, PointerRevision, TypeOK
  <2>4. rows \in Seq(MetricSet)
    <3>1. metric_sets[c.set.id] \in Seq(MetricSet)
      BY <1>t, <2>1 DEF TypeOK, Identity
    <3>2. \A row \in MetricSet : Published(row) \in MetricSet
      BY DEF MetricSet, Published
    <3> DEFINE n == Len(metric_sets[c.set.id])
    <3>3. n \in Nat /\ metric_sets[c.set.id] \in [1..n -> MetricSet]
      BY <3>1
    <3>4. rows \in [1..n -> MetricSet]
      BY <3>2, <3>3
    <3> HIDE DEF rows, n
    <3> QED
      BY <3>3, <3>4
  <2> HIDE DEF next, rows
  <2>5. metric_sets' \in [SetIds -> Seq(MetricSet)]
    BY <1>t, <2>1, <2>2, <2>4 DEF TypeOK, Identity
  <2> QED
    BY <1>t, <2>1, <2>2, <2>3, <2>5, GoesOn DEF TypeOK, pins
<1>6. CASE UpdateApproved(k)
  <2> DEFINE approved == [c.read EXCEPT !.revision = @ + 1, !.status = "approved"]
  <2>1. c.id \in Proposals /\ c.read \in Proposal /\ c.read.revision <= MaxRevision
    BY <1>6, <1>t, CallShape DEF UpdateApproved, ReadIsSelected, Reading, Approving
  <2>2. c.read.revision + 1 \in 1..MaxRevision + 1
    BY <2>1, RevisionAssumption DEF Proposal
  <2>3. approved \in Proposal
    BY <2>1, <2>2 DEF Proposal, ProposalStatuses
  <2>4. /\ proposals' = [proposals EXCEPT ![c.id] = approved]
        /\ Goes(k, IdleCall)
        /\ UNCHANGED <<binding_status, reports, releases, pins>>
    BY <1>6 DEF UpdateApproved
  <2> HIDE DEF approved
  <2> QED
    BY <1>t, <1>i, <2>1, <2>3, <2>4, GoesOn DEF TypeOK, releases, pins
<1> QED
  BY <1>1, <1>2, <1>3, <1>4, <1>5, <1>6 DEF ApprovalStep

(* Resolving and pinning. *)
LEMMA RunStepKeepsTypes ==
  ASSUME GovernanceInv, NEW k \in Calls, RunStep(k)
  PROVE  TypeOK'
<1> DEFINE q == call[k]
<1>t. TypeOK
  BY DEF GovernanceInv
<1>i. IdleCall \in CallRecord
  BY DEF CallRecord
<1>1. CASE \E c \in Conversations, b \in Bindings : BeginRun(k, c, b)
  <2> PICK c \in Conversations, b \in Bindings : BeginRun(k, c, b)
    BY <1>1
  <2> DEFINE next == [at |-> "pin_source", conversation |-> c, binding |-> b]
  <2>1. next \in CallRecord
    BY DEF CallRecord
  <2>2. Goes(k, next) /\ UNCHANGED <<binding_status, proposals, reports, releases, pins>>
    BY DEF BeginRun
  <2> HIDE DEF next
  <2> QED
    BY <1>t, <2>1, <2>2, GoesOn DEF TypeOK, releases, pins
<1>2. CASE PinConversation(k)
  <2> DEFINE next == [q EXCEPT !.at = "read_pin"]
  <2>1. q.conversation \in Conversations /\ q.binding \in Bindings /\ next \in CallRecord
    BY <1>2, <1>t, CallShape DEF CallRecord, PinConversation
  <2>2. /\ source_pin' = [source_pin EXCEPT ![q.conversation] = q.binding]
        /\ Goes(k, next)
        /\ UNCHANGED <<binding_status, proposals, reports, releases, metric_pin, used>>
    BY <1>2 DEF PinConversation
  <2> HIDE DEF next
  <2> QED
    BY <1>t, <2>1, <2>2, GoesOn DEF TypeOK, releases
<1>3. CASE UsePin(k)
  <2> DEFINE next == With(q, "read_set", metric_pin[q.conversation].set)
  <2>1. q.conversation \in Conversations /\ q.binding \in Bindings
    BY <1>3, <1>t, CallShape DEF UsePin
  <2>2. metric_pin[q.conversation] \in Context
    BY <1>3, <1>t, <2>1 DEF UsePin, TypeOK
  <2>3. next \in CallRecord
    BY <2>1, <2>2 DEF With, CallRecord, Context
  <2>4. Goes(k, next) /\ UNCHANGED <<binding_status, proposals, reports, releases, pins>>
    BY <1>3 DEF UsePin
  <2> HIDE DEF next
  <2> QED
    BY <1>t, <2>3, <2>4, GoesOn DEF TypeOK, releases, pins
<1>4. CASE UseActive(k)
  <2> DEFINE set == IF pointer = None THEN None ELSE pointer.set
             next == With(q, "put_pin", set)
  <2>1. q.conversation \in Conversations /\ q.binding \in Bindings
    BY <1>4, <1>t, CallShape DEF UseActive
  <2>2. set \in Identity \cup {None}
    BY <1>t DEF TypeOK, Pointer
  <2>3. Goes(k, next) /\ UNCHANGED <<binding_status, proposals, reports, releases, pins>>
    BY <1>4 DEF UseActive
  <2> HIDE DEF set
  <2>4. next \in CallRecord
    BY <2>1, <2>2 DEF With, CallRecord
  <2> HIDE DEF next
  <2> QED
    BY <1>t, <2>3, <2>4, GoesOn DEF TypeOK, releases, pins
<1>5. CASE PutPin(k)
  <2> DEFINE next == [q EXCEPT !.at = "read_set"]
  <2>1. q.conversation \in Conversations /\ next \in CallRecord /\ ContextOf(q) \in Context
    BY <1>5, <1>t, CallShape DEF CallRecord, PutPin, ContextOf, Context
  <2>2. /\ metric_pin' = [metric_pin EXCEPT ![q.conversation] = ContextOf(q)]
        /\ Goes(k, next)
        /\ UNCHANGED <<binding_status, proposals, reports, releases, source_pin, used>>
    BY <1>5 DEF PutPin
  <2> HIDE DEF next
  <2> QED
    BY <1>t, <2>1, <2>2, GoesOn DEF TypeOK, releases
<1>6. CASE ReadSet(k)
  <2>1. q.conversation \in Conversations /\ ContextOf(q) \in Context
    BY <1>6, <1>t, CallShape DEF CallRecord, ReadSet, ContextOf, Context
  <2>2. /\ used' = [used EXCEPT ![q.conversation] = @ \cup {ContextOf(q)}]
        /\ Goes(k, IdleCall)
        /\ UNCHANGED <<binding_status, proposals, reports, releases, source_pin, metric_pin>>
    BY <1>6 DEF ReadSet
  <2> QED
    BY <1>t, <1>i, <2>1, <2>2, GoesOn DEF TypeOK, releases
<1> QED
  BY <1>1, <1>2, <1>3, <1>4, <1>5, <1>6 DEF RunStep

(* Selecting and revising candidates. *)
LEMMA EditStepKeepsTypes ==
  ASSUME TypeOK, EditStep
  PROVE  TypeOK'
<1> PICK p \in Proposals, c \in CandidateIds :
       \/ SelectCandidate(p, c)
       \/ \E candidate \in Candidate : ReviseCandidate(p, c, candidate)
  BY DEF EditStep
<1>1. MayEdit(p)
  BY DEF SelectCandidate, ReviseCandidate
<1>2. proposals[p] \in Proposal /\ proposals[p].revision + 1 \in 1..MaxRevision + 1
  BY <1>1, RevisionAssumption DEF TypeOK, MayEdit, Proposal
<1>3. \A candidate : EditedStatus(candidate) \in ProposalStatuses
  BY DEF EditedStatus, ProposalStatuses, Editable
<1>4. CASE SelectCandidate(p, c)
  <2> DEFINE edited == [proposals[p] EXCEPT
               !.revision = @ + 1,
               !.selected = c,
               !.status = EditedStatus(proposals[p].candidates[c])]
  <2>1. edited \in Proposal
    BY <1>2, <1>3 DEF Proposal
  <2>2. /\ proposals' = [proposals EXCEPT ![p] = edited]
        /\ UNCHANGED <<binding_status, reports, releases, pins, call>>
    BY <1>4, <1>2 DEF SelectCandidate, TypeOK, Proposal
  <2> HIDE DEF edited
  <2> QED
    BY <2>1, <2>2 DEF TypeOK, releases, pins
<1>5. ASSUME NEW candidate \in Candidate, ReviseCandidate(p, c, candidate)
      PROVE  TypeOK'
  <2> DEFINE edited == [proposals[p] EXCEPT
               !.revision = @ + 1,
               !.candidates[c] = candidate,
               !.selected = c,
               !.status = EditedStatus(candidate)]
  <2>1. edited \in Proposal
    BY <1>2, <1>3 DEF Proposal
  <2>2. /\ proposals' = [proposals EXCEPT ![p] = edited]
        /\ UNCHANGED <<binding_status, reports, releases, pins, call>>
    BY <1>5, <1>2 DEF ReviseCandidate, TypeOK, Proposal
  <2> HIDE DEF edited
  <2> QED
    BY <2>1, <2>2 DEF TypeOK, releases, pins
<1> QED
  BY <1>4, <1>5

(* Creating and activating bindings. *)
LEMMA BindingStepKeepsTypes ==
  ASSUME TypeOK, BindingStep
  PROVE  TypeOK'
<1>1. binding_status' \in [Bindings -> {"absent", "draft", "active", "retired"}]
  BY DEF TypeOK, BindingStep, CreateBinding, ActivateBinding, ActivateGraphBinding, Bindings
<1>2. UNCHANGED <<proposals, reports, releases, pins, call>>
  BY DEF BindingStep, CreateBinding, ActivateBinding, ActivateGraphBinding
<1> QED
  BY <1>1, <1>2 DEF TypeOK, releases, pins

(* Every step keeps the types. *)
LEMMA TypesKept ==
  ASSUME GovernanceInv, Next
  PROVE  TypeOK'
<1>t. TypeOK
  BY DEF GovernanceInv
<1>1. ASSUME NEW k \in Calls, CallStops(k)
      PROVE  TypeOK'
  <2>1. Goes(k, IdleCall) /\ UNCHANGED <<binding_status, proposals, reports, releases, pins>>
    BY <1>1 DEF CallStops
  <2>2. IdleCall \in CallRecord
    BY DEF CallRecord
  <2> QED
    BY <1>t, <2>1, <2>2, GoesOn DEF TypeOK, releases, pins
<1> QED
  BY <1>t, <1>1, BindingStepKeepsTypes, EditStepKeepsTypes, ProposalStepKeepsTypes,
     ApprovalStepKeepsTypes, RunStepKeepsTypes
     DEF Next

-----------------------------------------------------------------------------
(* What no step undoes *)

RowsKept ==
  \A i \in SetIds : \A v \in DOMAIN metric_sets[i] :
    /\ v \in DOMAIN metric_sets'[i]
    /\ metric_sets'[i][v].definitions = metric_sets[i][v].definitions
    /\ metric_sets'[i][v].binding = metric_sets[i][v].binding
    /\ metric_sets[i][v].status = "published" => metric_sets'[i][v].status = "published"

PointerKept == /\ {PointerRevision, PointerRevision'} \subseteq Nat
               /\ PointerRevision <= PointerRevision'
               /\ ActiveDefinitions \subseteq ActiveDefinitions'
               /\ PointerRevision' = PointerRevision
                    => ActiveDefinitions' = ActiveDefinitions

PinsKept == \A c \in Conversations :
              /\ source_pin[c] # None => source_pin'[c] = source_pin[c]
              /\ metric_pin[c] # None => metric_pin'[c] = metric_pin[c]

Kept == /\ Validated \subseteq Validated'
        /\ RowsKept
        /\ PointerKept
        /\ PinsKept

(* The revision of the pointer counts activations. *)
LEMMA PointerRevisionIsNatural == TypeOK => PointerRevision \in Nat
BY DEF TypeOK, PointerRevision, Pointer

(* Steps that write neither sets nor the pointer. *)
LEMMA UnchangedReleasesKept ==
  ASSUME TypeOK, UNCHANGED releases
  PROVE  RowsKept /\ PointerKept
BY PointerRevisionIsNatural
   DEF releases, RowsKept, PointerKept, PointerRevision, ActiveDefinitions, MetricSetOf

(* Steps that write no pin. *)
LEMMA UnchangedPinsKept == UNCHANGED pins => PinsKept
BY DEF pins, PinsKept

(* Steps that write no report. *)
LEMMA UnchangedReportsKept == UNCHANGED reports => Validated \subseteq Validated'
BY DEF Validated

(* A new version is stored after the others. *)
LEMMA SavedSetKept ==
  ASSUME GovernanceInv, NEW k \in Calls, SaveMetricSet(k)
  PROVE  RowsKept /\ PointerKept
<1> DEFINE c == call[k]
           row == [status |-> "draft", definitions |-> c.definitions,
                   binding |-> c.read.binding]
<1>t. TypeOK /\ ActiveIsPublished
  BY DEF GovernanceInv, TableInv
<1>1. /\ metric_sets' = [metric_sets EXCEPT ![c.set.id] = Append(@, row)]
      /\ pointer' = pointer
  BY DEF SaveMetricSet
<1> HIDE DEF row
<1>2. \A i \in SetIds : metric_sets[i] \in Seq(MetricSet)
  BY <1>t DEF TypeOK
<1>3. \A i \in SetIds : \A v \in DOMAIN metric_sets[i] :
        v \in DOMAIN metric_sets'[i] /\ metric_sets'[i][v] = metric_sets[i][v]
  BY <1>1, <1>2, <1>t DEF TypeOK
<1>4. RowsKept
  BY <1>3 DEF RowsKept
<1>5. ActiveDefinitions' = ActiveDefinitions
  <2>1. CASE pointer = None
    BY <2>1, <1>1 DEF ActiveDefinitions
  <2>2. CASE pointer # None
    <3>1. pointer.set.id \in SetIds /\ pointer.set.version \in DOMAIN metric_sets[pointer.set.id]
      BY <2>2, <1>t DEF ActiveIsPublished, PublishedRow, Stored, TypeOK, Pointer, Identity
    <3> QED
      BY <2>2, <3>1, <1>1, <1>3 DEF ActiveDefinitions, MetricSetOf
  <2> QED
    BY <2>1, <2>2
<1> QED
  BY <1>1, <1>4, <1>5, <1>t, PointerRevisionIsNatural DEF PointerKept, PointerRevision

(* The set that is activated holds what was active and the chosen          *)
(* definition, since the pointer still has the revision the call read.     *)
LEMMA ActivatedSetKept ==
  ASSUME GovernanceInv, NEW k \in Calls, ActivateMetricSet(k)
  PROVE  /\ RowsKept
         /\ PointerKept
         /\ ActiveDefinitions' = ActiveDefinitions \cup {Chosen(call[k].read)}
         /\ Chosen(call[k].read) \notin ActiveDefinitions
         /\ PointerRevision' = PointerRevision + 1
         /\ ActiveIsPublished'
<1> DEFINE c == call[k]
<1>t. /\ TypeOK /\ CallInv(k)
      /\ PointerRevision \in Nat
  BY PointerRevisionIsNatural DEF GovernanceInv
<1>1. /\ metric_sets' = [metric_sets EXCEPT ![c.set.id][c.set.version] = Published(@)]
      /\ pointer' = [set |-> c.set, revision |-> PointerRevision + 1]
      /\ PointerRevision = c.expected
      /\ c.at = "activate_set"
  BY DEF ActivateMetricSet, PointerUnmoved
<1>2. /\ c.set \in Identity /\ Stored(c.set)
      /\ MetricSetOf(c.set).definitions = c.definitions
      /\ c.definitions = ActiveDefinitions \cup {Chosen(c.read)}
      /\ Chosen(c.read) \notin ActiveDefinitions
  BY <1>t, <1>1, CallShape DEF CallInv, TargetIsStored, ReleaseAddsOne
<1>3. \A i \in SetIds : metric_sets[i] \in Seq(MetricSet)
  BY <1>t DEF TypeOK
<1>4. \A row \in MetricSet : /\ Published(row).definitions = row.definitions
                             /\ Published(row).binding = row.binding
                             /\ Published(row).status = "published"
  BY DEF Published, MetricSet
<1>5. \A i \in SetIds : \A v \in DOMAIN metric_sets[i] :
        /\ v \in DOMAIN metric_sets'[i]
        /\ metric_sets[i][v] \in MetricSet
        /\ metric_sets'[i][v] = IF i = c.set.id /\ v = c.set.version
                                THEN Published(metric_sets[i][v])
                                ELSE metric_sets[i][v]
  BY <1>1, <1>3, <1>t DEF TypeOK
<1>6. RowsKept
  BY <1>4, <1>5 DEF RowsKept
<1>7. pointer' # None /\ pointer'.set = c.set /\ pointer'.revision = PointerRevision + 1
  <2>1. pointer' \in Pointer
    BY <1>1, <1>2, <1>t DEF Pointer
  <2> QED
    BY <2>1, <1>1, NoneAssumption
<1>8. PointerRevision' = PointerRevision + 1
  BY <1>7 DEF PointerRevision
<1>9. /\ metric_sets'[c.set.id][c.set.version].status = "published"
      /\ metric_sets'[c.set.id][c.set.version].definitions = c.definitions
      /\ c.set.version \in DOMAIN metric_sets'[c.set.id]
  <2>1. c.set.id \in SetIds /\ c.set.version \in DOMAIN metric_sets[c.set.id]
    BY <1>2 DEF Identity, Stored
  <2> QED
    BY <2>1, <1>2, <1>4, <1>5 DEF MetricSetOf
<1>10. ActiveDefinitions' = c.definitions
  BY <1>7, <1>9 DEF ActiveDefinitions, MetricSetOf
<1>11. ActiveIsPublished'
  BY <1>7, <1>9 DEF ActiveIsPublished, PublishedRow, Stored, MetricSetOf
<1> QED
  BY <1>2, <1>6, <1>8, <1>10, <1>11, <1>t DEF PointerKept

(* No step takes back a report, a version, a pin or an active definition. *)
LEMMA StepKeeps ==
  ASSUME GovernanceInv, Next
  PROVE  Kept
<1>t. TypeOK /\ PointerRevision \in Nat
  BY PointerRevisionIsNatural DEF GovernanceInv
<1> USE UnchangedReleasesKept, UnchangedPinsKept, UnchangedReportsKept
<1>1. CASE BindingStep \/ EditStep
  BY <1>1, <1>t
     DEF Kept, BindingStep, CreateBinding, ActivateBinding, ActivateGraphBinding,
         EditStep, SelectCandidate, ReviseCandidate
<1>2. ASSUME NEW k \in Calls, ProposalStep(k)
      PROVE  Kept
  <2>1. UNCHANGED releases /\ UNCHANGED pins
    BY <1>2 DEF ProposalStep, BeginProposal, SaveProposal, BeginValidation,
                UpdateValidated, SaveReport
  <2>2. reports \subseteq reports'
    BY <1>2 DEF ProposalStep, BeginProposal, SaveProposal, BeginValidation,
                UpdateValidated, SaveReport
  <2>3. Validated \subseteq Validated'
    BY <2>2 DEF Validated
  <2> QED
    BY <1>t, <2>1, <2>3 DEF Kept
<1>3. ASSUME NEW k \in Calls, ApprovalStep(k)
      PROVE  Kept
  <2>1. UNCHANGED reports /\ UNCHANGED pins
    BY <1>3 DEF ApprovalStep, BeginApproval, CheckAuthority, ReadPointer,
                SaveMetricSet, ActivateMetricSet, UpdateApproved
  <2>2. \/ SaveMetricSet(k) \/ ActivateMetricSet(k)
        \/ UNCHANGED releases
    BY <1>3 DEF ApprovalStep, BeginApproval, CheckAuthority, ReadPointer, UpdateApproved
  <2>3. RowsKept /\ PointerKept
    BY <1>t, <2>2, SavedSetKept, ActivatedSetKept
  <2> QED
    BY <2>1, <2>3 DEF Kept
<1>4. ASSUME NEW k \in Calls, RunStep(k)
      PROVE  Kept
  <2>1. UNCHANGED releases /\ UNCHANGED reports
    BY <1>4 DEF RunStep, BeginRun, PinConversation, UsePin, UseActive, PutPin, ReadSet
  <2>2. PinsKept
    <3>1. CASE PinConversation(k)
      BY <3>1, <1>t DEF PinConversation, MayPinSource, PinsKept, TypeOK
    <3>2. CASE PutPin(k)
      BY <3>2, <1>t DEF PutPin, Unpinned, PinsKept, TypeOK
    <3>3. CASE ReadSet(k)
      BY <3>3 DEF ReadSet, PinsKept
    <3>4. CASE UNCHANGED pins
      BY <3>4
    <3> QED
      BY <1>4, <3>1, <3>2, <3>3, <3>4 DEF RunStep, BeginRun, UsePin, UseActive
  <2> QED
    BY <1>t, <2>1, <2>2 DEF Kept
<1>5. ASSUME NEW k \in Calls, CallStops(k)
      PROVE  Kept
  BY <1>5, <1>t DEF CallStops, Kept
<1> QED
  BY <1>1, <1>2, <1>3, <1>4, <1>5 DEF Next

(* A version that is stored stays what it is. *)
LEMMA StoredStays ==
  ASSUME RowsKept, NEW set \in Identity, Stored(set)
  PROVE  /\ set.version \in DOMAIN metric_sets'[set.id]
         /\ metric_sets'[set.id][set.version].definitions = MetricSetOf(set).definitions
         /\ metric_sets'[set.id][set.version].binding = MetricSetOf(set).binding
         /\ MetricSetOf(set).status = "published"
              => metric_sets'[set.id][set.version].status = "published"
BY DEF RowsKept, Stored, MetricSetOf, Identity

(* What a call relies on does not change under it while others step. *)
LEMMA OtherCallKept ==
  ASSUME GovernanceInv, Kept, NEW j \in Calls, call'[j] = call[j]
  PROVE  CallInv(j)'
<1>t. TypeOK /\ CallInv(j)
  BY DEF GovernanceInv
<1> USE DEF CallInv
<1>1. ReadIsSelected(j)'
  BY <1>t DEF ReadIsSelected
<1>2. ApprovedIsValidated(j)'
  BY <1>t DEF ApprovedIsValidated, Kept
<1>3. ReleaseAddsOne(j)'
  <2> SUFFICES ASSUME call[j].at \in {"save_set", "activate_set"}
               PROVE  /\ call[j].definitions \subseteq Validated'
                      /\ call[j].expected <= PointerRevision'
                      /\ call[j].expected = PointerRevision' =>
                           /\ call[j].definitions = ActiveDefinitions' \cup {Chosen(call[j].read)}
                           /\ Chosen(call[j].read) \notin ActiveDefinitions'
    BY DEF ReleaseAddsOne
  <2>1. call[j].expected \in Nat
    BY <1>t, CallShape
  <2>2. PointerRevision \in Nat /\ PointerRevision' \in Nat
    BY DEF Kept, PointerKept
  <2> QED
    BY <1>t, <2>1, <2>2 DEF ReleaseAddsOne, Kept, PointerKept
<1>4. TargetIsStored(j)'
  <2> SUFFICES ASSUME call[j].at = "activate_set"
               PROVE  /\ call[j].set.version \in DOMAIN metric_sets'[call[j].set.id]
                      /\ metric_sets'[call[j].set.id][call[j].set.version].definitions
                           = call[j].definitions
    BY DEF TargetIsStored, Stored, MetricSetOf
  <2>1. call[j].set \in Identity
    BY <1>t, CallShape
  <2> QED
    BY <1>t, <2>1, StoredStays DEF TargetIsStored, Kept
<1>5. ReleasedIsInForce(j)'
  BY <1>t DEF ReleasedIsInForce, Kept, PointerKept
<1>6. SourceIsPinned(j)'
  <2> SUFFICES ASSUME call[j].at \in Resolving
               PROVE  source_pin'[call[j].conversation] = call[j].binding
    BY DEF SourceIsPinned
  <2>1. call[j].conversation \in Conversations /\ call[j].binding \in Bindings
    BY <1>t, CallShape DEF Resolving
  <2> QED
    BY <1>t, <2>1, NoneAssumption DEF SourceIsPinned, Kept, PinsKept
<1>7. ResolvedIsPublished(j)'
  <2> SUFFICES ASSUME call[j].at \in {"put_pin", "read_set"}, call[j].set # None
               PROVE  /\ call[j].set.version \in DOMAIN metric_sets'[call[j].set.id]
                      /\ metric_sets'[call[j].set.id][call[j].set.version].status = "published"
    BY DEF ResolvedIsPublished, PublishedRow, Stored, MetricSetOf
  <2>1. call[j].set \in Identity
    BY <1>t, CallShape
  <2> QED
    BY <1>t, <2>1, StoredStays DEF ResolvedIsPublished, PublishedRow, Kept
<1>8. ReadIsPinned(j)'
  <2> SUFFICES ASSUME call[j].at = "read_set"
               PROVE  metric_pin'[call[j].conversation] = ContextOf(call[j])
    BY DEF ReadIsPinned
  <2>1. call[j].conversation \in Conversations /\ ContextOf(call[j]) \in Context
    BY <1>t, CallShape DEF ContextOf, Context
  <2> QED
    BY <1>t, <2>1, NoneAssumption DEF ReadIsPinned, Kept, PinsKept
<1> QED
  BY <1>1, <1>2, <1>3, <1>4, <1>5, <1>6, <1>7, <1>8

-----------------------------------------------------------------------------
(* What the call that steps relies on next *)

(* A call that has ended relies on nothing. *)
LEMMA IdleCallRelies ==
  ASSUME NEW k \in Calls, call'[k] = IdleCall
  PROVE  CallInv(k)'
BY DEF CallInv, ReadIsSelected, ApprovedIsValidated, ReleaseAddsOne, TargetIsStored,
       ReleasedIsInForce, SourceIsPinned, ResolvedIsPublished, ReadIsPinned, IdleCall,
       Reading, Approving, Resolving

(* A validation acts on a selected, decided candidate. *)
LEMMA ProposalCallRelies ==
  ASSUME GovernanceInv, NEW k \in Calls, ProposalStep(k)
  PROVE  CallInv(k)'
<1>t. TypeOK /\ ReadIsSelected(k)
  BY DEF GovernanceInv, CallInv
<1> USE DEF CallInv, ReadIsSelected, ApprovedIsValidated, ReleaseAddsOne, TargetIsStored,
       ReleasedIsInForce, SourceIsPinned, ResolvedIsPublished, ReadIsPinned, IdleCall,
       Reading, Approving, Resolving
<1>1. ASSUME NEW p \in Proposals, NEW b \in Bindings,
             NEW candidates \in [CandidateIds -> Candidate],
             BeginProposal(k, p, b, candidates)
      PROVE  CallInv(k)'
  <2>1. call'[k].at = "save_proposal"
    BY <1>1, <1>t DEF BeginProposal, Goes, TypeOK
  <2> QED
    BY <2>1
<1>2. CASE SaveProposal(k) \/ SaveReport(k)
  <2>1. call'[k] = IdleCall
    BY <1>2, <1>t DEF SaveProposal, SaveReport, Goes, TypeOK
  <2> QED
    BY <2>1, IdleCallRelies
<1>3. ASSUME NEW p \in Proposals, BeginValidation(k, p)
      PROVE  CallInv(k)'
  <2>1. call'[k] = [at |-> "update_validated", id |-> p, read |-> proposals[p]]
    BY <1>3, <1>t DEF BeginValidation, Goes, TypeOK
  <2>2. /\ proposals[p] \in Proposal
        /\ proposals[p].selected \in CandidateIds
        /\ proposals[p].revision < MaxRevision
        /\ proposals[p].revision \in Nat
    BY <1>3, <1>t, RevisionAssumption DEF BeginValidation, TypeOK, Proposal
  <2>3. Chosen(proposals[p]) \in Definitions
    BY <1>3, <2>2, ChosenIsTyped DEF BeginValidation, Candidate
  <2> QED
    BY <2>1, <2>2, <2>3, RevisionAssumption
<1>4. CASE UpdateValidated(k)
  <2> DEFINE c == call[k]
             updated == [c.read EXCEPT !.revision = @ + 1,
                                       !.status = ValidationStatus(Allowed(c.read))]
  <2>1. call'[k] = [at |-> "save_report", id |-> c.id, read |-> updated]
    BY <1>4, <1>t DEF UpdateValidated, Goes, TypeOK
  <2>2. /\ c.read \in Proposal
        /\ c.read.selected \in CandidateIds
        /\ Chosen(c.read) \in Definitions
        /\ c.read.revision < MaxRevision
    BY <1>4, <1>t, CallShape DEF UpdateValidated
  <2>3. /\ updated.selected = c.read.selected
        /\ updated.candidates = c.read.candidates
        /\ updated.revision = c.read.revision + 1
    BY <2>2 DEF Proposal
  <2>4. updated.revision <= MaxRevision
    BY <2>2, <2>3, RevisionAssumption DEF Proposal
  <2> HIDE DEF updated
  <2> QED
    BY <2>1, <2>2, <2>3, <2>4 DEF Chosen
<1> QED
  BY <1>1, <1>2, <1>3, <1>4 DEF ProposalStep

(* What is active was validated, being a stored set. *)
LEMMA ActiveIsValidated ==
  ASSUME TypeOK, ActiveIsPublished, SetsAreValidated
  PROVE  ActiveDefinitions \subseteq Validated
BY DEF ActiveDefinitions, ActiveIsPublished, PublishedRow, Stored, SetsAreValidated,
       MetricSetOf, TypeOK, Pointer, Identity

(* An approval: the report makes its definition valid, the catalog makes   *)
(* it new, and the version it stores is the one it will activate.          *)
LEMMA ApprovalCallRelies ==
  ASSUME GovernanceInv, NEW k \in Calls, ApprovalStep(k), Kept
  PROVE  CallInv(k)'
<1> DEFINE c == call[k]
<1>t. /\ TypeOK /\ CallInv(k) /\ ActiveIsPublished /\ SetsAreValidated
      /\ PointerRevision \in Nat
  BY PointerRevisionIsNatural DEF GovernanceInv, TableInv
<1> USE DEF CallInv, ReadIsSelected, ApprovedIsValidated, ReleaseAddsOne, TargetIsStored,
       ReleasedIsInForce, SourceIsPinned, ResolvedIsPublished, ReadIsPinned, IdleCall,
       Reading, Approving, Resolving
<1>1. ASSUME NEW p \in Proposals, BeginApproval(k, p)
      PROVE  CallInv(k)'
  <2>1. call'[k] = [at |-> "authority", id |-> p, read |-> proposals[p]]
    BY <1>1, <1>t DEF BeginApproval, Goes, TypeOK
  <2>2. proposals[p] \in Proposal /\ proposals[p].selected \in CandidateIds
    BY <1>1, <1>t DEF BeginApproval, TypeOK, Proposal
  <2>3. PICK report \in reports : /\ report.allowed
                                  /\ report.revision = proposals[p].revision
                                  /\ report.definition = Chosen(proposals[p])
    BY <1>1 DEF BeginApproval, Reported
  <2>4. /\ Chosen(proposals[p]) \in Definitions
        /\ proposals[p].revision <= MaxRevision
    BY <2>3, <1>t DEF TypeOK, Report
  <2>5. Chosen(proposals[p]) \in Validated
    BY <2>3 DEF Validated
  <2>6. Validated' = Validated
    BY <1>1 DEF BeginApproval, Validated
  <2> QED
    BY <2>1, <2>2, <2>4, <2>5, <2>6
<1>2. CASE CheckAuthority(k)
  <2>1. c.at = "authority" /\ call'[k] = [c EXCEPT !.at = "pointer"]
    BY <1>2, <1>t DEF CheckAuthority, Goes, TypeOK
  <2>2. call'[k].at = "pointer" /\ call'[k].read = c.read
    BY <2>1, <1>t, CallShape
  <2>3. Validated' = Validated
    BY <1>2 DEF CheckAuthority, Validated
  <2> QED
    BY <2>1, <2>2, <2>3, <1>t
<1>3. CASE ReadPointer(k)
  <2> PICK set \in NextSets :
         Goes(k, [at |-> "save_set", id |-> c.id, read |-> c.read,
                  expected |-> PointerRevision, set |-> set,
                  definitions |-> ActiveDefinitions \cup {Chosen(c.read)}])
    BY <1>3 DEF ReadPointer
  <2>1. call'[k] = [at |-> "save_set", id |-> c.id, read |-> c.read,
                    expected |-> PointerRevision, set |-> set,
                    definitions |-> ActiveDefinitions \cup {Chosen(c.read)}]
    BY <1>t DEF Goes, TypeOK
  <2>2. c.at = "pointer" /\ Compatible(ActiveDefinitions, Chosen(c.read))
    BY <1>3 DEF ReadPointer
  <2>3. Chosen(c.read) \in Validated /\ ActiveDefinitions \subseteq Validated
    BY <2>2, <1>t, ActiveIsValidated
  <2>4. Chosen(c.read) \notin ActiveDefinitions
    BY <2>2, <1>t, NamesAssumption DEF Compatible
  <2>5. /\ Validated' = Validated /\ PointerRevision' = PointerRevision
        /\ ActiveDefinitions' = ActiveDefinitions
    BY <1>3 DEF ReadPointer, releases, Validated, PointerRevision, ActiveDefinitions, MetricSetOf
  <2> QED
    BY <2>1, <2>2, <2>3, <2>4, <2>5, <1>t
<1>4. CASE SaveMetricSet(k)
  <2> DEFINE row == [status |-> "draft", definitions |-> c.definitions,
                     binding |-> c.read.binding]
  <2>1. /\ c.at = "save_set"
        /\ c.set.version = Len(metric_sets[c.set.id]) + 1
        /\ metric_sets' = [metric_sets EXCEPT ![c.set.id] = Append(@, row)]
        /\ pointer' = pointer
        /\ call'[k] = [c EXCEPT !.at = "activate_set"]
    BY <1>4, <1>t DEF SaveMetricSet, Goes, TypeOK
  <2>2. /\ call'[k].at = "activate_set" /\ call'[k].read = c.read
        /\ call'[k].set = c.set /\ call'[k].expected = c.expected
        /\ call'[k].definitions = c.definitions
    BY <2>1, <1>t, CallShape
  <2>3. /\ c.set.version \in DOMAIN metric_sets'[c.set.id]
        /\ metric_sets'[c.set.id][c.set.version].definitions = c.definitions
    <3>1. c.set.id \in SetIds /\ metric_sets[c.set.id] \in Seq(MetricSet)
      BY <2>1, <1>t, CallShape DEF Identity, TypeOK
    <3> HIDE DEF row
    <3>2. /\ c.set.version \in DOMAIN metric_sets'[c.set.id]
          /\ metric_sets'[c.set.id][c.set.version] = row
      BY <2>1, <3>1, <1>t DEF TypeOK
    <3> QED
      BY <3>2 DEF row
  <2>4. Validated' = Validated /\ PointerRevision' = PointerRevision
    BY <1>4 DEF SaveMetricSet, Validated, PointerRevision
  <2>5. ActiveDefinitions' = ActiveDefinitions
    BY <2>4 DEF Kept, PointerKept
  <2> HIDE DEF row
  <2> QED
    BY <2>1, <2>2, <2>3, <2>4, <2>5, <1>t DEF Stored, MetricSetOf
<1>5. CASE ActivateMetricSet(k)
  <2>1. c.at = "activate_set" /\ call'[k] = [c EXCEPT !.at = "update_approved"]
    BY <1>5, <1>t DEF ActivateMetricSet, Goes, TypeOK
  <2>2. call'[k].at = "update_approved" /\ call'[k].read = c.read
    BY <2>1, <1>t, CallShape
  <2>3. Chosen(c.read) \in ActiveDefinitions'
    BY <1>5, ActivatedSetKept
  <2>4. Validated' = Validated
    BY <1>5 DEF ActivateMetricSet, Validated
  <2> QED
    BY <2>1, <2>2, <2>3, <2>4, <1>t
<1>6. CASE UpdateApproved(k)
  <2>1. call'[k] = IdleCall
    BY <1>6, <1>t DEF UpdateApproved, Goes, TypeOK
  <2> QED
    BY <2>1, IdleCallRelies
<1> QED
  BY <1>1, <1>2, <1>3, <1>4, <1>5, <1>6 DEF ApprovalStep

(* A run: its binding is pinned before it looks at metrics, and the set it *)
(* pins is a published one.                                                *)
LEMMA RunCallRelies ==
  ASSUME GovernanceInv, NEW k \in Calls, RunStep(k)
  PROVE  CallInv(k)'
<1> DEFINE q == call[k]
<1>t. TypeOK /\ CallInv(k) /\ ActiveIsPublished /\ PinnedIsPublished
  BY DEF GovernanceInv, TableInv
<1> USE DEF CallInv, ReadIsSelected, ApprovedIsValidated, ReleaseAddsOne, TargetIsStored,
       ReleasedIsInForce, SourceIsPinned, ResolvedIsPublished, ReadIsPinned, IdleCall,
       Reading, Approving, Resolving
<1>r. UNCHANGED releases
  BY DEF RunStep, BeginRun, PinConversation, UsePin, UseActive, PutPin, ReadSet
<1>1. ASSUME NEW c \in Conversations, NEW b \in Bindings, BeginRun(k, c, b)
      PROVE  CallInv(k)'
  <2>1. call'[k].at = "pin_source"
    BY <1>1, <1>t DEF BeginRun, Goes, TypeOK
  <2> QED
    BY <2>1
<1>2. CASE PinConversation(k)
  <2>1. /\ q.at = "pin_source"
        /\ source_pin' = [source_pin EXCEPT ![q.conversation] = q.binding]
        /\ call'[k] = [q EXCEPT !.at = "read_pin"]
    BY <1>2, <1>t DEF PinConversation, Goes, TypeOK
  <2>2. /\ q.conversation \in Conversations
        /\ call'[k].at = "read_pin"
        /\ call'[k].conversation = q.conversation
        /\ call'[k].binding = q.binding
    BY <2>1, <1>t, CallShape
  <2> QED
    BY <2>1, <2>2, <1>t DEF TypeOK
<1>3. CASE UsePin(k)
  <2> DEFINE pin == metric_pin[q.conversation]
  <2>1. /\ q.at = "read_pin" /\ pin # None
        /\ call'[k] = With(q, "read_set", pin.set)
        /\ pin.binding = q.binding
        /\ UNCHANGED pins
    BY <1>3, <1>t DEF UsePin, Goes, TypeOK
  <2>2. q.conversation \in Conversations
    BY <2>1, <1>t, CallShape
  <2>3. /\ call'[k].at = "read_set"
        /\ call'[k].conversation = q.conversation
        /\ call'[k].binding = q.binding
        /\ call'[k].set = pin.set
    BY <2>1 DEF With
  <2>4. pin = [binding |-> q.binding, set |-> pin.set]
    BY <2>1, <2>2, <1>t DEF TypeOK, Context
  <2>5. pin.set # None => PublishedRow(pin.set)
    BY <2>1, <2>2, <1>t DEF PinnedIsPublished
  <2> QED
    BY <2>1, <2>2, <2>3, <2>4, <2>5, <1>t, <1>r
       DEF ContextOf, PublishedRow, Stored, MetricSetOf, pins, releases
<1>4. CASE UseActive(k)
  <2> DEFINE set == IF pointer = None THEN None ELSE pointer.set
  <2>1. /\ q.at = "read_pin"
        /\ call'[k] = With(q, "put_pin", set)
        /\ UNCHANGED pins
    BY <1>4, <1>t DEF UseActive, Goes, TypeOK
  <2>2. set # None => PublishedRow(set)
    BY <1>t DEF ActiveIsPublished
  <2> HIDE DEF set
  <2>3. /\ call'[k].at = "put_pin"
        /\ call'[k].conversation = q.conversation
        /\ call'[k].binding = q.binding
        /\ call'[k].set = set
    BY <2>1 DEF With
  <2> QED
    BY <2>1, <2>2, <2>3, <1>t, <1>r
       DEF PublishedRow, Stored, MetricSetOf, pins, releases
<1>5. CASE PutPin(k)
  <2>1. /\ q.at = "put_pin"
        /\ metric_pin' = [metric_pin EXCEPT ![q.conversation] = ContextOf(q)]
        /\ call'[k] = [q EXCEPT !.at = "read_set"]
        /\ source_pin' = source_pin
    BY <1>5, <1>t DEF PutPin, Goes, TypeOK
  <2>2. /\ q.conversation \in Conversations
        /\ call'[k].at = "read_set"
        /\ call'[k].conversation = q.conversation
        /\ call'[k].binding = q.binding
        /\ call'[k].set = q.set
    BY <2>1, <1>t, CallShape
  <2>3. metric_pin'[q.conversation] = ContextOf(q)
    BY <2>1, <2>2, <1>t DEF TypeOK
  <2> QED
    BY <2>1, <2>2, <2>3, <1>t, <1>r
       DEF ContextOf, PublishedRow, Stored, MetricSetOf, releases
<1>6. CASE ReadSet(k)
  <2>1. call'[k] = IdleCall
    BY <1>6, <1>t DEF ReadSet, Goes, TypeOK
  <2> QED
    BY <2>1, IdleCallRelies
<1> QED
  BY <1>1, <1>2, <1>3, <1>4, <1>5, <1>6 DEF RunStep

(* After a step every call can still rely on what it read. *)
LEMMA CallsKept ==
  ASSUME GovernanceInv, Next
  PROVE  \A j \in Calls : CallInv(j)'
<1>k. Kept
  BY StepKeeps
<1>t. TypeOK
  BY DEF GovernanceInv
<1>1. CASE UNCHANGED call
  BY <1>1, <1>k, OtherCallKept
<1>2. ASSUME NEW k \in Calls, NEW next, Goes(k, next), CallInv(k)'
      PROVE  \A j \in Calls : CallInv(j)'
  <2>1. \A j \in Calls \ {k} : call'[j] = call[j]
    BY <1>2, <1>t DEF Goes, TypeOK
  <2> QED
    BY <1>2, <2>1, <1>k, OtherCallKept
<1>3. BindingStep \/ EditStep => UNCHANGED call
  BY DEF BindingStep, CreateBinding, ActivateBinding, ActivateGraphBinding,
         EditStep, SelectCandidate, ReviseCandidate
<1>4. ASSUME NEW k \in Calls,
             \/ ProposalStep(k) \/ ApprovalStep(k) \/ RunStep(k) \/ CallStops(k)
      PROVE  \A j \in Calls : CallInv(j)'
  <2>1. \E next : Goes(k, next)
    BY <1>4 DEF ProposalStep, BeginProposal, SaveProposal, BeginValidation, UpdateValidated,
         SaveReport, ApprovalStep, BeginApproval, CheckAuthority, ReadPointer, SaveMetricSet,
         ActivateMetricSet, UpdateApproved, RunStep, BeginRun, PinConversation, UsePin,
         UseActive, PutPin, ReadSet, CallStops
  <2>2. CallStops(k) => call'[k] = IdleCall
    BY <1>t DEF CallStops, Goes, TypeOK
  <2>3. CallInv(k)'
    BY <1>4, <2>2, <1>k, IdleCallRelies, ProposalCallRelies, ApprovalCallRelies, RunCallRelies
  <2> QED
    BY <1>2, <2>1, <2>3
<1> QED
  BY <1>1, <1>3, <1>4 DEF Next

-----------------------------------------------------------------------------
(* The tables *)

(* The pointer names a stored, published version. *)
LEMMA ActiveStaysPublished ==
  ASSUME GovernanceInv, Next
  PROVE  ActiveIsPublished'
<1>t. TypeOK /\ ActiveIsPublished /\ RowsKept
  BY StepKeeps DEF GovernanceInv, TableInv, Kept
<1>1. CASE pointer' = pointer
  <2> SUFFICES ASSUME pointer # None
               PROVE  /\ pointer.set.version \in DOMAIN metric_sets'[pointer.set.id]
                      /\ metric_sets'[pointer.set.id][pointer.set.version].status = "published"
    BY <1>1 DEF ActiveIsPublished, PublishedRow, Stored, MetricSetOf
  <2>1. pointer.set \in Identity /\ PublishedRow(pointer.set)
    BY <1>t DEF TypeOK, Pointer, ActiveIsPublished
  <2> QED
    BY <2>1, <1>t, StoredStays DEF PublishedRow
<1>2. pointer' = pointer \/ \E k \in Calls : ActivateMetricSet(k)
  BY DEF Next, BindingStep, CreateBinding, ActivateBinding, ActivateGraphBinding, EditStep,
         SelectCandidate, ReviseCandidate, ProposalStep, BeginProposal, SaveProposal,
         BeginValidation, UpdateValidated, SaveReport, ApprovalStep, BeginApproval,
         CheckAuthority, ReadPointer, SaveMetricSet, UpdateApproved, RunStep, BeginRun,
         PinConversation, UsePin, UseActive, PutPin, ReadSet, CallStops, releases
<1> QED
  BY <1>1, <1>2, ActivatedSetKept

(* No version holds a definition that was not validated. *)
LEMMA SetsStayValidated ==
  ASSUME GovernanceInv, Next
  PROVE  SetsAreValidated'
<1>t. TypeOK /\ SetsAreValidated /\ Validated \subseteq Validated' /\ RowsKept
  BY StepKeeps DEF GovernanceInv, TableInv, Kept
<1>1. CASE \A i \in SetIds : DOMAIN metric_sets'[i] = DOMAIN metric_sets[i]
  BY <1>1, <1>t DEF SetsAreValidated, RowsKept
<1>2. ASSUME NEW k \in Calls, ActivateMetricSet(k)
      PROVE  \A i \in SetIds : DOMAIN metric_sets'[i] = DOMAIN metric_sets[i]
  BY <1>2, <1>t DEF ActivateMetricSet, TypeOK
<1>3. ASSUME NEW k \in Calls, SaveMetricSet(k)
      PROVE  SetsAreValidated'
  <2> DEFINE c == call[k]
             row == [status |-> "draft", definitions |-> c.definitions,
                     binding |-> c.read.binding]
  <2>1. metric_sets' = [metric_sets EXCEPT ![c.set.id] = Append(@, row)]
    BY <1>3 DEF SaveMetricSet
  <2>2. row.definitions \subseteq Validated
    BY <1>3 DEF SaveMetricSet, GovernanceInv, CallInv, ReleaseAddsOne
  <2> HIDE DEF row
  <2>3. ASSUME NEW i \in SetIds, NEW v \in DOMAIN metric_sets'[i]
        PROVE  v \in DOMAIN metric_sets[i] \/ metric_sets'[i][v] = row
    <3>1. metric_sets[i] \in Seq(MetricSet)
      BY <1>t DEF TypeOK
    <3>2. CASE i = c.set.id
      BY <2>1, <2>3, <3>1, <3>2, <1>t DEF TypeOK
    <3>3. CASE i # c.set.id
      BY <2>1, <2>3, <3>3, <1>t DEF TypeOK
    <3> QED
      BY <3>2, <3>3
  <2> QED
    BY <2>2, <2>3, <1>t DEF SetsAreValidated, RowsKept
<1>4. \/ metric_sets' = metric_sets
      \/ \E k \in Calls : ActivateMetricSet(k) \/ SaveMetricSet(k)
  BY DEF Next, BindingStep, CreateBinding, ActivateBinding, ActivateGraphBinding, EditStep,
         SelectCandidate, ReviseCandidate, ProposalStep, BeginProposal, SaveProposal,
         BeginValidation, UpdateValidated, SaveReport, ApprovalStep, BeginApproval,
         CheckAuthority, ReadPointer, UpdateApproved, RunStep, BeginRun,
         PinConversation, UsePin, UseActive, PutPin, ReadSet, CallStops, releases
<1> QED
  BY <1>1, <1>2, <1>3, <1>4

(* Only UpdateApproved makes a proposal approved, and what it approves is   *)
(* already in force; no edit reaches an approved proposal.                 *)
LEMMA ApprovedStaysInForce ==
  ASSUME GovernanceInv, Next
  PROVE  ApprovedIsInForce'
<1>t. TypeOK /\ ApprovedIsInForce /\ ActiveDefinitions \subseteq ActiveDefinitions'
  BY StepKeeps DEF GovernanceInv, TableInv, Kept, PointerKept
<1> DEFINE InForce(p) ==
      (proposals'[p] # None /\ proposals'[p].status = "approved")
        => Chosen(proposals'[p]) \in ActiveDefinitions'
<1>0. (\A p \in Proposals : InForce(p)) => ApprovedIsInForce'
  BY DEF ApprovedIsInForce
<1>1. ASSUME NEW p \in Proposals, proposals'[p] = proposals[p]
      PROVE  InForce(p)
  BY <1>1, <1>t DEF ApprovedIsInForce
<1>2. ASSUME NEW p \in Proposals, proposals'[p].status # "approved"
      PROVE  InForce(p)
  BY <1>2
<1>3. CASE EditStep
  <2> PICK p \in Proposals, c \in CandidateIds :
         \/ SelectCandidate(p, c)
         \/ \E candidate \in Candidate : ReviseCandidate(p, c, candidate)
    BY <1>3 DEF EditStep
  <2>1. proposals[p] \in Proposal
    BY <1>t DEF SelectCandidate, ReviseCandidate, MayEdit, TypeOK
  <2>2. \A candidate : EditedStatus(candidate) # "approved"
    BY DEF EditedStatus
  <2>3. proposals'[p].status # "approved"
    <3>1. CASE SelectCandidate(p, c)
      <4> DEFINE status == EditedStatus(proposals[p].candidates[c])
      <4>1. proposals' = [proposals EXCEPT ![p] = [proposals[p] EXCEPT
              !.revision = @ + 1, !.selected = c, !.status = status]]
        BY <3>1, <2>1 DEF SelectCandidate, Proposal
      <4>2. status # "approved"
        BY <2>2
      <4> HIDE DEF status
      <4> QED
        BY <1>t, <2>1, <4>1, <4>2 DEF TypeOK, Proposal
    <3>2. ASSUME NEW candidate \in Candidate, ReviseCandidate(p, c, candidate)
          PROVE  proposals'[p].status # "approved"
      <4> DEFINE status == EditedStatus(candidate)
      <4>1. proposals' = [proposals EXCEPT ![p] = [proposals[p] EXCEPT
              !.revision = @ + 1, !.candidates[c] = candidate, !.selected = c,
              !.status = status]]
        BY <3>2, <2>1 DEF ReviseCandidate, Proposal
      <4>2. status # "approved"
        BY <2>2
      <4> HIDE DEF status
      <4> QED
        BY <1>t, <2>1, <4>1, <4>2 DEF TypeOK, Proposal
    <3> QED
      BY <3>1, <3>2
  <2>4. \A q \in Proposals \ {p} : proposals'[q] = proposals[q]
    BY <1>t DEF SelectCandidate, ReviseCandidate, TypeOK
  <2> QED
    BY <1>0, <1>1, <1>2, <2>3, <2>4
<1>4. ASSUME NEW k \in Calls, SaveProposal(k)
      PROVE  ApprovedIsInForce'
  <2> DEFINE p == call[k].id
  <2>1. p \in Proposals => proposals'[p].status # "approved"
    BY <1>4, <1>t DEF SaveProposal, TypeOK
  <2>2. \A q \in Proposals \ {p} : proposals'[q] = proposals[q]
    BY <1>4, <1>t DEF SaveProposal, TypeOK
  <2> QED
    BY <1>0, <1>1, <1>2, <2>1, <2>2
<1>5. ASSUME NEW k \in Calls, UpdateValidated(k)
      PROVE  ApprovedIsInForce'
  <2> DEFINE p == call[k].id
  <2>1. p \in Proposals /\ call[k].read \in Proposal
    BY <1>5, <1>t, CallShape DEF UpdateValidated
  <2>2. \A allowed : ValidationStatus(allowed) # "approved"
    BY DEF ValidationStatus
  <2> DEFINE status == ValidationStatus(Allowed(call[k].read))
             updated == [call[k].read EXCEPT !.revision = @ + 1, !.status = status]
  <2>a. proposals' = [proposals EXCEPT ![p] = updated]
    BY <1>5 DEF UpdateValidated
  <2>b. updated.status = status
    <3> HIDE DEF status
    <3> QED
      BY <2>1 DEF Proposal
  <2> HIDE DEF updated
  <2>3. proposals'[p].status # "approved"
    BY <1>t, <2>1, <2>2, <2>a, <2>b DEF TypeOK
  <2>4. \A q \in Proposals \ {p} : proposals'[q] = proposals[q]
    BY <1>5, <1>t DEF UpdateValidated, TypeOK
  <2> QED
    BY <1>0, <1>1, <1>2, <2>3, <2>4
<1>6. ASSUME NEW k \in Calls, UpdateApproved(k)
      PROVE  ApprovedIsInForce'
  <2> DEFINE c == call[k]
             approved == [c.read EXCEPT !.revision = @ + 1, !.status = "approved"]
  <2>1. c.id \in Proposals /\ c.read \in Proposal
    BY <1>6, <1>t, CallShape DEF UpdateApproved
  <2>2. Chosen(c.read) \in ActiveDefinitions
    BY <1>6 DEF UpdateApproved, GovernanceInv, CallInv, ReleasedIsInForce
  <2>3. proposals' = [proposals EXCEPT ![c.id] = approved]
    BY <1>6 DEF UpdateApproved
  <2>4. Chosen(approved) = Chosen(c.read)
    BY <2>1 DEF Chosen, Proposal
  <2> HIDE DEF approved
  <2>5. proposals'[c.id] = approved /\ \A q \in Proposals \ {c.id} : proposals'[q] = proposals[q]
    BY <2>1, <2>3, <1>t DEF TypeOK
  <2>6. InForce(c.id)
    BY <2>2, <2>4, <2>5, <1>t
  <2> QED
    BY <1>0, <1>1, <2>5, <2>6
<1>7. \/ proposals' = proposals \/ EditStep
      \/ \E k \in Calls : SaveProposal(k) \/ UpdateValidated(k) \/ UpdateApproved(k)
  BY DEF Next, BindingStep, CreateBinding, ActivateBinding, ActivateGraphBinding,
         ProposalStep, BeginProposal, BeginValidation, SaveReport, ApprovalStep,
         BeginApproval, CheckAuthority, ReadPointer, SaveMetricSet, ActivateMetricSet,
         RunStep, BeginRun, PinConversation, UsePin, UseActive, PutPin, ReadSet, CallStops
<1> QED
  BY <1>0, <1>1, <1>3, <1>4, <1>5, <1>6, <1>7

(* The pins agree, and what runs used is what is pinned. *)
LEMMA PinsStay ==
  ASSUME GovernanceInv, Next
  PROVE  PinnedIsPublished' /\ PinsAgree' /\ UsedIsPinned' /\ UsedHasItsBinding'
<1>t. TypeOK /\ PinnedIsPublished /\ PinsAgree /\ UsedIsPinned /\ UsedHasItsBinding /\ RowsKept
  BY StepKeeps DEF GovernanceInv, TableInv, Kept
<1>n. \A c \in Conversations :
        /\ metric_pin[c] # None => metric_pin[c] \in Context
        /\ \A context \in used[c] : context \in Context /\ context # None
  BY <1>t, NoneAssumption DEF TypeOK
<1>s. \A c \in Conversations :
        (metric_pin[c] # None /\ metric_pin[c].set # None)
          => /\ metric_pin[c].set.version \in DOMAIN metric_sets'[metric_pin[c].set.id]
             /\ metric_sets'[metric_pin[c].set.id][metric_pin[c].set.version].status = "published"
             /\ metric_sets'[metric_pin[c].set.id][metric_pin[c].set.version].binding
                  = MetricSetOf(metric_pin[c].set).binding
  <2> SUFFICES ASSUME NEW c \in Conversations, metric_pin[c] # None, metric_pin[c].set # None
               PROVE  /\ metric_pin[c].set.version \in DOMAIN metric_sets'[metric_pin[c].set.id]
                      /\ metric_sets'[metric_pin[c].set.id][metric_pin[c].set.version].status = "published"
                      /\ metric_sets'[metric_pin[c].set.id][metric_pin[c].set.version].binding
                           = MetricSetOf(metric_pin[c].set).binding
    OBVIOUS
  <2>1. metric_pin[c].set \in Identity
    BY <1>n DEF Context
  <2>2. Stored(metric_pin[c].set) /\ MetricSetOf(metric_pin[c].set).status = "published"
    BY <1>t DEF PinnedIsPublished, PublishedRow
  <2> QED
    BY <2>1, <2>2, <1>t, StoredStays
<1>1. ASSUME UNCHANGED metric_pin
      PROVE  PinnedIsPublished'
  BY <1>1, <1>s DEF PinnedIsPublished, PublishedRow, Stored, MetricSetOf
<1>2. ASSUME UNCHANGED metric_pin, UNCHANGED used
      PROVE  UsedIsPinned' /\ UsedHasItsBinding'
  <2>1. UsedIsPinned'
    BY <1>2, <1>t DEF UsedIsPinned
  <2>2. UsedHasItsBinding'
    BY <1>2, <1>t, <1>n, <1>s DEF UsedIsPinned, UsedHasItsBinding, MetricSetOf
  <2> QED
    BY <2>1, <2>2
<1>3. CASE UNCHANGED pins
  BY <1>1, <1>2, <1>3, <1>t DEF pins, PinsAgree
<1>4. ASSUME NEW k \in Calls, PinConversation(k)
      PROVE  PinsAgree' /\ UNCHANGED metric_pin /\ UNCHANGED used
  <2> DEFINE q == call[k]
  <2>1. /\ q.conversation \in Conversations
        /\ source_pin[q.conversation] \in {None, q.binding}
        /\ source_pin' = [source_pin EXCEPT ![q.conversation] = q.binding]
        /\ metric_pin' = metric_pin /\ used' = used
    BY <1>4, <1>t, CallShape DEF PinConversation, MayPinSource
  <2>2. metric_pin[q.conversation] # None
          => /\ metric_pin[q.conversation].binding = source_pin[q.conversation]
             /\ metric_pin[q.conversation].binding \in Bindings
    BY <2>1, <1>t, <1>n DEF PinsAgree, Context
  <2>3. metric_pin[q.conversation] # None => source_pin[q.conversation] = q.binding
    BY <2>1, <2>2, NoneAssumption
  <2> QED
    BY <2>1, <2>3, <1>t DEF PinsAgree, TypeOK
<1>5. ASSUME NEW k \in Calls, PutPin(k)
      PROVE  PinnedIsPublished' /\ PinsAgree' /\ UsedIsPinned' /\ UsedHasItsBinding'
  <2> DEFINE q == call[k]
  <2>1. /\ q.at = "put_pin"
        /\ q.conversation \in Conversations
        /\ metric_pin[q.conversation] = None
        /\ metric_pin' = [metric_pin EXCEPT ![q.conversation] = ContextOf(q)]
        /\ UNCHANGED <<metric_sets, source_pin, used>>
    BY <1>5, <1>t, CallShape DEF PutPin, Unpinned, releases
  <2>2. /\ source_pin[q.conversation] = q.binding
        /\ q.set # None => PublishedRow(q.set)
    BY <2>1 DEF GovernanceInv, CallInv, SourceIsPinned, ResolvedIsPublished, Resolving
  <2>3. used[q.conversation] = {}
    BY <2>1, <1>t, <1>n DEF UsedIsPinned
  <2>4. /\ metric_pin'[q.conversation] = ContextOf(q)
        /\ \A c \in Conversations \ {q.conversation} : metric_pin'[c] = metric_pin[c]
    BY <2>1, <1>t DEF TypeOK
  <2>5. PinnedIsPublished'
    BY <2>1, <2>2, <2>4, <1>t
       DEF PinnedIsPublished, PublishedRow, Stored, MetricSetOf, ContextOf
  <2>6. PinsAgree'
    BY <2>1, <2>2, <2>4, <1>t DEF PinsAgree, ContextOf
  <2>7. UsedIsPinned'
    BY <2>1, <2>3, <2>4, <1>t DEF UsedIsPinned
  <2>8. UsedHasItsBinding'
    BY <2>1, <1>t DEF UsedHasItsBinding, MetricSetOf
  <2> QED
    BY <2>5, <2>6, <2>7, <2>8
<1>6. ASSUME NEW k \in Calls, ReadSet(k)
      PROVE  PinsAgree' /\ UNCHANGED metric_pin /\ UsedIsPinned' /\ UsedHasItsBinding'
  <2> DEFINE q == call[k]
  <2>1. /\ q.at = "read_set"
        /\ q.conversation \in Conversations
        /\ used' = [used EXCEPT ![q.conversation] = @ \cup {ContextOf(q)}]
        /\ UNCHANGED <<metric_sets, source_pin, metric_pin>>
        /\ q.set # None => MetricSetOf(q.set).binding = q.binding
    BY <1>6, <1>t, CallShape DEF ReadSet, Usable, releases
  <2>2. metric_pin[q.conversation] = ContextOf(q)
    BY <2>1 DEF GovernanceInv, CallInv, ReadIsPinned
  <2>3. /\ used'[q.conversation] = used[q.conversation] \cup {ContextOf(q)}
        /\ \A c \in Conversations \ {q.conversation} : used'[c] = used[c]
    BY <2>1, <1>t DEF TypeOK
  <2>4. UsedIsPinned'
    BY <2>1, <2>2, <2>3, <1>t DEF UsedIsPinned
  <2>5. UsedHasItsBinding'
    <3>1. ContextOf(q).set = q.set /\ ContextOf(q).binding = q.binding
      BY DEF ContextOf
    <3> QED
      BY <2>1, <2>3, <3>1, <1>t DEF UsedHasItsBinding, MetricSetOf
  <2> QED
    BY <2>1, <2>4, <2>5, <1>t DEF PinsAgree
<1>7. \/ UNCHANGED pins
      \/ \E k \in Calls : PinConversation(k) \/ PutPin(k) \/ ReadSet(k)
  BY DEF Next, BindingStep, CreateBinding, ActivateBinding, ActivateGraphBinding, EditStep,
         SelectCandidate, ReviseCandidate, ProposalStep, BeginProposal, SaveProposal,
         BeginValidation, UpdateValidated, SaveReport, ApprovalStep, BeginApproval,
         CheckAuthority, ReadPointer, SaveMetricSet, ActivateMetricSet, UpdateApproved,
         RunStep, BeginRun, UsePin, UseActive, CallStops
<1> QED
  BY <1>1, <1>2, <1>3, <1>4, <1>5, <1>6, <1>7

-----------------------------------------------------------------------------
(* The invariant is inductive: what calls rely on and what the tables hold *)
(* is kept by every operation, whoever else is in the middle of a call.    *)
THEOREM GovernanceInvariant == Spec => []GovernanceInv
<1>1. Init => GovernanceInv
  <2> SUFFICES ASSUME Init PROVE GovernanceInv
    OBVIOUS
  <2>1. TypeOK
    <3>1. IdleCall \in CallRecord
      BY DEF CallRecord
    <3>2. <<>> \in Seq(MetricSet)
      OBVIOUS
    <3> QED
      BY <3>1, <3>2 DEF Init, TypeOK
  <2>2. TableInv
    BY DEF Init, TableInv, ActiveIsPublished, SetsAreValidated, ApprovedIsInForce,
           PinnedIsPublished, PinsAgree, UsedIsPinned, UsedHasItsBinding
  <2>3. \A k \in Calls : CallInv(k)
    BY DEF Init, CallInv, ReadIsSelected, ApprovedIsValidated, ReleaseAddsOne,
           TargetIsStored, ReleasedIsInForce, SourceIsPinned, ResolvedIsPublished,
           ReadIsPinned, IdleCall, Reading, Approving, Resolving
  <2> QED
    BY <2>1, <2>2, <2>3 DEF GovernanceInv
<1>2. GovernanceInv /\ Next => GovernanceInv'
  BY TypesKept, CallsKept, ActiveStaysPublished, SetsStayValidated, ApprovedStaysInForce,
     PinsStay
     DEF GovernanceInv, TableInv
<1>3. GovernanceInv /\ UNCHANGED vars => GovernanceInv'
  BY DEF GovernanceInv, TypeOK, TableInv, ActiveIsPublished, SetsAreValidated,
         ApprovedIsInForce, PinnedIsPublished, PinsAgree, UsedIsPinned, UsedHasItsBinding,
         CallInv, ReadIsSelected, ApprovedIsValidated, ReleaseAddsOne, TargetIsStored,
         ReleasedIsInForce, SourceIsPinned, ResolvedIsPublished, ReadIsPinned,
         PublishedRow, Stored, MetricSetOf, PointerRevision, ActiveDefinitions, Validated,
         vars, releases, pins
<1> QED
  BY <1>1, <1>2, <1>3, PTL DEF Spec

(* The tables and the calls have their types. *)
THEOREM TypeCorrect == Spec => []TypeOK
<1>1. GovernanceInv => TypeOK
  BY DEF GovernanceInv
<1> QED
  BY <1>1, GovernanceInvariant, PTL

(* However approvals overlap or stop, what was approved is in force. *)
THEOREM ApprovedRemainsInForce == Spec => []ApprovedIsInForce
<1>1. GovernanceInv => ApprovedIsInForce
  BY DEF GovernanceInv, TableInv
<1> QED
  BY <1>1, GovernanceInvariant, PTL

(* Every run uses a published set of its binding, all of it validated. *)
THEOREM RunsAreGoverned == Spec => []ResolvedIsGoverned
<1>1. GovernanceInv => ResolvedIsGoverned
  <2> SUFFICES ASSUME GovernanceInv, NEW c \in Conversations, NEW context \in used[c],
                      context.set # None
               PROVE  /\ PublishedRow(context.set)
                      /\ MetricSetOf(context.set).binding = context.binding
                      /\ MetricSetOf(context.set).definitions \subseteq Validated
    BY DEF ResolvedIsGoverned, PublishedRow
  <2>1. context \in Context /\ context # None /\ context.set \in Identity
    BY NoneAssumption DEF GovernanceInv, TypeOK, Context
  <2>2. PublishedRow(context.set)
    BY <2>1 DEF GovernanceInv, TableInv, UsedIsPinned, PinnedIsPublished
  <2>3. MetricSetOf(context.set).definitions \subseteq Validated
    BY <2>1, <2>2
       DEF GovernanceInv, TableInv, SetsAreValidated, PublishedRow, Stored, MetricSetOf, Identity
  <2> QED
    BY <2>2, <2>3 DEF GovernanceInv, TableInv, UsedHasItsBinding
<1> QED
  BY <1>1, GovernanceInvariant, PTL

(* No two runs of a conversation use different bindings or metric sets. *)
THEOREM ConversationsKeepMetrics == Spec => []ConversationKeepsMetrics
<1>1. GovernanceInv => ConversationKeepsMetrics
  BY DEF GovernanceInv, TableInv, UsedIsPinned, ConversationKeepsMetrics
<1> QED
  BY <1>1, GovernanceInvariant, PTL

(* The two pins of a conversation name one binding. *)
THEOREM PinsAlwaysAgree == Spec => []PinsAgree
<1>1. GovernanceInv => PinsAgree
  BY DEF GovernanceInv, TableInv
<1> QED
  BY <1>1, GovernanceInvariant, PTL

-----------------------------------------------------------------------------
(* Refinement *)

(* A report validates its definition, or changes nothing. *)
LEMMA ReportStepRefines ==
  ASSUME GovernanceInv, NEW k \in Calls, SaveReport(k)
  PROVE  [Authority!Next]_(Authority!vars)
<1> DEFINE c == call[k]
           report == ReportOf(c.id, c.read)
<1>1. /\ reports' = reports \cup {report}
      /\ UNCHANGED releases
      /\ c.at = "save_report"
  BY DEF SaveReport
<1>2. ActiveDefinitions' = ActiveDefinitions
  BY <1>1 DEF releases, ActiveDefinitions, MetricSetOf
<1>3. report.definition \in Definitions
  BY <1>1 DEF ReportOf, GovernanceInv, CallInv, ReadIsSelected, Reading
<1> HIDE DEF report
<1>4. CASE report.allowed
  <2>1. Validated' = Validated \cup {report.definition}
    BY <1>1, <1>4 DEF Validated
  <2> QED
    BY <1>2, <1>3, <2>1 DEF Authority!Next, Authority!Validate
<1>5. CASE ~report.allowed
  <2>1. Validated' = Validated
    BY <1>1, <1>5 DEF Validated
  <2> QED
    BY <1>2, <2>1 DEF Authority!vars
<1> QED
  BY <1>4, <1>5

(* An activation puts one definition in force. *)
LEMMA ActivationRefines ==
  ASSUME GovernanceInv, NEW k \in Calls, ActivateMetricSet(k)
  PROVE  [Authority!Next]_(Authority!vars)
<1> DEFINE d == Chosen(call[k].read)
<1>1. /\ ActiveDefinitions' = ActiveDefinitions \cup {d}
      /\ d \notin ActiveDefinitions
  BY ActivatedSetKept
<1>2. d \in Definitions /\ d \in Validated
  BY DEF ActivateMetricSet, GovernanceInv, CallInv, ReadIsSelected, ApprovedIsValidated,
         Reading, Approving
<1>3. Validated' = Validated
  BY DEF ActivateMetricSet, Validated
<1> QED
  BY <1>1, <1>2, <1>3 DEF Authority!Next, Authority!PutInForce

(* Governance implements its abstraction: every step validates one         *)
(* definition, puts one validated definition in force, or does neither.    *)
THEOREM GovernanceImplementsAuthority == Spec => ImplementsMetricAuthority
<1>1. Init => Authority!Init
  BY DEF Init, Authority!Init, Validated, ActiveDefinitions
<1>2. GovernanceInv /\ Next => [Authority!Next]_(Authority!vars)
  <2> SUFFICES ASSUME GovernanceInv, Next
               PROVE  [Authority!Next]_(Authority!vars)
    OBVIOUS
  <2>1. CASE UNCHANGED <<reports, pointer>> /\ \A k \in Calls : ~ActivateMetricSet(k)
    <3>1. Validated' = Validated
      BY <2>1 DEF Validated
    <3>2. ActiveDefinitions' = ActiveDefinitions
      BY <2>1, StepKeeps DEF Kept, PointerKept, PointerRevision
    <3> QED
      BY <3>1, <3>2 DEF Authority!vars
  <2>2. BindingStep \/ EditStep => UNCHANGED <<reports, pointer>>
    BY DEF BindingStep, CreateBinding, ActivateBinding, ActivateGraphBinding, EditStep,
           SelectCandidate, ReviseCandidate, releases
  <2>3. ASSUME NEW k \in Calls,
               \/ ProposalStep(k) \/ ApprovalStep(k) \/ RunStep(k) \/ CallStops(k)
        PROVE  \/ UNCHANGED <<reports, pointer>>
               \/ SaveReport(k) \/ ActivateMetricSet(k)
    <3>1. CASE ProposalStep(k)
      BY <3>1 DEF ProposalStep, BeginProposal, SaveProposal, BeginValidation,
                  UpdateValidated, releases
    <3>2. CASE ApprovalStep(k)
      BY <3>2 DEF ApprovalStep, BeginApproval, CheckAuthority, ReadPointer, SaveMetricSet,
                  UpdateApproved, releases
    <3>3. CASE RunStep(k)
      BY <3>3 DEF RunStep, BeginRun, PinConversation, UsePin, UseActive, PutPin, ReadSet,
                  releases
    <3>4. CASE CallStops(k)
      BY <3>4 DEF CallStops, releases
    <3> QED
      BY <2>3, <3>1, <3>2, <3>3, <3>4
  <2>4. \/ UNCHANGED <<reports, pointer>>
        \/ \E k \in Calls : SaveReport(k) \/ ActivateMetricSet(k)
    BY <2>2, <2>3 DEF Next
  <2> QED
    BY <2>1, <2>4, ReportStepRefines, ActivationRefines
<1>3. UNCHANGED vars => [Authority!Next]_(Authority!vars)
  BY DEF vars, releases, Authority!vars, Validated, ActiveDefinitions, MetricSetOf
<1> QED
  BY <1>1, <1>2, <1>3, GovernanceInvariant, PTL DEF Spec, ImplementsMetricAuthority, Authority!Spec
=============================================================================
