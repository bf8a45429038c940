--------------------------- MODULE MemoryManager ---------------------------
(***************************************************************************)
(* Long-term memory of one tenant and domain: proposals and their          *)
(* approval, records, and conversation turns (data_agent/memory).  The     *)
(* variable provider says which implementation of the MemoryManager        *)
(* protocol is deployed: NullMemoryManager ("null"), whose calls are       *)
(* atomic, or PostgresMemoryManager ("postgres"), whose calls are          *)
(* READ COMMITTED transactions of several statements.                      *)
(*                                                                         *)
(* The tables hold what is committed.  tx[s] is the transaction of         *)
(* connection s: the statement it runs next, and what it has inserted or   *)
(* locked.  A statement that needs a row or a unique key another           *)
(* transaction holds waits for it.  Abort is a lost connection, a deadlock *)
(* or a stop of the process.  A call that is refused, or that only repeats *)
(* what is recorded, changes nothing and is no step.                       *)
(*                                                                         *)
(* A candidate is its digest, so a proposal, and the record it creates,    *)
(* are named by it.  Reads other than recall, texts, times (a record that  *)
(* expires keeps its row and its slot), titles, archiving and the content  *)
(* policy, which refuses a call as a whole, are left out.                  *)
(***************************************************************************)
EXTENDS FiniteSets

CONSTANTS Candidates,
          OwnerOf,        \* [scope, user, conversation, run], or NoMemory
          SlotOf,         \* owner and deduplication key
          ContentOf,
          PinOf,          \* the version the candidate is pinned to
          Approvers,      \* [user, admin]: who decides and invalidates
          Conversations,
          UserOf,         \* of a conversation
          Turns,          \* batches: [conversation, run, proposals]
          Versions,       \* that a query may carry; NoMemory is none
          Subjects,       \* of forget: [user, conversation, run]
          Connections,
          NoMemory

ASSUME SlotAssumption ==
  \A c, d \in Candidates : SlotOf[c] = SlotOf[d] => OwnerOf[c] = OwnerOf[d]
ASSUME SubjectAssumption ==
  \A u \in Subjects : u.run # NoMemory => u.conversation # NoMemory
ASSUME TurnAssumption ==
  \A b \in Turns : b.conversation \in Conversations /\ b.proposals \subseteq Candidates

Approvals == [approver : Approvers, decision : {"approve", "reject"}]
Proposals ==
  [status : {"pending_approval", "conflict", "committed", "rejected"},
   approval : Approvals \cup {NoMemory},
   memory : Candidates \cup {NoMemory}]

ASSUME NoMemoryAssumption == NoMemory \notin Candidates \cup Proposals

VARIABLES provider,
          conversations,  \* "absent", "created" or "forgotten"
          summary,        \* summary_run_id of a conversation, or NoMemory
          turns,          \* the batches whose messages are stored
          turn_digests,   \* _turn_batch_digests of the null provider
          proposals,
          records,        \* status of the record a candidate created
          tx

chats == <<conversations, summary, turns, turn_digests>>
memory_tables == <<chats, proposals, records>>
memory_vars == <<provider, memory_tables, tx>>

Runs == {b.run : b \in Turns}
IdleTx == [at |-> "idle"]

MayDecide(approver, owner) ==
  \/ approver.admin
  \/ owner.scope \notin {"episodic", "enterprise"} /\ owner.user = approver.user

\* _subject_owns: an owner without a domain is never forgotten.
Owns(subject, owner) ==
  /\ owner.scope \in {"working", "conversation"}
  /\ owner.user = subject.user
  /\ subject.conversation \in {NoMemory, owner.conversation}
  /\ subject.run \in {NoMemory, owner.run}

OwnsTurn(subject, v, run) ==
  /\ UserOf[v] = subject.user
  /\ subject.conversation \in {NoMemory, v}
  /\ subject.run \in {NoMemory, run}

OwnsConversation(subject, v) ==
  subject.run = NoMemory /\ OwnsTurn(subject, v, NoMemory)

Exists(v) == conversations[v] = "created"

Occupants(slot) ==
  {m \in Candidates : SlotOf[m] = slot
                      /\ records[m] \in {"active", "pending_review"}}

ProposalStatus(c) ==
  IF \E m \in Occupants(SlotOf[c]) : ContentOf[m] # ContentOf[c]
  THEN "conflict" ELSE "pending_approval"

Proposed(status) ==
  [status |-> status, approval |-> NoMemory, memory |-> NoMemory]
Decided(status, approval, memory) ==
  [status |-> status, approval |-> approval, memory |-> memory]

Decidable(c, approval) ==
  /\ proposals[c] # NoMemory
  /\ MayDecide(approval.approver, OwnerOf[c])
  /\ proposals[c].status = "pending_approval"

\* What is stored with every proposal of cs that is not known yet.
Insert(statuses) ==
  [c \in Candidates |-> IF c \in DOMAIN statuses /\ proposals[c] = NoMemory
                        THEN Proposed(statuses[c]) ELSE proposals[c]]

MemoryInit ==
  /\ provider \in {"null", "postgres"}
  /\ conversations = [v \in Conversations |-> "absent"]
  /\ summary = [v \in Conversations |-> NoMemory]
  /\ turns = {}
  /\ turn_digests = {}
  /\ proposals = [c \in Candidates |-> NoMemory]
  /\ records = [c \in Candidates |-> "absent"]
  /\ tx = [s \in Connections |-> IdleTx]


\* Faulty: forget leaves the summary of a forgotten run.
ForgetsNoSummary(subject, v) == FALSE

\* The summary a run-scoped forget clears.
ForgetsSummary(subject, v) ==
  /\ subject.run # NoMemory
  /\ OwnsTurn(subject, v, subject.run)
  /\ summary[v] = subject.run

\* Rows of data_agent_memory_proposals that other transactions have locked
\* or inserted.
Held(s, cs) ==
  \E t \in Connections \ {s} :
    \/ tx[t].at \in {"locked", "inserted", "occupied"} /\ tx[t].candidate \in cs
    \/ tx[t].at \in {"propose", "proposed"} /\ DOMAIN tx[t].staged \cap cs # {}
    \/ tx[t].at \in {"forget", "deleted"} /\ tx[t].locked \cap cs # {}

\* save_turn locks the row of its conversation ...
Turning(v) ==
  \E t \in Connections : /\ tx[t].at \in {"turn", "proposed"}
                         /\ tx[t].turn.conversation = v

\* ... which an insert that refers to it needs to be there and not locked.
Writable(s, owner) ==
  owner.conversation \in Conversations =>
    Exists(owner.conversation) /\ ~Turning(owner.conversation)

\* Locked by a turn, or by a row inserted for the conversation.
Locked(s, v) ==
  \E t \in Connections \ {s} :
    \/ tx[t].at \in {"turn", "proposed"} /\ tx[t].turn.conversation = v
    \/ tx[t].at = "propose"
       /\ \E c \in DOMAIN tx[t].staged : OwnerOf[c].conversation = v
    \/ tx[t].at = "inserted" /\ OwnerOf[tx[t].candidate].conversation = v

-----------------------------------------------------------------------------
(* Both providers: single statements *)

CreateConversation(v) ==
  /\ conversations[v] = "absent"
  /\ conversations' = [conversations EXCEPT ![v] = "created"]
  /\ UNCHANGED <<provider, summary, turns, turn_digests, proposals, records, tx>>

(* Marks what is pinned to another version before it selects.  A query    *)
(* without a version, such as that of api/app.py, drifts from every pin.   *)
Drifts(m, version) ==
  /\ records[m] = "active"
  /\ PinOf[m] \notin {NoMemory, version}

Recall(owners, version) ==
  /\ records' = [m \in Candidates |->
                   IF OwnerOf[m] \in owners /\ Drifts(m, version)
                   THEN "pending_review" ELSE records[m]]
  /\ UNCHANGED <<provider, chats, proposals, tx>>

Invalidate(approver, ids) ==
  /\ records' = [m \in Candidates |->
                   IF /\ m \in ids
                      /\ records[m] \in {"active", "pending_review"}
                      /\ MayDecide(approver, OwnerOf[m])
                   THEN "invalidated" ELSE records[m]]
  /\ UNCHANGED <<provider, chats, proposals, tx>>

-----------------------------------------------------------------------------
(* The null provider: every call is atomic *)

LocalPropose(c) ==
  /\ proposals' = Insert([d \in {c} |-> ProposalStatus(d)])
  /\ UNCHANGED <<chats, records>>

\* Faulty: an occupied slot is taken for the candidate's own content.
AgreesAlways(c, memory) == TRUE

Agrees(c, memory) == ContentOf[memory] = ContentOf[c]

(* The decision, for both providers once the slot is known.               *)
Settle(c, approval) ==
  LET others == Occupants(SlotOf[c])
      memory == IF others = {} THEN c ELSE CHOOSE m \in others : TRUE
  IN /\ proposals' = [proposals EXCEPT
                        ![c] = IF Agrees(c, memory)
                               THEN Decided("committed", approval, memory)
                               ELSE Decided("conflict", approval, NoMemory)]
     /\ records' = IF others = {} THEN [records EXCEPT ![c] = "active"]
                                  ELSE records

Reject(c, approval) ==
  /\ proposals' = [proposals EXCEPT
                     ![c] = Decided("rejected", approval, NoMemory)]
  /\ UNCHANGED records

LocalCommit(c, approval) ==
  /\ Decidable(c, approval)
  /\ IF approval.decision = "reject" THEN Reject(c, approval)
                                     ELSE Settle(c, approval)
  /\ UNCHANGED chats

LocalSaveTurn(b) ==
  /\ \A d \in turn_digests : <<d.conversation, d.run>> # <<b.conversation, b.run>>
  /\ Exists(b.conversation)
  /\ turns' = turns \cup {b}
  /\ summary' = [summary EXCEPT ![b.conversation] = b.run]
  /\ turn_digests' = turn_digests \cup {b}
  /\ proposals' = Insert([c \in b.proposals |-> ProposalStatus(c)])
  /\ UNCHANGED <<conversations, records>>

(* Digests of forgotten turns stay: the run can never be saved again.     *)
LocalForget(subject) ==
  LET gone(c) == Owns(subject, OwnerOf[c])
  IN /\ records' = [c \in Candidates |-> IF gone(c) THEN "absent" ELSE records[c]]
     /\ proposals' = [c \in Candidates |->
                        IF gone(c) THEN NoMemory ELSE proposals[c]]
     /\ turns' = {b \in turns : ~OwnsTurn(subject, b.conversation, b.run)}
     /\ summary' = [v \in Conversations |->
                      IF OwnsConversation(subject, v) \/ ForgetsSummary(subject, v)
                      THEN NoMemory ELSE summary[v]]
     /\ conversations' = [v \in Conversations |->
                            IF OwnsConversation(subject, v) /\ Exists(v)
                            THEN "forgotten" ELSE conversations[v]]
     /\ UNCHANGED turn_digests

LocalCall ==
  /\ provider = "null"
  /\ \/ \E c \in Candidates : LocalPropose(c)
     \/ \E c \in Candidates, approval \in Approvals : LocalCommit(c, approval)
     \/ \E b \in Turns : LocalSaveTurn(b)
     \/ \E subject \in Subjects : LocalForget(subject)
  /\ UNCHANGED <<provider, tx>>

-----------------------------------------------------------------------------
(* PostgreSQL: transactions *)

TxEnds(s) == tx' = [tx EXCEPT ![s] = IdleTx]
TxMoves(s, t) == tx' = [tx EXCEPT ![s] = t]

(* INSERT .. ON CONFLICT (owner_key, candidate_digest) DO UPDATE: the      *)
(* status is what the statement sees, and committed later.                 *)
Propose(s, c) ==
  /\ tx[s] = IdleTx
  /\ ~Held(s, {c})
  /\ Writable(s, OwnerOf[c])
  /\ TxMoves(s, [at |-> "propose", staged |-> [d \in {c} |-> ProposalStatus(d)]])
  /\ UNCHANGED <<provider, memory_tables>>

ProposeCommits(s) ==
  /\ tx[s].at = "propose"
  /\ proposals' = Insert(tx[s].staged)
  /\ TxEnds(s)
  /\ UNCHANGED <<provider, chats, records>>

LockProposal(s, c, approval) ==
  /\ tx[s] = IdleTx
  /\ ~Held(s, {c})
  /\ Decidable(c, approval)
  /\ approval.decision = "approve"
  /\ TxMoves(s, [at |-> "locked", candidate |-> c, approval |-> approval])
  /\ UNCHANGED <<provider, memory_tables>>

RejectProposal(s, c, approval) ==
  /\ tx[s] = IdleTx
  /\ ~Held(s, {c})
  /\ Decidable(c, approval)
  /\ approval.decision = "reject"
  /\ Reject(c, approval)
  /\ UNCHANGED <<provider, chats, tx>>

\* Faulty: without the partial unique index nothing is waited for.
SlotUnawaited(s) == TRUE

(* ON CONFLICT (owner_key, deduplication_key) WHERE status IN ('active',   *)
(* 'pending_review') DO NOTHING waits for what is inserted into the slot   *)
(* or deleted from it, and so does SELECT .. FOR UPDATE of its record.     *)
SlotAwaited(s) ==
  LET slot == SlotOf[tx[s].candidate]
  IN \A t \in Connections \ {s} :
       /\ tx[t].at = "inserted" => SlotOf[tx[t].candidate] # slot
       /\ tx[t].at = "deleted" => \A m \in tx[t].locked : SlotOf[m] # slot

InsertRecord(s) ==
  /\ tx[s].at = "locked"
  /\ SlotAwaited(s)
  /\ Writable(s, OwnerOf[tx[s].candidate])
  /\ TxMoves(s, [at |-> IF Occupants(SlotOf[tx[s].candidate]) = {}
                       THEN "inserted" ELSE "occupied",
                 candidate |-> tx[s].candidate, approval |-> tx[s].approval])
  /\ UNCHANGED <<provider, memory_tables>>

\* The slot was free when the record was inserted, and nobody can fill it.
CommitRecord(s) ==
  /\ tx[s].at = "inserted"
  /\ records' = [records EXCEPT ![tx[s].candidate] = "active"]
  /\ proposals' = [proposals EXCEPT
       ![tx[s].candidate] = Decided("committed", tx[s].approval, tx[s].candidate)]
  /\ TxEnds(s)
  /\ UNCHANGED <<provider, chats>>

\* A slot that has been emptied meanwhile is an error: see Abort.
ResolveSlot(s) ==
  /\ tx[s].at = "occupied"
  /\ SlotAwaited(s)
  /\ Occupants(SlotOf[tx[s].candidate]) # {}
  /\ Settle(tx[s].candidate, tx[s].approval)
  /\ TxEnds(s)
  /\ UNCHANGED <<provider, chats>>

LockTurn(s, b) ==
  /\ tx[s] = IdleTx
  /\ Exists(b.conversation)
  /\ ~Locked(s, b.conversation)
  /\ \A d \in turns : <<d.conversation, d.run>> # <<b.conversation, b.run>>
  /\ TxMoves(s, [at |-> "turn", turn |-> b])
  /\ UNCHANGED <<provider, memory_tables>>

ProposeInTurn(s) ==
  /\ tx[s].at = "turn"
  /\ ~Held(s, tx[s].turn.proposals)
  /\ TxMoves(s, [at |-> "proposed", turn |-> tx[s].turn,
               staged |-> [c \in tx[s].turn.proposals |-> ProposalStatus(c)]])
  /\ UNCHANGED <<provider, memory_tables>>

CommitTurn(s) ==
  /\ tx[s].at = "proposed"
  /\ turns' = turns \cup {tx[s].turn}
  /\ summary' = [summary EXCEPT ![tx[s].turn.conversation] = tx[s].turn.run]
  /\ proposals' = Insert(tx[s].staged)
  /\ TxEnds(s)
  /\ UNCHANGED <<provider, conversations, turn_digests, records>>

(* The first statement updates, and so locks, the proposals it sees.      *)
ForgetLocks(s, subject) ==
  LET mine == {c \in Candidates : proposals[c] # NoMemory
                                  /\ Owns(subject, OwnerOf[c])}
  IN /\ tx[s] = IdleTx
     /\ ~Held(s, mine)
     /\ TxMoves(s, [at |-> "forget", subject |-> subject, locked |-> mine])
  /\ UNCHANGED <<provider, memory_tables>>

(* Deletes records, proposals (with what was proposed and approved since   *)
(* the first statement) and messages.                                      *)
ForgetDeletes(s) ==
  LET mine == {c \in Candidates : proposals[c] # NoMemory
                                  /\ Owns(tx[s].subject, OwnerOf[c])}
  IN /\ tx[s].at = "forget"
     /\ ~Held(s, mine)
     /\ TxMoves(s, [at |-> "deleted", subject |-> tx[s].subject, locked |-> mine,
                  gone |-> {b \in turns :
                              OwnsTurn(tx[s].subject, b.conversation, b.run)}])
  /\ UNCHANGED <<provider, memory_tables>>

(* Then the summary of the run, or the conversations and what refers to    *)
(* them (ON DELETE CASCADE), and COMMIT.                                   *)
ForgetCommits(s) ==
  LET subject == tx[s].subject
      dropped == {v \in Conversations : Exists(v) /\ OwnsConversation(subject, v)}
      gone == tx[s].locked \cup {c \in Candidates :
                                   /\ OwnerOf[c].conversation \in dropped
                                   /\ proposals[c] # NoMemory}
  IN /\ tx[s].at = "deleted"
     /\ \A v \in Conversations :
          /\ v \in dropped => ~Locked(s, v)
          /\ ForgetsSummary(subject, v) => ~Turning(v)
     /\ ~Held(s, gone)
     /\ records' = [c \in Candidates |->
                      IF c \in gone THEN "absent" ELSE records[c]]
     /\ proposals' = [c \in Candidates |->
                        IF c \in gone THEN NoMemory ELSE proposals[c]]
     /\ turns' = {b \in turns \ tx[s].gone : b.conversation \notin dropped}
     /\ summary' = [v \in Conversations |->
                      IF v \in dropped \/ ForgetsSummary(subject, v)
                      THEN NoMemory ELSE summary[v]]
     /\ conversations' = [v \in Conversations |->
                            IF v \in dropped THEN "forgotten" ELSE conversations[v]]
     /\ TxEnds(s)
     /\ UNCHANGED <<provider, turn_digests>>

Abort(s) ==
  /\ tx[s] # IdleTx
  /\ TxEnds(s)
  /\ UNCHANGED <<provider, memory_tables>>

Transaction(s) ==
  /\ provider = "postgres"
  /\ \/ \E c \in Candidates : Propose(s, c)
     \/ \E c \in Candidates, approval \in Approvals :
          LockProposal(s, c, approval) \/ RejectProposal(s, c, approval)
     \/ \E b \in Turns : LockTurn(s, b)
     \/ \E subject \in Subjects : ForgetLocks(s, subject)
     \/ ProposeCommits(s)
     \/ InsertRecord(s)
     \/ CommitRecord(s)
     \/ ResolveSlot(s)
     \/ ProposeInTurn(s)
     \/ CommitTurn(s)
     \/ ForgetDeletes(s)
     \/ ForgetCommits(s)
     \/ Abort(s)

-----------------------------------------------------------------------------
Statement ==
  \/ \E v \in Conversations : CreateConversation(v)
  \/ \E owners \in SUBSET {OwnerOf[c] : c \in Candidates},
        version \in Versions \cup {NoMemory} : Recall(owners, version)
  \/ \E approver \in Approvers, ids \in SUBSET Candidates :
       Invalidate(approver, ids)

MemoryNext == Statement \/ LocalCall \/ \E s \in Connections : Transaction(s)

MemorySpec == MemoryInit /\ [][MemoryNext]_memory_vars

-----------------------------------------------------------------------------
(* Properties *)

(* Rows, transactions and candidates have their types, and at most the    *)
(* null provider keeps digests, at most PostgreSQL has transactions.       *)
MemoryTypeOK ==
  /\ conversations \in [Conversations -> {"absent", "created", "forgotten"}]
  /\ summary \in [Conversations -> Runs \cup {NoMemory}]
  /\ turns \in SUBSET Turns
  /\ turn_digests \in SUBSET Turns
  /\ proposals \in [Candidates -> {NoMemory} \cup Proposals]
  /\ records \in [Candidates ->
       {"absent", "active", "pending_review", "invalidated"}]
  /\ provider = "null" => tx = [s \in Connections |-> IdleTx]
  /\ provider = "postgres" => turn_digests = {}

(* propose, commit, invalidate, recall, save_turn and forget of either     *)
(* provider, however their transactions overlap, keep one content per slot *)
(* and never replace it in place, and decide a candidate once.             *)
Undecided(c) ==
  proposals[c] = NoMemory \/ proposals[c].status = "pending_approval"

Remembered ==
  [slot \in {SlotOf[c] : c \in Candidates} |->
     {ContentOf[m] : m \in Occupants(slot)}]

DecisionOf ==
  [c \in Candidates |-> IF Undecided(c) THEN "open"
                        ELSE IF proposals[c].status = "committed" THEN "approved"
                        ELSE "refused"]

Slots == INSTANCE MemorySlots WITH remembered <- Remembered, decision <- DecisionOf

ImplementsMemorySlots == Slots!Spec

(* A record exists only with the committed proposal that created it, which *)
(* somebody who may decide for its owner approved; a committed proposal    *)
(* names a record of its own slot and content.  forget takes both, and     *)
(* whatever is proposed or approved while it runs (_propose_on_connection, *)
(* commit, forget).                                                        *)
RecordsAreApproved ==
  \A c \in Candidates :
    /\ records[c] # "absent" =>
         /\ proposals[c] # NoMemory
         /\ proposals[c].status = "committed"
         /\ proposals[c].memory = c
         /\ proposals[c].approval.decision = "approve"
         /\ MayDecide(proposals[c].approval.approver, OwnerOf[c])
    /\ proposals[c] # NoMemory /\ proposals[c].status = "committed" =>
         /\ proposals[c].memory # NoMemory
         /\ records[proposals[c].memory] # "absent"
         /\ SlotOf[proposals[c].memory] = SlotOf[c]
         /\ ContentOf[proposals[c].memory] = ContentOf[c]

(* Messages belong to a conversation that exists, a run has one turn, and  *)
(* the summary of a conversation comes from a turn that is stored.         *)
TurnsAreWhole ==
  /\ \A b \in turns : Exists(b.conversation)
  /\ \A b, d \in turns :
       <<b.conversation, b.run>> = <<d.conversation, d.run>> => b = d
  /\ \A v \in Conversations : summary[v] # NoMemory =>
       \E b \in turns : b.conversation = v /\ b.run = summary[v]

(* What the memory holds is whole: its records are approved and its turns  *)
(* and summaries belong together.                                          *)
MemoryIsWhole == RecordsAreApproved /\ TurnsAreWhole
============================================================================
