------------------------ MODULE MemoryManager_proofs ------------------------
(***************************************************************************)
(* Theorems about MemoryManager, for any candidates, owners, slots,        *)
(* conversations, turns and connections.                                   *)
(*                                                                         *)
(* The tables alone say too little: what a transaction has read stays true *)
(* only because of what it has locked.  The invariant therefore says of    *)
(* every transaction that the rows it holds are its own, that the proposal *)
(* it decides is still pending, that the slot it has inserted into is      *)
(* still empty, that the conversation of its turn is there and has no such *)
(* turn, and that what it is deleting is not named by what stays.          *)
(***************************************************************************)
EXTENDS MemoryManager, TLAPS

Deciding(s) == tx[s].at \in {"locked", "inserted", "occupied"}
Proposing(s) == tx[s].at \in {"propose", "proposed"}
Saving(s) == tx[s].at \in {"turn", "proposed"}
Forgetting(s) == tx[s].at \in {"forget", "deleted"}

(* The proposals that the transaction of s has locked or inserted. *)
Locks(s) ==
  {c \in Candidates : \/ Deciding(s) /\ c = tx[s].candidate
                      \/ Proposing(s) /\ c \in DOMAIN tx[s].staged
                      \/ Forgetting(s) /\ c \in tx[s].locked}

Pending(c) == proposals[c] # NoMemory /\ proposals[c].status = "pending_approval"
Committed(c) == proposals[c] # NoMemory /\ proposals[c].status = "committed"

SameKey(b, d) == b.conversation = d.conversation /\ b.run = d.run

(* The fields of a transaction. *)
TxShape(s) ==
  /\ tx[s].at \in {"idle", "propose", "locked", "inserted", "occupied", "turn",
                   "proposed", "forget", "deleted"}
  /\ Deciding(s) => tx[s].candidate \in Candidates
  /\ Proposing(s) =>
       /\ DOMAIN tx[s].staged \subseteq Candidates
       /\ \A c \in DOMAIN tx[s].staged :
            tx[s].staged[c] \in {"conflict", "pending_approval"}
  /\ Saving(s) => tx[s].turn \in Turns
  /\ Forgetting(s) => tx[s].locked \subseteq Candidates

DecisionFits(s) ==
  Deciding(s) => /\ Pending(tx[s].candidate)
                 /\ tx[s].approval \in Approvals
                 /\ tx[s].approval.decision = "approve"
                 /\ MayDecide(tx[s].approval.approver, OwnerOf[tx[s].candidate])

SlotFits(s) ==
  tx[s].at = "inserted" => Occupants(SlotOf[tx[s].candidate]) = {}

TurnFits(s) ==
  Saving(s) => /\ Exists(tx[s].turn.conversation)
               /\ \A d \in turns : ~SameKey(d, tx[s].turn)

(* What stays names nothing that is being deleted. *)
DeletionFits(s) ==
  tx[s].at = "deleted" =>
    /\ \A d \in Candidates \ tx[s].locked :
         Committed(d) => proposals[d].memory \notin tx[s].locked
    /\ \A b \in tx[s].gone : OwnsTurn(tx[s].subject, b.conversation, b.run)

RowsFit(s) == DecisionFits(s) /\ SlotFits(s) /\ DeletionFits(s)
TxFits(s) == RowsFit(s) /\ TurnFits(s)

Apart(s, u) ==
  /\ Locks(s) \cap Locks(u) = {}
  /\ tx[s].at = "inserted" /\ tx[u].at = "inserted" =>
       SlotOf[tx[s].candidate] # SlotOf[tx[u].candidate]
  /\ Saving(s) /\ Saving(u) =>
       tx[s].turn.conversation # tx[u].turn.conversation

TxInv ==
  /\ DOMAIN tx = Connections
  /\ \A s \in Connections : TxShape(s) /\ TxFits(s)
  /\ \A s, u \in Connections : s # u => Apart(s, u)

(* The partial unique index on records. *)
OneOccupant ==
  \A m, n \in Candidates :
    /\ SlotOf[m] = SlotOf[n]
    /\ records[m] \in {"active", "pending_review"}
    /\ records[n] \in {"active", "pending_review"}
    => m = n

RowsInv ==
  /\ proposals \in [Candidates -> {NoMemory} \cup Proposals]
  /\ records \in [Candidates -> {"absent", "active", "pending_review", "invalidated"}]
  /\ RecordsAreApproved
  /\ OneOccupant

ChatsInv ==
  /\ conversations \in [Conversations -> {"absent", "created", "forgotten"}]
  /\ summary \in [Conversations -> Runs \cup {NoMemory}]
  /\ turns \in SUBSET Turns
  /\ turn_digests \in SUBSET Turns
  /\ TurnsAreWhole
  /\ provider = "null" => turns \subseteq turn_digests
  /\ provider = "postgres" => turn_digests = {}

TablesInv ==
  /\ provider \in {"null", "postgres"}
  /\ RowsInv
  /\ ChatsInv
  /\ provider = "null" => tx = [s \in Connections |-> IdleTx]

MemoryInv == TablesInv /\ TxInv

-----------------------------------------------------------------------------
(* Shapes of the values. *)

(* What is stored of a proposal is a row and not the mark of none. *)
LEMMA ProposalShape ==
  /\ \A status \in {"conflict", "pending_approval"} :
       /\ Proposed(status) \in Proposals
       /\ Proposed(status) # NoMemory
       /\ Proposed(status).status = status
  /\ \A approval \in Approvals, m \in Candidates :
       LET p == Decided("committed", approval, m)
       IN /\ p \in Proposals /\ p # NoMemory
          /\ p.status = "committed" /\ p.approval = approval /\ p.memory = m
  /\ \A approval \in Approvals, status \in {"conflict", "rejected"} :
       LET p == Decided(status, approval, NoMemory)
       IN /\ p \in Proposals /\ p # NoMemory
          /\ p.status = status
<1>1. ASSUME NEW status \in {"conflict", "pending_approval"}
      PROVE  /\ Proposed(status) \in Proposals
             /\ Proposed(status).status = status
  BY DEF Proposed, Proposals
<1>2. ASSUME NEW approval \in Approvals, NEW m \in Candidates
      PROVE  LET p == Decided("committed", approval, m)
             IN /\ p \in Proposals
                /\ p.status = "committed" /\ p.approval = approval /\ p.memory = m
  BY DEF Decided, Proposals
<1>3. ASSUME NEW approval \in Approvals, NEW status \in {"conflict", "rejected"}
      PROVE  LET p == Decided(status, approval, NoMemory)
             IN p \in Proposals /\ p.status = status
  BY DEF Decided, Proposals
<1>4. \A p \in Proposals : p # NoMemory
  BY NoMemoryAssumption
<1> QED
  BY <1>1, <1>2, <1>3, <1>4

(* A transaction that has ended holds nothing and claims nothing. *)
LEMMA IdleFits ==
  ASSUME NEW s \in Connections, tx[s] = IdleTx
  PROVE  TxShape(s) /\ TxFits(s) /\ Locks(s) = {}
<1>1. tx[s].at = "idle"
  BY DEF IdleTx
<1> QED
  BY <1>1 DEF TxShape, TxFits, RowsFit, DecisionFits, SlotFits, TurnFits, DeletionFits, Locks,
              Deciding, Proposing, Saving, Forgetting

-----------------------------------------------------------------------------
(* Steps of a transaction that leave the tables alone *)

(* Such a step is sound when what its own transaction now claims is. *)
LEMMA TransactionMoves ==
  ASSUME MemoryInv, NEW s \in Connections,
         provider = "postgres",
         UNCHANGED <<provider, memory_tables>>,
         DOMAIN tx' = Connections,
         \A u \in Connections \ {s} : tx'[u] = tx[u],
         TxShape(s)', TxFits(s)',
         \A u \in Connections \ {s} : Apart(s, u)'
  PROVE  MemoryInv'
<1>1. TablesInv'
  <2>1. RowsInv'
    BY DEF MemoryInv, TablesInv, RowsInv, RecordsAreApproved, OneOccupant, memory_tables
  <2>2. ChatsInv'
    BY DEF MemoryInv, TablesInv, ChatsInv, TurnsAreWhole, Exists, memory_tables, chats
  <2> QED
    BY <2>1, <2>2 DEF MemoryInv, TablesInv
<1>2. ASSUME NEW u \in Connections \ {s}
      PROVE  TxShape(u)' /\ TxFits(u)'
  <2>1. TxShape(u) /\ TxFits(u) /\ tx'[u] = tx[u]
    BY DEF MemoryInv, TxInv
  <2>2. TxShape(u)'
    BY <2>1 DEF TxShape, Deciding, Proposing, Saving, Forgetting
  <2>3. DecisionFits(u)'
    BY <2>1 DEF TxFits, RowsFit, DecisionFits, Deciding, Pending, memory_tables
  <2>4. SlotFits(u)'
    BY <2>1 DEF TxFits, RowsFit, SlotFits, Occupants, memory_tables
  <2>5. TurnFits(u)'
    BY <2>1 DEF TxFits, TurnFits, Saving, Exists, memory_tables, chats
  <2>6. DeletionFits(u)'
    BY <2>1 DEF TxFits, RowsFit, DeletionFits, Committed, memory_tables
  <2> QED
    BY <2>2, <2>3, <2>4, <2>5, <2>6 DEF TxFits, RowsFit
<1>3. ASSUME NEW u \in Connections, NEW w \in Connections, u # w
      PROVE  Apart(u, w)'
  <2>1. CASE u = s
    BY <2>1, <1>3
  <2>2. CASE w = s
    <3>1. Apart(w, u)'
      BY <2>2, <1>3
    <3> QED
      BY <3>1 DEF Apart
  <2>3. CASE u # s /\ w # s
    <3>1. Apart(u, w) /\ tx'[u] = tx[u] /\ tx'[w] = tx[w]
      BY <2>3, <1>3 DEF MemoryInv, TxInv
    <3> QED
      BY <3>1 DEF Apart, Locks, Deciding, Proposing, Saving, Forgetting
  <2> QED
    BY <2>1, <2>2, <2>3
<1> QED
  BY <1>1, <1>2, <1>3 DEF MemoryInv, TxInv

(* A step that ends transactions, or none, is sound when what the others   *)
(* claim remains so. *)
LEMMA TablesMove ==
  ASSUME TxInv, TablesInv',
         DOMAIN tx' = Connections,
         \A u \in Connections : tx'[u] = tx[u] \/ tx'[u] = IdleTx,
         \A u \in Connections : tx'[u] = tx[u] /\ tx'[u] # IdleTx => TxFits(u)'
  PROVE  MemoryInv'
<1>1. ASSUME NEW u \in Connections, tx'[u] = IdleTx
      PROVE  TxShape(u)' /\ TxFits(u)' /\ Locks(u)' = {} /\ tx'[u].at = "idle"
  <2>1. tx'[u].at = "idle"
    BY <1>1 DEF IdleTx
  <2> QED
    BY <2>1 DEF TxShape, TxFits, RowsFit, DecisionFits, SlotFits, TurnFits, DeletionFits, Locks,
                Deciding, Proposing, Saving, Forgetting
<1>2. ASSUME NEW u \in Connections, tx'[u] = tx[u], tx'[u] # IdleTx
      PROVE  TxShape(u)' /\ TxFits(u)' /\ Locks(u)' = Locks(u)
  BY <1>2 DEF TxInv, TxShape, Locks, Deciding, Proposing, Saving, Forgetting
<1>3. ASSUME NEW u \in Connections, NEW w \in Connections, u # w
      PROVE  Apart(u, w)'
  <2>1. CASE tx'[u] = IdleTx \/ tx'[w] = IdleTx
    BY <2>1, <1>1 DEF Apart, Saving
  <2>2. CASE tx'[u] # IdleTx /\ tx'[w] # IdleTx
    BY <2>2, <1>2, <1>3 DEF TxInv, Apart, Saving
  <2> QED
    BY <2>1, <2>2
<1> QED
  BY <1>1, <1>2, <1>3 DEF MemoryInv, TxInv

(* What a statement reads of the proposals it waits for is not locked by   *)
(* another transaction. *)
LEMMA HeldLocks ==
  ASSUME MemoryInv, NEW s \in Connections, NEW cs \in SUBSET Candidates, ~Held(s, cs)
  PROVE  \A u \in Connections \ {s} : Locks(u) \cap cs = {}
BY DEF Held, Locks, Deciding, Proposing, Forgetting

(* A proposal's transaction holds the proposals it stores. *)
LEMMA ProposeFits ==
  ASSUME MemoryInv, NEW s \in Connections, NEW c \in Candidates,
         provider = "postgres", Propose(s, c)
  PROVE  MemoryInv'
<1> DEFINE t == [at |-> "propose", staged |-> [d \in {c} |-> ProposalStatus(d)]]
<1>1. /\ t.at = "propose"
      /\ DOMAIN t.staged = {c}
      /\ \A d \in {c} : t.staged[d] \in {"conflict", "pending_approval"}
  BY DEF ProposalStatus
<1>2. /\ DOMAIN tx' = Connections
      /\ tx'[s] = t
      /\ \A u \in Connections \ {s} : tx'[u] = tx[u]
      /\ UNCHANGED <<provider, memory_tables>>
  BY DEF Propose, TxMoves, MemoryInv, TxInv
<1> HIDE DEF t
<1>3. TxShape(s)' /\ TxFits(s)' /\ Locks(s)' = {c} /\ tx'[s].at = "propose"
  BY <1>1, <1>2 DEF TxShape, TxFits, RowsFit, DecisionFits, SlotFits, TurnFits, DeletionFits, Locks,
                    Deciding, Proposing, Saving, Forgetting
<1>4. \A u \in Connections \ {s} : Apart(s, u)'
  <2>1. \A u \in Connections \ {s} : Locks(u)' = Locks(u)
    BY <1>2 DEF Locks, Deciding, Proposing, Forgetting
  <2>2. \A u \in Connections \ {s} : Locks(u) \cap {c} = {}
    BY HeldLocks DEF Propose
  <2> QED
    BY <1>3, <2>1, <2>2 DEF Apart, Saving
<1> QED
  BY <1>2, <1>3, <1>4, TransactionMoves

(* An approval's transaction holds a proposal that its approver may decide. *)
LEMMA LockProposalFits ==
  ASSUME MemoryInv, NEW s \in Connections, NEW c \in Candidates,
         NEW approval \in Approvals,
         provider = "postgres", LockProposal(s, c, approval)
  PROVE  MemoryInv'
<1> DEFINE t == [at |-> "locked", candidate |-> c, approval |-> approval]
<1>1. t.at = "locked" /\ t.candidate = c /\ t.approval = approval
  OBVIOUS
<1>2. /\ DOMAIN tx' = Connections
      /\ tx'[s] = t
      /\ \A u \in Connections \ {s} : tx'[u] = tx[u]
      /\ UNCHANGED <<provider, memory_tables>>
  BY DEF LockProposal, TxMoves, MemoryInv, TxInv
<1> HIDE DEF t
<1>3. Pending(c) /\ approval.decision = "approve" /\ MayDecide(approval.approver, OwnerOf[c])
  BY DEF LockProposal, Decidable, Pending
<1>4. Pending(c)'
  BY <1>2, <1>3 DEF Pending, memory_tables
<1>5. TxShape(s)' /\ TxFits(s)' /\ Locks(s)' = {c} /\ tx'[s].at = "locked"
  BY <1>1, <1>2, <1>3, <1>4
     DEF TxShape, TxFits, RowsFit, DecisionFits, SlotFits, TurnFits, DeletionFits, Locks,
         Deciding, Proposing, Saving, Forgetting
<1>6. \A u \in Connections \ {s} : Apart(s, u)'
  <2>1. \A u \in Connections \ {s} : Locks(u)' = Locks(u)
    BY <1>2 DEF Locks, Deciding, Proposing, Forgetting
  <2>2. \A u \in Connections \ {s} : Locks(u) \cap {c} = {}
    BY HeldLocks DEF LockProposal
  <2> QED
    BY <1>5, <2>1, <2>2 DEF Apart, Saving
<1> QED
  BY <1>2, <1>5, <1>6, TransactionMoves

(* A record is inserted into a slot that is empty and that nobody fills. *)
LEMMA InsertRecordFits ==
  ASSUME MemoryInv, NEW s \in Connections, provider = "postgres", InsertRecord(s)
  PROVE  MemoryInv'
<1> DEFINE c == tx[s].candidate
           at == IF Occupants(SlotOf[c]) = {} THEN "inserted" ELSE "occupied"
           t == [at |-> at, candidate |-> c, approval |-> tx[s].approval]
<1>1. t.at = at /\ t.candidate = c /\ t.approval = tx[s].approval
  OBVIOUS
<1>2. /\ DOMAIN tx' = Connections
      /\ tx'[s] = t
      /\ \A u \in Connections \ {s} : tx'[u] = tx[u]
      /\ UNCHANGED <<provider, memory_tables>>
  BY DEF InsertRecord, TxMoves, MemoryInv, TxInv
<1> HIDE DEF t
<1>3. /\ tx[s].at = "locked" /\ c \in Candidates
      /\ DecisionFits(s) /\ Deciding(s)
      /\ \A u \in Connections \ {s} : Apart(s, u)
  BY DEF InsertRecord, MemoryInv, TxInv, TxShape, TxFits, RowsFit, Deciding
<1>4. at \in {"inserted", "occupied"}
  OBVIOUS
<1>5. DecisionFits(s)'
  BY <1>1, <1>2, <1>3 DEF DecisionFits, Deciding, Pending, memory_tables
<1>6. SlotFits(s)'
  BY <1>1, <1>2 DEF SlotFits, Occupants, memory_tables
<1>7. TxShape(s)' /\ TxFits(s)' /\ Locks(s)' = Locks(s)
  BY <1>1, <1>2, <1>3, <1>4, <1>5, <1>6
     DEF TxShape, TxFits, RowsFit, TurnFits, DeletionFits, Locks,
         Deciding, Proposing, Saving, Forgetting
<1>8. \A u \in Connections \ {s} : Apart(s, u)'
  <2> SUFFICES ASSUME NEW u \in Connections \ {s}
               PROVE  Apart(s, u)'
    OBVIOUS
  <2>1. Locks(u)' = Locks(u)
    BY <1>2 DEF Locks, Deciding, Proposing, Forgetting
  <2>2. tx[u].at = "inserted" => SlotOf[tx[u].candidate] # SlotOf[c]
    BY DEF InsertRecord, SlotAwaited
  <2>3. ~Saving(s)'
    BY <1>1, <1>2, <1>4 DEF Saving
  <2> QED
    BY <1>1, <1>2, <1>3, <1>7, <2>1, <2>2, <2>3 DEF Apart
<1> QED
  BY <1>2, <1>7, <1>8, TransactionMoves

(* A turn's transaction has its conversation to itself. *)
LEMMA LockTurnFits ==
  ASSUME MemoryInv, NEW s \in Connections, NEW b \in Turns,
         provider = "postgres", LockTurn(s, b)
  PROVE  MemoryInv'
<1> DEFINE t == [at |-> "turn", turn |-> b]
<1>1. t.at = "turn" /\ t.turn = b
  OBVIOUS
<1>2. /\ DOMAIN tx' = Connections
      /\ tx'[s] = t
      /\ \A u \in Connections \ {s} : tx'[u] = tx[u]
      /\ UNCHANGED <<provider, memory_tables>>
  BY DEF LockTurn, TxMoves, MemoryInv, TxInv
<1> HIDE DEF t
<1>3. TurnFits(s)'
  BY <1>1, <1>2 DEF LockTurn, TurnFits, SameKey, Exists, memory_tables, chats
<1>4. TxShape(s)' /\ TxFits(s)' /\ Locks(s)' = {} /\ tx'[s].at = "turn"
  BY <1>1, <1>2, <1>3
     DEF TxShape, TxFits, RowsFit, DecisionFits, SlotFits, DeletionFits, Locks,
         Deciding, Proposing, Saving, Forgetting
<1>5. \A u \in Connections \ {s} : Apart(s, u)'
  <2> SUFFICES ASSUME NEW u \in Connections \ {s}, Saving(u)
               PROVE  tx[u].turn.conversation # b.conversation
    BY <1>1, <1>2, <1>4 DEF Apart, Saving
  <2> QED
    BY DEF LockTurn, Locked, Saving
<1> QED
  BY <1>2, <1>4, <1>5, TransactionMoves

(* A turn's transaction then holds the proposals of the turn. *)
LEMMA ProposeInTurnFits ==
  ASSUME MemoryInv, NEW s \in Connections, provider = "postgres", ProposeInTurn(s)
  PROVE  MemoryInv'
<1> DEFINE b == tx[s].turn
           t == [at |-> "proposed", turn |-> b,
                 staged |-> [c \in b.proposals |-> ProposalStatus(c)]]
<1>1. /\ t.at = "proposed" /\ t.turn = b
      /\ DOMAIN t.staged = b.proposals
      /\ \A d \in b.proposals : t.staged[d] \in {"conflict", "pending_approval"}
  BY DEF ProposalStatus
<1>2. /\ DOMAIN tx' = Connections
      /\ tx'[s] = t
      /\ \A u \in Connections \ {s} : tx'[u] = tx[u]
      /\ UNCHANGED <<provider, memory_tables>>
  BY DEF ProposeInTurn, TxMoves, MemoryInv, TxInv
<1> HIDE DEF t
<1>3. /\ Saving(s) /\ b \in Turns /\ b.proposals \subseteq Candidates
      /\ TurnFits(s)
      /\ \A u \in Connections \ {s} : Apart(s, u)
  BY TurnAssumption DEF ProposeInTurn, MemoryInv, TxInv, TxShape, TxFits, Saving
<1>4. TurnFits(s)'
  BY <1>1, <1>2, <1>3 DEF TurnFits, Saving, SameKey, Exists, memory_tables, chats
<1>5. TxShape(s)' /\ TxFits(s)' /\ Locks(s)' = b.proposals /\ tx'[s].at = "proposed"
  BY <1>1, <1>2, <1>3, <1>4
     DEF TxShape, TxFits, RowsFit, DecisionFits, SlotFits, DeletionFits, Locks,
         Deciding, Proposing, Saving, Forgetting
<1>6. \A u \in Connections \ {s} : Apart(s, u)'
  <2>1. \A u \in Connections \ {s} : Locks(u)' = Locks(u)
    BY <1>2 DEF Locks, Deciding, Proposing, Forgetting
  <2>2. \A u \in Connections \ {s} : Locks(u) \cap b.proposals = {}
    BY <1>3, HeldLocks DEF ProposeInTurn
  <2> QED
    BY <1>1, <1>2, <1>3, <1>5, <2>1, <2>2 DEF Apart, Saving
<1> QED
  BY <1>2, <1>5, <1>6, TransactionMoves

(* A forget holds the proposals of its subject that it has seen. *)
LEMMA ForgetLocksFits ==
  ASSUME MemoryInv, NEW s \in Connections, NEW subject \in Subjects,
         provider = "postgres", ForgetLocks(s, subject)
  PROVE  MemoryInv'
<1> DEFINE mine == {c \in Candidates : proposals[c] # NoMemory
                                       /\ Owns(subject, OwnerOf[c])}
           t == [at |-> "forget", subject |-> subject, locked |-> mine]
<1>1. t.at = "forget" /\ t.locked = mine
  OBVIOUS
<1>2. /\ DOMAIN tx' = Connections
      /\ tx'[s] = t
      /\ \A u \in Connections \ {s} : tx'[u] = tx[u]
      /\ UNCHANGED <<provider, memory_tables>>
      /\ ~Held(s, mine)
  BY DEF ForgetLocks, TxMoves, MemoryInv, TxInv
<1> HIDE DEF t
<1>3. mine \in SUBSET Candidates
  OBVIOUS
<1> HIDE DEF mine
<1>4. TxShape(s)' /\ TxFits(s)' /\ Locks(s)' = mine /\ tx'[s].at = "forget"
  BY <1>1, <1>2, <1>3
     DEF TxShape, TxFits, RowsFit, DecisionFits, SlotFits, TurnFits, DeletionFits, Locks,
         Deciding, Proposing, Saving, Forgetting
<1>5. \A u \in Connections \ {s} : Apart(s, u)'
  <2>1. \A u \in Connections \ {s} : Locks(u)' = Locks(u)
    BY <1>2 DEF Locks, Deciding, Proposing, Forgetting
  <2>2. \A u \in Connections \ {s} : Locks(u) \cap mine = {}
    BY <1>2, <1>3, HeldLocks
  <2> QED
    BY <1>4, <2>1, <2>2 DEF Apart, Saving
<1> QED
  BY <1>2, <1>4, <1>5, TransactionMoves

(* A committed proposal and the record it names have one owner. *)
LEMMA CommittedOwner ==
  ASSUME MemoryInv, NEW c \in Candidates, Committed(c)
  PROVE  /\ proposals[c].memory \in Candidates
         /\ SlotOf[proposals[c].memory] = SlotOf[c]
         /\ OwnerOf[proposals[c].memory] = OwnerOf[c]
<1>1. SlotOf[proposals[c].memory] = SlotOf[c] /\ proposals[c].memory # NoMemory
  BY DEF MemoryInv, TablesInv, RowsInv, RecordsAreApproved, Committed
<1>2. proposals[c].memory \in Candidates
  BY <1>1 DEF MemoryInv, TablesInv, RowsInv, Proposals, Committed
<1> QED
  BY <1>1, <1>2, SlotAssumption

(* What a forget deletes is named by nothing that stays: a committed       *)
(* proposal of the same slot is the same owner's and deleted with it. *)
LEMMA ForgetDeletesFits ==
  ASSUME MemoryInv, NEW s \in Connections, provider = "postgres", ForgetDeletes(s)
  PROVE  MemoryInv'
<1> DEFINE subject == tx[s].subject
           mine == {c \in Candidates : proposals[c] # NoMemory
                                       /\ Owns(subject, OwnerOf[c])}
           gone == {b \in turns : OwnsTurn(subject, b.conversation, b.run)}
           t == [at |-> "deleted", subject |-> subject, locked |-> mine, gone |-> gone]
<1>1. t.at = "deleted" /\ t.subject = subject /\ t.locked = mine /\ t.gone = gone
  OBVIOUS
<1>2. /\ DOMAIN tx' = Connections
      /\ tx'[s] = t
      /\ \A u \in Connections \ {s} : tx'[u] = tx[u]
      /\ UNCHANGED <<provider, memory_tables>>
      /\ ~Held(s, mine)
  BY DEF ForgetDeletes, TxMoves, MemoryInv, TxInv
<1> HIDE DEF t
<1>3. /\ mine \in SUBSET Candidates
      /\ \A b \in gone : OwnsTurn(subject, b.conversation, b.run)
  OBVIOUS
<1>4. \A d \in Candidates \ mine : Committed(d) => proposals[d].memory \notin mine
  BY CommittedOwner DEF Committed
<1> HIDE DEF mine, gone
<1>5. DeletionFits(s)'
  <2>1. \A d \in Candidates : Committed(d)' = Committed(d) /\ proposals'[d] = proposals[d]
    BY <1>2 DEF Committed, memory_tables
  <2> QED
    BY <1>1, <1>2, <1>3, <1>4, <2>1 DEF DeletionFits, OwnsTurn
<1>6. TxShape(s)' /\ TxFits(s)' /\ Locks(s)' = mine /\ tx'[s].at = "deleted"
  BY <1>1, <1>2, <1>3, <1>5
     DEF TxShape, TxFits, RowsFit, DecisionFits, SlotFits, TurnFits, Locks,
         Deciding, Proposing, Saving, Forgetting
<1>7. \A u \in Connections \ {s} : Apart(s, u)'
  <2>1. \A u \in Connections \ {s} : Locks(u)' = Locks(u)
    BY <1>2 DEF Locks, Deciding, Proposing, Forgetting
  <2>2. \A u \in Connections \ {s} : Locks(u) \cap mine = {}
    BY <1>2, <1>3, HeldLocks
  <2> QED
    BY <1>6, <2>1, <2>2 DEF Apart, Saving
<1> QED
  BY <1>2, <1>6, <1>7, TransactionMoves

(* A transaction that is rolled back leaves nothing behind. *)
LEMMA AbortFits ==
  ASSUME MemoryInv, NEW s \in Connections, provider = "postgres", Abort(s)
  PROVE  MemoryInv'
<1>1. /\ DOMAIN tx' = Connections
      /\ tx'[s] = IdleTx
      /\ \A u \in Connections \ {s} : tx'[u] = tx[u]
      /\ UNCHANGED <<provider, memory_tables>>
  BY DEF Abort, TxEnds, MemoryInv, TxInv
<1>2. tx'[s].at = "idle"
  BY <1>1 DEF IdleTx
<1>3. TxShape(s)' /\ TxFits(s)' /\ Locks(s)' = {}
  BY <1>2 DEF TxShape, TxFits, RowsFit, DecisionFits, SlotFits, TurnFits, DeletionFits, Locks,
              Deciding, Proposing, Saving, Forgetting
<1>4. \A u \in Connections \ {s} : Apart(s, u)'
  BY <1>2, <1>3 DEF Apart, Saving
<1> QED
  BY <1>1, <1>3, <1>4, TransactionMoves

-----------------------------------------------------------------------------
(* Effects on proposals and records *)

Occupies(m) == records[m] \in {"active", "pending_review"}

(* A proposal that is not decided yet has created no record. *)
LEMMA UndecidedHasNone ==
  ASSUME MemoryInv, NEW c \in Candidates, proposals[c] = NoMemory \/ Pending(c)
  PROVE  records[c] = "absent"
BY DEF MemoryInv, TablesInv, RowsInv, RecordsAreApproved, Pending

(* Steps that leave proposals and records alone keep what is said of them. *)
LEMMA RowsSame ==
  ASSUME MemoryInv, UNCHANGED <<proposals, records>>
  PROVE  /\ RowsInv'
         /\ \A u \in Connections : tx'[u] = tx[u] => RowsFit(u)'
<1>1. RowsInv'
  BY DEF MemoryInv, TablesInv, RowsInv, RecordsAreApproved, OneOccupant
<1>2. ASSUME NEW u \in Connections, tx'[u] = tx[u]
      PROVE  RowsFit(u)'
  <2>1. RowsFit(u)
    BY DEF MemoryInv, TxInv, TxFits
  <2> QED
    BY <1>2, <2>1 DEF RowsFit, DecisionFits, SlotFits, DeletionFits, Deciding, Pending,
                      Committed, Occupants
<1> QED
  BY <1>1, <1>2

(* Storing proposals that were unknown decides nothing. *)
LEMMA RowsInserted ==
  ASSUME MemoryInv, NEW statuses, DOMAIN statuses \subseteq Candidates,
         \A c \in DOMAIN statuses : statuses[c] \in {"conflict", "pending_approval"},
         proposals' = Insert(statuses), UNCHANGED records
  PROVE  /\ RowsInv'
         /\ \A u \in Connections : tx'[u] = tx[u] => RowsFit(u)'
<1>1. ASSUME NEW c \in Candidates
      PROVE  \/ proposals'[c] = proposals[c]
             \/ /\ proposals[c] = NoMemory
                /\ proposals'[c] \in Proposals
                /\ proposals'[c].status \in {"conflict", "pending_approval"}
  BY ProposalShape DEF Insert
<1>2. /\ proposals' \in [Candidates -> {NoMemory} \cup Proposals]
      /\ \A c \in Candidates : Committed(c)' = Committed(c)
      /\ \A c \in Candidates : Committed(c) => proposals'[c] = proposals[c]
      /\ \A c \in Candidates : Pending(c) => proposals'[c] = proposals[c]
  <2>1. DOMAIN proposals' = Candidates /\ proposals' = [c \in Candidates |-> proposals'[c]]
    BY DEF Insert
  <2>2. proposals' \in [Candidates -> {NoMemory} \cup Proposals]
    BY <1>1, <2>1 DEF MemoryInv, TablesInv, RowsInv
  <2> QED
    BY <1>1, <2>2 DEF Committed, Pending
<1>3. RowsInv'
  <2>1. RecordsAreApproved'
    <3> SUFFICES ASSUME NEW c \in Candidates
                 PROVE  /\ records[c] # "absent" => Committed(c)' /\ proposals'[c] = proposals[c]
                        /\ Committed(c)' => Committed(c) /\ proposals'[c] = proposals[c]
      BY DEF MemoryInv, TablesInv, RowsInv, RecordsAreApproved, Committed
    <3> QED
      BY <1>2, UndecidedHasNone DEF MemoryInv, TablesInv, RowsInv, RecordsAreApproved, Committed
  <2>2. OneOccupant'
    BY DEF MemoryInv, TablesInv, RowsInv, OneOccupant
  <2> QED
    BY <1>2, <2>1, <2>2 DEF MemoryInv, TablesInv, RowsInv
<1>4. ASSUME NEW u \in Connections, tx'[u] = tx[u]
      PROVE  RowsFit(u)'
  <2>1. RowsFit(u) /\ TxShape(u)
    BY DEF MemoryInv, TxInv, TxFits
  <2>2. DecisionFits(u)'
    BY <1>2, <1>4, <2>1 DEF RowsFit, DecisionFits, Deciding, Pending, TxShape
  <2>3. SlotFits(u)'
    BY <1>4, <2>1 DEF RowsFit, SlotFits, Occupants
  <2>4. DeletionFits(u)'
    BY <1>2, <1>4, <2>1 DEF RowsFit, DeletionFits
  <2> QED
    BY <2>2, <2>3, <2>4 DEF RowsFit
<1> QED
  BY <1>3, <1>4

(* Records change between their states, and none comes or goes. *)
LEMMA RecordsRelabelled ==
  ASSUME MemoryInv, UNCHANGED proposals,
         records' \in [Candidates -> {"absent", "active", "pending_review", "invalidated"}],
         \A m \in Candidates : /\ records'[m] = "absent" <=> records[m] = "absent"
                               /\ Occupies(m)' => Occupies(m)
  PROVE  /\ RowsInv'
         /\ \A u \in Connections : tx'[u] = tx[u] => RowsFit(u)'
<1>1. RecordsAreApproved'
  <2> SUFFICES ASSUME NEW c \in Candidates
               PROVE  Committed(c) => /\ proposals[c].memory \in Candidates
                                      /\ records'[proposals[c].memory] # "absent"
    BY DEF MemoryInv, TablesInv, RowsInv, RecordsAreApproved, Committed
  <2> QED
    BY CommittedOwner DEF MemoryInv, TablesInv, RowsInv, RecordsAreApproved, Committed
<1>2. OneOccupant'
  BY DEF MemoryInv, TablesInv, RowsInv, OneOccupant, Occupies
<1>3. ASSUME NEW u \in Connections, tx'[u] = tx[u]
      PROVE  RowsFit(u)'
  <2>1. RowsFit(u)
    BY DEF MemoryInv, TxInv, TxFits
  <2> QED
    BY <1>3, <2>1 DEF RowsFit, DecisionFits, SlotFits, DeletionFits, Deciding, Pending,
                      Committed, Occupants, Occupies
<1> QED
  BY <1>1, <1>2, <1>3 DEF MemoryInv, TablesInv, RowsInv

(* Refusing a pending proposal, which nobody else holds. *)
LEMMA RowsRefused ==
  ASSUME MemoryInv, NEW c \in Candidates, Pending(c), NEW approval \in Approvals,
         NEW status \in {"conflict", "rejected"},
         proposals' = [proposals EXCEPT ![c] = Decided(status, approval, NoMemory)],
         UNCHANGED records
  PROVE  /\ RowsInv'
         /\ \A u \in Connections : tx'[u] = tx[u] /\ c \notin Locks(u) => RowsFit(u)'
<1> DEFINE p == Decided(status, approval, NoMemory)
<1>1. /\ p \in Proposals /\ p # NoMemory /\ p.status = status
      /\ proposals \in [Candidates -> {NoMemory} \cup Proposals]
  BY ProposalShape DEF MemoryInv, TablesInv, RowsInv
<1> HIDE DEF p
<1>2. /\ proposals' \in [Candidates -> {NoMemory} \cup Proposals]
      /\ proposals'[c] = p
      /\ \A d \in Candidates \ {c} : proposals'[d] = proposals[d]
  BY <1>1 DEF p
<1>3. ~Committed(c)' /\ ~Committed(c) /\ records[c] = "absent"
  BY <1>1, <1>2, UndecidedHasNone DEF Committed, Pending
<1>4. RecordsAreApproved'
  <2> SUFFICES ASSUME NEW d \in Candidates
               PROVE  /\ records[d] # "absent" => d # c
                      /\ Committed(d)' => d # c
    BY <1>2 DEF MemoryInv, TablesInv, RowsInv, RecordsAreApproved, Committed
  <2> QED
    BY <1>3
<1>5. OneOccupant'
  BY DEF MemoryInv, TablesInv, RowsInv, OneOccupant
<1>6. ASSUME NEW u \in Connections, tx'[u] = tx[u], c \notin Locks(u)
      PROVE  RowsFit(u)'
  <2>1. RowsFit(u) /\ TxShape(u)
    BY DEF MemoryInv, TxInv, TxFits
  <2>2. DecisionFits(u)'
    BY <1>2, <1>6, <2>1 DEF RowsFit, DecisionFits, Deciding, Pending, TxShape, Locks
  <2>3. SlotFits(u)'
    BY <1>6, <2>1 DEF RowsFit, SlotFits, Occupants
  <2>4. DeletionFits(u)'
    BY <1>2, <1>3, <1>6, <2>1 DEF RowsFit, DeletionFits, Committed
  <2> QED
    BY <2>2, <2>3, <2>4 DEF RowsFit
<1> QED
  BY <1>2, <1>4, <1>5, <1>6 DEF MemoryInv, TablesInv, RowsInv

(* Approving a pending proposal into an empty slot, which nobody else has  *)
(* inserted into. *)
LEMMA RowsFilled ==
  ASSUME MemoryInv, NEW c \in Candidates, Pending(c), NEW approval \in Approvals,
         approval.decision = "approve", MayDecide(approval.approver, OwnerOf[c]),
         Occupants(SlotOf[c]) = {},
         proposals' = [proposals EXCEPT ![c] = Decided("committed", approval, c)],
         records' = [records EXCEPT ![c] = "active"]
  PROVE  /\ RowsInv'
         /\ \A u \in Connections :
              /\ tx'[u] = tx[u] /\ c \notin Locks(u)
              /\ tx[u].at = "inserted" => SlotOf[tx[u].candidate] # SlotOf[c]
              => RowsFit(u)'
<1> DEFINE p == Decided("committed", approval, c)
<1>1. /\ p \in Proposals /\ p # NoMemory
      /\ p.status = "committed" /\ p.approval = approval /\ p.memory = c
      /\ proposals \in [Candidates -> {NoMemory} \cup Proposals]
      /\ records \in [Candidates -> {"absent", "active", "pending_review", "invalidated"}]
  BY ProposalShape DEF MemoryInv, TablesInv, RowsInv
<1> HIDE DEF p
<1>2. /\ proposals' \in [Candidates -> {NoMemory} \cup Proposals]
      /\ proposals'[c] = p
      /\ \A d \in Candidates \ {c} : proposals'[d] = proposals[d]
      /\ records' \in [Candidates -> {"absent", "active", "pending_review", "invalidated"}]
      /\ records'[c] = "active"
      /\ \A d \in Candidates \ {c} : records'[d] = records[d]
  BY <1>1 DEF p
<1>3. RecordsAreApproved'
  <2> SUFFICES ASSUME NEW d \in Candidates, d # c
               PROVE  /\ records[d] # "absent" => Committed(d)
                      /\ Committed(d) => records'[proposals[d].memory] # "absent"
    BY <1>1, <1>2, NoMemoryAssumption
       DEF MemoryInv, TablesInv, RowsInv, RecordsAreApproved, Committed
  <2>1. Committed(d) => proposals[d].memory \in Candidates /\ records[proposals[d].memory] # "absent"
    BY CommittedOwner DEF MemoryInv, TablesInv, RowsInv, RecordsAreApproved, Committed
  <2> QED
    BY <1>2, <2>1 DEF MemoryInv, TablesInv, RowsInv, RecordsAreApproved, Committed
<1>4. OneOccupant'
  BY <1>2 DEF MemoryInv, TablesInv, RowsInv, OneOccupant, Occupants
<1>5. ASSUME NEW u \in Connections, tx'[u] = tx[u], c \notin Locks(u),
             tx[u].at = "inserted" => SlotOf[tx[u].candidate] # SlotOf[c]
      PROVE  RowsFit(u)'
  <2>1. RowsFit(u) /\ TxShape(u)
    BY DEF MemoryInv, TxInv, TxFits
  <2>2. DecisionFits(u)'
    BY <1>2, <1>5, <2>1 DEF RowsFit, DecisionFits, Deciding, Pending, TxShape, Locks
  <2>3. SlotFits(u)'
    BY <1>2, <1>5, <2>1 DEF RowsFit, SlotFits, Occupants
  <2>4. DeletionFits(u)'
    BY <1>1, <1>2, <1>5, <2>1
       DEF RowsFit, DeletionFits, Committed, Locks, Forgetting, TxShape
  <2> QED
    BY <2>2, <2>3, <2>4 DEF RowsFit
<1> QED
  BY <1>2, <1>3, <1>4, <1>5 DEF MemoryInv, TablesInv, RowsInv

(* Approving a pending proposal whose content the slot holds already, and  *)
(* which nobody is deleting. *)
LEMMA RowsJoined ==
  ASSUME MemoryInv, NEW c \in Candidates, Pending(c), NEW approval \in Approvals,
         NEW m \in Occupants(SlotOf[c]), ContentOf[m] = ContentOf[c],
         proposals' = [proposals EXCEPT ![c] = Decided("committed", approval, m)],
         UNCHANGED records
  PROVE  /\ RowsInv'
         /\ \A u \in Connections :
              /\ tx'[u] = tx[u] /\ c \notin Locks(u)
              /\ tx[u].at = "deleted" => m \notin tx[u].locked
              => RowsFit(u)'
<1> DEFINE p == Decided("committed", approval, m)
<1>1. m \in Candidates /\ SlotOf[m] = SlotOf[c] /\ records[m] # "absent"
  BY DEF Occupants
<1>2. /\ p \in Proposals /\ p # NoMemory
      /\ p.status = "committed" /\ p.approval = approval /\ p.memory = m
      /\ proposals \in [Candidates -> {NoMemory} \cup Proposals]
  BY <1>1, ProposalShape DEF MemoryInv, TablesInv, RowsInv
<1> HIDE DEF p
<1>3. /\ proposals' \in [Candidates -> {NoMemory} \cup Proposals]
      /\ proposals'[c] = p
      /\ \A d \in Candidates \ {c} : proposals'[d] = proposals[d]
  BY <1>2 DEF p
<1>4. records[c] = "absent"
  BY UndecidedHasNone
<1>5. m # NoMemory
  BY <1>1, NoMemoryAssumption
<1>6. RecordsAreApproved'
  BY <1>1, <1>2, <1>3, <1>4, <1>5
     DEF MemoryInv, TablesInv, RowsInv, RecordsAreApproved, Committed
<1>7. OneOccupant'
  BY DEF MemoryInv, TablesInv, RowsInv, OneOccupant
<1>8. ASSUME NEW u \in Connections, tx'[u] = tx[u], c \notin Locks(u),
             tx[u].at = "deleted" => m \notin tx[u].locked
      PROVE  RowsFit(u)'
  <2>1. RowsFit(u) /\ TxShape(u)
    BY DEF MemoryInv, TxInv, TxFits
  <2>2. DecisionFits(u)'
    BY <1>3, <1>8, <2>1 DEF RowsFit, DecisionFits, Deciding, Pending, TxShape, Locks
  <2>3. SlotFits(u)'
    BY <1>8, <2>1 DEF RowsFit, SlotFits, Occupants
  <2>4. DeletionFits(u)'
    BY <1>2, <1>3, <1>8, <2>1 DEF RowsFit, DeletionFits, Committed
  <2> QED
    BY <2>2, <2>3, <2>4 DEF RowsFit
<1> QED
  BY <1>3, <1>6, <1>7, <1>8 DEF MemoryInv, TablesInv, RowsInv

(* Deleting records with their proposals, which nobody else holds, and     *)
(* with every committed proposal that names one of them. *)
LEMMA RowsGone ==
  ASSUME MemoryInv, NEW gone \in SUBSET Candidates,
         \A d \in Candidates \ gone : Committed(d) => proposals[d].memory \notin gone,
         proposals' = [c \in Candidates |-> IF c \in gone THEN NoMemory ELSE proposals[c]],
         records' = [c \in Candidates |-> IF c \in gone THEN "absent" ELSE records[c]]
  PROVE  /\ RowsInv'
         /\ \A u \in Connections :
              tx'[u] = tx[u] /\ Locks(u) \cap gone = {} => RowsFit(u)'
<1>1. /\ proposals' \in [Candidates -> {NoMemory} \cup Proposals]
      /\ records' \in [Candidates -> {"absent", "active", "pending_review", "invalidated"}]
      /\ \A d \in Candidates : Committed(d)' <=> Committed(d) /\ d \notin gone
  BY DEF MemoryInv, TablesInv, RowsInv, Committed
<1>2. RecordsAreApproved'
  <2> SUFFICES ASSUME NEW d \in Candidates \ gone
               PROVE  /\ records[d] # "absent" => Committed(d)
                      /\ Committed(d) => records'[proposals[d].memory] # "absent"
    BY DEF MemoryInv, TablesInv, RowsInv, RecordsAreApproved, Committed
  <2>1. Committed(d) => proposals[d].memory \in Candidates /\ records[proposals[d].memory] # "absent"
    BY CommittedOwner DEF MemoryInv, TablesInv, RowsInv, RecordsAreApproved, Committed
  <2> QED
    BY <2>1 DEF MemoryInv, TablesInv, RowsInv, RecordsAreApproved, Committed
<1>3. OneOccupant'
  BY DEF MemoryInv, TablesInv, RowsInv, OneOccupant
<1>4. ASSUME NEW u \in Connections, tx'[u] = tx[u], Locks(u) \cap gone = {}
      PROVE  RowsFit(u)'
  <2>1. RowsFit(u) /\ TxShape(u)
    BY DEF MemoryInv, TxInv, TxFits
  <2>2. DecisionFits(u)'
    BY <1>4, <2>1 DEF RowsFit, DecisionFits, Deciding, Pending, TxShape, Locks
  <2>3. SlotFits(u)'
    BY <1>4, <2>1 DEF RowsFit, SlotFits, Occupants
  <2>4. DeletionFits(u)'
    BY <1>1, <1>4, <2>1 DEF RowsFit, DeletionFits
  <2> QED
    BY <2>2, <2>3, <2>4 DEF RowsFit
<1> QED
  BY <1>1, <1>2, <1>3, <1>4 DEF MemoryInv, TablesInv, RowsInv

-----------------------------------------------------------------------------
(* Effects on conversations and turns *)

(* Steps that leave conversations alone keep what is said of them. *)
LEMMA ChatsSame ==
  ASSUME MemoryInv, UNCHANGED <<provider, chats>>
  PROVE  /\ ChatsInv'
         /\ \A u \in Connections : tx'[u] = tx[u] => TurnFits(u)'
<1>1. ChatsInv'
  BY DEF MemoryInv, TablesInv, ChatsInv, TurnsAreWhole, Exists, chats
<1>2. ASSUME NEW u \in Connections, tx'[u] = tx[u]
      PROVE  TurnFits(u)'
  <2>1. TurnFits(u)
    BY DEF MemoryInv, TxInv, TxFits
  <2> QED
    BY <1>2, <2>1 DEF TurnFits, Saving, Exists, chats
<1> QED
  BY <1>1, <1>2

(* A turn of a conversation that exists and has no such turn is stored     *)
(* whole, and other transactions save other conversations. *)
LEMMA ChatsSaved ==
  ASSUME MemoryInv, NEW b \in Turns, Exists(b.conversation),
         \A d \in turns : ~SameKey(d, b),
         turns' = turns \cup {b},
         summary' = [summary EXCEPT ![b.conversation] = b.run],
         UNCHANGED <<provider, conversations>>,
         turn_digests' \in SUBSET Turns,
         provider = "null" => turns' \subseteq turn_digests',
         provider = "postgres" => turn_digests' = {}
  PROVE  /\ ChatsInv'
         /\ \A u \in Connections :
              /\ tx'[u] = tx[u]
              /\ Saving(u) => tx[u].turn.conversation # b.conversation
              => TurnFits(u)'
<1>1. /\ b.conversation \in Conversations /\ b.run \in Runs
      /\ summary \in [Conversations -> Runs \cup {NoMemory}]
      /\ turns \in SUBSET Turns
  BY TurnAssumption DEF Runs, MemoryInv, TablesInv, ChatsInv
<1>2. /\ summary' \in [Conversations -> Runs \cup {NoMemory}]
      /\ summary'[b.conversation] = b.run
      /\ \A v \in Conversations \ {b.conversation} : summary'[v] = summary[v]
  BY <1>1
<1>3. TurnsAreWhole'
  <2>1. \A d \in turns' : Exists(d.conversation)'
    BY DEF Exists, MemoryInv, TablesInv, ChatsInv, TurnsAreWhole
  <2>2. \A d, e \in turns' : SameKey(d, e) => d = e
    BY DEF SameKey, MemoryInv, TablesInv, ChatsInv, TurnsAreWhole
  <2>3. ASSUME NEW v \in Conversations, summary'[v] # NoMemory
        PROVE  \E d \in turns' : d.conversation = v /\ d.run = summary'[v]
    BY <1>2, <2>3 DEF MemoryInv, TablesInv, ChatsInv, TurnsAreWhole
  <2> QED
    BY <2>1, <2>2, <2>3 DEF TurnsAreWhole, SameKey
<1>4. ASSUME NEW u \in Connections, tx'[u] = tx[u],
             Saving(u) => tx[u].turn.conversation # b.conversation
      PROVE  TurnFits(u)'
  <2>1. TurnFits(u)
    BY DEF MemoryInv, TxInv, TxFits
  <2> QED
    BY <1>4, <2>1 DEF TurnFits, Saving, Exists, SameKey
<1> QED
  BY <1>1, <1>2, <1>3, <1>4 DEF MemoryInv, TablesInv, ChatsInv

(* Conversations are forgotten with their turns, and turns with the        *)
(* summaries that came from them, but none whose turn is being saved. *)
LEMMA ChatsGone ==
  ASSUME MemoryInv, NEW dropped \in SUBSET Conversations,
         NEW cleared \in SUBSET Conversations,
         turns' \subseteq {b \in turns : b.conversation \notin dropped},
         \A b \in turns \ turns' : summary[b.conversation] = b.run =>
                                     b.conversation \in dropped \cup cleared,
         conversations' = [v \in Conversations |->
                             IF v \in dropped THEN "forgotten" ELSE conversations[v]],
         summary' = [v \in Conversations |->
                       IF v \in dropped \/ v \in cleared THEN NoMemory ELSE summary[v]],
         UNCHANGED <<provider, turn_digests>>
  PROVE  /\ ChatsInv'
         /\ \A u \in Connections :
              /\ tx'[u] = tx[u]
              /\ Saving(u) => tx[u].turn.conversation \notin dropped
              => TurnFits(u)'
<1>1. /\ conversations' \in [Conversations -> {"absent", "created", "forgotten"}]
      /\ summary' \in [Conversations -> Runs \cup {NoMemory}]
      /\ turns' \in SUBSET Turns
      /\ turns \in SUBSET Turns
  BY DEF MemoryInv, TablesInv, ChatsInv
<1>2. \A v \in Conversations \ dropped : Exists(v) => Exists(v)'
  BY DEF Exists
<1>3. TurnsAreWhole'
  <2>1. \A d \in turns' : Exists(d.conversation)'
    BY <1>1, <1>2, TurnAssumption DEF MemoryInv, TablesInv, ChatsInv, TurnsAreWhole
  <2>2. \A d, e \in turns' : SameKey(d, e) => d = e
    BY DEF SameKey, MemoryInv, TablesInv, ChatsInv, TurnsAreWhole
  <2>3. ASSUME NEW v \in Conversations, summary'[v] # NoMemory
        PROVE  \E d \in turns' : d.conversation = v /\ d.run = summary'[v]
    <3>1. summary'[v] = summary[v] /\ v \notin dropped \cup cleared
      BY <2>3
    <3>2. PICK d \in turns : d.conversation = v /\ d.run = summary[v]
      BY <2>3, <3>1 DEF MemoryInv, TablesInv, ChatsInv, TurnsAreWhole
    <3> QED
      BY <3>1, <3>2
  <2> QED
    BY <2>1, <2>2, <2>3 DEF TurnsAreWhole, SameKey
<1>4. ASSUME NEW u \in Connections, tx'[u] = tx[u],
             Saving(u) => tx[u].turn.conversation \notin dropped
      PROVE  TurnFits(u)'
  <2>1. TurnFits(u) /\ TxShape(u)
    BY DEF MemoryInv, TxInv, TxFits
  <2>2. Saving(u) => tx[u].turn.conversation \in Conversations
    BY <2>1, TurnAssumption DEF TxShape
  <2> QED
    BY <1>2, <1>4, <2>1, <2>2 DEF TurnFits, Saving, SameKey
<1> QED
  BY <1>1, <1>3, <1>4 DEF MemoryInv, TablesInv, ChatsInv

-----------------------------------------------------------------------------
(* Steps that change the tables *)

(* A step is sound when its effects on rows and on conversations are, for  *)
(* every transaction that goes on. *)
LEMMA EffectsMove ==
  ASSUME MemoryInv, UNCHANGED provider, RowsInv', ChatsInv',
         DOMAIN tx' = Connections,
         \A u \in Connections : tx'[u] = tx[u] \/ tx'[u] = IdleTx,
         provider = "null" => UNCHANGED tx,
         \A u \in Connections : tx'[u] = tx[u] /\ tx'[u] # IdleTx =>
                                  RowsFit(u)' /\ TurnFits(u)'
  PROVE  MemoryInv'
<1>1. TablesInv'
  BY DEF MemoryInv, TablesInv
<1> QED
  BY <1>1, TablesMove DEF MemoryInv, TxFits

(* The transaction that ends is s; the others go on. *)
LEMMA EndingShape ==
  ASSUME MemoryInv, NEW s \in Connections, TxEnds(s)
  PROVE  /\ DOMAIN tx' = Connections
         /\ tx'[s] = IdleTx
         /\ \A u \in Connections : tx'[u] = tx[u] \/ tx'[u] = IdleTx
         /\ \A u \in Connections \ {s} : tx'[u] = tx[u]
BY DEF TxEnds, MemoryInv, TxInv

(* The null provider has no transactions. *)
LEMMA NullIsIdle ==
  ASSUME MemoryInv, provider = "null", UNCHANGED tx
  PROVE  /\ DOMAIN tx' = Connections
         /\ \A u \in Connections : tx'[u] = IdleTx
BY DEF MemoryInv, TablesInv, TxInv

(* CreateConversation keeps the invariant. *)
LEMMA CreateFits ==
  ASSUME MemoryInv, NEW v \in Conversations, CreateConversation(v)
  PROVE  MemoryInv'
<1>1. /\ conversations' \in [Conversations -> {"absent", "created", "forgotten"}]
      /\ \A w \in Conversations : Exists(w) => Exists(w)'
  BY DEF CreateConversation, Exists, MemoryInv, TablesInv, ChatsInv
<1>2. UNCHANGED <<provider, summary, turns, turn_digests, proposals, records, tx>>
  BY DEF CreateConversation
<1>3. ChatsInv'
  BY <1>1, <1>2, TurnAssumption DEF MemoryInv, TablesInv, ChatsInv, TurnsAreWhole
<1>4. \A u \in Connections : TurnFits(u)'
  <2> SUFFICES ASSUME NEW u \in Connections
               PROVE  TurnFits(u)'
    OBVIOUS
  <2>1. TurnFits(u) /\ TxShape(u)
    BY DEF MemoryInv, TxInv, TxFits
  <2>2. Saving(u) => tx[u].turn.conversation \in Conversations
    BY <2>1, TurnAssumption DEF TxShape
  <2> QED
    BY <1>1, <1>2, <2>1, <2>2 DEF TurnFits, Saving, SameKey
<1>5. RowsInv' /\ \A u \in Connections : RowsFit(u)'
  BY <1>2, RowsSame
<1>6. DOMAIN tx' = Connections
  BY <1>2 DEF MemoryInv, TxInv
<1> QED
  BY <1>2, <1>3, <1>4, <1>5, <1>6, EffectsMove

(* Recall and invalidate keep the invariant. *)
LEMMA RelabelFits ==
  ASSUME MemoryInv,
         \/ \E owners \in SUBSET {OwnerOf[c] : c \in Candidates},
               version \in Versions \cup {NoMemory} : Recall(owners, version)
         \/ \E approver \in Approvers, ids \in SUBSET Candidates :
               Invalidate(approver, ids)
  PROVE  MemoryInv'
<1>1. /\ UNCHANGED <<provider, chats, proposals, tx>>
      /\ records' \in [Candidates -> {"absent", "active", "pending_review", "invalidated"}]
      /\ \A m \in Candidates : /\ records'[m] = "absent" <=> records[m] = "absent"
                               /\ Occupies(m)' => Occupies(m)
  BY DEF Recall, Drifts, Invalidate, Occupies, MemoryInv, TablesInv, RowsInv
<1>2. DOMAIN tx' = Connections
  BY <1>1 DEF MemoryInv, TxInv
<1>3. RowsInv' /\ \A u \in Connections : RowsFit(u)'
  BY <1>1, RecordsRelabelled
<1>4. ChatsInv' /\ \A u \in Connections : TurnFits(u)'
  BY <1>1, ChatsSame
<1> QED
  BY <1>1, <1>2, <1>3, <1>4, EffectsMove

(* Settling a proposal fills its slot, joins what the slot holds or is     *)
(* refused by it. *)
LEMMA SettleOutcomes ==
  ASSUME NEW c \in Candidates, NEW approval \in Approvals, Settle(c, approval)
  PROVE  \/ /\ Occupants(SlotOf[c]) = {}
            /\ proposals' = [proposals EXCEPT ![c] = Decided("committed", approval, c)]
            /\ records' = [records EXCEPT ![c] = "active"]
         \/ /\ UNCHANGED records
            /\ \E m \in Occupants(SlotOf[c]) :
                 /\ ContentOf[m] = ContentOf[c]
                 /\ proposals' =
                      [proposals EXCEPT ![c] = Decided("committed", approval, m)]
         \/ /\ UNCHANGED records
            /\ proposals' =
                 [proposals EXCEPT ![c] = Decided("conflict", approval, NoMemory)]
<1> DEFINE others == Occupants(SlotOf[c])
           memory == IF others = {} THEN c ELSE CHOOSE m \in others : TRUE
<1>1. /\ proposals' = [proposals EXCEPT
                         ![c] = IF Agrees(c, memory)
                                THEN Decided("committed", approval, memory)
                                ELSE Decided("conflict", approval, NoMemory)]
      /\ records' = IF others = {} THEN [records EXCEPT ![c] = "active"] ELSE records
  BY DEF Settle
<1>2. CASE others = {}
  BY <1>1, <1>2 DEF Agrees
<1>3. CASE others # {}
  <2>1. memory \in others
    BY <1>3
  <2> HIDE DEF memory
  <2>2. CASE Agrees(c, memory)
    BY <1>1, <1>3, <2>1, <2>2 DEF Agrees
  <2>3. CASE ~Agrees(c, memory)
    BY <1>1, <1>3, <2>3
  <2> QED
    BY <2>2, <2>3
<1> QED
  BY <1>2, <1>3

(* Every call of the null provider keeps the invariant: propose ... *)
LEMMA LocalProposeFits ==
  ASSUME MemoryInv, provider = "null", NEW c \in Candidates,
         LocalPropose(c), UNCHANGED <<provider, tx>>
  PROVE  MemoryInv'
<1> DEFINE statuses == [d \in {c} |-> ProposalStatus(d)]
<1>1. /\ DOMAIN statuses \subseteq Candidates
      /\ \A d \in DOMAIN statuses : statuses[d] \in {"conflict", "pending_approval"}
  BY DEF ProposalStatus
<1>2. proposals' = Insert(statuses) /\ UNCHANGED <<chats, records>>
  BY DEF LocalPropose
<1> HIDE DEF statuses
<1>3. RowsInv'
  BY <1>1, <1>2, RowsInserted
<1> QED
  BY <1>2, <1>3, ChatsSame, NullIsIdle, EffectsMove

(* ... commit ... *)
LEMMA LocalCommitFits ==
  ASSUME MemoryInv, provider = "null", NEW c \in Candidates, NEW approval \in Approvals,
         LocalCommit(c, approval), UNCHANGED <<provider, tx>>
  PROVE  MemoryInv'
<1>1. Pending(c) /\ MayDecide(approval.approver, OwnerOf[c]) /\ UNCHANGED chats
  BY DEF LocalCommit, Decidable, Pending
<1>2. approval.decision \in {"approve", "reject"}
  BY DEF Approvals
<1>3. RowsInv'
  <2>1. CASE approval.decision = "reject"
    BY <1>1, <2>1, RowsRefused DEF LocalCommit, Reject
  <2>2. CASE approval.decision = "approve"
    <3>1. Settle(c, approval)
      BY <2>2 DEF LocalCommit
    <3> QED
      BY <1>1, <2>2, <3>1, SettleOutcomes, RowsFilled, RowsJoined, RowsRefused
  <2> QED
    BY <1>2, <2>1, <2>2
<1> QED
  BY <1>1, <1>3, ChatsSame, NullIsIdle, EffectsMove

(* ... save_turn ... *)
LEMMA LocalSaveTurnFits ==
  ASSUME MemoryInv, provider = "null", NEW b \in Turns,
         LocalSaveTurn(b), UNCHANGED <<provider, tx>>
  PROVE  MemoryInv'
<1> DEFINE statuses == [d \in b.proposals |-> ProposalStatus(d)]
<1>1. /\ DOMAIN statuses \subseteq Candidates
      /\ \A d \in DOMAIN statuses : statuses[d] \in {"conflict", "pending_approval"}
  BY TurnAssumption DEF ProposalStatus
<1>2. /\ proposals' = Insert(statuses)
      /\ UNCHANGED <<conversations, records>>
      /\ Exists(b.conversation)
      /\ turns' = turns \cup {b}
      /\ summary' = [summary EXCEPT ![b.conversation] = b.run]
      /\ turn_digests' = turn_digests \cup {b}
      /\ \A d \in turn_digests : ~SameKey(d, b)
  BY DEF LocalSaveTurn, SameKey
<1> HIDE DEF statuses
<1>3. RowsInv'
  BY <1>1, <1>2, RowsInserted
<1>4. /\ turns \subseteq turn_digests
      /\ turn_digests \in SUBSET Turns
      /\ provider # "postgres"
  BY DEF MemoryInv, TablesInv, ChatsInv
<1>5. ChatsInv'
  BY <1>2, <1>4, ChatsSaved
<1> QED
  BY <1>3, <1>5, NullIsIdle, EffectsMove

(* ... and forget. *)
LEMMA LocalForgetFits ==
  ASSUME MemoryInv, provider = "null", NEW subject \in Subjects,
         LocalForget(subject), UNCHANGED <<provider, tx>>
  PROVE  MemoryInv'
<1> DEFINE gone == {c \in Candidates : Owns(subject, OwnerOf[c])}
           dropped == {v \in Conversations : OwnsConversation(subject, v) /\ Exists(v)}
           cleared == {v \in Conversations : OwnsConversation(subject, v)
                                             \/ ForgetsSummary(subject, v)}
<1>1. /\ proposals' = [c \in Candidates |-> IF c \in gone THEN NoMemory ELSE proposals[c]]
      /\ records' = [c \in Candidates |-> IF c \in gone THEN "absent" ELSE records[c]]
      /\ turns' = {b \in turns : ~OwnsTurn(subject, b.conversation, b.run)}
      /\ UNCHANGED turn_digests
      /\ conversations' = [v \in Conversations |->
                             IF v \in dropped THEN "forgotten" ELSE conversations[v]]
      /\ summary' = [v \in Conversations |->
                       IF v \in dropped \/ v \in cleared THEN NoMemory ELSE summary[v]]
  BY DEF LocalForget
<1>2. \A d \in Candidates \ gone : Committed(d) => proposals[d].memory \notin gone
  BY CommittedOwner
<1>3. \A b \in turns : ~OwnsTurn(subject, b.conversation, b.run) =>
                         b.conversation \notin dropped
  BY DEF OwnsTurn, OwnsConversation
<1>4. \A b \in turns \ turns' : summary[b.conversation] = b.run =>
                                  b.conversation \in dropped \cup cleared
  <2> SUFFICES ASSUME NEW b \in turns, OwnsTurn(subject, b.conversation, b.run),
                      summary[b.conversation] = b.run
               PROVE  b.conversation \in cleared
    BY <1>1
  <2>1. b.conversation \in Conversations
    BY TurnAssumption DEF MemoryInv, TablesInv, ChatsInv
  <2> QED
    BY <2>1 DEF OwnsTurn, OwnsConversation, ForgetsSummary
<1> HIDE DEF gone, dropped, cleared
<1>5. gone \in SUBSET Candidates /\ dropped \in SUBSET Conversations
      /\ cleared \in SUBSET Conversations
  BY DEF gone, dropped, cleared
<1>6. RowsInv'
  BY <1>1, <1>2, <1>5, RowsGone
<1>7. turns' \subseteq {b \in turns : b.conversation \notin dropped}
  BY <1>1, <1>3
<1>8. ChatsInv'
  BY <1>1, <1>4, <1>5, <1>7, ChatsGone
<1> QED
  BY <1>6, <1>8, NullIsIdle, EffectsMove

(* What a transaction holds is not held by the others. *)
LEMMA HoldsAlone ==
  ASSUME MemoryInv, NEW s \in Connections, NEW c \in Locks(s)
  PROVE  \A u \in Connections \ {s} : c \notin Locks(u)
BY DEF MemoryInv, TxInv, Apart

(* PostgreSQL: the proposal is stored ... *)
LEMMA ProposeCommitsFits ==
  ASSUME MemoryInv, NEW s \in Connections, ProposeCommits(s), provider = "postgres"
  PROVE  MemoryInv'
<1> DEFINE statuses == tx[s].staged
<1>1. /\ DOMAIN statuses \subseteq Candidates
      /\ \A d \in DOMAIN statuses : statuses[d] \in {"conflict", "pending_approval"}
  BY DEF ProposeCommits, MemoryInv, TxInv, TxShape, Proposing
<1>2. /\ proposals' = Insert(statuses)
      /\ UNCHANGED <<provider, chats, records>>
      /\ TxEnds(s)
  BY DEF ProposeCommits
<1> HIDE DEF statuses
<1>3. RowsInv' /\ \A u \in Connections : tx'[u] = tx[u] => RowsFit(u)'
  BY <1>1, <1>2, RowsInserted
<1>4. ChatsInv' /\ \A u \in Connections : tx'[u] = tx[u] => TurnFits(u)'
  BY <1>2, ChatsSame
<1> QED
  BY <1>2, <1>3, <1>4, EndingShape, EffectsMove

(* ... rejected ... *)
LEMMA RejectProposalFits ==
  ASSUME MemoryInv, NEW s \in Connections, NEW c \in Candidates, NEW approval \in Approvals,
         RejectProposal(s, c, approval), provider = "postgres"
  PROVE  MemoryInv'
<1>1. /\ Pending(c)
      /\ proposals' = [proposals EXCEPT ![c] = Decided("rejected", approval, NoMemory)]
      /\ UNCHANGED <<provider, chats, records, tx>>
  BY DEF RejectProposal, Reject, Decidable, Pending
<1>2. \A u \in Connections : c \notin Locks(u)
  <2>1. \A u \in Connections \ {s} : c \notin Locks(u)
    BY HeldLocks DEF RejectProposal
  <2>2. Locks(s) = {}
    BY IdleFits DEF RejectProposal
  <2> QED
    BY <2>1, <2>2
<1>3. RowsInv' /\ \A u \in Connections : RowsFit(u)'
  BY <1>1, <1>2, RowsRefused
<1>4. ChatsInv' /\ \A u \in Connections : TurnFits(u)'
  BY <1>1, ChatsSame
<1>5. DOMAIN tx' = Connections
  BY <1>1 DEF MemoryInv, TxInv
<1> QED
  BY <1>1, <1>3, <1>4, <1>5, EffectsMove

(* ... approved, with a record of its own ... *)
LEMMA CommitRecordFits ==
  ASSUME MemoryInv, NEW s \in Connections, CommitRecord(s), provider = "postgres"
  PROVE  MemoryInv'
<1> DEFINE c == tx[s].candidate
           approval == tx[s].approval
<1>1. /\ tx[s].at = "inserted"
      /\ proposals' = [proposals EXCEPT ![c] = Decided("committed", approval, c)]
      /\ records' = [records EXCEPT ![c] = "active"]
      /\ UNCHANGED <<provider, chats>>
      /\ TxEnds(s)
  BY DEF CommitRecord
<1>2. /\ c \in Candidates /\ c \in Locks(s)
      /\ Pending(c) /\ approval \in Approvals
      /\ approval.decision = "approve" /\ MayDecide(approval.approver, OwnerOf[c])
      /\ Occupants(SlotOf[c]) = {}
  BY <1>1 DEF MemoryInv, TxInv, TxShape, TxFits, RowsFit, DecisionFits, SlotFits, Deciding, Locks
<1>3. \A u \in Connections \ {s} :
        tx[u].at = "inserted" => SlotOf[tx[u].candidate] # SlotOf[c]
  BY <1>1 DEF MemoryInv, TxInv, Apart
<1> HIDE DEF c, approval
<1>4. /\ RowsInv'
      /\ \A u \in Connections \ {s} : tx'[u] = tx[u] => RowsFit(u)'
  BY <1>1, <1>2, <1>3, HoldsAlone, RowsFilled
<1>5. ChatsInv' /\ \A u \in Connections : tx'[u] = tx[u] => TurnFits(u)'
  BY <1>1, ChatsSame
<1> QED
  BY <1>1, <1>4, <1>5, EndingShape, EffectsMove

(* ... approved or refused by what its slot holds ... *)
LEMMA ResolveSlotFits ==
  ASSUME MemoryInv, NEW s \in Connections, ResolveSlot(s), provider = "postgres"
  PROVE  MemoryInv'
<1> DEFINE c == tx[s].candidate
           approval == tx[s].approval
<1>1. /\ tx[s].at = "occupied"
      /\ SlotAwaited(s)
      /\ Occupants(SlotOf[c]) # {}
      /\ Settle(c, approval)
      /\ UNCHANGED <<provider, chats>>
      /\ TxEnds(s)
  BY DEF ResolveSlot
<1>2. c \in Candidates /\ c \in Locks(s) /\ Pending(c) /\ approval \in Approvals
  BY <1>1 DEF MemoryInv, TxInv, TxShape, TxFits, RowsFit, DecisionFits, Deciding, Locks
<1>3. \A u \in Connections \ {s}, m \in Occupants(SlotOf[c]) :
        tx[u].at = "deleted" => m \notin tx[u].locked
  BY <1>1 DEF SlotAwaited, Occupants
<1> HIDE DEF c, approval
<1>4. \A u \in Connections \ {s} : c \notin Locks(u)
  BY <1>2, HoldsAlone
<1>5. /\ RowsInv'
      /\ \A u \in Connections \ {s} : tx'[u] = tx[u] => RowsFit(u)'
  <2>1. CASE /\ UNCHANGED records
             /\ \E m \in Occupants(SlotOf[c]) :
                  /\ ContentOf[m] = ContentOf[c]
                  /\ proposals' = [proposals EXCEPT ![c] = Decided("committed", approval, m)]
    BY <1>2, <1>3, <1>4, <2>1, RowsJoined
  <2>2. CASE /\ UNCHANGED records
             /\ proposals' = [proposals EXCEPT ![c] = Decided("conflict", approval, NoMemory)]
    BY <1>2, <1>4, <2>2, RowsRefused
  <2> QED
    BY <1>1, <1>2, <2>1, <2>2, SettleOutcomes
<1>6. ChatsInv' /\ \A u \in Connections : tx'[u] = tx[u] => TurnFits(u)'
  BY <1>1, ChatsSame
<1> QED
  BY <1>1, <1>5, <1>6, EndingShape, EffectsMove

(* ... saved with its turn ... *)
LEMMA CommitTurnFits ==
  ASSUME MemoryInv, NEW s \in Connections, CommitTurn(s), provider = "postgres"
  PROVE  MemoryInv'
<1> DEFINE statuses == tx[s].staged
           b == tx[s].turn
<1>1. /\ DOMAIN statuses \subseteq Candidates
      /\ \A d \in DOMAIN statuses : statuses[d] \in {"conflict", "pending_approval"}
      /\ b \in Turns /\ Exists(b.conversation)
      /\ \A d \in turns : ~SameKey(d, b)
      /\ \A u \in Connections \ {s} : Saving(u) => tx[u].turn.conversation # b.conversation
  BY DEF CommitTurn, MemoryInv, TxInv, TxShape, TxFits, TurnFits, Apart, Proposing, Saving
<1>2. /\ proposals' = Insert(statuses)
      /\ turns' = turns \cup {b}
      /\ summary' = [summary EXCEPT ![b.conversation] = b.run]
      /\ UNCHANGED <<provider, conversations, turn_digests, records>>
      /\ TxEnds(s)
  BY DEF CommitTurn
<1> HIDE DEF statuses, b
<1>3. RowsInv' /\ \A u \in Connections : tx'[u] = tx[u] => RowsFit(u)'
  BY <1>1, <1>2, RowsInserted
<1>4. /\ turn_digests' \in SUBSET Turns
      /\ turn_digests' = {}
      /\ provider # "null"
  BY <1>2 DEF MemoryInv, TablesInv, ChatsInv
<1>5. /\ ChatsInv'
      /\ \A u \in Connections \ {s} : tx'[u] = tx[u] => TurnFits(u)'
  BY <1>1, <1>2, <1>4, ChatsSaved
<1> QED
  BY <1>2, <1>3, <1>5, EndingShape, EffectsMove

(* ... or deleted: what forget removes is held by no other transaction and *)
(* named by no proposal that stays, and no turn is being saved to what it   *)
(* drops. *)
LEMMA ForgetCommitsFits ==
  ASSUME MemoryInv, NEW s \in Connections, ForgetCommits(s), provider = "postgres"
  PROVE  MemoryInv'
<1> DEFINE subject == tx[s].subject
           dropped == {v \in Conversations : Exists(v) /\ OwnsConversation(subject, v)}
           cleared == {v \in Conversations : ForgetsSummary(subject, v)}
           gone == tx[s].locked \cup {c \in Candidates :
                                        /\ OwnerOf[c].conversation \in dropped
                                        /\ proposals[c] # NoMemory}
<1>1. /\ tx[s].at = "deleted"
      /\ \A v \in dropped : ~Locked(s, v)
      /\ ~Held(s, gone)
      /\ proposals' = [c \in Candidates |-> IF c \in gone THEN NoMemory ELSE proposals[c]]
      /\ records' = [c \in Candidates |-> IF c \in gone THEN "absent" ELSE records[c]]
      /\ turns' = {b \in turns \ tx[s].gone : b.conversation \notin dropped}
      /\ UNCHANGED <<provider, turn_digests>>
      /\ conversations' = [v \in Conversations |->
                             IF v \in dropped THEN "forgotten" ELSE conversations[v]]
      /\ summary' = [v \in Conversations |->
                       IF v \in dropped \/ v \in cleared THEN NoMemory ELSE summary[v]]
      /\ TxEnds(s)
  BY DEF ForgetCommits
<1>2. /\ tx[s].locked \in SUBSET Candidates
      /\ DeletionFits(s)
      /\ turns \subseteq Turns
  BY <1>1 DEF MemoryInv, TxInv, TxShape, TxFits, RowsFit, Forgetting, TablesInv, ChatsInv
<1>3. gone \in SUBSET Candidates /\ dropped \in SUBSET Conversations
      /\ cleared \in SUBSET Conversations
  BY <1>2
<1>4. \A d \in Candidates \ gone : Committed(d) => proposals[d].memory \notin gone
  BY <1>1, <1>2, CommittedOwner DEF DeletionFits, Committed
<1>5. \A b \in turns \ turns' : summary[b.conversation] = b.run =>
                                  b.conversation \in dropped \cup cleared
  <2> SUFFICES ASSUME NEW b \in turns, b \in tx[s].gone, summary[b.conversation] = b.run
               PROVE  b.conversation \in dropped \cup cleared
    BY <1>1
  <2>1. OwnsTurn(subject, b.conversation, b.run)
    BY <1>1, <1>2 DEF DeletionFits
  <2>2. b.conversation \in Conversations /\ Exists(b.conversation)
    BY <1>2, TurnAssumption DEF MemoryInv, TablesInv, ChatsInv, TurnsAreWhole
  <2> QED
    BY <2>1, <2>2 DEF OwnsTurn, OwnsConversation, ForgetsSummary
<1>6. \A u \in Connections \ {s} : Saving(u) => tx[u].turn.conversation \notin dropped
  BY <1>1 DEF Locked, Saving
<1> HIDE DEF gone, dropped, cleared
<1>7. /\ RowsInv'
      /\ \A u \in Connections \ {s} : tx'[u] = tx[u] => RowsFit(u)'
  BY <1>1, <1>3, <1>4, HeldLocks, RowsGone
<1>8. turns' \subseteq {b \in turns : b.conversation \notin dropped}
  BY <1>1
<1>9. /\ ChatsInv'
      /\ \A u \in Connections \ {s} : tx'[u] = tx[u] => TurnFits(u)'
  BY <1>1, <1>3, <1>5, <1>6, <1>8, ChatsGone
<1> QED
  BY <1>1, <1>7, <1>9, EndingShape, EffectsMove

-----------------------------------------------------------------------------
(* The invariant *)

(* Every step of a transaction keeps the invariant. *)
LEMMA TransactionFits ==
  ASSUME MemoryInv, NEW s \in Connections, Transaction(s)
  PROVE  MemoryInv'
BY ProposeFits, LockProposalFits, RejectProposalFits, LockTurnFits, ForgetLocksFits,
   ProposeCommitsFits, InsertRecordFits, CommitRecordFits, ResolveSlotFits,
   ProposeInTurnFits, CommitTurnFits, ForgetDeletesFits, ForgetCommitsFits, AbortFits
   DEF Transaction

(* However the transactions of the connections overlap, what each of them  *)
(* has read and waits to write stays true (propose, commit, save_turn,     *)
(* forget, recall and invalidate of both providers). *)
THEOREM MemoryInvariant == MemorySpec => []MemoryInv
<1>1. MemoryInit => MemoryInv
  <2> SUFFICES ASSUME MemoryInit
               PROVE  MemoryInv
    OBVIOUS
  <2>1. TablesInv
    BY DEF MemoryInit, TablesInv, RowsInv, ChatsInv, RecordsAreApproved, OneOccupant,
           TurnsAreWhole
  <2>2. \A s \in Connections : tx[s] = IdleTx /\ tx[s].at = "idle"
    BY DEF MemoryInit, IdleTx
  <2> QED
    BY <2>1, <2>2, IdleFits DEF MemoryInit, MemoryInv, TxInv, Apart, Saving
<1>2. MemoryInv /\ [MemoryNext]_memory_vars => MemoryInv'
  <2> SUFFICES ASSUME MemoryInv, [MemoryNext]_memory_vars
               PROVE  MemoryInv'
    OBVIOUS
  <2>1. CASE Statement
    BY <2>1, CreateFits, RelabelFits DEF Statement
  <2>2. CASE LocalCall
    BY <2>2, LocalProposeFits, LocalCommitFits, LocalSaveTurnFits, LocalForgetFits
       DEF LocalCall
  <2>3. CASE \E s \in Connections : Transaction(s)
    BY <2>3, TransactionFits
  <2>4. CASE UNCHANGED memory_vars
    <3>1. UNCHANGED <<provider, chats, proposals, records, tx>>
      BY <2>4 DEF memory_vars, memory_tables
    <3>2. DOMAIN tx' = Connections
      BY <3>1 DEF MemoryInv, TxInv
    <3> QED
      BY <3>1, <3>2, RowsSame, ChatsSame, EffectsMove
  <2> QED
    BY <2>1, <2>2, <2>3, <2>4 DEF MemoryNext
<1> QED
  BY <1>1, <1>2, PTL DEF MemorySpec

(* The tables keep their types. *)
THEOREM MemoryTypesHold == MemorySpec => []MemoryTypeOK
<1>1. MemoryInv => MemoryTypeOK
  BY DEF MemoryInv, TablesInv, RowsInv, ChatsInv, MemoryTypeOK
<1> QED
  BY <1>1, MemoryInvariant, PTL

(* Records are approved, committed proposals name them, and turns and      *)
(* summaries belong together, whatever overlaps with forget. *)
THEOREM MemoryStaysWhole == MemorySpec => []MemoryIsWhole
<1>1. MemoryInv => MemoryIsWhole
  BY DEF MemoryInv, TablesInv, RowsInv, ChatsInv, MemoryIsWhole
<1> QED
  BY <1>1, MemoryInvariant, PTL

-----------------------------------------------------------------------------
(* Refinement: what each effect is to the slots *)

(* Nothing the slots tell apart has changed. *)
LEMMA SlotsStutter ==
  ASSUME Remembered' = Remembered, DecisionOf' = DecisionOf
  PROVE  [Slots!Next]_(Slots!vars)
BY DEF Slots!vars

LEMMA SlotsApprove ==
  ASSUME NEW c \in Candidates, DecisionOf[c] = "open",
         Remembered[SlotOf[c]] \subseteq {ContentOf[c]},
         Remembered' = [Remembered EXCEPT ![SlotOf[c]] = {ContentOf[c]}],
         DecisionOf' = [DecisionOf EXCEPT ![c] = "approved"]
  PROVE  [Slots!Next]_(Slots!vars)
BY DEF Slots!Next, Slots!Approve

LEMMA SlotsRefuse ==
  ASSUME NEW cs \in SUBSET Candidates, \A c \in cs : DecisionOf[c] = "open",
         DecisionOf' = [c \in Candidates |-> IF c \in cs THEN "refused" ELSE DecisionOf[c]],
         Remembered' = Remembered
  PROVE  [Slots!Next]_(Slots!vars)
BY DEF Slots!Next, Slots!Refuse

LEMMA SlotsRelease ==
  ASSUME NEW ss \in SUBSET {SlotOf[c] : c \in Candidates}, NEW cs \in SUBSET Candidates,
         Remembered' = [slot \in {SlotOf[c] : c \in Candidates} |->
                          IF slot \in ss THEN {} ELSE Remembered[slot]],
         DecisionOf' = [c \in Candidates |-> IF c \in cs THEN "open" ELSE DecisionOf[c]]
  PROVE  [Slots!Next]_(Slots!vars)
BY DEF Slots!Next, Slots!Release, Slots!Slots

(* A slot remembers the content of its only occupant. *)
LEMMA OccupiedSlot ==
  ASSUME MemoryInv, NEW c \in Candidates, NEW m \in Occupants(SlotOf[c])
  PROVE  Remembered[SlotOf[c]] = {ContentOf[m]}
<1>1. \A n \in Occupants(SlotOf[c]) : n = m
  BY DEF Occupants, MemoryInv, TablesInv, RowsInv, OneOccupant
<1> QED
  BY <1>1 DEF Remembered

(* Slots that occupants leave are empty, and the others stay as they are. *)
LEMMA SlotsEmptied ==
  ASSUME MemoryInv, \A m \in Candidates : Occupies(m)' => Occupies(m)
  PROVE  \E ss \in SUBSET {SlotOf[c] : c \in Candidates} :
           Remembered' = [slot \in {SlotOf[c] : c \in Candidates} |->
                            IF slot \in ss THEN {} ELSE Remembered[slot]]
<1> DEFINE All == {SlotOf[c] : c \in Candidates}
           ss == {slot \in All : Occupants(slot)' = {}}
<1>1. \A slot \in All : Occupants(slot)' \subseteq Occupants(slot)
  BY DEF Occupants, Occupies
<1>2. ASSUME NEW slot \in All \ ss
      PROVE  Occupants(slot)' = Occupants(slot)
  <2>1. PICK m \in Occupants(slot)' : TRUE
    OBVIOUS
  <2>2. \A n \in Occupants(slot) : n = m
    BY <1>1, <2>1 DEF Occupants, MemoryInv, TablesInv, RowsInv, OneOccupant
  <2> QED
    BY <1>1, <2>1, <2>2
<1>3. \A slot \in All : Remembered'[slot] = IF slot \in ss THEN {} ELSE Remembered[slot]
  BY <1>2 DEF Remembered
<1>4. Remembered' = [slot \in All |-> Remembered'[slot]]
  BY DEF Remembered
<1> QED
  BY <1>3, <1>4

LEMMA SlotsSame ==
  ASSUME \A m \in Candidates : Occupies(m)' <=> Occupies(m)
  PROVE  Remembered' = Remembered
BY DEF Remembered, Occupants, Occupies

(* Storing unknown proposals refuses those in conflict. *)
LEMMA InsertedRefines ==
  ASSUME MemoryInv, NEW statuses, DOMAIN statuses \subseteq Candidates,
         \A c \in DOMAIN statuses : statuses[c] \in {"conflict", "pending_approval"},
         proposals' = Insert(statuses), UNCHANGED records
  PROVE  [Slots!Next]_(Slots!vars)
<1> DEFINE cs == {c \in DOMAIN statuses : proposals[c] = NoMemory
                                          /\ statuses[c] = "conflict"}
<1>1. ASSUME NEW c \in Candidates
      PROVE  DecisionOf'[c] = IF c \in cs THEN "refused" ELSE DecisionOf[c]
  BY ProposalShape DEF DecisionOf, Undecided, Insert
<1>2. \A c \in cs : DecisionOf[c] = "open"
  BY DEF DecisionOf, Undecided
<1>3. Remembered' = Remembered
  BY SlotsSame DEF Occupies
<1>4. DecisionOf' = [c \in Candidates |-> DecisionOf'[c]]
  BY DEF DecisionOf
<1> HIDE DEF cs
<1>5. cs \in SUBSET Candidates
  BY DEF cs
<1> QED
  BY <1>1, <1>2, <1>3, <1>4, <1>5, SlotsRefuse

LEMMA RefusedRefines ==
  ASSUME MemoryInv, NEW c \in Candidates, Pending(c), NEW approval \in Approvals,
         NEW status \in {"conflict", "rejected"},
         proposals' = [proposals EXCEPT ![c] = Decided(status, approval, NoMemory)],
         UNCHANGED records
  PROVE  [Slots!Next]_(Slots!vars)
<1> DEFINE p == Decided(status, approval, NoMemory)
<1>1. p # NoMemory /\ p.status = status /\ DOMAIN proposals = Candidates
  BY ProposalShape DEF MemoryInv, TablesInv, RowsInv
<1> HIDE DEF p
<1>2. proposals'[c] = p /\ \A d \in Candidates \ {c} : proposals'[d] = proposals[d]
  BY <1>1 DEF p
<1>3. \A d \in Candidates :
        DecisionOf'[d] = IF d \in {c} THEN "refused" ELSE DecisionOf[d]
  BY <1>1, <1>2 DEF DecisionOf, Undecided
<1>4. DecisionOf[c] = "open"
  BY DEF DecisionOf, Undecided, Pending
<1>5. Remembered' = Remembered
  BY SlotsSame DEF Occupies
<1>6. DecisionOf' = [d \in Candidates |-> DecisionOf'[d]]
  BY DEF DecisionOf
<1>7. {c} \in SUBSET Candidates
  OBVIOUS
<1> QED
  BY <1>3, <1>4, <1>5, <1>6, <1>7, SlotsRefuse

(* An approval, into an empty slot or one that holds this content. *)
LEMMA ApprovedRefines ==
  ASSUME MemoryInv, NEW c \in Candidates, Pending(c), NEW approval \in Approvals,
         NEW m \in Candidates, ContentOf[m] = ContentOf[c],
         proposals' = [proposals EXCEPT ![c] = Decided("committed", approval, m)],
         \/ /\ Occupants(SlotOf[c]) = {}
            /\ records' = [records EXCEPT ![c] = "active"]
         \/ m \in Occupants(SlotOf[c]) /\ UNCHANGED records
  PROVE  [Slots!Next]_(Slots!vars)
<1> DEFINE p == Decided("committed", approval, m)
<1>1. p # NoMemory /\ p.status = "committed" /\ DOMAIN proposals = Candidates
      /\ DOMAIN records = Candidates
  BY ProposalShape DEF MemoryInv, TablesInv, RowsInv
<1> HIDE DEF p
<1>2. proposals'[c] = p /\ \A d \in Candidates \ {c} : proposals'[d] = proposals[d]
  BY <1>1 DEF p
<1>3. \A d \in Candidates :
        DecisionOf'[d] = IF d = c THEN "approved" ELSE DecisionOf[d]
  BY <1>1, <1>2 DEF DecisionOf, Undecided
<1>4. DecisionOf[c] = "open"
  BY DEF DecisionOf, Undecided, Pending
<1>5. /\ Remembered[SlotOf[c]] \subseteq {ContentOf[c]}
      /\ Remembered' = [Remembered EXCEPT ![SlotOf[c]] = {ContentOf[c]}]
  <2>1. CASE m \in Occupants(SlotOf[c]) /\ UNCHANGED records
    <3>1. Remembered[SlotOf[c]] = {ContentOf[c]}
      BY <2>1, OccupiedSlot
    <3>2. Remembered' = Remembered
      BY <2>1, SlotsSame DEF Occupies
    <3> QED
      BY <3>1, <3>2 DEF Remembered
  <2>2. CASE /\ Occupants(SlotOf[c]) = {}
             /\ records' = [records EXCEPT ![c] = "active"]
    <3> DEFINE All == {SlotOf[d] : d \in Candidates}
    <3>1. \A slot \in All : Occupants(slot)' = IF slot = SlotOf[c] THEN {c} ELSE Occupants(slot)
      BY <1>1, <2>2 DEF Occupants
    <3>2. \A slot \in All : Remembered'[slot] = IF slot = SlotOf[c] THEN {ContentOf[c]}
                                                ELSE Remembered[slot]
      BY <3>1 DEF Remembered
    <3>3. Remembered[SlotOf[c]] = {}
      BY <2>2 DEF Remembered
    <3>4. /\ Remembered' = [slot \in All |-> Remembered'[slot]]
          /\ DOMAIN Remembered = All
      BY DEF Remembered
    <3> QED
      BY <3>2, <3>3, <3>4
  <2> QED
    BY <2>1, <2>2
<1>6. DecisionOf' = [d \in Candidates |-> DecisionOf'[d]] /\ DOMAIN DecisionOf = Candidates
  BY DEF DecisionOf
<1>7. DecisionOf' = [DecisionOf EXCEPT ![c] = "approved"]
  BY <1>3, <1>6
<1> QED
  BY <1>4, <1>5, <1>7, SlotsApprove

(* Forgotten rows release their slots and can be proposed anew. *)
LEMMA GoneRefines ==
  ASSUME MemoryInv, NEW gone \in SUBSET Candidates,
         proposals' = [c \in Candidates |-> IF c \in gone THEN NoMemory ELSE proposals[c]],
         records' = [c \in Candidates |-> IF c \in gone THEN "absent" ELSE records[c]]
  PROVE  [Slots!Next]_(Slots!vars)
<1>1. DecisionOf' = [c \in Candidates |-> IF c \in gone THEN "open" ELSE DecisionOf[c]]
  BY DEF DecisionOf, Undecided
<1>2. \A m \in Candidates : Occupies(m)' => Occupies(m)
  BY DEF Occupies
<1> QED
  BY <1>1, <1>2, SlotsEmptied, SlotsRelease

LEMMA SettledRefines ==
  ASSUME MemoryInv, NEW c \in Candidates, Pending(c), NEW approval \in Approvals,
         Settle(c, approval)
  PROVE  [Slots!Next]_(Slots!vars)
<1>1. CASE /\ Occupants(SlotOf[c]) = {}
           /\ proposals' = [proposals EXCEPT ![c] = Decided("committed", approval, c)]
           /\ records' = [records EXCEPT ![c] = "active"]
  BY <1>1, ApprovedRefines
<1>2. ASSUME UNCHANGED records,
             NEW m \in Occupants(SlotOf[c]), ContentOf[m] = ContentOf[c],
             proposals' = [proposals EXCEPT ![c] = Decided("committed", approval, m)]
      PROVE  [Slots!Next]_(Slots!vars)
  <2>1. m \in Candidates
    BY DEF Occupants
  <2> QED
    BY <1>2, <2>1, ApprovedRefines
<1>3. CASE /\ UNCHANGED records
           /\ proposals' = [proposals EXCEPT ![c] = Decided("conflict", approval, NoMemory)]
  BY <1>3, RefusedRefines
<1> QED
  BY <1>1, <1>2, <1>3, SettleOutcomes

LEMMA SameRefines ==
  ASSUME UNCHANGED <<proposals, records>>
  PROVE  [Slots!Next]_(Slots!vars)
<1>1. DecisionOf' = DecisionOf
  BY DEF DecisionOf, Undecided
<1>2. Remembered' = Remembered
  BY SlotsSame DEF Occupies
<1> QED
  BY <1>1, <1>2, SlotsStutter

(* A statement releases the slots of what it invalidates, or stutters. *)
LEMMA StatementRefines ==
  ASSUME MemoryInv, Statement
  PROVE  [Slots!Next]_(Slots!vars)
<1>1. CASE \E v \in Conversations : CreateConversation(v)
  BY <1>1, SameRefines DEF CreateConversation
<1>2. CASE UNCHANGED proposals /\ \A m \in Candidates : Occupies(m)' => Occupies(m)
  <2>1. DecisionOf' = [c \in Candidates |-> IF c \in {} THEN "open" ELSE DecisionOf[c]]
    BY <1>2 DEF DecisionOf, Undecided
  <2> QED
    BY <1>2, <2>1, SlotsEmptied, SlotsRelease
<1>3. ASSUME NEW owners, NEW version, Recall(owners, version)
      PROVE  UNCHANGED proposals /\ \A m \in Candidates : Occupies(m)' => Occupies(m)
  BY <1>3 DEF Recall, Drifts, Occupies
<1>4. ASSUME NEW approver, NEW ids, Invalidate(approver, ids)
      PROVE  UNCHANGED proposals /\ \A m \in Candidates : Occupies(m)' => Occupies(m)
  BY <1>4 DEF Invalidate, Occupies
<1> QED
  BY <1>1, <1>2, <1>3, <1>4 DEF Statement

LEMMA LocalCallRefines ==
  ASSUME MemoryInv, LocalCall
  PROVE  [Slots!Next]_(Slots!vars)
<1>1. ASSUME NEW c \in Candidates, LocalPropose(c)
      PROVE  [Slots!Next]_(Slots!vars)
  <2> DEFINE statuses == [d \in {c} |-> ProposalStatus(d)]
  <2>1. /\ DOMAIN statuses \subseteq Candidates
        /\ \A d \in DOMAIN statuses : statuses[d] \in {"conflict", "pending_approval"}
    BY DEF ProposalStatus
  <2>2. proposals' = Insert(statuses) /\ UNCHANGED records
    BY <1>1 DEF LocalPropose
  <2> HIDE DEF statuses
  <2> QED
    BY <2>1, <2>2, InsertedRefines
<1>2. ASSUME NEW c \in Candidates, NEW approval \in Approvals, LocalCommit(c, approval)
      PROVE  [Slots!Next]_(Slots!vars)
  <2>1. Pending(c)
    BY <1>2 DEF LocalCommit, Decidable, Pending
  <2> QED
    BY <1>2, <2>1, SettledRefines, RefusedRefines DEF LocalCommit, Reject
<1>3. ASSUME NEW b \in Turns, LocalSaveTurn(b)
      PROVE  [Slots!Next]_(Slots!vars)
  <2> DEFINE statuses == [d \in b.proposals |-> ProposalStatus(d)]
  <2>1. /\ DOMAIN statuses \subseteq Candidates
        /\ \A d \in DOMAIN statuses : statuses[d] \in {"conflict", "pending_approval"}
    BY TurnAssumption DEF ProposalStatus
  <2>2. proposals' = Insert(statuses) /\ UNCHANGED records
    BY <1>3 DEF LocalSaveTurn
  <2> HIDE DEF statuses
  <2> QED
    BY <2>1, <2>2, InsertedRefines
<1>4. ASSUME NEW subject \in Subjects, LocalForget(subject)
      PROVE  [Slots!Next]_(Slots!vars)
  <2> DEFINE gone == {c \in Candidates : Owns(subject, OwnerOf[c])}
  <2>1. /\ gone \in SUBSET Candidates
        /\ proposals' = [c \in Candidates |-> IF c \in gone THEN NoMemory ELSE proposals[c]]
        /\ records' = [c \in Candidates |-> IF c \in gone THEN "absent" ELSE records[c]]
    BY <1>4 DEF LocalForget
  <2> HIDE DEF gone
  <2> QED
    BY <2>1, GoneRefines
<1> QED
  BY <1>1, <1>2, <1>3, <1>4 DEF LocalCall

(* A transaction is seen by the slots when it commits. *)
LEMMA TransactionRefines ==
  ASSUME MemoryInv, NEW s \in Connections, Transaction(s)
  PROVE  [Slots!Next]_(Slots!vars)
<1>1. CASE ProposeCommits(s) \/ CommitTurn(s)
  <2> DEFINE statuses == tx[s].staged
  <2>1. /\ DOMAIN statuses \subseteq Candidates
        /\ \A d \in DOMAIN statuses : statuses[d] \in {"conflict", "pending_approval"}
    BY <1>1 DEF ProposeCommits, CommitTurn, MemoryInv, TxInv, TxShape, Proposing
  <2>2. proposals' = Insert(statuses) /\ UNCHANGED records
    BY <1>1 DEF ProposeCommits, CommitTurn
  <2> HIDE DEF statuses
  <2> QED
    BY <2>1, <2>2, InsertedRefines
<1>2. ASSUME NEW c \in Candidates, NEW approval \in Approvals, RejectProposal(s, c, approval)
      PROVE  [Slots!Next]_(Slots!vars)
  BY <1>2, RefusedRefines DEF RejectProposal, Reject, Decidable, Pending
<1>3. CASE CommitRecord(s) \/ ResolveSlot(s)
  <2> DEFINE c == tx[s].candidate
             approval == tx[s].approval
  <2>1. /\ Deciding(s) /\ c \in Candidates /\ Pending(c) /\ approval \in Approvals
        /\ SlotFits(s)
    BY <1>3 DEF CommitRecord, ResolveSlot, MemoryInv, TxInv, TxShape, TxFits, RowsFit,
                DecisionFits, Deciding
  <2>2. CASE CommitRecord(s)
    <3>1. /\ Occupants(SlotOf[c]) = {}
          /\ proposals' = [proposals EXCEPT ![c] = Decided("committed", approval, c)]
          /\ records' = [records EXCEPT ![c] = "active"]
      BY <2>1, <2>2 DEF CommitRecord, SlotFits
    <3> HIDE DEF c, approval
    <3> QED
      BY <2>1, <3>1, ApprovedRefines
  <2>3. CASE ResolveSlot(s)
    <3>1. Settle(c, approval)
      BY <2>3 DEF ResolveSlot
    <3> HIDE DEF c, approval
    <3> QED
      BY <2>1, <3>1, SettledRefines
  <2> QED
    BY <1>3, <2>2, <2>3
<1>4. CASE ForgetCommits(s)
  <2> DEFINE dropped == {v \in Conversations : Exists(v)
                                               /\ OwnsConversation(tx[s].subject, v)}
             gone == tx[s].locked \cup {c \in Candidates :
                                          /\ OwnerOf[c].conversation \in dropped
                                          /\ proposals[c] # NoMemory}
  <2>1. gone \in SUBSET Candidates
    BY <1>4 DEF ForgetCommits, MemoryInv, TxInv, TxShape, Forgetting
  <2>2. /\ proposals' = [c \in Candidates |-> IF c \in gone THEN NoMemory ELSE proposals[c]]
        /\ records' = [c \in Candidates |-> IF c \in gone THEN "absent" ELSE records[c]]
    BY <1>4 DEF ForgetCommits
  <2> HIDE DEF gone
  <2> QED
    BY <2>1, <2>2, GoneRefines
<1>5. CASE UNCHANGED memory_tables
  BY <1>5, SameRefines DEF memory_tables
<1>6. /\ \A c \in Candidates : Propose(s, c) => UNCHANGED memory_tables
      /\ \A c \in Candidates, approval \in Approvals :
           LockProposal(s, c, approval) => UNCHANGED memory_tables
      /\ \A b \in Turns : LockTurn(s, b) => UNCHANGED memory_tables
      /\ \A subject \in Subjects : ForgetLocks(s, subject) => UNCHANGED memory_tables
      /\ InsertRecord(s) \/ ProposeInTurn(s) \/ ForgetDeletes(s) \/ Abort(s) =>
           UNCHANGED memory_tables
  BY DEF Propose, LockProposal, LockTurn, ForgetLocks, InsertRecord, ProposeInTurn,
         ForgetDeletes, Abort
<1> QED
  BY <1>1, <1>2, <1>3, <1>4, <1>5, <1>6 DEF Transaction

(* Both providers implement the abstract slots: a slot remembers one       *)
(* content at a time, never replaced in place, and a decision is final     *)
(* until its owner is forgotten. *)
THEOREM MemoryImplementsSlots == MemorySpec => ImplementsMemorySlots
<1>1. MemoryInit => Slots!Init
  BY DEF MemoryInit, Slots!Init, Slots!Slots, Remembered, Occupants, DecisionOf, Undecided
<1>2. MemoryInv /\ MemoryNext => [Slots!Next]_(Slots!vars)
  BY StatementRefines, LocalCallRefines, TransactionRefines DEF MemoryNext
<1>3. UNCHANGED memory_vars => [Slots!Next]_(Slots!vars)
  BY SameRefines DEF memory_vars, memory_tables
<1> QED
  BY <1>1, <1>2, <1>3, MemoryInvariant, PTL
     DEF MemorySpec, ImplementsMemorySlots, Slots!Spec
=============================================================================
