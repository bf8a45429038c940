----------------------- MODULE RunEventStore_proofs -----------------------
(***************************************************************************)
(* Theorems about RunEventStore, for every set of runs and conversations   *)
(* and every bound on sequences.                                           *)
(*                                                                         *)
(* The invariants the runs check are not inductive one by one: an append   *)
(* keeps a log contiguous only if it was, leaves the conversations         *)
(* exclusive only if a run without a row has none and if no later event    *)
(* has sequence 0, and respects the grammar of the log only if the status  *)
(* of a run tells what its last event was.  StoreInv is the conjunction.   *)
(***************************************************************************)
EXTENDS RunEventStore, TLAPS

(* A run without a row has no conversation. *)
UnopenedIsUnbound ==
  \A r \in Runs : status[r] = NoRow => conversation[r] = NoConversation

(* The status a last event of this type leaves. *)
Agree(type, current) ==
  /\ current = "waiting"   <=> type = "run_waiting"
  /\ current = "completed" <=> type = "run_completed"
  /\ current = "failed"    <=> type = "run_failed"
  /\ current = "cancelled" <=> type = "run_cancelled"

(* The last event of a run, without its number, and the status. *)
LastEventAgrees ==
  \A a \in run_events :
     a.event.sequence + 1 \notin SequencesOf(a.run)
     => Agree(a.event.type, status[a.run])

StoreInv == /\ TypeOK
            /\ ContiguousLog
            /\ UnopenedIsUnbound
            /\ ConversationExclusive
            /\ LastEventAgrees
            /\ LogGrammar

-----------------------------------------------------------------------------
(* The maximum of an initial segment of the naturals is its end. *)
LEMMA MaxOfSegment == ASSUME NEW n \in Nat PROVE Max(0..n) = n
<1> DEFINE IsMax(m) == m \in 0..n /\ \A y \in 0..n : m >= y
<1>1. IsMax(n)
  OBVIOUS
<1>2. \A m : IsMax(m) => m = n
  OBVIOUS
<1>3. IsMax(CHOOSE m \in 0..n : \A y \in 0..n : m >= y)
  BY <1>1
<1> QED
  BY <1>2, <1>3 DEF Max

(* What one append does to the logs: the log of the run gains one sequence, *)
(* the logs of the other runs do not change.                               *)
LEMMA AppendGrowsOneLog ==
  ASSUME TypeOK, NEW r \in Runs, NEW e \in Events, NEW c, Append(r, e, c)
  PROVE  /\ SequencesOf(r)' = SequencesOf(r) \cup {e.sequence}
         /\ \A q \in Runs \ {r} : LogOf(q)' = LogOf(q) /\ SequencesOf(q)' = SequencesOf(q)
<1> DEFINE new == [run |-> r, event |-> e]
<1>1. run_events' = run_events \cup {new}
  BY DEF Append
<1>2. new.run = r /\ new.event.sequence = e.sequence
  OBVIOUS
<1>3. LogOf(r)' = LogOf(r) \cup {new}
  BY <1>1, <1>2 DEF LogOf
<1>4. \A q \in Runs \ {r} : LogOf(q)' = LogOf(q)
  BY <1>1, <1>2 DEF LogOf
<1> HIDE DEF new
<1>5. SequencesOf(r)' = SequencesOf(r) \cup {e.sequence}
  BY <1>2, <1>3 DEF SequencesOf
<1>6. \A q \in Runs \ {r} : SequencesOf(q)' = SequencesOf(q)
  BY <1>4 DEF SequencesOf
<1> QED
  BY <1>4, <1>5, <1>6

(* Where an accepted event goes: at 0 in an empty log, one past the end of  *)
(* any other.                                                              *)
LEMMA AcceptedPlace ==
  ASSUME TypeOK, ContiguousLog, NEW r \in Runs, NEW e \in Events, NEW c,
         Accepts(r, e, c)
  PROVE  \/ status[r] = NoRow /\ SequencesOf(r) = {} /\ e.sequence = 0
         \/ /\ status[r] \in OpenStatuses
            /\ e.sequence \in 1..MaxSequence
            /\ SequencesOf(r) = 0..(e.sequence - 1)
<1>1. CASE Opens(r, e, c)
  BY <1>1 DEF Opens, ContiguousLog, SequencesOf
<1>2. CASE Extends(r, e, c)
  <2>1. status[r] \in OpenStatuses /\ status[r] # NoRow
    BY <1>2 DEF Extends, NotClosed, OpenStatuses, NoRow
  <2>2. PICK n \in 0..MaxSequence : SequencesOf(r) = 0..n
    BY <2>1 DEF ContiguousLog
  <2>3. e.sequence = n + 1
    BY <1>2, <2>2, MaxOfSegment, SequenceAssumption DEF Extends, InOrder
  <2>4. e.sequence \in 0..MaxSequence
    BY DEF Events
  <2> QED
    BY <2>1, <2>2, <2>3, <2>4, SequenceAssumption
<1> QED
  BY <1>1, <1>2 DEF Accepts

-----------------------------------------------------------------------------
(* An append keeps the types. *)
LEMMA TypeStep ==
  ASSUME TypeOK, NEW r \in Runs, NEW e \in Events,
         NEW c \in Conversations \cup {NoConversation}, Append(r, e, c)
  PROVE  TypeOK'
<1>1. StatusAfter(status[r], e.type) \in Statuses \cup {NoRow}
  BY DEF TypeOK, StatusAfter, TypeStatus, Statuses, OpenStatuses, ClosedStatuses
<1>2. ConversationAfter(conversation[r], c) \in Conversations \cup {NoConversation}
  BY DEF TypeOK, ConversationAfter
<1>3. [run |-> r, event |-> e] \in Rows
  BY DEF Rows
<1> QED
  BY <1>1, <1>2, <1>3 DEF TypeOK, Append

(* An append extends its log by the next sequence or not at all. *)
LEMMA ContiguousStep ==
  ASSUME TypeOK, ContiguousLog, NEW r \in Runs, NEW e \in Events, NEW c,
         Append(r, e, c)
  PROVE  ContiguousLog'
<1>1. Accepts(r, e, c)
  BY DEF Append
<1>2. e.sequence \in 0..MaxSequence
  BY DEF Events
<1>3. SequencesOf(r)' = 0..e.sequence
  <2>1. SequencesOf(r)' = SequencesOf(r) \cup {e.sequence}
    BY AppendGrowsOneLog
  <2>2. \/ SequencesOf(r) = {} /\ e.sequence = 0
        \/ SequencesOf(r) = 0..(e.sequence - 1) /\ e.sequence \in 1..MaxSequence
    BY <1>1, AcceptedPlace
  <2> QED
    BY <2>1, <2>2, SequenceAssumption
<1>4. status'[r] # NoRow
  <2>1. status'[r] = StatusAfter(status[r], e.type)
    BY DEF Append, TypeOK
  <2> QED
    BY <2>1 DEF StatusAfter, TypeStatus, NoRow
<1>5. \A q \in Runs :
        IF status'[q] = NoRow THEN LogOf(q)' = {}
        ELSE \E n \in 0..MaxSequence : SequencesOf(q)' = 0..n
  <2> TAKE q \in Runs
  <2>1. CASE q = r
    BY <2>1, <1>2, <1>3, <1>4
  <2>2. CASE q # r
    <3>1. status'[q] = status[q]
      BY <2>2 DEF Append, TypeOK
    <3> QED
      BY <2>2, <3>1, AppendGrowsOneLog DEF ContiguousLog
  <2> QED
    BY <2>1, <2>2
<1>6. \A a, b \in run_events' :
        a.run = b.run /\ a.event.sequence = b.event.sequence => a = b
  <2>1. e.sequence \notin SequencesOf(r)
    BY <1>1 DEF Accepts
  <2>2. \A a \in run_events : a.run = r => a.event.sequence # e.sequence
    BY <2>1 DEF SequencesOf, LogOf
  <2> QED
    BY <2>2 DEF Append, ContiguousLog
<1> QED
  BY <1>5, <1>6 DEF ContiguousLog

(* Only an append that opens a run gives it a conversation. *)
LEMMA UnopenedStep ==
  ASSUME TypeOK, UnopenedIsUnbound, NEW r \in Runs, NEW e \in Events, NEW c,
         Append(r, e, c)
  PROVE  UnopenedIsUnbound'
<1>1. status'[r] # NoRow
  <2>1. status'[r] = StatusAfter(status[r], e.type)
    BY DEF Append, TypeOK
  <2> QED
    BY <2>1 DEF StatusAfter, TypeStatus, NoRow
<1> QED
  BY <1>1 DEF UnopenedIsUnbound, Append, TypeOK

(* Where the coordinator's rule for the conversation argument is needed: a *)
(* run that is open already keeps the conversation it has.                 *)
LEMMA ExclusiveStep ==
  ASSUME TypeOK, ContiguousLog, UnopenedIsUnbound, ConversationExclusive,
         NEW r \in Runs, NEW e \in Events,
         NEW c \in Conversations \cup {NoConversation},
         Append(r, e, ConversationArgument(e, c))
  PROVE  ConversationExclusive'
<1> DEFINE d == ConversationArgument(e, c)
<1>1. Accepts(r, e, d)
  BY DEF Append
<1>2. \A q \in Runs \ {r} : status'[q] = status[q] /\ conversation'[q] = conversation[q]
  BY DEF Append, TypeOK
<1>3. conversation'[r] = ConversationAfter(conversation[r], d)
  BY DEF Append, TypeOK
<1>4. CASE status[r] = NoRow
  <2>1. conversation[r] = NoConversation /\ conversation'[r] = d
    BY <1>3, <1>4 DEF UnopenedIsUnbound, ConversationAfter
  <2>2. d # NoConversation => Available(d)
    <3>1. Opens(r, e, d)
      BY <1>1, <1>4 DEF Accepts, Extends, NotClosed, OpenStatuses, NoRow
    <3> QED
      BY <3>1 DEF Opens
  <2> QED
    BY <1>2, <2>1, <2>2 DEF ConversationExclusive, Available
<1>5. CASE status[r] # NoRow
  <2>1. status[r] \in OpenStatuses /\ e.sequence \in 1..MaxSequence
    BY <1>1, <1>5, AcceptedPlace
  <2>2. d = NoConversation
    BY <2>1, SequenceAssumption DEF ConversationArgument
  <2>3. conversation'[r] = conversation[r]
    BY <1>3, <2>2 DEF ConversationAfter
  <2> QED
    BY <1>2, <2>1, <2>3 DEF ConversationExclusive
<1> QED
  BY <1>4, <1>5

-----------------------------------------------------------------------------
(* The rows an append finds next to the one it adds. *)
LEMMA LastRowStep ==
  ASSUME TypeOK, ContiguousLog, LastEventAgrees, NEW r \in Runs, NEW e \in Events,
         NEW c, Append(r, e, c)
  PROVE  LastEventAgrees'
<1>1. status'[r] = StatusAfter(status[r], e.type)
  BY DEF Append, TypeOK
<1>2. SequencesOf(r)' = SequencesOf(r) \cup {e.sequence}
  BY AppendGrowsOneLog
<1>3. Accepts(r, e, c)
  BY DEF Append
<1>4. e \in [sequence : 0..MaxSequence, type : EventTypes, body : Bodies]
  BY DEF Events
<1> SUFFICES ASSUME NEW a \in run_events',
                    a.event.sequence + 1 \notin SequencesOf(a.run)'
             PROVE  Agree(a.event.type, status'[a.run])
  BY DEF LastEventAgrees
<1>5. CASE a = [run |-> r, event |-> e]
  <2>1. a.run = r /\ a.event.type = e.type
    BY <1>5
  <2>2. status[r] = "waiting" => e.type \in {"run_resumed", "run_failed", "run_cancelled"}
    BY <1>3 DEF Accepts, Opens, Extends, NoRow, AllowedWhileWaiting
  <2>3. status[r] \in OpenStatuses \cup {NoRow}
    BY <1>3 DEF Accepts, Opens, Extends, NotClosed
  <2> QED
    BY <1>1, <1>4, <2>1, <2>2, <2>3
    DEF Agree, StatusAfter, TypeStatus, TerminalTypes, OpenStatuses, NoRow, EventTypes
<1>6. CASE a \in run_events /\ a.run = r
  <2>1. a.event.sequence \in SequencesOf(r)
    BY <1>6 DEF SequencesOf, LogOf
  <2>2. SequencesOf(r) = 0..(e.sequence - 1) /\ e.sequence \in 1..MaxSequence
    BY <1>3, <2>1, AcceptedPlace
  <2>3. a.event.sequence + 1 \in 0..e.sequence
    BY <2>1, <2>2, SequenceAssumption
  <2>4. a.event.sequence + 1 \in SequencesOf(r)'
    BY <1>2, <2>2, <2>3, SequenceAssumption
  <2> QED
    BY <1>6, <2>4
<1>7. CASE a \in run_events /\ a.run # r
  <2>1. a.run \in Runs
    BY <1>7 DEF TypeOK, Rows
  <2>2. status'[a.run] = status[a.run] /\ SequencesOf(a.run)' = SequencesOf(a.run)
    BY <1>7, <2>1, AppendGrowsOneLog DEF Append, TypeOK
  <2> QED
    BY <1>7, <2>2 DEF LastEventAgrees
<1> QED
  BY <1>5, <1>6, <1>7 DEF Append

(* The new event may follow the one the status stands for. *)
LEMMA GrammarStep ==
  ASSUME TypeOK, ContiguousLog, LastEventAgrees, LogGrammar,
         NEW r \in Runs, NEW e \in Events, NEW c, Append(r, e, c)
  PROVE  LogGrammar'
<1> DEFINE new == [run |-> r, event |-> e]
<1>1. run_events' = run_events \cup {new}
  BY DEF Append
<1>2. Accepts(r, e, c)
  BY DEF Append
<1>3. e.sequence \in 0..MaxSequence
  BY DEF Events
<1>4. \A a \in run_events : a.run \in Runs /\ a.event.sequence \in 0..MaxSequence
  BY DEF TypeOK, Rows, Events
<1>5. e.sequence = 0 => e.type = "run_started"
  <2>1. CASE Opens(r, e, c)
    BY <2>1 DEF Opens
  <2>2. CASE Extends(r, e, c)
    <3>1. status[r] # NoRow
      BY <2>2 DEF Extends, NotClosed, OpenStatuses, NoRow
    <3> QED
      BY <1>2, <3>1, AcceptedPlace, SequenceAssumption
  <2> QED
    BY <1>2, <2>1, <2>2 DEF Accepts
<1>6. ASSUME NEW a \in run_events, a.run = r, e.sequence = a.event.sequence + 1
      PROVE  /\ a.event.type \notin TerminalTypes
             /\ a.event.type = "run_waiting" =>
                  e.type \in {"run_resumed", "run_failed", "run_cancelled"}
             /\ e.type = "run_resumed" => a.event.type = "run_waiting"
  <2>1. a.event.sequence \in SequencesOf(r)
    BY <1>6 DEF SequencesOf, LogOf
  <2>2. status[r] \in OpenStatuses /\ Extends(r, e, c)
    BY <1>2, <2>1, AcceptedPlace DEF Accepts, Opens, OpenStatuses, NoRow
  <2>3. a.event.sequence + 1 \notin SequencesOf(a.run)
    BY <1>2, <1>6 DEF Accepts
  <2>4. Agree(a.event.type, status[r])
    BY <1>6, <2>3 DEF LastEventAgrees
  <2> QED
    BY <2>2, <2>4 DEF Agree, Extends, AllowedWhileWaiting, OpenStatuses, TerminalTypes
<1>7. ASSUME NEW b \in run_events, b.run = r
      PROVE  b.event.sequence # e.sequence + 1
  <2>1. b.event.sequence \in SequencesOf(r)
    BY <1>7 DEF SequencesOf, LogOf
  <2> QED
    BY <1>2, <1>3, <1>4, <2>1, AcceptedPlace, SequenceAssumption
<1>8. new.run = r /\ new.event = e
  OBVIOUS
<1>9. e.sequence # e.sequence + 1
  BY <1>3, SequenceAssumption
<1> HIDE DEF new
<1>10. \A a \in run_events' : a.event.sequence = 0 => a.event.type = "run_started"
  BY <1>1, <1>5, <1>8 DEF LogGrammar
<1>11. ASSUME NEW a \in run_events', NEW b \in run_events', a.run = b.run,
              b.event.sequence = a.event.sequence + 1
       PROVE  /\ a.event.type \notin TerminalTypes
              /\ a.event.type = "run_waiting" =>
                   b.event.type \in {"run_resumed", "run_failed", "run_cancelled"}
              /\ b.event.type = "run_resumed" => a.event.type = "run_waiting"
  <2>1. CASE a \in run_events /\ b \in run_events
    BY <1>11, <2>1 DEF LogGrammar
  <2>2. CASE a \in run_events /\ b = new
    BY <1>6, <1>8, <1>11, <2>2
  <2>3. CASE a = new /\ b \in run_events
    BY <1>7, <1>8, <1>11, <2>3
  <2>4. CASE a = new /\ b = new
    BY <1>8, <1>9, <1>11, <2>4
  <2> QED
    BY <1>1, <2>1, <2>2, <2>3, <2>4
<1> QED
  BY <1>10, <1>11 DEF LogGrammar

-----------------------------------------------------------------------------
(* The empty store. *)
LEMMA StoreInvInit == Init => StoreInv
  BY DEF Init, StoreInv, TypeOK, ContiguousLog, UnopenedIsUnbound,
         ConversationExclusive, LastEventAgrees, LogGrammar, LogOf, NoRow,
         OpenStatuses

(* The invariant is inductive. *)
LEMMA StoreInvStep == StoreInv /\ [Next]_vars => StoreInv'
<1> SUFFICES ASSUME StoreInv, [Next]_vars PROVE StoreInv'
  OBVIOUS
<1>1. CASE Next
  <2>1. PICK r \in Runs, e \in Events, c \in Conversations \cup {NoConversation} :
               Append(r, e, ConversationArgument(e, c))
    BY <1>1 DEF Next
  <2>2. ConversationArgument(e, c) \in Conversations \cup {NoConversation}
    BY DEF ConversationArgument
  <2>3. TypeOK'
    BY <2>1, <2>2, TypeStep DEF StoreInv
  <2>4. ContiguousLog' /\ UnopenedIsUnbound'
    BY <2>1, ContiguousStep, UnopenedStep DEF StoreInv
  <2>5. ConversationExclusive'
    BY <2>1, ExclusiveStep DEF StoreInv
  <2>6. LastEventAgrees' /\ LogGrammar'
    BY <2>1, LastRowStep, GrammarStep DEF StoreInv
  <2> QED
    BY <2>3, <2>4, <2>5, <2>6 DEF StoreInv
<1>2. CASE UNCHANGED vars
  BY <1>2 DEF vars, StoreInv, TypeOK, ContiguousLog, UnopenedIsUnbound,
              ConversationExclusive, LastEventAgrees, LogGrammar, LogOf, SequencesOf
<1> QED
  BY <1>1, <1>2

(* The inductive invariant holds in every reachable state of the store. *)
THEOREM StoreInvariant == Spec => []StoreInv
  BY StoreInvInit, StoreInvStep, PTL DEF Spec

(* The two tables always hold values of their types. *)
THEOREM TypeCorrect == Spec => []TypeOK
<1>1. StoreInv => TypeOK
  BY DEF StoreInv
<1> QED
  BY <1>1, StoreInvariant, PTL

(* No conversation ever has two open runs, whatever the number of runs and *)
(* conversations.                                                          *)
THEOREM ConversationIsExclusive == Spec => []ConversationExclusive
<1>1. StoreInv => ConversationExclusive
  BY DEF StoreInv
<1> QED
  BY <1>1, StoreInvariant, PTL

(* Every log is a gapless sequence of events from 0. *)
THEOREM LogIsContiguous == Spec => []ContiguousLog
<1>1. StoreInv => ContiguousLog
  BY DEF StoreInv
<1> QED
  BY <1>1, StoreInvariant, PTL

(* Every log follows the grammar its readers rely on. *)
THEOREM LogFollowsGrammar == Spec => []LogGrammar
<1>1. StoreInv => LogGrammar
  BY DEF StoreInv
<1> QED
  BY <1>1, StoreInvariant, PTL

(* The status of a run is the one the last event of its log leaves: the    *)
(* event chosen by the largest sequence is the one nothing follows.        *)
THEOREM StatusFollowsLog == Spec => []StatusMatchesLog
<1>1. StoreInv => StatusMatchesLog
  <2> SUFFICES ASSUME StoreInv, NEW r \in Runs, status[r] # NoRow
               PROVE  Agree(LastType(r), status[r])
    BY DEF StatusMatchesLog, Agree
  <2>1. PICK n \in 0..MaxSequence : SequencesOf(r) = 0..n
    BY DEF StoreInv, ContiguousLog
  <2>2. n \in Nat
    BY SequenceAssumption
  <2>3. Max(SequencesOf(r)) = n
    BY <2>1, <2>2, MaxOfSegment
  <2>4. n \in SequencesOf(r) /\ n + 1 \notin SequencesOf(r)
    BY <2>1, <2>2
  <2>5. PICK a \in LogOf(r) : a.event.sequence = n
    BY <2>4 DEF SequencesOf
  <2>6. a \in run_events /\ a.run = r
    BY <2>5 DEF LogOf
  <2>7. \A b \in LogOf(r) : b.event.sequence = n => b = a
    BY <2>5, <2>6 DEF StoreInv, ContiguousLog, LogOf
  <2>8. LastType(r) = a.event.type
    <3>1. (CHOOSE b \in LogOf(r) : b.event.sequence = n) = a
      BY <2>5, <2>7
    <3> QED
      BY <2>3, <3>1 DEF LastType
  <2> QED
    BY <2>4, <2>5, <2>6, <2>8 DEF StoreInv, LastEventAgrees
<1> QED
  BY <1>1, StoreInvariant, PTL

-----------------------------------------------------------------------------
(* One append leaves every event, every outcome and every binding alone. *)
LEMMA AppendIsFinal ==
  ASSUME StoreInv, NEW r \in Runs, NEW e \in Events,
         NEW c \in Conversations \cup {NoConversation},
         Append(r, e, ConversationArgument(e, c)), NEW q \in Runs
  PROVE  /\ status[q] \in ClosedStatuses =>
               /\ status'[q] = status[q]
               /\ LogOf(q)' = LogOf(q)
         /\ status[q] # NoRow => conversation'[q] = conversation[q]
<1> DEFINE d == ConversationArgument(e, c)
<1>1. TypeOK /\ ContiguousLog
  BY DEF StoreInv
<1>2. Accepts(r, e, d)
  BY DEF Append
<1>3. CASE q # r
  <2>1. status'[q] = status[q] /\ conversation'[q] = conversation[q]
    BY <1>1, <1>3 DEF Append, TypeOK
  <2>2. LogOf(q)' = LogOf(q)
    BY <1>3 DEF Append, LogOf
  <2> QED
    BY <2>1, <2>2
<1>4. CASE q = r
  <2>1. status[r] \notin ClosedStatuses
    BY <1>2 DEF Accepts, Opens, Extends, NotClosed, OpenStatuses, ClosedStatuses, NoRow
  <2>2. ASSUME status[r] # NoRow PROVE conversation'[r] = conversation[r]
    <3>1. e.sequence \in 1..MaxSequence
      BY <1>1, <1>2, <2>2, AcceptedPlace
    <3>2. d = NoConversation
      BY <3>1, SequenceAssumption DEF ConversationArgument
    <3> QED
      BY <1>1, <3>2 DEF Append, TypeOK, ConversationAfter
  <2> QED
    BY <1>4, <2>1, <2>2
<1> QED
  BY <1>3, <1>4

(* No step of the store rewrites history. *)
THEOREM HistoryNeverChanges == Spec => HistoryIsFinal
<1>1. StoreInv /\ [Next]_vars => [KeepsHistory]_vars
  <2> SUFFICES ASSUME StoreInv, Next PROVE KeepsHistory
    OBVIOUS
  <2>1. PICK r \in Runs, e \in Events, c \in Conversations \cup {NoConversation} :
               Append(r, e, ConversationArgument(e, c))
    BY DEF Next
  <2>2. run_events \subseteq run_events'
    BY <2>1 DEF Append
  <2> QED
    BY <2>1, <2>2, AppendIsFinal DEF KeepsHistory
<1> QED
  BY <1>1, StoreInvariant, PTL DEF Spec, HistoryIsFinal

-----------------------------------------------------------------------------
(* The stage of a run is a function of its status, and its holders of the  *)
(* open rows.                                                              *)
LEMMA LockInitStep == Init => Lock!Init
  BY DEF Init, Lock!Init, LockStage, StageOf, LockHolders, NoRow, OpenStatuses

(* An append opens a run, closes one, or does not concern the lock. *)
LEMMA AppendIsLockStep ==
  ASSUME StoreInv, NEW r \in Runs, NEW e \in Events,
         NEW c \in Conversations \cup {NoConversation},
         Append(r, e, ConversationArgument(e, c))
  PROVE  [Lock!Next]_(Lock!vars)
<1> DEFINE d == ConversationArgument(e, c)
<1>1. TypeOK /\ ContiguousLog /\ UnopenedIsUnbound
  BY DEF StoreInv
<1>2. Accepts(r, e, d)
  BY DEF Append
<1>3. \A q \in Runs \ {r} : status'[q] = status[q] /\ conversation'[q] = conversation[q]
  BY <1>1 DEF Append, TypeOK
<1>4. status'[r] = StatusAfter(status[r], e.type)
  BY <1>1 DEF Append, TypeOK
<1>5. conversation'[r] = ConversationAfter(conversation[r], d)
  BY <1>1 DEF Append, TypeOK
<1>6. e.type \in EventTypes
  BY DEF Events
<1>7. CASE status[r] = NoRow
  <2>1. Opens(r, e, d)
    BY <1>2, <1>7 DEF Accepts, Extends, NotClosed, OpenStatuses, NoRow
  <2>2. status'[r] = "running" /\ conversation'[r] = d
    BY <1>1, <1>4, <1>5, <1>7, <2>1
    DEF Opens, StatusAfter, TypeStatus, UnopenedIsUnbound, ConversationAfter
  <2>3. LockStage' = [LockStage EXCEPT ![r] = "open"] /\ LockStage[r] = "new"
    BY <1>3, <1>7, <2>2 DEF LockStage, StageOf, NoRow, OpenStatuses
  <2>4. CASE d = NoConversation
    <3>1. LockHolders' = LockHolders
      BY <1>3, <1>7, <2>2, <2>4, ConversationAssumption
      DEF LockHolders, NoRow, OpenStatuses
    <3> QED
      BY <2>3, <3>1 DEF Lock!Next, Lock!OpenFree
  <2>5. CASE d # NoConversation
    <3>1. d \in Conversations
      BY <2>5 DEF ConversationArgument
    <3>2. LockHolders[d] = {}
      BY <2>1, <2>5, <3>1 DEF Opens, Available, LockHolders
    <3>3. \A k \in Conversations \ {d} : LockHolders'[k] = LockHolders[k]
      BY <1>3, <1>7, <2>2 DEF LockHolders, NoRow, OpenStatuses
    <3>4. LockHolders'[d] = {r}
      BY <1>3, <2>2, <3>1, <3>2 DEF LockHolders, OpenStatuses
    <3>5. LockHolders' = [LockHolders EXCEPT ![d] = {r}]
      BY <3>1, <3>3, <3>4 DEF LockHolders
    <3> QED
      BY <2>3, <3>1, <3>2, <3>5 DEF Lock!Next, Lock!OpenIn
  <2> QED
    BY <2>4, <2>5
<1>8. CASE status[r] # NoRow
  <2>1. status[r] \in OpenStatuses /\ e.sequence \in 1..MaxSequence
    BY <1>1, <1>2, <1>8, AcceptedPlace
  <2>2. d = NoConversation
    BY <2>1, SequenceAssumption DEF ConversationArgument
  <2>3. conversation'[r] = conversation[r]
    BY <1>5, <2>2 DEF ConversationAfter
  <2>4. CASE status'[r] \in OpenStatuses
    <3>1. LockStage' = LockStage
      BY <1>3, <2>1, <2>4 DEF LockStage, StageOf, OpenStatuses, NoRow
    <3>2. LockHolders' = LockHolders
      BY <1>3, <2>1, <2>3, <2>4 DEF LockHolders
    <3> QED
      BY <3>1, <3>2 DEF Lock!vars
  <2>5. CASE status'[r] \in ClosedStatuses
    <3>1. LockStage' = [LockStage EXCEPT ![r] = "closed"] /\ LockStage[r] = "open"
      BY <1>3, <2>1, <2>5 DEF LockStage, StageOf, OpenStatuses, ClosedStatuses, NoRow
    <3>2. \A k \in Conversations : LockHolders'[k] = LockHolders[k] \ {r}
      BY <1>3, <2>5 DEF LockHolders, OpenStatuses, ClosedStatuses
    <3>3. LockHolders' = [k \in Conversations |-> LockHolders[k] \ {r}]
      BY <3>2 DEF LockHolders
    <3> QED
      BY <3>1, <3>3 DEF Lock!Next, Lock!Close
  <2>6. status'[r] \in OpenStatuses \cup ClosedStatuses
    BY <1>4, <1>6, <2>1
    DEF StatusAfter, TypeStatus, OpenStatuses, ClosedStatuses, NoRow
  <2> QED
    BY <2>4, <2>5, <2>6
<1> QED
  BY <1>7, <1>8

(* The store implements the conversation lock: every append is a step of   *)
(* the lock or leaves it unchanged.                                        *)
THEOREM StoreImplementsLock == Spec => ImplementsConversationLock
<1>1. StoreInv /\ [Next]_vars => [Lock!Next]_(Lock!vars)
  <2> SUFFICES ASSUME StoreInv, [Next]_vars PROVE [Lock!Next]_(Lock!vars)
    OBVIOUS
  <2>1. CASE Next
    <3>1. PICK r \in Runs, e \in Events, c \in Conversations \cup {NoConversation} :
                 Append(r, e, ConversationArgument(e, c))
      BY <2>1 DEF Next
    <3> QED
      BY <3>1, AppendIsLockStep
  <2>2. CASE UNCHANGED vars
    BY <2>2 DEF vars, Lock!vars, LockStage, LockHolders
  <2> QED
    BY <2>1, <2>2
<1> QED
  BY <1>1, LockInitStep, StoreInvariant, PTL DEF Spec, ImplementsConversationLock, Lock!Spec
===========================================================================
