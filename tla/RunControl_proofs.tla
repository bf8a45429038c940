------------------------- MODULE RunControl_proofs -------------------------
(***************************************************************************)
(* Theorems about RunControl, for any number of streams and cancel         *)
(* requests, whatever restarts and clients that go away.                   *)
(*                                                                         *)
(* Each property is about two records that no transaction keeps together:  *)
(* the place in _active and the streams, the log and what a client was     *)
(* shown, the status and the conversation.  The invariant says, for every  *)
(* stream, what it relies on at the await it is suspended at, and, for     *)
(* every event that can still be written, what must have happened before.  *)
(* An event may be written long after its stream is gone, by the thread    *)
(* that a cancellation left behind, so that part is about events and not   *)
(* about streams.                                                          *)
(*                                                                         *)
(* The invariant of the store, proved in RunEventStore_proofs, is a part   *)
(* of the invariant: every write of the composition is an append.          *)
(***************************************************************************)
EXTENDS RunControl, TLAPS

StoreProofs == INSTANCE RunEventStore_proofs
               WITH Runs <- {Run}, Conversations <- {Conversation}

Durables == {"input", "running", "recorded", "waiting", "completed", "failed"}
Preparing == {"load", "sequence", "lock", "reload"}
Pending == {"register", "append", "yielded"}

StreamRecords ==
  [at        : Ended \cup Preparing \cup Pending \cup {"graph", "mark", "record"},
   graph     : Durables \cup {"none", "unresolved", "unresolved_started",
                              "answered", "over"},
   interrupt : Interrupts \cup {NoInterrupt},
   committed : BOOLEAN,
   sequence  : 0..MaxSequence + 1,
   closings  : Nat,
   type      : Store!EventTypes \cup {"none"},
   body      : Bodies,
   outcome   : {"none", "failed", "cancelled"}]

Requests == {"sequence", "load", "mark", "record", "append"}

CancellerRecords ==
  [at       : Requests \cup {"idle", "gather", "confirmed", "refused", "lost"},
   mode     : {"none", "waiting", "running"},
   sequence : 0..MaxSequence + 1,
   target   : Streams \cup {Nobody}]

(* An event that may still be written: a run completes only with its answer  *)
(* recorded, begins at sequence 0, and leaves room for a resume and an end.  *)
Allowed(e, recorded) ==
  /\ e \in [sequence : 0..MaxSequence + 1, type : Store!EventTypes, body : Bodies]
  /\ e.type = "run_completed" => recorded = "answer"
  /\ e.type = "run_started" => e.sequence = 0
  /\ e.type \in {"progress", "run_waiting"} => e.sequence + 2 <= MaxSequence

EventIn(x) == [sequence |-> x.sequence, type |-> x.type, body |-> x.body]

(* What a stream s with record x relies on, given the holder of _active, the *)
(* rows of run_events, the run's status and what the conversation records.   *)
StreamFits(s, x, holder, rows, current, recorded) ==
  /\ x \in StreamRecords
  /\ x.at = "idle" => x = NewStream
  /\ x.at \in Preparing => x.graph = "none"
  /\ x.at \in {"append", "yielded"} => holder = s
  /\ x.at = "yielded" => [run |-> Run, event |-> EventIn(x)] \in rows
  /\ x.at \in {"load", "sequence"} => current # Store!NoRow
  /\ x.at \in Pending =>
       /\ Allowed(EventIn(x), recorded)
       /\ x.graph \notin {"input", "unresolved"}
       /\ x.graph = "waiting" => x.closings > 0
  /\ x.at \in Preparing \/ x.graph \in {"waiting", "answered"} =>
       x.interrupt \in Interrupts
  /\ ~ x.committed => x.graph \in Durables /\ x.at # "record"
  /\ x.graph \in {"recorded", "completed"} => recorded = "answer"
  /\ x.graph \in {"input", "unresolved"} => x.sequence = 0
  /\ x.graph = "waiting" /\ x.closings = 0 => x.sequence + 2 <= MaxSequence
  /\ x.at \in {"mark", "record"} => x.outcome \in {"failed", "cancelled"}

StreamsFit ==
  /\ stream = [s \in Streams |-> stream[s]]
  /\ \A s \in Streams :
       StreamFits(s, stream[s], active, run_events, status[Run], turn)

CancellersFit ==
  /\ canceller \in [Cancellers -> CancellerRecords]
  /\ \A c \in Cancellers :
       /\ canceller[c].at = "sequence" => status[Run] # Store!NoRow
       /\ canceller[c].at \in Requests => canceller[c].mode \in {"waiting", "running"}

(* The log of the run, beyond what the store ensures of every log. *)
LogFits ==
  \A row \in run_events :
    /\ row.event.type \notin Store!TerminalTypes => row.event.sequence < MaxSequence
    /\ row.event.type = "run_waiting" => row.event.sequence + 2 <= MaxSequence

RecordsFit ==
  /\ checkpoint \in [status : {"none", "input", "running", "waiting", "completed",
                               "failed", "cancelled"},
                     interrupt : Interrupts \cup {NoInterrupt}]
  /\ turn \in {"none", "answer", "error", "cancelled"}
  /\ {active, resume_lock} \subseteq Streams \cup {Nobody}
  /\ disturbed \in BOOLEAN
  /\ CompletedIsAnswered

RunInv ==
  /\ StoreProofs!StoreInv
  /\ LogFits
  /\ RecordsFit
  /\ StreamsFit
  /\ \A e \in detached : Allowed(e, turn)
  /\ CancellersFit

-----------------------------------------------------------------------------
(* The store of the composition is the store of RunEventStore_proofs, and    *)
(* the greatest sequence is the same in both.                                *)
LEMMA SameMax == \A S : Store!Max(S) = Max(S) /\ StoreProofs!Max(S) = Max(S)
BY DEF Max, Store!Max, StoreProofs!Max

(* Their definitions agree. *)
LEMMA SameStore ==
  /\ Store!NoRow = StoreProofs!NoRow
  /\ Store!TerminalTypes = StoreProofs!TerminalTypes
  /\ Store!EventTypes = StoreProofs!EventTypes
  /\ Store!TypeOK <=> StoreProofs!TypeOK
  /\ Store!Init <=> StoreProofs!Init
  /\ \A e, c : Store!ConversationArgument(e, c) = StoreProofs!ConversationArgument(e, c)
  /\ \A e, c : Store!Accepts(Run, e, c) <=> StoreProofs!Accepts(Run, e, c)
<1>1. /\ Store!NoRow = StoreProofs!NoRow
      /\ Store!TerminalTypes = StoreProofs!TerminalTypes
      /\ Store!OpenStatuses = StoreProofs!OpenStatuses
      /\ Store!ClosedStatuses = StoreProofs!ClosedStatuses
  BY DEF Store!NoRow, StoreProofs!NoRow, Store!TerminalTypes, StoreProofs!TerminalTypes,
         Store!OpenStatuses, StoreProofs!OpenStatuses, Store!ClosedStatuses,
         StoreProofs!ClosedStatuses
<1>2. Store!EventTypes = StoreProofs!EventTypes
  BY <1>1 DEF Store!EventTypes, StoreProofs!EventTypes
<1>3. Store!TypeOK <=> StoreProofs!TypeOK
  BY <1>1, <1>2 DEF Store!TypeOK, StoreProofs!TypeOK, Store!Rows, StoreProofs!Rows,
         Store!Events, StoreProofs!Events, Store!Statuses, StoreProofs!Statuses
<1>4. Store!Init <=> StoreProofs!Init
  BY <1>1 DEF Store!Init, StoreProofs!Init
<1>5. \A e, c : Store!ConversationArgument(e, c) = StoreProofs!ConversationArgument(e, c)
  BY DEF Store!ConversationArgument, StoreProofs!ConversationArgument
<1>6. Store!SequencesOf(Run) = StoreProofs!SequencesOf(Run)
  BY DEF Store!SequencesOf, StoreProofs!SequencesOf, Store!LogOf, StoreProofs!LogOf
<1>7. \A e, c : Store!Accepts(Run, e, c) <=> StoreProofs!Accepts(Run, e, c)
  BY <1>1, <1>6, SameMax DEF Store!Accepts, StoreProofs!Accepts, Store!Opens, StoreProofs!Opens,
         Store!Extends, StoreProofs!Extends, Store!Available, StoreProofs!Available,
         Store!NotClosed, StoreProofs!NotClosed, Store!InOrder, StoreProofs!InOrder,
         Store!AllowedWhileWaiting, StoreProofs!AllowedWhileWaiting
<1> QED BY <1>1, <1>2, <1>3, <1>4, <1>5, <1>7

(* What a write of the composition is to the store. *)
LEMMA WritesAppends ==
  ASSUME NEW e, Writes(e)
  PROVE  \E c \in {Conversation} \cup {NoConversation} :
           StoreProofs!Append(Run, e, StoreProofs!ConversationArgument(e, c))
<1>1. PICK c \in {Conversation, NoConversation} :
        Store!Append(Run, e, Store!ConversationArgument(e, c))
  BY DEF Writes
<1> DEFINE d == Store!ConversationArgument(e, c)
<1>2. d = StoreProofs!ConversationArgument(e, c)
  BY SameStore
<1>3. Store!StatusAfter(status[Run], e.type) = StoreProofs!StatusAfter(status[Run], e.type)
  BY DEF Store!StatusAfter, StoreProofs!StatusAfter, Store!TypeStatus,
         StoreProofs!TypeStatus, Store!NoRow, StoreProofs!NoRow
<1>4. Store!ConversationAfter(conversation[Run], d)
        = StoreProofs!ConversationAfter(conversation[Run], d)
  BY DEF Store!ConversationAfter, StoreProofs!ConversationAfter
<1>5. StoreProofs!Append(Run, e, d)
  <2> HIDE DEF d
  <2>1. Store!Append(Run, e, d)
    BY <1>1 DEF d
  <2> QED BY <1>3, <1>4, <2>1, SameStore DEF Store!Append, StoreProofs!Append
<1> QED BY <1>2, <1>5

(* The assumptions of the store. *)
LEMMA StoreAssumptions == MaxSequence \in Nat /\ NoConversation \notin {Conversation}
BY SequenceAssumption, ConversationAssumption

(* An event the store accepts has its place within the bound, and leaves the *)
(* room a run needs to be resumed and ended.                                 *)
LEMMA AcceptedHasRoom ==
  ASSUME StoreProofs!StoreInv, LogFits, NEW recorded, NEW e, Allowed(e, recorded),
         NEW c, StoreProofs!Accepts(Run, e, c)
  PROVE  /\ e \in StoreProofs!Events
         /\ e.type \notin Store!TerminalTypes => e.sequence < MaxSequence
         /\ e.type = "run_waiting" => e.sequence + 2 <= MaxSequence
<1> DEFINE place == e.sequence kind == e.type
<1>1. /\ e \in [sequence : 0..MaxSequence + 1, type : Store!EventTypes, body : Bodies]
      /\ place \in Nat /\ kind \in Store!EventTypes
      /\ kind = "run_started" => place = 0
      /\ kind \in {"progress", "run_waiting"} => place + 2 <= MaxSequence
  BY SequenceAssumption DEF Allowed
<1>2. kind \in Store!TerminalTypes \/ kind = "run_started" \/ kind = "run_resumed"
      \/ kind \in {"progress", "run_waiting"}
  BY <1>1 DEF Store!EventTypes
<1>3. place <= MaxSequence /\ (kind \notin Store!TerminalTypes => place < MaxSequence)
  <2>1. CASE StoreProofs!Opens(Run, e, c)
    BY <1>1, <2>1, SequenceAssumption DEF StoreProofs!Opens
  <2>2. CASE StoreProofs!Extends(Run, e, c)
    <3>1. status[Run] \in {"running", "waiting"} /\ status[Run] # StoreProofs!NoRow
      BY <2>2 DEF StoreProofs!Extends, StoreProofs!NotClosed, StoreProofs!OpenStatuses,
                  StoreProofs!NoRow
    <3>2. PICK n \in 0..MaxSequence : StoreProofs!SequencesOf(Run) = 0..n
      BY <3>1 DEF StoreProofs!StoreInv, StoreProofs!ContiguousLog
    <3>3. place = n + 1
      <4>1. n \in Nat
        BY SequenceAssumption
      <4>2. StoreProofs!Max(0..n) = n
        BY <4>1, StoreAssumptions, StoreProofs!MaxOfSegment
      <4> QED BY <2>2, <3>2, <4>2 DEF StoreProofs!Extends, StoreProofs!InOrder
    <3>4. PICK a \in run_events : a.run = Run /\ a.event.sequence = n
      BY <3>2, SequenceAssumption DEF StoreProofs!SequencesOf, StoreProofs!LogOf
    <3>5. StoreProofs!Agree(a.event.type, status[Run])
      <4>1. n + 1 \notin StoreProofs!SequencesOf(Run)
        BY <3>2
      <4> QED BY <3>4, <4>1 DEF StoreProofs!StoreInv, StoreProofs!LastEventAgrees
    <3>6. CASE status[Run] = "running"
      <4>1. a.event.type \notin Store!TerminalTypes
        BY <3>5, <3>6 DEF StoreProofs!Agree, Store!TerminalTypes
      <4>2. n < MaxSequence
        BY <3>4, <4>1 DEF LogFits
      <4>3. kind # "run_resumed"
        BY <2>2, <3>6 DEF StoreProofs!Extends
      <4> QED BY <1>1, <1>2, <3>2, <3>3, <4>2, <4>3, SequenceAssumption
    <3>7. CASE status[Run] = "waiting"
      <4>1. a.event.type = "run_waiting"
        BY <3>5, <3>7 DEF StoreProofs!Agree
      <4>2. n + 2 <= MaxSequence
        BY <3>4, <4>1 DEF LogFits
      <4> QED BY <3>2, <3>3, <4>2, SequenceAssumption
    <3> QED BY <3>1, <3>6, <3>7
  <2> QED BY <2>1, <2>2 DEF StoreProofs!Accepts
<1>4. e \in StoreProofs!Events
  BY <1>1, <1>3, SameStore, SequenceAssumption DEF StoreProofs!Events
<1> QED BY <1>1, <1>3, <1>4

-----------------------------------------------------------------------------
(* What a later state still has: rows are not removed, a row stays a row,    *)
(* and the conversation keeps the answer of a run.                           *)
Later ==
  /\ run_events \subseteq run_events'
  /\ status[Run] # Store!NoRow => status'[Run] # Store!NoRow
  /\ turn = "answer" => turn' = "answer"

StoreFits ==
  /\ StoreProofs!StoreInv
  /\ LogFits
  /\ status[Run] = "completed" => turn = "answer"

(* A write keeps the store, and its row is there. *)
LEMMA WritesKeeps ==
  ASSUME StoreFits, NEW e, Allowed(e, turn), Writes(e), turn = "answer" => turn' = "answer"
  PROVE  StoreFits' /\ Later /\ [run |-> Run, event |-> e] \in run_events'
<1>1. PICK c \in {Conversation} \cup {NoConversation} :
        StoreProofs!Append(Run, e, StoreProofs!ConversationArgument(e, c))
  BY WritesAppends
<1> DEFINE d == StoreProofs!ConversationArgument(e, c)
           new == [run |-> Run, event |-> e]
<1>2. /\ e \in StoreProofs!Events
      /\ e.type \notin Store!TerminalTypes => e.sequence < MaxSequence
      /\ e.type = "run_waiting" => e.sequence + 2 <= MaxSequence
  BY <1>1, AcceptedHasRoom DEF StoreProofs!Append, StoreFits
<1>3. StoreProofs!StoreInv'
  <2>1. StoreProofs!Next
    BY <1>1, <1>2 DEF StoreProofs!Next
  <2> QED BY <2>1, StoreProofs!StoreInvStep, StoreAssumptions DEF StoreFits
<1>4. /\ run_events' = run_events \cup {new}
      /\ status' = [status EXCEPT ![Run] = StoreProofs!StatusAfter(status[Run], e.type)]
  BY <1>1 DEF StoreProofs!Append
<1>5. new.event = e
  OBVIOUS
<1>6. LogFits'
  BY <1>2, <1>4, <1>5 DEF LogFits, StoreFits
<1>7. status'[Run] = StoreProofs!StatusAfter(status[Run], e.type)
  BY <1>4 DEF StoreFits, StoreProofs!StoreInv, StoreProofs!TypeOK
<1>8. status'[Run] # Store!NoRow
  <2>1. e.type \in Store!EventTypes
    BY DEF Allowed
  <2> QED BY <1>7, <2>1, SameStore
      DEF StoreProofs!StatusAfter, StoreProofs!TypeStatus, StoreProofs!NoRow
<1>9. status'[Run] = "completed" => turn' = "answer"
  <2>1. status'[Run] = "completed" => status[Run] = "completed" \/ e.type = "run_completed"
    BY <1>7 DEF StoreProofs!StatusAfter, StoreProofs!TypeStatus, StoreProofs!NoRow
  <2> QED BY <2>1 DEF StoreFits, Allowed
<1> QED BY <1>3, <1>4, <1>6, <1>8, <1>9 DEF StoreFits, Later

(* A step that does not write. *)
LEMMA NoWriteKeeps ==
  ASSUME StoreFits, UNCHANGED store, turn = "answer" => turn' = "answer"
  PROVE  StoreFits' /\ Later
<1>1. UNCHANGED <<status, conversation, run_events>>
  BY DEF store
<1>2. StoreProofs!StoreInv'
  BY <1>1, StoreProofs!StoreInvStep, StoreAssumptions DEF StoreProofs!vars, StoreFits
<1> QED BY <1>1, <1>2 DEF StoreFits, LogFits, Later

-----------------------------------------------------------------------------
(* Streams. *)

(* What a stream relies on stays true, whatever the others do, as long as    *)
(* nobody takes its place in _active.                                        *)
LEMMA FitsLater ==
  ASSUME NEW t, NEW x, StreamFits(t, x, active, run_events, status[Run], turn), Later,
         active = t => active' = t
  PROVE  StreamFits(t, x, active', run_events', status'[Run], turn')
BY DEF StreamFits, Later, Allowed

(* One stream moves to a record it fits. *)
LEMMA OneStreamMoves ==
  ASSUME StreamsFit, Later, NEW s \in Streams, NEW x,
         stream' = [stream EXCEPT ![s] = x],
         StreamFits(s, x, active', run_events', status'[Run], turn'),
         \A t \in Streams \ {s} : active = t => active' = t
  PROVE  StreamsFit'
<1>1. \A t \in Streams : stream'[t] = IF t = s THEN x ELSE stream[t]
  BY DEF StreamsFit
<1>2. ASSUME NEW t \in Streams
      PROVE  StreamFits(t, stream'[t], active', run_events', status'[Run], turn')
  <2>1. CASE t = s
    BY <1>1, <2>1
  <2>2. CASE t # s
    <3>1. stream'[t] = stream[t] /\ (active = t => active' = t)
      BY <1>1, <2>2
    <3>2. StreamFits(t, stream[t], active, run_events, status[Run], turn)
      BY DEF StreamsFit
    <3> QED BY <3>1, <3>2, FitsLater
  <2> QED BY <2>1, <2>2
<1>3. stream' = [t \in Streams |-> stream'[t]]
  BY DEF StreamsFit
<1> QED BY <1>2, <1>3 DEF StreamsFit

(* No stream moves. *)
LEMMA NoStreamMoves ==
  ASSUME StreamsFit, Later, UNCHANGED <<stream, active>>
  PROVE  StreamsFit'
<1>1. ASSUME NEW t \in Streams
      PROVE  StreamFits(t, stream'[t], active', run_events', status'[Run], turn')
  BY FitsLater DEF StreamsFit
<1> QED BY <1>1 DEF StreamsFit

(* The rest of the state keeps what it relies on. *)
LEMMA OthersLater ==
  ASSUME Later
  PROVE  /\ (\A e \in detached : Allowed(e, turn)) => (\A e \in detached : Allowed(e, turn'))
         /\ CancellersFit /\ UNCHANGED canceller => CancellersFit'
BY DEF Later, Allowed, CancellersFit

(* A record of a stream has the types of its fields. *)
LEMMA StreamHasRecord ==
  ASSUME StreamsFit, NEW s \in Streams
  PROVE  /\ StreamFits(s, stream[s], active, run_events, status[Run], turn)
         /\ stream[s] \in StreamRecords
         /\ EventIn(stream[s]) = EventOf(s)
BY DEF StreamsFit, StreamFits, EventIn, EventOf

(* A stream that is gone, or has not begun, relies on nothing. *)
LEMMA RestingFits ==
  ASSUME NEW s \in Streams, NEW holder, NEW rows, NEW current, NEW recorded
  PROVE  /\ StreamFits(s, NewStream, holder, rows, current, recorded)
         /\ StreamFits(s, [NewStream EXCEPT !.at = "gone"], holder, rows, current, recorded)
<1>1. 0 \in 0..MaxSequence + 1 /\ 0 \in Nat /\ "fixed" \in Bodies
  BY SequenceAssumption DEF Bodies
<1>2. ASSUME NEW x, x = NewStream \/ x = [NewStream EXCEPT !.at = "gone"]
      PROVE  StreamFits(s, x, holder, rows, current, recorded)
  <2>1. /\ x.at \in {"idle", "gone"} /\ x.graph = "none" /\ x.interrupt = NoInterrupt
        /\ x.committed = TRUE /\ x.sequence = 0 /\ x.closings = 0
        /\ x.type = "none" /\ x.body = "fixed" /\ x.outcome = "none"
    BY <1>2 DEF NewStream
  <2>2. x \in StreamRecords
    <3>1. NewStream \in StreamRecords
      BY <1>1 DEF NewStream, StreamRecords, Ended
    <3>2. [NewStream EXCEPT !.at = "gone"] \in StreamRecords
      BY <3>1 DEF StreamRecords, Ended
    <3> QED BY <1>2, <3>1, <3>2
  <2>3. x.at = "idle" => x = NewStream
    <3>1. x = [NewStream EXCEPT !.at = "gone"] => x.at = "gone"
      BY DEF NewStream
    <3> QED BY <1>2, <3>1
  <2> QED BY <2>1, <2>2, <2>3 DEF StreamFits, Pending, Preparing
<1> DEFINE gone == [NewStream EXCEPT !.at = "gone"]
<1>3. gone = [NewStream EXCEPT !.at = "gone"]
  OBVIOUS
<1> HIDE DEF gone
<1>4. StreamFits(s, NewStream, holder, rows, current, recorded)
      /\ StreamFits(s, gone, holder, rows, current, recorded)
  BY <1>2, <1>3
<1> QED BY <1>4 DEF gone

-----------------------------------------------------------------------------
(* Steps of one stream, by what they change. *)

(* The records, when a step changes none of them. *)
LEMMA RecordsKept ==
  ASSUME RunInv, Later, UNCHANGED <<checkpoint, turn, status, disturbed>>,
         {active', resume_lock'} \subseteq Streams \cup {Nobody}
  PROVE  RecordsFit'
BY DEF RunInv, RecordsFit, CompletedIsAnswered

(* The store fits in every state of the invariant. *)
LEMMA StoreOfInv == RunInv => StoreFits
BY DEF RunInv, StoreFits, RecordsFit, CompletedIsAnswered

(* A step of s that changes only its own record. *)
LEMMA MovesKeeps ==
  ASSUME RunInv, NEW s \in Streams, NEW x, Moves(s, x),
         StreamFits(s, x, active, run_events, status[Run], turn)
  PROVE  RunInv'
<1>1. /\ stream' = [stream EXCEPT ![s] = x]
      /\ UNCHANGED <<store, checkpoint, turn, active, resume_lock, detached, canceller,
                     disturbed>>
  BY DEF Moves
<1>2. StoreFits' /\ Later
  BY <1>1, StoreOfInv, NoWriteKeeps
<1>3. UNCHANGED <<status, conversation, run_events>>
  BY <1>1 DEF store
<1>4. StreamsFit'
  BY <1>1, <1>2, <1>3, OneStreamMoves DEF RunInv
<1>5. RecordsFit'
  BY <1>1, <1>2, <1>3, RecordsKept DEF RunInv, RecordsFit
<1> QED BY <1>1, <1>2, <1>4, <1>5, OthersLater DEF RunInv, StoreFits

(* What the end of a task frees. *)
LEMMA EndsFrees ==
  ASSUME RunInv, Later, NEW s \in Streams, Ends(s)
  PROVE  StreamsFit' /\ {active', resume_lock'} \subseteq Streams \cup {Nobody}
<1> DEFINE x == [NewStream EXCEPT !.at = "gone"]
<1>1. StreamFits(s, x, active', run_events', status'[Run], turn')
  BY RestingFits DEF Ended
<1>2. stream' = [stream EXCEPT ![s] = x] /\ \A t \in Streams \ {s} : active = t => active' = t
  BY DEF Ends
<1> HIDE DEF x
<1>3. StreamsFit'
  BY <1>1, <1>2, OneStreamMoves DEF RunInv
<1> QED BY <1>3 DEF Ends, RunInv, RecordsFit

(* A stream that ends leaves _active and the resume lock, and writes nothing. *)
LEMMA DiesKeeps ==
  ASSUME RunInv, NEW s \in Streams, Dies(s)
  PROVE  RunInv'
<1>1. /\ Ends(s)
      /\ UNCHANGED <<store, checkpoint, turn, detached, canceller, disturbed>>
  BY DEF Dies
<1>2. StoreFits' /\ Later
  BY <1>1, StoreOfInv, NoWriteKeeps
<1>3. StreamsFit' /\ {active', resume_lock'} \subseteq Streams \cup {Nobody}
  BY <1>1, <1>2, EndsFrees
<1>4. RecordsFit'
  BY <1>1, <1>2, <1>3, RecordsKept DEF store
<1> QED BY <1>1, <1>2, <1>3, <1>4, OthersLater DEF RunInv, StoreFits

(* The conversation keeps an answer, and takes no other kind of turn. *)
LEMMA RecordsKeepAnswer ==
  ASSUME turn \in {"none", "answer", "error", "cancelled"},
         NEW x \in {"answer", "error", "cancelled"}, Records(x) \/ UNCHANGED turn
  PROVE  /\ turn = "answer" => turn' = "answer"
         /\ turn' \in {"none", "answer", "error", "cancelled"}
BY DEF Records

(* The record of a stream that yields an event. *)
Yielding(old, at, type, body, graph, committed, closings) ==
  [old EXCEPT !.at = at, !.type = type, !.body = body, !.graph = graph,
              !.committed = committed, !.closings = closings]

(* The record of a stream that hands an event to observe, and what it keeps. *)
LEMMA EventRecord ==
  ASSUME NEW old \in StreamRecords,
         NEW at \in Ended \cup Preparing \cup Pending \cup {"graph", "mark", "record"},
         NEW type \in Store!EventTypes, NEW body \in Bodies,
         NEW graph \in Durables \cup {"none", "unresolved", "unresolved_started",
                                     "answered", "over"},
         NEW committed \in BOOLEAN, NEW closings \in Nat, NEW x,
         x = Yielding(old, at, type, body, graph, committed, closings)
  PROVE  /\ x \in StreamRecords
         /\ x.at = at /\ x.type = type /\ x.body = body /\ x.graph = graph
         /\ x.committed = committed /\ x.closings = closings
         /\ x.sequence = old.sequence /\ x.interrupt = old.interrupt
         /\ x.outcome = old.outcome
<1>1. Yielding(old, at, type, body, graph, committed, closings) \in StreamRecords
  BY DEF StreamRecords, Yielding
<1> QED BY <1>1 DEF StreamRecords, Yielding

(* _stream yields an event: the record it leaves fits when the event is      *)
(* allowed, the run is answered when the graph says so, and the graph is one *)
(* whose checkpoint can be written.                                          *)
LEMMA EventFits ==
  ASSUME RunInv, NEW s \in Streams, NEW type \in Store!EventTypes, NEW body \in Bodies,
         NEW graph, Event(s, type, body, graph), Later, UNCHANGED active,
         stream[s].at \in {"graph", "record"},
         graph \in {"unresolved_started", "running", "waiting", "completed", "failed", "over"},
         ~ stream[s].committed => graph \in Durables,
         graph = "waiting" => type = "run_waiting" /\ stream[s].interrupt \in Interrupts,
         graph = "completed" => turn' = "answer",
         type = "run_completed" => turn' = "answer",
         type = "run_started" => stream[s].sequence = 0,
         type \in {"progress", "run_waiting"} => stream[s].sequence + 2 <= MaxSequence
  PROVE  StreamsFit'
<1> DEFINE old == stream[s]
           at == IF active = s THEN "append" ELSE "register"
           committed == old.committed /\ (graph \notin DOMAIN Durable \/ type = "run_waiting")
           closings == old.closings + (IF type \in ClosingTypes THEN 1 ELSE 0)
           x == Yielding(old, at, type, body, graph, committed, closings)
<1>1. stream' = [stream EXCEPT ![s] = x]
  BY DEF Event, Yielding
<1>2. old \in StreamRecords /\ StreamFits(s, old, active, run_events, status[Run], turn)
  BY StreamHasRecord DEF RunInv
<1>3. DOMAIN Durable = Durables
  BY DEF Durable, Durables
<1>4. at \in {"register", "append"} /\ (at = "append" => active' = s)
  OBVIOUS
<1>5. committed \in BOOLEAN /\ (~ committed => graph \in Durables)
  BY <1>3
<1>6. closings \in Nat /\ (type = "run_waiting" => closings > 0)
  BY <1>2 DEF StreamRecords, ClosingTypes
<1>7. graph \in Durables \cup {"unresolved_started", "over"}
  BY DEF Durables
<1> HIDE DEF committed, at, closings
<1>8. /\ x \in StreamRecords
      /\ x.at = at /\ x.type = type /\ x.body = body /\ x.graph = graph
      /\ x.committed = committed /\ x.closings = closings
      /\ x.sequence = old.sequence /\ x.interrupt = old.interrupt
      /\ x.outcome = old.outcome
  <2> HIDE DEF old
  <2>1. /\ at \in Ended \cup Preparing \cup Pending \cup {"graph", "mark", "record"}
        /\ graph \in Durables \cup {"none", "unresolved", "unresolved_started",
                                    "answered", "over"}
    BY <1>4, <1>7 DEF Pending
  <2>2. old \in StreamRecords /\ committed \in BOOLEAN /\ closings \in Nat
    BY <1>2, <1>5, <1>6
  <2>3. x = Yielding(old, at, type, body, graph, committed, closings)
    OBVIOUS
  <2> HIDE DEF x
  <2> QED BY <2>1, <2>2, <2>3, EventRecord
<1> HIDE DEF x
<1>9. Allowed(EventIn(x), turn')
  <2>1. EventIn(x) = [sequence |-> old.sequence, type |-> type, body |-> body]
    BY <1>8 DEF EventIn
  <2>2. old.sequence \in 0..MaxSequence + 1
    BY <1>2 DEF StreamRecords
  <2> QED BY <2>1, <2>2 DEF Allowed
<1>10. StreamFits(s, x, active', run_events', status'[Run], turn')
  BY <1>4, <1>5, <1>6, <1>8, <1>9 DEF StreamFits, Pending, Preparing
<1> QED BY <1>1, <1>10, OneStreamMoves DEF RunInv

(* An event, possibly with a turn recorded, keeps the invariant. *)
LEMMA EventKeeps ==
  ASSUME RunInv, StreamsFit', Later,
         UNCHANGED <<store, checkpoint, active, resume_lock, detached, canceller, disturbed>>,
         turn' \in {"none", "answer", "error", "cancelled"}
  PROVE  RunInv'
<1>1. StoreFits'
  BY StoreOfInv, NoWriteKeeps DEF Later
<1>2. UNCHANGED <<status, conversation, run_events>>
  BY DEF store
<1>3. RecordsFit'
  BY <1>2 DEF RunInv, RecordsFit, CompletedIsAnswered, Later
<1> QED BY <1>1, <1>3, OthersLater DEF RunInv, StoreFits

-----------------------------------------------------------------------------
(* The steps of a stream before its graph begins. *)

(* The next sequence of a run that has a row is within reach. *)
LEMMA NextSequenceInReach ==
  ASSUME RunInv, status[Run] # Store!NoRow
  PROVE  NextSequence \in 0..MaxSequence + 1
<1>1. PICK n \in 0..MaxSequence : StoreProofs!SequencesOf(Run) = 0..n
  BY SameStore DEF RunInv, StoreProofs!StoreInv, StoreProofs!ContiguousLog
<1>2. StoreProofs!Max(0..n) = n
  BY <1>1, StoreAssumptions, StoreProofs!MaxOfSegment, SequenceAssumption
<1>3. Max(Store!SequencesOf(Run)) = n
  BY <1>1, <1>2, SameMax DEF Store!SequencesOf, StoreProofs!SequencesOf, Store!LogOf,
                             StoreProofs!LogOf
<1> QED BY <1>1, <1>3, SequenceAssumption DEF NextSequence

(* run: the stream starts at its input, before anything is recorded. *)
LEMMA StartRunKeeps ==
  ASSUME RunInv, StartRun
  PROVE  RunInv'
<1>1. PICK graph \in {"input", "unresolved"} :
        Moves(Starter, [stream[Starter] EXCEPT !.at = "graph", !.graph = graph,
                                               !.committed = graph = "unresolved"])
  BY DEF StartRun
<1>2. Starter \in Streams
  BY DEF Streams
<1>3. stream[Starter] = NewStream
  BY <1>2, StreamHasRecord DEF RunInv, StartRun, StreamFits
<1> DEFINE x == [NewStream EXCEPT !.at = "graph", !.graph = graph,
                                  !.committed = graph = "unresolved"]
<1>4. Moves(Starter, x)
  BY <1>1, <1>3
<1>5. /\ x.at = "graph" /\ x.graph = graph /\ x.interrupt = NoInterrupt
      /\ x.committed = (graph = "unresolved") /\ x.sequence = 0
  BY DEF NewStream
<1>6. x \in StreamRecords
  <2>1. 0 \in 0..MaxSequence + 1 /\ "fixed" \in Bodies
    BY SequenceAssumption DEF Bodies
  <2> QED BY <2>1 DEF NewStream, StreamRecords, Durables
<1> HIDE DEF x
<1>7. StreamFits(Starter, x, active, run_events, status[Run], turn)
  BY <1>5, <1>6 DEF StreamFits, Pending, Preparing, Durables
<1> QED BY <1>2, <1>4, <1>7, MovesKeeps

(* A stream that prepares a resume keeps the interrupt it was asked about.   *)
LEMMA PreparesFits ==
  ASSUME RunInv, NEW s \in Streams, NEW old, NEW x,
         StreamFits(s, old, active, run_events, status[Run], turn),
         NEW at \in Preparing, NEW interrupt \in Interrupts,
         NEW sequence \in 0..MaxSequence + 1,
         x = [old EXCEPT !.at = at, !.interrupt = interrupt, !.sequence = sequence],
         old.graph = "none", at \in {"load", "sequence"} => status[Run] # Store!NoRow
  PROVE  StreamFits(s, x, active, run_events, status[Run], turn)
<1>1. old \in StreamRecords
  BY DEF StreamFits
<1>2. /\ x \in StreamRecords
      /\ x.at = at /\ x.graph = old.graph /\ x.interrupt = interrupt
      /\ x.committed = old.committed /\ x.outcome = old.outcome
  BY <1>1 DEF StreamRecords
<1> QED BY <1>2 DEF StreamFits, Pending, Preparing, Durables

(* resume: reading the status, the checkpoint and the next sequence. *)
LEMMA PreparesKeeps ==
  ASSUME RunInv, NEW s \in Streams, ReadsStatus(s) \/ LoadsState(s) \/ ReadsSequence(s)
  PROVE  RunInv'
<1> DEFINE old == stream[s]
<1>1. /\ StreamFits(s, old, active, run_events, status[Run], turn)
      /\ old \in StreamRecords
  BY StreamHasRecord DEF RunInv
<1>2. CASE ReadsStatus(s)
  <2>1. PICK i \in Interrupts : Moves(s, [old EXCEPT !.at = "load", !.interrupt = i])
    BY <1>2 DEF ReadsStatus
  <2>2. old = NewStream /\ status[Run] # Store!NoRow
    BY <1>1, <1>2 DEF ReadsStatus, StreamFits, Store!NoRow
  <2>3. old.graph = "none" /\ old.sequence \in 0..MaxSequence + 1
    BY <2>2, SequenceAssumption DEF NewStream
  <2>4. [old EXCEPT !.at = "load", !.interrupt = i]
          = [old EXCEPT !.at = "load", !.interrupt = i, !.sequence = old.sequence]
    BY <2>2 DEF NewStream
  <2> QED BY <1>1, <2>1, <2>2, <2>3, <2>4, PreparesFits, MovesKeeps DEF Preparing
<1>3. CASE LoadsState(s)
  <2>1. CASE IsWaitingFor(old.interrupt)
    <3>1. Moves(s, [old EXCEPT !.at = "sequence"])
      BY <1>3, <2>1 DEF LoadsState
    <3>2. /\ old.graph = "none" /\ old.sequence \in 0..MaxSequence + 1
          /\ old.interrupt \in Interrupts /\ status[Run] # Store!NoRow
      BY <1>1, <1>3 DEF LoadsState, StreamFits, Preparing, StreamRecords
    <3>3. [old EXCEPT !.at = "sequence"]
            = [old EXCEPT !.at = "sequence", !.interrupt = old.interrupt,
                          !.sequence = old.sequence]
      BY <1>1 DEF StreamRecords
    <3> QED BY <1>1, <3>1, <3>2, <3>3, PreparesFits, MovesKeeps DEF Preparing
  <2>2. CASE ~ IsWaitingFor(old.interrupt)
    BY <1>3, <2>2, DiesKeeps DEF LoadsState
  <2> QED BY <2>1, <2>2
<1>4. CASE ReadsSequence(s)
  <2>1. Moves(s, [old EXCEPT !.at = "lock", !.sequence = NextSequence])
    BY <1>4 DEF ReadsSequence
  <2>2. old.graph = "none" /\ old.interrupt \in Interrupts /\ status[Run] # Store!NoRow
    BY <1>1, <1>4 DEF ReadsSequence, StreamFits, Preparing
  <2>3. NextSequence \in 0..MaxSequence + 1
    BY <2>2, NextSequenceInReach
  <2>4. [old EXCEPT !.at = "lock", !.sequence = NextSequence]
          = [old EXCEPT !.at = "lock", !.interrupt = old.interrupt,
                        !.sequence = NextSequence]
    BY <1>1 DEF StreamRecords
  <2> QED BY <1>1, <2>1, <2>2, <2>3, <2>4, PreparesFits, MovesKeeps DEF Preparing
<1> QED BY <1>2, <1>3, <1>4

-----------------------------------------------------------------------------
(* The steps of a stream in its graph. *)

(* A stream that only changes its place, and perhaps its graph. *)
LEMMA TurnsFit ==
  ASSUME NEW s \in Streams, NEW old, NEW x, NEW graph, NEW at,
         StreamFits(s, old, active, run_events, status[Run], turn),
         x = [old EXCEPT !.at = at, !.graph = graph],
         \/ at = "reload" /\ old.at \in Preparing /\ graph = old.graph
         \/ at = "graph" /\ old.at \in Preparing /\ graph = "answered"
  PROVE  StreamFits(s, x, active, run_events, status[Run], turn)
<1>1. old \in StreamRecords
  BY DEF StreamFits
<1>2. at \in Ended \cup Preparing \cup Pending \cup {"graph", "mark", "record"}
  BY DEF Preparing
<1>3. graph \in Durables \cup {"none", "unresolved", "unresolved_started", "answered", "over"}
  BY <1>1 DEF StreamRecords
<1>4. /\ x \in StreamRecords
      /\ x.at = at /\ x.graph = graph /\ x.interrupt = old.interrupt
      /\ x.committed = old.committed
  BY <1>1, <1>2, <1>3 DEF StreamRecords
<1>5. old.graph = "none" /\ old.interrupt \in Interrupts
  BY DEF StreamFits, Preparing
<1> QED BY <1>4, <1>5 DEF StreamFits, Pending, Preparing, Durables

(* resume: taking the lock of the run. *)
LEMMA TakesLockKeeps ==
  ASSUME RunInv, NEW s \in Streams, TakesLock(s)
  PROVE  RunInv'
<1> DEFINE old == stream[s]
           x == [old EXCEPT !.at = "reload"]
<1>1. /\ StreamFits(s, old, active, run_events, status[Run], turn)
      /\ old \in StreamRecords /\ old.at = "lock"
  BY StreamHasRecord DEF RunInv, TakesLock
<1>2. x = [old EXCEPT !.at = "reload", !.graph = old.graph]
  BY <1>1 DEF StreamRecords
<1>3. /\ stream' = [stream EXCEPT ![s] = x] /\ resume_lock' = s
      /\ UNCHANGED <<store, checkpoint, turn, active, detached, canceller, disturbed>>
  BY DEF TakesLock
<1> HIDE DEF x
<1>4. StreamFits(s, x, active, run_events, status[Run], turn)
  BY <1>1, <1>2, TurnsFit DEF Preparing
<1>5. StoreFits' /\ Later
  BY <1>3, StoreOfInv, NoWriteKeeps
<1>6. UNCHANGED <<status, conversation, run_events>>
  BY <1>3 DEF store
<1>7. StreamsFit'
  BY <1>3, <1>4, <1>5, <1>6, OneStreamMoves DEF RunInv
<1>8. RecordsFit'
  BY <1>3, <1>5, <1>6, RecordsKept DEF RunInv, RecordsFit
<1> QED BY <1>3, <1>5, <1>7, <1>8, OthersLater DEF RunInv, StoreFits

(* resume: after the lock, the graph goes on with the answer. *)
LEMMA ResumesKeeps ==
  ASSUME RunInv, NEW s \in Streams, Resumes(s)
  PROVE  RunInv'
<1> DEFINE old == stream[s]
           x == [old EXCEPT !.at = "graph", !.graph = "answered"]
<1>1. StreamFits(s, old, active, run_events, status[Run], turn) /\ old.at = "reload"
  BY StreamHasRecord DEF RunInv, Resumes
<1>2. x = [old EXCEPT !.at = "graph", !.graph = "answered"] /\ Moves(s, x)
  BY DEF Resumes
<1> HIDE DEF x
<1>3. StreamFits(s, x, active, run_events, status[Run], turn)
  BY <1>1, <1>2, TurnsFit DEF Preparing
<1> QED BY <1>2, <1>3, MovesKeeps

(* An event that records nothing. *)
LEMMA EmitsKeeps ==
  ASSUME RunInv, NEW s \in Streams, NEW type \in Store!EventTypes, NEW body \in Bodies,
         NEW graph, Emits(s, type, body, graph),
         stream[s].at = "graph",
         graph \in {"unresolved_started", "running", "waiting", "completed", "failed", "over"},
         ~ stream[s].committed => graph \in Durables,
         graph = "waiting" => type = "run_waiting" /\ stream[s].interrupt \in Interrupts,
         graph = "completed" => turn = "answer",
         type = "run_completed" => turn = "answer",
         type = "run_started" => stream[s].sequence = 0,
         type \in {"progress", "run_waiting"} => stream[s].sequence + 2 <= MaxSequence
  PROVE  RunInv'
<1>1. /\ Event(s, type, body, graph)
      /\ UNCHANGED <<store, checkpoint, turn, active, resume_lock, detached, canceller,
                     disturbed>>
  BY DEF Emits
<1>2. Later
  BY <1>1, StoreOfInv, NoWriteKeeps
<1>3. StreamsFit'
  BY <1>1, <1>2, EventFits
<1> QED BY <1>1, <1>2, <1>3, EventKeeps DEF RunInv, RecordsFit

(* The events of the graph: each may be written as it was yielded. *)
LEMMA EmittingKeeps ==
  ASSUME RunInv, NEW s \in Streams,
         \/ ReportsUnresolved(s) \/ Initializes(s) \/ Progresses(s) \/ Waits(s)
         \/ IsAnswered(s) \/ Finalizes(s)
  PROVE  RunInv'
<1> DEFINE old == stream[s]
<1>1. StreamFits(s, old, active, run_events, status[Run], turn) /\ old \in StreamRecords
  BY StreamHasRecord DEF RunInv
<1>2. {"run_started", "run_failed", "progress", "run_waiting", "run_resumed",
       "run_completed"} \subseteq Store!EventTypes
  BY DEF Store!EventTypes, Store!TerminalTypes
<1>3. s \in Bodies /\ "fixed" \in Bodies /\ Interrupts \subseteq Bodies
  BY DEF Bodies
<1>4. CASE ReportsUnresolved(s)
  <2>1. /\ old.at = "graph" /\ old.graph \in {"unresolved", "unresolved_started"}
        /\ old.committed = TRUE
        /\ old.graph = "unresolved" => old.sequence = 0
    BY <1>1, <1>4 DEF ReportsUnresolved, StreamFits, Durables, StreamRecords
  <2>2. CASE old.graph = "unresolved" /\ Emits(s, "run_started", s, "unresolved_started")
    BY <1>2, <1>3, <2>1, <2>2, EmitsKeeps
  <2>3. CASE Emits(s, "run_failed", "fixed", "unresolved_started")
    BY <1>2, <1>3, <2>1, <2>3, EmitsKeeps
  <2> QED BY <1>4, <2>2, <2>3 DEF ReportsUnresolved
<1>5. CASE Initializes(s)
  <2>1. /\ old.at = "graph" /\ old.sequence = 0 /\ Emits(s, "run_started", s, "running")
    BY <1>1, <1>5 DEF Initializes, InGraph, StreamFits
  <2> QED BY <1>2, <1>3, <2>1, EmitsKeeps DEF Durables
<1>6. CASE Progresses(s)
  <2>1. /\ old.at = "graph" /\ old.sequence + 2 <= MaxSequence
        /\ Emits(s, "progress", s, "running")
    BY <1>6 DEF Progresses, InGraph, Room
  <2> QED BY <1>2, <1>3, <2>1, EmitsKeeps DEF Durables
<1>7. CASE Waits(s)
  <2>1. /\ old.at = "graph" /\ old.sequence + 2 <= MaxSequence /\ old.interrupt \in Interrupts
        /\ Emits(s, "run_waiting", old.interrupt, "waiting")
    BY <1>1, <1>7 DEF Waits, InGraph, StreamFits
  <2> QED BY <1>2, <1>3, <2>1, EmitsKeeps DEF Durables
<1>8. CASE IsAnswered(s)
  <2>1. /\ old.at = "graph" /\ old.interrupt \in Interrupts
        /\ Emits(s, "run_resumed", old.interrupt, "running")
    BY <1>1, <1>8 DEF IsAnswered, InGraph, StreamFits
  <2> QED BY <1>2, <1>3, <2>1, EmitsKeeps DEF Durables
<1>9. CASE Finalizes(s)
  <2>1. /\ old.at = "graph" /\ turn = "answer" /\ Emits(s, "run_completed", s, "completed")
    BY <1>1, <1>9 DEF Finalizes, InGraph, StreamFits
  <2> QED BY <1>2, <1>3, <2>1, EmitsKeeps DEF Durables
<1> QED BY <1>4, <1>5, <1>6, <1>7, <1>8, <1>9

(* An event with the turn that goes with a failure or a cancellation. *)
LEMMA FailsKeeps ==
  ASSUME RunInv, NEW s \in Streams, Fails(s) \/ Reports(s)
  PROVE  RunInv'
<1> DEFINE old == stream[s]
<1>1. StreamFits(s, old, active, run_events, status[Run], turn) /\ old \in StreamRecords
  BY StreamHasRecord DEF RunInv
<1>2. PICK type \in {"run_failed", "run_cancelled"}, body \in {"fixed", "active"},
           graph \in {"failed", "over"}, x \in {"error", "cancelled"} :
        /\ BestEffort(x) /\ Event(s, type, body, graph)
        /\ UNCHANGED <<store, checkpoint, active, resume_lock, detached, canceller, disturbed>>
        /\ old.at \in {"graph", "record"}
        /\ ~ old.committed => graph \in Durables
  <2>1. CASE Fails(s)
    BY <2>1 DEF Fails, Durables
  <2>2. CASE Reports(s)
    <3>1. old.at = "record" /\ old.committed = TRUE
      BY <1>1, <2>2 DEF Reports, StreamFits, StreamRecords
    <3>2. CASE old.outcome = "cancelled"
      BY <2>2, <3>1, <3>2 DEF Reports
    <3>3. CASE old.outcome # "cancelled"
      BY <2>2, <3>1, <3>3 DEF Reports
    <3> QED BY <3>2, <3>3
  <2> QED BY <2>1, <2>2
<1>3. turn \in {"none", "answer", "error", "cancelled"}
  BY DEF RunInv, RecordsFit
<1>4. /\ turn = "answer" => turn' = "answer"
      /\ turn' \in {"none", "answer", "error", "cancelled"}
  BY <1>2, <1>3, RecordsKeepAnswer DEF BestEffort
<1>5. Later
  BY <1>2, <1>4, StoreOfInv, NoWriteKeeps
<1>6. type \in Store!EventTypes /\ body \in Bodies
  BY DEF Store!EventTypes, Store!TerminalTypes, Bodies
<1>7. StreamsFit'
  BY <1>2, <1>5, <1>6, EventFits
<1> QED BY <1>2, <1>4, <1>5, <1>7, EventKeeps

(* The graph asks: a checkpoint of the interrupt, and room for an answer. *)
LEMMA AsksKeeps ==
  ASSUME RunInv, NEW s \in Streams, Asks(s)
  PROVE  RunInv'
<1> DEFINE old == stream[s]
<1>1. PICK i \in Interrupts :
        Moves(s, [old EXCEPT !.graph = "waiting", !.interrupt = i, !.committed = FALSE])
  BY DEF Asks
<1> DEFINE x == [old EXCEPT !.graph = "waiting", !.interrupt = i, !.committed = FALSE]
<1>2. StreamFits(s, old, active, run_events, status[Run], turn) /\ old \in StreamRecords
  BY StreamHasRecord DEF RunInv
<1>3. old.at = "graph" /\ old.sequence + 2 <= MaxSequence
  BY DEF Asks, InGraph, Room
<1>4. /\ x \in StreamRecords /\ x.at = "graph" /\ x.graph = "waiting"
      /\ x.interrupt = i /\ x.committed = FALSE /\ x.sequence = old.sequence
  BY <1>2, <1>3 DEF StreamRecords, Durables
<1>5. Moves(s, x)
  BY <1>1
<1> HIDE DEF x
<1>6. StreamFits(s, x, active, run_events, status[Run], turn)
  BY <1>3, <1>4 DEF StreamFits, Pending, Preparing, Durables
<1> QED BY <1>5, <1>6, MovesKeeps

(* The graph raises: the stream goes to its handler of failures. *)
LEMMA RaisesKeeps ==
  ASSUME RunInv, NEW s \in Streams, Raises(s)
  PROVE  RunInv'
<1> DEFINE old == stream[s]
           x == [old EXCEPT !.at = "mark", !.outcome = "failed"]
<1>1. StreamFits(s, old, active, run_events, status[Run], turn) /\ old \in StreamRecords
  BY StreamHasRecord DEF RunInv
<1>2. /\ x \in StreamRecords /\ x.at = "mark" /\ x.graph = old.graph
      /\ x.interrupt = old.interrupt /\ x.committed = old.committed
      /\ x.sequence = old.sequence /\ x.closings = old.closings /\ x.outcome = "failed"
  BY <1>1 DEF StreamRecords
<1>3. Moves(s, x)
  BY DEF Raises
<1> HIDE DEF x
<1>4. StreamFits(s, x, active, run_events, status[Run], turn)
  BY <1>1, <1>2 DEF StreamFits, Pending, Preparing
<1> QED BY <1>3, <1>4, MovesKeeps

(* The event was shown: the next one has the next sequence, which is within  *)
(* reach because the one that was shown is recorded.                         *)
LEMMA IsReadKeeps ==
  ASSUME RunInv, NEW s \in Streams, IsRead(s)
  PROVE  RunInv'
<1> DEFINE old == stream[s]
           next == old.sequence + 1
           x == [old EXCEPT !.at = "graph", !.sequence = next, !.type = "none",
                            !.body = "fixed"]
<1>1. /\ StreamFits(s, old, active, run_events, status[Run], turn)
      /\ old \in StreamRecords /\ old.at = "yielded"
  BY StreamHasRecord DEF RunInv, IsRead
<1>2. next \in 0..MaxSequence + 1 /\ "fixed" \in Bodies
  <2>1. [run |-> Run, event |-> EventIn(old)] \in run_events
    BY <1>1 DEF StreamFits
  <2>2. EventIn(old) \in StoreProofs!Events
    BY <2>1 DEF RunInv, StoreProofs!StoreInv, StoreProofs!TypeOK, StoreProofs!Rows
  <2>3. EventIn(old).sequence \in 0..MaxSequence /\ EventIn(old).sequence = old.sequence
    BY <2>2 DEF StoreProofs!Events, EventIn
  <2> QED BY <2>3, SequenceAssumption DEF Bodies
<1> HIDE DEF next
<1>3. /\ x \in StreamRecords /\ x.at = "graph" /\ x.graph = old.graph
      /\ x.interrupt = old.interrupt /\ x.committed = old.committed
      /\ x.closings = old.closings
  BY <1>1, <1>2 DEF StreamRecords
<1>4. Moves(s, x)
  BY DEF IsRead, next
<1> HIDE DEF x
<1>5. old.graph \notin {"input", "unresolved"} /\ (old.graph = "waiting" => old.closings > 0)
  BY <1>1 DEF StreamFits, Pending
<1>6. x.graph = "waiting" => x.closings # 0
  BY <1>1, <1>3, <1>5 DEF StreamRecords
<1>7. StreamFits(s, x, active, run_events, status[Run], turn)
  BY <1>1, <1>3, <1>5, <1>6 DEF StreamFits, Pending, Preparing
<1> QED BY <1>4, <1>7, MovesKeeps

(* A step of s that writes nothing, keeps the places and the lock, and       *)
(* records a turn or a checkpoint that agrees with it.                       *)
LEMMA RecordingKeeps ==
  ASSUME RunInv, NEW s \in Streams, NEW x, stream' = [stream EXCEPT ![s] = x],
         UNCHANGED <<store, active, resume_lock, detached, canceller, disturbed>>,
         turn = "answer" => turn' = "answer",
         turn' \in {"none", "answer", "error", "cancelled"},
         checkpoint' \in [status : {"none", "input", "running", "waiting", "completed",
                                    "failed", "cancelled"},
                          interrupt : Interrupts \cup {NoInterrupt}],
         checkpoint'.status = "completed" => turn' = "answer",
         StreamFits(s, x, active, run_events, status[Run], turn')
  PROVE  RunInv'
<1>1. StoreFits' /\ Later
  BY StoreOfInv, NoWriteKeeps
<1>2. UNCHANGED <<status, conversation, run_events>>
  BY DEF store
<1>3. StreamsFit'
  BY <1>1, <1>2, OneStreamMoves DEF RunInv
<1>4. RecordsFit'
  BY <1>1, <1>2 DEF RunInv, RecordsFit, CompletedIsAnswered, Later
<1> QED BY <1>1, <1>3, <1>4, OthersLater DEF RunInv, StoreFits

(* persist_turn: the only step that records an answer. *)
LEMMA PersistsTurnKeeps ==
  ASSUME RunInv, NEW s \in Streams, PersistsTurn(s)
  PROVE  RunInv'
<1> DEFINE old == stream[s]
           x == [old EXCEPT !.graph = "recorded", !.committed = FALSE]
<1>1. /\ StreamFits(s, old, active, run_events, status[Run], turn)
      /\ old \in StreamRecords /\ old.at = "graph"
  BY StreamHasRecord DEF RunInv, PersistsTurn, InGraph
<1>2. /\ x \in StreamRecords /\ x.at = "graph" /\ x.graph = "recorded" /\ x.committed = FALSE
  BY <1>1 DEF StreamRecords, Durables
<1>3. /\ stream' = [stream EXCEPT ![s] = x] /\ turn' = "answer"
      /\ UNCHANGED <<store, checkpoint, active, resume_lock, detached, canceller, disturbed>>
  BY DEF PersistsTurn, Records
<1> HIDE DEF x
<1>4. StreamFits(s, x, active, run_events, status[Run], "answer")
  BY <1>2 DEF StreamFits, Pending, Preparing, Durables
<1> QED BY <1>3, <1>4, RecordingKeeps DEF RunInv, RecordsFit

(* A checkpoint is written, of the state in which the stream last was. *)
LEMMA CommitsKeeps ==
  ASSUME RunInv, NEW s \in Streams, Commits(s)
  PROVE  RunInv'
<1> DEFINE old == stream[s]
           x == [old EXCEPT !.committed = TRUE]
<1>1. StreamFits(s, old, active, run_events, status[Run], turn) /\ old \in StreamRecords
  BY StreamHasRecord DEF RunInv
<1>2. old.graph \in Durables /\ old.at \in Pending \cup {"graph"}
  BY <1>1 DEF Commits, StreamFits, Pending
<1>3. checkpoint' = [status    |-> Durable[old.graph],
                     interrupt |-> IF old.graph = "waiting" THEN old.interrupt
                                   ELSE NoInterrupt]
  BY DEF Commits
<1>4. /\ Durable[old.graph] \in {"input", "running", "waiting", "completed", "failed"}
      /\ Durable[old.graph] = "completed" => old.graph = "completed"
  BY <1>2 DEF Durable, Durables
<1>5. /\ checkpoint' \in [status : {"none", "input", "running", "waiting", "completed",
                                    "failed", "cancelled"},
                          interrupt : Interrupts \cup {NoInterrupt}]
      /\ checkpoint'.status = Durable[old.graph]
  BY <1>1, <1>3, <1>4 DEF StreamRecords
<1>6. checkpoint'.status = "completed" => turn = "answer"
  BY <1>1, <1>4, <1>5 DEF StreamFits
<1>7. /\ x \in StreamRecords /\ x.at = old.at /\ x.graph = old.graph
      /\ x.interrupt = old.interrupt /\ x.committed = TRUE /\ x.sequence = old.sequence
      /\ x.closings = old.closings /\ x.outcome = old.outcome
      /\ x.type = old.type /\ x.body = old.body
  BY <1>1 DEF StreamRecords
<1>8. /\ stream' = [stream EXCEPT ![s] = x]
      /\ UNCHANGED <<store, turn, active, resume_lock, detached, canceller, disturbed>>
  BY DEF Commits
<1> HIDE DEF x
<1>9. EventIn(x) = EventIn(old)
  BY <1>7 DEF EventIn
<1>10. StreamFits(s, x, active, run_events, status[Run], turn)
  BY <1>1, <1>2, <1>7, <1>9 DEF StreamFits, Pending, Preparing
<1>11. turn \in {"none", "answer", "error", "cancelled"}
  BY DEF RunInv, RecordsFit
<1> QED BY <1>5, <1>6, <1>8, <1>10, <1>11, RecordingKeeps

(* A handler marks the checkpoint, and keeps what the conversation holds. *)
LEMMA MarksCheckpointKeeps ==
  ASSUME RunInv, NEW s \in Streams, MarksCheckpoint(s)
  PROVE  RunInv'
<1> DEFINE old == stream[s]
           x == [old EXCEPT !.at = "record", !.committed = TRUE]
<1>1. /\ StreamFits(s, old, active, run_events, status[Run], turn)
      /\ old \in StreamRecords /\ old.at = "mark"
  BY StreamHasRecord DEF RunInv, MarksCheckpoint
<1>2. checkpoint' = [status |-> old.outcome, interrupt |-> NoInterrupt]
      /\ old.outcome \in {"failed", "cancelled"}
  BY <1>1 DEF MarksCheckpoint, StreamFits
<1>3. /\ checkpoint' \in [status : {"none", "input", "running", "waiting", "completed",
                                    "failed", "cancelled"},
                          interrupt : Interrupts \cup {NoInterrupt}]
      /\ checkpoint'.status # "completed"
  BY <1>2
<1>4. /\ x \in StreamRecords /\ x.at = "record" /\ x.graph = old.graph
      /\ x.interrupt = old.interrupt /\ x.committed = TRUE /\ x.sequence = old.sequence
      /\ x.closings = old.closings /\ x.outcome = old.outcome
  BY <1>1 DEF StreamRecords
<1>5. /\ stream' = [stream EXCEPT ![s] = x]
      /\ UNCHANGED <<store, turn, active, resume_lock, detached, canceller, disturbed>>
  BY DEF MarksCheckpoint
<1> HIDE DEF x
<1>6. StreamFits(s, x, active, run_events, status[Run], turn)
  BY <1>1, <1>2, <1>4 DEF StreamFits, Pending, Preparing
<1>7. turn \in {"none", "answer", "error", "cancelled"}
  BY DEF RunInv, RecordsFit
<1> QED BY <1>3, <1>5, <1>6, <1>7, RecordingKeeps

-----------------------------------------------------------------------------
(* observe: the place in _active and the append. *)
LEMMA RegistersKeeps ==
  ASSUME RunInv, NEW s \in Streams, Registers(s)
  PROVE  RunInv'
<1> DEFINE old == stream[s]
           x == [old EXCEPT !.at = "append"]
<1>1. CASE active = Nobody
  <2>1. /\ StreamFits(s, old, active, run_events, status[Run], turn)
        /\ old \in StreamRecords /\ old.at = "register"
    BY StreamHasRecord DEF RunInv, Registers
  <2>2. /\ x \in StreamRecords /\ x.at = "append" /\ x.graph = old.graph
        /\ x.interrupt = old.interrupt /\ x.committed = old.committed
        /\ x.sequence = old.sequence /\ x.closings = old.closings
        /\ x.type = old.type /\ x.body = old.body
    BY <2>1 DEF StreamRecords, Pending
  <2>3. /\ stream' = [stream EXCEPT ![s] = x] /\ active' = s
        /\ UNCHANGED <<store, checkpoint, turn, resume_lock, detached, canceller, disturbed>>
    BY <1>1 DEF Registers
  <2> HIDE DEF x
  <2>4. EventIn(x) = EventIn(old)
    BY <2>2 DEF EventIn
  <2>5. StreamFits(s, x, s, run_events, status[Run], turn)
    BY <2>1, <2>2, <2>4 DEF StreamFits, Pending, Preparing
  <2>6. StoreFits' /\ Later
    BY <2>3, StoreOfInv, NoWriteKeeps
  <2>7. UNCHANGED <<status, conversation, run_events>>
    BY <2>3 DEF store
  <2>8. \A t \in Streams \ {s} : active = t => active' = t
    BY <1>1, NobodyAssumption DEF Streams
  <2>9. StreamsFit'
    BY <2>3, <2>5, <2>6, <2>7, <2>8, OneStreamMoves DEF RunInv
  <2>10. RecordsFit'
    BY <2>3, <2>6, <2>7, RecordsKept DEF RunInv, RecordsFit
  <2> QED BY <2>3, <2>6, <2>9, <2>10, OthersLater DEF RunInv, StoreFits
<1>2. CASE active # Nobody
  BY <1>2, DiesKeeps DEF Registers
<1> QED BY <1>1, <1>2

(* The event a stream hands over may be written. *)
LEMMA PendingIsAllowed ==
  ASSUME RunInv, NEW s \in Streams, stream[s].at \in Pending
  PROVE  Allowed(EventOf(s), turn)
BY StreamHasRecord DEF RunInv, StreamFits

(* observe: the append is a step of the store, and its event may be written. *)
LEMMA AppendsKeeps ==
  ASSUME RunInv, NEW s \in Streams, Appends(s)
  PROVE  RunInv'
<1> DEFINE old == stream[s]
           x == [old EXCEPT !.at = "yielded"]
           recorded == /\ \/ Writes(EventOf(s))
                          \/ Store!AlreadyRecorded(Run, EventOf(s)) /\ UNCHANGED store
                       /\ stream' = [stream EXCEPT ![s].at = "yielded"]
                       /\ UNCHANGED <<checkpoint, turn, active, resume_lock, detached,
                                      canceller, disturbed>>
<1>1. CASE recorded
  <2>1. /\ StreamFits(s, old, active, run_events, status[Run], turn)
        /\ old \in StreamRecords /\ old.at = "append" /\ EventIn(old) = EventOf(s)
    BY StreamHasRecord DEF RunInv, Appends
  <2>2. StoreFits' /\ Later /\ [run |-> Run, event |-> EventOf(s)] \in run_events'
    <3>1. CASE Writes(EventOf(s))
      <4>1. Allowed(EventOf(s), turn)
        BY <2>1, PendingIsAllowed DEF Pending
      <4> QED BY <1>1, <3>1, <4>1, StoreOfInv, WritesKeeps
    <3>2. CASE Store!AlreadyRecorded(Run, EventOf(s)) /\ UNCHANGED store
      <4>1. StoreFits' /\ Later
        BY <1>1, <3>2, StoreOfInv, NoWriteKeeps
      <4> QED BY <3>2, <4>1 DEF Store!AlreadyRecorded, Later
    <3> QED BY <1>1, <3>1, <3>2
  <2>3. /\ x \in StreamRecords /\ x.at = "yielded" /\ x.graph = old.graph
        /\ x.interrupt = old.interrupt /\ x.committed = old.committed
        /\ x.sequence = old.sequence /\ x.closings = old.closings
        /\ x.type = old.type /\ x.body = old.body
    BY <2>1 DEF StreamRecords, Pending
  <2>4. stream' = [stream EXCEPT ![s] = x]
    BY <1>1
  <2> HIDE DEF x
  <2>5. EventIn(x) = EventOf(s) /\ EventIn(x) = EventIn(old)
    BY <2>1, <2>3 DEF EventIn
  <2>6. StreamFits(s, x, active', run_events', status'[Run], turn')
    BY <1>1, <2>1, <2>2, <2>3, <2>5 DEF StreamFits, Pending, Preparing
  <2>7. StreamsFit'
    BY <1>1, <2>2, <2>4, <2>6, OneStreamMoves DEF RunInv
  <2>8. RecordsFit'
    BY <1>1, <2>2 DEF RunInv, RecordsFit, CompletedIsAnswered, StoreFits
  <2> QED BY <1>1, <2>2, <2>7, <2>8, OthersLater DEF RunInv, StoreFits
<1>2. CASE Dies(s)
  BY <1>2, DiesKeeps
<1>3. recorded \/ Dies(s)
  BY DEF Appends
<1> HIDE DEF recorded
<1> QED BY <1>1, <1>2, <1>3

-----------------------------------------------------------------------------
(* Tasks that are abandoned.  The thread that appends may go on: the event   *)
(* its stream had is one that may be written, and stays so.                  *)
LEMMA LeavesKeeps ==
  ASSUME RunInv, NEW s \in Streams, CancellersFit',
         IF stream[s].at = "append" THEN LeavesAppend(s) ELSE Leaves(s)
  PROVE  RunInv'
<1>1. /\ Ends(s) /\ disturbed' = TRUE /\ UNCHANGED <<store, checkpoint, turn>>
      /\ \/ UNCHANGED detached
         \/ stream[s].at = "append" /\ detached' = detached \cup {EventOf(s)}
  BY DEF LeavesAppend, Leaves
<1>2. StoreFits' /\ Later
  BY <1>1, StoreOfInv, NoWriteKeeps
<1>3. StreamsFit' /\ {active', resume_lock'} \subseteq Streams \cup {Nobody}
  BY <1>1, <1>2, EndsFrees
<1>4. \A e \in detached' : Allowed(e, turn')
  BY <1>1, PendingIsAllowed DEF Pending, RunInv
<1>5. RecordsFit'
  BY <1>1, <1>3 DEF store, RunInv, RecordsFit, CompletedIsAnswered
<1> QED BY <1>2, <1>3, <1>4, <1>5 DEF RunInv, StoreFits

(* A client that goes away: an append under way goes on in its thread. *)
LEMMA DisconnectKeeps ==
  ASSUME RunInv, NEW s \in Streams, Disconnect(s)
  PROVE  RunInv'
<1>1. IF stream[s].at = "append" THEN LeavesAppend(s) ELSE Leaves(s)
  BY DEF Disconnect
<1>2. UNCHANGED <<store, turn, canceller>>
  BY <1>1 DEF Disconnect, LeavesAppend, Leaves
<1>3. CancellersFit'
  BY <1>2 DEF RunInv, CancellersFit, store
<1> QED BY <1>1, <1>3, LeavesKeeps

(* The thread of an append whose stream is gone writes, or is refused. *)
LEMMA DetachedWriteKeeps ==
  ASSUME RunInv, DetachedWrite
  PROVE  RunInv'
<1>1. PICK e \in detached :
        /\ detached' = detached \ {e}
        /\ \/ Writes(e)
           \/ ~ Accepted(e) /\ UNCHANGED store
        /\ UNCHANGED <<checkpoint, turn, active, resume_lock, stream, canceller, disturbed>>
  BY DEF DetachedWrite
<1>2. StoreFits' /\ Later
  <2>1. Allowed(e, turn)
    BY DEF RunInv
  <2> QED BY <1>1, <2>1, StoreOfInv, WritesKeeps, NoWriteKeeps
<1>3. StreamsFit'
  BY <1>1, <1>2, NoStreamMoves DEF RunInv
<1>4. RecordsFit'
  BY <1>1, <1>2 DEF RunInv, RecordsFit, CompletedIsAnswered, StoreFits
<1>5. \A d \in detached' : Allowed(d, turn')
  BY <1>1 DEF RunInv
<1> QED BY <1>1, <1>2, <1>3, <1>4, <1>5, OthersLater DEF RunInv, StoreFits

(* A restart keeps what is on disk, and nothing else relies on anything. *)
LEMMA CrashKeeps ==
  ASSUME RunInv, Crash
  PROVE  RunInv'
<1>1. /\ stream' = [s \in Streams |-> IF stream[s].at = "idle" THEN stream[s]
                                      ELSE [NewStream EXCEPT !.at = "gone"]]
      /\ canceller' = [c \in Cancellers |->
                         IF canceller[c].at \in {"idle", "confirmed", "refused"}
                         THEN canceller[c] ELSE [NewCanceller EXCEPT !.at = "lost"]]
      /\ active' = Nobody /\ resume_lock' = Nobody /\ detached' = {} /\ disturbed' = TRUE
      /\ UNCHANGED <<store, checkpoint, turn>>
  BY DEF Crash
<1>2. StoreFits' /\ Later
  BY <1>1, StoreOfInv, NoWriteKeeps
<1>3. StreamsFit'
  <2>1. ASSUME NEW s \in Streams
        PROVE  StreamFits(s, stream'[s], active', run_events', status'[Run], turn')
    <3>1. CASE stream[s].at = "idle"
      <4>1. stream[s] = NewStream
        BY <3>1, StreamHasRecord DEF RunInv, StreamFits
      <4>2. stream'[s] = NewStream
        BY <1>1, <3>1, <4>1
      <4> QED BY <4>2, RestingFits
    <3>2. CASE stream[s].at # "idle"
      <4>1. stream'[s] = [NewStream EXCEPT !.at = "gone"]
        BY <1>1, <3>2
      <4> DEFINE gone == [NewStream EXCEPT !.at = "gone"]
      <4>2. StreamFits(s, gone, active', run_events', status'[Run], turn')
        BY RestingFits
      <4>3. stream'[s] = gone
        BY <4>1
      <4> HIDE DEF gone
      <4> QED BY <4>2, <4>3
    <3> QED BY <3>1, <3>2
  <2>2. stream' = [s \in Streams |-> stream'[s]]
    BY <1>1
  <2> QED BY <2>1, <2>2 DEF StreamsFit
<1>4. CancellersFit'
  <2> DEFINE lost == [NewCanceller EXCEPT !.at = "lost"]
  <2>1. lost \in CancellerRecords /\ lost.at = "lost"
    BY SequenceAssumption DEF NewCanceller, CancellerRecords, Requests
  <2>2. canceller' \in [Cancellers -> CancellerRecords]
    BY <1>1, <2>1 DEF RunInv, CancellersFit
  <2>3. \A c \in Cancellers : canceller'[c].at \in {"idle", "confirmed", "refused", "lost"}
    <3> HIDE DEF lost
    <3>1. \A c \in Cancellers :
            canceller'[c] = IF canceller[c].at \in {"idle", "confirmed", "refused"}
                            THEN canceller[c] ELSE lost
      BY <1>1 DEF lost
    <3> QED BY <2>1, <3>1
  <2> QED BY <2>2, <2>3 DEF CancellersFit, Requests
<1>5. RecordsFit'
  BY <1>1 DEF store, RunInv, RecordsFit, CompletedIsAnswered
<1> QED BY <1>1, <1>2, <1>3, <1>4, <1>5 DEF RunInv, StoreFits

-----------------------------------------------------------------------------
(* Cancel requests. *)

(* One request moves to a record that fits. *)
LEMMA OneCancellerMoves ==
  ASSUME CancellersFit, Later, NEW c \in Cancellers, NEW x \in CancellerRecords,
         CancellerAt(c, x),
         x.at = "sequence" => status[Run] # Store!NoRow,
         x.at \in Requests => x.mode \in {"waiting", "running"}
  PROVE  CancellersFit'
<1>1. \A d \in Cancellers : canceller'[d] = IF d = c THEN x ELSE canceller[d]
  BY DEF CancellerAt, CancellersFit
<1>2. canceller' \in [Cancellers -> CancellerRecords]
  BY DEF CancellerAt, CancellersFit
<1> QED BY <1>1, <1>2 DEF CancellersFit, Later

(* The record of a request after one of its steps. *)
LEMMA CancellerChanges ==
  ASSUME NEW old \in CancellerRecords,
         NEW at \in Requests \cup {"gather", "confirmed", "refused"},
         NEW mode \in {"none", "waiting", "running"},
         NEW sequence \in 0..MaxSequence + 1, NEW target \in Streams \cup {Nobody}
  PROVE  /\ [old EXCEPT !.at = at] \in CancellerRecords
         /\ [old EXCEPT !.at = at].at = at
         /\ [old EXCEPT !.at = at].mode = old.mode
         /\ [old EXCEPT !.at = at, !.mode = mode] \in CancellerRecords
         /\ [old EXCEPT !.at = at, !.mode = mode].at = at
         /\ [old EXCEPT !.at = at, !.mode = mode].mode = mode
         /\ [old EXCEPT !.at = at, !.sequence = sequence] \in CancellerRecords
         /\ [old EXCEPT !.at = at, !.sequence = sequence].at = at
         /\ [old EXCEPT !.at = at, !.sequence = sequence].mode = old.mode
         /\ [old EXCEPT !.at = at, !.target = target] \in CancellerRecords
         /\ [old EXCEPT !.at = at, !.target = target].at = at
BY DEF CancellerRecords

(* A request that reads: nothing but its own record changes. *)
LEMMA ReadingKeeps ==
  ASSUME RunInv, NEW c \in Cancellers, NEW x \in CancellerRecords, CancellerAt(c, x),
         UNCHANGED <<store, checkpoint, turn, active, resume_lock, stream, detached,
                     disturbed>>,
         x.at = "sequence" => status[Run] # Store!NoRow,
         x.at \in Requests => x.mode \in {"waiting", "running"}
  PROVE  RunInv'
<1>1. StoreFits' /\ Later
  BY StoreOfInv, NoWriteKeeps
<1>2. CancellersFit'
  BY <1>1, OneCancellerMoves DEF RunInv
<1>3. StreamsFit'
  BY <1>1, NoStreamMoves DEF RunInv
<1>4. RecordsFit'
  BY DEF store, RunInv, RecordsFit, CompletedIsAnswered
<1> QED BY <1>1, <1>2, <1>3, <1>4, OthersLater DEF RunInv, StoreFits

(* cancel: the reads before anything is written. *)
LEMMA CancelReadsKeeps ==
  ASSUME RunInv, NEW c \in Cancellers,
         CancelReadsStatus(c) \/ CancelReadsSequence(c) \/ CancelLoads(c) \/ Gathers(c)
  PROVE  RunInv'
<1> DEFINE old == canceller[c]
<1>1. /\ old \in CancellerRecords
      /\ old.at = "sequence" => status[Run] # Store!NoRow
      /\ old.at \in Requests => old.mode \in {"waiting", "running"}
  BY DEF RunInv, CancellersFit
<1>2. CASE CancelReadsStatus(c)
  <2>1. UNCHANGED <<store, checkpoint, turn, active, resume_lock, stream, detached, disturbed>>
    BY <1>2 DEF CancelReadsStatus, Cancelling
  <2>2. CASE status[Run] \in {"waiting", "running"}
    <3>1. CancellerAt(c, [old EXCEPT !.at = "sequence", !.mode = status[Run]])
      BY <1>2, <2>2 DEF CancelReadsStatus, Cancelling
    <3> DEFINE x == [old EXCEPT !.at = "sequence", !.mode = status[Run]]
    <3>2. x \in CancellerRecords /\ x.at = "sequence" /\ x.mode = status[Run]
      BY <1>1, <2>2, CancellerChanges DEF Requests, CancellerRecords
    <3>3. CancellerAt(c, x)
      BY <3>1
    <3> HIDE DEF x
    <3> QED BY <2>1, <2>2, <3>2, <3>3, ReadingKeeps DEF Store!NoRow
  <2>3. CASE status[Run] \notin {"waiting", "running"}
    <3>1. PICK at \in {"confirmed", "refused"} : CancellerAt(c, [old EXCEPT !.at = at])
      BY <1>2, <2>3 DEF CancelReadsStatus, Cancelling
    <3> DEFINE x == [old EXCEPT !.at = at]
    <3>2. x \in CancellerRecords /\ x.at \in {"confirmed", "refused"}
      BY <1>1 DEF CancellerRecords
    <3>3. CancellerAt(c, x)
      BY <3>1
    <3> HIDE DEF x
    <3> QED BY <2>1, <3>2, <3>3, ReadingKeeps DEF Requests
  <2> QED BY <2>2, <2>3
<1>3. CASE CancelReadsSequence(c)
  <2>1. /\ old.at = "sequence" /\ CancellerAt(c, [old EXCEPT !.at = "load",
                                                       !.sequence = NextSequence])
        /\ UNCHANGED <<store, checkpoint, turn, active, resume_lock, stream, detached,
                       disturbed>>
    BY <1>3 DEF CancelReadsSequence, Cancelling
  <2>2. NextSequence \in 0..MaxSequence + 1
    BY <1>1, <2>1, NextSequenceInReach
  <2> DEFINE x == [old EXCEPT !.at = "load", !.sequence = NextSequence]
  <2>3. x \in CancellerRecords /\ x.at = "load" /\ x.mode = old.mode
    <3> HIDE DEF NextSequence
    <3> QED BY <1>1, <2>2 DEF Requests, CancellerRecords
  <2>4. CancellerAt(c, x)
    BY <2>1
  <2> HIDE DEF x
  <2> QED BY <1>1, <2>1, <2>3, <2>4, ReadingKeeps DEF Requests
<1>4. CASE CancelLoads(c)
  <2>1. PICK at \in {"mark", "refused"} :
          /\ old.at = "load" /\ CancellerAt(c, [old EXCEPT !.at = at])
          /\ UNCHANGED <<store, checkpoint, turn, active, resume_lock, stream, detached,
                         disturbed>>
    BY <1>4 DEF CancelLoads, Cancelling
  <2> DEFINE x == [old EXCEPT !.at = at]
  <2>2. x \in CancellerRecords /\ x.at = at /\ x.mode = old.mode
    BY <1>1 DEF Requests, CancellerRecords
  <2>3. CancellerAt(c, x)
    BY <2>1
  <2> HIDE DEF x
  <2> QED BY <1>1, <2>1, <2>2, <2>3, ReadingKeeps DEF Requests
<1>5. CASE Gathers(c)
  <2>1. /\ CancellerAt(c, [old EXCEPT !.at = "confirmed", !.target = Nobody])
        /\ UNCHANGED <<store, checkpoint, turn, active, resume_lock, stream, detached,
                       disturbed>>
    BY <1>5 DEF Gathers
  <2> DEFINE x == [old EXCEPT !.at = "confirmed", !.target = Nobody]
  <2>2. x \in CancellerRecords /\ x.at = "confirmed"
    BY <1>1 DEF Requests, CancellerRecords
  <2>3. CancellerAt(c, x)
    BY <2>1
  <2> HIDE DEF x
  <2> QED BY <2>1, <2>2, <2>3, ReadingKeeps DEF Requests
<1> QED BY <1>2, <1>3, <1>4, <1>5

(* The checkpoint is marked and the turn recorded. *)
LEMMA CancelMarksKeeps ==
  ASSUME RunInv, NEW c \in Cancellers, CancelMarks(c) \/ CancelRecords(c)
  PROVE  RunInv'
<1> DEFINE old == canceller[c]
<1>1. /\ old \in CancellerRecords
      /\ old.at \in Requests => old.mode \in {"waiting", "running"}
  BY DEF RunInv, CancellersFit
<1>2. PICK at \in {"record", "append"} :
        /\ CancellerAt(c, [old EXCEPT !.at = at])
        /\ old.at \in Requests
        /\ UNCHANGED <<store, active, resume_lock, stream, detached, disturbed>>
        /\ BestEffort("cancelled")
        /\ \/ UNCHANGED checkpoint
           \/ checkpoint' = [status |-> "cancelled", interrupt |-> NoInterrupt]
  BY DEF CancelMarks, CancelRecords, Cancelling, BestEffort, Requests
<1>3. /\ turn = "answer" => turn' = "answer"
      /\ turn' \in {"none", "answer", "error", "cancelled"}
  BY <1>2, RecordsKeepAnswer DEF BestEffort, RunInv, RecordsFit
<1>4. StoreFits' /\ Later
  BY <1>2, <1>3, StoreOfInv, NoWriteKeeps
<1>5. StreamsFit'
  BY <1>2, <1>4, NoStreamMoves DEF RunInv
<1>6. CancellersFit'
  <2> DEFINE x == [old EXCEPT !.at = at]
  <2>1. x \in CancellerRecords /\ x.at = at /\ x.mode = old.mode
    BY <1>1 DEF Requests, CancellerRecords
  <2>2. CancellerAt(c, x)
    BY <1>2
  <2> HIDE DEF x
  <2> QED BY <1>1, <1>2, <1>4, <2>1, <2>2, OneCancellerMoves DEF RunInv
<1>7. checkpoint' \in [status : {"none", "input", "running", "waiting", "completed",
                                 "failed", "cancelled"},
                       interrupt : Interrupts \cup {NoInterrupt}]
      /\ (checkpoint'.status = "completed" => checkpoint.status = "completed")
  BY <1>2 DEF RunInv, RecordsFit
<1>8. RecordsFit'
  BY <1>2, <1>3, <1>7 DEF store, RunInv, RecordsFit, CompletedIsAnswered
<1> QED BY <1>2, <1>4, <1>5, <1>6, <1>8, OthersLater DEF RunInv, StoreFits

(* cancel: the append of RUN_CANCELLED by the request itself. *)
LEMMA CancelAppendsKeeps ==
  ASSUME RunInv, NEW c \in Cancellers, CancelAppends(c)
  PROVE  RunInv'
<1> DEFINE old == canceller[c]
           e == [sequence |-> old.sequence, type |-> "run_cancelled", body |-> old.mode]
<1>1. old \in CancellerRecords /\ old.mode \in {"waiting", "running"}
  BY DEF RunInv, CancellersFit, CancelAppends, Requests
<1>2. PICK at \in {"confirmed", "refused"} :
        /\ CancellerAt(c, [old EXCEPT !.at = at])
        /\ Writes(e) \/ UNCHANGED store
        /\ UNCHANGED <<checkpoint, turn, active, resume_lock, stream, detached, disturbed>>
  BY DEF CancelAppends
<1>3. Allowed(e, turn)
  BY <1>1 DEF Allowed, CancellerRecords, Store!EventTypes, Store!TerminalTypes, Bodies
<1> HIDE DEF e
<1>4. StoreFits' /\ Later
  BY <1>2, <1>3, StoreOfInv, WritesKeeps, NoWriteKeeps
<1>5. StreamsFit'
  BY <1>2, <1>4, NoStreamMoves DEF RunInv
<1>6. CancellersFit'
  <2> DEFINE x == [old EXCEPT !.at = at]
  <2>1. x \in CancellerRecords /\ x.at = at
    BY <1>1 DEF Requests, CancellerRecords
  <2>2. CancellerAt(c, x)
    BY <1>2
  <2> HIDE DEF x
  <2> QED BY <1>4, <2>1, <2>2, OneCancellerMoves DEF RunInv, Requests
<1>7. RecordsFit'
  BY <1>2, <1>4 DEF RunInv, RecordsFit, CompletedIsAnswered, StoreFits
<1> QED BY <1>2, <1>4, <1>5, <1>6, <1>7, OthersLater DEF RunInv, StoreFits

(* The task of the stream in its place is cancelled where it is suspended.   *)
LEMMA CancelsStreamKeeps ==
  ASSUME RunInv, NEW c \in Cancellers, CancelsStream(c)
  PROVE  RunInv'
<1> DEFINE s == active
           old == stream[s]
           gather == [canceller[c] EXCEPT !.at = "gather", !.target = s]
<1>1. s \in Streams
  BY DEF CancelsStream, RunInv, RecordsFit
<1>2. gather \in CancellerRecords /\ gather.at = "gather"
  BY <1>1 DEF RunInv, CancellersFit, CancellerRecords
<1>3. CancellerAt(c, gather)
  BY DEF CancelsStream
<1> HIDE DEF gather
<1>4. ASSUME UNCHANGED <<store, turn>>
      PROVE  CancellersFit'
  <2>1. Later
    BY <1>4, StoreOfInv, NoWriteKeeps
  <2> QED BY <1>2, <1>3, <2>1, OneCancellerMoves DEF RunInv, Requests
<1>5. CASE old.at = "graph" /\ old.graph \notin {"unresolved_started"}
  <2> DEFINE x == [old EXCEPT !.at = "mark", !.outcome = "cancelled"]
  <2>1. /\ stream' = [stream EXCEPT ![s] = x]
        /\ UNCHANGED <<store, checkpoint, turn, active, resume_lock, detached, disturbed>>
    BY <1>5 DEF CancelsStream
  <2>2. StreamFits(s, old, active, run_events, status[Run], turn) /\ old \in StreamRecords
    BY <1>1, StreamHasRecord DEF RunInv
  <2>3. /\ x \in StreamRecords /\ x.at = "mark" /\ x.graph = old.graph
        /\ x.interrupt = old.interrupt /\ x.committed = old.committed
        /\ x.sequence = old.sequence /\ x.closings = old.closings
        /\ x.outcome = "cancelled"
    BY <2>2 DEF StreamRecords
  <2> HIDE DEF x
  <2>4. StreamFits(s, x, active, run_events, status[Run], turn)
    BY <2>2, <2>3 DEF StreamFits, Pending, Preparing
  <2>5. StoreFits' /\ Later
    BY <2>1, StoreOfInv, NoWriteKeeps
  <2>6. UNCHANGED <<status, conversation, run_events>>
    BY <2>1 DEF store
  <2>7. StreamsFit'
    BY <1>1, <2>1, <2>4, <2>5, <2>6, OneStreamMoves DEF RunInv
  <2>8. RecordsFit'
    BY <2>1, <2>6 DEF RunInv, RecordsFit, CompletedIsAnswered
  <2>9. CancellersFit'
    BY <1>4, <2>1
  <2> QED BY <2>1, <2>5, <2>7, <2>8, <2>9, OthersLater DEF RunInv, StoreFits
<1>6. CASE ~ (old.at = "graph" /\ old.graph \notin {"unresolved_started"})
  <2>1. IF old.at = "append" THEN LeavesAppend(s) ELSE Leaves(s)
    BY <1>6 DEF CancelsStream
  <2>2. UNCHANGED <<store, turn>>
    BY <2>1 DEF LeavesAppend, Leaves
  <2>3. CancellersFit'
    BY <1>4, <2>2
  <2> QED BY <1>1, <2>1, <2>3, LeavesKeeps
<1> QED BY <1>5, <1>6

-----------------------------------------------------------------------------
(* The initial state, and every step together. *)
LEMMA RunInvInit == Init => RunInv
<1> SUFFICES ASSUME Init PROVE RunInv
  OBVIOUS
<1>1. StoreProofs!StoreInv
  BY SameStore, StoreProofs!StoreInvInit, StoreAssumptions DEF Init
<1>2. run_events = {} /\ status[Run] = "no_row"
  BY DEF Init, Store!Init, Store!NoRow
<1>3. /\ stream = [s \in Streams |-> NewStream]
      /\ canceller = [c \in Cancellers |-> NewCanceller]
      /\ checkpoint = [status |-> "none", interrupt |-> NoInterrupt]
      /\ turn = "none" /\ active = Nobody /\ resume_lock = Nobody /\ detached = {}
      /\ disturbed = FALSE
  BY DEF Init
<1>4. StreamsFit
  BY <1>3, RestingFits DEF StreamsFit
<1>5. CancellersFit
  <2>1. NewCanceller \in CancellerRecords /\ NewCanceller.at = "idle"
    BY SequenceAssumption DEF NewCanceller, CancellerRecords
  <2> QED BY <1>3, <2>1 DEF CancellersFit, Requests
<1>6. RecordsFit
  BY <1>2, <1>3 DEF RecordsFit, CompletedIsAnswered
<1> QED BY <1>1, <1>2, <1>3, <1>4, <1>5, <1>6 DEF RunInv, LogFits

(* Every step of a stream keeps the invariant. *)
LEMMA StreamStepKeeps ==
  ASSUME RunInv, NEW s \in Streams, StreamStep(s)
  PROVE  RunInv'
<1>1. CASE CannotResume(s) \/ Drains(s)
  BY <1>1, DiesKeeps DEF CannotResume, Drains
<1>2. CASE LoadsState(s) \/ ReadsSequence(s)
  BY <1>2, PreparesKeeps
<1>3. CASE \/ ReportsUnresolved(s) \/ Initializes(s) \/ Progresses(s) \/ Waits(s)
           \/ IsAnswered(s) \/ Finalizes(s)
  BY <1>3, EmittingKeeps
<1>4. CASE Fails(s) \/ Reports(s)
  BY <1>4, FailsKeeps
<1>5. CASE \/ TakesLock(s) \/ Resumes(s) \/ Asks(s) \/ PersistsTurn(s) \/ Raises(s)
           \/ Commits(s) \/ MarksCheckpoint(s) \/ Registers(s) \/ Appends(s) \/ IsRead(s)
  BY <1>5, TakesLockKeeps, ResumesKeeps, AsksKeeps, PersistsTurnKeeps, RaisesKeeps,
     CommitsKeeps, MarksCheckpointKeeps, RegistersKeeps, AppendsKeeps, IsReadKeeps
<1> QED BY <1>1, <1>2, <1>3, <1>4, <1>5 DEF StreamStep

(* Every step of a cancel request keeps the invariant. *)
LEMMA CancelStepKeeps ==
  ASSUME RunInv, NEW c \in Cancellers, CancelStep(c)
  PROVE  RunInv'
BY CancelReadsKeeps, CancelMarksKeeps, CancelAppendsKeeps, CancelsStreamKeeps DEF CancelStep

(* Every step keeps the invariant. *)
LEMMA RunInvStep == RunInv /\ [Next]_vars => RunInv'
<1> SUFFICES ASSUME RunInv, [Next]_vars PROVE RunInv'
  OBVIOUS
<1>1. CASE StartRun \/ DetachedWrite \/ Crash
  BY <1>1, StartRunKeeps, DetachedWriteKeeps, CrashKeeps
<1>2. ASSUME NEW s \in Streams, ReadsStatus(s) \/ StreamStep(s) \/ Disconnect(s)
      PROVE  RunInv'
  BY <1>2, PreparesKeeps, StreamStepKeeps, DisconnectKeeps
<1>3. ASSUME NEW c \in Cancellers, CancelStep(c)
      PROVE  RunInv'
  BY <1>3, CancelStepKeeps
<1>4. CASE UNCHANGED vars
  <2>1. UNCHANGED <<store, checkpoint, turn, active, resume_lock, stream, detached,
                    canceller, disturbed>>
    BY <1>4 DEF vars
  <2>2. StoreFits' /\ Later
    BY <2>1, StoreOfInv, NoWriteKeeps
  <2>3. StreamsFit'
    BY <2>1, <2>2, NoStreamMoves DEF RunInv
  <2>4. RecordsFit'
    BY <2>1 DEF store, RunInv, RecordsFit, CompletedIsAnswered
  <2> QED BY <2>1, <2>2, <2>3, <2>4, OthersLater DEF RunInv, StoreFits
<1> QED BY <1>1, <1>2, <1>3, <1>4 DEF Next

-----------------------------------------------------------------------------
(* The invariant of the composition holds in every reachable state. *)
THEOREM RunInvariant == Spec => []RunInv
BY RunInvInit, RunInvStep, PTL DEF Spec

(* The records of a run hold values of their types.  For the log this says   *)
(* that a run always has room for the event that ends it.                    *)
THEOREM RunTypesHold == Spec => []TypeOK
<1>1. RunInv => TypeOK
  BY SameStore DEF RunInv, RecordsFit, TypeOK, StoreProofs!StoreInv, Allowed
<1> QED BY <1>1, RunInvariant, PTL

(* The store's own invariant, proved of the store alone, holds of the store  *)
(* that streams, cancellations and abandoned threads share.                  *)
THEOREM StoreStaysSound == Spec => []StoreProofs!StoreInv
<1>1. RunInv => StoreProofs!StoreInv
  BY DEF RunInv
<1> QED BY <1>1, RunInvariant, PTL

(* Two streams of one run never append or show its events at the same time:  *)
(* each has the place in _active, and there is one.                          *)
THEOREM OneProducerHolds == Spec => []OneProducer
<1>1. RunInv => OneProducer
  BY DEF RunInv, StreamsFit, StreamFits, OneProducer, Producing
<1> QED BY <1>1, RunInvariant, PTL

(* A client is shown an event only after the event is recorded.              *)
THEOREM ShownIsRecordedHolds == Spec => []ShownIsRecorded
<1>1. RunInv => ShownIsRecorded
  BY StreamHasRecord DEF RunInv, StreamFits, ShownIsRecorded
<1> QED BY <1>1, RunInvariant, PTL

(* A run that the log or the checkpoint calls completed has its answer in    *)
(* the conversation, whatever was cancelled, abandoned or restarted.         *)
THEOREM CompletedIsAnsweredHolds == Spec => []CompletedIsAnswered
<1>1. RunInv => CompletedIsAnswered
  BY DEF RunInv, RecordsFit
<1> QED BY <1>1, RunInvariant, PTL

-----------------------------------------------------------------------------
(* Seen from the store. *)

(* A step writes nothing, or one event that may be written. *)
LEMMA StepWrites ==
  ASSUME RunInv, [Next]_vars
  PROVE  UNCHANGED store \/ \E e : Allowed(e, turn) /\ Writes(e)
<1>1. CASE StartRun \/ Crash \/ UNCHANGED vars
  BY <1>1 DEF StartRun, Moves, Crash, vars
<1>2. CASE DetachedWrite
  BY <1>2 DEF DetachedWrite, RunInv
<1>3. ASSUME NEW s \in Streams, ReadsStatus(s) \/ StreamStep(s) \/ Disconnect(s)
      PROVE  UNCHANGED store \/ \E e : Allowed(e, turn) /\ Writes(e)
  <2>1. CASE Appends(s)
    <3>1. Allowed(EventOf(s), turn)
      BY <2>1, PendingIsAllowed DEF Appends, Pending
    <3> QED BY <2>1, <3>1 DEF Appends, Dies
  <2>2. CASE \/ ReadsStatus(s) \/ LoadsState(s) \/ ReadsSequence(s) \/ TakesLock(s)
             \/ Resumes(s) \/ CannotResume(s) \/ Asks(s) \/ PersistsTurn(s) \/ Fails(s)
             \/ Raises(s) \/ Commits(s) \/ MarksCheckpoint(s) \/ Reports(s) \/ Drains(s)
             \/ Registers(s) \/ IsRead(s)
    BY <2>2 DEF ReadsStatus, LoadsState, ReadsSequence, TakesLock, Resumes, CannotResume,
                Asks, PersistsTurn, Fails, Raises, Commits, MarksCheckpoint, Reports,
                Drains, Registers, IsRead, Moves, Dies
  <2>3. CASE \/ ReportsUnresolved(s) \/ Initializes(s) \/ Progresses(s) \/ Waits(s)
             \/ IsAnswered(s) \/ Finalizes(s)
    BY <2>3 DEF ReportsUnresolved, Initializes, Progresses, Waits, IsAnswered, Finalizes,
                Emits
  <2>4. CASE Disconnect(s)
    BY <2>4 DEF Disconnect, LeavesAppend, Leaves
  <2> QED BY <1>3, <2>1, <2>2, <2>3, <2>4 DEF StreamStep
<1>4. ASSUME NEW c \in Cancellers, CancelStep(c)
      PROVE  UNCHANGED store \/ \E e : Allowed(e, turn) /\ Writes(e)
  <2>1. CASE CancelAppends(c)
    <3> DEFINE old == canceller[c]
               e == [sequence |-> old.sequence, type |-> "run_cancelled", body |-> old.mode]
    <3>1. old \in CancellerRecords /\ old.mode \in {"waiting", "running"}
      BY <2>1 DEF RunInv, CancellersFit, CancelAppends, Requests
    <3>2. Allowed(e, turn)
      BY <3>1 DEF Allowed, CancellerRecords, Store!EventTypes, Store!TerminalTypes, Bodies
    <3>3. Writes(e) \/ UNCHANGED store
      BY <2>1 DEF CancelAppends
    <3> HIDE DEF e
    <3> QED BY <3>2, <3>3
  <2>2. CASE CancelsStream(c)
    BY <2>2 DEF CancelsStream, LeavesAppend, Leaves
  <2>3. CASE \/ Gathers(c) \/ CancelReadsStatus(c) \/ CancelReadsSequence(c)
             \/ CancelLoads(c) \/ CancelMarks(c) \/ CancelRecords(c)
    BY <2>3 DEF Gathers, CancelReadsStatus, CancelReadsSequence, CancelLoads, CancelMarks,
                CancelRecords, Cancelling
  <2> QED BY <1>4, <2>1, <2>2, <2>3 DEF CancelStep
<1> QED BY <1>1, <1>2, <1>3, <1>4 DEF Next

(* Every step is a step of the store or leaves it alone. *)
LEMMA StepIsStoreStep ==
  ASSUME RunInv, [Next]_vars
  PROVE  [StoreProofs!Next]_(StoreProofs!vars)
<1>1. CASE UNCHANGED store
  BY <1>1 DEF store, StoreProofs!vars
<1>2. ASSUME NEW e, Allowed(e, turn), Writes(e)
      PROVE  StoreProofs!Next
  <2>1. PICK c \in {Conversation} \cup {NoConversation} :
          StoreProofs!Append(Run, e, StoreProofs!ConversationArgument(e, c))
    BY <1>2, WritesAppends
  <2>2. e \in StoreProofs!Events
    BY <1>2, <2>1, AcceptedHasRoom DEF StoreProofs!Append, RunInv
  <2> QED BY <2>1, <2>2 DEF StoreProofs!Next
<1> QED BY <1>1, <1>2, StepWrites

(* Streams, cancellations and the threads they leave behind together do to   *)
(* the store nothing but append to it, in the order the store accepts.       *)
THEOREM RunControlImplementsStore == Spec => StoreProofs!Spec
<1>1. Init => StoreProofs!Init
  BY SameStore DEF Init
<1>2. RunInv /\ [Next]_vars => [StoreProofs!Next]_(StoreProofs!vars)
  BY StepIsStoreStep
<1> QED BY <1>1, <1>2, RunInvariant, PTL DEF Spec, StoreProofs!Spec
=============================================================================
