--------------------------- MODULE RunEventStore ---------------------------
(***************************************************************************)
(* RunEventStore (src/api/run_streams.py): the durable log of the public   *)
(* events of every run, and the table of run statuses derived from it.     *)
(*                                                                         *)
(* append() runs in one BEGIN IMMEDIATE transaction, so one append is one  *)
(* action.  What it refuses (ValueError, RunConflictError) and what it     *)
(* silently accepts a second time (the same event) changes no row, so only *)
(* the appends that write are actions.                                     *)
(*                                                                         *)
(* An event carries the one thing the store looks at, its type, and an     *)
(* opaque body.  RUN_FAILED has two types here, since the store tells them *)
(* apart by the error code: "run_cancelled" is RUN_FAILED with CANCELLED.  *)
(* "progress" stands for every type that has no effect on the status.      *)
(***************************************************************************)
EXTENDS Integers, FiniteSetsExt

CONSTANTS Runs,            \* (tenant, user, run_id) triples
          Conversations,   \* conversation ids of that tenant and user
          NoConversation,  \* the NULL of runs.conversation_id
          Bodies,          \* opaque event contents
          MaxSequence      \* bound: highest sequence an event carries

ASSUME ConversationAssumption == NoConversation \notin Conversations
ASSUME SequenceAssumption == MaxSequence \in Nat

VARIABLES status,        \* runs.status, NoRow when the run has no row
          conversation,  \* runs.conversation_id
          run_events     \* the rows of run_events

vars == <<status, conversation, run_events>>

NoRow == "no_row"
OpenStatuses == {"running", "waiting"}
ClosedStatuses == {"completed", "failed", "cancelled"}
Statuses == OpenStatuses \cup ClosedStatuses

TerminalTypes == {"run_completed", "run_failed", "run_cancelled"}
EventTypes == TerminalTypes \cup
                {"run_started", "progress", "run_waiting", "run_resumed"}

Events == [sequence : 0..MaxSequence, type : EventTypes, body : Bodies]
Rows == [run : Runs, event : Events]

LogOf(r) == {row \in run_events : row.run = r}
SequencesOf(r) == {row.event.sequence : row \in LogOf(r)}

(***************************************************************************)
(* Faulty variants.  Each is a slip the definition after it could contain; *)
(* PROJECT.json names the property that TLC finds violated with it.        *)
(***************************************************************************)
AvailableIgnoringWaiting(c) ==
  ~ \E q \in Runs : status[q] = "running" /\ conversation[q] = c
NotClosedUnchecked(r) == status[r] # NoRow
InOrderMonotonic(r, e) == e.sequence > Max(SequencesOf(r))
AllowedWhileWaitingAnything(e) == TRUE
TypeStatusWithoutResume == [run_waiting   |-> "waiting",
                            run_completed |-> "completed",
                            run_failed    |-> "failed",
                            run_cancelled |-> "cancelled"]
TypeStatusWithErrorCode == [run_waiting   |-> "waiting",
                            run_resumed   |-> "running",
                            run_completed |-> "completed",
                            run_failed    |-> "failed",
                            run_cancelled |-> "CANCELLED"]
ConversationArgumentAlways(e, c) == c

-----------------------------------------------------------------------------
(* The conversation is free: no open run has it. *)
Available(c) ==
  ~ \E q \in Runs : status[q] \in OpenStatuses /\ conversation[q] = c

(* The same event again: append returns without writing. *)
AlreadyRecorded(r, e) == [run |-> r, event |-> e] \in run_events

(* The first event of a run creates its row. *)
Opens(r, e, c) ==
  /\ status[r] = NoRow
  /\ e.sequence = 0
  /\ e.type = "run_started"
  /\ c # NoConversation => Available(c)

NotClosed(r) == status[r] \in OpenStatuses
InOrder(r, e) == e.sequence = Max(SequencesOf(r)) + 1
AllowedWhileWaiting(e) ==
  e.type \in {"run_resumed", "run_failed", "run_cancelled"}

(* Every later event extends the log of an open run by one. *)
Extends(r, e, c) ==
  /\ NotClosed(r)
  /\ c # NoConversation => conversation[r] \in {c, NoConversation}
  /\ InOrder(r, e)
  /\ status[r] = "waiting" => AllowedWhileWaiting(e)
  /\ e.type = "run_resumed" => status[r] = "waiting"

Accepts(r, e, c) == /\ e.sequence \notin SequencesOf(r)
                    /\ Opens(r, e, c) \/ Extends(r, e, c)

(* The status the upsert writes: the types listed set it, the others keep  *)
(* it.                                                                     *)
TypeStatus == [run_waiting   |-> "waiting",
               run_resumed   |-> "running",
               run_completed |-> "completed",
               run_failed    |-> "failed",
               run_cancelled |-> "cancelled"]
StatusAfter(current, type) ==
  IF type \in DOMAIN TypeStatus THEN TypeStatus[type]
  ELSE IF current = NoRow THEN "running" ELSE current

(* COALESCE(runs.conversation_id, excluded.conversation_id). *)
ConversationAfter(current, c) == IF current = NoConversation THEN c ELSE current

Append(r, e, c) ==
  /\ Accepts(r, e, c)
  /\ status' = [status EXCEPT ![r] = StatusAfter(@, e.type)]
  /\ conversation' = [conversation EXCEPT ![r] = ConversationAfter(@, c)]
  /\ run_events' = run_events \cup {[run |-> r, event |-> e]}

(* The callers of append, RunCoordinator.observe and .append, pass the     *)
(* conversation with the first event of a run and with no other: the store *)
(* itself looks for a conflict only when it creates the row, and would     *)
(* bind a conversation to an existing run unchecked.                       *)
ConversationArgument(e, c) == IF e.sequence = 0 THEN c ELSE NoConversation

Init ==
  /\ status = [r \in Runs |-> NoRow]
  /\ conversation = [r \in Runs |-> NoConversation]
  /\ run_events = {}

Next ==
  \E r \in Runs, e \in Events, c \in Conversations \cup {NoConversation} :
     Append(r, e, ConversationArgument(e, c))

Spec == Init /\ [][Next]_vars

-----------------------------------------------------------------------------
(* The variables hold what the two tables can hold. *)
TypeOK ==
  /\ status \in [Runs -> Statuses \cup {NoRow}]
  /\ conversation \in [Runs -> Conversations \cup {NoConversation}]
  /\ run_events \subseteq Rows

(* A conversation never has two open runs, although nothing in the schema  *)
(* says so: it rests on the conflict query of append and on every caller   *)
(* passing the conversation with the first event only.                     *)
ConversationExclusive ==
  \A r, q \in Runs :
     /\ {status[r], status[q]} \subseteq OpenStatuses
     /\ conversation[r] = conversation[q]
     /\ conversation[r] # NoConversation
     => r = q

(* A client that replays a run after sequence n misses nothing: the log of *)
(* a run has no gap, no two events at one place, and is empty exactly when *)
(* the run has no row.                                                     *)
ContiguousLog ==
  /\ \A r \in Runs :
       IF status[r] = NoRow
       THEN LogOf(r) = {}
       ELSE \E n \in 0..MaxSequence : SequencesOf(r) = 0..n
  /\ \A a, b \in run_events :
       a.run = b.run /\ a.event.sequence = b.event.sequence => a = b

(* What a reader of a log may rely on, read off neighbouring events: a log *)
(* begins with run_started, nothing follows a terminal event, a waiting    *)
(* run is only resumed or ended, and only a waiting run is resumed.        *)
LogGrammar ==
  /\ \A a \in run_events : a.event.sequence = 0 => a.event.type = "run_started"
  /\ \A a, b \in run_events :
       /\ a.run = b.run
       /\ b.event.sequence = a.event.sequence + 1
       => /\ a.event.type \notin TerminalTypes
          /\ a.event.type = "run_waiting" =>
               b.event.type \in {"run_resumed", "run_failed", "run_cancelled"}
          /\ b.event.type = "run_resumed" => a.event.type = "run_waiting"

(* The status column agrees with the log it summarises: the status of a    *)
(* run is the one its last event leaves, seen without the running total.   *)
LastType(r) == (CHOOSE a \in LogOf(r) :
                  a.event.sequence = Max(SequencesOf(r))).event.type
StatusMatchesLog ==
  \A r \in Runs : status[r] # NoRow =>
     LET type == LastType(r) IN
     /\ status[r] = "waiting"   <=> type = "run_waiting"
     /\ status[r] = "completed" <=> type = "run_completed"
     /\ status[r] = "failed"    <=> type = "run_failed"
     /\ status[r] = "cancelled" <=> type = "run_cancelled"

(* History is final: no event is ever rewritten or removed, a run that     *)
(* ended keeps its outcome, and a run never changes conversation.          *)
KeepsHistory ==
  /\ run_events \subseteq run_events'
  /\ \A r \in Runs :
       /\ status[r] \in ClosedStatuses =>
            status'[r] = status[r] /\ LogOf(r)' = LogOf(r)
       /\ status[r] # NoRow => conversation'[r] = conversation[r]
HistoryIsFinal == [][KeepsHistory]_vars

-----------------------------------------------------------------------------
(* The store implements the lock on conversations: run r holds conversation *)
(* c while its row is open and names c.                                     *)
StageOf(s) == IF s = NoRow THEN "new"
              ELSE IF s \in OpenStatuses THEN "open" ELSE "closed"
LockStage == [r \in Runs |-> StageOf(status[r])]
LockHolders ==
  [c \in Conversations |->
     {r \in Runs : status[r] \in OpenStatuses /\ conversation[r] = c}]

Lock == INSTANCE ConversationLock WITH stage <- LockStage, holders <- LockHolders

(* Seen through its open rows, every append opens a run in a conversation  *)
(* nobody holds, closes a run, or changes nothing.                         *)
ImplementsConversationLock == Lock!Spec
=============================================================================
