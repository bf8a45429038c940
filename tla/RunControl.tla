----------------------------- MODULE RunControl -----------------------------
(***************************************************************************)
(* Everything that acts on one run at the same time: the stream that       *)
(* starts it, the streams that resume it, the requests that cancel it, and *)
(* the two durable records they do not update together, the event store    *)
(* and the checkpoint.  (api/routes.py, api/run_streams.py RunCoordinator, *)
(* analysis_agent/runtime.py; the graph of AnalysisGraph is reduced here   *)
(* to the events and checkpoints it produces.)                             *)
(*                                                                         *)
(* A stream is one asyncio task.  The position of a stream is the await it *)
(* is suspended at, because that is what a cancellation interrupts:        *)
(*   "graph"    in astream_events, inside the try of _stream               *)
(*   "register" about to take its place in _active, with its first event   *)
(*   "append"   in store.append, a thread                                  *)
(*   "yielded"  handing the event to the client                            *)
(*   "mark", "record"  in the handlers of _stream                          *)
(*                                                                         *)
(* LangGraph writes checkpoints in the background: what a node returned is *)
(* visible to aget_state some time after its events, at the latest when    *)
(* the iteration over the graph is over.  Checkpoint writes do not fail    *)
(* here, and the checkpoints outlive the process (SQLite).                 *)
(***************************************************************************)
EXTENDS Integers, FiniteSetsExt

CONSTANTS Run, Conversation, NoConversation,
          Starter,        \* the stream of the request that creates the run
          Resumers,       \* the streams of requests that resume it
          Cancellers,     \* the requests that cancel it
          Interrupts,     \* interrupt ids of questions to the user
          NoInterrupt,    \* waiting_request is None
          Nobody,         \* no stream
          MaxSequence,    \* bound: highest sequence of an event
          Disturbances    \* subset of {"crash", "disconnect"} that can happen

ASSUME ConversationAssumption == Conversation # NoConversation
ASSUME SequenceAssumption == MaxSequence \in Nat \ {0}
ASSUME StarterAssumption == Starter \notin Resumers
ASSUME NobodyAssumption == Nobody \notin Resumers \cup {Starter}
ASSUME InterruptAssumption == NoInterrupt \notin Interrupts

VARIABLES status, conversation, run_events,  \* the event store
          checkpoint,     \* what aget_state returns: status and interrupt
          turn,           \* what is recorded in the conversation for the run
          active,         \* RunCoordinator._active[run]
          resume_lock,    \* holder of the runtime's _resume_locks[run]
          stream,         \* the streams
          detached,       \* events whose append outlives its stream
          canceller,      \* the cancel requests
          disturbed       \* history: a stream was abandoned

store == <<status, conversation, run_events>>
vars == <<store, checkpoint, turn, active, resume_lock, stream, detached,
          canceller, disturbed>>

Streams == Resumers \cup {Starter}
Bodies == Interrupts \cup Streams \cup {"fixed", "active", "waiting", "running"}

Store == INSTANCE RunEventStore WITH Runs <- {Run}, Conversations <- {Conversation}

Ended == {"idle", "gone"}
NewStream == [at |-> "idle", graph |-> "none", interrupt |-> NoInterrupt,
              committed |-> TRUE, sequence |-> 0, closings |-> 0,
              type |-> "none", body |-> "fixed", outcome |-> "none"]
NewCanceller == [at |-> "idle", mode |-> "none", sequence |-> 0,
                 target |-> Nobody]

ClosingTypes == {"run_waiting", "run_completed", "run_failed", "run_cancelled"}

(* What the state of an invocation looks like in its checkpoint.  Before   *)
(* initialize_run the checkpoint holds the input and no status.            *)
Durable == [input |-> "input", running |-> "running", recorded |-> "running",
            waiting |-> "waiting", completed |-> "completed",
            failed |-> "failed"]

EventOf(s) == [sequence |-> stream[s].sequence, type |-> stream[s].type,
               body |-> stream[s].body]
NextSequence == Max(Store!SequencesOf(Run)) + 1
Room(s, n) == stream[s].sequence + n <= MaxSequence

-----------------------------------------------------------------------------
(* The task of s is over: the finally of observe frees its place, and the  *)
(* closed generator of the runtime releases its lock.                      *)
Ends(s) ==
  /\ stream' = [stream EXCEPT ![s] = [NewStream EXCEPT !.at = "gone"]]
  /\ active' = IF active = s THEN Nobody ELSE active
  /\ resume_lock' = IF resume_lock = s THEN Nobody ELSE resume_lock

(* An exception in the task of s that nothing in _stream handles. *)
Dies(s) ==
  /\ Ends(s)
  /\ UNCHANGED <<store, checkpoint, turn, detached, canceller, disturbed>>

(* A step of s that changes only its own record. *)
Moves(s, next) ==
  /\ stream' = [stream EXCEPT ![s] = next]
  /\ UNCHANGED <<store, checkpoint, turn, active, resume_lock, detached,
                 canceller, disturbed>>

(* The conversation keeps the first turn of a run and accepts it again. *)
RecordsAnything(x) == turn' = x
Records(x) == turn \in {"none", x} /\ turn' = x
BestEffort(x) == Records(x) \/ UNCHANGED turn

(* _stream yields an event to observe; its graph is then in state graph.   *)
(* The first event of a stream still has to take the place in _active.     *)
Event(s, type, body, graph) ==
  LET old == stream[s] IN
  stream' = [stream EXCEPT ![s] =
    [old EXCEPT !.at = IF active = s THEN "append" ELSE "register",
                !.type = type,
                !.body = body,
                !.graph = graph,
                !.committed = old.committed
                                /\ (graph \notin DOMAIN Durable \/ type = "run_waiting"),
                !.closings = old.closings + (IF type \in ClosingTypes THEN 1 ELSE 0)]]

Emits(s, type, body, graph) ==
  /\ Event(s, type, body, graph)
  /\ UNCHANGED <<store, checkpoint, turn, active, resume_lock, detached,
                 canceller, disturbed>>

-----------------------------------------------------------------------------
(* POST /api/nl2sql and /stream: runtime.run. *)
StartRun ==
  /\ stream[Starter].at = "idle"
  /\ \E graph \in {"input", "unresolved"} :
       Moves(Starter, [stream[Starter] EXCEPT
                         !.at = "graph",
                         !.graph = graph,
                         !.committed = graph = "unresolved"])

(* A run whose context cannot be resolved is two events without a graph. *)
ReportsUnresolved(s) ==
  /\ stream[s].at = "graph"
  /\ \/ /\ stream[s].graph = "unresolved"
        /\ Emits(s, "run_started", s, "unresolved_started")
     \/ /\ stream[s].graph = "unresolved_started"
        /\ stream[s].closings = 0
        /\ Emits(s, "run_failed", "fixed", "unresolved_started")

(* POST /api/runs/{run_id}/resume: _prepare_resume reads the status, the   *)
(* checkpoint and the next sequence, one after another.                    *)
ReadsStatus(s) ==
  /\ s \in Resumers
  /\ stream[s].at = "idle"
  /\ status[Run] = "waiting"
  /\ \E i \in Interrupts :
       Moves(s, [stream[s] EXCEPT !.at = "load", !.interrupt = i])

IsWaitingFor(i) == checkpoint = [status |-> "waiting", interrupt |-> i]

LoadsState(s) ==
  /\ stream[s].at = "load"
  /\ IF IsWaitingFor(stream[s].interrupt)
     THEN Moves(s, [stream[s] EXCEPT !.at = "sequence"])
     ELSE Dies(s)

ReadsSequence(s) ==
  /\ stream[s].at = "sequence"
  /\ Moves(s, [stream[s] EXCEPT !.at = "lock", !.sequence = NextSequence])

(* runtime.resume, under the lock of the run: the checkpoint is read       *)
(* again, the sequence is not.                                             *)
TakesLock(s) ==
  /\ stream[s].at = "lock"
  /\ resume_lock = Nobody
  /\ resume_lock' = s
  /\ stream' = [stream EXCEPT ![s].at = "reload"]
  /\ UNCHANGED <<store, checkpoint, turn, active, detached, canceller, disturbed>>

Resumes(s) ==
  /\ stream[s].at = "reload"
  /\ IsWaitingFor(stream[s].interrupt)
  /\ Moves(s, [stream[s] EXCEPT !.at = "graph", !.graph = "answered"])

(* Another checkpoint, or its authority is stale or cannot be resolved. *)
CannotResume(s) == stream[s].at = "reload" /\ Dies(s)

-----------------------------------------------------------------------------
(* The graph, as far as it shows in events and checkpoints. *)
InGraph(s, graph) == stream[s].at = "graph" /\ stream[s].graph = graph

Initializes(s) ==
  InGraph(s, "input") /\ Emits(s, "run_started", s, "running")

Progresses(s) ==
  /\ InGraph(s, "running")
  /\ Room(s, 2)
  /\ Emits(s, "progress", s, "running")

Asks(s) ==
  /\ InGraph(s, "running")
  /\ Room(s, 2)
  /\ \E i \in Interrupts :
       Moves(s, [stream[s] EXCEPT !.graph = "waiting",
                                  !.interrupt = i,
                                  !.committed = FALSE])

Waits(s) ==
  /\ InGraph(s, "waiting")
  /\ stream[s].closings = 0
  /\ Emits(s, "run_waiting", stream[s].interrupt, "waiting")

IsAnswered(s) ==
  InGraph(s, "answered") /\ Emits(s, "run_resumed", stream[s].interrupt, "running")

PersistsTurn(s) ==
  /\ InGraph(s, "running")
  /\ Records("answer")
  /\ stream' = [stream EXCEPT ![s] = [@ EXCEPT !.graph = "recorded",
                                               !.committed = FALSE]]
  /\ UNCHANGED <<store, checkpoint, active, resume_lock, detached, canceller,
                 disturbed>>

Finalizes(s) ==
  InGraph(s, "recorded") /\ Emits(s, "run_completed", s, "completed")

(* The node fail, after any error. *)
Fails(s) ==
  /\ stream[s].at = "graph"
  /\ stream[s].graph \in {"input", "running", "waiting", "answered", "recorded"}
  /\ stream[s].closings = 0
  /\ BestEffort("error")
  /\ Event(s, "run_failed", "fixed", "failed")
  /\ UNCHANGED <<store, checkpoint, active, resume_lock, detached, canceller,
                 disturbed>>

Commits(s) ==
  /\ stream[s].at \in {"graph", "register", "append", "yielded"}
  /\ ~stream[s].committed
  /\ checkpoint' = [status    |-> Durable[stream[s].graph],
                    interrupt |-> IF stream[s].graph = "waiting"
                                  THEN stream[s].interrupt ELSE NoInterrupt]
  /\ stream' = [stream EXCEPT ![s].committed = TRUE]
  /\ UNCHANGED <<store, turn, active, resume_lock, detached, canceller, disturbed>>

(* The graph raises, before it closed the stream. *)
RaisesUnhandled(s) ==
  /\ stream[s].at = "graph"
  /\ stream[s].graph \in DOMAIN Durable \cup {"answered"}
  /\ stream[s].closings = 0
  /\ Dies(s)
Raises(s) ==
  /\ stream[s].at = "graph"
  /\ stream[s].graph \in DOMAIN Durable \cup {"answered"}
  /\ stream[s].closings = 0
  /\ Moves(s, [stream[s] EXCEPT !.at = "mark", !.outcome = "failed"])

(* The handlers of _stream for an exception and for a cancellation.        *)
MarksCheckpointWithEvent(s) ==
  /\ stream[s].at = "mark"
  /\ checkpoint' = [status |-> IF stream[s].outcome = "failed" THEN "run_failed"
                               ELSE "run_cancelled",
                    interrupt |-> NoInterrupt]
  /\ stream' = [stream EXCEPT ![s] = [@ EXCEPT !.at = "record",
                                               !.committed = TRUE]]
  /\ UNCHANGED <<store, turn, active, resume_lock, detached, canceller, disturbed>>
MarksCheckpoint(s) ==
  /\ stream[s].at = "mark"
  /\ checkpoint' = [status |-> stream[s].outcome, interrupt |-> NoInterrupt]
  /\ stream' = [stream EXCEPT ![s] = [@ EXCEPT !.at = "record",
                                               !.committed = TRUE]]
  /\ UNCHANGED <<store, turn, active, resume_lock, detached, canceller, disturbed>>

Reports(s) ==
  /\ stream[s].at = "record"
  /\ IF stream[s].outcome = "cancelled"
     THEN BestEffort("cancelled") /\ Event(s, "run_cancelled", "active", "over")
     ELSE BestEffort("error") /\ Event(s, "run_failed", "fixed", "over")
  /\ UNCHANGED <<store, checkpoint, active, resume_lock, detached, canceller,
                 disturbed>>

(* The iteration over the graph ends after a closing event, its checkpoint *)
(* written.                                                                *)
Drains(s) ==
  /\ stream[s].at = "graph"
  /\ stream[s].closings > 0
  /\ stream[s].committed
  /\ Dies(s)

-----------------------------------------------------------------------------
(* observe. *)
RegistersAnyway(s) ==
  /\ stream[s].at = "register"
  /\ stream' = [stream EXCEPT ![s].at = "append"]
  /\ active' = s
  /\ UNCHANGED <<store, checkpoint, turn, resume_lock, detached, canceller,
                 disturbed>>
Registers(s) ==
  /\ stream[s].at = "register"
  /\ IF active = Nobody
     THEN /\ stream' = [stream EXCEPT ![s].at = "append"]
          /\ active' = s
          /\ UNCHANGED <<store, checkpoint, turn, resume_lock, detached,
                         canceller, disturbed>>
     ELSE Dies(s)

(* The store records the event, finds it recorded, or refuses it. *)
Writes(event) ==
  \E c \in {Conversation, NoConversation} :
     Store!Append(Run, event, Store!ConversationArgument(event, c))
Accepted(event) ==
  \E c \in {Conversation, NoConversation} :
     Store!Accepts(Run, event, Store!ConversationArgument(event, c))

AppendsUnchecked(s) ==
  /\ stream[s].at = "append"
  /\ \/ Writes(EventOf(s))
     \/ ~Accepted(EventOf(s)) /\ UNCHANGED store
  /\ stream' = [stream EXCEPT ![s].at = "yielded"]
  /\ UNCHANGED <<checkpoint, turn, active, resume_lock, detached, canceller,
                 disturbed>>
Appends(s) ==
  /\ stream[s].at = "append"
  /\ \/ /\ \/ Writes(EventOf(s))
           \/ Store!AlreadyRecorded(Run, EventOf(s)) /\ UNCHANGED store
        /\ stream' = [stream EXCEPT ![s].at = "yielded"]
        /\ UNCHANGED <<checkpoint, turn, active, resume_lock, detached,
                       canceller, disturbed>>
     \/ /\ ~Accepted(EventOf(s))
        /\ ~Store!AlreadyRecorded(Run, EventOf(s))
        /\ Dies(s)

IsRead(s) ==
  /\ stream[s].at = "yielded"
  /\ Moves(s, [stream[s] EXCEPT !.at = "graph",
                                !.sequence = @ + 1,
                                !.type = "none",
                                !.body = "fixed"])

(* A task cancelled while it appends: the thread may have started, and the *)
(* event is then still written.                                            *)
LeavesAppend(s) ==
  /\ Ends(s)
  /\ detached' \in {detached, detached \cup {EventOf(s)}}
  /\ disturbed' = TRUE
  /\ UNCHANGED <<store, checkpoint, turn>>
Leaves(s) ==
  /\ Ends(s)
  /\ disturbed' = TRUE
  /\ UNCHANGED <<store, checkpoint, turn, detached>>

DetachedWrite ==
  \E event \in detached :
     /\ detached' = detached \ {event}
     /\ \/ Writes(event)
        \/ ~Accepted(event) /\ UNCHANGED store
     /\ UNCHANGED <<checkpoint, turn, active, resume_lock, stream, canceller,
                    disturbed>>

-----------------------------------------------------------------------------
(* POST /api/runs/{run_id}/cancel. *)
CancellerAt(c, next) == canceller' = [canceller EXCEPT ![c] = next]

(* coordinator.cancel: the task of the active stream is cancelled where it *)
(* is suspended, and awaited.  Only a cancellation inside the graph        *)
(* reaches the handler of _stream.                                         *)
CancelsStream(c) ==
  LET s == active IN
  /\ canceller[c].at = "idle"
  /\ s # Nobody
  /\ CancellerAt(c, [canceller[c] EXCEPT !.at = "gather", !.target = s])
  /\ IF stream[s].at = "graph" /\ stream[s].graph \notin {"unresolved_started"}
     THEN /\ stream' = [stream EXCEPT ![s] = [@ EXCEPT !.at = "mark",
                                                       !.outcome = "cancelled"]]
          /\ UNCHANGED <<store, checkpoint, turn, active, resume_lock, detached,
                         disturbed>>
     ELSE IF stream[s].at = "append" THEN LeavesAppend(s) ELSE Leaves(s)

Gathers(c) ==
  /\ canceller[c].at = "gather"
  /\ stream[canceller[c].target].at = "gone"
  /\ CancellerAt(c, [canceller[c] EXCEPT !.at = "confirmed", !.target = Nobody])
  /\ UNCHANGED <<store, checkpoint, turn, active, resume_lock, stream, detached,
                 disturbed>>

(* Without an active stream: the status, the next sequence and the         *)
(* checkpoint are read one after another, then the checkpoint is marked    *)
(* (cancel_waiting, cancel_orphaned), and the event appended.              *)
Cancelling(c, next) ==
  /\ CancellerAt(c, next)
  /\ UNCHANGED <<store, active, resume_lock, stream, detached, disturbed>>

CancelReadsStatus(c) ==
  /\ canceller[c].at = "idle"
  /\ active = Nobody
  /\ UNCHANGED <<checkpoint, turn>>
  /\ CASE status[Run] \in {"waiting", "running"} ->
            Cancelling(c, [canceller[c] EXCEPT !.at = "sequence", !.mode = status[Run]])
       [] status[Run] = "cancelled" ->
            Cancelling(c, [canceller[c] EXCEPT !.at = "confirmed"])
       [] OTHER ->
            Cancelling(c, [canceller[c] EXCEPT !.at = "refused"])

CancelReadsSequence(c) ==
  /\ canceller[c].at = "sequence"
  /\ Cancelling(c, [canceller[c] EXCEPT !.at = "load", !.sequence = NextSequence])
  /\ UNCHANGED <<checkpoint, turn>>

CancelLoads(c) ==
  /\ canceller[c].at = "load"
  /\ Cancelling(c, [canceller[c] EXCEPT !.at = IF checkpoint.status = canceller[c].mode
                                               THEN "mark" ELSE "refused"])
  /\ UNCHANGED <<checkpoint, turn>>

CancelMarks(c) ==
  /\ canceller[c].at = "mark"
  /\ checkpoint' = [status |-> "cancelled", interrupt |-> NoInterrupt]
  /\ Cancelling(c, [canceller[c] EXCEPT !.at = "record"])
  /\ UNCHANGED turn

CancelRecords(c) ==
  /\ canceller[c].at = "record"
  /\ BestEffort("cancelled")
  /\ Cancelling(c, [canceller[c] EXCEPT !.at = "append"])
  /\ UNCHANGED checkpoint

CancelAppends(c) ==
  LET event == [sequence |-> canceller[c].sequence,
                type     |-> "run_cancelled",
                body     |-> canceller[c].mode] IN
  /\ canceller[c].at = "append"
  /\ \/ /\ \/ Writes(event)
           \/ Store!AlreadyRecorded(Run, event) /\ UNCHANGED store
        /\ CancellerAt(c, [canceller[c] EXCEPT !.at = "confirmed"])
     \/ /\ ~Accepted(event)
        /\ ~Store!AlreadyRecorded(Run, event)
        /\ CancellerAt(c, [canceller[c] EXCEPT !.at = "refused"])
        /\ UNCHANGED store
  /\ UNCHANGED <<checkpoint, turn, active, resume_lock, stream, detached, disturbed>>

-----------------------------------------------------------------------------
(* A client that goes away cancels its task again at every await, so no    *)
(* handler runs to its end.                                                *)
Disconnect(s) ==
  /\ "disconnect" \in Disturbances
  /\ stream[s].at \notin Ended
  /\ IF stream[s].at = "append" THEN LeavesAppend(s) ELSE Leaves(s)
  /\ UNCHANGED canceller

(* The process restarts: only what is on disk remains. *)
Crash ==
  /\ "crash" \in Disturbances
  /\ \E s \in Streams : stream[s].at \notin Ended
  /\ stream' = [s \in Streams |->
                  IF stream[s].at = "idle" THEN stream[s]
                  ELSE [NewStream EXCEPT !.at = "gone"]]
  /\ canceller' = [c \in Cancellers |->
                     IF canceller[c].at \in {"idle", "confirmed", "refused"}
                     THEN canceller[c]
                     ELSE [NewCanceller EXCEPT !.at = "lost"]]
  /\ active' = Nobody
  /\ resume_lock' = Nobody
  /\ detached' = {}
  /\ disturbed' = TRUE
  /\ UNCHANGED <<store, checkpoint, turn>>

-----------------------------------------------------------------------------
Init ==
  /\ Store!Init
  /\ checkpoint = [status |-> "none", interrupt |-> NoInterrupt]
  /\ turn = "none"
  /\ active = Nobody
  /\ resume_lock = Nobody
  /\ stream = [s \in Streams |-> NewStream]
  /\ detached = {}
  /\ canceller = [c \in Cancellers |-> NewCanceller]
  /\ disturbed = FALSE

(* What the task of s does by itself once it has begun. *)
StreamStep(s) ==
  \/ ReportsUnresolved(s)
  \/ LoadsState(s) \/ ReadsSequence(s) \/ TakesLock(s) \/ Resumes(s) \/ CannotResume(s)
  \/ Initializes(s) \/ Progresses(s) \/ Asks(s) \/ Waits(s) \/ IsAnswered(s)
  \/ PersistsTurn(s) \/ Finalizes(s) \/ Fails(s) \/ Raises(s) \/ Commits(s)
  \/ MarksCheckpoint(s) \/ Reports(s) \/ Drains(s)
  \/ Registers(s) \/ Appends(s) \/ IsRead(s)

CancelStep(c) ==
  \/ CancelsStream(c) \/ Gathers(c)
  \/ CancelReadsStatus(c) \/ CancelReadsSequence(c) \/ CancelLoads(c)
  \/ CancelMarks(c) \/ CancelRecords(c) \/ CancelAppends(c)

Next ==
  \/ StartRun \/ DetachedWrite \/ Crash
  \/ \E s \in Streams : ReadsStatus(s) \/ StreamStep(s) \/ Disconnect(s)
  \/ \E c \in Cancellers : CancelStep(c)

Spec == Init /\ [][Next]_vars

(* The event loop runs every task that can run. *)
FairSpec == Spec /\ \A s \in Streams : WF_vars(StreamStep(s))

-----------------------------------------------------------------------------
(* The variables hold what the program's can. *)
TypeOK ==
  /\ Store!TypeOK
  /\ checkpoint \in [status : {"none", "input", "running", "waiting", "completed",
                               "failed", "cancelled"},
                     interrupt : Interrupts \cup {NoInterrupt}]
  /\ turn \in {"none", "answer", "error", "cancelled"}
  /\ {active, resume_lock} \subseteq Streams \cup {Nobody}
  /\ detached \subseteq [sequence : 0..MaxSequence + 1, type : Store!EventTypes,
                         body : Bodies]
  /\ disturbed \in BOOLEAN

(* Whoever finds a run completed finds its answer in the conversation,     *)
(* whatever a cancellation was doing to the same run meanwhile.            *)
CompletedIsAnswered ==
  "completed" \in {status[Run], checkpoint.status} => turn = "answer"

(* Two streams of one run never produce its events at the same time, even  *)
(* though a resume is accepted while the stream before it still drains.    *)
Producing(s) == stream[s].at \in {"append", "yielded"}
OneProducer == \A s, t \in Streams : Producing(s) /\ Producing(t) => s = t

(* A client sees no event that a replay would not show at the same place.  *)
ShownIsRecorded ==
  \A s \in Streams : stream[s].at = "yielded" =>
     [run |-> Run, event |-> EventOf(s)] \in run_events

(* A run that nobody abandons does not stay running: every error, and a    *)
(* cancellation that reaches the graph, ends it in the store as well.      *)
Unsettled == status[Run] = "running" /\ ~disturbed
RunSettles == Unsettled ~> ~Unsettled

-----------------------------------------------------------------------------
(* What the documentation promises and the code does not keep: each of     *)
(* these has a run that shows a counterexample.                            *)
Quiet == /\ \A s \in Streams : stream[s].at \in Ended
         /\ \A c \in Cancellers : canceller[c].at \notin
              {"gather", "sequence", "load", "mark", "record", "append"}
         /\ detached = {}

(* cancel_orphaned: "Cancel a checkpointed run whose owning stream         *)
(* disappeared after restart."  Once the checkpoint has a status, a run    *)
(* left running in the store can be cancelled, which frees its             *)
(* conversation.                                                           *)
OrphanIsCancellable ==
  Quiet /\ status[Run] = "running" /\ checkpoint.status \notin {"none", "input"}
    => checkpoint.status = "running"

(* A waiting run stays resumable once its stream has ended. *)
WaitingStaysResumable ==
  Quiet /\ status[Run] = "waiting" => checkpoint.status = "waiting"

(* A stream has exactly one closing event. *)
OneClosingEvent == \A s \in Streams : stream[s].closings <= 1

(* A cancellation that was confirmed is persisted: the run is not open. *)
ConfirmedCancelCloses ==
  \A c \in Cancellers : canceller[c].at = "confirmed" /\ Quiet
    => status[Run] \notin {"running", "waiting"}
=============================================================================
