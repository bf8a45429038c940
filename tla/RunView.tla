------------------------------ MODULE RunView ------------------------------
(***************************************************************************)
(* The page that shows a run: the reducer of agentRunState.ts and the      *)
(* handlers of App.tsx that feed it (send, resume, cancel, select,         *)
(* recover), over the streams of api.ts and the stored events of the       *)
(* service.                                                                *)
(*                                                                         *)
(* A handler runs until it awaits; what it awaits, and the variables it    *)
(* captured, are in streams, recoveries and cancels.  Cancelling a run     *)
(* and selecting a conversation leave a stream open, so several streams    *)
(* may feed the one view.  An exception of the reducer is thrown while     *)
(* React renders and, without an error boundary, removes the page; its     *)
(* handlers go on until the page is loaded again.                          *)
(*                                                                         *)
(* Events are their kinds; plans, tool calls, artifacts and messages are   *)
(* left out.  The service appends what it likes in a legal order.          *)
(***************************************************************************)
EXTENDS Integers, Sequences, SequencesExt

CONSTANTS Chats,      \* conversation ids
          ViewedRuns, \* run ids
          Streams,    \* streams open at a time
          MaxEvents   \* bound: MaxEvents[r] events of run r

VARIABLES log,        \* log[r]: the stored events of run r
          view,       \* AgentRunState
          page,       \* activeConversationId, loading, activeRunId, and whether it stands
          saved,      \* localStorage: the active run of each conversation
          streams,    \* open streams and the handlers that read them
          recoveries, \* recoverConversationRun: requests for stored events
          cancels     \* handleCancelRun: cancellations asked for

client_vars == <<view, page, saved>>
pending_vars == <<recoveries, cancels>>
view_vars == <<log, client_vars, streams, pending_vars>>

NoRun == "none"
NoChat == "no conversation"

ASSUME ViewAssumption ==
  /\ MaxEvents \in [ViewedRuns -> Nat \ {0}]
  /\ NoRun \notin ViewedRuns /\ NoChat \notin Chats

Closed == [run |-> "closed"]
Looking == [run |-> "looking"]  \* a failed resumption looks its run up again
Page == "page"                  \* who recovers a run, if no resumption does

Moving == {"run_started", "progress", "answer_synthesizing"}  \* status becomes running
Silent == {"tool_started", "observation_recorded"}            \* status stays
Ending == {"run_completed", "run_failed"}
Kinds == Moving \cup Silent \cup Ending \cup {"run_waiting", "run_resumed"}
Blocking == {"running", "resuming", "waiting"}
Statuses == Blocking \cup {"idle", "completed", "failed"}  \* cancelled is failed

LastKind(events) == IF events = <<>> THEN "none" ELSE Last(events)
Over(r) == LastKind(log[r]) \in Ending

-----------------------------------------------------------------------------
(* The service. *)

Follows(events) ==
  CASE LastKind(events) = "none" -> {"run_started", "run_failed"}
    [] LastKind(events) = "run_waiting" -> {"run_resumed", "run_failed"}
    [] LastKind(events) \in Ending -> {}
    [] OTHER -> {"progress", "tool_started", "run_waiting", "run_completed", "run_failed"}

(* A started run goes on by itself; a waiting one only if it is resumed or   *)
(* cancelled.                                                                *)
RunAppends(r) ==
  /\ log[r] # <<>> /\ LastKind(log[r]) # "run_waiting" /\ Len(log[r]) < MaxEvents[r]
  /\ \E kind \in Follows(log[r]) : log' = [log EXCEPT ![r] = Append(@, kind)]
  /\ UNCHANGED <<client_vars, streams, pending_vars>>

-----------------------------------------------------------------------------
(* agentRunReducer. *)

FreshView == [run |-> NoRun, status |-> "idle", events |-> <<>>, input |-> FALSE]

(* Faulty: an event is refused only when its run is not the one shown. *)
OfThisRun(v, r, q) == v.run \in {NoRun, r}

(* applyEvent: event q of run r is the next one of the run that is shown. *)
IsNext(v, r, q) == v.run \in {NoRun, r} /\ q = Len(v.events) + 1

(* An event that is already shown is ignored. *)
IsReplay(v, r, q) == v.run = r /\ q <= Len(v.events)

StatusAfter(status, kind) ==
  CASE kind \in Moving \cup {"run_resumed"} -> "running"
    [] kind = "run_waiting" -> "waiting"
    [] kind = "run_completed" -> "completed"
    [] kind = "run_failed" -> "failed"
    [] OTHER -> IF status = "idle" THEN "running" ELSE status

Applied(v, r, kind) ==
  [run |-> r, status |-> StatusAfter(v.status, kind), events |-> Append(v.events, kind),
   input |-> kind = "run_waiting" \/ (v.input /\ kind \notin Ending \cup {"run_resumed"})]

(* hydrateAgentRun over all the events of a run. *)
Hydrated(r) ==
  LET Replay[n \in 0 .. Len(log[r])] ==
        IF n = 0 THEN FreshView ELSE Applied(Replay[n - 1], r, log[r][n])
  IN Replay[Len(log[r])]

Ended(v) == [v EXCEPT !.status = "failed", !.input = FALSE]

(* A dispatch changes the view of a page that stands. *)
Dispatches(v) == view' = IF page.stands THEN v ELSE view
Sees(s) == Len(log[streams[s].run]) >= streams[s].next
Event(s) == log[streams[s].run][streams[s].next]

-----------------------------------------------------------------------------
(* handleSend and the stream it reads. *)

Open(s) == streams[s] \notin {Closed, Looking}
ReadsRun(s) == Open(s) /\ streams[s].run # NoRun
OpenStream(s, stream) == streams' = [streams EXCEPT ![s] = stream]

Send(s) ==
  /\ page.stands /\ streams[s] = Closed
  /\ ~ page.loading /\ view.status \notin Blocking
  /\ page' = [page EXCEPT !.loading = TRUE]
  /\ Dispatches(FreshView)
  /\ OpenStream(s, [run |-> NoRun, chat |-> page.chat, captured |-> page.chat, next |-> 1,
                    resumes |-> FALSE])
  /\ UNCHANGED <<log, saved, pending_vars>>

(* A conversation is created for the first question, and selected. *)
ConversationCreated(s, chat) ==
  /\ Open(s) /\ streams[s].chat = NoChat
  /\ page' = [page EXCEPT !.chat = chat]
  /\ streams' = [streams EXCEPT ![s].chat = chat]
  /\ UNCHANGED <<log, view, saved, pending_vars>>

(* The service accepts the message and starts a run for it. *)
RunStarts(s, r) ==
  /\ Open(s) /\ streams[s].run = NoRun /\ streams[s].chat # NoChat
  /\ log[r] = <<>>
  /\ \E kind \in Follows(<<>>) : log' = [log EXCEPT ![r] = <<kind>>]
  /\ streams' = [streams EXCEPT ![s].run = r]
  /\ UNCHANGED <<client_vars, pending_vars>>

Resume(s) ==
  /\ page.stands /\ streams[s] = Closed
  /\ view.run # NoRun /\ view.input /\ ~ page.loading
  /\ page' = [page EXCEPT !.loading = TRUE]
  /\ view' = IF view.status = "waiting" THEN [view EXCEPT !.status = "resuming"] ELSE view
  /\ OpenStream(s, [run |-> view.run, chat |-> page.chat, captured |-> page.chat,
                    next |-> Len(view.events) + 1, resumes |-> TRUE])
  /\ UNCHANGED <<log, saved, pending_vars>>

(* The answer reaches a run that still waits. *)
RunResumes(s) ==
  /\ ReadsRun(s) /\ streams[s].resumes
  /\ LastKind(log[streams[s].run]) = "run_waiting" /\ ~ Sees(s)
  /\ Len(log[streams[s].run]) < MaxEvents[streams[s].run]
  /\ log' = [log EXCEPT ![streams[s].run] = Append(@, "run_resumed")]
  /\ UNCHANGED <<client_vars, streams, pending_vars>>

(* onEvent: dispatch, then the bookkeeping of the handler. *)
Delivered(s) ==
  /\ ReadsRun(s) /\ Sees(s)
  /\ LET r == streams[s].run
         q == streams[s].next IN
     /\ view' = IF page.stands /\ IsNext(view, r, q)
                THEN Applied(view, r, Event(s)) ELSE view
     /\ page' = [page EXCEPT
          !.stands = @ /\ (IsNext(view, r, q) \/ IsReplay(view, r, q)),
          !.run = IF Event(s) = "run_started" THEN r ELSE @]
     /\ saved' = CASE Event(s) = "run_started" -> [saved EXCEPT ![streams[s].chat] = r]
                   [] Event(s) \in Ending -> [saved EXCEPT ![streams[s].chat] = NoRun]
                   [] OTHER -> saved
  /\ streams' = [streams EXCEPT ![s].next = @ + 1]
  /\ UNCHANGED <<log, pending_vars>>

(* The event that closes the stream has been read. *)
AtEnd(s) ==
  ReadsRun(s) /\ streams[s].next > 1 /\ ~ Sees(s)
    /\ LastKind(log[streams[s].run]) \in Ending \cup {"run_waiting"}

StreamEnds(s) ==
  /\ AtEnd(s)
  /\ OpenStream(s, Closed)
  /\ page' = [page EXCEPT !.loading = FALSE,
       !.run = IF LastKind(log[streams[s].run]) # "run_waiting" THEN NoRun
               ELSE IF streams[s].resumes THEN @ ELSE streams[s].run]
  /\ UNCHANGED <<log, view, saved, pending_vars>>

(* A question is refused, its stream breaks, or the list of conversations    *)
(* cannot be read after it: a run that waits stays the active one then.      *)
StreamFails(s) ==
  /\ Open(s) /\ ~ streams[s].resumes
  /\ Dispatches(Ended(view))
  /\ OpenStream(s, Closed)
  /\ \E r \in {NoRun} \cup (IF AtEnd(s) THEN {streams[s].run} ELSE {}) :
       page' = [page EXCEPT !.loading = FALSE, !.run = r]
  /\ LET chat == streams[s].captured IN
     saved' = IF chat = NoChat THEN saved ELSE [saved EXCEPT ![chat] = NoRun]
  /\ UNCHANGED <<log, pending_vars>>

(* A failed resumption looks up the run that is saved for its conversation,  *)
(* and the page goes on loading until it has the answer.                     *)
ResumeFails(s) ==
  LET r == saved[streams[s].chat] IN
  /\ Open(s) /\ streams[s].resumes
  /\ \/ /\ r = NoRun
        /\ Dispatches(FreshView)
        /\ page' = [page EXCEPT !.loading = FALSE, !.run = NoRun]
        /\ OpenStream(s, Closed)
        /\ UNCHANGED recoveries
     \/ /\ r # NoRun
        /\ Dispatches(Ended(view))
        /\ recoveries' = recoveries \cup {<<streams[s].chat, r, s>>}
        /\ OpenStream(s, Looking)
        /\ UNCHANGED page
  /\ UNCHANGED <<log, saved, cancels>>

-----------------------------------------------------------------------------
(* handleSelectConversation, bootstrap and recoverConversationRun. *)

Recovers(chat) ==
  recoveries' = recoveries \cup
                  (IF saved[chat] = NoRun THEN {} ELSE {<<chat, saved[chat], Page>>})

Select(chat) ==
  /\ page.stands
  /\ page' = [page EXCEPT !.chat = chat, !.run = IF saved[chat] = NoRun THEN NoRun ELSE @]
  /\ view' = FreshView
  /\ Recovers(chat)
  /\ UNCHANGED <<log, saved, streams, cancels>>

(* What follows the lookup: a resumption that has failed is over. *)
LookedUp(chat, r, by) ==
  /\ <<chat, r, by>> \in recoveries
  /\ recoveries' = recoveries \ {<<chat, r, by>>}
  /\ streams' = [s \in Streams |-> IF s = by THEN Closed ELSE streams[s]]

(* The stored events arrive: whatever is selected by then, they are shown.   *)
(* Whether a resumption has seen the run wait again is left open.            *)
Recovered(chat, r, by) ==
  /\ LookedUp(chat, r, by)
  /\ Dispatches(Hydrated(r))
  /\ LET live == Hydrated(r).status \in Blocking IN
     /\ \E active \in (IF live THEN {r} ELSE {NoRun})
                      \cup (IF by = Page THEN {} ELSE {NoRun}) :
          page' = [page EXCEPT !.run = active, !.loading = @ /\ by = Page]
     /\ saved' = IF live THEN saved ELSE [saved EXCEPT ![chat] = NoRun]
  /\ UNCHANGED <<log, cancels>>

RecoveryFails(chat, r, by) ==
  /\ LookedUp(chat, r, by)
  /\ page' = IF by = Page THEN page ELSE [page EXCEPT !.run = NoRun, !.loading = FALSE]
  /\ UNCHANGED <<log, view, saved, cancels>>

(* The page is loaded again: only localStorage is left of it. *)
Reload(chat) ==
  /\ view' = FreshView
  /\ page' = [chat |-> chat, loading |-> FALSE, run |-> NoRun, stands |-> TRUE]
  /\ streams' = [s \in Streams |-> Closed]
  /\ recoveries' = IF saved[chat] = NoRun THEN {} ELSE {<<chat, saved[chat], Page>>}
  /\ cancels' = {}
  /\ UNCHANGED <<log, saved>>

-----------------------------------------------------------------------------
(* handleCancelRun.  Bound: one cancellation is asked for at a time. *)
Cancel ==
  LET r == IF page.run # NoRun THEN page.run ELSE view.run IN
  /\ page.stands /\ r # NoRun /\ cancels = {}
  /\ cancels' = {<<page.chat, r>>}
  /\ UNCHANGED <<log, client_vars, streams, recoveries>>

(* The service ends a run that has not ended; the page hears of it before or *)
(* after the stream does.                                                    *)
RunCancelled(chat, r) ==
  /\ <<chat, r>> \in cancels
  /\ cancels' = cancels \ {<<chat, r>>}
  /\ IF log[r] = <<>> \/ Over(r)
     THEN UNCHANGED <<log, client_vars>>
     ELSE /\ log' = [log EXCEPT ![r] = Append(@, "run_failed")]
          /\ Dispatches(Ended(view))
          /\ saved' = IF chat = NoChat THEN saved ELSE [saved EXCEPT ![chat] = NoRun]
          /\ page' = [page EXCEPT !.run = NoRun, !.loading = FALSE]
  /\ UNCHANGED <<streams, recoveries>>

-----------------------------------------------------------------------------
ViewInit ==
  /\ log = [r \in ViewedRuns |-> <<>>]
  /\ view = FreshView
  /\ page = [chat |-> NoChat, loading |-> FALSE, run |-> NoRun, stands |-> TRUE]
  /\ saved = [chat \in Chats |-> NoRun]
  /\ streams = [s \in Streams |-> Closed]
  /\ recoveries = {} /\ cancels = {}

ViewNext ==
  \/ \E r \in ViewedRuns : RunAppends(r)
  \/ \E s \in Streams :
       \/ Send(s) \/ \E chat \in Chats : ConversationCreated(s, chat)
       \/ \E r \in ViewedRuns : RunStarts(s, r)
       \/ Resume(s) \/ RunResumes(s) \/ Delivered(s)
       \/ StreamEnds(s) \/ StreamFails(s) \/ ResumeFails(s)
  \/ \E chat \in Chats :
       \/ Select(chat) \/ Reload(chat)
       \/ \E r \in ViewedRuns, by \in Streams \cup {Page} :
            Recovered(chat, r, by) \/ RecoveryFails(chat, r, by)
  \/ Cancel
  \/ \E chat \in Chats \cup {NoChat}, r \in ViewedRuns : RunCancelled(chat, r)

ViewSpec == ViewInit /\ [][ViewNext]_view_vars

-----------------------------------------------------------------------------
(* The values of the log, the view, the page and what is pending. *)
ViewTypeOK ==
  /\ \A r \in ViewedRuns : /\ Len(log[r]) <= MaxEvents[r] + 1
                           /\ \A q \in DOMAIN log[r] : log[r][q] \in Kinds
  /\ view.run \in ViewedRuns \cup {NoRun} /\ view.status \in Statuses
  /\ view.input \in BOOLEAN
  /\ page \in [chat : Chats \cup {NoChat}, loading : BOOLEAN,
               run : ViewedRuns \cup {NoRun}, stands : BOOLEAN]
  /\ saved \in [Chats -> ViewedRuns \cup {NoRun}]
  /\ \A s \in Streams : Open(s) => streams[s].chat \in Chats \cup {NoChat} /\ streams[s].next > 0
  /\ recoveries \subseteq Chats \X ViewedRuns \X (Streams \cup {Page})
  /\ cancels \subseteq (Chats \cup {NoChat}) \X ViewedRuns

(* However streams, recoveries, cancellations and selections overlap, what   *)
(* the page shows is one run as it was stored: the first events of the run,  *)
(* none missing and none of another run; it waits for an answer only when    *)
(* the run last asked for one, and completes only when the run did.          *)
ViewIsPrefix ==
  /\ view.run # NoRun => IsPrefix(view.events, log[view.run])
  /\ view.run = NoRun => view.events = <<>>
  /\ view.status = "waiting" => LastKind(view.events) = "run_waiting"
  /\ view.status = "completed" => LastKind(view.events) = "run_completed"
=============================================================================
