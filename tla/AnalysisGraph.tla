--------------------------- MODULE AnalysisGraph ---------------------------
(***************************************************************************)
(* The analysis graph of one run (src/data_agent/analysis_agent: graph.py, *)
(* nodes.py, guard.py): which node runs next, what a node may spend before *)
(* it runs, and how every error, deadline and clarification leads to one   *)
(* end.                                                                    *)
(*                                                                         *)
(* One action is one superstep of LangGraph: the node runs, its update is  *)
(* merged into the state, and the edges of graph.py pick the next node.  A *)
(* node that fails contributes only "error" and "next_route": whatever it  *)
(* had spent is forgotten by the budget, though not by the variable spent. *)
(*                                                                         *)
(* The model, the tools and the repository answer in any way their types   *)
(* allow, and may raise.  What the nodes look at in an answer is kept: the *)
(* decision, the tool, and which clarification is asked.  The callback     *)
(* context.cancelled is never set by the application and is left out.      *)
(***************************************************************************)
EXTENDS Integers

CONSTANTS Limits,           \* AgentRunBudget: a limit for every counter
          Clarifications,   \* fingerprints of clarification requests
          NoClarification   \* waiting_request is None

Counters == {"agent_steps", "model_calls", "tool_calls", "query_compiles",
             "query_previews", "query_executes", "replans"}
Tools == {"query.compile", "query.preview", "query.execute", "other"}

ASSUME LimitsAssumption == Limits \in [Counters -> Nat]
ASSUME ClarificationAssumption == NoClarification \notin Clarifications

VARIABLES
  node,                 \* the node LangGraph runs next, or how it stopped
  status,               \* "initializing" until initialize_run has set it
  error,                \* state["error"] is set
  next_route,           \* state["next_route"]
  budget,               \* AgentBudgetState: the counters it remembers
  spent,                \* history: the counters really used up
  supersteps,           \* history: supersteps of this invocation
  plan,                 \* state["plan"] is set
  observations,         \* state["observations"] is not empty
  decision,             \* planner_decision.decision
  pending_action,       \* the tool of pending_action
  waiting_request,      \* fingerprint of waiting_request
  clarification_turns,  \* fingerprints the user has answered
  replan_requested,
  turn,                 \* what is recorded in the conversation for this run
  expired               \* the clock has passed budget.deadline_at

lifecycle == <<status, error, next_route>>
costs == <<budget, spent>>
planning == <<plan, decision, pending_action>>
dialogue == <<waiting_request, clarification_turns, replan_requested>>
vars == <<node, supersteps, lifecycle, costs, planning, observations, dialogue,
          turn, expired>>

Nodes == {"initialize_run", "load_context", "plan_or_replan", "guard_decision",
          "execute_tool", "observe_result", "evaluate_progress",
          "request_input", "request_input_resumed", "synthesize_answer",
          "validate_answer", "persist_turn", "finalize_run", "fail"}
Stops == {"interrupted", "end", "raised"}
Decisions == {"act", "clarify", "finish", "fail"}
Routes == Nodes \cup {"none"}

-----------------------------------------------------------------------------
(* Budgets (guard.py). *)
ToolBudgetCounters(tool) ==
  {"tool_calls"} \cup
    CASE tool = "query.compile" -> {"query_compiles"}
      [] tool = "query.preview" -> {"query_previews"}
      [] tool = "query.execute" -> {"query_executes"}
      [] tool = "other"         -> {}

RemainsOffByOne(b, counter, n) == b[counter] + n <= Limits[counter] + 1

(* n more of a counter are within its limit. *)
Remains(b, counter, n) == b[counter] + n <= Limits[counter]

(* consume_budget for one of each counter of cs, and for calls model calls. *)
Affordable(b, cs, calls) == /\ \A counter \in cs : Remains(b, counter, 1)
                            /\ Remains(b, "model_calls", calls)
Consume(b, cs, calls) ==
  [counter \in Counters |->
     b[counter] + (IF counter \in cs THEN 1 ELSE 0)
                + (IF counter = "model_calls" THEN calls ELSE 0)]

(* analysis_graph_recursion_limit: LangGraph raises when an invocation has *)
(* more supersteps than this.                                              *)
RecursionLimitOfSteps == 6 * Limits["agent_steps"]
RecursionLimit == 12 + 6 * Limits["agent_steps"] + 2 * Limits["replans"]

-----------------------------------------------------------------------------
(* One superstep of node n. *)
Runs(n) == node = n /\ supersteps' = supersteps + 1 /\ UNCHANGED expired

(* _entry_guard: a node of a finished or overdue run does not start. *)
EntryGuard == ~expired /\ status \in {"initializing", "running", "waiting_input"}

(* _failure: the update of a node that raised. *)
Failure == /\ error' = TRUE
           /\ next_route' = "fail"
           /\ UNCHANGED <<status, budget, planning, observations, dialogue>>

(* _next_or_fail: the edges out of most nodes, after an update without an  *)
(* error.                                                                  *)
NextOrFail(expected) == node' = IF error THEN "fail" ELSE expected

(* A node that raised before it called anything, on an edge to fail. *)
FailsIdle(n) == /\ Runs(n)
                /\ Failure
                /\ node' = "fail"
                /\ UNCHANGED <<spent, turn>>

InitializeRunWithoutStatus ==
  \/ FailsIdle("initialize_run")
  \/ /\ Runs("initialize_run")
     /\ next_route' = "load_context"
     /\ NextOrFail("load_context")
     /\ UNCHANGED <<status, error, costs, planning, observations, dialogue, turn>>

InitializeRun ==
  \/ FailsIdle("initialize_run")
  \/ /\ Runs("initialize_run")
     /\ status' = "running"
     /\ next_route' = "load_context"
     /\ NextOrFail("load_context")
     /\ UNCHANGED <<error, costs, planning, observations, dialogue, turn>>

LoadContext ==
  \/ FailsIdle("load_context")
  \/ /\ Runs("load_context")
     /\ EntryGuard
     /\ next_route' = "plan_or_replan"
     /\ NextOrFail("plan_or_replan")
     /\ UNCHANGED <<status, error, costs, planning, observations, dialogue, turn>>

(* plan_or_replan.  How many model calls a decision takes: the resolver's  *)
(* initial decision takes none, a later one at most one, and when the      *)
(* resolver has no decision the planner is asked.                          *)
PlanningCounters ==
  {"agent_steps"} \cup (IF replan_requested THEN {"replans"} ELSE {})
PlanningCalls == IF ~plan THEN {0, 1}
                 ELSE IF observations \/ replan_requested THEN {0, 1, 2} ELSE {1}

(* A planner's clarification must be new to the user. *)
IsNewUnchecked(request) == request \in Clarifications
IsNew(request) == request \in Clarifications \ clarification_turns

PlanSucceeds ==
  /\ Runs("plan_or_replan")
  /\ EntryGuard
  /\ \E calls \in PlanningCalls :
       /\ Affordable(budget, PlanningCounters, calls)
       /\ budget' = Consume(budget, PlanningCounters, calls)
       /\ spent' = Consume(spent, PlanningCounters, calls)
  /\ \/ /\ decision' \in {"finish", "fail"}
        /\ pending_action' = "none"
        /\ waiting_request' = NoClarification
        /\ status' = "running"
     \/ /\ decision' = "act"
        /\ pending_action' \in Tools
        /\ waiting_request' = NoClarification
        /\ status' = "running"
     \/ /\ decision' = "clarify"
        /\ pending_action' = "none"
        /\ \E request \in Clarifications :
             IsNew(request) /\ waiting_request' = request
        /\ status' = "waiting_input"
  /\ plan' = TRUE
  /\ replan_requested' = FALSE
  /\ next_route' = "none"
  /\ node' = "guard_decision"
  /\ UNCHANGED <<error, observations, clarification_turns, turn>>

(* The edge to guard_decision is unconditional.  The calls made before the *)
(* node raised were allowed one by one, but the budget forgets them.       *)
PlanFails ==
  /\ Runs("plan_or_replan")
  /\ Failure
  /\ \/ UNCHANGED spent
     \/ /\ EntryGuard
        /\ \E calls \in 0..2 :
             /\ \E most \in PlanningCalls : calls <= most
             /\ Affordable(budget, PlanningCounters, calls)
             /\ spent' = Consume(spent, PlanningCounters, calls)
  /\ node' = "guard_decision"
  /\ UNCHANGED turn

PlanOrReplan == PlanSucceeds \/ PlanFails

(* guard_decision sends a run with an error to fail before it looks at the *)
(* decision, which may be the one of an earlier plan.                      *)
RouteOfWithDecision == [act     |-> "execute_tool",
                        clarify |-> "clarify",
                        finish  |-> "synthesize_answer"]
RouteOf == [act     |-> "execute_tool",
            clarify |-> "request_input",
            finish  |-> "synthesize_answer"]

GuardsDecision ==
  /\ Runs("guard_decision")
  /\ EntryGuard
  /\ decision \in DOMAIN RouteOf
  /\ next_route' = RouteOf[decision]
  /\ node' = next_route'
  /\ UNCHANGED <<status, error, costs, planning, observations, dialogue, turn>>

GuardDecisionIgnoringError == GuardsDecision \/ FailsIdle("guard_decision")
GuardDecisionWithoutFailure == error = FALSE /\ GuardsDecision

GuardDecision ==
  \/ error = FALSE /\ GuardsDecision
  \/ FailsIdle("guard_decision")

(* execute_tool.  The executor is called once the counters are paid; it    *)
(* may raise, and the update with the budget is then lost.                 *)
ExecuteTool ==
  LET cs == ToolBudgetCounters(pending_action) IN
  \/ FailsIdle("execute_tool")
  \/ /\ Runs("execute_tool")
     /\ EntryGuard
     /\ pending_action # "none"
     /\ Affordable(budget, cs, 0)
     /\ spent' = Consume(spent, cs, 0)
     /\ \/ /\ Failure
           /\ node' = "fail"
        \/ /\ budget' = Consume(budget, cs, 0)
           /\ next_route' = "observe_result"
           /\ NextOrFail("observe_result")
           /\ UNCHANGED <<status, error, planning, observations, dialogue>>
     /\ UNCHANGED turn

ObserveResult ==
  \/ FailsIdle("observe_result")
  \/ /\ Runs("observe_result")
     /\ EntryGuard
     /\ observations' = TRUE
     /\ next_route' = "evaluate_progress"
     /\ NextOrFail("evaluate_progress")
     /\ UNCHANGED <<status, error, costs, planning, dialogue, turn>>

(* evaluate_progress.  Only the model, for one call, asks a clarification; *)
(* any request will do, answered before or not.                            *)
StatusAfterEvaluationAlwaysRunning(evaluation) == "running"
StatusAfterEvaluation(evaluation) ==
  IF evaluation = "clarify" THEN "waiting_input" ELSE "running"

EvaluationSucceeds(evaluation, calls) ==
  /\ Affordable(budget, {}, calls)
  /\ budget' = Consume(budget, {}, calls)
  /\ spent' = Consume(spent, {}, calls)
  /\ next_route' = CASE evaluation \in {"continue", "replan"} -> "plan_or_replan"
                     [] evaluation = "clarify" -> "request_input"
                     [] evaluation = "finish"  -> "synthesize_answer"
                     [] evaluation = "fail"    -> "fail"
  /\ error' = (evaluation = "fail")
  /\ node' = next_route'
  /\ status' = StatusAfterEvaluation(evaluation)
  /\ replan_requested' = (evaluation = "replan")
  /\ IF evaluation = "clarify"
     THEN calls = 1 /\ waiting_request' \in Clarifications
     ELSE waiting_request' = NoClarification
  /\ UNCHANGED <<planning, observations, clarification_turns, turn>>

EvaluateProgress ==
  \/ FailsIdle("evaluate_progress")
  \/ /\ Runs("evaluate_progress")
     /\ EntryGuard
     /\ \/ \E evaluation \in {"continue", "replan", "clarify", "finish", "fail"},
             calls \in {0, 1} : EvaluationSucceeds(evaluation, calls)
        \/ /\ Affordable(budget, {}, 1)
           /\ Failure
           /\ node' = "fail"
           /\ spent' = Consume(spent, {}, 1)
           /\ UNCHANGED turn

(* request_input, reached with a request, interrupts the invocation: the   *)
(* update of the superstep is empty.  Its only edge leads to planning,     *)
(* with or without an error.                                               *)
RequestInput ==
  /\ Runs("request_input")
  /\ UNCHANGED <<spent, turn>>
  /\ \/ Failure /\ node' = "plan_or_replan"
     \/ /\ EntryGuard
        /\ waiting_request # NoClarification
        /\ node' = "interrupted"
        /\ UNCHANGED <<lifecycle, budget, planning, observations, dialogue>>

(* A resume starts a new invocation, which runs request_input again, now   *)
(* with the user's answer.                                                 *)
Resume ==
  /\ node = "interrupted"
  /\ node' = "request_input_resumed"
  /\ supersteps' = 0
  /\ UNCHANGED <<lifecycle, costs, planning, observations, dialogue, turn, expired>>

RequestInputResumed ==
  /\ Runs("request_input_resumed")
  /\ node' = "plan_or_replan"
  /\ UNCHANGED <<spent, turn>>
  /\ \/ Failure
     \/ /\ EntryGuard
        /\ clarification_turns' = clarification_turns \cup {waiting_request}
        /\ waiting_request' = NoClarification
        /\ status' = "running"
        /\ replan_requested' = TRUE
        /\ next_route' = "plan_or_replan"
        /\ UNCHANGED <<error, budget, planning, observations>>

(* synthesize_answer: a model call, unless there is no time for one or the *)
(* plan mode has nothing to synthesize.                                    *)
SynthesizeAnswer ==
  \/ FailsIdle("synthesize_answer")
  \/ /\ Runs("synthesize_answer")
     /\ EntryGuard
     /\ \E calls \in {0, 1} :
          /\ Affordable(budget, {}, calls)
          /\ spent' = Consume(spent, {}, calls)
          /\ \/ /\ Failure
                /\ node' = "fail"
             \/ /\ budget' = Consume(budget, {}, calls)
                /\ next_route' = "validate_answer"
                /\ NextOrFail("validate_answer")
                /\ UNCHANGED <<status, error, planning, observations, dialogue>>
     /\ UNCHANGED turn

ValidateAnswer ==
  \/ FailsIdle("validate_answer")
  \/ /\ Runs("validate_answer")
     /\ EntryGuard
     /\ next_route' = "persist_turn"
     /\ NextOrFail("persist_turn")
     /\ UNCHANGED <<status, error, costs, planning, observations, dialogue, turn>>

(* persist_turn.  The conversation takes one turn per run: recording the   *)
(* same turn again is accepted, another one is refused.                    *)
Records(recorded) == turn \in {"none", recorded} /\ turn' = recorded

PersistTurnLosing ==
  \/ FailsIdle("persist_turn")
  \/ /\ Runs("persist_turn")
     /\ EntryGuard
     /\ turn' \in {"none", "answer"}
     /\ next_route' = "finalize_run"
     /\ NextOrFail("finalize_run")
     /\ UNCHANGED <<status, error, costs, planning, observations, dialogue>>

PersistTurn ==
  \/ FailsIdle("persist_turn")
  \/ /\ Runs("persist_turn")
     /\ EntryGuard
     /\ Records("answer")
     /\ next_route' = "finalize_run"
     /\ NextOrFail("finalize_run")
     /\ UNCHANGED <<status, error, costs, planning, observations, dialogue>>

FinalizeRun ==
  \/ FailsIdle("finalize_run")
  \/ /\ Runs("finalize_run")
     /\ EntryGuard
     /\ status' = "completed"
     /\ next_route' = "none"
     /\ node' = "end"
     /\ UNCHANGED <<error, costs, planning, observations, dialogue, turn>>

(* fail has no entry guard.  What it records may be refused or lost; only  *)
(* building the response may still raise, which leaves the run to the      *)
(* runtime.                                                                *)
Fail ==
  /\ Runs("fail")
  /\ \/ Records("error")
     \/ UNCHANGED turn
  /\ \/ /\ error' = TRUE
        /\ status' = "failed"
        /\ next_route' = "none"
        /\ node' = "end"
     \/ /\ node' = "raised"
        /\ UNCHANGED lifecycle
  /\ UNCHANGED <<costs, planning, observations, dialogue>>

(* Time passes, also while the run waits for the user. *)
DeadlinePasses ==
  /\ ~expired
  /\ expired' = TRUE
  /\ UNCHANGED <<node, supersteps, lifecycle, costs, planning, observations,
                 dialogue, turn>>

-----------------------------------------------------------------------------
Init ==
  /\ node = "initialize_run"
  /\ status = "initializing"
  /\ error = FALSE
  /\ next_route = "none"
  /\ budget = [counter \in Counters |-> 0]
  /\ spent = [counter \in Counters |-> 0]
  /\ supersteps = 0
  /\ plan = FALSE
  /\ observations = FALSE
  /\ decision = "none"
  /\ pending_action = "none"
  /\ waiting_request = NoClarification
  /\ clarification_turns = {}
  /\ replan_requested = FALSE
  /\ turn = "none"
  /\ expired = FALSE

(* The supersteps of an invocation: LangGraph runs them one after another. *)
Superstep ==
  \/ InitializeRun \/ LoadContext \/ PlanOrReplan \/ GuardDecision
  \/ ExecuteTool \/ ObserveResult \/ EvaluateProgress
  \/ RequestInput \/ RequestInputResumed
  \/ SynthesizeAnswer \/ ValidateAnswer \/ PersistTurn \/ FinalizeRun \/ Fail

Next == Superstep \/ Resume \/ DeadlinePasses

Spec == Init /\ [][Next]_vars

(* A started node returns or raises: a model call is awaited no longer     *)
(* than the deadline allows and a tool no longer than the invoker's        *)
(* timeout; the rest is local work and SQLite, which has a busy timeout.   *)
(* Nothing is assumed of the user, who may never answer.                   *)
FairSpec == Spec /\ WF_vars(Superstep)

-----------------------------------------------------------------------------
(* The variables hold what the fields of the state can hold. *)
TypeOK ==
  /\ node \in Nodes \cup Stops
  /\ status \in {"initializing", "running", "waiting_input", "completed", "failed"}
  /\ error \in BOOLEAN
  /\ next_route \in Routes
  /\ budget \in [Counters -> Nat]
  /\ spent \in [Counters -> Nat]
  /\ supersteps \in Nat
  /\ plan \in BOOLEAN /\ observations \in BOOLEAN
  /\ decision \in Decisions \cup {"none"}
  /\ pending_action \in Tools \cup {"none"}
  /\ waiting_request \in Clarifications \cup {NoClarification}
  /\ clarification_turns \subseteq Clarifications
  /\ replan_requested \in BOOLEAN
  /\ turn \in {"none", "answer", "error"}
  /\ expired \in BOOLEAN

(* No limit of AgentRunBudget is ever exceeded by what really happens,     *)
(* although the budget in the state forgets what a failing node spent.     *)
SpentWithinLimits == \A counter \in Counters : spent[counter] <= Limits[counter]

(* The hard limit of LangGraph is never what ends a run: the budget ends   *)
(* it first, whatever the limits are, over any number of clarifications.   *)
RecursionLimitUnreached == supersteps <= RecursionLimit

(* A run with an error touches no tool again and ends failed: in           *)
(* particular a failed replanning does not run the previous decision.      *)
ErrorLeadsOnlyToFailure ==
  error => /\ node \in {"plan_or_replan", "guard_decision", "fail", "end", "raised"}
           /\ status # "completed"

(* A completed run is in the conversation, as an answer and not an error:  *)
(* the terminal node runs after the one that records the turn, and nothing *)
(* between them can send the run on with the turn lost.                    *)
CompletedIsRecorded == status = "completed" => turn = "answer" /\ ~error

(* An interrupted run can be resumed: the runtime refuses a checkpoint     *)
(* that is not waiting_input, and the user needs to be shown a request.    *)
InterruptedIsResumable ==
  node = "interrupted" => /\ status = "waiting_input"
                          /\ waiting_request # NoClarification
                          /\ ~error

(* The planner never asks what the user has already answered. *)
PlannerAsksOnce ==
  node = "guard_decision" /\ ~error /\ decision = "clarify"
    => waiting_request \notin clarification_turns

(* The nodes change the status only as state.py allows. *)
Lifecycle == INSTANCE AgentLifecycle
FollowsLifecycle == Lifecycle!Spec

(* Every invocation of the graph stops: at an end, at a question to the    *)
(* user, or with an exception the runtime turns into a failure.            *)
InvocationStops == (node \in Nodes) ~> (node \in Stops)
=============================================================================
