----------------------- MODULE AnalysisGraph_proofs -----------------------
(***************************************************************************)
(* Theorems about AnalysisGraph, for every budget and every set of         *)
(* clarifications.                                                         *)
(*                                                                         *)
(* The inductive invariant says what holds at each node: which status the  *)
(* run has there, whether the error is set, that the budget in the state   *)
(* is the one really spent unless the last node failed, and how many       *)
(* supersteps the invocation can have made with the steps it has paid for. *)
(***************************************************************************)
EXTENDS AnalysisGraph, TLAPS

(* The nodes where what the last node spent may have been forgotten. *)
AfterFailure == error /\ node \in {"guard_decision", "fail", "end", "raised"}

BudgetIsSpent == /\ ~AfterFailure => spent = budget
                 /\ \A counter \in Counters : budget[counter] <= spent[counter]

(* Five supersteps per agent step, and what the node itself adds. *)
Ahead == CASE node = "initialize_run"        -> 0
           [] node = "load_context"          -> 1
           [] node = "plan_or_replan"        -> IF error THEN 3 ELSE 2
           [] node = "guard_decision"        -> IF error THEN 4 ELSE -2
           [] node = "execute_tool"          -> -1
           [] node = "observe_result"        -> 0
           [] node = "evaluate_progress"     -> 1
           [] node = "request_input"         -> 2
           [] node = "request_input_resumed" -> 0
           [] node = "synthesize_answer"     -> 2
           [] node = "validate_answer"       -> 3
           [] node = "persist_turn"          -> 4
           [] node = "finalize_run"          -> 5
           [] node = "fail"                  -> 6
           [] OTHER                          -> 7
SuperstepsPaid == supersteps <= 5 * budget["agent_steps"] + Ahead

(* The status and the error at each node. *)
Running == {"load_context", "execute_tool", "observe_result", "evaluate_progress",
            "synthesize_answer", "validate_answer", "persist_turn", "finalize_run"}
Asking == {"request_input", "request_input_resumed", "interrupted"}
StatusAtNode ==
  /\ node = "initialize_run" => status = "initializing"
  /\ node \in Running => status = "running"
  /\ node \in {"plan_or_replan", "guard_decision"} =>
       status \in {"running", "waiting_input"}
  /\ node = "guard_decision" /\ ~error =>
       IF decision = "clarify"
       THEN status = "waiting_input" /\ waiting_request # NoClarification
       ELSE status = "running"
  /\ node \in Asking =>
       status = "waiting_input" /\ waiting_request # NoClarification
  /\ node \in {"fail", "raised"} =>
       status \in {"initializing", "running", "waiting_input"}
  /\ node = "end" => status \in {"completed", "failed"}

ErrorAtNode ==
  /\ error => node \in {"plan_or_replan", "guard_decision", "fail", "end", "raised"}
  /\ node = "end" /\ status = "completed" => ~error
  /\ node \in {"fail", "raised"} => error
TurnAtNode ==
  /\ node = "finalize_run" => turn = "answer"
  /\ node = "end" /\ status = "completed" => turn = "answer"

GraphInv == /\ TypeOK
            /\ BudgetIsSpent
            /\ SpentWithinLimits
            /\ SuperstepsPaid
            /\ StatusAtNode
            /\ ErrorAtNode
            /\ TurnAtNode

-----------------------------------------------------------------------------
(* What paying does to a budget: the paid counters grow, none exceeds its  *)
(* limit, and agent_steps grows by one when it is paid.                    *)
LEMMA ConsumePays ==
  ASSUME NEW b \in [Counters -> Nat], NEW cs \in SUBSET (Counters \ {"model_calls"}),
         NEW calls \in Nat, Affordable(b, cs, calls),
         \A counter \in Counters : b[counter] <= Limits[counter]
  PROVE  /\ Consume(b, cs, calls) \in [Counters -> Nat]
         /\ \A counter \in Counters : /\ Consume(b, cs, calls)[counter] <= Limits[counter]
                                      /\ b[counter] <= Consume(b, cs, calls)[counter]
         /\ Consume(b, cs, calls)["agent_steps"] =
              b["agent_steps"] + (IF "agent_steps" \in cs THEN 1 ELSE 0)
<1> DEFINE B == Consume(b, cs, calls)
<1>1. Limits \in [Counters -> Nat]
  BY LimitsAssumption
<1>2. \A counter \in Counters :
        B[counter] = b[counter] + (IF counter \in cs THEN 1 ELSE 0)
                                + (IF counter = "model_calls" THEN calls ELSE 0)
  BY DEF Consume
<1>3. B \in [Counters -> Nat]
  BY DEF Consume
<1>4. "agent_steps" \in Counters /\ "model_calls" \in Counters
  BY DEF Counters
<1>5. \A counter \in Counters : B[counter] <= Limits[counter] /\ b[counter] <= B[counter]
  <2> SUFFICES ASSUME NEW counter \in Counters
               PROVE  B[counter] <= Limits[counter] /\ b[counter] <= B[counter]
    OBVIOUS
  <2>1. b[counter] \in Nat /\ Limits[counter] \in Nat
    BY <1>1
  <2>2. CASE counter = "model_calls"
    BY <1>2, <2>1, <2>2 DEF Affordable, Remains
  <2>3. CASE counter # "model_calls" /\ counter \in cs
    BY <1>2, <2>1, <2>3 DEF Affordable, Remains
  <2>4. CASE counter # "model_calls" /\ counter \notin cs
    BY <1>2, <2>1, <2>4
  <2> QED
    BY <2>2, <2>3, <2>4
<1>6. B["agent_steps"] = b["agent_steps"] + (IF "agent_steps" \in cs THEN 1 ELSE 0)
  <2>1. b["agent_steps"] \in Nat
    BY <1>4
  <2> QED
    BY <1>2, <1>4, <2>1
<1> QED
  BY <1>3, <1>5, <1>6

(* The counters a tool is charged. *)
LEMMA ToolCounters ==
  ASSUME NEW tool \in Tools
  PROVE  /\ ToolBudgetCounters(tool) \in SUBSET (Counters \ {"model_calls"})
         /\ "agent_steps" \notin ToolBudgetCounters(tool)
  BY DEF Tools, ToolBudgetCounters, Counters

(* The agent steps remembered and spent are numbers. *)
LEMMA StepsAreNumbers ==
  GraphInv => budget["agent_steps"] \in Nat /\ supersteps \in Nat
  BY DEF GraphInv, TypeOK, Counters

-----------------------------------------------------------------------------
(* A node that fails before it calls anything. *)
LEMMA IdleFailureStep ==
  ASSUME GraphInv, NEW n \in Running \cup {"initialize_run", "guard_decision"},
         FailsIdle(n)
  PROVE  GraphInv'
<1> USE StepsAreNumbers DEF FailsIdle, Runs, Failure, planning, dialogue, GraphInv, Running
<1>1. TypeOK'
  BY DEF TypeOK, Nodes, Stops, Routes
<1>2. BudgetIsSpent' /\ SpentWithinLimits'
  BY DEF BudgetIsSpent, AfterFailure, SpentWithinLimits
<1>3. SuperstepsPaid'
  BY DEF SuperstepsPaid, Ahead
<1>4. StatusAtNode' /\ ErrorAtNode' /\ TurnAtNode'
  BY DEF StatusAtNode, ErrorAtNode, TurnAtNode, Asking
<1> QED
  BY <1>1, <1>2, <1>3, <1>4

(* The nodes that spend nothing. *)
LEMMA InitializeRunStep == ASSUME GraphInv, InitializeRun PROVE GraphInv'
<1>1. CASE FailsIdle("initialize_run")
  BY <1>1, IdleFailureStep DEF Running
<1>2. CASE ~FailsIdle("initialize_run")
  <2> USE <1>2, StepsAreNumbers
      DEF InitializeRun, Runs, EntryGuard, NextOrFail, costs, planning, dialogue, GraphInv
  <2>1. TypeOK'
    BY DEF TypeOK, Nodes, Stops, Routes
  <2>2. BudgetIsSpent' /\ SpentWithinLimits'
    BY DEF BudgetIsSpent, AfterFailure, SpentWithinLimits, ErrorAtNode
  <2>3. SuperstepsPaid'
    BY DEF SuperstepsPaid, Ahead, ErrorAtNode
  <2>4. StatusAtNode' /\ ErrorAtNode' /\ TurnAtNode'
    BY DEF StatusAtNode, ErrorAtNode, TurnAtNode, Running, Asking
  <2> QED
    BY <2>1, <2>2, <2>3, <2>4
<1> QED
  BY <1>1, <1>2

(* load_context reads, and may fail. *)
LEMMA LoadContextStep == ASSUME GraphInv, LoadContext PROVE GraphInv'
<1>1. CASE FailsIdle("load_context")
  BY <1>1, IdleFailureStep DEF Running
<1>2. CASE ~FailsIdle("load_context")
  <2> USE <1>2, StepsAreNumbers
      DEF LoadContext, Runs, EntryGuard, NextOrFail, costs, planning, dialogue, GraphInv
  <2>1. TypeOK'
    BY DEF TypeOK, Nodes, Stops, Routes
  <2>2. BudgetIsSpent' /\ SpentWithinLimits'
    BY DEF BudgetIsSpent, AfterFailure, SpentWithinLimits, ErrorAtNode
  <2>3. SuperstepsPaid'
    BY DEF SuperstepsPaid, Ahead, ErrorAtNode
  <2>4. StatusAtNode' /\ ErrorAtNode' /\ TurnAtNode'
    BY DEF StatusAtNode, ErrorAtNode, TurnAtNode, Running, Asking
  <2> QED
    BY <2>1, <2>2, <2>3, <2>4
<1> QED
  BY <1>1, <1>2

(* guard_decision routes by the decision, and does not see an error. *)
LEMMA GuardDecisionStep == ASSUME GraphInv, GuardDecision PROVE GraphInv'
<1>1. CASE FailsIdle("guard_decision")
  BY <1>1, IdleFailureStep DEF Running
<1>2. CASE ~FailsIdle("guard_decision")
  <2> USE <1>2, StepsAreNumbers
      DEF GuardDecision, Runs, EntryGuard, NextOrFail, costs, planning, dialogue, GraphInv, GuardsDecision, RouteOf
  <2>1. TypeOK'
    BY DEF TypeOK, Nodes, Stops, Routes
  <2>2. BudgetIsSpent' /\ SpentWithinLimits'
    BY DEF BudgetIsSpent, AfterFailure, SpentWithinLimits, ErrorAtNode
  <2>3. SuperstepsPaid'
    BY DEF SuperstepsPaid, Ahead, ErrorAtNode
  <2>4. StatusAtNode' /\ ErrorAtNode' /\ TurnAtNode'
    BY DEF StatusAtNode, ErrorAtNode, TurnAtNode, Running, Asking
  <2> QED
    BY <2>1, <2>2, <2>3, <2>4
<1> QED
  BY <1>1, <1>2

(* observe_result stores what the tool returned. *)
LEMMA ObserveResultStep == ASSUME GraphInv, ObserveResult PROVE GraphInv'
<1>1. CASE FailsIdle("observe_result")
  BY <1>1, IdleFailureStep DEF Running
<1>2. CASE ~FailsIdle("observe_result")
  <2> USE <1>2, StepsAreNumbers
      DEF ObserveResult, Runs, EntryGuard, NextOrFail, costs, planning, dialogue, GraphInv
  <2>1. TypeOK'
    <3>1. node' \in {"evaluate_progress", "fail"} /\ observations' = TRUE
      OBVIOUS
    <3> QED
      BY <3>1 DEF TypeOK, Nodes, Stops, Routes
  <2>2. BudgetIsSpent' /\ SpentWithinLimits'
    BY DEF BudgetIsSpent, AfterFailure, SpentWithinLimits, ErrorAtNode
  <2>3. SuperstepsPaid'
    BY DEF SuperstepsPaid, Ahead, ErrorAtNode
  <2>4. StatusAtNode' /\ ErrorAtNode' /\ TurnAtNode'
    BY DEF StatusAtNode, ErrorAtNode, TurnAtNode, Running, Asking
  <2> QED
    BY <2>1, <2>2, <2>3, <2>4
<1> QED
  BY <1>1, <1>2

(* validate_answer checks the draft against the evidence. *)
LEMMA ValidateAnswerStep == ASSUME GraphInv, ValidateAnswer PROVE GraphInv'
<1>1. CASE FailsIdle("validate_answer")
  BY <1>1, IdleFailureStep DEF Running
<1>2. CASE ~FailsIdle("validate_answer")
  <2> USE <1>2, StepsAreNumbers
      DEF ValidateAnswer, Runs, EntryGuard, NextOrFail, costs, planning, dialogue, GraphInv
  <2>1. TypeOK'
    BY DEF TypeOK, Nodes, Stops, Routes
  <2>2. BudgetIsSpent' /\ SpentWithinLimits'
    BY DEF BudgetIsSpent, AfterFailure, SpentWithinLimits, ErrorAtNode
  <2>3. SuperstepsPaid'
    BY DEF SuperstepsPaid, Ahead, ErrorAtNode
  <2>4. StatusAtNode' /\ ErrorAtNode' /\ TurnAtNode'
    BY DEF StatusAtNode, ErrorAtNode, TurnAtNode, Running, Asking
  <2> QED
    BY <2>1, <2>2, <2>3, <2>4
<1> QED
  BY <1>1, <1>2

(* persist_turn records the turn. *)
LEMMA PersistTurnStep == ASSUME GraphInv, PersistTurn PROVE GraphInv'
<1>1. CASE FailsIdle("persist_turn")
  BY <1>1, IdleFailureStep DEF Running
<1>2. CASE ~FailsIdle("persist_turn")
  <2> USE <1>2, StepsAreNumbers
      DEF PersistTurn, Runs, EntryGuard, NextOrFail, costs, planning, dialogue, GraphInv, Records
  <2>1. TypeOK'
    BY DEF TypeOK, Nodes, Stops, Routes
  <2>2. BudgetIsSpent' /\ SpentWithinLimits'
    BY DEF BudgetIsSpent, AfterFailure, SpentWithinLimits, ErrorAtNode
  <2>3. SuperstepsPaid'
    BY DEF SuperstepsPaid, Ahead, ErrorAtNode
  <2>4. StatusAtNode' /\ ErrorAtNode' /\ TurnAtNode'
    BY DEF StatusAtNode, ErrorAtNode, TurnAtNode, Running, Asking
  <2> QED
    BY <2>1, <2>2, <2>3, <2>4
<1> QED
  BY <1>1, <1>2

(* finalize_run completes a recorded run. *)
LEMMA FinalizeRunStep == ASSUME GraphInv, FinalizeRun PROVE GraphInv'
<1>1. CASE FailsIdle("finalize_run")
  BY <1>1, IdleFailureStep DEF Running
<1>2. CASE ~FailsIdle("finalize_run")
  <2> USE <1>2, StepsAreNumbers
      DEF FinalizeRun, Runs, EntryGuard, NextOrFail, costs, planning, dialogue, GraphInv
  <2>1. TypeOK'
    BY DEF TypeOK, Nodes, Stops, Routes
  <2>2. BudgetIsSpent' /\ SpentWithinLimits'
    BY DEF BudgetIsSpent, AfterFailure, SpentWithinLimits, ErrorAtNode
  <2>3. SuperstepsPaid'
    BY DEF SuperstepsPaid, Ahead, ErrorAtNode
  <2>4. StatusAtNode' /\ ErrorAtNode' /\ TurnAtNode'
    BY DEF StatusAtNode, ErrorAtNode, TurnAtNode, Running, Asking
  <2> QED
    BY <2>1, <2>2, <2>3, <2>4
<1> QED
  BY <1>1, <1>2

(* The nodes that spend.  Where the node did not fail before, the budget   *)
(* it pays from is the one spent.                                          *)
LEMMA PlanSucceedsStep == ASSUME GraphInv, PlanSucceeds PROVE GraphInv'
<1> USE DEF GraphInv
<1>1. node = "plan_or_replan" /\ node' = "guard_decision" /\ supersteps' = supersteps + 1
  BY DEF PlanSucceeds, Runs
<1>2. spent = budget
  BY <1>1 DEF BudgetIsSpent, AfterFailure
<1>3. PICK calls \in PlanningCalls :
        /\ Affordable(budget, PlanningCounters, calls)
        /\ budget' = Consume(budget, PlanningCounters, calls)
        /\ spent' = Consume(spent, PlanningCounters, calls)
  BY DEF PlanSucceeds
<1>4. calls \in Nat
  BY DEF PlanningCalls
<1>5. PlanningCounters \in SUBSET (Counters \ {"model_calls"}) /\ "agent_steps" \in PlanningCounters
  BY DEF PlanningCounters, Counters
<1>6. budget \in [Counters -> Nat] /\ \A counter \in Counters : budget[counter] <= Limits[counter]
  BY <1>2 DEF TypeOK, SpentWithinLimits
<1>7. /\ budget' \in [Counters -> Nat] /\ spent' = budget'
      /\ \A counter \in Counters : budget'[counter] <= Limits[counter]
      /\ budget'["agent_steps"] = budget["agent_steps"] + 1
  BY <1>2, <1>3, <1>4, <1>5, <1>6, ConsumePays
<1>8. /\ error' = error /\ turn' = turn /\ next_route' = "none"
      /\ \/ decision' # "clarify" /\ status' = "running" /\ waiting_request' = NoClarification
         \/ /\ decision' = "clarify" /\ status' = "waiting_input"
            /\ waiting_request' \in Clarifications
  BY DEF PlanSucceeds, IsNew
<1>9. TypeOK'
  <2>1. /\ plan' = TRUE /\ replan_requested' = FALSE /\ observations' = observations
        /\ clarification_turns' = clarification_turns /\ expired' = expired
        /\ decision' \in Decisions /\ pending_action' \in Tools \cup {"none"}
    BY DEF PlanSucceeds, Runs, Decisions
  <2>2. supersteps' \in Nat
    BY <1>1, StepsAreNumbers
  <2>3. error' \in BOOLEAN /\ turn' \in {"none", "answer", "error"} /\ observations \in BOOLEAN
        /\ clarification_turns \subseteq Clarifications /\ expired \in BOOLEAN
    BY <1>8 DEF TypeOK
  <2>4. node' \in Nodes /\ next_route' \in Routes
        /\ status' \in {"running", "waiting_input"}
        /\ waiting_request' \in Clarifications \cup {NoClarification}
    BY <1>1, <1>8 DEF Nodes, Routes
  <2> QED
    BY <1>7, <2>1, <2>2, <2>3, <2>4 DEF TypeOK
<1>10. BudgetIsSpent' /\ SpentWithinLimits'
  BY <1>7 DEF BudgetIsSpent, SpentWithinLimits
<1>11. SuperstepsPaid'
  BY <1>1, <1>7, <1>8, StepsAreNumbers DEF SuperstepsPaid, Ahead
<1>12. StatusAtNode' /\ ErrorAtNode' /\ TurnAtNode'
  BY <1>1, <1>8, ClarificationAssumption
  DEF StatusAtNode, ErrorAtNode, TurnAtNode, Running, Asking
<1> QED
  BY <1>9, <1>10, <1>11, <1>12

(* A planning that fails, before or after the model was called. *)
LEMMA PlanFailsStep == ASSUME GraphInv, PlanFails PROVE GraphInv'
<1> USE DEF GraphInv
<1>1. node = "plan_or_replan" /\ node' = "guard_decision" /\ supersteps' = supersteps + 1
  BY DEF PlanFails, Runs
<1>2. spent = budget
  BY <1>1 DEF BudgetIsSpent, AfterFailure
<1>3. error' = TRUE /\ next_route' = "fail" /\ budget' = budget /\ status' = status /\ turn' = turn
  BY DEF PlanFails, Failure
<1>4. /\ spent' \in [Counters -> Nat]
      /\ \A counter \in Counters : /\ spent'[counter] <= Limits[counter]
                                    /\ budget[counter] <= spent'[counter]
  <2>1. CASE UNCHANGED spent
    BY <1>2, <2>1 DEF TypeOK, SpentWithinLimits, BudgetIsSpent
  <2>2. CASE ~UNCHANGED spent
    <3>1. PICK calls \in 0..2 : /\ Affordable(budget, PlanningCounters, calls)
                               /\ spent' = Consume(spent, PlanningCounters, calls)
      BY <2>2 DEF PlanFails
    <3>2. PlanningCounters \in SUBSET (Counters \ {"model_calls"})
      BY DEF PlanningCounters, Counters
    <3>3. budget \in [Counters -> Nat] /\ \A counter \in Counters : budget[counter] <= Limits[counter]
      BY <1>2 DEF TypeOK, SpentWithinLimits
    <3>4. calls \in Nat
      BY <3>1
    <3> QED
      BY <1>2, <3>1, <3>2, <3>3, <3>4, ConsumePays
  <2> QED
    BY <2>1, <2>2
<1>5. TypeOK'
  BY <1>1, <1>3, <1>4
  DEF TypeOK, PlanFails, Runs, Failure, planning, dialogue, Nodes, Routes
<1>6. BudgetIsSpent' /\ SpentWithinLimits'
  BY <1>1, <1>3, <1>4 DEF BudgetIsSpent, AfterFailure, SpentWithinLimits
<1>7. SuperstepsPaid'
  BY <1>1, <1>3, StepsAreNumbers DEF SuperstepsPaid, Ahead
<1>8. StatusAtNode' /\ ErrorAtNode' /\ TurnAtNode'
  BY <1>1, <1>3 DEF StatusAtNode, ErrorAtNode, TurnAtNode, Running, Asking
<1> QED
  BY <1>5, <1>6, <1>7, <1>8

(* A node whose calls may fail after they were paid for: tool, evaluation  *)
(* and synthesis have this in common.                                      *)
LEMMA CallStep ==
  ASSUME GraphInv, NEW n \in {"execute_tool", "evaluate_progress", "synthesize_answer"},
         NEW cs \in SUBSET (Counters \ {"model_calls", "agent_steps"}), NEW calls \in Nat,
         Runs(n), EntryGuard, Affordable(budget, cs, calls),
         spent' = Consume(spent, cs, calls)
  PROVE  /\ spent = budget /\ ~error /\ status = "running"
         /\ spent' \in [Counters -> Nat]
         /\ \A counter \in Counters : /\ spent'[counter] <= Limits[counter]
                                       /\ budget[counter] <= spent'[counter]
         /\ spent'["agent_steps"] = budget["agent_steps"]
         /\ node = n /\ supersteps' = supersteps + 1 /\ expired' = expired
         /\ budget["agent_steps"] \in Nat /\ supersteps \in Nat
<1> USE DEF GraphInv
<1>1. node = n /\ supersteps' = supersteps + 1 /\ expired' = expired
  BY DEF Runs
<1>2. spent = budget /\ ~error /\ status = "running"
  BY <1>1 DEF BudgetIsSpent, AfterFailure, ErrorAtNode, StatusAtNode, Running
<1>3. budget \in [Counters -> Nat] /\ \A counter \in Counters : budget[counter] <= Limits[counter]
  BY <1>2 DEF TypeOK, SpentWithinLimits
<1>4. cs \in SUBSET (Counters \ {"model_calls"}) /\ "agent_steps" \notin cs
  OBVIOUS
<1>5. /\ spent' \in [Counters -> Nat]
      /\ \A counter \in Counters : /\ spent'[counter] <= Limits[counter]
                                    /\ budget[counter] <= spent'[counter]
      /\ spent'["agent_steps"] = budget["agent_steps"] + 0
  BY <1>2, <1>3, <1>4, ConsumePays
<1> QED
  BY <1>1, <1>2, <1>5, StepsAreNumbers

(* ... and when it fails after the call. *)
LEMMA CallFailsStep ==
  ASSUME GraphInv, NEW n \in {"execute_tool", "evaluate_progress", "synthesize_answer"},
         NEW cs \in SUBSET (Counters \ {"model_calls", "agent_steps"}), NEW calls \in Nat,
         Runs(n), EntryGuard, Affordable(budget, cs, calls),
         spent' = Consume(spent, cs, calls),
         Failure, node' = "fail", UNCHANGED turn
  PROVE  GraphInv'
<1>1. TypeOK'
  BY CallStep DEF GraphInv, TypeOK, Failure, planning, dialogue, Nodes, Routes
<1>2. BudgetIsSpent' /\ SpentWithinLimits'
  BY CallStep DEF BudgetIsSpent, AfterFailure, SpentWithinLimits, Failure
<1>3. SuperstepsPaid'
  <2>1. node = n /\ supersteps' = supersteps + 1 /\ budget' = budget
    BY CallStep DEF Failure
  <2>2. Ahead \in {-1, 1, 2} /\ Ahead' = 6
    BY <2>1 DEF Ahead
  <2> QED
    BY <2>1, <2>2, StepsAreNumbers DEF GraphInv, SuperstepsPaid
<1>4. StatusAtNode' /\ ErrorAtNode' /\ TurnAtNode'
  BY CallStep DEF StatusAtNode, ErrorAtNode, TurnAtNode, Running, Asking, Failure
<1> QED
  BY <1>1, <1>2, <1>3, <1>4 DEF GraphInv

(* execute_tool pays for its tool first. *)
LEMMA ExecuteToolStep == ASSUME GraphInv, ExecuteTool PROVE GraphInv'
<1> DEFINE cs == ToolBudgetCounters(pending_action)
<1>1. CASE FailsIdle("execute_tool")
  BY <1>1, IdleFailureStep DEF Running
<1>2. CASE ~FailsIdle("execute_tool")
  <2>1. /\ Runs("execute_tool") /\ EntryGuard /\ Affordable(budget, cs, 0)
        /\ spent' = Consume(spent, cs, 0) /\ UNCHANGED turn
        /\ \/ Failure /\ node' = "fail"
           \/ /\ budget' = Consume(budget, cs, 0)
              /\ next_route' = "observe_result"
              /\ NextOrFail("observe_result")
              /\ UNCHANGED <<status, error, planning, observations, dialogue>>
    BY <1>2 DEF ExecuteTool
  <2>2. cs \in SUBSET (Counters \ {"model_calls", "agent_steps"})
    <3>1. pending_action \in Tools
      BY <1>2 DEF ExecuteTool, GraphInv, TypeOK
    <3> QED
      BY <3>1, ToolCounters
  <2> HIDE DEF cs
  <2>3. CASE Failure /\ node' = "fail"
    BY <2>1, <2>2, <2>3, CallFailsStep
  <2>4. CASE ~(Failure /\ node' = "fail")
    <3>1. /\ spent = budget /\ ~error /\ status = "running"
          /\ spent' \in [Counters -> Nat]
          /\ \A counter \in Counters : spent'[counter] <= Limits[counter]
          /\ spent'["agent_steps"] = budget["agent_steps"]
          /\ node = "execute_tool" /\ supersteps' = supersteps + 1 /\ expired' = expired
          /\ budget["agent_steps"] \in Nat /\ supersteps \in Nat
      BY <2>1, <2>2, CallStep
    <3>2. /\ node' = "observe_result" /\ budget' = spent' /\ status' = "running"
          /\ error' = FALSE /\ turn' = turn /\ next_route' = "observe_result"
      BY <2>1, <2>4, <3>1 DEF NextOrFail, GraphInv, TypeOK
    <3>3. TypeOK'
      BY <2>1, <2>4, <3>1, <3>2 DEF GraphInv, TypeOK, planning, dialogue, Nodes, Routes
    <3>4. BudgetIsSpent' /\ SpentWithinLimits'
      BY <3>1, <3>2 DEF BudgetIsSpent, SpentWithinLimits
    <3>5. SuperstepsPaid'
      BY <3>1, <3>2 DEF GraphInv, SuperstepsPaid, Ahead
    <3>6. StatusAtNode' /\ ErrorAtNode' /\ TurnAtNode'
      BY <3>2 DEF StatusAtNode, ErrorAtNode, TurnAtNode, Running, Asking
    <3> QED
      BY <3>3, <3>4, <3>5, <3>6 DEF GraphInv
  <2> QED
    BY <2>3, <2>4
<1> QED
  BY <1>1, <1>2

(* synthesize_answer pays for a model call. *)
LEMMA SynthesizeAnswerStep == ASSUME GraphInv, SynthesizeAnswer PROVE GraphInv'
<1>1. CASE FailsIdle("synthesize_answer")
  BY <1>1, IdleFailureStep DEF Running
<1>2. CASE ~FailsIdle("synthesize_answer")
  <2>1. PICK calls \in {0, 1} :
          /\ Affordable(budget, {}, calls)
          /\ spent' = Consume(spent, {}, calls)
          /\ \/ Failure /\ node' = "fail"
             \/ /\ budget' = Consume(budget, {}, calls)
                /\ next_route' = "validate_answer"
                /\ NextOrFail("validate_answer")
                /\ UNCHANGED <<status, error, planning, observations, dialogue>>
    BY <1>2 DEF SynthesizeAnswer
  <2>2. Runs("synthesize_answer") /\ EntryGuard /\ UNCHANGED turn
    BY <1>2 DEF SynthesizeAnswer
  <2>3. CASE Failure /\ node' = "fail"
    BY <2>1, <2>2, <2>3, CallFailsStep
  <2>4. CASE ~(Failure /\ node' = "fail")
    <3>1. /\ spent = budget /\ ~error /\ status = "running"
          /\ spent' \in [Counters -> Nat]
          /\ \A counter \in Counters : spent'[counter] <= Limits[counter]
          /\ spent'["agent_steps"] = budget["agent_steps"]
          /\ node = "synthesize_answer" /\ supersteps' = supersteps + 1 /\ expired' = expired
          /\ budget["agent_steps"] \in Nat /\ supersteps \in Nat
      BY <2>1, <2>2, CallStep
    <3>2. /\ node' = "validate_answer" /\ budget' = spent' /\ status' = "running"
          /\ error' = FALSE /\ turn' = turn /\ next_route' = "validate_answer"
      BY <2>1, <2>2, <2>4, <3>1 DEF NextOrFail, GraphInv, TypeOK
    <3>3. TypeOK'
      BY <2>1, <2>4, <3>1, <3>2 DEF GraphInv, TypeOK, planning, dialogue, Nodes, Routes
    <3>4. BudgetIsSpent' /\ SpentWithinLimits'
      BY <3>1, <3>2 DEF BudgetIsSpent, SpentWithinLimits
    <3>5. SuperstepsPaid'
      BY <3>1, <3>2 DEF GraphInv, SuperstepsPaid, Ahead
    <3>6. StatusAtNode' /\ ErrorAtNode' /\ TurnAtNode'
      BY <3>2 DEF StatusAtNode, ErrorAtNode, TurnAtNode, Running, Asking
    <3> QED
      BY <3>3, <3>4, <3>5, <3>6 DEF GraphInv
  <2> QED
    BY <2>1, <2>3, <2>4
<1> QED
  BY <1>1, <1>2

(* An evaluation that returns, and what it decides. *)
LEMMA EvaluationSucceedsStep ==
  ASSUME GraphInv, NEW calls \in {0, 1},
         NEW evaluation \in {"continue", "replan", "clarify", "finish", "fail"},
         Runs("evaluate_progress"), EntryGuard, EvaluationSucceeds(evaluation, calls)
  PROVE  GraphInv'
<1>1. /\ spent = budget /\ ~error /\ status = "running"
      /\ spent' \in [Counters -> Nat]
      /\ \A counter \in Counters : spent'[counter] <= Limits[counter]
      /\ spent'["agent_steps"] = budget["agent_steps"]
      /\ node = "evaluate_progress" /\ supersteps' = supersteps + 1 /\ expired' = expired
      /\ budget["agent_steps"] \in Nat /\ supersteps \in Nat
  BY CallStep DEF EvaluationSucceeds
<1>2. budget' = spent' /\ turn' = turn
  BY <1>1 DEF EvaluationSucceeds
<1>3. \/ /\ evaluation \in {"continue", "replan"} /\ node' = "plan_or_replan"
         /\ status' = "running" /\ error' = FALSE
      \/ /\ evaluation = "clarify" /\ node' = "request_input"
         /\ status' = "waiting_input" /\ error' = FALSE
         /\ waiting_request' \in Clarifications
      \/ /\ evaluation = "finish" /\ node' = "synthesize_answer"
         /\ status' = "running" /\ error' = FALSE
      \/ /\ evaluation = "fail" /\ node' = "fail"
         /\ status' = "running" /\ error' = TRUE
  BY DEF EvaluationSucceeds, StatusAfterEvaluation
<1>4. TypeOK'
  <2>1. next_route' = node' /\ replan_requested' \in BOOLEAN
        /\ waiting_request' \in Clarifications \cup {NoClarification}
    BY DEF EvaluationSucceeds
  <2>2. UNCHANGED <<planning, observations, clarification_turns, turn>>
    BY DEF EvaluationSucceeds
  <2>3. /\ node' \in Nodes /\ next_route' \in Routes
        /\ status' \in {"running", "waiting_input"} /\ error' \in BOOLEAN
    BY <1>3, <2>1 DEF Nodes, Routes
  <2>4. supersteps' \in Nat /\ budget' \in [Counters -> Nat]
    BY <1>1, <1>2
  <2> QED
    BY <1>1, <2>1, <2>2, <2>3, <2>4 DEF GraphInv, TypeOK, planning
<1>5. BudgetIsSpent' /\ SpentWithinLimits'
  BY <1>1, <1>2 DEF BudgetIsSpent, SpentWithinLimits
<1>6. SuperstepsPaid'
  <2>1. Ahead = 1
    BY <1>1 DEF Ahead
  <2>2. Ahead' \in {2, 6}
    BY <1>3 DEF Ahead
  <2> QED
    BY <1>1, <1>2, <2>1, <2>2 DEF GraphInv, SuperstepsPaid
<1>7. StatusAtNode' /\ ErrorAtNode' /\ TurnAtNode'
  BY <1>3, ClarificationAssumption
  DEF StatusAtNode, ErrorAtNode, TurnAtNode, Running, Asking
<1> QED
  BY <1>4, <1>5, <1>6, <1>7 DEF GraphInv

(* evaluate_progress, whether it returns or fails. *)
LEMMA EvaluateProgressStep == ASSUME GraphInv, EvaluateProgress PROVE GraphInv'
<1>1. CASE FailsIdle("evaluate_progress")
  BY <1>1, IdleFailureStep DEF Running
<1>2. CASE ~FailsIdle("evaluate_progress")
  <2>1. Runs("evaluate_progress") /\ EntryGuard
    BY <1>2 DEF EvaluateProgress
  <2>2. \/ \E evaluation \in {"continue", "replan", "clarify", "finish", "fail"},
            calls \in {0, 1} : EvaluationSucceeds(evaluation, calls)
        \/ /\ Affordable(budget, {}, 1)
           /\ Failure
           /\ node' = "fail"
           /\ spent' = Consume(spent, {}, 1)
           /\ UNCHANGED turn
    BY <1>2 DEF EvaluateProgress
  <2> QED
    BY <2>1, <2>2, CallFailsStep, EvaluationSucceedsStep
<1> QED
  BY <1>1, <1>2

(* The nodes of the dialogue, the terminal node and the clock. *)
LEMMA RequestInputStep ==
  ASSUME GraphInv, RequestInput \/ RequestInputResumed \/ Resume PROVE GraphInv'
<1> USE DEF GraphInv
<1>1. /\ node \in Asking /\ supersteps' \in {0, supersteps + 1}
      /\ expired' = expired /\ spent' = spent /\ budget' = budget /\ turn' = turn
      /\ UNCHANGED <<planning, observations>>
  BY DEF RequestInput, RequestInputResumed, Resume, Runs, Failure, Asking, costs
<1>2. /\ ~error /\ status = "waiting_input" /\ waiting_request # NoClarification
      /\ spent = budget
  BY <1>1 DEF ErrorAtNode, StatusAtNode, BudgetIsSpent, AfterFailure, Asking
<1>3. \/ /\ node' = "plan_or_replan" /\ error' = TRUE /\ next_route' = "fail"
         /\ status' = status /\ UNCHANGED dialogue
         /\ supersteps' = supersteps + 1 /\ node # "interrupted"
      \/ /\ node' = "plan_or_replan" /\ error' = error /\ next_route' = "plan_or_replan"
         /\ status' = "running" /\ waiting_request' = NoClarification
         /\ clarification_turns' = clarification_turns \cup {waiting_request}
         /\ replan_requested' = TRUE /\ supersteps' = supersteps + 1
         /\ node = "request_input_resumed"
      \/ /\ node = "request_input" /\ node' = "interrupted" /\ supersteps' = supersteps + 1
         /\ error' = error /\ status' = status /\ next_route' = next_route /\ UNCHANGED dialogue
      \/ /\ node = "interrupted" /\ node' = "request_input_resumed" /\ supersteps' = 0
         /\ error' = error /\ status' = status /\ next_route' = next_route /\ UNCHANGED dialogue
  BY DEF RequestInput, RequestInputResumed, Resume, Runs, Failure, lifecycle
<1>4. TypeOK'
  <2>1. /\ node' \in Nodes \cup Stops /\ error' \in BOOLEAN /\ next_route' \in Routes
        /\ status' \in {"running", "waiting_input"}
    BY <1>2, <1>3 DEF TypeOK, Nodes, Stops, Routes
  <2>2. /\ waiting_request' \in Clarifications \cup {NoClarification}
        /\ clarification_turns' \subseteq Clarifications
        /\ replan_requested' \in BOOLEAN
    BY <1>2, <1>3 DEF TypeOK, dialogue
  <2>3. supersteps' \in Nat
    BY <1>1, StepsAreNumbers
  <2> QED
    BY <1>1, <2>1, <2>2, <2>3 DEF TypeOK, planning
<1>5. BudgetIsSpent' /\ SpentWithinLimits'
  BY <1>1, <1>2 DEF BudgetIsSpent, SpentWithinLimits
<1>6. SuperstepsPaid'
  <2>1. CASE supersteps' = 0
    <3>1. Ahead' \in {0, 2, 3, 7}
      BY <1>3 DEF Ahead
    <3> QED
      BY <1>1, <2>1, <3>1, StepsAreNumbers DEF SuperstepsPaid
  <2>2. CASE supersteps' # 0
    <3>1. supersteps' = supersteps + 1
      BY <1>3, <2>2
    <3>2. \/ Ahead \in {0, 2} /\ Ahead' \in {3, 7}
          \/ Ahead = 0 /\ Ahead' = 2
      <4>1. node \in {"request_input", "request_input_resumed"}
        BY <1>1, <1>3, <2>2 DEF Asking
      <4>2. Ahead = IF node = "request_input" THEN 2 ELSE 0
        BY <4>1 DEF Ahead
      <4>3. \/ node' = "plan_or_replan" /\ error' = TRUE
            \/ node' = "plan_or_replan" /\ error' = FALSE /\ node = "request_input_resumed"
            \/ node' = "interrupted"
        BY <1>2, <1>3, <2>2 DEF TypeOK
      <4> QED
        BY <4>2, <4>3 DEF Ahead
    <3> QED
      BY <1>1, <3>1, <3>2, StepsAreNumbers DEF SuperstepsPaid
  <2> QED
    BY <2>1, <2>2
<1>7. StatusAtNode' /\ ErrorAtNode' /\ TurnAtNode'
  BY <1>2, <1>3 DEF StatusAtNode, ErrorAtNode, TurnAtNode, Running, Asking, dialogue
<1> QED
  BY <1>4, <1>5, <1>6, <1>7

(* The terminal node for errors. *)
LEMMA FailStep == ASSUME GraphInv, Fail PROVE GraphInv'
<1> USE DEF GraphInv
<1>1. /\ node = "fail" /\ supersteps' = supersteps + 1 /\ expired' = expired
      /\ spent' = spent /\ budget' = budget
      /\ UNCHANGED <<planning, observations, dialogue>>
  BY DEF Fail, Runs, costs
<1>2. error = TRUE /\ status \in {"initializing", "running", "waiting_input"}
  BY <1>1 DEF ErrorAtNode, StatusAtNode, TypeOK
<1>3. turn' \in {"error", turn}
  BY DEF Fail, Records
<1>4. \/ error' = TRUE /\ status' = "failed" /\ next_route' = "none" /\ node' = "end"
      \/ error' = error /\ status' = status /\ next_route' = next_route /\ node' = "raised"
  BY DEF Fail, lifecycle
<1>5. error' = TRUE /\ node' \in {"end", "raised"}
  BY <1>2, <1>4
<1>6. TypeOK'
  <2>1. supersteps' \in Nat /\ node' \in Stops
    BY <1>1, <1>5, StepsAreNumbers DEF Stops
  <2>2. /\ next_route' \in Routes /\ turn' \in {"none", "answer", "error"}
        /\ status' \in {"initializing", "running", "waiting_input", "completed", "failed"}
    BY <1>2, <1>3, <1>4 DEF TypeOK, Routes
  <2> QED
    BY <1>1, <1>5, <2>1, <2>2 DEF TypeOK, planning, dialogue
<1>7. BudgetIsSpent' /\ SpentWithinLimits'
  BY <1>1, <1>5 DEF BudgetIsSpent, AfterFailure, SpentWithinLimits
<1>8. SuperstepsPaid'
  <2>1. Ahead = 6 /\ Ahead' = 7
    BY <1>1, <1>5 DEF Ahead
  <2> QED
    BY <1>1, <2>1, StepsAreNumbers DEF SuperstepsPaid
<1>9. StatusAtNode' /\ ErrorAtNode' /\ TurnAtNode'
  BY <1>2, <1>4, <1>5 DEF StatusAtNode, ErrorAtNode, TurnAtNode, Running, Asking
<1> QED
  BY <1>6, <1>7, <1>8, <1>9

(* The deadline passing, and stuttering. *)
LEMMA UnchangedStep ==
  ASSUME GraphInv, DeadlinePasses \/ UNCHANGED vars PROVE GraphInv'
<1> USE DEF DeadlinePasses, vars, lifecycle, costs, planning, dialogue, GraphInv
<1>1. TypeOK'
  BY DEF TypeOK
<1>2. BudgetIsSpent' /\ SpentWithinLimits' /\ SuperstepsPaid'
  BY DEF BudgetIsSpent, AfterFailure, SpentWithinLimits, SuperstepsPaid, Ahead
<1>3. StatusAtNode' /\ ErrorAtNode' /\ TurnAtNode'
  BY DEF StatusAtNode, ErrorAtNode, TurnAtNode
<1> QED
  BY <1>1, <1>2, <1>3

-----------------------------------------------------------------------------
(* A run that starts. *)
LEMMA GraphInvInit == Init => GraphInv
<1> SUFFICES ASSUME Init PROVE GraphInv
  OBVIOUS
<1> USE DEF Init
<1>1. TypeOK
  BY DEF TypeOK, Nodes, Routes
<1>2. BudgetIsSpent /\ SpentWithinLimits
  BY LimitsAssumption DEF BudgetIsSpent, SpentWithinLimits
<1>3. SuperstepsPaid
  BY DEF SuperstepsPaid, Ahead, Counters
<1>4. StatusAtNode /\ ErrorAtNode /\ TurnAtNode
  BY DEF StatusAtNode, ErrorAtNode, TurnAtNode, Running, Asking
<1> QED
  BY <1>1, <1>2, <1>3, <1>4 DEF GraphInv

(* The invariant is inductive. *)
LEMMA GraphInvStep == GraphInv /\ [Next]_vars => GraphInv'
  BY InitializeRunStep, LoadContextStep, PlanSucceedsStep, PlanFailsStep,
     GuardDecisionStep, ExecuteToolStep, ObserveResultStep, EvaluateProgressStep,
     RequestInputStep, SynthesizeAnswerStep, ValidateAnswerStep, PersistTurnStep,
     FinalizeRunStep, FailStep, UnchangedStep
  DEF Next, Superstep, PlanOrReplan

(* The inductive invariant holds in every reachable state of a run. *)
THEOREM GraphInvariant == Spec => []GraphInv
  BY GraphInvInit, GraphInvStep, PTL DEF Spec

(* The state of a run always has the types of its fields. *)
THEOREM GraphTypeCorrect == Spec => []TypeOK
<1>1. GraphInv => TypeOK
  BY DEF GraphInv
<1> QED
  BY <1>1, GraphInvariant, PTL

(* For every budget: what a run really spends stays within its limits. *)
THEOREM SpendingIsBounded == Spec => []SpentWithinLimits
<1>1. GraphInv => SpentWithinLimits
  BY DEF GraphInv
<1> QED
  BY <1>1, GraphInvariant, PTL

(* For every budget: no invocation reaches the recursion limit that        *)
(* graph.py derives from it.                                               *)
THEOREM RecursionLimitSuffices == Spec => []RecursionLimitUnreached
<1>1. GraphInv => RecursionLimitUnreached
  <2> SUFFICES ASSUME GraphInv PROVE RecursionLimitUnreached
    OBVIOUS
  <2>1. "agent_steps" \in Counters /\ "replans" \in Counters
    BY DEF Counters
  <2>2. /\ Limits["agent_steps"] \in Nat /\ Limits["replans"] \in Nat
        /\ budget["agent_steps"] \in Nat /\ spent["agent_steps"] \in Nat
        /\ supersteps \in Nat
    BY <2>1, LimitsAssumption DEF GraphInv, TypeOK
  <2>3. budget["agent_steps"] <= Limits["agent_steps"]
    BY <2>1, <2>2 DEF GraphInv, BudgetIsSpent, SpentWithinLimits
  <2>4. Ahead \in Int /\ Ahead <= 7
    BY DEF Ahead
  <2> QED
    BY <2>2, <2>3, <2>4 DEF GraphInv, SuperstepsPaid, RecursionLimitUnreached, RecursionLimit
<1> QED
  BY <1>1, GraphInvariant, PTL

(* A run with an error can only fail. *)
THEOREM ErrorsLeadToFailure == Spec => []ErrorLeadsOnlyToFailure
<1>1. GraphInv => ErrorLeadsOnlyToFailure
  BY DEF GraphInv, ErrorLeadsOnlyToFailure, ErrorAtNode, StatusAtNode
<1> QED
  BY <1>1, GraphInvariant, PTL

(* A run that interrupts itself can be resumed. *)
THEOREM InterruptsAreResumable == Spec => []InterruptedIsResumable
<1>1. GraphInv => InterruptedIsResumable
  BY DEF GraphInv, InterruptedIsResumable, ErrorAtNode, StatusAtNode, Asking
<1> QED
  BY <1>1, GraphInvariant, PTL

(* A completed run is recorded as an answer. *)
THEOREM CompletionIsRecorded == Spec => []CompletedIsRecorded
<1>1. GraphInv => CompletedIsRecorded
  <2> SUFFICES ASSUME GraphInv, status = "completed" PROVE turn = "answer" /\ ~error
    BY DEF CompletedIsRecorded
  <2>1. node = "end"
    BY DEF GraphInv, TypeOK, StatusAtNode, Nodes, Stops, Running, Asking
  <2> QED
    BY <2>1 DEF GraphInv, ErrorAtNode, TurnAtNode
<1> QED
  BY <1>1, GraphInvariant, PTL

-----------------------------------------------------------------------------
(* Only a successful planning, which refuses an answered request, leads to *)
(* the guard without an error.                                             *)
LEMMA AsksOnceStep == GraphInv /\ PlannerAsksOnce /\ [Next]_vars => PlannerAsksOnce'
<1> SUFFICES ASSUME GraphInv, PlannerAsksOnce, [Next]_vars PROVE PlannerAsksOnce'
  OBVIOUS
<1>1. CASE node' # "guard_decision"
  BY <1>1 DEF PlannerAsksOnce
<1>2. CASE node' = "guard_decision"
  <2>1. \/ PlanSucceeds \/ PlanFails \/ DeadlinePasses \/ UNCHANGED vars
    <3>1. node # "guard_decision" \/ ~GuardDecision
      BY <1>2 DEF GuardDecision, GuardsDecision, FailsIdle, RouteOf
    <3> QED
      BY <1>2, <3>1
      DEF Next, Superstep, InitializeRun, LoadContext, PlanOrReplan, ExecuteTool,
          ObserveResult, EvaluateProgress, EvaluationSucceeds, RequestInput, Resume,
          RequestInputResumed, SynthesizeAnswer, ValidateAnswer, PersistTurn,
          FinalizeRun, Fail, FailsIdle, NextOrFail, GuardDecision, GuardsDecision, Runs
  <2>2. CASE PlanSucceeds
    BY <2>2 DEF PlanSucceeds, PlannerAsksOnce, IsNew
  <2>3. CASE PlanFails
    BY <2>3 DEF PlanFails, Failure, PlannerAsksOnce
  <2>4. CASE DeadlinePasses \/ UNCHANGED vars
    BY <2>4 DEF DeadlinePasses, vars, lifecycle, planning, dialogue, PlannerAsksOnce
  <2> QED
    BY <2>1, <2>2, <2>3, <2>4
<1> QED
  BY <1>1, <1>2

(* The planner never asks again what the user answered, over any number of *)
(* invocations of the graph.                                               *)
THEOREM PlannerNeverRepeats == Spec => []PlannerAsksOnce
<1>1. Init => PlannerAsksOnce
  BY DEF Init, PlannerAsksOnce
<1> QED
  BY <1>1, AsksOnceStep, GraphInvariant, PTL DEF Spec

-----------------------------------------------------------------------------
(* How one step of the graph may change the status. *)
LEMMA StatusStep == GraphInv /\ [Next]_vars => [Lifecycle!Next]_status
<1> SUFFICES ASSUME GraphInv, [Next]_vars, status' # status
             PROVE  status' \in Lifecycle!StatusTransitions[status]
  BY DEF Lifecycle!Next
<1> USE DEF Lifecycle!StatusTransitions, Lifecycle!TerminalStatuses
<1>1. GraphInv'
  BY GraphInvStep
<1>2. CASE InitializeRun
  BY <1>2 DEF InitializeRun, FailsIdle, Failure, Runs, GraphInv, StatusAtNode
<1>3. CASE PlanOrReplan
  BY <1>3 DEF PlanOrReplan, PlanSucceeds, PlanFails, Failure, Runs, GraphInv, StatusAtNode
<1>4. CASE EvaluateProgress
  <2>1. node = "evaluate_progress" /\ status = "running"
    BY <1>4 DEF EvaluateProgress, FailsIdle, Runs, GraphInv, StatusAtNode, Running
  <2>2. status' \in {"running", "waiting_input"} \/ status' = status
    BY <1>4 DEF EvaluateProgress, FailsIdle, Failure, EvaluationSucceeds, StatusAfterEvaluation
  <2> QED
    BY <2>1, <2>2
<1>5. CASE RequestInputResumed
  BY <1>5 DEF RequestInputResumed, Failure, Runs, GraphInv, StatusAtNode, Asking
<1>6. CASE FinalizeRun
  BY <1>6 DEF FinalizeRun, FailsIdle, Failure, Runs, GraphInv, StatusAtNode, Running
<1>7. CASE Fail
  <2>1. status \in {"initializing", "running", "waiting_input"}
    BY <1>7 DEF Fail, Runs, GraphInv, StatusAtNode
  <2>2. status' = "failed"
    BY <1>7 DEF Fail, lifecycle
  <2> QED
    BY <2>1, <2>2
<1>8. CASE LoadContext \/ GuardDecision \/ ExecuteTool \/ ObserveResult \/ RequestInput
        \/ SynthesizeAnswer \/ ValidateAnswer \/ PersistTurn \/ Resume
        \/ DeadlinePasses \/ UNCHANGED vars
  BY <1>8 DEF LoadContext, GuardDecision, GuardsDecision, ExecuteTool, ObserveResult,
              RequestInput, SynthesizeAnswer, ValidateAnswer, PersistTurn, Resume,
              DeadlinePasses, vars, lifecycle, FailsIdle, Failure
<1> QED
  BY <1>2, <1>3, <1>4, <1>5, <1>6, <1>7, <1>8 DEF Next, Superstep

(* The graph implements the transition table of state.py. *)
THEOREM GraphFollowsLifecycle == Spec => FollowsLifecycle
<1>1. Init => Lifecycle!Init
  BY DEF Init, Lifecycle!Init
<1> QED
  BY <1>1, StatusStep, GraphInvariant, PTL DEF Spec, FollowsLifecycle, Lifecycle!Spec
===========================================================================
