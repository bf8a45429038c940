--------------------------- MODULE AnalysisLoop ---------------------------
(***************************************************************************)
(* What the analysis graph decides in its loop of planning, tools and      *)
(* evaluation, with the parts the application puts into it:                *)
(* DatasetAnalysisRunResolver and its next-action resolver                 *)
(* (composition.py), AnalysisPlanner, AnalysisEvaluator and                *)
(* AnalysisSynthesizer (src/data_agent/analysis_agent).  AnalysisGraph has *)
(* the nodes, the budgets and the failures, and takes any decision.        *)
(*                                                                         *)
(* The resolver decides without the model, except for the logical query it *)
(* has built, and only where the last tool succeeded; after a failed one   *)
(* the planner's model decides.  The planner's other branches and the      *)
(* evaluator's model are not reached in this composition: the first plan   *)
(* is the resolver's, and the evaluator is given the claims of the         *)
(* evidence it has as the claims it requires, and no contradictions.       *)
(*                                                                         *)
(* A run's tools run one after the other, so an artifact is named by the   *)
(* position of the observation that brought it.                            *)
(***************************************************************************)
EXTENDS FiniteSetsExt, Sequences, Integers

CONSTANTS MaxLoopSteps,   \* AgentRunBudget.max_agent_steps
          MaxLoopReplans  \* AgentRunBudget.max_replans

ASSUME LoopLimits == MaxLoopSteps \in Nat /\ MaxLoopReplans \in Nat

VARIABLES
  task,       \* the mode of the run and what its question asks for
  stage,      \* the node of the graph that is next
  plan_steps, \* AnalysisPlan.steps
  observed,   \* state["observations"]
  pending,    \* the guarded action and the step it is assigned to
  logical,    \* the resolver's _query_plan
  drafted,    \* the resolver's _metric_proposal
  origin,     \* the origin of the request the run waits for or was answered
  replanning, \* state["replan_requested"]
  loops,      \* agent_steps and replans consumed
  answer      \* the draft of the answer and what the response shows

plan_vars == <<plan_steps, pending, loops, replanning>>
resolver_vars == <<logical, drafted>>
loop_vars == <<task, stage, plan_steps, observed, pending, logical, drafted, origin,
               replanning, loops, answer>>

Modes == {"plan", "preview", "execute"}
Questions == {"data", "semantic", "mixed"}
NoAction == [tool |-> "none"]
NoAnswer == [cites |-> {}, rows |-> 0, kind |-> "none"]

(* The tools whose specification allows a mode; "analysis" stands for the  *)
(* profiles, computations and charts.                                      *)
AllowedTools(mode) ==
  {"catalog.inspect", "semantic.inspect", "query.compile", "evidence.collect"}
    \cup (IF mode = "plan" THEN {} ELSE {"query.preview", "analysis"})
    \cup (IF mode = "execute" THEN {"query.execute"} ELSE {})

Queries == {"query.preview", "query.execute"}

-----------------------------------------------------------------------------
(* What the run has observed. *)
Succeeded(i) == observed[i].outcome \notin {"retryable", "fatal"}
By(tools) == {i \in DOMAIN observed : Succeeded(i) /\ observed[i].tool \in tools}
Latest == observed[Len(observed)]

(* Faulty: only the last observation's artifacts are looked at. *)
PreparedLast == By({"query.compile"}) \cap {Len(observed)}

(* The artifacts the resolver finds again in the state. *)
Prepared == By({"query.compile"})
QueryResults == By(Queries)
Inspected == By({"semantic.inspect"})
Evidenced == {observed[i].on : i \in By({"evidence.collect"})}
LatestOf(positions) == IF positions = {} THEN 0 ELSE Max(positions)

(* How the pending action may end: with an artifact, whose rows the        *)
(* evaluator looks at, or with an error, as a query of another artifact.   *)
Errors == {"retryable", "fatal"}
Outcomes == IF pending.tool \notin Queries THEN Errors \cup {"done"}
            ELSE IF pending.on \in Prepared THEN Errors \cup {"done", "empty", "nonfinite"}
            ELSE Errors

-----------------------------------------------------------------------------
(* The plan. *)
StepOver(step) == step.state \in {"completed", "skipped"}
OverSteps == {k \in DOMAIN plan_steps : StepOver(plan_steps[k])}
RunnableIn(steps) ==
  {k \in DOMAIN steps : /\ steps[k].state = "pending"
                        /\ \A n \in steps[k].needs : StepOver(steps[n])}

(* The words of a step's objective that the resolver looks for. *)
Canonical(tool) == CASE tool = "catalog.inspect"  -> {"catalog"}
                     [] tool = "semantic.inspect" -> {"semantic"}
                     [] OTHER                     -> {}

PendingStep(about, needs) == [state |-> "pending", about |-> about, needs |-> needs]

(* _append_tool_step: the resolver's own step, after all that is over. *)
WithStep(steps) ==
  IF RunnableIn(steps) # {} THEN steps ELSE Append(steps, PendingStep({}, OverSteps))

IsAbout(word) ==
  RunnableIn(plan_steps) # {} /\ word \in plan_steps[Min(RunnableIn(plan_steps))].about

-----------------------------------------------------------------------------
(* plan_or_replan: each planning is an agent step, and a replan if one was *)
(* asked for; past a limit the run fails.                                  *)
Planning ==
  /\ stage = "planning"
  /\ loops.steps < MaxLoopSteps
  /\ replanning => loops.replans < MaxLoopReplans
  /\ loops' = [steps |-> loops.steps + 1,
               replans |-> loops.replans + (IF replanning THEN 1 ELSE 0)]
  /\ replanning' = FALSE
  /\ UNCHANGED <<task, observed, answer>>

(* The action is assigned to the first runnable step, which starts. *)
Assigns(steps, tool, on, by) ==
  LET k == Min(RunnableIn(steps)) IN
  /\ RunnableIn(steps) # {}
  /\ plan_steps' = [steps EXCEPT ![k].state = "running"]
  /\ pending' = [tool |-> tool, on |-> on, by |-> by, step |-> k]
  /\ stage' = "tool"

(* _act: the resolver's action rewrites the objective of its step. *)
Acts(tool, on) ==
  LET steps == WithStep(plan_steps) IN
  /\ tool \in AllowedTools(task.mode)
  /\ Assigns([steps EXCEPT ![Min(RunnableIn(steps))].about = Canonical(tool)],
             tool, on, "resolver")

(* _finish_evidence_mode and _finish_plan_mode: what is left is skipped. *)
Finishes(states) ==
  /\ plan_steps' = [k \in DOMAIN plan_steps |->
       IF plan_steps[k].state \in states
       THEN [plan_steps[k] EXCEPT !.state = "skipped"] ELSE plan_steps[k]]
  /\ stage' = "answering"
  /\ UNCHANGED pending

(* _fail_missing_runtime_tool: a tool the mode lacks; and QUERY_UNSUPPORTED. *)
GivesUp == stage' = "failed" /\ UNCHANGED <<plan_steps, pending>>

(* DatasetAnalysisRunResolver.resolve gives a run, and each of its resumes, *)
(* a new resolver, with no query and no draft.                             *)
NewResolver == logical' = "none" /\ drafted' = FALSE

ResolvesRun ==
  /\ stage = "resolving"
  /\ stage' = "planning"
  /\ NewResolver
  /\ UNCHANGED <<task, plan_vars, observed, origin, answer>>

(* Incomplete pins, a stale binding, or a domain pack that is gone. *)
RefusesRun ==
  /\ stage = "resolving"
  /\ stage' = "failed"
  /\ UNCHANGED <<task, plan_vars, observed, resolver_vars, origin, answer>>

(* initial_decision: the first plan is to inspect the catalog. *)
InitialDecision ==
  /\ Planning /\ plan_steps = <<>>
  /\ plan_steps' = <<[PendingStep({"catalog"}, {}) EXCEPT !.state = "running"]>>
  /\ pending' = [tool |-> "catalog.inspect", on |-> 0, by |-> "resolver", step |-> 1]
  /\ stage' = "tool"
  /\ UNCHANGED <<resolver_vars, origin>>

-----------------------------------------------------------------------------
(* The resolver's later decisions, in the order in which it looks.         *)
(* A clarification of the logical query was answered: _query_plan is reset. *)
QueryAnswered == replanning /\ origin = "dataset_query"
Resolvable == observed # <<>> /\ (Succeeded(Len(observed)) \/ QueryAnswered)
Resolves == Planning /\ plan_steps # <<>> /\ Resolvable

WantsCatalog == IsAbout("catalog") /\ By({"catalog.inspect"}) = {}
WantsSemantics == ~ WantsCatalog /\ IsAbout("semantic") /\ Inspected = {}
Unprompted == ~ WantsCatalog /\ ~ WantsSemantics

NeedsSemantics == task.question \in {"semantic", "mixed"}
SemanticsBound == Inspected # {} /\ LatestOf(Inspected) \in Evidenced
(* The result's artifact is the one the evidence is bound to. *)
ResultBound == LatestOf(QueryResults) \in Evidenced

(* Nothing is prepared and the question is about the semantics. *)
ReadsSemantics ==
  \/ WantsCatalog /\ Acts("catalog.inspect", 0)
  \/ WantsSemantics /\ Acts("semantic.inspect", 0)
  \/ /\ Unprompted /\ Prepared = {} /\ NeedsSemantics
     /\ IF Inspected = {} THEN Acts("semantic.inspect", 0)
        ELSE IF ~ SemanticsBound THEN Acts("evidence.collect", LatestOf(Inspected))
        ELSE task.question = "semantic" /\ Finishes({"pending", "blocked"})

ResolvesSemantics == Resolves /\ ReadsSemantics /\ UNCHANGED <<resolver_vars, origin>>

(* _plan_query: the logical query is kept for the invocation. *)
PlansQuery ==
  /\ Resolves /\ Unprompted /\ Prepared = {}
  /\ NeedsSemantics => SemanticsBound /\ task.question = "mixed"

LogicalNow == IF QueryAnswered THEN "none" ELSE logical
Planned == IF LogicalNow # "none" THEN {LogicalNow} ELSE {"ready", "unclear", "unsupported"}

ResolvesQuery ==
  /\ PlansQuery
  /\ "ready" \in Planned /\ logical' = "ready"
  /\ Acts("query.compile", 0)
  /\ UNCHANGED <<drafted, origin>>

(* The program needs a clarification: a metric the domain pack knows and   *)
(* the catalog lacks is drafted, once, and never activated.                *)
AsksAboutQuery ==
  /\ PlansQuery
  /\ "unclear" \in Planned /\ logical' = "unclear"
  /\ drafted' \in {drafted, TRUE}
  /\ origin' = "dataset_query"
  /\ stage' = "waiting"
  /\ UNCHANGED <<plan_steps, pending>>

RefusesQuery ==
  /\ PlansQuery
  /\ "unsupported" \in Planned /\ logical' = "unsupported"
  /\ GivesUp
  /\ UNCHANGED <<drafted, origin>>

RunTool == IF "query.execute" \in AllowedTools(task.mode) THEN "query.execute"
           ELSE IF "query.preview" \in AllowedTools(task.mode) THEN "query.preview"
           ELSE "none"

(* The first prepared query is run, and the last result is bound. *)
ResolvesResult ==
  /\ Resolves /\ Unprompted /\ Prepared # {}
  /\ IF QueryResults = {}
     THEN IF RunTool # "none" THEN Acts(RunTool, Min(Prepared)) ELSE Finishes({"pending"})
     ELSE IF ResultBound THEN Finishes({"pending", "blocked"})
     ELSE Acts("evidence.collect", LatestOf(QueryResults))
  /\ UNCHANGED <<resolver_vars, origin>>

-----------------------------------------------------------------------------
(* AnalysisPlanner.decide after a failed tool.  The model's plan may have  *)
(* any steps; here it keeps them, frees or skips those that failed, and    *)
(* may add one.                                                            *)
Retried(state) == [k \in DOMAIN plan_steps |->
  IF plan_steps[k].state = "blocked" THEN [plan_steps[k] EXCEPT !.state = state]
  ELSE plan_steps[k]]
ModelPlans ==
  {plan_steps, Retried("pending"), Retried("skipped")}
    \cup {Append(plan_steps, PendingStep(about, {})) : about \in {{}, {"semantic"}}}

ModelDecides ==
  /\ Planning /\ plan_steps # <<>> /\ ~ Resolvable
  /\ UNCHANGED resolver_vars

ModelArguments(tool) ==
  IF tool \in Queries \cup {"evidence.collect"}
  THEN By(AllowedTools(task.mode) \ {"evidence.collect"}) ELSE {0}

(* _validate_decision: the tool is allowed and a step is runnable. *)
ModelActs ==
  /\ ModelDecides
  /\ \E steps \in ModelPlans, tool \in AllowedTools(task.mode) :
       \E on \in ModelArguments(tool) : Assigns(steps, tool, on, "model")
  /\ UNCHANGED origin

ModelEnds ==
  /\ ModelDecides
  /\ plan_steps' \in ModelPlans
  /\ \/ stage' = "answering" /\ UNCHANGED origin
     \/ stage' = "waiting" /\ origin' = "planner"
     \/ stage' = "failed" /\ UNCHANGED origin
  /\ UNCHANGED pending

(* request_input with the response of a resume; one whose run cannot be    *)
(* resolved again leaves it waiting.                                       *)
InputAnswered ==
  /\ stage = "waiting"
  /\ stage' = "planning" /\ replanning' = TRUE
  /\ NewResolver
  /\ UNCHANGED <<task, plan_steps, observed, pending, origin, loops, answer>>

-----------------------------------------------------------------------------
(* execute_tool and observe_result. *)
Observation(outcome) ==
  [tool |-> pending.tool, on |-> pending.on, by |-> pending.by, outcome |-> outcome]
StepEnds(outcome) ==
  plan_steps' = [plan_steps EXCEPT ![pending.step].state =
                   IF outcome \in Errors THEN "blocked" ELSE "completed"]

Observes ==
  /\ stage = "tool"
  /\ \E outcome \in Outcomes :
       /\ observed' = Append(observed, Observation(outcome))
       /\ StepEnds(outcome)
  /\ pending' = NoAction
  /\ stage' = "evaluating"
  /\ UNCHANGED <<task, resolver_vars, origin, replanning, loops, answer>>

(* append_observations: an action the model repeats under its old id and   *)
(* that ends as before is the old observation.                             *)
ObservesAgain ==
  /\ stage = "tool" /\ pending.by = "model"
  /\ \E outcome \in Outcomes :
       /\ \E i \in DOMAIN observed : observed[i] = Observation(outcome)
       /\ StepEnds(outcome)
  /\ pending' = NoAction
  /\ stage' = "evaluating"
  /\ UNCHANGED <<task, observed, resolver_vars, origin, replanning, loops, answer>>

-----------------------------------------------------------------------------
(* AnalysisEvaluator._pre_model_decision, in the order of its checks.  The *)
(* artifact of evidence.collect is the one it binds.                       *)
FindsNothing == \/ Latest.outcome = "empty"
                \/ /\ Latest.tool = "evidence.collect" /\ Latest.outcome = "done"
                   /\ observed[Latest.on].outcome = "empty"
Suffices == /\ Evidenced # {}
            /\ \A k \in DOMAIN plan_steps : StepOver(plan_steps[k])

Evaluation == CASE Latest.outcome = "retryable" -> "replan"
                [] Latest.outcome = "fatal"     -> "fail"
                [] FindsNothing                 -> "replan"
                [] Latest.outcome = "nonfinite" -> "replan"
                [] Suffices                     -> "finish"
                [] OTHER                        -> "continue"

Evaluates ==
  /\ stage = "evaluating"
  /\ replanning' = (Evaluation = "replan")
  /\ stage' = CASE Evaluation = "finish" -> "answering"
                [] Evaluation = "fail"   -> "failed"
                [] OTHER                 -> "planning"
  /\ UNCHANGED <<task, plan_steps, observed, pending, resolver_vars, origin, loops, answer>>

-----------------------------------------------------------------------------
(* _build_dataset_response shows the last result, bound or not. *)
RowsShown == LatestOf(QueryResults)

(* synthesize_answer, and the response that is built of it. *)
AnswersWith(kind) ==
  /\ stage = "answering"
  /\ answer' = [cites |-> Evidenced, rows |-> RowsShown, kind |-> kind]
  /\ stage' = "answered"
  /\ UNCHANGED <<task, plan_vars, observed, resolver_vars, origin>>

DraftsPlan == task.mode = "plan" /\ Evidenced = {} /\ AnswersWith("plan")

(* The model's answer cites all evidence, or it is replaced; either way a  *)
(* preview is declared as one.                                             *)
Synthesizes == Evidenced # {} /\ AnswersWith("synthesized")

(* The node's own answer, when the model has no time left or runs out of   *)
(* it: it asks for no evidence and declares no preview.                    *)
DraftsLate == (task.mode # "plan" \/ Evidenced # {}) /\ AnswersWith("late")

(* A node raises: a model without a valid answer, a limit, the deadline,   *)
(* a clarification that was answered before, an observation that conflicts *)
(* with an earlier one, no evidence to answer from.                        *)
LoopFails ==
  /\ stage \in {"planning", "tool", "evaluating", "answering"}
  /\ stage' = "failed"
  /\ UNCHANGED <<task, plan_vars, observed, resolver_vars, origin, answer>>

-----------------------------------------------------------------------------
LoopInit == /\ task \in [mode : Modes, question : Questions]
            /\ stage = "resolving" /\ plan_steps = <<>> /\ observed = <<>>
            /\ pending = NoAction /\ logical = "none" /\ drafted = FALSE
            /\ origin = "none" /\ replanning = FALSE
            /\ loops = [steps |-> 0, replans |-> 0] /\ answer = NoAnswer

LoopNext ==
  \/ ResolvesRun \/ RefusesRun
  \/ InitialDecision \/ ResolvesSemantics \/ ResolvesQuery \/ AsksAboutQuery
  \/ RefusesQuery \/ ResolvesResult \/ ModelActs \/ ModelEnds \/ InputAnswered
  \/ Observes \/ ObservesAgain \/ Evaluates
  \/ DraftsPlan \/ Synthesizes \/ DraftsLate \/ LoopFails

-----------------------------------------------------------------------------
(* The state keeps its types; an observation is only about earlier ones,   *)
(* and the plan's dependencies are steps of the plan.                      *)
LoopTypeOK ==
  /\ task \in [mode : Modes, question : Questions]
  /\ stage \in {"resolving", "planning", "tool", "evaluating", "waiting",
                "answering", "answered", "failed"}
  /\ plan_steps \in Seq([state : {"pending", "running", "completed", "blocked", "skipped"},
                          about : SUBSET {"catalog", "semantic"},
                          needs : SUBSET (DOMAIN plan_steps)])
  /\ observed \in Seq([tool : AllowedTools(task.mode), on : 0 .. Len(observed),
                        by : {"resolver", "model"},
                        outcome : {"done", "empty", "nonfinite"} \cup Errors])
  /\ logical \in {"none", "ready", "unclear", "unsupported"}
  /\ drafted \in BOOLEAN /\ replanning \in BOOLEAN
  /\ origin \in {"none", "dataset_query", "planner"}
  /\ loops \in [steps : 0 .. MaxLoopSteps, replans : 0 .. MaxLoopReplans]

(* The resolver has nothing done again that has succeeded, whoever asked   *)
(* for it; it binds evidence to an artifact once.                          *)
NothingIsRedone ==
  \A i, j \in By(AllowedTools(task.mode)) :
    i < j /\ observed[j].by = "resolver" /\ observed[i].tool = observed[j].tool
      => observed[j].tool = "evidence.collect" /\ observed[i].on # observed[j].on

LoopSpec == LoopInit /\ [][LoopNext]_loop_vars
=============================================================================
