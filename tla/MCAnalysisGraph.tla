-------------------------- MODULE MCAnalysisGraph --------------------------
(* Limits small enough that every counter can run out, and large enough    *)
(* that a run can act, be evaluated, replan, ask, be answered and ask      *)
(* again.                                                                  *)
EXTENDS AnalysisGraph

MCLimits == [agent_steps    |-> 3,
             model_calls    |-> 4,
             tool_calls     |-> 2,
             query_compiles |-> 1,
             query_previews |-> 0,
             query_executes |-> 1,
             replans        |-> 1]
=============================================================================
