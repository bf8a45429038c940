--------------------------- MODULE AgentLifecycle ---------------------------
(***************************************************************************)
(* The life of one analysis run as data_agent/analysis_agent/state.py      *)
(* declares it (_STATUS_TRANSITIONS): the abstract specification of every  *)
(* component that writes a run's status.                                   *)
(***************************************************************************)
VARIABLE status

TerminalStatuses == {"completed", "failed", "cancelled"}
AgentStatuses == {"initializing", "running", "waiting_input"} \cup TerminalStatuses

StatusTransitions ==
  [initializing  |-> {"running", "failed", "cancelled"},
   running       |-> {"waiting_input"} \cup TerminalStatuses,
   waiting_input |-> {"running", "failed", "cancelled"},
   completed     |-> {},
   failed        |-> {},
   cancelled     |-> {}]

Init == status = "initializing"

Next == \E target \in StatusTransitions[status] : status' = target

Spec == Init /\ [][Next]_status
=============================================================================
