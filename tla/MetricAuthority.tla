------------------------- MODULE MetricAuthority -------------------------
(***************************************************************************)
(* What semantic metric governance promises, without proposals, versions,  *)
(* pointers or bindings: definitions are validated, validated definitions  *)
(* are put into force one at a time, and nothing is taken out of force.    *)
(***************************************************************************)
CONSTANT Definitions

VARIABLES validated,  \* the definitions some validation found sound
          active      \* the definitions new questions may use

vars == <<validated, active>>

Init == /\ validated = {}
        /\ active = {}

Validate(d) == /\ validated' = validated \cup {d}
               /\ UNCHANGED active

PutInForce(d) == /\ d \in validated \ active
                 /\ active' = active \cup {d}
                 /\ UNCHANGED validated

Next == \E d \in Definitions : Validate(d) \/ PutInForce(d)

Spec == Init /\ [][Next]_vars
==========================================================================
