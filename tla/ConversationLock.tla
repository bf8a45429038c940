------------------------- MODULE ConversationLock -------------------------
(***************************************************************************)
(* What the run store promises to the rest of the service, without logs,   *)
(* sequence numbers or statuses: a run is opened once and closed at most   *)
(* once, and while it is open it may hold one conversation, which no other *)
(* open run holds.                                                         *)
(***************************************************************************)
CONSTANTS Runs,          \* (tenant, user, run_id) triples
          Conversations  \* conversations of one tenant and user

VARIABLES stage,   \* stage[r]: "new", "open" or "closed"
          holders  \* holders[c]: the open runs that hold conversation c

vars == <<stage, holders>>

Stages == {"new", "open", "closed"}

Init == /\ stage = [r \in Runs |-> "new"]
        /\ holders = [c \in Conversations |-> {}]

(* A run that belongs to no conversation. *)
OpenFree(r) == /\ stage[r] = "new"
               /\ stage' = [stage EXCEPT ![r] = "open"]
               /\ UNCHANGED holders

(* A run of conversation c: nobody may hold it. *)
OpenIn(r, c) == /\ stage[r] = "new"
                /\ holders[c] = {}
                /\ stage' = [stage EXCEPT ![r] = "open"]
                /\ holders' = [holders EXCEPT ![c] = {r}]

(* A closed run holds nothing. *)
Close(r) == /\ stage[r] = "open"
            /\ stage' = [stage EXCEPT ![r] = "closed"]
            /\ holders' = [c \in Conversations |-> holders[c] \ {r}]

Next == \E r \in Runs : \/ OpenFree(r)
                        \/ \E c \in Conversations : OpenIn(r, c)
                        \/ Close(r)

Spec == Init /\ [][Next]_vars
===========================================================================
