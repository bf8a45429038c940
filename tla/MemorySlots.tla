---------------------------- MODULE MemorySlots ----------------------------
(***************************************************************************)
(* What long-term memory promises, without transactions, approvers, turns  *)
(* or record states: a slot of an owner remembers one content at a time,   *)
(* put there by the approval of a candidate and never replaced in place; a *)
(* decision about a candidate is final until its owner is forgotten.       *)
(***************************************************************************)
CONSTANTS Candidates, SlotOf, ContentOf

VARIABLES remembered,  \* remembered[s]: contents in slot s
          decision     \* of every candidate

vars == <<remembered, decision>>

Slots == {SlotOf[c] : c \in Candidates}
Decisions == {"open", "approved", "refused"}

Init == /\ remembered = [s \in Slots |-> {}]
        /\ decision = [c \in Candidates |-> "open"]

Approve(c) ==
  /\ decision[c] = "open"
  /\ remembered[SlotOf[c]] \subseteq {ContentOf[c]}
  /\ remembered' = [remembered EXCEPT ![SlotOf[c]] = {ContentOf[c]}]
  /\ decision' = [decision EXCEPT ![c] = "approved"]

\* Rejected, or in conflict with what the slot holds.
Refuse(cs) ==
  /\ \A c \in cs : decision[c] = "open"
  /\ decision' = [c \in Candidates |->
                    IF c \in cs THEN "refused" ELSE decision[c]]
  /\ UNCHANGED remembered

\* Slots are emptied; candidates of forgotten owners can be proposed anew.
Release(ss, cs) ==
  /\ remembered' = [s \in Slots |-> IF s \in ss THEN {} ELSE remembered[s]]
  /\ decision' = [c \in Candidates |->
                    IF c \in cs THEN "open" ELSE decision[c]]

Next == \/ \E c \in Candidates : Approve(c)
        \/ \E cs \in SUBSET Candidates : Refuse(cs)
        \/ \E ss \in SUBSET Slots, cs \in SUBSET Candidates : Release(ss, cs)

Spec == Init /\ [][Next]_vars
============================================================================
