---------------------------- MODULE MCRunControl ----------------------------
(* One run.  MCRunControl.cfg: its first stream, two requests that resume  *)
(* it and one that cancels it, over the six events of a run that asks, is  *)
(* answered, asks again and is answered or ended: the shortest in which a  *)
(* resume can find that another resume has used the sequence it read.      *)
(* MCRunControl_disturbed.cfg adds restarts and clients that go away, with *)
(* one resume.  The other configurations are the smallest that show a      *)
(* counterexample.                                                         *)
EXTENDS RunControl, TLC

(* The cancel requests are alike. *)
CancellerSymmetry == Permutations(Cancellers)
=============================================================================
