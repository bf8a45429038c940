-------------------------- MODULE MCRunEventStore --------------------------
(* Two runs, one conversation and logs of up to five events: a run can     *)
(* wait, be resumed and end, and the other can compete for its             *)
(* conversation at every point.                                            *)
EXTENDS RunEventStore
=============================================================================
