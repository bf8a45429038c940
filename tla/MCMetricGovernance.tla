------------------------ MODULE MCMetricGovernance ------------------------
(* A legacy and a graph binding; both map both metrics, but only the      *)
(* legacy one makes the second sound.  The metrics do not share a name.   *)
EXTENDS MetricGovernance, TLC

CONSTANTS l1, g1, d1, d2

MCMapped == (l1 :> {d1, d2}) @@ (g1 :> {d1, d2})
MCSound == (l1 :> {d1, d2}) @@ (g1 :> {d1})
MCNames == (d1 :> {"d1"}) @@ (d2 :> {"d2"})

Symmetry == Permutations(Proposals) \cup Permutations(Calls)
              \cup Permutations(SetIds)
============================================================================
