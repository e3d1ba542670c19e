-------------------------- MODULE MCClusterElection --------------------------
(* Three masters, one of them failed, and its two replicas.                 *)
EXTENDS ClusterElection, TLC

CONSTANTS m0, m1, m2, s1, s2

mcMasters  == {m0, m1, m2}
mcFailed   == {m0}
mcReplicas == {s1, s2}
mcMasterOf == s1 :> m0 @@ s2 :> m0

\* Either replicas try twice, or nodes crash twice during one attempt and two
\* writes come before the save; without a crash it does not matter which comes
\* first.
mcRetryOrCrash == {[epoch |-> 2, crashes |-> 0, early |-> 0],
                   [epoch |-> 1, crashes |-> 2, early |-> 2]}

Symmetry == Permutations({m1, m2}) \cup Permutations({s1, s2})
=============================================================================
