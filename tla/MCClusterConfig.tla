--------------------------- MODULE MCClusterConfig ---------------------------
(* Three nodes and two slots.                                               *)
EXTENDS ClusterConfig, TLC

Both(a, b) == {<<a, b>>, <<b, a>>}

\* 2 is the replica of 1; the two cannot talk to each other, only to 3.
Partition ==
  [links |-> Both(1, 3) \cup Both(2, 3), cur |-> 2,
   epoch |-> 1 :> 1 @@ 2 :> 0 @@ 3 :> 2, master |-> 1 :> None @@ 2 :> 1 @@ 3 :> None,
   owner |-> 1 :> 1 @@ 2 :> 3, promotions |-> 2, restarts |-> 0]

\* 2 and 3 are replicas of 1, which is dead; both may be promoted.
DeadMaster ==
  [links |-> Both(2, 3), cur |-> 3,
   epoch |-> 1 :> 1 @@ 2 :> 2 @@ 3 :> 3, master |-> 1 :> None @@ 2 :> 1 @@ 3 :> 1,
   owner |-> 1 :> 1 @@ 2 :> 1, promotions |-> 2, restarts |-> 0]

\* Three masters of a new cluster, all of them with configEpoch 0.
Fresh ==
  [links |-> Both(1, 2) \cup Both(1, 3) \cup Both(2, 3), cur |-> 0,
   epoch |-> [n \in Nodes |-> 0], master |-> [n \in Nodes |-> None],
   owner |-> 1 :> 1 @@ 2 :> 2, promotions |-> 0, restarts |-> 0]

\* 2 is the replica of 1, which has the greatest configEpoch; a node restarts before
\* or after the promotions.  Only some of the links work.
Restarts(works) ==
  [links |-> works, cur |-> 2,
   epoch |-> 1 :> 2 @@ 2 :> 0 @@ 3 :> 1, master |-> 1 :> None @@ 2 :> 1 @@ 3 :> None,
   owner |-> 1 :> 1 @@ 2 :> 3, promotions |-> 2, restarts |-> 1]

mcWorlds == {Partition, DeadMaster, Fresh, Restarts(Both(1, 2)),
             Restarts(Both(1, 3) \cup Both(2, 3))}
=============================================================================
