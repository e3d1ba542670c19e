------------------------- MODULE MCClusterFailDetect -------------------------
(* Two masters and a replica watch a third master.  Either all hear all, or  *)
(* only the replica hears the masters, and may miss the gossip of one.       *)
EXTENDS ClusterFailDetect, TLC

CONSTANTS m1, m2, r1

ToReplica  == {<<m1, r1>>, <<m2, r1>>}
mcNetworks == {[open |-> Channels, lossy |-> {}],
               [open |-> ToReplica, lossy |-> {<<m1, r1>>}]}
=============================================================================
