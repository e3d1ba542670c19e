------------------------------- MODULE MCPsync -------------------------------
(* Two instances that swap roles, two that restart, three in chains or in a  *)
(* ring; and clients that WAIT while two instances swap roles, while a link  *)
(* is lost or an instance restarts, and at the master of two replicas.  The  *)
(* instances are alike, so the writes to three of them are at the first.     *)
EXTENDS Psync

Swap    == [nodes |-> {1, 2}, hosts |-> {1, 2}, writers |-> {1, 2}, clients |-> {},
            write |-> 2, role |-> 4, drop |-> 1, free |-> 1, restart |-> 0]
Reboot  == [nodes |-> {1, 2}, hosts |-> {1, 2}, writers |-> {1, 2}, clients |-> {},
            write |-> 2, role |-> 2, drop |-> 1, free |-> 0, restart |-> 1]
Chain   == [nodes |-> {1, 2, 3}, hosts |-> {1, 2}, writers |-> {1}, clients |-> {},
            write |-> 1, role |-> 4, drop |-> 0, free |-> 0, restart |-> 0]
Ring    == [nodes |-> {1, 2, 3}, hosts |-> {1, 2, 3}, writers |-> {1}, clients |-> {},
            write |-> 1, role |-> 3, drop |-> 0, free |-> 0, restart |-> 0]
WaitSwap == [nodes |-> {1, 2}, hosts |-> {1, 2}, writers |-> {1}, clients |-> {1},
             write |-> 1, role |-> 5, drop |-> 0, free |-> 1, restart |-> 0]
WaitDrop == [nodes |-> {1, 2}, hosts |-> {1, 2}, writers |-> {1}, clients |-> {1},
             write |-> 2, role |-> 1, drop |-> 1, free |-> 0, restart |-> 1]
WaitStar == [nodes |-> {1, 2, 3}, hosts |-> {1}, writers |-> {1}, clients |-> {1, 2},
             write |-> 2, role |-> 2, drop |-> 0, free |-> 0, restart |-> 0]

mcBounds == {Swap, Reboot, Chain, Ring, WaitSwap, WaitDrop, WaitStar}
=============================================================================
