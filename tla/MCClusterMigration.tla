-------------------------- MODULE MCClusterMigration --------------------------
(* A slot with two keys moves from node 1 to node 2; node 3 looks on.           *)
EXTENDS ClusterMigration, TLC

Both(a, b) == {<<a, b>>, <<b, a>>}

\* Two clients with all kinds of commands and a network without faults.
Busy ==
  [clients |-> Clients, links |-> {},
   epoch |-> 1 :> 1 @@ 2 :> 2 @@ 3 :> 3, keys |-> {"k"},
   ops |-> {"READALL", "WRITE", "DEL", "POP"}, writes |-> 1,
   faults |-> 0, retries |-> 0, bumps |-> 0]

\* One socket error at any point.
Faulty ==
  [clients |-> {"a"}, links |-> {},
   epoch |-> 1 :> 1 @@ 2 :> 2 @@ 3 :> 3, keys |-> {"k"},
   ops |-> {"READALL", "WRITE", "DEL"}, writes |-> 1, faults |-> 1, retries |-> 0, bumps |-> 0]

\* Two socket errors, so that a RESTORE REPLACE is late too, and the move may
\* be repeated.
FaultyTwice == [Faulty EXCEPT !.ops = {"WRITE"}, !.faults = 2, !.retries = 1]

\* Old and new claims of both ends on their way while the slot moves; any node
\* may take a new epoch.
Gossip ==
  [clients |-> {}, links |-> {<<1, 2>>, <<1, 3>>, <<2, 3>>},
   epoch |-> 1 :> 3 @@ 2 :> 2 @@ 3 :> 1, keys |-> {"k"},
   ops |-> {}, writes |-> 0, faults |-> 0, retries |-> 0, bumps |-> 1]

\* Any node may take the epoch the target takes too; nodes 2 and 3, and the
\* source with the target, find out about it.
Collision ==
  [clients |-> {}, links |-> Both(2, 3) \cup {<<2, 1>>, <<1, 3>>},
   epoch |-> 1 :> 3 @@ 2 :> 2 @@ 3 :> 1, keys |-> {"k"},
   ops |-> {}, writes |-> 0, faults |-> 0, retries |-> 0, bumps |-> 1]

mcWorlds == {Busy, Faulty, FaultyTwice, Gossip, Collision}
=============================================================================
