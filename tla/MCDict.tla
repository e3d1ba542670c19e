------------------------------ MODULE MCDict -------------------------------
(* Four keys in tables of 2, 4 and 8 buckets: one hash function with short    *)
(* chains and one that chains keys at every size.                             *)
EXTENDS Dict, TLC

CONSTANTS k1, k2, k3, k4

mcKey == {k1, k2, k3, k4}

Spread == k1 :> 1 @@ k2 :> 3 @@ k3 :> 7
Chained == k1 :> 1 @@ k2 :> 5 @@ k3 :> 3 @@ k4 :> 7

Scanned == [hash |-> Spread, scan |-> TRUE, iterate |-> FALSE, forks |-> 1]
Iterated == [hash |-> Chained, scan |-> FALSE, iterate |-> TRUE, forks |-> 0]

mcWorlds == {Scanned, Iterated}
=============================================================================
