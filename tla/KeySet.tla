------------------------------ MODULE KeySet -------------------------------
(***************************************************************************)
(* What dict.c promises to its callers: a set of keys.  Each call changes  *)
(* the set as its name says and answers for the set as it was; nothing the  *)
(* implementation does on its own (growing, shrinking, rehashing) shows.    *)
(***************************************************************************)
CONSTANT Key

VARIABLES
    keys,    \* the keys in the set
    answer   \* the last call and what it returned

\* dictAdd: the key is added unless it is there; dictReplace answers in the
\* same way.
Add(k) ==
    /\ keys' = keys \cup {k}
    /\ answer' = [call |-> "add", ok |-> k \notin keys]

\* dictDelete and dictUnlink.
Delete(k) ==
    /\ keys' = keys \ {k}
    /\ answer' = [call |-> "delete", ok |-> k \in keys]

\* dictFind.
Find(k) ==
    /\ keys' = keys
    /\ answer' = [call |-> "find", ok |-> k \in keys]

\* dictGetRandomKey: some member, or NULL when there is none.
Random ==
    /\ keys' = keys
    /\ answer' = [call |-> "random", ok |-> keys # {}]

\* dictEmpty.
Empty ==
    /\ keys' = {}
    /\ answer' = [call |-> "empty", ok |-> TRUE]

Init == keys = {} /\ answer = [call |-> "none", ok |-> TRUE]

Next ==
    \/ \E k \in Key : Add(k) \/ Delete(k) \/ Find(k)
    \/ Random
    \/ Empty

Spec == Init /\ [][Next]_<<keys, answer>>
=============================================================================
