------------------------------ MODULE Tracking ------------------------------
(***************************************************************************)
(* Client side caching, tracking.c, as operators on the state s of the      *)
(* module Keyspace: the table of the clients that may hold a key, the keys  *)
(* to broadcast before the event loop sleeps, and the invalidation messages *)
(* both lead to.                                                            *)
(*                                                                         *)
(* Invalidations are RESP3 push messages on the connection that carries     *)
(* the replies, so a client handles them in the order they were produced    *)
(* in: its copies, s.cache, are shown as they will be once it has read      *)
(* everything sent to it. Prefixes, redirection to another connection and   *)
(* OPTIN and OPTOUT are left out.                                           *)
(*                                                                         *)
(* Mutant, a wrong version of the definition that follows it and used by    *)
(* nothing else: EvictsSilently.                                            *)
(***************************************************************************)
EXTENDS Naturals, FiniteSets, FiniteSetsExt

CONSTANTS
    Client,      \* the connections
    Key,         \* the key names
    None,        \* NULL: no client, no copy
    MaxTracked   \* tracking_table_max_keys

-----------------------------------------------------------------------------
Tracks(s, c) == s.cl[c].alive /\ s.cl[c].mode # "off"

\* The clients of PrefixTable.
Broadcasts(s) == {c \in Client : Tracks(s, c) /\ s.cl[c].mode = "bcast"}

\* The clients cs are told that the keys ks are invalid, and drop their copies.
sendTrackingMessage(s, cs, ks) ==
    [s EXCEPT !.cache = [c \in Client |->
        [k \in Key |-> IF c \in cs /\ k \in ks THEN None ELSE @[c][k]]]]

\* A read-only command of c that is not in BCAST mode names key k.
trackingRememberKeys(s, c, k) ==
    IF Tracks(s, c) /\ s.cl[c].mode # "bcast" THEN [s EXCEPT !.tt[k] = @ \cup {c}] ELSE s

\* raxTryInsert: a key to broadcast keeps the client that changed it first.
trackingRememberKeyToBroadcast(s, c, k) ==
    IF Broadcasts(s) = {} \/ s.bc[k] # {} THEN s ELSE [s EXCEPT !.bc[k] = {c}]

\* Client c, or None for the server itself, changed key k.
trackingInvalidateKeyRaw(s, c, k, bcast) ==
    LET t == IF bcast THEN trackingRememberKeyToBroadcast(s, c, k) ELSE s
        told == {r \in t.tt[k] : /\ Tracks(t, r) /\ t.cl[r].mode # "bcast"
                                 /\ ~(t.cl[r].noloop /\ r = c)}
    IN  [sendTrackingMessage(t, told, {k}) EXCEPT !.tt[k] = {}]

\* FLUSHALL: every tracking client forgets everything, and so does the table.
trackingInvalidateKeysOnFlush(s) ==
    [sendTrackingMessage(s, {c \in Client : Tracks(s, c)}, Key) EXCEPT !.tt = [k \in Key |-> {}]]

TrackedKeys(s) == {k \in Key : s.tt[k] # {}}

\* BUG: the evicted keys are dropped from the table without a message.
EvictsSilently(s) ==
    LET over == Cardinality(TrackedKeys(s)) - MaxTracked
    IN  IF over <= 0 THEN {s}
        ELSE {[s EXCEPT !.tt = [k \in Key |-> IF k \in ks THEN {} ELSE @[k]]] :
                  ks \in kSubset(over, TrackedKeys(s))}
\* trackingLimitUsedSlots evicts random keys until MaxTracked are left: the states
\* it may end in.
trackingLimitUsedSlots(s) ==
    LET over == Cardinality(TrackedKeys(s)) - MaxTracked
        Evict(k, t) == trackingInvalidateKeyRaw(t, None, k, FALSE)
    IN  IF over <= 0 THEN {s}
        ELSE {FoldSet(Evict, s, ks) : ks \in kSubset(over, TrackedKeys(s))}

\* The broadcast of beforeSleep: a client in NOLOOP mode is spared the keys noted
\* down as changed by itself.
KeysToTell(s, c) == {k \in Key : s.bc[k] # {} /\ ~(s.cl[c].noloop /\ s.bc[k] = {c})}

trackingBroadcastInvalidationMessages(s) ==
    [s EXCEPT !.cache = [c \in Client |-> [k \in Key |->
                  IF c \in Broadcasts(s) /\ k \in KeysToTell(s, c) THEN None ELSE @[c][k]]],
              !.bc = [k \in Key |-> {}]]

\* The last client of the prefix takes the keys to broadcast with it.
disableTracking(s, c) ==
    [s EXCEPT !.cl[c].mode = "off", !.cl[c].noloop = FALSE,
              !.bc = IF Broadcasts(s) \subseteq {c} THEN [k \in Key |-> {}] ELSE @,
              !.cache[c] = [k \in Key |-> None]]

\* CLIENT TRACKING on: the mode changes only after it was switched off.
enableTracking(s, c, mode, noloop) ==
    IF Tracks(s, c) /\ (s.cl[c].mode = "bcast") # (mode = "bcast") THEN s
    ELSE [s EXCEPT !.cl[c].mode = mode, !.cl[c].noloop = noloop]

\* A client with tracking on keeps the answer to what it read, and drops its copy
\* of a key it changes itself, which NOLOOP leaves to it.
Cached(s, c, k, answer) == IF Tracks(s, c) THEN [s EXCEPT !.cache[c][k] = answer] ELSE s

=============================================================================
