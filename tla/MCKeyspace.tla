---------------------------- MODULE MCKeyspace -----------------------------
(* Three clients and two keys, in four worlds: blocking commands against pushes *)
(* and transactions, two databases that are swapped, WATCH against expiring and *)
(* flushed keys, and client side caching.                                      *)
EXTENDS Keyspace, TLC

CONSTANTS a, b, d, k, l

mcClient == {a, b, d}
mcKey == {k, l}

On(op, key) == [op |-> op, k |-> key]
Push(key, m) == [op |-> "rpush", k |-> key, m |-> m]
Blpop(ks) == [op |-> "blpop", ks |-> ks]
Move(src, dst) == [op |-> "brpoplpush", k |-> src, to |-> dst]
Rename(src, dst) == [op |-> "rename", k |-> src, to |-> dst]
Track(mode, noloop) == [op |-> "track", mode |-> mode, noloop |-> noloop]
Do(op) == [op |-> op]

Empty == [x \in Slot |-> Absent]
In(x, y, z) == a :> x @@ b :> y @@ d :> z

\* BLPOP of two keys, BRPOPLPUSH both ways, pushes alone and in transactions.
Blocking ==
    [data |-> Empty, n |-> 0, db |-> In(0, 0, 0), writes |-> 4, depth |-> 2,
     faults |-> {"close"},
     commands |-> In({Blpop(<<k, l>>), Move(k, l), Push(k, 1)},
                     {Blpop(<<l>>), Move(l, k), Move(k, l), Push(l, 1)},
                     {Blpop(<<l, k>>), Push(k, 1), Push(k, 2), Do("multi"), Do("exec"),
                      On("lpop", k)})]

\* The destination of a BRPOPLPUSH may be a string; keys are renamed, set and expire.
WrongType ==
    [data |-> [Empty EXCEPT ![<<0, l>>] = String(1)], n |-> 1, db |-> In(0, 0, 0), writes |-> 4,
     depth |-> 3, faults |-> {},
     commands |-> In({Move(k, l), Blpop(<<k>>)}, {Blpop(<<k, l>>), Move(k, k), On("expire", k)},
                     {Push(k, 1), Push(k, 2), On("del", l), Rename(l, k), On("set", k),
                      On("expire", l), Do("multi"), Do("exec")})]

\* Two clients block in databases 0 and 1, the third pushes and swaps them.
Swapping ==
    [data |-> Empty, n |-> 0, db |-> In(0, 1, 1), writes |-> 3, depth |-> 2,
     faults |-> {},
     commands |-> In({Blpop(<<k, l>>), Push(k, 1), On("expire", k)}, {Blpop(<<k>>), Move(k, l)},
                     {Push(k, 1), Push(l, 1), Do("swapdb"), Do("multi"), Do("exec")})]

\* WATCH against changes, expiry, FLUSHALL and another transaction.
Watching ==
    [data |-> [Empty EXCEPT ![<<0, k>>] = String(1)], n |-> 1, db |-> In(0, 0, 0), writes |-> 3,
     depth |-> 1, faults |-> {"reject"},
     commands |-> In({On("watch", k), On("watch", l), Do("multi"), On("read", k), On("set", l),
                      Do("exec"), Do("discard"), Do("unwatch")},
                     {On("set", k), On("expire", k), Do("flushall"), Rename(k, l),
                      On("watch", l), Do("multi"), Do("exec")},
                     {On("read", k)})]

\* A client in the default mode with NOLOOP, one that switches modes, one that writes.
Caching ==
    [data |-> [Empty EXCEPT ![<<0, k>>] = String(1)], n |-> 1, db |-> In(0, 0, 0), writes |-> 3,
     depth |-> 2, faults |-> {"close"},
     commands |-> In({Track("default", TRUE), On("read", k), On("read", l), On("set", k)},
                     {Track("bcast", FALSE), Track("default", FALSE), Do("untrack"),
                      On("read", k), On("read", l), On("set", k)},
                     {On("set", l), On("expire", k), On("del", k), Do("flushall"),
                      Rename(l, k)})]

mcWorlds == {Blocking, WrongType, Swapping, Watching, Caching}
mcDatabases == {0, 1}
=============================================================================
