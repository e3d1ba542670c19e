------------------------------- MODULE Dict --------------------------------
(***************************************************************************)
(* The hash table of dict.c: two chained tables, moved bucket by bucket     *)
(* from the first to the second by the calls that use the dictionary and    *)
(* by the server's cron (server.c), safe iterators, during which no bucket  *)
(* moves, and the stateless cursor of dictScan, whose caller comes back     *)
(* with it after the tables have grown, shrunk or moved any number of       *)
(* times.                                                                   *)
(*                                                                         *)
(* A chain is the set of its keys: the order inside a chain, which only an  *)
(* iterator sees, is left open.                                             *)
(*                                                                         *)
(* The thresholds are constants, so that small tables resize: the code has  *)
(* InitialSize 4, ForceRatio 5, MinFill 10, EmptyVisits 10, CronSteps 100   *)
(* and cursors of 64 bits.                                                  *)
(*                                                                         *)
(* Mutants, each a wrong version of the definition that follows it and used *)
(* by nothing else: IgnoresIterators, ForgetsSecond, ScansOneBucket,        *)
(* OnlyResizes.                                                             *)
(***************************************************************************)
EXTENDS Naturals, FiniteSets, FiniteSetsExt

CONSTANTS
    Key,          \* the keys
    None,         \* the NULL entry
    InitialSize,  \* DICT_HT_INITIAL_SIZE
    ForceRatio,   \* dict_force_resize_ratio
    MinFill,      \* HASHTABLE_MIN_FILL, a percentage
    EmptyVisits,  \* the empty buckets dictRehash visits for each step asked
    CronSteps,    \* the steps dictRehashMilliseconds asks for
    CursorBits,   \* bits of the cursor of dictScan
    Worlds        \* the hash functions and users to check, see world

\* What a safe iterator may be.
Iterators ==
    [table : {0, 1}, index : Nat \cup {None}, entry : Key \cup {None},
     next : SUBSET Key, missing : SUBSET Key, seen : SUBSET Key]

ASSUME DictAssumption ==
    /\ None \notin Key \cup Nat \cup Iterators
    /\ {InitialSize, EmptyVisits, CronSteps, CursorBits} \subseteq Nat \ {0}
    /\ {ForceRatio, MinFill} \subseteq Nat
    /\ \A w \in Worlds : /\ DOMAIN w.hash \subseteq Key /\ w.hash \in [DOMAIN w.hash -> Nat]
                        /\ {w.scan, w.iterate} \subseteq BOOLEAN /\ w.forks \in Nat

VARIABLES
    d,        \* the dictionary: ht, rehashidx (-1 is stored as None), iterators
    child,    \* on: a child process is active, dict_can_resize is 0; left: forks to come
    answer,   \* the last call and what it returned
    iter,     \* the open safe iterator, or None
    scan,     \* the client's scan, or None
    world     \* one of Worlds: hash (of the keys used), whether some client scans or some
              \* command iterates, and how many children there will be

vars == <<d, child, answer, iter, scan, world>>

-----------------------------------------------------------------------------
(* The tables.                                                              *)

\* _dictReset.
EmptyTable == [size |-> 0, used |-> 0, table |-> <<>>]

NewTable(n) == [size |-> n, used |-> 0, table |-> [i \in 0 .. n - 1 |-> {}]]

Bucket(t, k) == world.hash[k] % t.size

Holds(t, k) == t.size > 0 /\ k \in t.table[Bucket(t, k)]

Insert(t, k) == [t EXCEPT !.used = @ + 1, !.table[Bucket(t, k)] = @ \cup {k}]

Unlink(t, k) == [t EXCEPT !.used = @ - 1, !.table[Bucket(t, k)] = @ \ {k}]

KeysOf(t) == UNION {t.table[i] : i \in DOMAIN t.table}

Keys == KeysOf(d.ht[0]) \cup KeysOf(d.ht[1])

dictIsRehashing(e) == e.rehashidx # None
dictSize(e) == e.ht[0].used + e.ht[1].used

\* _dictNextPower: InitialSize, doubled once for every size it finds too small.
NextPower(n) == InitialSize * 2 ^ Cardinality({i \in 0 .. n : InitialSize * 2 ^ i < n})

\* dictExpand returns DICT_ERR.
CannotExpand(e, n) ==
    dictIsRehashing(e) \/ e.ht[0].used > n \/ NextPower(n) = e.ht[0].size

dictExpand(e, n) ==
    IF CannotExpand(e, n) THEN e
    ELSE IF e.ht[0].size = 0 THEN [e EXCEPT !.ht[0] = NewTable(NextPower(n))]
    ELSE [e EXCEPT !.ht[1] = NewTable(NextPower(n)), !.rehashidx = 0]

\* _dictExpandIfNeeded: the size to expand to, when it is time to.
ExpandIfNeeded(e) ==
    IF e.ht[0].size = 0 THEN dictExpand(e, InitialSize)
    ELSE IF ~dictIsRehashing(e) /\ e.ht[0].used >= e.ht[0].size
            /\ (~child.on \/ e.ht[0].used \div e.ht[0].size > ForceRatio)
    THEN dictExpand(e, e.ht[0].used * 2)
    ELSE e

-----------------------------------------------------------------------------
(* Incremental rehashing.                                                   *)

\* The buckets of the first table not visited yet, empty ones and others.
Unvisited(e, empty) ==
    {i \in DOMAIN e.ht[0].table : i >= e.rehashidx /\ (e.ht[0].table[i] = {}) = empty}

Below(s, j) == Cardinality({i \in s : i < j})

\* The buckets n turns of dictRehash leave behind, empty or moved: as far as
\* some entry is left to move, fewer than n buckets were moved before and fewer
\* than n * EmptyVisits were found empty.
Visited(e, n) ==
    {i \in DOMAIN e.ht[0].table :
        /\ i >= e.rehashidx /\ \E j \in Unvisited(e, FALSE) : i <= j
        /\ Below(Unvisited(e, FALSE), i) < n
        /\ Below(Unvisited(e, TRUE), i) < n * EmptyVisits}

\* The entries ks are linked into their chains of table t.
MoveInto(t, ks) ==
    [t EXCEPT !.used = @ + Cardinality(ks),
              !.table = [b \in DOMAIN t.table |->
                           t.table[b] \cup {k \in ks : Bucket(t, k) = b}]]

\* dictRehash(d, n): n turns, then the second table replaces the first one
\* if that is empty.
dictRehash(e, n) ==
    LET m == Visited(e, n)
        ks == UNION {e.ht[0].table[j] : j \in m}
        left == e.ht[0].used - Cardinality(ks)
    IN  IF ~dictIsRehashing(e) THEN e
        ELSE IF left = 0
        THEN [e EXCEPT !.ht = [i \in 0 .. 1 |-> IF i = 0 THEN MoveInto(e.ht[1], ks) ELSE EmptyTable],
                       !.rehashidx = None]
        ELSE [e EXCEPT !.ht[0].used = left,
                       !.ht[0].table = [j \in DOMAIN @ |-> IF j \in m THEN {} ELSE @[j]],
                       !.ht[1] = MoveInto(@, ks),
                       !.rehashidx = @ + Cardinality(m)]

\* Mutant of RehashStep: buckets move under a safe iterator.
IgnoresIterators(e) == dictRehash(e, 1)

\* _dictRehashStep.
RehashStep(e) == IF e.iterators = 0 THEN dictRehash(e, 1) ELSE e

-----------------------------------------------------------------------------
(* The calls.  A command runs to its end before the event loop goes on: what *)
(* happens while an iterator is open is done by the command that opened it.  *)

NoIterator == iter = None

\* The histories of an iteration and of a scan: of the keys there since it
\* began, those not returned yet and, for an iteration, those returned.  A key
\* deleted meanwhile is forgotten.
Forget(h, ks) ==
    IF h = None THEN None ELSE [h EXCEPT !.missing = @ \ ks, !.seen = @ \ ks]

Answer(c, ok) == answer' = [call |-> c, ok |-> ok]

\* The search of dictFind, _dictKeyIndex and dictGenericDelete: the second
\* table counts only while rehashing.
Lookup(e, k) == {i \in IF dictIsRehashing(e) THEN {0, 1} ELSE {0} : Holds(e.ht[i], k)}

\* The end of dictAddRaw: new entries go to the table that will stay.
AddRaw(e, k) == [e EXCEPT !.ht[IF dictIsRehashing(e) THEN 1 ELSE 0] = Insert(@, k)]

\* dictAdd (dictAddRaw, dictReplace, dictAddOrFind): a rehashing step, then
\* _dictKeyIndex expands the table if needed and looks for the key.
dictAdd(k) ==
    LET e == ExpandIfNeeded(RehashStep(d)) IN
    /\ d' = IF Lookup(e, k) = {} THEN AddRaw(e, k) ELSE e
    /\ Answer("add", Lookup(e, k) = {})
    /\ UNCHANGED <<child, iter, scan, world>>

\* dictGenericDelete: the first table is searched first.  While iterating,
\* callers delete only the entry that was returned last.
dictDelete(k) ==
    LET e == IF dictSize(d) = 0 THEN d ELSE RehashStep(d) IN
    /\ ~NoIterator => k = iter.entry
    /\ d' = IF Lookup(e, k) = {} THEN e
            ELSE [e EXCEPT !.ht[Min(Lookup(e, k))] = Unlink(@, k)]
    /\ Answer("delete", Lookup(e, k) # {})
    /\ iter' = Forget(iter, {k}) /\ scan' = Forget(scan, {k})
    /\ UNCHANGED <<child, world>>

\* Mutant of FindIn: keys already moved are not found.
ForgetsSecond(e, k) == 0 \in Lookup(e, k)

FindIn(e, k) == Lookup(e, k) # {}

dictFind(k) ==
    LET e == IF dictSize(d) = 0 THEN d ELSE RehashStep(d) IN
    /\ d' = e
    /\ Answer("find", FindIn(e, k))
    /\ UNCHANGED <<child, iter, scan, world>>

\* The buckets dictGetRandomKey draws from: rehashidx and up of the first
\* table, and all of the second one.
Candidates(e) ==
    KeysOf(e.ht[1]) \cup
    UNION {e.ht[0].table[i] : i \in
             {j \in DOMAIN e.ht[0].table : dictIsRehashing(e) => j >= e.rehashidx}}

\* dictGetRandomKey: it draws until it meets a bucket that is not empty.
dictGetRandomKey ==
    LET e == IF dictSize(d) = 0 THEN d ELSE RehashStep(d) IN
    /\ NoIterator
    /\ d' = e
    /\ dictSize(d) = 0 \/ Candidates(e) # {}
    /\ Answer("random", dictSize(d) # 0)
    /\ UNCHANGED <<child, iter, scan, world>>

\* dictEmpty (FLUSHDB): both tables are cleared and rehashing is over.
dictEmpty ==
    /\ NoIterator
    /\ d' = [ht |-> [i \in 0 .. 1 |-> EmptyTable], rehashidx |-> None, iterators |-> 0]
    /\ Answer("empty", TRUE)
    /\ scan' = Forget(scan, Keys)
    /\ UNCHANGED <<child, iter, world>>

-----------------------------------------------------------------------------
(* Safe iterators.                                                          *)

\* dictGetSafeIterator and the first dictNext, which counts the iterator.
dictGetSafeIterator ==
    /\ NoIterator /\ world.iterate
    /\ iter' = [table |-> 0, index |-> None, entry |-> None, next |-> {},
                missing |-> Keys, seen |-> {}]
    /\ d' = [d EXCEPT !.iterators = @ + 1]
    /\ UNCHANGED <<child, answer, scan, world>>

\* The entries after the current one, bucket by bucket: the buckets that
\* follow in its table, then the second table if there is one.
Ahead ==
    LET Rest(i) == {<<i, j>> : j \in {x \in DOMAIN d.ht[i].table :
                       /\ d.ht[i].table[x] # {}
                       /\ i = iter.table /\ iter.index # None => x > iter.index}}
    IN  IF iter.table = 0 /\ dictIsRehashing(d) THEN Rest(0) \cup Rest(1) ELSE Rest(iter.table)

First(ps) == CHOOSE p \in ps : \A q \in ps : p[1] < q[1] \/ (p[1] = q[1] /\ p[2] <= q[2])

\* dictNext: the next entry of the chain, or else the head of the next bucket
\* that is not empty; at the end the caller releases the iterator.  What
\* follows in the chain is saved: a new entry comes before it.
dictNext ==
    /\ ~NoIterator
    /\ LET inChain == iter.next # {}
           p == IF inChain THEN <<iter.table, iter.index>> ELSE First(Ahead)
           rest == IF inChain THEN iter.next ELSE d.ht[p[1]].table[p[2]]
       IN  IF inChain \/ Ahead # {}
           THEN /\ \E k \in rest :
                     iter' = [iter EXCEPT !.table = p[1], !.index = p[2], !.entry = k,
                                          !.next = rest \ {k}, !.missing = @ \ {k},
                                          !.seen = IF k \in iter.missing THEN @ \cup {k} ELSE @]
                /\ d' = d
           ELSE /\ iter' = None
                /\ d' = [d EXCEPT !.iterators = @ - 1]
    /\ UNCHANGED <<child, answer, scan, world>>

-----------------------------------------------------------------------------
(* The cursor of dictScan.                                                  *)

Cursors == 0 .. 2 ^ CursorBits - 1

\* Bit i of v, and the value with the bits of v in the opposite order.
Bit(v, i) == (v \div 2 ^ i) % 2

rev == [v \in Cursors |->
          SumSet({Bit(v, i) * 2 ^ (CursorBits - 1 - i) : i \in 0 .. CursorBits - 1})]

\* v |= ~mask; v = rev(v); v++; v = rev(v).
Increment(v, size) ==
    rev[(rev[(v % size) + (2 ^ CursorBits - size)] + 1) % 2 ^ CursorBits]

\* The loop over the buckets of the larger table that the bucket of the
\* smaller one expands to: <<next cursor, keys emitted>>.
Expansions(small, large, v) ==
    LET Visit(r) == <<Increment(r[1], large.size), r[2] \cup large.table[r[1] % large.size]>>
        Run[i \in 1 .. large.size] ==
            IF i = 1 THEN Visit(<<v, {}>>)
            ELSE LET r == Run[i - 1]
                 IN  IF (r[1] % large.size) \div small.size = 0 THEN r ELSE Visit(r)
    IN  Run[large.size]

\* Mutant of dictScan: while rehashing, only the smaller table is visited.
ScansOneBucket(v) ==
    LET small == IF dictIsRehashing(d) /\ d.ht[1].size < d.ht[0].size THEN d.ht[1] ELSE d.ht[0]
    IN  IF dictSize(d) = 0 THEN <<0, {}>>
        ELSE <<Increment(v, small.size), small.table[v % small.size]>>

\* dictScan: the next cursor and the keys emitted.
dictScan(v) ==
    LET second == dictIsRehashing(d) /\ d.ht[1].size < d.ht[0].size
        small == IF second THEN d.ht[1] ELSE d.ht[0]
        large == IF second THEN d.ht[0] ELSE d.ht[1]
        emitted == small.table[v % small.size]
        rest == Expansions(small, large, v)
    IN  IF dictSize(d) = 0 THEN <<0, {}>>
        ELSE IF dictIsRehashing(d) THEN <<rest[1], emitted \cup rest[2]>>
        ELSE <<Increment(v, small.size), emitted>>

\* The client got the cursor 0: the scan is over.
ScanOver == scan # None /\ scan.cursor = 0

\* scanGenericCommand with COUNT 1: call dictScan until it returns a key or
\* the cursor 0 (its limit of 10 calls is more than the buckets of the
\* tables checked here).  A scan starts with the cursor 0.
scanGenericCommand ==
    /\ NoIterator /\ world.scan /\ ~ScanOver
    /\ LET Call[i \in 1 .. 2 ^ CursorBits] ==
               IF i = 1 THEN dictScan(IF scan = None THEN 0 ELSE scan.cursor)
               ELSE LET r == Call[i - 1] IN IF r[1] = 0 \/ r[2] # {} THEN r ELSE dictScan(r[1])
           c == Call[2 ^ CursorBits]
           missing == IF scan = None THEN Keys ELSE scan.missing
       IN  scan' = [cursor |-> c[1], missing |-> missing \ c[2], seen |-> {}]
    /\ UNCHANGED <<d, child, answer, iter, world>>

ScanEnds ==
    /\ ScanOver /\ NoIterator
    /\ scan' = None
    /\ UNCHANGED <<d, child, answer, iter, world>>

-----------------------------------------------------------------------------
(* The server's cron and its children.                                      *)

\* htNeedsResize and dictResize (tryResizeHashTables).
Resized(e) ==
    LET slots == e.ht[0].size + e.ht[1].size IN
    IF slots > InitialSize /\ (dictSize(e) * 100) \div slots < MinFill
    THEN dictExpand(e, Max({e.ht[0].used, InitialSize}))
    ELSE e

\* Mutant of Maintained: a server that is not used does not rehash.
OnlyResizes(e) == Resized(e)

\* tryResizeHashTables, then incrementallyRehash, whose rounds of CronSteps
\* end when its millisecond is over: more rounds are more steps of this kind.
Maintained(e) == dictRehash(Resized(e), CronSteps)

databasesCron ==
    /\ NoIterator /\ ~child.on
    /\ d' = Maintained(d)
    /\ UNCHANGED <<child, answer, iter, scan, world>>

\* A child starts or ends: updateDictResizePolicy.
Fork ==
    /\ NoIterator /\ ~child.on /\ child.left > 0
    /\ child' = [on |-> TRUE, left |-> child.left - 1]
    /\ UNCHANGED <<d, answer, iter, scan, world>>

ChildEnds ==
    /\ NoIterator /\ child.on
    /\ child' = [child EXCEPT !.on = FALSE]
    /\ UNCHANGED <<d, answer, iter, scan, world>>

-----------------------------------------------------------------------------
Init ==
    /\ d = [ht |-> [i \in 0 .. 1 |-> EmptyTable], rehashidx |-> None, iterators |-> 0]
    /\ world \in Worlds
    /\ child = [on |-> FALSE, left |-> world.forks]
    /\ answer = [call |-> "none", ok |-> TRUE]
    /\ iter = None /\ scan = None

Next ==
    \/ \E k \in DOMAIN world.hash : dictAdd(k) \/ dictDelete(k) \/ dictFind(k)
    \/ dictGetRandomKey \/ dictEmpty
    \/ dictGetSafeIterator \/ dictNext
    \/ scanGenericCommand \/ ScanEnds
    \/ databasesCron \/ Fork \/ ChildEnds

Spec == Init /\ [][Next]_vars

\* The event loop runs the timer again and again between commands (strong
\* fairness: it is the commands that iterate which disable it), children end,
\* and a command that iterates comes to its end.
LiveSpec == Spec /\ SF_vars(databasesCron) /\ SF_vars(ChildEnds) /\ WF_vars(dictNext)

-----------------------------------------------------------------------------
(* Properties.                                                              *)

Set == INSTANCE KeySet WITH keys <- Keys

\* The two tables, in whatever state of rehashing, are one set: every call
\* answers for it, and resizing, rehashing and iterating never change it.
ImplementsSet == Set!Spec

\* Between two calls every key is in one place, in the bucket of its hash, the
\* counters are right, the buckets before rehashidx are empty (which
\* dictGetRandomKey, dictRehash and dictFind rely on) and there is no second
\* table unless rehashing.
TablesConsistent ==
    /\ KeysOf(d.ht[0]) \cap KeysOf(d.ht[1]) = {}
    /\ \A i \in 0 .. 1 :
         /\ d.ht[i].used = Cardinality(KeysOf(d.ht[i]))
         /\ \A b \in DOMAIN d.ht[i].table : \A k \in d.ht[i].table[b] : Bucket(d.ht[i], k) = b
    /\ IF dictIsRehashing(d)
       THEN \A b \in DOMAIN d.ht[0].table : b < d.rehashidx => d.ht[0].table[b] = {}
       ELSE d.ht[1] = EmptyTable

\* A safe iterator returns every key that is there from its first step to its
\* last exactly once, although keys are added and deleted and the table grows
\* meanwhile.
IteratedOnce ==
    iter # None =>
      IF iter' = None THEN iter.missing = {}
      ELSE iter'.entry # iter.entry => iter'.entry \notin iter.seen

\* A scan returns every key that is there from its first call to its last,
\* although the tables grow, shrink and move between its calls.
ScanComplete == ScanOver => scan.missing = {}

\* Every call of a scan brings it nearer to its end, in the order of the
\* reversed cursor, whatever the tables do: a scan cannot go on for ever.
ScanAdvances ==
    scan # None /\ scan' # None /\ scan'.cursor # scan.cursor
      => scan'.cursor = 0 \/ rev[scan'.cursor] > rev[scan.cursor]

\* A rehashing that started comes to its end, also when nobody uses the
\* dictionary any more.
RehashEnds == []<>(~dictIsRehashing(d))

\* No key is out of reach: not of a lookup, which relies on the shape of the
\* tables, nor of a safe iterator, whatever the other calls do in between.
KeysInReach == []TablesConsistent /\ [][IteratedOnce]_vars

\* A scan that ends has missed no key, and one that goes on is nearer to its
\* end, whatever the other calls have done to the tables since its last step.
ScansSound == [][ScanComplete' /\ ScanAdvances]_vars
=============================================================================
