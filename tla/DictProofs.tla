----------------------------- MODULE DictProofs -----------------------------
(***************************************************************************)
(* Proofs about the hash table (Dict): the two tables, in whatever state of *)
(* rehashing, are well formed and implement a set (KeySet), and a safe      *)
(* iterator returns every key once, for any keys, hash function, thresholds *)
(* and number of calls.                                                     *)
(***************************************************************************)
EXTENDS Dict, FiniteSetTheorems, WellFoundedInduction, TLAPS

(***************************************************************************)
(* The inductive invariant, of a dictionary e whose keys have the hashes h. *)
(***************************************************************************)
Arrays(h) == UNION {[0 .. n - 1 -> SUBSET DOMAIN h] : n \in Nat}

Tables(h) == [size : Nat, used : Nat, table : Arrays(h)]

\* Every key of a table is in the bucket of its hash, and used counts them.
Chained(h, t) ==
    /\ t \in Tables(h)
    /\ t.table \in [0 .. t.size - 1 -> SUBSET DOMAIN h]
    /\ \A b \in 0 .. t.size - 1 : \A k \in t.table[b] : h[k] % t.size = b
    /\ IsFiniteSet(KeysOf(t)) /\ t.used = Cardinality(KeysOf(t))

\* The keys of both tables.
AllKeys(e) == KeysOf(e.ht[0]) \cup KeysOf(e.ht[1])

\* The second table is used exactly while rehashing, and rehashing has left
\* nothing behind rehashidx.
Rehashing(e) ==
    /\ e.rehashidx = None => e.ht[1] = EmptyTable
    /\ e.rehashidx # None =>
         /\ e.ht[1].size > 0
         /\ \A b \in 0 .. e.ht[0].size - 1 : b < e.rehashidx => e.ht[0].table[b] = {}

WellFormed(h, e) ==
    /\ e \in [ht : [0 .. 1 -> Tables(h)], rehashidx : Nat \cup {None}, iterators : Int]
    /\ Chained(h, e.ht[0]) /\ Chained(h, e.ht[1])
    /\ KeysOf(e.ht[0]) \cap KeysOf(e.ht[1]) = {}
    /\ Rehashing(e)

IInv ==
    /\ world \in Worlds
    /\ WellFormed(world.hash, d)

-----------------------------------------------------------------------------
(* Arithmetic.                                                              *)

LEMMA PowerPositive ==
    ASSUME NEW n \in Nat
    PROVE  2 ^ n \in Nat \ {0}
<1>1. IsFiniteSet(1 .. n) /\ Cardinality(1 .. n) = n
  BY FS_Interval
<1>2. IsFiniteSet(SUBSET (1 .. n)) /\ Cardinality(SUBSET (1 .. n)) = 2 ^ n
  BY <1>1, FS_SUBSET
<1>3. SUBSET (1 .. n) # {}
  OBVIOUS
<1> QED  BY <1>2, <1>3, FS_CardinalityType, FS_EmptySet

LEMMA NextPowerPositive ==
    ASSUME NEW n \in Nat
    PROVE  NextPower(n) \in Nat \ {0}
<1> DEFINE c == Cardinality({i \in 0 .. n : InitialSize * 2 ^ i < n})
<1>1. c \in Nat
  <2>1. IsFiniteSet(0 .. n)  BY FS_Interval
  <2> QED  BY <2>1, FS_Subset, FS_CardinalityType
<1>2. InitialSize \in Nat \ {0}
  BY DictAssumption
<1>3. 2 ^ c \in Nat \ {0}
  BY <1>1, PowerPositive
<1> DEFINE p == 2 ^ c
<1>4. NextPower(n) = InitialSize * p
  BY DEF NextPower
<1> HIDE DEF p, c
<1> QED  BY <1>2, <1>3, <1>4 DEF p

LEMMA BucketInRange ==
    ASSUME NEW x \in Nat, NEW n \in Nat \ {0}
    PROVE  x % n \in 0 .. n - 1
  OBVIOUS

-----------------------------------------------------------------------------
(* One table.                                                               *)

LEMMA EmptyTableChained ==
    ASSUME NEW h
    PROVE  Chained(h, EmptyTable) /\ KeysOf(EmptyTable) = {}
<1>1. EmptyTable.size = 0 /\ EmptyTable.used = 0 /\ EmptyTable.table = <<>>
  BY DEF EmptyTable
<1>2. EmptyTable.table \in [0 .. 0 - 1 -> SUBSET DOMAIN h]
  BY <1>1
<1>3. EmptyTable.table \in Arrays(h)
  BY <1>2 DEF Arrays
<1>4. EmptyTable \in Tables(h)
  BY <1>3 DEF EmptyTable, Tables
<1>5. KeysOf(EmptyTable) = {}
  BY <1>1 DEF KeysOf
<1> QED  BY <1>1, <1>2, <1>4, <1>5, FS_EmptySet DEF Chained

LEMMA NewTableChained ==
    ASSUME NEW h, NEW n \in Nat
    PROVE  /\ Chained(h, NewTable(n)) /\ KeysOf(NewTable(n)) = {}
           /\ NewTable(n).size = n
<1> DEFINE t == NewTable(n)
<1>1. t.size = n /\ t.used = 0 /\ t.table = [i \in 0 .. n - 1 |-> {}]
  BY DEF NewTable
<1>2. t.table \in [0 .. n - 1 -> SUBSET DOMAIN h]
  BY <1>1
<1>3. t.table \in Arrays(h)
  BY <1>2 DEF Arrays
<1>4. t \in Tables(h)
  BY <1>3 DEF NewTable, Tables
<1>5. KeysOf(t) = {}
  BY <1>1 DEF KeysOf
<1> HIDE DEF t
<1>6. Chained(h, t)
  BY <1>1, <1>2, <1>4, <1>5, FS_EmptySet DEF Chained
<1> QED  BY <1>1, <1>5, <1>6 DEF t

LEMMA KeyInBucket ==
    ASSUME NEW h, NEW t, Chained(h, t), h \in [DOMAIN h -> Nat], NEW k \in DOMAIN h
    PROVE  /\ k \in KeysOf(t) <=> t.size > 0 /\ k \in t.table[h[k] % t.size]
           /\ t.size > 0 => h[k] % t.size \in 0 .. t.size - 1
<1>1. t.size \in Nat /\ DOMAIN t.table = 0 .. t.size - 1
  BY DEF Chained, Tables
<1>2. t.size > 0 => h[k] % t.size \in 0 .. t.size - 1
  BY <1>1, BucketInRange, SMTT(30)
<1>3. ASSUME k \in KeysOf(t)
      PROVE  t.size > 0 /\ k \in t.table[h[k] % t.size]
  <2>1. PICK b \in 0 .. t.size - 1 : k \in t.table[b]
    BY <1>1, <1>3 DEF KeysOf
  <2>2. h[k] % t.size = b
    BY <2>1 DEF Chained
  <2> QED  BY <1>1, <2>1, <2>2
<1> QED  BY <1>1, <1>2, <1>3 DEF KeysOf

\* The buckets f of a table of size n hold the keys K, each in its bucket.
Spread(h, n, f, K) ==
    /\ f \in [0 .. n - 1 -> SUBSET DOMAIN h]
    /\ \A b \in 0 .. n - 1 : \A k \in f[b] : h[k] % n = b
    /\ \A k : k \in K <=> \E b \in 0 .. n - 1 : k \in f[b]

TableOf(n, u, f) == [size |-> n, used |-> u, table |-> f]

LEMMA SpreadChained ==
    ASSUME NEW h, NEW n \in Nat, NEW f, NEW K, Spread(h, n, f, K), IsFiniteSet(K)
    PROVE  Chained(h, TableOf(n, Cardinality(K), f)) /\ KeysOf(TableOf(n, Cardinality(K), f)) = K
<1> DEFINE u == Cardinality(K)
           r == TableOf(n, u, f)
<1>1. u \in Nat
  BY FS_CardinalityType
<1>2. r.size = n /\ r.used = u /\ r.table = f
  BY DEF TableOf
<1>3. f \in Arrays(h)
  BY DEF Arrays, Spread
<1>4. r \in Tables(h)
  BY <1>1, <1>3 DEF Tables, TableOf
<1>5. KeysOf(r) = K
  BY <1>2 DEF KeysOf, Spread
<1> HIDE DEF r
<1>6. Chained(h, r)
  BY <1>2, <1>4, <1>5 DEF Chained, Spread
<1> QED  BY <1>5, <1>6 DEF r

LEMMA InsertChained ==
    ASSUME NEW t, Chained(world.hash, t), world.hash \in [DOMAIN world.hash -> Nat],
           NEW k \in DOMAIN world.hash, k \notin KeysOf(t), t.size > 0
    PROVE  /\ Chained(world.hash, Insert(t, k))
           /\ KeysOf(Insert(t, k)) = KeysOf(t) \cup {k}
           /\ Insert(t, k).size = t.size
<1> DEFINE h == world.hash
           c == h[k] % t.size
           f == [t.table EXCEPT ![c] = @ \cup {k}]
           K == KeysOf(t) \cup {k}
           u == t.used + 1
<1>1. t \in Tables(h) /\ t.size \in Nat /\ t.used \in Nat /\ t.table \in [0 .. t.size - 1 -> SUBSET DOMAIN h]
  BY DEF Chained, Tables
<1>2. c \in 0 .. t.size - 1
  BY KeyInBucket
<1>3. Insert(t, k) = TableOf(t.size, u, f)
  <2>1. t = [size |-> t.size, used |-> t.used, table |-> t.table]
    BY <1>1 DEF Tables
  <2>2. Insert(t, k) = [t EXCEPT !.used = t.used + 1, !.table = f]
    BY <2>1 DEF Insert, Bucket
  <2> QED  BY <2>1, <2>2 DEF TableOf
<1>4. f \in [0 .. t.size - 1 -> SUBSET DOMAIN h]
  BY <1>1
<1>5. \A b \in 0 .. t.size - 1 : \A x \in f[b] : h[x] % t.size = b
  BY <1>1, <1>2 DEF Chained
<1>6. \A x : x \in K <=> \E b \in 0 .. t.size - 1 : x \in f[b]
  BY <1>1, <1>2 DEF KeysOf
<1>7. IsFiniteSet(K) /\ u = Cardinality(K)
  BY FS_AddElement DEF Chained
<1> HIDE DEF f, h, K, u
<1>8. Chained(h, Insert(t, k)) /\ KeysOf(Insert(t, k)) = K
  <2>1. Spread(h, t.size, f, K)
    BY <1>4, <1>5, <1>6 DEF Spread
  <2> QED  BY <1>1, <1>3, <1>7, <2>1, SpreadChained
<1> QED  BY <1>3, <1>8 DEF h, K, TableOf

LEMMA UnlinkChained ==
    ASSUME NEW t, Chained(world.hash, t), world.hash \in [DOMAIN world.hash -> Nat],
           NEW k \in DOMAIN world.hash, k \in KeysOf(t)
    PROVE  /\ Chained(world.hash, Unlink(t, k))
           /\ KeysOf(Unlink(t, k)) = KeysOf(t) \ {k}
           /\ Unlink(t, k).size = t.size
           /\ \A b \in 0 .. t.size - 1 : Unlink(t, k).table[b] \subseteq t.table[b]
<1> DEFINE h == world.hash
           c == h[k] % t.size
           f == [t.table EXCEPT ![c] = @ \ {k}]
           K == KeysOf(t) \ {k}
           u == t.used - 1
<1>1. t \in Tables(h) /\ t.size \in Nat /\ t.used \in Nat /\ t.table \in [0 .. t.size - 1 -> SUBSET DOMAIN h]
  BY DEF Chained, Tables
<1>2. t.size > 0 /\ c \in 0 .. t.size - 1
  BY KeyInBucket
<1>3. Unlink(t, k) = TableOf(t.size, u, f)
  <2>1. t = [size |-> t.size, used |-> t.used, table |-> t.table]
    BY <1>1 DEF Tables
  <2>2. Unlink(t, k) = [t EXCEPT !.used = t.used - 1, !.table = f]
    BY <2>1 DEF Unlink, Bucket
  <2> QED  BY <2>1, <2>2 DEF TableOf
<1>4. f \in [0 .. t.size - 1 -> SUBSET DOMAIN h]
  BY <1>1
<1>5. \A b \in 0 .. t.size - 1 : \A x \in f[b] : h[x] % t.size = b
  BY <1>1, <1>2 DEF Chained
<1>6. \A x : x \in K <=> \E b \in 0 .. t.size - 1 : x \in f[b]
  <2>1. ASSUME NEW x, x \in KeysOf(t), x # k
        PROVE  \E b \in 0 .. t.size - 1 : x \in f[b]
    BY <1>1, <1>2, <2>1 DEF KeysOf
  <2>2. ASSUME NEW b \in 0 .. t.size - 1, NEW x \in f[b]
        PROVE  x \in KeysOf(t) \ {k}
    <3>1. x \in t.table[b]  BY <1>1, <1>2, <2>2
    <3>2. x # k
      BY <1>1, <1>2, <2>2, <3>1 DEF Chained
    <3> QED  BY <1>1, <3>1, <3>2 DEF KeysOf
  <2> QED  BY <2>1, <2>2
<1>7. IsFiniteSet(K) /\ u = Cardinality(K)
  BY FS_RemoveElement DEF Chained
<1>8. \A b \in 0 .. t.size - 1 : f[b] \subseteq t.table[b]
  BY <1>1, <1>2
<1> HIDE DEF f, h, K, u
<1>9. Chained(h, Unlink(t, k)) /\ KeysOf(Unlink(t, k)) = K
  <2>1. Spread(h, t.size, f, K)
    BY <1>4, <1>5, <1>6 DEF Spread
  <2> QED  BY <1>1, <1>3, <1>7, <2>1, SpreadChained
<1> QED  BY <1>3, <1>8, <1>9 DEF h, K, TableOf

LEMMA MoveIntoChained ==
    ASSUME NEW t, Chained(world.hash, t), world.hash \in [DOMAIN world.hash -> Nat],
           NEW ks \in SUBSET DOMAIN world.hash, IsFiniteSet(ks),
           ks \cap KeysOf(t) = {}, t.size > 0
    PROVE  /\ Chained(world.hash, MoveInto(t, ks))
           /\ KeysOf(MoveInto(t, ks)) = KeysOf(t) \cup ks
           /\ MoveInto(t, ks).size = t.size
<1> DEFINE h == world.hash
           f == [b \in DOMAIN t.table |-> t.table[b] \cup {k \in ks : h[k] % t.size = b}]
           K == KeysOf(t) \cup ks
           u == t.used + Cardinality(ks)
<1>1. t \in Tables(h) /\ t.size \in Nat /\ t.used \in Nat /\ t.table \in [0 .. t.size - 1 -> SUBSET DOMAIN h]
  BY DEF Chained, Tables
<1>2. \A k \in ks : h[k] % t.size \in 0 .. t.size - 1
  BY KeyInBucket
<1>3. MoveInto(t, ks) = TableOf(t.size, u, f)
  <2>1. t = [size |-> t.size, used |-> t.used, table |-> t.table]
    BY <1>1 DEF Tables
  <2>2. MoveInto(t, ks) = [t EXCEPT !.used = u, !.table = f]
    BY <2>1 DEF MoveInto, Bucket
  <2> QED  BY <2>1, <2>2 DEF TableOf
<1>4. f \in [0 .. t.size - 1 -> SUBSET DOMAIN h]
  BY <1>1
<1>5. \A b \in 0 .. t.size - 1 : \A x \in f[b] : h[x] % t.size = b
  BY <1>1, <1>2 DEF Chained
<1>6. \A x : x \in K <=> \E b \in 0 .. t.size - 1 : x \in f[b]
  <2>1. \A x : x \in KeysOf(t) <=> \E b \in 0 .. t.size - 1 : x \in t.table[b]
    BY <1>1 DEF KeysOf
  <2>2. \A b \in 0 .. t.size - 1 : \A x : x \in f[b] <=> x \in t.table[b] \/ (x \in ks /\ h[x] % t.size = b)
    BY <1>1
  <2> QED  BY <1>2, <2>1, <2>2
<1>7. IsFiniteSet(K) /\ u = Cardinality(K)
  <2>1. KeysOf(t) \cap ks = {}
    OBVIOUS
  <2>2. IsFiniteSet(KeysOf(t)) /\ t.used = Cardinality(KeysOf(t))
    BY DEF Chained
  <2>3. IsFiniteSet(K) /\ Cardinality(K) = t.used + Cardinality(ks) - Cardinality({})
    BY <2>1, <2>2, FS_Union
  <2>4. Cardinality({}) = 0 /\ Cardinality(ks) \in Nat
    BY FS_EmptySet, FS_CardinalityType
  <2> HIDE DEF K
  <2> QED  BY <1>1, <2>3, <2>4
<1> HIDE DEF f, h, K, u
<1>8. Chained(h, MoveInto(t, ks)) /\ KeysOf(MoveInto(t, ks)) = K
  <2>1. Spread(h, t.size, f, K)
    BY <1>4, <1>5, <1>6 DEF Spread
  <2> QED  BY <1>1, <1>3, <1>7, <2>1, SpreadChained
<1> QED  BY <1>3, <1>8 DEF h, K, TableOf

\* The buckets m of a table are emptied.
Cleared(t, m) == [j \in DOMAIN t.table |-> IF j \in m THEN {} ELSE t.table[j]]

LEMMA ClearedChained ==
    ASSUME NEW h, NEW t, Chained(h, t), NEW m, m \subseteq 0 .. t.size - 1
    PROVE  LET ks == UNION {t.table[j] : j \in m}
               r == TableOf(t.size, t.used - Cardinality(ks), Cleared(t, m))
           IN  /\ ks \subseteq KeysOf(t) /\ ks \subseteq DOMAIN h /\ IsFiniteSet(ks)
               /\ t.used - Cardinality(ks) \in Nat
               /\ t.used - Cardinality(ks) = 0 => KeysOf(t) = ks
               /\ Chained(h, r) /\ KeysOf(r) = KeysOf(t) \ ks
<1> DEFINE ks == UNION {t.table[j] : j \in m}
           f == Cleared(t, m)
           K == KeysOf(t) \ ks
           u == t.used - Cardinality(ks)
<1>1. t \in Tables(h) /\ t.size \in Nat /\ t.used \in Nat /\ t.table \in [0 .. t.size - 1 -> SUBSET DOMAIN h]
  BY DEF Chained, Tables
<1>2. ks \subseteq KeysOf(t) /\ ks \subseteq DOMAIN h
  BY <1>1 DEF KeysOf
<1>3. IsFiniteSet(ks) /\ Cardinality(ks) \in Nat /\ Cardinality(ks) <= t.used
      /\ (t.used = Cardinality(ks) => KeysOf(t) = ks)
  BY <1>2, FS_Subset, FS_CardinalityType DEF Chained
<1>4. f \in [0 .. t.size - 1 -> SUBSET DOMAIN h]
  BY <1>1 DEF Cleared
<1>5. \A b \in 0 .. t.size - 1 : \A x \in f[b] : h[x] % t.size = b
  BY <1>1 DEF Chained, Cleared
<1>6. \A x : x \in K <=> \E b \in 0 .. t.size - 1 : x \in f[b]
  <2>1. \A x : x \in KeysOf(t) <=> \E b \in 0 .. t.size - 1 : x \in t.table[b]
    BY <1>1 DEF KeysOf
  <2>2. \A x : x \in ks <=> \E b \in m : x \in t.table[b]
    OBVIOUS
  <2>3. \A b \in 0 .. t.size - 1 : \A x : x \in f[b] <=> x \in t.table[b] /\ b \notin m
    BY <1>1 DEF Cleared
  <2>4. \A b, c \in 0 .. t.size - 1 : \A x : x \in t.table[b] /\ x \in t.table[c] => b = c
    BY DEF Chained
  <2> HIDE DEF f, ks
  <2> QED  BY <2>1, <2>2, <2>3, <2>4
<1>7. IsFiniteSet(K) /\ u = Cardinality(K)
  <2>1. KeysOf(t) \cap ks = ks
    BY <1>2
  <2>2. IsFiniteSet(KeysOf(t)) /\ t.used = Cardinality(KeysOf(t))
    BY DEF Chained
  <2> HIDE DEF ks
  <2> QED  BY <2>1, <2>2, FS_Difference
<1> HIDE DEF f, K, u, ks
<1>8. Chained(h, TableOf(t.size, u, f)) /\ KeysOf(TableOf(t.size, u, f)) = K
  <2>1. Spread(h, t.size, f, K)
    BY <1>4, <1>5, <1>6 DEF Spread
  <2> QED  BY <1>1, <1>7, <2>1, SpreadChained
<1>9. u \in Nat /\ (u = 0 => KeysOf(t) = ks)
  BY <1>1, <1>3 DEF u
<1> QED  BY <1>2, <1>3, <1>8, <1>9 DEF ks, u, f, K

-----------------------------------------------------------------------------
(* Incremental rehashing.                                                   *)

LEMMA IntervalSize ==
    ASSUME NEW a \in Nat, NEW b \in Nat, a <= b
    PROVE  IsFiniteSet(a .. b - 1) /\ Cardinality(a .. b - 1) = b - a
<1> DEFINE c == b - 1
<1>1. c \in Int /\ a \in Int
  OBVIOUS
<1>2. a > c => b - a = 0
  OBVIOUS
<1>3. b - a = c - a + 1
  OBVIOUS
<1> HIDE DEF c
<1>4. IsFiniteSet(a .. c) /\ Cardinality(a .. c) = IF a > c THEN 0 ELSE c - a + 1
  BY <1>1, FS_Interval
<1> QED  BY <1>2, <1>3, <1>4 DEF c

LEMMA BelowMonotone ==
    ASSUME NEW s, IsFiniteSet(s), s \subseteq Nat, NEW i \in Nat, NEW j \in Nat, i <= j
    PROVE  Below(s, i) \in Nat /\ Below(s, j) \in Nat /\ Below(s, i) <= Below(s, j)
<1> DEFINE A == {x \in s : x < i}
           B == {x \in s : x < j}
<1>1. A \subseteq B /\ B \subseteq s
  <2>1. ASSUME NEW x \in A PROVE x \in B
    <3>1. x \in s /\ x < i /\ x \in Nat  OBVIOUS
    <3> QED  BY <3>1
  <2> QED  BY <2>1
<1>2. Below(s, i) = Cardinality(A) /\ Below(s, j) = Cardinality(B)
  BY DEF Below
<1> HIDE DEF A, B
<1>3. IsFiniteSet(B)
  BY <1>1, FS_Subset
<1> QED  BY <1>1, <1>2, <1>3, FS_Subset, FS_CardinalityType

\* Rehashing goes through the first table in order: the buckets it leaves
\* behind are all before any entry that stays.
LEMMA VisitedInOrder ==
    ASSUME NEW h, NEW e, WellFormed(h, e), e.rehashidx # None, NEW n \in Nat
    PROVE  /\ Visited(e, n) \subseteq 0 .. e.ht[0].size - 1
           /\ e.rehashidx + Cardinality(Visited(e, n)) \in Nat
           /\ \A b \in 0 .. e.ht[0].size - 1 :
                 b < e.rehashidx + Cardinality(Visited(e, n)) /\ b \notin Visited(e, n)
                   => e.ht[0].table[b] = {}
<1> DEFINE t == e.ht[0]
           r == e.rehashidx
           m == Visited(e, n)
           U == Unvisited(e, FALSE)
           E == Unvisited(e, TRUE)
<1>1. /\ r \in Nat /\ t.size \in Nat /\ DOMAIN t.table = 0 .. t.size - 1
      /\ n * EmptyVisits \in Nat
  <2>1. r \in Nat  BY DEF WellFormed
  <2>2. t.size \in Nat /\ DOMAIN t.table = 0 .. t.size - 1
    BY DEF WellFormed, Chained, Tables
  <2> QED  BY <2>1, <2>2, DictAssumption
<1>2. IsFiniteSet(0 .. t.size - 1)
  BY <1>1, IntervalSize
<1>3. U \subseteq 0 .. t.size - 1 /\ E \subseteq 0 .. t.size - 1
  BY <1>1 DEF Unvisited
<1>4. IsFiniteSet(U) /\ IsFiniteSet(E) /\ U \subseteq Nat /\ E \subseteq Nat
  <2>1. 0 .. t.size - 1 \subseteq Nat
    BY <1>1
  <2> HIDE DEF U, E
  <2> QED  BY <1>2, <1>3, <2>1, FS_Subset
<1>5. /\ m \subseteq r .. t.size - 1
      /\ \A i \in r .. t.size - 1 :
           i \in m <=> /\ \E j \in U : i <= j
                       /\ Below(U, i) < n /\ Below(E, i) < n * EmptyVisits
  <2>1. m = {i \in 0 .. t.size - 1 : /\ i >= r /\ \E j \in U : i <= j
                                     /\ Below(U, i) < n /\ Below(E, i) < n * EmptyVisits}
    BY <1>1 DEF Visited
  <2> HIDE DEF m, U, E, r, t
  <2> QED  BY <1>1, <2>1
<1>6. IsFiniteSet(m) /\ Cardinality(m) \in Nat
  BY <1>1, <1>2, <1>5, FS_Subset, FS_CardinalityType
<1>7. ASSUME NEW b \in 0 .. t.size - 1, b \notin m, t.table[b] # {}
      PROVE  b >= r + Cardinality(m)
  <2>1. b >= r
    BY <1>1, <1>7 DEF WellFormed, Rehashing
  <2>2. b \in U
    BY <1>1, <1>7, <2>1 DEF Unvisited
  <2>3. ASSUME NEW j \in m PROVE j < b
    <3>1. SUFFICES ASSUME b <= j PROVE FALSE
      BY <1>1, <1>5
    <3>2. j \in r .. t.size - 1 /\ b \in r .. t.size - 1 /\ b \in Nat /\ j \in Nat
      BY <1>1, <1>5, <2>1
    <3> HIDE DEF m, U, E, r, t
    <3>3. Below(U, b) <= Below(U, j) /\ Below(U, b) \in Nat /\ Below(U, j) \in Nat
      BY <1>4, <3>1, <3>2, BelowMonotone
    <3>4. Below(E, b) <= Below(E, j) /\ Below(E, b) \in Nat /\ Below(E, j) \in Nat
      BY <1>4, <3>1, <3>2, BelowMonotone
    <3>5. Below(U, j) < n /\ Below(E, j) < n * EmptyVisits
      BY <1>5, <2>3, <3>2
    <3>6. Below(U, b) < n /\ Below(E, b) < n * EmptyVisits
      BY <1>1, <3>3, <3>4, <3>5
    <3>7. \E x \in U : b <= x
      BY <2>2, <3>2
    <3> QED  BY <1>5, <1>7, <3>2, <3>6, <3>7
  <2>4. m \subseteq r .. b - 1
    BY <1>1, <1>5, <2>3
  <2>5. IsFiniteSet(r .. b - 1) /\ Cardinality(r .. b - 1) = b - r
    BY <1>1, <2>1, IntervalSize
  <2>6. Cardinality(m) <= b - r
    BY <2>4, <2>5, FS_Subset, ZenonT(30)
  <2> QED  BY <1>1, <1>6, <2>6
<1> HIDE DEF m, r, t
<1>8. r + Cardinality(m) \in Nat
  BY <1>1, <1>6
<1>9. m \subseteq 0 .. t.size - 1
  BY <1>1, <1>5
<1>10. \A b \in 0 .. t.size - 1 : b < r + Cardinality(m) /\ b \notin m => t.table[b] = {}
  BY <1>1, <1>7, <1>8
<1> QED  BY <1>8, <1>9, <1>10 DEF m, r, t

-----------------------------------------------------------------------------
(* The dictionary, put together from its two tables.                        *)

DictOf(a, b, r, it) ==
    [ht |-> [i \in 0 .. 1 |-> IF i = 0 THEN a ELSE b], rehashidx |-> r, iterators |-> it]

LEMMA DictFields ==
    ASSUME NEW a, NEW b, NEW r, NEW it
    PROVE  /\ DictOf(a, b, r, it).ht[0] = a /\ DictOf(a, b, r, it).ht[1] = b
           /\ DictOf(a, b, r, it).rehashidx = r /\ DictOf(a, b, r, it).iterators = it
           /\ AllKeys(DictOf(a, b, r, it)) = KeysOf(a) \cup KeysOf(b)
  BY DEF DictOf, AllKeys

\* The dictionary with one part replaced.
WithFirst(e, x) == [e EXCEPT !.ht[0] = x]
WithSecond(e, x) == [e EXCEPT !.ht[1] = x]
WithIndex(e, x) == [e EXCEPT !.rehashidx = x]
WithIterators(e, x) == [e EXCEPT !.iterators = x]

LEMMA DictExcept ==
    ASSUME NEW a, NEW b, NEW r, NEW it, NEW x
    PROVE  /\ WithFirst(DictOf(a, b, r, it), x) = DictOf(x, b, r, it)
           /\ WithSecond(DictOf(a, b, r, it), x) = DictOf(a, x, r, it)
           /\ WithIndex(DictOf(a, b, r, it), x) = DictOf(a, b, x, it)
           /\ WithIterators(DictOf(a, b, r, it), x) = DictOf(a, b, r, x)
<1> DEFINE H == [i \in 0 .. 1 |-> IF i = 0 THEN a ELSE b]
           e == DictOf(a, b, r, it)
<1>1. e = [ht |-> H, rehashidx |-> r, iterators |-> it]
  BY DEF DictOf
<1>2. [H EXCEPT ![0] = x] = [i \in 0 .. 1 |-> IF i = 0 THEN x ELSE b]
  OBVIOUS
<1>3. [H EXCEPT ![1] = x] = [i \in 0 .. 1 |-> IF i = 0 THEN a ELSE x]
  <2> DEFINE F == [H EXCEPT ![1] = x]
             G == [i \in 0 .. 1 |-> IF i = 0 THEN a ELSE x]
  <2>1. 0 .. 1 = {0, 1}
    OBVIOUS
  <2>2. F = [i \in 0 .. 1 |-> F[i]] /\ G = [i \in 0 .. 1 |-> G[i]]
    OBVIOUS
  <2>3. F[0] = G[0] /\ F[1] = G[1]
    OBVIOUS
  <2> HIDE DEF F, G, H
  <2>4. F = G
    BY <2>1, <2>2, <2>3
  <2> QED  BY <2>4 DEF F, G
<1> HIDE DEF H, e
<1>4. [e EXCEPT !.ht[0] = x] = [e EXCEPT !.ht = [H EXCEPT ![0] = x]]
  BY <1>1
<1>5. [e EXCEPT !.ht[1] = x] = [e EXCEPT !.ht = [H EXCEPT ![1] = x]]
  BY <1>1
<1>6. [e EXCEPT !.ht[0] = x] = DictOf(x, b, r, it)
  BY <1>1, <1>2, <1>4 DEF DictOf
<1>7. [e EXCEPT !.ht[1] = x] = DictOf(a, x, r, it)
  BY <1>1, <1>3, <1>5 DEF DictOf
<1>8. [e EXCEPT !.rehashidx = x] = DictOf(a, b, x, it)
  BY <1>1 DEF DictOf, H
<1>9. [e EXCEPT !.iterators = x] = DictOf(a, b, r, x)
  BY <1>1 DEF DictOf, H
<1> QED  BY <1>6, <1>7, <1>8, <1>9 DEF e, WithFirst, WithSecond, WithIndex, WithIterators

LEMMA Assembled ==
    ASSUME NEW h, NEW a, NEW b, NEW r \in Nat \cup {None}, NEW it \in Int,
           Chained(h, a), Chained(h, b), KeysOf(a) \cap KeysOf(b) = {},
           r = None => b = EmptyTable,
           r # None => /\ b.size > 0
                       /\ \A i \in 0 .. a.size - 1 : i < r => a.table[i] = {}
    PROVE  WellFormed(h, DictOf(a, b, r, it))
<1> DEFINE e == DictOf(a, b, r, it)
<1>1. e.ht[0] = a /\ e.ht[1] = b /\ e.rehashidx = r /\ e.iterators = it
  BY DictFields
<1>2. e \in [ht : [0 .. 1 -> Tables(h)], rehashidx : Nat \cup {None}, iterators : Int]
  <2>1. a \in Tables(h) /\ b \in Tables(h)
    BY DEF Chained
  <2>2. [i \in 0 .. 1 |-> IF i = 0 THEN a ELSE b] \in [0 .. 1 -> Tables(h)]
    BY <2>1
  <2> QED  BY <2>2 DEF DictOf
<1>3. Rehashing(e)
  BY <1>1 DEF Rehashing
<1> HIDE DEF e
<1>4. WellFormed(h, e)
  BY <1>1, <1>2, <1>3 DEF WellFormed
<1> QED  BY <1>4 DEF e

\* A dictionary is what it is put together from.
LEMMA Disassembled ==
    ASSUME NEW h, NEW e, WellFormed(h, e)
    PROVE  /\ e = DictOf(e.ht[0], e.ht[1], e.rehashidx, e.iterators)
           /\ e.ht = [i \in 0 .. 1 |-> IF i = 0 THEN e.ht[0] ELSE e.ht[1]]
           /\ e.rehashidx \in Nat \cup {None} /\ e.iterators \in Int
           /\ Chained(h, e.ht[0]) /\ Chained(h, e.ht[1])
           /\ KeysOf(e.ht[0]) \cap KeysOf(e.ht[1]) = {}
           /\ e.rehashidx = None => e.ht[1] = EmptyTable
           /\ e.rehashidx # None =>
                /\ e.ht[1].size > 0
                /\ \A b \in 0 .. e.ht[0].size - 1 : b < e.rehashidx => e.ht[0].table[b] = {}
<1>1. e \in [ht : [0 .. 1 -> Tables(h)], rehashidx : Nat \cup {None}, iterators : Int]
  BY DEF WellFormed
<1>2. e.ht = [i \in 0 .. 1 |-> IF i = 0 THEN e.ht[0] ELSE e.ht[1]]
  BY <1>1
<1>3. e = DictOf(e.ht[0], e.ht[1], e.rehashidx, e.iterators)
  BY <1>1, <1>2 DEF DictOf
<1> QED  BY <1>1, <1>2, <1>3 DEF WellFormed, Rehashing

LEMMA Rehashed ==
    ASSUME NEW e, WellFormed(world.hash, e), world.hash \in [DOMAIN world.hash -> Nat],
           NEW n \in Nat
    PROVE  /\ WellFormed(world.hash, dictRehash(e, n))
           /\ AllKeys(dictRehash(e, n)) = AllKeys(e)
           /\ dictRehash(e, n).iterators = e.iterators
<1>1. CASE e.rehashidx = None
  BY <1>1 DEF dictRehash, dictIsRehashing
<1>2. CASE e.rehashidx # None
  <2> DEFINE h == world.hash
             a == e.ht[0]
             b == e.ht[1]
             r == e.rehashidx
             m == Visited(e, n)
             ks == UNION {a.table[j] : j \in m}
             left == a.used - Cardinality(ks)
             rest == TableOf(a.size, left, Cleared(a, m))
             into == MoveInto(b, ks)
             next == r + Cardinality(m)
  <2>1. /\ Chained(h, a) /\ Chained(h, b) /\ KeysOf(a) \cap KeysOf(b) = {} /\ b.size > 0
        /\ e.iterators \in Int
    BY <1>2, Disassembled
  <2>2. /\ m \subseteq 0 .. a.size - 1 /\ next \in Nat
        /\ \A i \in 0 .. a.size - 1 : i < next /\ i \notin m => a.table[i] = {}
    BY <1>2, VisitedInOrder
  <2>3. /\ ks \subseteq KeysOf(a) /\ ks \subseteq DOMAIN h /\ IsFiniteSet(ks)
        /\ left = 0 => KeysOf(a) = ks
        /\ Chained(h, rest) /\ KeysOf(rest) = KeysOf(a) \ ks
    BY <2>1, <2>2, ClearedChained
  <2>4. Chained(h, into) /\ KeysOf(into) = KeysOf(b) \cup ks /\ into.size > 0
    <3>1. ks \cap KeysOf(b) = {}
      BY <2>1, <2>3
    <3> HIDE DEF ks, b
    <3> QED  BY <2>1, <2>3, <3>1, MoveIntoChained
  <2>5. CASE left = 0
    <3>1. dictRehash(e, n) = DictOf(into, EmptyTable, None, e.iterators)
      <4>1. e = [ht |-> e.ht, rehashidx |-> e.rehashidx, iterators |-> e.iterators]
        BY Disassembled, ZenonT(30) DEF DictOf
      <4>2. dictRehash(e, n) = [e EXCEPT !.ht = [i \in 0 .. 1 |-> IF i = 0 THEN into ELSE EmptyTable],
                                         !.rehashidx = None]
        BY <1>2, <2>5 DEF dictRehash, dictIsRehashing
      <4> HIDE DEF into
      <4> QED  BY <4>1, <4>2 DEF DictOf
    <3>2. KeysOf(a) = ks
      BY <2>3, <2>5
    <3> HIDE DEF into, a, b, ks, h
    <3>3. WellFormed(h, DictOf(into, EmptyTable, None, e.iterators))
      <4>1. KeysOf(into) \cap KeysOf(EmptyTable) = {}
        BY EmptyTableChained
      <4> QED  BY <2>1, <2>4, <4>1, EmptyTableChained, Assembled
    <3>4. AllKeys(DictOf(into, EmptyTable, None, e.iterators)) = KeysOf(a) \cup KeysOf(b)
      BY <2>4, <3>2, DictFields, EmptyTableChained
    <3>5. DictOf(into, EmptyTable, None, e.iterators).iterators = e.iterators
      BY DictFields
    <3> QED  BY <3>1, <3>3, <3>4, <3>5 DEF AllKeys, a, b, h
  <2>6. CASE left # 0
    <3>1. dictRehash(e, n) = DictOf(rest, into, next, e.iterators)
      <4>1. e = DictOf(a, b, r, e.iterators)
        BY Disassembled
      <4>2. a = [size |-> a.size, used |-> a.used, table |-> a.table]
        BY <2>1 DEF Chained, Tables
      <4>3. a.table \in [0 .. a.size - 1 -> SUBSET DOMAIN h]
        BY <2>1 DEF Chained
      <4> DEFINE c == TableOf(a.size, left, a.table)
                 e1 == DictOf(c, b, r, e.iterators)
                 e2 == DictOf(rest, b, r, e.iterators)
                 e3 == DictOf(rest, into, r, e.iterators)
      <4>4. dictRehash(e, n) = [e EXCEPT !.ht[0].used = left,
                                         !.ht[0].table = Cleared(a, m),
                                         !.ht[1] = into,
                                         !.rehashidx = next]
        <5>1. dictRehash(e, n) = [e EXCEPT !.ht[0].used = left,
                       !.ht[0].table = [j \in DOMAIN @ |-> IF j \in m THEN {} ELSE @[j]],
                       !.ht[1] = MoveInto(@, ks),
                       !.rehashidx = @ + Cardinality(m)]
          BY <1>2, <2>6 DEF dictRehash, dictIsRehashing
        <5> QED  BY <4>1, <5>1, DictFields DEF Cleared
      <4> HIDE DEF left, next, into, a, b, r, m
      <4>5. [e EXCEPT !.ht[0].used = left] = e1
        <5>1. [a EXCEPT !.used = left] = c
          BY <4>2 DEF TableOf
        <5>2. [e EXCEPT !.ht[0].used = left] = WithFirst(e, [e.ht[0] EXCEPT !.used = left])
          BY Zenon DEF WithFirst
        <5>3. e.ht[0] = a
          BY DEF a
        <5> HIDE DEF c
        <5>4. WithFirst(e, c) = e1
          BY <4>1, DictExcept
        <5> QED  BY <5>1, <5>2, <5>3, <5>4
      <4>6. [e1 EXCEPT !.ht[0].table = Cleared(a, m)] = e2
        <5> DEFINE f == Cleared(a, m)
        <5>1. [c EXCEPT !.table = f] = TableOf(a.size, left, f)
          BY DEF TableOf
        <5>2. [e1 EXCEPT !.ht[0].table = f] = WithFirst(e1, [e1.ht[0] EXCEPT !.table = f])
          BY Zenon DEF WithFirst
        <5>3. e1.ht[0] = c
          BY DictFields
        <5> HIDE DEF c, f
        <5>4. WithFirst(e1, TableOf(a.size, left, f)) = DictOf(TableOf(a.size, left, f), b, r, e.iterators)
          BY DictExcept
        <5> QED  BY <5>1, <5>2, <5>3, <5>4 DEF f
      <4> HIDE DEF c, rest
      <4>7. WithSecond(e2, into) = e3 /\ WithIndex(e3, next) = DictOf(rest, into, next, e.iterators)
        BY DictExcept
      <4> HIDE DEF e1, e2, e3
      <4> QED  BY <4>4, <4>5, <4>6, <4>7 DEF WithSecond, WithIndex
      <3>2. \A i \in 0 .. rest.size - 1 : i < next => rest.table[i] = {}
      <4>1. rest.size = a.size /\ rest.table = Cleared(a, m)
        BY DEF TableOf
      <4>2. DOMAIN a.table = 0 .. a.size - 1
        BY <2>1 DEF Chained
      <4> HIDE DEF rest, next, m, a
      <4> QED  BY <2>2, <4>1, <4>2 DEF Cleared
    <3>3. next # None
      BY <2>2, DictAssumption
    <3> HIDE DEF into, rest, next, a, b, ks, h
    <3>4. WellFormed(h, DictOf(rest, into, next, e.iterators))
      <4>1. KeysOf(rest) \cap KeysOf(into) = {}
        BY <2>1, <2>3, <2>4
      <4> QED  BY <2>1, <2>2, <2>3, <2>4, <3>2, <3>3, <4>1, Assembled
    <3>5. AllKeys(DictOf(rest, into, next, e.iterators)) = KeysOf(a) \cup KeysOf(b)
      BY <2>3, <2>4, DictFields
    <3>6. DictOf(rest, into, next, e.iterators).iterators = e.iterators
      BY DictFields
    <3> QED  BY <3>1, <3>4, <3>5, <3>6 DEF AllKeys, a, b, h
  <2> QED  BY <2>5, <2>6
<1> QED  BY <1>1, <1>2

-----------------------------------------------------------------------------
(* Expanding, looking up, adding and deleting.                              *)

LEMMA Expanded ==
    ASSUME NEW h, NEW e, WellFormed(h, e), NEW n \in Nat
    PROVE  /\ WellFormed(h, dictExpand(e, n))
           /\ AllKeys(dictExpand(e, n)) = AllKeys(e)
           /\ dictExpand(e, n).iterators = e.iterators
           /\ e.ht[0].size > 0 => dictExpand(e, n).ht[0].size > 0
           /\ e.ht[0].size = 0 /\ e.rehashidx = None => dictExpand(e, InitialSize).ht[0].size > 0
<1> DEFINE a == e.ht[0]
           b == e.ht[1]
           it == e.iterators
<1>1. /\ e = DictOf(a, b, e.rehashidx, it)
      /\ it \in Int /\ Chained(h, a) /\ Chained(h, b) /\ KeysOf(a) \cap KeysOf(b) = {}
      /\ e.rehashidx = None => b = EmptyTable
  BY Disassembled
<1>2. a.size \in Nat /\ DOMAIN a.table = 0 .. a.size - 1 /\ a.used = Cardinality(KeysOf(a))
  BY <1>1 DEF Chained, Tables
<1>3. a.size = 0 => KeysOf(a) = {} /\ a.used = 0
  BY <1>2, FS_EmptySet DEF KeysOf
<1>4. ASSUME NEW k \in Nat
      PROVE  NextPower(k) \in Nat /\ NextPower(k) > 0
  BY NextPowerPositive
<1>5. ASSUME NEW k \in Nat, e.rehashidx = None, a.size = 0
      PROVE  /\ dictExpand(e, k) = DictOf(NewTable(NextPower(k)), b, None, it)
             /\ dictExpand(e, k).ht[0].size > 0
             /\ WellFormed(h, dictExpand(e, k)) /\ AllKeys(dictExpand(e, k)) = AllKeys(e)
             /\ dictExpand(e, k).iterators = it
  <2> DEFINE t == NewTable(NextPower(k))
  <2>1. ~CannotExpand(e, k)
    BY <1>3, <1>4, <1>5 DEF CannotExpand, dictIsRehashing
  <2>2. dictExpand(e, k) = WithFirst(e, t)
    BY <1>5, <2>1 DEF dictExpand, WithFirst
  <2>3. Chained(h, t) /\ KeysOf(t) = {} /\ t.size > 0
    BY <1>4, NewTableChained
  <2> HIDE DEF t
  <2>4. dictExpand(e, k) = DictOf(t, b, None, it)
    BY <1>1, <1>5, <2>2, DictExcept
  <2>5. WellFormed(h, DictOf(t, b, None, it))
    BY <1>1, <1>5, <2>3, Assembled
  <2>6. AllKeys(DictOf(t, b, None, it)) = KeysOf(a) \cup KeysOf(b)
    BY <1>3, <1>5, <2>3, DictFields
  <2> QED  BY <2>3, <2>4, <2>5, <2>6, DictFields DEF AllKeys, t
<1>6. CASE CannotExpand(e, n)
  <2>1. dictExpand(e, n) = e
    BY <1>6 DEF dictExpand
  <2> QED  BY <1>5, <2>1, DictAssumption
<1>7. CASE ~CannotExpand(e, n) /\ a.size = 0
  <2>1. e.rehashidx = None
    BY <1>7 DEF CannotExpand, dictIsRehashing
  <2> QED  BY <1>5, <1>7, <2>1, DictAssumption
<1>8. CASE ~CannotExpand(e, n) /\ a.size # 0
  <2> DEFINE t == NewTable(NextPower(n))
             zero == 0
  <2>1. e.rehashidx = None
    BY <1>8 DEF CannotExpand, dictIsRehashing
  <2>2. dictExpand(e, n) = WithIndex(WithSecond(e, t), zero)
    BY <1>8 DEF dictExpand, WithSecond, WithIndex
  <2>3. Chained(h, t) /\ KeysOf(t) = {} /\ t.size > 0
    BY <1>4, NewTableChained
  <2>4. zero \in Nat /\ zero # None /\ \A i \in 0 .. a.size - 1 : ~(i < zero)
    BY <1>2, DictAssumption
  <2> HIDE DEF t, zero
  <2>5. dictExpand(e, n) = DictOf(a, t, zero, it)
    BY <1>1, <2>2, DictExcept
  <2>6. WellFormed(h, DictOf(a, t, zero, it))
    BY <1>1, <2>3, <2>4, Assembled
  <2>7. AllKeys(DictOf(a, t, zero, it)) = KeysOf(a) \cup KeysOf(b)
    BY <1>1, <2>1, <2>3, DictFields, EmptyTableChained
  <2> QED  BY <1>8, <2>5, <2>6, <2>7, DictFields DEF AllKeys
<1> QED  BY <1>6, <1>7, <1>8

LEMMA ExpandedIfNeeded ==
    ASSUME NEW h, NEW e, WellFormed(h, e)
    PROVE  /\ WellFormed(h, ExpandIfNeeded(e)) /\ AllKeys(ExpandIfNeeded(e)) = AllKeys(e)
           /\ ExpandIfNeeded(e).iterators = e.iterators
           /\ ExpandIfNeeded(e).rehashidx = None => ExpandIfNeeded(e).ht[0].size > 0
<1>1. e.ht[0].size \in Nat /\ e.ht[0].used \in Nat /\ e.ht[0].used * 2 \in Nat
  BY DEF WellFormed, Chained, Tables
<1>2. InitialSize \in Nat
  BY DictAssumption
<1>3. CASE e.ht[0].size = 0
  <2>1. ExpandIfNeeded(e) = dictExpand(e, InitialSize)
    BY <1>3 DEF ExpandIfNeeded
  <2>2. CASE e.rehashidx = None
    BY <1>2, <1>3, <2>1, <2>2, Expanded
  <2>3. CASE e.rehashidx # None
    <3>1. dictExpand(e, InitialSize) = e
      BY <2>3 DEF dictExpand, CannotExpand, dictIsRehashing
    <3> QED  BY <2>1, <2>3, <3>1
  <2> QED  BY <2>2, <2>3
<1>4. CASE e.ht[0].size # 0
  <2> DEFINE n == e.ht[0].used * 2
  <2>1. n \in Nat /\ e.ht[0].size > 0
    BY <1>1, <1>4
  <2>2. ExpandIfNeeded(e) = e \/ ExpandIfNeeded(e) = dictExpand(e, n)
    BY <1>4 DEF ExpandIfNeeded
  <2> HIDE DEF n
  <2> QED  BY <2>1, <2>2, Expanded
<1> QED  BY <1>3, <1>4

\* A lookup finds the table that holds the key, and there is at most one.
LEMMA LookedUp ==
    ASSUME NEW e, WellFormed(world.hash, e), world.hash \in [DOMAIN world.hash -> Nat],
           NEW k \in DOMAIN world.hash
    PROVE  /\ Lookup(e, k) = {} <=> k \notin AllKeys(e)
           /\ k \in KeysOf(e.ht[0]) => Lookup(e, k) = {0}
           /\ k \in KeysOf(e.ht[1]) => Lookup(e, k) = {1} /\ e.rehashidx # None
<1>1. \A i \in {0, 1} : Holds(e.ht[i], k) <=> k \in KeysOf(e.ht[i])
  <2>1. Chained(world.hash, e.ht[0]) /\ Chained(world.hash, e.ht[1])
    BY Disassembled
  <2> QED  BY <2>1, KeyInBucket DEF Holds, Bucket
<1>2. /\ KeysOf(e.ht[0]) \cap KeysOf(e.ht[1]) = {}
      /\ e.rehashidx = None => KeysOf(e.ht[1]) = {}
  BY Disassembled, EmptyTableChained
<1> QED  BY <1>1, <1>2 DEF Lookup, dictIsRehashing, AllKeys

LEMMA Added ==
    ASSUME NEW e, WellFormed(world.hash, e), world.hash \in [DOMAIN world.hash -> Nat],
           NEW k \in DOMAIN world.hash, k \notin AllKeys(e),
           e.rehashidx = None => e.ht[0].size > 0
    PROVE  /\ WellFormed(world.hash, AddRaw(e, k))
           /\ AllKeys(AddRaw(e, k)) = AllKeys(e) \cup {k}
<1> DEFINE h == world.hash
           a == e.ht[0]
           b == e.ht[1]
           r == e.rehashidx
           it == e.iterators
<1>1. /\ e = DictOf(a, b, r, it) /\ r \in Nat \cup {None} /\ it \in Int
      /\ Chained(h, a) /\ Chained(h, b) /\ KeysOf(a) \cap KeysOf(b) = {}
      /\ r = None => b = EmptyTable
      /\ r # None => /\ b.size > 0
                     /\ \A i \in 0 .. a.size - 1 : i < r => a.table[i] = {}
  BY Disassembled
<1>2. k \notin KeysOf(a) /\ k \notin KeysOf(b)
  BY DEF AllKeys
<1>3. CASE r = None
  <2> DEFINE t == Insert(a, k)
  <2>1. AddRaw(e, k) = WithFirst(e, t)
    BY <1>3 DEF AddRaw, dictIsRehashing, WithFirst
  <2>2. Chained(h, t) /\ KeysOf(t) = KeysOf(a) \cup {k}
    BY <1>1, <1>2, <1>3, InsertChained
  <2> HIDE DEF t, a, b, r, it
  <2>3. AddRaw(e, k) = DictOf(t, b, r, it)
    BY <1>1, <2>1, DictExcept
  <2>4. KeysOf(t) \cap KeysOf(b) = {}
    BY <1>1, <1>2, <2>2
  <2>5. WellFormed(h, DictOf(t, b, r, it))
    BY <1>1, <1>3, <2>2, <2>4, Assembled
  <2>6. AllKeys(DictOf(t, b, r, it)) = KeysOf(a) \cup KeysOf(b) \cup {k}
    BY <2>2, DictFields
  <2> QED  BY <2>3, <2>5, <2>6 DEF AllKeys, a, b
<1>4. CASE r # None
  <2> DEFINE t == Insert(b, k)
  <2>1. AddRaw(e, k) = WithSecond(e, t)
    BY <1>4 DEF AddRaw, dictIsRehashing, WithSecond
  <2>2. Chained(h, t) /\ KeysOf(t) = KeysOf(b) \cup {k} /\ t.size > 0
    BY <1>1, <1>2, <1>4, InsertChained
  <2> HIDE DEF t, a, b, r, it
  <2>3. AddRaw(e, k) = DictOf(a, t, r, it)
    BY <1>1, <2>1, DictExcept
  <2>4. KeysOf(a) \cap KeysOf(t) = {}
    BY <1>1, <1>2, <2>2
  <2>5. WellFormed(h, DictOf(a, t, r, it))
    BY <1>1, <1>4, <2>2, <2>4, Assembled
  <2>6. AllKeys(DictOf(a, t, r, it)) = KeysOf(a) \cup KeysOf(b) \cup {k}
    BY <2>2, DictFields
  <2> QED  BY <2>3, <2>5, <2>6 DEF AllKeys, a, b
<1> QED  BY <1>3, <1>4

LEMMA Deleted ==
    ASSUME NEW e, WellFormed(world.hash, e), world.hash \in [DOMAIN world.hash -> Nat],
           NEW k \in DOMAIN world.hash, k \in AllKeys(e), NEW f,
           f = [e EXCEPT !.ht[Min(Lookup(e, k))] = Unlink(@, k)]
    PROVE  WellFormed(world.hash, f) /\ AllKeys(f) = AllKeys(e) \ {k}
<1> DEFINE h == world.hash
           a == e.ht[0]
           b == e.ht[1]
           r == e.rehashidx
           it == e.iterators
<1>1. /\ e = DictOf(a, b, r, it) /\ r \in Nat \cup {None} /\ it \in Int
      /\ Chained(h, a) /\ Chained(h, b) /\ KeysOf(a) \cap KeysOf(b) = {}
      /\ r = None => b = EmptyTable
      /\ r # None => /\ b.size > 0
                     /\ \A i \in 0 .. a.size - 1 : i < r => a.table[i] = {}
  BY Disassembled
<1>2. CASE k \in KeysOf(a)
  <2> DEFINE t == Unlink(a, k)
  <2>1. Lookup(e, k) = {0}
    BY <1>2, LookedUp
  <2>2. Min(Lookup(e, k)) = 0
    BY <2>1 DEF Min
  <2>3. f = WithFirst(e, t)
    BY <2>2 DEF WithFirst
  <2>4. /\ Chained(h, t) /\ KeysOf(t) = KeysOf(a) \ {k} /\ t.size = a.size
        /\ \A i \in 0 .. a.size - 1 : t.table[i] \subseteq a.table[i]
    BY <1>1, <1>2, UnlinkChained
  <2> HIDE DEF t, a, b, r, it
  <2>5. f = DictOf(t, b, r, it)
    BY <1>1, <2>3, DictExcept
  <2>6. KeysOf(t) \cap KeysOf(b) = {}
    BY <1>1, <2>4
  <2>7. r # None => \A i \in 0 .. t.size - 1 : i < r => t.table[i] = {}
    BY <1>1, <2>4
  <2>8. WellFormed(h, DictOf(t, b, r, it))
    BY <1>1, <2>4, <2>6, <2>7, Assembled
  <2>9. AllKeys(DictOf(t, b, r, it)) = (KeysOf(a) \cup KeysOf(b)) \ {k}
    BY <1>1, <1>2, <2>4, DictFields
  <2> QED  BY <2>5, <2>8, <2>9 DEF AllKeys, a, b
<1>3. CASE k \in KeysOf(b)
  <2> DEFINE t == Unlink(b, k)
  <2>1. Lookup(e, k) = {1} /\ r # None
    BY <1>3, LookedUp
  <2>2. Min(Lookup(e, k)) = 1
    BY <2>1 DEF Min
  <2>3. f = WithSecond(e, t)
    BY <2>2 DEF WithSecond
  <2>4. Chained(h, t) /\ KeysOf(t) = KeysOf(b) \ {k} /\ t.size = b.size
    BY <1>1, <1>3, UnlinkChained
  <2> HIDE DEF t, a, b, r, it
  <2>5. f = DictOf(a, t, r, it)
    BY <1>1, <2>3, DictExcept
  <2>6. KeysOf(a) \cap KeysOf(t) = {}
    BY <1>1, <2>4
  <2>7. WellFormed(h, DictOf(a, t, r, it))
    BY <1>1, <2>1, <2>4, <2>6, Assembled
  <2>8. AllKeys(DictOf(a, t, r, it)) = (KeysOf(a) \cup KeysOf(b)) \ {k}
    BY <1>1, <1>3, <2>4, DictFields
  <2> QED  BY <2>5, <2>7, <2>8 DEF AllKeys, a, b
<1> QED  BY <1>2, <1>3 DEF AllKeys

LEMMA SteppedRehash ==
    ASSUME NEW e, WellFormed(world.hash, e), world.hash \in [DOMAIN world.hash -> Nat]
    PROVE  WellFormed(world.hash, RehashStep(e)) /\ AllKeys(RehashStep(e)) = AllKeys(e)
  BY Rehashed DEF RehashStep

\* dictSize counts the keys of both tables.
LEMMA SizeZero ==
    ASSUME NEW h, NEW e, WellFormed(h, e)
    PROVE  dictSize(e) = 0 <=> AllKeys(e) = {}
<1>1. Chained(h, e.ht[0]) /\ Chained(h, e.ht[1])
  BY Disassembled
<1>2. \A t : Chained(h, t) => t.used \in Nat /\ (t.used = 0 <=> KeysOf(t) = {})
  BY FS_EmptySet DEF Chained, Tables
<1> QED  BY <1>1, <1>2 DEF dictSize, AllKeys

-----------------------------------------------------------------------------
(* The actions, each with the step of the set it is.                        *)

LEMMA HashTyped ==
    ASSUME world \in Worlds
    PROVE  world.hash \in [DOMAIN world.hash -> Nat] /\ DOMAIN world.hash \subseteq Key
  BY DictAssumption

LEMMA KeysAll == Keys = AllKeys(d)
  BY DEF Keys, AllKeys

LEMMA AddStep ==
    ASSUME IInv, NEW k \in DOMAIN world.hash, dictAdd(k)
    PROVE  WellFormed(world.hash, d') /\ AllKeys(d') = AllKeys(d) \cup {k}
           /\ answer' = [call |-> "add", ok |-> k \notin AllKeys(d)]
<1> DEFINE e == ExpandIfNeeded(RehashStep(d))
<1>1. world.hash \in [DOMAIN world.hash -> Nat] /\ WellFormed(world.hash, d)
  BY HashTyped DEF IInv
<1>2. /\ WellFormed(world.hash, e) /\ AllKeys(e) = AllKeys(d)
      /\ e.rehashidx = None => e.ht[0].size > 0
  BY <1>1, SteppedRehash, ExpandedIfNeeded
<1>3. /\ d' = IF Lookup(e, k) = {} THEN AddRaw(e, k) ELSE e
      /\ answer' = [call |-> "add", ok |-> Lookup(e, k) = {}]
  BY DEF dictAdd, Answer
<1> HIDE DEF e
<1>4. Lookup(e, k) = {} <=> k \notin AllKeys(d)
  BY <1>1, <1>2, LookedUp
<1>5. CASE k \notin AllKeys(d)
  <2>1. d' = AddRaw(e, k) /\ answer' = [call |-> "add", ok |-> TRUE]
    BY <1>3, <1>4, <1>5
  <2> QED  BY <1>1, <1>2, <1>5, <2>1, Added
<1>6. CASE k \in AllKeys(d)
  <2>1. d' = e /\ answer' = [call |-> "add", ok |-> FALSE]
    BY <1>3, <1>4, <1>6
  <2>2. AllKeys(d) = AllKeys(d) \cup {k}
    BY <1>6
  <2> QED  BY <1>1, <1>2, <1>6, <2>1, <2>2
<1> QED  BY <1>5, <1>6

\* The rehashing step that precedes the search of dictFind and dictDelete.
LEMMA BeforeSearch ==
    ASSUME IInv, NEW e, e = IF dictSize(d) = 0 THEN d ELSE RehashStep(d)
    PROVE  WellFormed(world.hash, e) /\ AllKeys(e) = AllKeys(d)
  BY HashTyped, SteppedRehash DEF IInv

LEMMA DeleteStep ==
    ASSUME IInv, NEW k \in DOMAIN world.hash, dictDelete(k)
    PROVE  WellFormed(world.hash, d') /\ AllKeys(d') = AllKeys(d) \ {k}
           /\ answer' = [call |-> "delete", ok |-> k \in AllKeys(d)]
<1> DEFINE e == IF dictSize(d) = 0 THEN d ELSE RehashStep(d)
<1>1. world.hash \in [DOMAIN world.hash -> Nat]
  BY HashTyped DEF IInv
<1>2. WellFormed(world.hash, e) /\ AllKeys(e) = AllKeys(d)
  BY BeforeSearch
<1>3. /\ d' = IF Lookup(e, k) = {} THEN e
              ELSE [e EXCEPT !.ht[Min(Lookup(e, k))] = Unlink(@, k)]
      /\ answer' = [call |-> "delete", ok |-> Lookup(e, k) # {}]
  BY DEF dictDelete, Answer
<1> HIDE DEF e
<1>4. Lookup(e, k) = {} <=> k \notin AllKeys(d)
  BY <1>1, <1>2, LookedUp
<1>5. CASE k \in AllKeys(d)
  <2>1. answer' = [call |-> "delete", ok |-> TRUE]
    BY <1>3, <1>4, <1>5
  <2>2. d' = [e EXCEPT !.ht[Min(Lookup(e, k))] = Unlink(@, k)]
    BY <1>3, <1>4, <1>5
  <2>3. WellFormed(world.hash, d') /\ AllKeys(d') = AllKeys(e) \ {k}
    BY <1>1, <1>2, <1>5, <2>2, Deleted
  <2> QED  BY <1>2, <1>5, <2>1, <2>3
<1>6. CASE k \notin AllKeys(d)
  <2>1. d' = e /\ answer' = [call |-> "delete", ok |-> FALSE]
    BY <1>3, <1>4, <1>6
  <2>2. AllKeys(d) = AllKeys(d) \ {k}
    BY <1>6
  <2>3. answer' = [call |-> "delete", ok |-> k \in AllKeys(d)]
    <3>1. (k \in AllKeys(d)) = FALSE
      BY <1>6
    <3> QED  BY <2>1, <3>1, Zenon
  <2> QED  BY <1>2, <2>1, <2>2, <2>3
<1> QED  BY <1>5, <1>6

LEMMA FindStep ==
    ASSUME IInv, NEW k \in DOMAIN world.hash, dictFind(k)
    PROVE  WellFormed(world.hash, d') /\ AllKeys(d') = AllKeys(d)
           /\ answer' = [call |-> "find", ok |-> k \in AllKeys(d)]
<1> DEFINE e == IF dictSize(d) = 0 THEN d ELSE RehashStep(d)
<1>1. world.hash \in [DOMAIN world.hash -> Nat]
  BY HashTyped DEF IInv
<1>2. WellFormed(world.hash, e) /\ AllKeys(e) = AllKeys(d)
  BY BeforeSearch
<1>3. d' = e /\ answer' = [call |-> "find", ok |-> Lookup(e, k) # {}]
  BY DEF dictFind, Answer, FindIn
<1> HIDE DEF e
<1>4. Lookup(e, k) = {} <=> k \notin AllKeys(d)
  BY <1>1, <1>2, LookedUp
<1>5. CASE k \in AllKeys(d)
  BY <1>2, <1>3, <1>4, <1>5
<1>6. CASE k \notin AllKeys(d)
  BY <1>2, <1>3, <1>4, <1>6
<1> QED  BY <1>5, <1>6

LEMMA RandomStep ==
    ASSUME IInv, dictGetRandomKey
    PROVE  WellFormed(world.hash, d') /\ AllKeys(d') = AllKeys(d)
           /\ answer' = [call |-> "random", ok |-> AllKeys(d) # {}]
<1>1. WellFormed(world.hash, d') /\ AllKeys(d') = AllKeys(d)
  BY BeforeSearch DEF dictGetRandomKey
<1>2. answer' = [call |-> "random", ok |-> dictSize(d) # 0]
  BY DEF dictGetRandomKey, Answer
<1>3. dictSize(d) = 0 <=> AllKeys(d) = {}
  BY SizeZero DEF IInv
<1>4. CASE AllKeys(d) = {}
  BY <1>1, <1>2, <1>3, <1>4
<1>5. CASE AllKeys(d) # {}
  BY <1>1, <1>2, <1>3, <1>5
<1> QED  BY <1>4, <1>5

LEMMA EmptyDict ==
    ASSUME NEW h
    PROVE  /\ WellFormed(h, DictOf(EmptyTable, EmptyTable, None, 0))
           /\ AllKeys(DictOf(EmptyTable, EmptyTable, None, 0)) = {}
           /\ DictOf(EmptyTable, EmptyTable, None, 0)
                = [ht |-> [i \in 0 .. 1 |-> EmptyTable], rehashidx |-> None, iterators |-> 0]
<1> DEFINE zero == 0
<1>1. zero \in Int
  OBVIOUS
<1>2. DictOf(EmptyTable, EmptyTable, None, zero)
        = [ht |-> [i \in 0 .. 1 |-> EmptyTable], rehashidx |-> None, iterators |-> zero]
  BY DEF DictOf
<1> HIDE DEF zero
<1>3. AllKeys(DictOf(EmptyTable, EmptyTable, None, zero)) = {}
  BY DictFields, EmptyTableChained
<1>4. WellFormed(h, DictOf(EmptyTable, EmptyTable, None, zero))
  BY <1>1, EmptyTableChained, Assembled
<1> QED  BY <1>2, <1>3, <1>4 DEF zero

LEMMA EmptyStep ==
    ASSUME IInv, dictEmpty
    PROVE  WellFormed(world.hash, d') /\ AllKeys(d') = {}
           /\ answer' = [call |-> "empty", ok |-> TRUE]
<1>1. d' = [ht |-> [i \in 0 .. 1 |-> EmptyTable], rehashidx |-> None, iterators |-> 0]
  BY DEF dictEmpty
<1>2. answer' = [call |-> "empty", ok |-> TRUE]
  BY DEF dictEmpty, Answer
<1> QED  BY <1>1, <1>2, EmptyDict

LEMMA CountsIterators ==
    ASSUME NEW h, NEW e, WellFormed(h, e), NEW n \in Int
    PROVE  WellFormed(h, WithIterators(e, n)) /\ AllKeys(WithIterators(e, n)) = AllKeys(e)
<1> DEFINE a == e.ht[0]
           b == e.ht[1]
           r == e.rehashidx
<1>1. /\ e = DictOf(a, b, r, e.iterators) /\ r \in Nat \cup {None}
      /\ Chained(h, a) /\ Chained(h, b) /\ KeysOf(a) \cap KeysOf(b) = {}
      /\ r = None => b = EmptyTable
      /\ r # None => /\ b.size > 0
                     /\ \A i \in 0 .. a.size - 1 : i < r => a.table[i] = {}
  BY Disassembled
<1> HIDE DEF a, b, r
<1>2. WithIterators(e, n) = DictOf(a, b, r, n)
  BY <1>1, DictExcept
<1>3. WellFormed(h, DictOf(a, b, r, n))
  BY <1>1, Assembled
<1> QED  BY <1>2, <1>3, DictFields DEF AllKeys, a, b

\* Steps of iterators, scans, the cron and children leave the set alone.
LEMMA InnerStep ==
    ASSUME IInv,
           dictGetSafeIterator \/ dictNext \/ scanGenericCommand \/ ScanEnds
             \/ databasesCron \/ Fork \/ ChildEnds
    PROVE  WellFormed(world.hash, d') /\ AllKeys(d') = AllKeys(d) /\ answer' = answer
<1>1. WellFormed(world.hash, d) /\ world.hash \in [DOMAIN world.hash -> Nat] /\ d.iterators \in Int
  BY HashTyped, Disassembled DEF IInv
<1>2. ASSUME d' = d, answer' = answer
      PROVE  WellFormed(world.hash, d') /\ AllKeys(d') = AllKeys(d) /\ answer' = answer
  BY <1>1, <1>2
<1>3. CASE dictGetSafeIterator
  <2> DEFINE n == d.iterators + 1
  <2>1. d' = WithIterators(d, n) /\ n \in Int /\ answer' = answer
    BY <1>1, <1>3 DEF dictGetSafeIterator, WithIterators
  <2> HIDE DEF n
  <2> QED  BY <1>1, <2>1, CountsIterators
<1>4. CASE dictNext
  <2> DEFINE n == d.iterators - 1
  <2>1. n \in Int
    BY <1>1
  <2>3. answer' = answer
    BY <1>4 DEF dictNext
  <2>2. d' = d \/ d' = WithIterators(d, n)
    BY <1>4 DEF dictNext, WithIterators
  <2> HIDE DEF n
  <2> QED  BY <1>1, <1>2, <2>1, <2>2, <2>3, CountsIterators
<1>5. CASE scanGenericCommand
  <2>1. d' = d /\ answer' = answer
    BY <1>5 DEF scanGenericCommand
  <2> QED  BY <1>2, <2>1
<1>6. CASE ScanEnds
  BY <1>2, <1>6 DEF ScanEnds
<1>7. CASE databasesCron
  <2> DEFINE n == Max({d.ht[0].used, InitialSize})
  <2>1. n \in Nat
    <3>1. d.ht[0].used \in Nat /\ InitialSize \in Nat
      BY <1>1, DictAssumption DEF WellFormed, Chained, Tables
    <3> QED  BY <3>1, SMTT(30) DEF Max
  <2>2. Resized(d) = d \/ Resized(d) = dictExpand(d, n)
    BY DEF Resized
  <2> HIDE DEF n
  <2>3. WellFormed(world.hash, Resized(d)) /\ AllKeys(Resized(d)) = AllKeys(d)
    BY <1>1, <2>1, <2>2, Expanded
  <2>4. CronSteps \in Nat
    BY DictAssumption
  <2>5. d' = dictRehash(Resized(d), CronSteps) /\ answer' = answer
    BY <1>7 DEF databasesCron, Maintained
  <2> QED  BY <1>1, <2>3, <2>4, <2>5, Rehashed
<1>8. CASE Fork
  BY <1>2, <1>8 DEF Fork
<1>9. CASE ChildEnds
  BY <1>2, <1>9 DEF ChildEnds
<1> QED  BY <1>3, <1>4, <1>5, <1>6, <1>7, <1>8, <1>9

-----------------------------------------------------------------------------
(* The theorems.                                                            *)

LEMMA InitInv == Init => IInv /\ AllKeys(d) = {} /\ answer = [call |-> "none", ok |-> TRUE]
  BY EmptyDict DEF Init, IInv

LEMMA NextKeepsWorld == Next => world' = world
<1> SUFFICES ASSUME Next PROVE world' = world
  OBVIOUS
<1>1. ASSUME NEW k, dictAdd(k) \/ dictDelete(k) \/ dictFind(k)
      PROVE  world' = world
  BY <1>1 DEF dictAdd, dictDelete, dictFind
<1>2. CASE dictGetRandomKey \/ dictEmpty \/ dictGetSafeIterator
  BY <1>2 DEF dictGetRandomKey, dictEmpty, dictGetSafeIterator
<1>3. CASE dictNext
  BY <1>3 DEF dictNext
<1>4. CASE scanGenericCommand
  BY <1>4 DEF scanGenericCommand
<1>5. CASE ScanEnds \/ databasesCron \/ Fork \/ ChildEnds
  BY <1>5 DEF ScanEnds, databasesCron, Fork, ChildEnds
<1> QED  BY <1>1, <1>2, <1>3, <1>4, <1>5 DEF Next

\* Every step keeps the tables well formed and is a step of the set, or
\* leaves the set and the last answer as they are.
LEMMA NextStep ==
    ASSUME IInv, Next
    PROVE  IInv' /\ [Set!Next]_<<Keys, answer>>
<1>1. world' = world
  BY NextKeepsWorld
<1>2. Keys = AllKeys(d) /\ Keys' = AllKeys(d')
  BY DEF Keys, AllKeys
<1>3. DOMAIN world.hash \subseteq Key
  BY HashTyped DEF IInv
<1>4. ASSUME WellFormed(world.hash, d')
      PROVE  IInv'
  BY <1>1, <1>4 DEF IInv
<1>5. ASSUME NEW k \in DOMAIN world.hash, dictAdd(k)
      PROVE  IInv' /\ Set!Next
  <2>1. WellFormed(world.hash, d') /\ Set!Add(k)
    BY <1>2, <1>5, AddStep DEF Set!Add
  <2> QED  BY <1>3, <1>4, <2>1 DEF Set!Next
<1>6. ASSUME NEW k \in DOMAIN world.hash, dictDelete(k)
      PROVE  IInv' /\ Set!Next
  <2>1. WellFormed(world.hash, d') /\ Set!Delete(k)
    BY <1>2, <1>6, DeleteStep DEF Set!Delete
  <2> QED  BY <1>3, <1>4, <2>1 DEF Set!Next
<1>7. ASSUME NEW k \in DOMAIN world.hash, dictFind(k)
      PROVE  IInv' /\ Set!Next
  <2>1. WellFormed(world.hash, d') /\ Set!Find(k)
    BY <1>2, <1>7, FindStep DEF Set!Find
  <2> QED  BY <1>3, <1>4, <2>1 DEF Set!Next
<1>8. CASE dictGetRandomKey
  <2>1. WellFormed(world.hash, d') /\ Set!Random
    BY <1>2, <1>8, RandomStep DEF Set!Random
  <2> QED  BY <1>4, <2>1 DEF Set!Next
<1>9. CASE dictEmpty
  <2>1. WellFormed(world.hash, d') /\ Set!Empty
    BY <1>2, <1>9, EmptyStep DEF Set!Empty
  <2> QED  BY <1>4, <2>1 DEF Set!Next
<1>10. CASE dictGetSafeIterator \/ dictNext \/ scanGenericCommand \/ ScanEnds
              \/ databasesCron \/ Fork \/ ChildEnds
  <2>1. WellFormed(world.hash, d') /\ AllKeys(d') = AllKeys(d) /\ answer' = answer
    BY <1>10, InnerStep
  <2>2. Keys' = Keys
    BY <1>2, <2>1
  <2> QED  BY <1>4, <2>1, <2>2
<1> QED  BY <1>5, <1>6, <1>7, <1>8, <1>9, <1>10 DEF Next

LEMMA StutterStep ==
    ASSUME IInv, UNCHANGED vars
    PROVE  IInv' /\ UNCHANGED <<Keys, answer>>
  BY DEF IInv, vars, Keys

LEMMA Inductive == Spec => []IInv
<1>1. Init => IInv
  BY InitInv
<1>2. IInv /\ [Next]_vars => IInv'
  BY NextStep, StutterStep
<1> QED  BY <1>1, <1>2, PTL DEF Spec

LEMMA WellFormedIsConsistent == IInv => TablesConsistent
<1> SUFFICES ASSUME IInv PROVE TablesConsistent
  OBVIOUS
<1> DEFINE h == world.hash
<1>1. WellFormed(h, d)
  BY DEF IInv
<1>2. /\ Chained(h, d.ht[0]) /\ Chained(h, d.ht[1])
      /\ KeysOf(d.ht[0]) \cap KeysOf(d.ht[1]) = {}
      /\ d.rehashidx = None => d.ht[1] = EmptyTable
      /\ d.rehashidx # None =>
           \A b \in 0 .. d.ht[0].size - 1 : b < d.rehashidx => d.ht[0].table[b] = {}
  BY <1>1, Disassembled
<1>3. ASSUME NEW t, Chained(h, t)
      PROVE  /\ t.used = Cardinality(KeysOf(t)) /\ DOMAIN t.table = 0 .. t.size - 1
             /\ \A b \in DOMAIN t.table : \A k \in t.table[b] : Bucket(t, k) = b
  BY <1>3 DEF Chained, Bucket
<1>4. 0 .. 1 = {0, 1}
  OBVIOUS
<1>5. \A i \in 0 .. 1 :
        /\ d.ht[i].used = Cardinality(KeysOf(d.ht[i]))
        /\ \A b \in DOMAIN d.ht[i].table : \A k \in d.ht[i].table[b] : Bucket(d.ht[i], k) = b
  BY <1>2, <1>3, <1>4
<1>6. DOMAIN d.ht[0].table = 0 .. d.ht[0].size - 1
  BY <1>2, <1>3
<1> QED  BY <1>2, <1>5, <1>6 DEF TablesConsistent, dictIsRehashing

(***************************************************************************)
(* In every state of rehashing, after any calls, expansions and shrinkings, *)
(* each key is in one place, in the bucket of its hash, used counts the     *)
(* keys of a table, nothing is left before rehashidx and there is no second *)
(* table unless rehashing (dictAddRaw, dictGenericDelete, dictRehash,       *)
(* dictExpand).                                                             *)
(***************************************************************************)
THEOREM TablesSafe == Spec => []TablesConsistent
  BY Inductive, WellFormedIsConsistent, PTL

(***************************************************************************)
(* The dictionary implements a set of keys: dictAdd, dictDelete, dictFind,  *)
(* dictGetRandomKey and dictEmpty change and answer for the set as their    *)
(* names say; iterating, scanning, expanding, shrinking and rehashing do    *)
(* not show.                                                                *)
(***************************************************************************)
THEOREM DictIsSet == Spec => ImplementsSet
<1>1. Init => Set!Init
  BY InitInv DEF Set!Init, Keys, AllKeys
<1>2. IInv /\ [Next]_vars => [Set!Next]_<<Keys, answer>>
  BY NextStep, StutterStep
<1> QED  BY <1>1, <1>2, Inductive, PTL DEF Spec, ImplementsSet, Set!Spec

(***************************************************************************)
(* dictGetRandomKey, which skips the buckets before rehashidx, can draw     *)
(* every key of the dictionary and nothing else; so its loop, which draws   *)
(* until it meets a bucket that is not empty, has one to meet whenever      *)
(* dictSize is not 0.                                                       *)
(***************************************************************************)
THEOREM EveryKeyDrawn == Spec => [](Candidates(d) = Keys)
<1>1. IInv => Candidates(d) = Keys
  <2> SUFFICES ASSUME IInv PROVE Candidates(d) = Keys
    OBVIOUS
  <2>1. WellFormed(world.hash, d)
    BY DEF IInv
  <2>2. d.rehashidx # None =>
           \A b \in 0 .. d.ht[0].size - 1 : b < d.rehashidx => d.ht[0].table[b] = {}
    BY <2>1, Disassembled
  <2>3. DOMAIN d.ht[0].table = 0 .. d.ht[0].size - 1 /\ d.ht[0].size \in Nat
    BY <2>1 DEF WellFormed, Chained, Tables
  <2>4. d.rehashidx \in Nat \cup {None}
    BY <2>1, Disassembled
  <2>5. UNION {d.ht[0].table[i] : i \in {j \in DOMAIN d.ht[0].table : d.rehashidx # None => j >= d.rehashidx}}
          = KeysOf(d.ht[0])
    BY <2>2, <2>3, <2>4 DEF KeysOf
  <2> QED  BY <2>5 DEF Candidates, Keys, dictIsRehashing
<1> QED  BY <1>1, Inductive, PTL

-----------------------------------------------------------------------------
(***************************************************************************)
(* Safe iterators.  Key m is in bucket x of table t (In), or of table i of  *)
(* the dictionary e (At); the iterator it has yet to come to bucket x of    *)
(* table i (Later).                                                         *)
(***************************************************************************)
In(t, x, m) == x \in DOMAIN t.table /\ m \in t.table[x]

At(e, i, x, m) == In(e.ht[i], x, m)

Later(it, i, x) ==
    IF i = it.table THEN it.index = None \/ x > it.index ELSE it.table = 0

\* What is left of the chain is still there, every key that is missing is
\* ahead, and no key that was returned is.
IterOK(e, it) ==
    /\ it \in Iterators /\ it.entry \notin it.next
    /\ \A m \in it.next : At(e, it.table, it.index, m)
    /\ \A m \in it.missing :
         m \in it.next \/ \E i \in {0, 1}, x \in Nat : At(e, i, x, m) /\ Later(it, i, x)
    /\ \A m \in it.seen :
         /\ m \notin it.next /\ \E i \in {0, 1}, x \in Nat : At(e, i, x, m)
         /\ \A i \in {0, 1}, x \in Nat : At(e, i, x, m) => ~Later(it, i, x)

\* The two dictionaries have the same keys in the same places, but for k.
Same(e, f, k) ==
    \A i \in {0, 1}, x \in Nat : \A m : m # k => (At(e, i, x, m) <=> At(f, i, x, m))

IterInv ==
    /\ d.iterators \in Nat
    /\ iter # None => d.iterators > 0 /\ IterOK(d, iter)

\* A key is in one place.
LEMMA OnePlace ==
    ASSUME NEW h, NEW e, WellFormed(h, e)
    PROVE  /\ \A i \in {0, 1} : \A x, m : At(e, i, x, m) => x \in Nat /\ m \in AllKeys(e) /\ m \in DOMAIN h
           /\ \A i, j \in {0, 1} : \A x, y, m : At(e, i, x, m) /\ At(e, j, y, m) => i = j /\ x = y
           /\ \A m \in AllKeys(e) : \E i \in {0, 1}, x \in Nat : At(e, i, x, m)
           /\ \A x, m : At(e, 1, x, m) => e.rehashidx # None
<1> DEFINE a == e.ht[0]
           b == e.ht[1]
<1>1. /\ Chained(h, a) /\ Chained(h, b) /\ KeysOf(a) \cap KeysOf(b) = {}
      /\ e.rehashidx = None => b = EmptyTable
  BY Disassembled
<1>2. ASSUME NEW t, Chained(h, t)
      PROVE  /\ DOMAIN t.table = 0 .. t.size - 1 /\ t.size \in Nat
             /\ \A x, m : x \in DOMAIN t.table /\ m \in t.table[x]
                           => x \in Nat /\ m \in KeysOf(t) /\ m \in DOMAIN h /\ h[m] % t.size = x
             /\ \A m \in KeysOf(t) : \E x \in Nat : x \in DOMAIN t.table /\ m \in t.table[x]
  <2>1. /\ DOMAIN t.table = 0 .. t.size - 1 /\ t.size \in Nat
        /\ \A x \in 0 .. t.size - 1 : t.table[x] \subseteq DOMAIN h
    BY <1>2 DEF Chained, Tables
  <2>2. \A x \in 0 .. t.size - 1 : x \in Nat
    BY <2>1
  <2> QED  BY <1>2, <2>1, <2>2 DEF Chained, KeysOf
<1>3. \A x, m : At(e, 0, x, m) => x \in Nat /\ m \in KeysOf(a) /\ m \in DOMAIN h /\ h[m] % a.size = x
  BY <1>1, <1>2 DEF At, In
<1>4. \A x, m : At(e, 1, x, m) => x \in Nat /\ m \in KeysOf(b) /\ m \in DOMAIN h /\ h[m] % b.size = x
  BY <1>1, <1>2 DEF At, In
<1>5. \A m \in KeysOf(a) : \E x \in Nat : At(e, 0, x, m)
  BY <1>1, <1>2 DEF At, In
<1>6. \A m \in KeysOf(b) : \E x \in Nat : At(e, 1, x, m)
  BY <1>1, <1>2 DEF At, In
<1>7. \A x, m : At(e, 1, x, m) => e.rehashidx # None
  BY <1>1, EmptyTableChained, <1>4
<1> HIDE DEF a, b
<1>8. AllKeys(e) = KeysOf(a) \cup KeysOf(b)
  BY DEF AllKeys, a, b
<1>9. \A i, j \in {0, 1} : \A x, y, m : At(e, i, x, m) /\ At(e, j, y, m) => i = j /\ x = y
  <2> SUFFICES ASSUME NEW i \in {0, 1}, NEW j \in {0, 1}, NEW x, NEW y, NEW m,
                      At(e, i, x, m), At(e, j, y, m)
               PROVE  i = j /\ x = y
    OBVIOUS
  <2>1. CASE i = 0 /\ j = 0
    BY <1>3, <2>1
  <2>2. CASE i = 1 /\ j = 1
    BY <1>4, <2>2
  <2>3. CASE i # j
    BY <1>1, <1>3, <1>4, <2>3
  <2> QED  BY <2>1, <2>2, <2>3
<1>10. \A i \in {0, 1} : \A x, m : At(e, i, x, m) => x \in Nat /\ m \in AllKeys(e) /\ m \in DOMAIN h
  BY <1>3, <1>4, <1>8
<1>11. \A m \in AllKeys(e) : \E i \in {0, 1}, x \in Nat : At(e, i, x, m)
  BY <1>5, <1>6, <1>8
<1> QED  BY <1>7, <1>9, <1>10, <1>11

\* The iterator does not notice a key it has nothing to do with.
LEMMA FrameIter ==
    ASSUME NEW e, NEW f, NEW it, NEW k, IterOK(e, it), Same(e, f, k),
           it.index \in Nat \/ it.next = {},
           k \notin it.next, k \notin it.missing, k \notin it.seen
    PROVE  IterOK(f, it)
<1>1. it.table \in {0, 1}
  BY DEF IterOK, Iterators
<1>2. \A m \in it.next : At(f, it.table, it.index, m)
  BY <1>1 DEF IterOK, Same
<1>3. ASSUME NEW m \in it.missing, m \notin it.next
      PROVE  \E i \in {0, 1}, x \in Nat : At(f, i, x, m) /\ Later(it, i, x)
  <2>1. PICK i \in {0, 1}, x \in Nat : At(e, i, x, m) /\ Later(it, i, x)
    BY <1>3 DEF IterOK
  <2> QED  BY <1>3, <2>1 DEF Same
<1>4. ASSUME NEW m \in it.seen
      PROVE  /\ m \notin it.next /\ \E i \in {0, 1}, x \in Nat : At(f, i, x, m)
             /\ \A i \in {0, 1}, x \in Nat : At(f, i, x, m) => ~Later(it, i, x)
  <2>1. m # k
    BY <1>4
  <2>2. /\ m \notin it.next /\ \E i \in {0, 1}, x \in Nat : At(e, i, x, m)
        /\ \A i \in {0, 1}, x \in Nat : At(e, i, x, m) => ~Later(it, i, x)
    BY <1>4 DEF IterOK
  <2> QED  BY <2>1, <2>2 DEF Same
<1> QED  BY <1>2, <1>3, <1>4 DEF IterOK

-----------------------------------------------------------------------------
(* What the calls do to the other keys.                                     *)

LEMMA SamePlaces ==
    ASSUME NEW e, NEW f, NEW k,
           \A x, m : m # k => (In(e.ht[0], x, m) <=> In(f.ht[0], x, m)),
           \A x, m : m # k => (In(e.ht[1], x, m) <=> In(f.ht[1], x, m))
    PROVE  Same(e, f, k)
<1> SUFFICES ASSUME NEW i \in {0, 1}, NEW x \in Nat, NEW m, m # k
             PROVE  At(e, i, x, m) <=> At(f, i, x, m)
  BY DEF Same
<1>1. CASE i = 0
  BY <1>1 DEF At
<1>2. CASE i = 1
  BY <1>2 DEF At
<1> QED  BY <1>1, <1>2

\* Expanding adds a table without keys.
LEMMA ExpandedSame ==
    ASSUME NEW h, NEW e, WellFormed(h, e), NEW n \in Nat, NEW k
    PROVE  Same(e, dictExpand(e, n), k)
<1> DEFINE a == e.ht[0]
           b == e.ht[1]
           it == e.iterators
           t == NewTable(NextPower(n))
           zero == 0
<1>1. /\ e = DictOf(a, b, e.rehashidx, it) /\ Chained(h, a)
      /\ e.rehashidx = None => b = EmptyTable
  BY Disassembled
<1>2. a.size \in Nat /\ DOMAIN a.table = 0 .. a.size - 1
  BY <1>1 DEF Chained, Tables
<1>3. a.size = 0 => \A x, m : ~In(a, x, m)
  BY <1>2 DEF In
<1>4. \A x, m : ~In(t, x, m)
  BY DEF In, NewTable
<1>5. \A x, m : ~In(EmptyTable, x, m)
  BY DEF In, EmptyTable
<1>6. CASE CannotExpand(e, n)
  <2>1. dictExpand(e, n) = e
    BY <1>6 DEF dictExpand
  <2> QED  BY <2>1, SamePlaces
<1>7. CASE ~CannotExpand(e, n) /\ a.size = 0
  <2>1. dictExpand(e, n) = WithFirst(e, t)
    BY <1>7 DEF dictExpand, WithFirst
  <2> HIDE DEF t, a, b, it
  <2>2. dictExpand(e, n) = DictOf(t, b, e.rehashidx, it)
    BY <1>1, <2>1, DictExcept
  <2>3. dictExpand(e, n).ht[0] = t /\ dictExpand(e, n).ht[1] = b
    BY <2>2, DictFields
  <2>4. e.ht[0] = a /\ e.ht[1] = b
    BY DEF a, b
  <2> QED  BY <1>3, <1>4, <1>7, <2>3, <2>4, SamePlaces
<1>8. CASE ~CannotExpand(e, n) /\ a.size # 0
  <2>1. e.rehashidx = None
    BY <1>8 DEF CannotExpand, dictIsRehashing
  <2>2. dictExpand(e, n) = WithIndex(WithSecond(e, t), zero)
    BY <1>8 DEF dictExpand, WithSecond, WithIndex
  <2> HIDE DEF t, a, b, it, zero
  <2>3. dictExpand(e, n) = DictOf(a, t, zero, it)
    BY <1>1, <2>2, DictExcept
  <2>4. dictExpand(e, n).ht[0] = a /\ dictExpand(e, n).ht[1] = t
    BY <2>3, DictFields
  <2>5. e.ht[0] = a /\ e.ht[1] = EmptyTable
    BY <1>1, <2>1 DEF a, b
  <2> QED  BY <1>4, <1>5, <2>4, <2>5, SamePlaces
<1> QED  BY <1>6, <1>7, <1>8

LEMMA ExpandedIfNeededSame ==
    ASSUME NEW h, NEW e, WellFormed(h, e), NEW k
    PROVE  Same(e, ExpandIfNeeded(e), k)
<1> DEFINE n == e.ht[0].used * 2
<1>1. n \in Nat
  BY DEF WellFormed, Chained, Tables
<1>2. InitialSize \in Nat
  BY DictAssumption
<1>3. \/ ExpandIfNeeded(e) = e \/ ExpandIfNeeded(e) = dictExpand(e, n)
      \/ ExpandIfNeeded(e) = dictExpand(e, InitialSize)
  BY DEF ExpandIfNeeded
<1>4. Same(e, e, k)
  BY DEF Same
<1> HIDE DEF n
<1> QED  BY <1>1, <1>2, <1>3, <1>4, ExpandedSame

LEMMA InsertSame ==
    ASSUME NEW t, Chained(world.hash, t), world.hash \in [DOMAIN world.hash -> Nat],
           NEW k \in DOMAIN world.hash, t.size > 0
    PROVE  \A x, m : m # k => (In(t, x, m) <=> In(Insert(t, k), x, m))
<1> DEFINE h == world.hash
           c == h[k] % t.size
           f == [t.table EXCEPT ![c] = @ \cup {k}]
           u == t.used + 1
<1>1. t \in Tables(h) /\ t.table \in [0 .. t.size - 1 -> SUBSET DOMAIN h]
  BY DEF Chained
<1>2. c \in 0 .. t.size - 1
  BY KeyInBucket
<1>3. Insert(t, k).table = f
  <2>1. t = [size |-> t.size, used |-> t.used, table |-> t.table]
    BY <1>1 DEF Tables
  <2>2. Insert(t, k) = [t EXCEPT !.used = t.used + 1, !.table = f]
    BY <2>1 DEF Insert, Bucket
  <2> QED  BY <2>1, <2>2
<1>4. DOMAIN f = DOMAIN t.table /\ \A x \in DOMAIN t.table : \A m : m # k => (m \in t.table[x] <=> m \in f[x])
  BY <1>1, <1>2
<1> HIDE DEF f
<1> QED  BY <1>3, <1>4 DEF In

LEMMA UnlinkSame ==
    ASSUME NEW t, Chained(world.hash, t), world.hash \in [DOMAIN world.hash -> Nat],
           NEW k \in DOMAIN world.hash, k \in KeysOf(t)
    PROVE  \A x, m : m # k => (In(t, x, m) <=> In(Unlink(t, k), x, m))
<1> DEFINE h == world.hash
           c == h[k] % t.size
           f == [t.table EXCEPT ![c] = @ \ {k}]
           u == t.used - 1
<1>1. t \in Tables(h) /\ t.table \in [0 .. t.size - 1 -> SUBSET DOMAIN h]
  BY DEF Chained
<1>2. c \in 0 .. t.size - 1
  BY KeyInBucket
<1>3. Unlink(t, k).table = f
  <2>1. t = [size |-> t.size, used |-> t.used, table |-> t.table]
    BY <1>1 DEF Tables
  <2>2. Unlink(t, k) = [t EXCEPT !.used = t.used - 1, !.table = f]
    BY <2>1 DEF Unlink, Bucket
  <2> QED  BY <2>1, <2>2
<1>4. DOMAIN f = DOMAIN t.table /\ \A x \in DOMAIN t.table : \A m : m # k => (m \in t.table[x] <=> m \in f[x])
  BY <1>1, <1>2
<1> HIDE DEF f
<1> QED  BY <1>3, <1>4 DEF In

LEMMA AddedSame ==
    ASSUME NEW e, WellFormed(world.hash, e), world.hash \in [DOMAIN world.hash -> Nat],
           NEW k \in DOMAIN world.hash, e.rehashidx = None => e.ht[0].size > 0
    PROVE  Same(e, AddRaw(e, k), k) /\ AddRaw(e, k).iterators = e.iterators
<1> DEFINE h == world.hash
           a == e.ht[0]
           b == e.ht[1]
           r == e.rehashidx
           it == e.iterators
<1>1. /\ e = DictOf(a, b, r, it) /\ Chained(h, a) /\ Chained(h, b)
      /\ r # None => b.size > 0
  BY Disassembled
<1>2. CASE r = None
  <2> DEFINE t == Insert(a, k)
  <2>1. AddRaw(e, k) = WithFirst(e, t)
    BY <1>2 DEF AddRaw, dictIsRehashing, WithFirst
  <2>2. \A x, m : m # k => (In(a, x, m) <=> In(t, x, m))
    BY <1>1, <1>2, InsertSame
  <2> HIDE DEF t, a, b, r, it
  <2>3. AddRaw(e, k) = DictOf(t, b, r, it)
    BY <1>1, <2>1, DictExcept
  <2>4. AddRaw(e, k).ht[0] = t /\ AddRaw(e, k).ht[1] = b /\ AddRaw(e, k).iterators = it
    BY <2>3, DictFields
  <2>5. e.ht[0] = a /\ e.ht[1] = b /\ e.iterators = it
    BY DEF a, b, it
  <2> QED  BY <2>2, <2>4, <2>5, SamePlaces
<1>3. CASE r # None
  <2> DEFINE t == Insert(b, k)
  <2>1. AddRaw(e, k) = WithSecond(e, t)
    BY <1>3 DEF AddRaw, dictIsRehashing, WithSecond
  <2>2. \A x, m : m # k => (In(b, x, m) <=> In(t, x, m))
    BY <1>1, <1>3, InsertSame
  <2> HIDE DEF t, a, b, r, it
  <2>3. AddRaw(e, k) = DictOf(a, t, r, it)
    BY <1>1, <2>1, DictExcept
  <2>4. AddRaw(e, k).ht[0] = a /\ AddRaw(e, k).ht[1] = t /\ AddRaw(e, k).iterators = it
    BY <2>3, DictFields
  <2>5. e.ht[0] = a /\ e.ht[1] = b /\ e.iterators = it
    BY DEF a, b, it
  <2> QED  BY <2>2, <2>4, <2>5, SamePlaces
<1> QED  BY <1>2, <1>3

LEMMA DeletedSame ==
    ASSUME NEW e, WellFormed(world.hash, e), world.hash \in [DOMAIN world.hash -> Nat],
           NEW k \in DOMAIN world.hash, k \in AllKeys(e), NEW f,
           f = [e EXCEPT !.ht[Min(Lookup(e, k))] = Unlink(@, k)]
    PROVE  Same(e, f, k) /\ f.iterators = e.iterators
<1> DEFINE h == world.hash
           a == e.ht[0]
           b == e.ht[1]
           r == e.rehashidx
           it == e.iterators
<1>1. e = DictOf(a, b, r, it) /\ Chained(h, a) /\ Chained(h, b)
  BY Disassembled
<1>2. CASE k \in KeysOf(a)
  <2> DEFINE t == Unlink(a, k)
  <2>1. Lookup(e, k) = {0}
    BY <1>2, LookedUp
  <2>2. Min(Lookup(e, k)) = 0
    BY <2>1 DEF Min
  <2>3. f = WithFirst(e, t)
    BY <2>2 DEF WithFirst
  <2>4. \A x, m : m # k => (In(a, x, m) <=> In(t, x, m))
    BY <1>1, <1>2, UnlinkSame
  <2> HIDE DEF t, a, b, r, it
  <2>5. f = DictOf(t, b, r, it)
    BY <1>1, <2>3, DictExcept
  <2>6. f.ht[0] = t /\ f.ht[1] = b /\ f.iterators = it
    <3>1. DictOf(t, b, r, it).ht[0] = t /\ DictOf(t, b, r, it).ht[1] = b /\ DictOf(t, b, r, it).iterators = it
      BY DictFields
    <3> QED  BY <2>5, <3>1, Zenon
  <2>7. e.ht[0] = a /\ e.ht[1] = b /\ e.iterators = it
    BY DEF a, b, it
  <2> QED  BY <2>4, <2>6, <2>7, SamePlaces
<1>3. CASE k \in KeysOf(b)
  <2> DEFINE t == Unlink(b, k)
  <2>1. Lookup(e, k) = {1}
    BY <1>3, LookedUp
  <2>2. Min(Lookup(e, k)) = 1
    BY <2>1 DEF Min
  <2>3. f = WithSecond(e, t)
    BY <2>2 DEF WithSecond
  <2>4. \A x, m : m # k => (In(b, x, m) <=> In(t, x, m))
    BY <1>1, <1>3, UnlinkSame
  <2> HIDE DEF t, a, b, r, it
  <2>5. f = DictOf(a, t, r, it)
    BY <1>1, <2>3, DictExcept
  <2>6. f.ht[0] = a /\ f.ht[1] = t /\ f.iterators = it
    <3>1. DictOf(a, t, r, it).ht[0] = a /\ DictOf(a, t, r, it).ht[1] = t /\ DictOf(a, t, r, it).iterators = it
      BY DictFields
    <3> QED  BY <2>5, <3>1, Zenon
  <2>7. e.ht[0] = a /\ e.ht[1] = b /\ e.iterators = it
    BY DEF a, b, it
  <2> QED  BY <2>4, <2>6, <2>7, SamePlaces
<1> QED  BY <1>2, <1>3 DEF AllKeys

-----------------------------------------------------------------------------
(* The bucket an iterator goes to.                                          *)

\* A set of natural numbers has a least element.
LEMMA LeastNat ==
    ASSUME NEW T, T \subseteq Nat, T # {}
    PROVE  \E x \in T : \A y \in T : x <= y
<1> DEFINE R == OpToRel(<, Nat)
<1>1. IsWellFoundedOn(R, Nat)
  BY NatLessThanWellFounded, Zenon
<1>2. \A y, x \in Nat : y < x => <<y, x>> \in R
  BY Zenon DEF OpToRel
<1> HIDE DEF R
<1>3. PICK x \in T : \A y \in T : ~(<<y, x>> \in R)
  BY <1>1, WFMin
<1>4. \A y \in T : ~(y < x)
  BY <1>2, <1>3
<1>5. x \in Nat /\ \A y \in T : y \in Nat
  OBVIOUS
<1> QED  BY <1>3, <1>4, <1>5

\* p is a bucket of ps and none of them is before it.
IsFirst(p, ps) ==
    p \in ps /\ \A q \in ps : p[1] < q[1] \/ (p[1] = q[1] /\ p[2] <= q[2])

LEMMA FirstIs ==
    ASSUME NEW ps, ps \subseteq {0, 1} \X Nat, ps # {}
    PROVE  IsFirst(First(ps), ps)
<1> DEFINE T(i) == {y \in Nat : <<i, y>> \in ps}
<1>1. \A q \in ps : q[1] \in {0, 1} /\ q[2] \in T(q[1]) /\ q = <<q[1], q[2]>>
  <2> SUFFICES ASSUME NEW q \in ps
               PROVE  q[1] \in {0, 1} /\ q[2] \in T(q[1]) /\ q = <<q[1], q[2]>>
    OBVIOUS
  <2>1. q[1] \in {0, 1} /\ q[2] \in Nat /\ q = <<q[1], q[2]>>
    OBVIOUS
  <2> QED  BY <2>1
<1>2. ASSUME NEW i \in {0, 1}, T(i) # {}, \A q \in ps : i <= q[1]
      PROVE  \E p \in ps : IsFirst(p, ps)
  <2>1. T(i) \subseteq Nat
    OBVIOUS
  <2>2. PICK x \in T(i) : \A y \in T(i) : x <= y
    <3> HIDE DEF T
    <3> QED  BY <1>2, <2>1, LeastNat
  <2>3. <<i, x>> \in ps
    BY <2>2
  <2>4. ASSUME NEW q \in ps
        PROVE  i < q[1] \/ (i = q[1] /\ x <= q[2])
    <3>1. q[1] \in {0, 1} /\ q[2] \in T(q[1]) /\ i <= q[1]
      BY <1>1, <1>2
    <3> HIDE DEF T
    <3> QED  BY <2>2, <3>1
  <2>5. IsFirst(<<i, x>>, ps)
    BY <2>3, <2>4 DEF IsFirst
  <2> QED  BY <2>3, <2>5
<1>3. \E p \in ps : IsFirst(p, ps)
  <2>1. CASE T(0) # {}
    <3>1. \A q \in ps : 0 <= q[1]
      BY <1>1
    <3> HIDE DEF T
    <3> QED  BY <1>2, <2>1, <3>1
  <2>2. CASE T(0) = {}
    <3>1. \A q \in ps : q[1] = 1 /\ q[2] \in T(1)
      BY <1>1, <2>2
    <3> HIDE DEF T
    <3>2. T(1) # {} /\ \A q \in ps : 1 <= q[1]
      BY <3>1
    <3> QED  BY <1>2, <3>2
  <2> QED  BY <2>1, <2>2
<1>4. First(ps) = CHOOSE p \in ps : IsFirst(p, ps)
  BY Zenon DEF First, IsFirst
<1> QED  BY <1>3, <1>4

\* The buckets ahead are those with keys the iterator still has to come to.
LEMMA AheadIs ==
    ASSUME IInv, IterOK(d, iter)
    PROVE  /\ Ahead \subseteq {0, 1} \X Nat
           /\ \A i \in {0, 1}, x \in Nat :
                <<i, x>> \in Ahead <=> Later(iter, i, x) /\ \E m : At(d, i, x, m)
<1> DEFINE Rest(i) == {<<i, j>> : j \in {x \in DOMAIN d.ht[i].table :
                         /\ d.ht[i].table[x] # {}
                         /\ i = iter.table /\ iter.index # None => x > iter.index}}
<1>1. WellFormed(world.hash, d)
  BY DEF IInv
<1>2. iter.table \in {0, 1}
  BY DEF IterOK, Iterators
<1>3. Ahead = IF iter.table = 0 /\ dictIsRehashing(d) THEN Rest(0) \cup Rest(1) ELSE Rest(iter.table)
  BY Zenon DEF Ahead
<1>4. \A i \in {0, 1} : \A x \in DOMAIN d.ht[i].table : x \in Nat
  <2>1. DOMAIN d.ht[0].table = 0 .. d.ht[0].size - 1 /\ d.ht[0].size \in Nat
    BY <1>1 DEF WellFormed, Chained, Tables
  <2>2. DOMAIN d.ht[1].table = 0 .. d.ht[1].size - 1 /\ d.ht[1].size \in Nat
    BY <1>1 DEF WellFormed, Chained, Tables
  <2> QED  BY <2>1, <2>2
<1>5. \A i \in {0, 1} : Rest(i) \subseteq {0, 1} \X Nat
  BY <1>4
<1>6. \A i, j \in {0, 1}, x \in Nat :
        <<i, x>> \in Rest(j) <=> /\ i = j /\ (i = iter.table /\ iter.index # None => x > iter.index)
                                 /\ \E m : At(d, i, x, m)
  <2> SUFFICES ASSUME NEW i \in {0, 1}, NEW j \in {0, 1}, NEW x \in Nat
               PROVE  <<i, x>> \in Rest(j) <=>
                        /\ i = j /\ (i = iter.table /\ iter.index # None => x > iter.index)
                        /\ \E m : At(d, i, x, m)
    OBVIOUS
  <2>1. (\E m : At(d, i, x, m)) <=> x \in DOMAIN d.ht[i].table /\ d.ht[i].table[x] # {}
    BY DEF At, In
  <2> QED  BY <2>1
<1>7. \A x, m : At(d, 1, x, m) => dictIsRehashing(d)
  BY <1>1, OnePlace DEF dictIsRehashing
<1> HIDE DEF Rest
<1> QED  BY <1>2, <1>3, <1>5, <1>6, <1>7 DEF Later

-----------------------------------------------------------------------------
(* The steps of an iterator.                                                *)

\* dictNext returns k, in bucket x of table i, and nx is what follows it there.
Moved(it, i, x, k, nx) ==
    [it EXCEPT !.table = i, !.index = x, !.entry = k, !.next = nx, !.missing = @ \ {k},
               !.seen = IF k \in it.missing THEN @ \cup {k} ELSE @]

\* Bucket y of table j comes after bucket x of table i.
After(i, x, j, y) == IF j = i THEN y > x ELSE i = 0

LEMMA MovedFields ==
    ASSUME NEW it \in Iterators, NEW i \in {0, 1}, NEW x \in Nat, NEW k \in Key, NEW nx \in SUBSET Key
    PROVE  LET r == Moved(it, i, x, k, nx)
           IN  /\ r \in Iterators /\ r.table = i /\ r.index = x /\ r.entry = k /\ r.next = nx
               /\ r.missing = it.missing \ {k}
               /\ r.seen \subseteq it.seen \cup {k} /\ it.seen \subseteq r.seen
               /\ \A j \in {0, 1}, y \in Nat : Later(r, j, y) <=> After(i, x, j, y)
<1> DEFINE s == IF k \in it.missing THEN it.seen \cup {k} ELSE it.seen
           mi == it.missing \ {k}
           r == Moved(it, i, x, k, nx)
<1>1. /\ it.missing \in SUBSET Key /\ it.seen \in SUBSET Key
      /\ it = [table |-> it.table, index |-> it.index, entry |-> it.entry, next |-> it.next,
               missing |-> it.missing, seen |-> it.seen]
  BY DEF Iterators
<1>2. s \in SUBSET Key /\ mi \in SUBSET Key
  BY <1>1
<1>3. s \subseteq it.seen \cup {k} /\ it.seen \subseteq s
  OBVIOUS
<1>4. r = [it EXCEPT !.table = i, !.index = x, !.entry = k, !.next = nx, !.missing = mi, !.seen = s]
  BY <1>1 DEF Moved
<1> HIDE DEF s, mi, r
<1>5. r = [table |-> i, index |-> x, entry |-> k, next |-> nx, missing |-> mi, seen |-> s]
  BY <1>1, <1>4
<1>6. r \in Iterators
  BY <1>2, <1>5 DEF Iterators
<1>7. \A j \in {0, 1}, y \in Nat : Later(r, j, y) <=> After(i, x, j, y)
  BY <1>5, DictAssumption DEF Later, After
<1> QED  BY <1>3, <1>5, <1>6, <1>7 DEF r, mi

\* The bucket B it is in, what is missing and what was seen decide whether the
\* next position is right.
LEMMA MovedOK ==
    ASSUME NEW h, NEW e, WellFormed(h, e), DOMAIN h \subseteq Key, NEW it, IterOK(e, it),
           NEW i \in {0, 1}, NEW x \in Nat, NEW B, NEW k \in B,
           \A m \in B : At(e, i, x, m),
           \A m \in it.missing :
             m \in B \/ \E j \in {0, 1}, y \in Nat : At(e, j, y, m) /\ After(i, x, j, y),
           \A m \in it.seen :
             m \notin B /\ \A j \in {0, 1}, y \in Nat : At(e, j, y, m) => ~After(i, x, j, y)
    PROVE  IterOK(e, Moved(it, i, x, k, B \ {k}))
<1> DEFINE nx == B \ {k}
           r == Moved(it, i, x, k, nx)
<1>1. \A m \in B : m \in Key
  BY OnePlace
<1>2. it \in Iterators
  BY DEF IterOK
<1>3. nx \in SUBSET Key /\ k \in Key /\ k \notin nx
  BY <1>1
<1>4. \A m : m \in B <=> m = k \/ m \in nx
  OBVIOUS
<1> HIDE DEF nx
<1>5. /\ r \in Iterators /\ r.table = i /\ r.index = x /\ r.entry = k /\ r.next = nx
      /\ r.missing = it.missing \ {k}
      /\ r.seen \subseteq it.seen \cup {k} /\ it.seen \subseteq r.seen
      /\ \A j \in {0, 1}, y \in Nat : Later(r, j, y) <=> After(i, x, j, y)
  BY <1>2, <1>3, MovedFields
<1> HIDE DEF r
<1>6. \A m \in r.next : At(e, r.table, r.index, m)
  BY <1>4, <1>5
<1>7. ASSUME NEW m \in r.missing, m \notin r.next
      PROVE  \E j \in {0, 1}, y \in Nat : At(e, j, y, m) /\ Later(r, j, y)
  <2>1. m \in it.missing /\ m \notin B
    BY <1>4, <1>5, <1>7
  <2>2. PICK j \in {0, 1}, y \in Nat : At(e, j, y, m) /\ After(i, x, j, y)
    BY <2>1
  <2> QED  BY <1>5, <2>2
<1>8. ASSUME NEW m \in r.seen
      PROVE  /\ m \notin r.next /\ \E j \in {0, 1}, y \in Nat : At(e, j, y, m)
             /\ \A j \in {0, 1}, y \in Nat : At(e, j, y, m) => ~Later(r, j, y)
  <2>1. CASE m = k
    <3>1. At(e, i, x, k)
      OBVIOUS
    <3>2. ASSUME NEW j \in {0, 1}, NEW y \in Nat, At(e, j, y, k)
          PROVE  ~After(i, x, j, y)
      <4>1. j = i /\ y = x
        BY <3>1, <3>2, OnePlace
      <4> QED  BY <4>1 DEF After
    <3> QED  BY <1>3, <1>5, <2>1, <3>1, <3>2
  <2>2. CASE m \in it.seen
    <3>1. \E j \in {0, 1}, y \in Nat : At(e, j, y, m)
      BY <2>2 DEF IterOK
    <3>2. m \notin B /\ \A j \in {0, 1}, y \in Nat : At(e, j, y, m) => ~After(i, x, j, y)
      BY <2>2
    <3> QED  BY <1>4, <1>5, <3>1, <3>2
  <2> QED  BY <1>5, <1>8, <2>1, <2>2
<1>9. r.entry \notin r.next
  BY <1>3, <1>5
<1>10. IterOK(e, r)
  BY <1>5, <1>6, <1>7, <1>8, <1>9 DEF IterOK
<1> QED  BY <1>10 DEF r, nx

\* The next key of the chain.
LEMMA InChain ==
    ASSUME NEW h, NEW e, WellFormed(h, e), DOMAIN h \subseteq Key, NEW it, IterOK(e, it), NEW k \in it.next
    PROVE  /\ IterOK(e, Moved(it, it.table, it.index, k, it.next \ {k}))
           /\ k \notin it.seen
<1>1. it.table \in {0, 1} /\ it.index \in Nat \cup {None}
  BY DEF IterOK, Iterators
<1>2. \A m \in it.next : At(e, it.table, it.index, m)
  BY DEF IterOK
<1>3. it.index \in Nat
  BY <1>1, <1>2, OnePlace
<1>4. it.index # None
  BY <1>3, DictAssumption
<1>5. \A j \in {0, 1}, y \in Nat : Later(it, j, y) <=> After(it.table, it.index, j, y)
  BY <1>4 DEF Later, After
<1>6. \A m \in it.missing :
        m \in it.next \/ \E j \in {0, 1}, y \in Nat : At(e, j, y, m) /\ After(it.table, it.index, j, y)
  <2> SUFFICES ASSUME NEW m \in it.missing, m \notin it.next
               PROVE  \E j \in {0, 1}, y \in Nat : At(e, j, y, m) /\ After(it.table, it.index, j, y)
    OBVIOUS
  <2>1. PICK j \in {0, 1}, y \in Nat : At(e, j, y, m) /\ Later(it, j, y)
    BY DEF IterOK
  <2> QED  BY <1>5, <2>1
<1>7. \A m \in it.seen :
        m \notin it.next /\ \A j \in {0, 1}, y \in Nat : At(e, j, y, m) => ~After(it.table, it.index, j, y)
  BY <1>5 DEF IterOK
<1> QED  BY <1>1, <1>2, <1>3, <1>6, <1>7, MovedOK

\* The head of the next bucket that has keys.
LEMMA NextBucket ==
    ASSUME NEW h, NEW e, WellFormed(h, e), DOMAIN h \subseteq Key, NEW it, IterOK(e, it), it.next = {},
           NEW i \in {0, 1}, NEW x \in Nat, Later(it, i, x), NEW B, NEW k \in B,
           \A m : m \in B <=> At(e, i, x, m),
           \A j \in {0, 1}, y \in Nat : \A m :
             Later(it, j, y) /\ At(e, j, y, m) => (i = j /\ x = y) \/ After(i, x, j, y)
    PROVE  IterOK(e, Moved(it, i, x, k, B \ {k})) /\ k \notin it.seen
<1>1. it.table \in {0, 1} /\ it.index \in Nat \cup {None} /\ None \notin Nat
  BY DictAssumption DEF IterOK, Iterators
<1>2. \A j \in {0, 1}, y \in Nat : After(i, x, j, y) => Later(it, j, y)
  BY <1>1 DEF After, Later
<1>3. \A m \in it.missing :
        m \in B \/ \E j \in {0, 1}, y \in Nat : At(e, j, y, m) /\ After(i, x, j, y)
  <2> SUFFICES ASSUME NEW m \in it.missing, m \notin B
               PROVE  \E j \in {0, 1}, y \in Nat : At(e, j, y, m) /\ After(i, x, j, y)
    OBVIOUS
  <2>1. PICK j \in {0, 1}, y \in Nat : At(e, j, y, m) /\ Later(it, j, y)
    BY DEF IterOK
  <2> QED  BY <2>1
<1>4. \A m \in it.seen :
        m \notin B /\ \A j \in {0, 1}, y \in Nat : At(e, j, y, m) => ~After(i, x, j, y)
  <2>1. \A m \in it.seen, j \in {0, 1}, y \in Nat : At(e, j, y, m) => ~Later(it, j, y)
    BY DEF IterOK
  <2> QED  BY <1>2, <2>1
<1> QED  BY <1>3, <1>4, MovedOK

\* What IterInv says, step by step: the iterator is there and right.
LEMMA IterStep ==
    ASSUME d'.iterators \in Nat,
           iter' # None => d'.iterators > 0 /\ IterOK(d', iter')
    PROVE  IterInv'
  BY DEF IterInv

LEMMA DictNextStep ==
    ASSUME IInv, IterInv, dictNext
    PROVE  IterInv' /\ IteratedOnce
<1> DEFINE h == world.hash
           B == d.ht[First(Ahead)[1]].table[First(Ahead)[2]]
<1>1. WellFormed(h, d) /\ DOMAIN h \subseteq Key
  BY HashTyped DEF IInv
<1>2. iter # None /\ d.iterators \in Nat /\ d.iterators > 0 /\ IterOK(d, iter)
  BY DEF dictNext, NoIterator, IterInv
<1>3. /\ Ahead \subseteq {0, 1} \X Nat
      /\ \A i \in {0, 1}, x \in Nat :
           <<i, x>> \in Ahead <=> Later(iter, i, x) /\ \E m : At(d, i, x, m)
  BY <1>2, AheadIs
<1>4. ASSUME NEW r, iter' = r, d' = d, IterOK(d, r), r.entry \notin iter.seen
      PROVE  IterInv' /\ IteratedOnce
  <2>1. IterInv'
    BY <1>2, <1>4, IterStep
  <2>2. iter' # None
    <3>1. r \in Iterators
      BY <1>4 DEF IterOK
    <3> QED  BY <1>4, <3>1, DictAssumption
  <2> QED  BY <1>4, <2>1, <2>2 DEF IteratedOnce
<1>5. CASE iter.next # {}
  <2>1. PICK k \in iter.next :
          iter' = Moved(iter, iter.table, iter.index, k, iter.next \ {k}) /\ d' = d
    BY <1>5 DEF dictNext, Moved
  <2> DEFINE r == Moved(iter, iter.table, iter.index, k, iter.next \ {k})
  <2>2. IterOK(d, r) /\ k \notin iter.seen
    BY <1>1, <1>2, InChain
  <2>3. r.entry = k
    <3>1. "entry" \in DOMAIN iter
      BY <1>2 DEF IterOK, Iterators
    <3> QED  BY <3>1 DEF Moved
  <2> HIDE DEF r
  <2> QED  BY <1>4, <2>1, <2>2, <2>3 DEF r
<1>6. CASE iter.next = {} /\ Ahead # {}
  <2> DEFINE p == First(Ahead)
             i == p[1]
             x == p[2]
  <2>1. IsFirst(p, Ahead)
    BY <1>3, <1>6, FirstIs
  <2>2. i \in {0, 1} /\ x \in Nat /\ p = <<i, x>> /\ p \in Ahead
    BY <1>3, <2>1 DEF IsFirst
  <2>3. PICK k \in B : iter' = Moved(iter, i, x, k, B \ {k}) /\ d' = d
    BY <1>6 DEF dictNext, Moved
  <2> HIDE DEF p
  <2>4. Later(iter, i, x) /\ \E m : At(d, i, x, m)
    <3>1. <<i, x>> \in Ahead
      BY <2>2
    <3> QED  BY <1>3, <2>2, <3>1
  <2>5. \A m : m \in B <=> At(d, i, x, m)
    BY <2>4 DEF At, In, p
  <2>6. ASSUME NEW j \in {0, 1}, NEW y \in Nat, NEW m, Later(iter, j, y), At(d, j, y, m)
        PROVE  (i = j /\ x = y) \/ After(i, x, j, y)
    <3>1. <<j, y>> \in Ahead
      BY <1>3, <2>6
    <3>2. i < j \/ (i = j /\ x <= y)
      BY <2>1, <3>1 DEF IsFirst
    <3> QED  BY <2>2, <3>2 DEF After
  <2> DEFINE r == Moved(iter, i, x, k, B \ {k})
  <2> HIDE DEF B
  <2>7. IterOK(d, r) /\ k \notin iter.seen
    <3> HIDE DEF i, x
    <3> QED  BY <1>1, <1>2, <1>6, <2>2, <2>3, <2>4, <2>5, <2>6, NextBucket
  <2>8. r.entry = k
    <3>1. "entry" \in DOMAIN iter
      BY <1>2 DEF IterOK, Iterators
    <3> QED  BY <3>1 DEF Moved
  <2> HIDE DEF r
  <2> QED  BY <1>4, <2>3, <2>7, <2>8 DEF r
<1>7. CASE iter.next = {} /\ Ahead = {}
  <2> DEFINE n == d.iterators - 1
  <2>1. iter' = None /\ d' = WithIterators(d, n)
    BY <1>7 DEF dictNext, WithIterators
  <2>2. d'.iterators = n
    <3>1. "iterators" \in DOMAIN d
      BY <1>1 DEF WellFormed
    <3> HIDE DEF n
    <3> QED  BY <2>1, <3>1 DEF WithIterators
  <2>3. n \in Nat
    BY <1>2
  <2>4. IterInv'
    BY <2>1, <2>2, <2>3, IterStep
  <2>5. iter.missing = {}
    <3> SUFFICES ASSUME NEW m \in iter.missing PROVE FALSE
      OBVIOUS
    <3>1. PICK j \in {0, 1}, y \in Nat : At(d, j, y, m) /\ Later(iter, j, y)
      BY <1>2, <1>7 DEF IterOK
    <3> QED  BY <1>3, <1>7, <3>1
  <2> QED  BY <2>1, <2>4, <2>5 DEF IteratedOnce
<1> QED  BY <1>5, <1>6, <1>7

\* dictGetSafeIterator starts before all keys.
LEMMA OpenStep ==
    ASSUME IInv, IterInv, dictGetSafeIterator
    PROVE  IterInv' /\ IteratedOnce
<1> DEFINE h == world.hash
           n == d.iterators + 1
           r == [table |-> 0, index |-> None, entry |-> None, next |-> {},
                 missing |-> Keys, seen |-> {}]
<1>1. WellFormed(h, d) /\ DOMAIN h \subseteq Key
  BY HashTyped DEF IInv
<1>2. iter = None /\ iter' = r /\ d' = WithIterators(d, n)
  BY DEF dictGetSafeIterator, NoIterator, WithIterators
<1>3. n \in Nat /\ n > 0 /\ n \in Int
  BY DEF IterInv
<1>4. d'.iterators = n /\ d'.ht = d.ht
  <2>1. "iterators" \in DOMAIN d /\ "ht" \in DOMAIN d
    BY <1>1 DEF WellFormed
  <2> HIDE DEF n
  <2> QED  BY <1>2, <2>1 DEF WithIterators
<1>5. \A m \in Keys : m \in Key /\ \E i \in {0, 1}, x \in Nat : At(d, i, x, m)
  BY <1>1, OnePlace, KeysAll
<1>6. \A i \in {0, 1}, x \in Nat : Later(r, i, x)
  BY DEF Later
<1>7. r \in Iterators
  BY <1>5 DEF Iterators
<1>8. r.next = {} /\ r.seen = {} /\ r.missing = Keys
  OBVIOUS
<1> HIDE DEF r
<1>9. IterOK(d', r)
  <2>1. \A i, x, m : At(d', i, x, m) <=> At(d, i, x, m)
    BY <1>4 DEF At
  <2> QED  BY <1>5, <1>6, <1>7, <1>8, <2>1 DEF IterOK
<1>10. IterInv'
  BY <1>2, <1>3, <1>4, <1>9, IterStep
<1> QED  BY <1>2, <1>10 DEF IteratedOnce

-----------------------------------------------------------------------------
(* What happens to an iterator meanwhile.                                   *)

LEMMA IterKeys ==
    ASSUME NEW h, NEW e, WellFormed(h, e), NEW it, IterOK(e, it)
    PROVE  /\ it.index \in Nat \/ it.next = {}
           /\ \A m : m \in it.next \/ m \in it.missing \/ m \in it.seen => m \in AllKeys(e) /\ m # None
<1>1. it.table \in {0, 1} /\ \A m : m \in it.next \/ m \in it.missing \/ m \in it.seen => m \in Key
  BY DEF IterOK, Iterators
<1>2. \A m : m \in it.next => At(e, it.table, it.index, m)
  BY DEF IterOK
<1>3. it.index \in Nat \/ it.next = {}
  BY <1>1, <1>2, OnePlace
<1>4. ASSUME NEW m, m \in it.next \/ m \in it.missing \/ m \in it.seen
      PROVE  m \in AllKeys(e) /\ m # None
  <2>1. \E i \in {0, 1} : \E x : At(e, i, x, m)
    <3>1. CASE m \in it.next
      BY <1>1, <1>2, <3>1
    <3>2. CASE m \notin it.next
      BY <1>4, <3>2 DEF IterOK
    <3> QED  BY <3>1, <3>2
  <2>2. m \in AllKeys(e)
    BY <2>1, OnePlace
  <2> QED  BY <1>1, <1>4, <2>2, DictAssumption
<1> QED  BY <1>3, <1>4

\* A key outside the chain is forgotten.
LEMMA ForgetOK ==
    ASSUME NEW e, NEW it, IterOK(e, it), NEW k
    PROVE  /\ IterOK(e, Forget(it, {k}))
           /\ Forget(it, {k}).entry = it.entry /\ Forget(it, {k}).next = it.next
           /\ k \notin Forget(it, {k}).missing /\ k \notin Forget(it, {k}).seen
<1> DEFINE mi == it.missing \ {k}
           se == it.seen \ {k}
           r == Forget(it, {k})
<1>1. it \in Iterators
  BY DEF IterOK
<1>2. /\ it.table \in {0, 1} /\ it.index \in Nat \cup {None} /\ it.entry \in Key \cup {None}
      /\ it.next \in SUBSET Key /\ it.missing \in SUBSET Key /\ it.seen \in SUBSET Key
      /\ it = [table |-> it.table, index |-> it.index, entry |-> it.entry, next |-> it.next,
               missing |-> it.missing, seen |-> it.seen]
  BY <1>1 DEF Iterators
<1>3. it # None
  BY <1>1, DictAssumption
<1>4. r = [it EXCEPT !.missing = mi, !.seen = se]
  BY <1>2, <1>3 DEF Forget
<1>5. /\ mi \subseteq it.missing /\ se \subseteq it.seen /\ k \notin mi /\ k \notin se
  OBVIOUS
<1> HIDE DEF mi, se, r
<1>6. r = [table |-> it.table, index |-> it.index, entry |-> it.entry, next |-> it.next,
           missing |-> mi, seen |-> se]
  BY <1>2, <1>4
<1>7. /\ r.table = it.table /\ r.index = it.index /\ r.entry = it.entry /\ r.next = it.next
      /\ r.missing = mi /\ r.seen = se
  BY <1>6
<1>8. r \in Iterators
  BY <1>2, <1>5, <1>6 DEF Iterators
<1>9. \A i, x : Later(r, i, x) <=> Later(it, i, x)
  BY <1>7 DEF Later
<1>10. IterOK(e, r)
  BY <1>5, <1>7, <1>8, <1>9 DEF IterOK
<1> QED  BY <1>5, <1>7, <1>10 DEF r

\* No bucket moves under a safe iterator.
LEMMA NothingMoves ==
    ASSUME IInv, IterInv, NEW e, e = RehashStep(d) \/ e = IF dictSize(d) = 0 THEN d ELSE RehashStep(d)
    PROVE  /\ iter # None => e = d
           /\ e.iterators = d.iterators
<1>1. iter # None => RehashStep(d) = d
  BY DEF IterInv, RehashStep
<1>2. RehashStep(d).iterators = d.iterators
  <2>1. WellFormed(world.hash, d) /\ world.hash \in [DOMAIN world.hash -> Nat]
    BY HashTyped DEF IInv
  <2> QED  BY <2>1, Rehashed DEF RehashStep
<1> QED  BY <1>1, <1>2

\* A step that leaves the iterator alone.
LEMMA IterUnchanged ==
    ASSUME iter' = iter
    PROVE  IteratedOnce
  BY DEF IteratedOnce

LEMMA AddIter ==
    ASSUME IInv, IterInv, NEW k \in DOMAIN world.hash, dictAdd(k)
    PROVE  IterInv' /\ IteratedOnce
<1> DEFINE h == world.hash
           f == RehashStep(d)
           e == ExpandIfNeeded(f)
<1>1. WellFormed(h, d) /\ h \in [DOMAIN h -> Nat] /\ d.iterators \in Nat
  BY HashTyped DEF IInv, IterInv
<1>2. WellFormed(h, f) /\ f.iterators = d.iterators /\ (iter # None => f = d)
  BY <1>1, SteppedRehash, NothingMoves
<1>3. d' = (IF Lookup(e, k) = {} THEN AddRaw(e, k) ELSE e) /\ iter' = iter
  BY DEF dictAdd
<1> HIDE DEF f
<1>4. /\ WellFormed(h, e) /\ e.iterators = d.iterators /\ Same(f, e, None)
      /\ e.rehashidx = None => e.ht[0].size > 0
  BY <1>2, ExpandedIfNeeded, ExpandedIfNeededSame
<1> HIDE DEF e
<1>5. Same(e, AddRaw(e, k), k) /\ AddRaw(e, k).iterators = e.iterators
  BY <1>1, <1>4, AddedSame
<1>6. Lookup(e, k) = {} <=> k \notin AllKeys(e)
  BY <1>1, <1>4, LookedUp
<1>7. d'.iterators = d.iterators
  BY <1>3, <1>4, <1>5
<1>8. ASSUME iter # None
      PROVE  d.iterators > 0 /\ IterOK(d', iter)
  <2>1. d.iterators > 0 /\ IterOK(d, iter) /\ f = d
    BY <1>2, <1>8 DEF IterInv
  <2>2. IterOK(e, iter)
    BY <1>1, <1>4, <2>1, IterKeys, FrameIter
  <2>3. k \notin AllKeys(e) => IterOK(AddRaw(e, k), iter)
    BY <1>4, <1>5, <2>2, IterKeys, FrameIter
  <2> QED  BY <1>3, <1>6, <2>1, <2>2, <2>3
<1>9. IterInv'
  BY <1>1, <1>3, <1>7, <1>8, IterStep
<1> QED  BY <1>3, <1>9, IterUnchanged

LEMMA DeleteIter ==
    ASSUME IInv, IterInv, NEW k \in DOMAIN world.hash, dictDelete(k)
    PROVE  IterInv' /\ IteratedOnce
<1> DEFINE h == world.hash
           e == IF dictSize(d) = 0 THEN d ELSE RehashStep(d)
           f == [e EXCEPT !.ht[Min(Lookup(e, k))] = Unlink(@, k)]
<1>1. WellFormed(h, d) /\ h \in [DOMAIN h -> Nat] /\ d.iterators \in Nat
  BY HashTyped DEF IInv, IterInv
<1>2. WellFormed(h, e) /\ AllKeys(e) = AllKeys(d)
  BY BeforeSearch
<1>3. e.iterators = d.iterators /\ (iter # None => e = d)
  BY NothingMoves
<1>4. /\ d' = IF Lookup(e, k) = {} THEN e ELSE f
      /\ iter' = Forget(iter, {k})
      /\ iter # None => k = iter.entry
  BY DEF dictDelete, NoIterator
<1> HIDE DEF e
<1>5. Lookup(e, k) = {} <=> k \notin AllKeys(e)
  BY <1>1, <1>2, LookedUp
<1>6. k \in AllKeys(e) => Same(e, f, k) /\ f.iterators = e.iterators
  BY <1>1, <1>2, DeletedSame
<1> HIDE DEF f
<1>7. d'.iterators = d.iterators
  BY <1>3, <1>4, <1>5, <1>6
<1>8. iter = None => iter' = None
  BY <1>4 DEF Forget
<1>9. ASSUME iter # None
      PROVE  /\ d.iterators > 0 /\ IterOK(d', iter')
             /\ iter' # None /\ iter'.entry = iter.entry
  <2>1. d.iterators > 0 /\ IterOK(d, iter) /\ e = d
    BY <1>3, <1>9 DEF IterInv
  <2> DEFINE r == Forget(iter, {k})
  <2>2. /\ IterOK(d, r) /\ r.entry = iter.entry /\ r.next = iter.next
        /\ k \notin r.missing /\ k \notin r.seen
    BY <2>1, ForgetOK
  <2>3. k \notin r.next
    BY <1>4, <1>9, <2>1, <2>2 DEF IterOK
  <2> HIDE DEF r
  <2>4. r.index \in Nat \/ r.next = {}
    BY <1>1, <2>2, IterKeys
  <2>5. k \in AllKeys(e) => IterOK(f, r)
    BY <1>6, <2>1, <2>2, <2>3, <2>4, FrameIter
  <2>6. r # None
    BY <2>2, DictAssumption DEF IterOK
  <2>7. iter' = r
    BY <1>4 DEF r
  <2>8. IterOK(d', r)
    BY <1>4, <1>5, <2>1, <2>2, <2>5
  <2> QED  BY <2>1, <2>2, <2>6, <2>7, <2>8
<1>10. IterInv'
  BY <1>1, <1>7, <1>8, <1>9, IterStep
<1> QED  BY <1>8, <1>9, <1>10 DEF IteratedOnce

LEMMA FindIter ==
    ASSUME IInv, IterInv, NEW k \in DOMAIN world.hash, dictFind(k)
    PROVE  IterInv' /\ IteratedOnce
<1>1. d'.iterators = d.iterators /\ (iter # None => d' = d)
  BY NothingMoves DEF dictFind
<1>2. iter' = iter
  BY DEF dictFind
<1>3. IterInv'
  BY <1>1, <1>2, IterStep DEF IterInv
<1> QED  BY <1>2, <1>3, IterUnchanged

\* The other steps are taken between iterations.
LEMMA OtherIter ==
    ASSUME IInv, IterInv,
           dictGetRandomKey \/ dictEmpty \/ scanGenericCommand \/ ScanEnds
             \/ databasesCron \/ Fork \/ ChildEnds
    PROVE  IterInv' /\ IteratedOnce
<1>1. iter = None /\ iter' = None
  <2>1. CASE scanGenericCommand
    BY <2>1 DEF scanGenericCommand, NoIterator
  <2>2. CASE dictGetRandomKey \/ dictEmpty \/ ScanEnds \/ databasesCron \/ Fork \/ ChildEnds
    BY <2>2 DEF dictGetRandomKey, dictEmpty, ScanEnds, databasesCron, Fork, ChildEnds, NoIterator
  <2> QED  BY <2>1, <2>2
<1>2. WellFormed(world.hash, d) /\ world.hash \in [DOMAIN world.hash -> Nat] /\ d.iterators \in Nat
  BY HashTyped DEF IInv, IterInv
<1>3. d'.iterators \in Nat
  <2>1. CASE dictGetRandomKey
    <3>1. d' = IF dictSize(d) = 0 THEN d ELSE RehashStep(d)
      BY <2>1 DEF dictGetRandomKey
    <3> QED  BY <1>2, <3>1, NothingMoves
  <2>2. CASE dictEmpty
    BY <2>2 DEF dictEmpty
  <2>3. CASE scanGenericCommand
    <3>1. d' = d
      BY <2>3 DEF scanGenericCommand
    <3> QED  BY <1>2, <3>1
  <2>4. CASE ScanEnds \/ Fork \/ ChildEnds
    BY <1>2, <2>4 DEF ScanEnds, Fork, ChildEnds
  <2>5. CASE databasesCron
    <3> DEFINE n == Max({d.ht[0].used, InitialSize})
    <3>1. n \in Nat
      <4>1. d.ht[0].used \in Nat /\ InitialSize \in Nat
        BY <1>2, DictAssumption DEF WellFormed, Chained, Tables
      <4> QED  BY <4>1, SMTT(30) DEF Max
    <3>2. Resized(d) = d \/ Resized(d) = dictExpand(d, n)
      BY DEF Resized
    <3> HIDE DEF n
    <3>3. WellFormed(world.hash, Resized(d)) /\ Resized(d).iterators = d.iterators
      BY <1>2, <3>1, <3>2, Expanded
    <3>4. CronSteps \in Nat
      BY DictAssumption
    <3>5. d' = dictRehash(Resized(d), CronSteps)
      BY <2>5 DEF databasesCron, Maintained
    <3> QED  BY <1>2, <3>3, <3>4, <3>5, Rehashed
  <2> QED  BY <2>1, <2>2, <2>3, <2>4, <2>5
<1> QED  BY <1>1, <1>3, IterStep DEF IteratedOnce

LEMMA IterNext ==
    ASSUME IInv, IterInv, Next
    PROVE  IterInv' /\ IteratedOnce
  BY AddIter, DeleteIter, FindIter, OtherIter, OpenStep, DictNextStep DEF Next

LEMMA IterStutter ==
    ASSUME IterInv, UNCHANGED vars
    PROVE  IterInv' /\ IteratedOnce
  BY IterUnchanged DEF IterInv, vars

LEMMA IterInit == Init => IterInv
  BY DEF Init, IterInv

(***************************************************************************)
(* In every state of rehashing the tables are consistent.  A safe iterator  *)
(* returns no key twice and, when it is released, has returned every key    *)
(* that was there from its first step to its last, although meanwhile keys  *)
(* are added, the entry it returned last is deleted, and the table is       *)
(* expanded under it (dictNext, dictAddRaw, dictGenericDelete,              *)
(* _dictExpandIfNeeded, _dictRehashStep).                                   *)
(***************************************************************************)
THEOREM IterationsExact == Spec => KeysInReach
<1>1. IInv /\ IterInv /\ [Next]_vars => IterInv' /\ IteratedOnce
  BY IterNext, IterStutter
<1> QED  BY <1>1, IterInit, Inductive, TablesSafe, PTL DEF Spec, KeysInReach
=============================================================================
