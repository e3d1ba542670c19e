-------------------------- MODULE IOThreadsProofs ---------------------------
(***************************************************************************)
(* Proofs about the clients and the I/O threads (IOThreads), for any number *)
(* of clients, threads and requests: no queue, thread list or command loop  *)
(* refers to a freed client, flags and queues agree, no reply is stranded,  *)
(* and no two threads ever serve one client.                                *)
(***************************************************************************)
EXTENDS IOThreads, FiniteSetTheorems, SequenceTheorems, TLAPS

(***************************************************************************)
(* The inductive invariant.  Its first part is about the clients f and the  *)
(* queues of pending reads r, pending writes w and clients to close t, in   *)
(* one of two modes: while the threads write (m), pending writes have lost  *)
(* their flag already.                                                      *)
(***************************************************************************)
Client ==
  [open : BOOLEAN, eof : BOOLEAN, wire : Int, buf : Int, out : Int,
   handler : BOOLEAN, pr : BOOLEAN, pw : BOOLEAN, pcmd : BOOLEAN,
   asap : BOOLEAN, after : BOOLEAN]

Queue(q) == q \in Seq(Clients) /\ IsInjective(q)

\* The flags of the client c, with the fields x, agree with the queues.
Fits(m, x, c, r, w, t) ==
  /\ x.pr <=> c \in ToSet(r)
  /\ x.asap <=> c \in ToSet(t)
  /\ x.pw <=> ~m /\ c \in ToSet(w)
  /\ x.pcmd => x.pr
  /\ ~x.open => c \notin ToSet(r) /\ c \notin ToSet(w) /\ c \notin ToSet(t)
  /\ x.open /\ ~x.asap /\ x.out > 0 => c \in ToSet(w) \/ x.handler

Sound(m, f, r, w, t) ==
  /\ f \in [Clients -> Client]
  /\ Queue(r) /\ Queue(w) /\ Queue(t)
  /\ \A c \in Clients : Fits(m, f[c], c, r, w, t)

\* The main thread has returned from the loop that sets the flags of pending
\* writes to 0 and not yet emptied their queue.
Writing(pc, o) == pc = "install" \/ (pc = "slice" /\ o = "write")

\* Where the main thread returns to, by the place it is at.
Bases == {<<"writes">>, <<"park", "sleep">>, <<"park", "sync">>}

Stacked(k, o) ==
  \/ k.pc \in {"poll", "events", "sleep", "writes", "sync", "install", "free"} /\ k.ret = <<>>
  \/ k.pc = "slice" /\ o = "write" /\ k.ret = <<>>
  \/ k.pc = "slice" /\ o = "read" /\ k.ret \in Bases
  \/ k.pc \in {"reads", "parsed"} /\ k.ret \in Bases
  \/ k.pc = "park" /\ k.ret \in {<<"sleep">>, <<"sync">>}
  \/ k.pc = "exec" /\ (k.ret = <<"events">> \/ \E b \in Bases : k.ret = <<"parsed">> \o b)

\* The main thread executes commands of a client that is not freed.
Executing(k, f) ==
  IF k.pc = "exec" THEN k.cur \in Clients /\ f[k.cur].open ELSE k.cur = NoClient

Places ==
  {"poll", "events", "sleep", "writes", "sync", "install", "free", "slice", "reads", "parsed",
   "park", "exec"}

MainType ==
  [pc : Places, cur : Clients \cup {NoClient}, parsed : BOOLEAN, ret : Seq(Places)]

ControlInv ==
  /\ main \in MainType
  /\ op \in {"read", "write"}
  /\ Stacked(main, op)
  /\ Executing(main, cli)

\* What a thread is given to do, with the queue q it comes from.
Shared(L, q) ==
  /\ L \in [0..(Threads - 1) -> Seq(Clients)]
  /\ \A j \in 0..(Threads - 1) : IsInjective(L[j]) /\ ToSet(L[j]) \subseteq ToSet(q)
  /\ \A i, j \in 0..(Threads - 1) : i # j => ToSet(L[i]) \cap ToSet(L[j]) = {}

ListInv ==
  IF main.pc = "slice" THEN Shared(list, IF op = "read" THEN pread ELSE pwrite)
  ELSE list = [j \in 0..(Threads - 1) |-> <<>>]

\* A thread works only after it was given work and before it says so.
WorkInv ==
  /\ pending \in [Workers -> Nat] /\ worker \in [Workers -> {"spin", "lock", "unlock", "work"}]
  /\ \A j \in Workers : pending[j] = 0 => list[j] = <<>> /\ worker[j] # "work"
  /\ main.pc # "slice" => \A j \in Workers : pending[j] = 0

IInv ==
  /\ Sound(Writing(main.pc, op), cli, pread, pwrite, toclose)
  /\ ControlInv
  /\ ListInv
  /\ WorkInv

-----------------------------------------------------------------------------
(* Queues.                                                                  *)

\* ToSet and IsInjective, by index.
LEMMA QueueDef ==
  ASSUME NEW q \in Seq(Clients)
  PROVE  /\ DOMAIN q = 1..Len(q) /\ Len(q) \in Nat
         /\ \A c : c \in ToSet(q) <=> \E i \in 1..Len(q) : q[i] = c
         /\ IsInjective(q) <=> \A i, j \in 1..Len(q) : q[i] = q[j] => i = j
         /\ ToSet(q) \subseteq Clients
<1>1. DOMAIN q = 1..Len(q) /\ Len(q) \in Nat /\ \A i \in 1..Len(q) : q[i] \in Clients
  OBVIOUS
<1>2. \A c : c \in ToSet(q) <=> \E i \in 1..Len(q) : q[i] = c
  BY <1>1 DEF ToSet
<1>3. IsInjective(q) <=> \A i, j \in 1..Len(q) : q[i] = q[j] => i = j
  BY <1>1 DEF IsInjective
<1> QED  BY <1>1, <1>2, <1>3

LEMMA EmptyQueue == Queue(<<>>) /\ ToSet(<<>>) = {}
  BY DEF Queue, ToSet, IsInjective

LEMMA Prepended ==
  ASSUME NEW q, Queue(q), NEW c \in Clients, c \notin ToSet(q)
  PROVE  Queue(<<c>> \o q) /\ ToSet(<<c>> \o q) = ToSet(q) \cup {c}
<1> DEFINE p == <<c>> \o q
<1>1. q \in Seq(Clients) /\ IsInjective(q)
  BY DEF Queue
<1>2. p \in Seq(Clients)
  BY <1>1
<1>3. Len(p) = Len(q) + 1 /\ p[1] = c /\ \A i \in 1..Len(q) : p[i + 1] = q[i]
  BY <1>1
<1>4. \A i \in 1..Len(p) : i # 1 => i - 1 \in 1..Len(q) /\ p[i] = q[i - 1]
  BY <1>1, <1>3
<1> HIDE DEF p
<1>5. ToSet(p) = ToSet(q) \cup {c}
  <2>1. ASSUME NEW x \in ToSet(p) PROVE x \in ToSet(q) \cup {c}
    BY <1>1, <1>2, <1>3, <1>4, QueueDef, SMTT(30)
  <2>2. ASSUME NEW x \in ToSet(q) PROVE x \in ToSet(p)
    <3>1. PICK i \in 1..Len(q) : q[i] = x
      BY <1>1, QueueDef
    <3>2. i + 1 \in 1..Len(p) /\ p[i + 1] = x
      BY <1>1, <1>3, <3>1
    <3> QED  BY <1>2, <3>2, QueueDef
  <2>3. c \in ToSet(p)
    <3>1. 1 \in 1..Len(p)
      BY <1>1, <1>3
    <3> QED  BY <1>2, <1>3, <3>1, QueueDef
  <2> QED  BY <2>1, <2>2, <2>3
<1>6. IsInjective(p)
  <2>1. SUFFICES ASSUME NEW i \in 1..Len(p), NEW j \in 1..Len(p), p[i] = p[j] PROVE i = j
    BY <1>2, QueueDef
  <2>2. \A n \in 1..Len(q) : q[n] # c
    BY <1>1, QueueDef
  <2>3. CASE i # 1 /\ j # 1
    <3>1. q[i - 1] = q[j - 1] /\ i - 1 \in 1..Len(q) /\ j - 1 \in 1..Len(q)
      BY <1>4, <2>1, <2>3
    <3>2. i - 1 = j - 1
      BY <1>1, <3>1, QueueDef
    <3> QED  BY <1>2, <3>2, QueueDef
  <2>4. CASE i = 1 \/ j = 1
    BY <1>3, <1>4, <2>1, <2>2, <2>4
  <2> QED  BY <2>3, <2>4
<1> QED  BY <1>2, <1>5, <1>6 DEF Queue, p

LEMMA Appended ==
  ASSUME NEW q, Queue(q), NEW c \in Clients, c \notin ToSet(q)
  PROVE  Queue(Append(q, c)) /\ ToSet(Append(q, c)) = ToSet(q) \cup {c}
<1> DEFINE p == Append(q, c)
<1>1. q \in Seq(Clients) /\ IsInjective(q)
  BY DEF Queue
<1>2. p \in Seq(Clients)
  BY <1>1
<1>3. Len(p) = Len(q) + 1 /\ p[Len(p)] = c /\ \A i \in 1..Len(q) : p[i] = q[i]
  BY <1>1
<1>4. \A i \in 1..Len(p) : i # Len(p) => i \in 1..Len(q) /\ p[i] = q[i]
  BY <1>1, <1>3
<1> HIDE DEF p
<1>5. ToSet(p) = ToSet(q) \cup {c}
  <2>1. ASSUME NEW x \in ToSet(p) PROVE x \in ToSet(q) \cup {c}
    BY <1>1, <1>2, <1>3, <1>4, QueueDef
  <2>2. ASSUME NEW x \in ToSet(q) PROVE x \in ToSet(p)
    <3>1. PICK i \in 1..Len(q) : q[i] = x
      BY <1>1, QueueDef
    <3>2. i \in 1..Len(p) /\ p[i] = x
      BY <1>1, <1>3, <3>1
    <3> QED  BY <1>2, <3>2, QueueDef
  <2>3. c \in ToSet(p)
    <3>1. Len(p) \in 1..Len(p)
      BY <1>1, <1>3
    <3> QED  BY <1>2, <1>3, <3>1, QueueDef
  <2> QED  BY <2>1, <2>2, <2>3
<1>6. IsInjective(p)
  <2>1. SUFFICES ASSUME NEW i \in 1..Len(p), NEW j \in 1..Len(p), p[i] = p[j] PROVE i = j
    BY <1>2, QueueDef
  <2>2. \A n \in 1..Len(q) : q[n] # c
    BY <1>1, QueueDef
  <2>3. CASE i # Len(p) /\ j # Len(p)
    <3>1. q[i] = q[j] /\ i \in 1..Len(q) /\ j \in 1..Len(q)
      BY <1>4, <2>1, <2>3
    <3> QED  BY <1>1, <3>1, QueueDef
  <2>4. CASE i = Len(p) \/ j = Len(p)
    BY <1>3, <1>4, <2>1, <2>2, <2>4
  <2> QED  BY <2>3, <2>4
<1> QED  BY <1>2, <1>5, <1>6 DEF Queue, p

LEMMA Popped ==
  ASSUME NEW q, Queue(q), q # <<>>
  PROVE  /\ Queue(Tail(q)) /\ ToSet(Tail(q)) = ToSet(q) \ {Head(q)}
         /\ Head(q) \in Clients /\ Head(q) \in ToSet(q)
<1> DEFINE p == Tail(q)
<1>1. q \in Seq(Clients) /\ IsInjective(q)
  BY DEF Queue
<1>2. p \in Seq(Clients) /\ Len(q) >= 1
  BY <1>1
<1>3. Len(p) = Len(q) - 1 /\ Head(q) = q[1] /\ \A i \in 1..Len(p) : p[i] = q[i + 1]
  BY <1>1
<1> HIDE DEF p
<1>4. Head(q) \in ToSet(q) /\ Head(q) \in Clients
  <2>1. 1 \in 1..Len(q)
    BY <1>1, <1>2
  <2> QED  BY <1>1, <1>3, <2>1, QueueDef
<1>5. ToSet(p) = ToSet(q) \ {Head(q)}
  <2>1. ASSUME NEW x \in ToSet(p) PROVE x \in ToSet(q) /\ x # Head(q)
    <3>1. PICK i \in 1..Len(p) : p[i] = x
      BY <1>2, QueueDef
    <3>2. i + 1 \in 1..Len(q) /\ 1 \in 1..Len(q) /\ i + 1 # 1 /\ q[i + 1] = x
      BY <1>1, <1>2, <1>3, <3>1
    <3> QED  BY <1>1, <1>3, <3>2, QueueDef
  <2>2. ASSUME NEW x \in ToSet(q), x # Head(q) PROVE x \in ToSet(p)
    <3>1. PICK i \in 1..Len(q) : q[i] = x
      BY <1>1, QueueDef
    <3>2. i - 1 \in 1..Len(p) /\ (i - 1) + 1 = i
      BY <1>1, <1>2, <1>3, <2>2, <3>1
    <3>3. p[i - 1] = x
      BY <1>3, <3>1, <3>2
    <3> QED  BY <1>2, <3>2, <3>3, QueueDef
  <2> QED  BY <2>1, <2>2
<1>6. IsInjective(p)
  <2>1. SUFFICES ASSUME NEW i \in 1..Len(p), NEW j \in 1..Len(p), p[i] = p[j] PROVE i = j
    BY <1>2, QueueDef
  <2>2. i + 1 \in 1..Len(q) /\ j + 1 \in 1..Len(q) /\ q[i + 1] = q[j + 1]
    BY <1>1, <1>3, <2>1
  <2>3. i + 1 = j + 1
    BY <1>1, <2>2, QueueDef
  <2> QED  BY <1>2, <2>3
<1> QED  BY <1>2, <1>4, <1>5, <1>6 DEF Queue, p

\* The number of elements of I before i.
Rank(I, i) == Cardinality({x \in I : x < i})

LEMMA IntervalSize ==
  ASSUME NEW b \in Nat
  PROVE  IsFiniteSet(0..(b - 1)) /\ Cardinality(0..(b - 1)) = b
<1> DEFINE a == 0
           c == b - 1
<1>1. c \in Int /\ a \in Int /\ b = c - a + 1 /\ (a > c => b = 0)
  OBVIOUS
<1>2. ASSUME NEW x \in Int, NEW y \in Int
      PROVE  IsFiniteSet(x..y) /\ Cardinality(x..y) = IF x > y THEN 0 ELSE y - x + 1
  BY FS_Interval
<1> HIDE DEF a, c
<1>3. IsFiniteSet(a..c) /\ Cardinality(a..c) = IF a > c THEN 0 ELSE c - a + 1
  BY <1>1, <1>2
<1>4. IsFiniteSet(a..c) /\ Cardinality(a..c) = b
  BY <1>1, <1>3
<1> QED  BY <1>4 DEF a, c

LEMMA RankGrows ==
  ASSUME NEW I, I \subseteq Nat, IsFiniteSet(I), NEW i \in I, NEW j \in I, i < j
  PROVE  Rank(I, i) < Rank(I, j)
<1> DEFINE A == {x \in I : x < i}
           B == {x \in I : x < j}
<1>1. IsFiniteSet(A) /\ IsFiniteSet(B)
  BY FS_Subset
<1>2. i \notin A /\ A \cup {i} \subseteq B
  <2>1. i \in Nat /\ j \in Nat
    OBVIOUS
  <2>2. ASSUME NEW x \in A PROVE x \in B
    <3>1. x \in I /\ x < i /\ x \in Nat
      OBVIOUS
    <3> QED  BY <2>1, <3>1
  <2>3. i \notin A /\ i \in B
    BY <2>1
  <2> HIDE DEF A, B
  <2> QED  BY <2>2, <2>3
<1>3. Rank(I, i) = Cardinality(A) /\ Rank(I, j) = Cardinality(B)
  BY DEF Rank
<1> HIDE DEF A, B
<1>4. IsFiniteSet(A \cup {i}) /\ Cardinality(A \cup {i}) = Cardinality(A) + 1
  BY <1>1, <1>2, FS_AddElement
<1>5. Cardinality(A \cup {i}) <= Cardinality(B)
  BY <1>1, <1>2, FS_Subset
<1>6. Cardinality(A) \in Nat /\ Cardinality(B) \in Nat
  BY <1>1, FS_CardinalityType
<1> QED  BY <1>3, <1>4, <1>5, <1>6

LEMMA RankInRange ==
  ASSUME NEW I, I \subseteq Nat, IsFiniteSet(I), NEW i \in I
  PROVE  Rank(I, i) \in 0..(Cardinality(I) - 1)
<1> DEFINE A == {x \in I : x < i}
<1>1. A \subseteq I \ {i}
  OBVIOUS
<1>2. Rank(I, i) = Cardinality(A)
  BY DEF Rank
<1> HIDE DEF A
<1>3. IsFiniteSet(I \ {i}) /\ Cardinality(I \ {i}) = Cardinality(I) - 1
  BY FS_RemoveElement
<1>4. IsFiniteSet(A) /\ Cardinality(A) <= Cardinality(I) - 1
  BY <1>1, <1>3, FS_Subset
<1>5. Cardinality(A) \in Nat /\ Cardinality(I) \in Nat
  BY <1>4, FS_CardinalityType
<1> QED  BY <1>2, <1>4, <1>5

\* Every number below the size of I is the rank of one of its elements: the
\* ranks are as many as the elements and all different.
LEMMA NthExists ==
  ASSUME NEW I, I \subseteq Nat, IsFiniteSet(I), NEW n \in 1..Cardinality(I)
  PROVE  Nth(I, n) \in I /\ Rank(I, Nth(I, n)) = n - 1
<1> DEFINE k == Cardinality(I)
           T == 0..(k - 1)
           f == [i \in I |-> Rank(I, i)]
<1>1. k \in Nat
  BY FS_CardinalityType
<1>2. IsFiniteSet(T) /\ Cardinality(T) = k
  BY <1>1, IntervalSize
<1>3. f \in [I -> T]
  BY RankInRange
<1>4. \A i, j \in I : f[i] = f[j] => i = j
  <2>1. SUFFICES ASSUME NEW i \in I, NEW j \in I, i # j PROVE f[i] # f[j]
    OBVIOUS
  <2>2. i \in Nat /\ j \in Nat
    OBVIOUS
  <2>3. f[i] = Rank(I, i) /\ f[j] = Rank(I, j)
    OBVIOUS
  <2>4. Rank(I, i) \in 0..(Cardinality(I) - 1) /\ Rank(I, j) \in 0..(Cardinality(I) - 1)
    BY RankInRange
  <2>5. CASE i < j
    <3>1. Rank(I, i) < Rank(I, j)
      BY <2>5, RankGrows
    <3> QED  BY <1>1, <2>3, <2>4, <3>1
  <2>6. CASE j < i
    <3>1. Rank(I, j) < Rank(I, i)
      BY <2>6, RankGrows
    <3> QED  BY <1>1, <2>3, <2>4, <3>1
  <2> QED  BY <2>2, <2>5, <2>6, <2>1
<1> HIDE DEF f
<1>5. f \in Injection(I, T)
  BY <1>3, <1>4 DEF Injection, IsInjective
<1>6. f \in Surjection(I, T)
  BY <1>2, <1>5, FS_Injection
<1>7. \A t \in T : \E i \in I : f[i] = t
  BY <1>6 DEF Surjection
<1>8. n - 1 \in T
  BY <1>1
<1>9. \E i \in I : Rank(I, i) = n - 1
  BY <1>7, <1>8 DEF f
<1> QED  BY <1>9 DEF Nth, Rank

LEMMA NthOnto ==
  ASSUME NEW I, I \subseteq Nat, IsFiniteSet(I), NEW i \in I
  PROVE  \E n \in 1..Cardinality(I) : Nth(I, n) = i
<1> DEFINE n == Rank(I, i) + 1
<1>1. Cardinality(I) \in Nat
  BY FS_CardinalityType
<1>5. Rank(I, i) \in 0..(Cardinality(I) - 1)
  BY RankInRange
<1>2. n \in 1..Cardinality(I) /\ n - 1 = Rank(I, i)
  BY <1>1, <1>5
<1> HIDE DEF n
<1>3. Nth(I, n) \in I /\ Rank(I, Nth(I, n)) = Rank(I, i)
  BY <1>2, NthExists
<1> DEFINE j == Nth(I, n)
<1> HIDE DEF j
<1>4. j \in I /\ Rank(I, j) = Rank(I, i) /\ j \in Nat /\ i \in Nat
  BY <1>3 DEF j
<1>6. ~(i < j) /\ ~(j < i)
  <2>1. ~(Rank(I, i) < Rank(I, i))
    BY <1>1, <1>5
  <2>2. i < j => Rank(I, i) < Rank(I, j)
    BY <1>4, RankGrows
  <2>3. j < i => Rank(I, j) < Rank(I, i)
    BY <1>4, RankGrows
  <2> QED  BY <1>4, <2>1, <2>2, <2>3
<1>7. j = i
  BY <1>4, <1>6
<1> QED  BY <1>2, <1>7 DEF j

\* A subsequence of a queue is a queue of the elements picked.
LEMMA Picked ==
  ASSUME NEW q, Queue(q), NEW I, I \subseteq DOMAIN q
  PROVE  /\ Queue(Pick(q, I))
         /\ \A c : c \in ToSet(Pick(q, I)) <=> \E i \in I : q[i] = c
<1> DEFINE k == Cardinality(I)
           p == Pick(q, I)
<1>1. q \in Seq(Clients) /\ IsInjective(q) /\ DOMAIN q = 1..Len(q) /\ Len(q) \in Nat
  BY QueueDef DEF Queue
<1>2. I \subseteq Nat /\ IsFiniteSet(I) /\ k \in Nat
  <2>1. IsFiniteSet(1..Len(q))
    BY <1>1, FS_Interval
  <2> QED  BY <1>1, <2>1, FS_Subset, FS_CardinalityType
<1>3. \A n \in 1..k : Nth(I, n) \in I /\ Rank(I, Nth(I, n)) = n - 1
  BY <1>2, NthExists
<1>4. p = [n \in 1..k |-> q[Nth(I, n)]]
  BY DEF Pick
<1>5. p \in Seq(Clients) /\ Len(p) = k
  <2>1. \A n \in 1..k : q[Nth(I, n)] \in Clients
    BY <1>1, <1>3
  <2> HIDE DEF p, k
  <2>2. p \in [1..k -> Clients]
    BY <1>4, <2>1
  <2> QED  BY <1>2, <2>2
<1> HIDE DEF p
<1>6. \A c : c \in ToSet(p) <=> \E i \in I : q[i] = c
  <2>1. ASSUME NEW c \in ToSet(p) PROVE \E i \in I : q[i] = c
    <3>1. PICK n \in 1..k : p[n] = c
      BY <1>5, QueueDef
    <3> QED  BY <1>3, <1>4, <3>1
  <2>2. ASSUME NEW c, NEW i \in I, q[i] = c PROVE c \in ToSet(p)
    <3>1. PICK n \in 1..k : Nth(I, n) = i
      BY <1>2, NthOnto
    <3>2. p[n] = c
      BY <1>4, <2>2, <3>1
    <3> QED  BY <1>5, <3>1, <3>2, QueueDef
  <2> QED  BY <2>1, <2>2
<1>7. IsInjective(p)
  <2>1. SUFFICES ASSUME NEW a \in 1..k, NEW b \in 1..k, p[a] = p[b] PROVE a = b
    BY <1>5, QueueDef
  <2>2. q[Nth(I, a)] = q[Nth(I, b)] /\ Nth(I, a) \in 1..Len(q) /\ Nth(I, b) \in 1..Len(q)
    BY <1>1, <1>3, <1>4, <2>1
  <2>3. Nth(I, a) = Nth(I, b)
    BY <1>1, <2>2, QueueDef
  <2>4. a - 1 = b - 1
    BY <1>3, <2>3
  <2> QED  BY <1>2, <2>4
<1> QED  BY <1>5, <1>6, <1>7 DEF Queue, p

LEMMA Removed ==
  ASSUME NEW q, Queue(q), NEW c
  PROVE  Queue(Without(q, c)) /\ ToSet(Without(q, c)) = ToSet(q) \ {c}
<1> DEFINE I == {i \in DOMAIN q : q[i] # c}
<1>1. Queue(Pick(q, I)) /\ \A x : x \in ToSet(Pick(q, I)) <=> \E i \in I : q[i] = x
  BY Picked
<1>2. \A x : (\E i \in I : q[i] = x) <=> x \in ToSet(q) /\ x # c
  BY DEF ToSet
<1>3. Without(q, c) = Pick(q, I)
  BY DEF Without
<1> HIDE DEF I
<1> QED  BY <1>1, <1>2, <1>3

-----------------------------------------------------------------------------
(* The state of the clients and their queues, and changes of one client.    *)

State(f, r, w, t) == [cli |-> f, pread |-> r, pwrite |-> w, toclose |-> t]

States ==
  [cli : [Clients -> Client], pread : Seq(Clients), pwrite : Seq(Clients), toclose : Seq(Clients)]

Good(m, s) == s \in States /\ Sound(m, s.cli, s.pread, s.pwrite, s.toclose)

LEMMA GoodState ==
  ASSUME NEW m, NEW f, NEW r, NEW w, NEW t, Sound(m, f, r, w, t)
  PROVE  Good(m, State(f, r, w, t))
<1> DEFINE s == State(f, r, w, t)
<1>1. s.cli = f /\ s.pread = r /\ s.pwrite = w /\ s.toclose = t
  BY DEF State
<1>2. f \in [Clients -> Client] /\ r \in Seq(Clients) /\ w \in Seq(Clients) /\ t \in Seq(Clients)
  BY DEF Sound, Queue
<1>3. s \in States
  BY <1>2 DEF State, States
<1> HIDE DEF s
<1>4. Good(m, s)
  BY <1>1, <1>3 DEF Good
<1> QED  BY <1>4 DEF s

LEMMA StateFields ==
  ASSUME NEW f, NEW r, NEW w, NEW t
  PROVE  /\ State(f, r, w, t).cli = f /\ State(f, r, w, t).pread = r
         /\ State(f, r, w, t).pwrite = w /\ State(f, r, w, t).toclose = t
  BY DEF State

LEMMA GoodParts ==
  ASSUME NEW m, NEW s, Good(m, s)
  PROVE  /\ s = State(s.cli, s.pread, s.pwrite, s.toclose)
         /\ Sound(m, s.cli, s.pread, s.pwrite, s.toclose)
  BY DEF Good, States, State

WithCli(s, x) == [s EXCEPT !.cli = x]
WithRead(s, x) == [s EXCEPT !.pread = x]
WithWrite(s, x) == [s EXCEPT !.pwrite = x]
WithClose(s, x) == [s EXCEPT !.toclose = x]

LEMMA StateExcept ==
  ASSUME NEW f, NEW r, NEW w, NEW t, NEW x
  PROVE  /\ WithCli(State(f, r, w, t), x) = State(x, r, w, t)
         /\ WithRead(State(f, r, w, t), x) = State(f, x, w, t)
         /\ WithWrite(State(f, r, w, t), x) = State(f, r, x, t)
         /\ WithClose(State(f, r, w, t), x) = State(f, r, w, x)
<1>1. WithCli(State(f, r, w, t), x) = State(x, r, w, t)
  BY DEF State, WithCli
<1>2. WithRead(State(f, r, w, t), x) = State(f, x, w, t)
  BY DEF State, WithRead
<1>3. WithWrite(State(f, r, w, t), x) = State(f, r, x, t)
  BY DEF State, WithWrite
<1>4. WithClose(State(f, r, w, t), x) = State(f, r, w, x)
  BY DEF State, WithClose
<1> QED  BY <1>1, <1>2, <1>3, <1>4

\* The clients with the fields of one of them replaced.
With(f, c, x) == [f EXCEPT ![c] = x]

LEMMA WithFields ==
  ASSUME NEW f \in [Clients -> Client], NEW c \in Clients, NEW x \in Client
  PROVE  /\ With(f, c, x) \in [Clients -> Client] /\ With(f, c, x)[c] = x
         /\ \A d \in Clients : d # c => With(f, c, x)[d] = f[d]
  BY DEF With

\* The queues p and q have the same clients other than c.
SameElse(c, p, q) == \A d \in Clients : d # c => (d \in ToSet(p) <=> d \in ToSet(q))

LEMMA OneClient ==
  ASSUME NEW m, NEW f, NEW r, NEW w, NEW t, Sound(m, f, r, w, t),
         NEW c \in Clients, NEW x \in Client, NEW r1, NEW w1, NEW t1,
         Queue(r1), Queue(w1), Queue(t1),
         SameElse(c, r, r1), SameElse(c, w, w1), SameElse(c, t, t1),
         Fits(m, x, c, r1, w1, t1)
  PROVE  Sound(m, With(f, c, x), r1, w1, t1)
<1>1. f \in [Clients -> Client]
  BY DEF Sound
<1> DEFINE g == With(f, c, x)
<1>2. g \in [Clients -> Client] /\ g[c] = x /\ \A d \in Clients : d # c => g[d] = f[d]
  BY <1>1, WithFields
<1> HIDE DEF g
<1>3. ASSUME NEW d \in Clients PROVE Fits(m, g[d], d, r1, w1, t1)
  <2>1. CASE d = c
    BY <1>2, <2>1
  <2>2. CASE d # c
    <3>1. Fits(m, f[d], d, r, w, t)
      BY DEF Sound
    <3>2. /\ d \in ToSet(r) <=> d \in ToSet(r1)
          /\ d \in ToSet(w) <=> d \in ToSet(w1)
          /\ d \in ToSet(t) <=> d \in ToSet(t1)
      BY <2>2 DEF SameElse
    <3>3. Fits(m, f[d], d, r1, w1, t1)
      BY <3>1, <3>2 DEF Fits
    <3> QED  BY <1>2, <2>2, <3>3
  <2> QED  BY <2>1, <2>2
<1>4. Sound(m, g, r1, w1, t1)
  BY <1>2, <1>3 DEF Sound
<1> QED  BY <1>4 DEF g

LEMMA SameItself == \A c, q : SameElse(c, q, q)
  BY DEF SameElse

\* A client whose flags that concern the queues stay as they are.
LEMMA Touched ==
  ASSUME NEW m, NEW s, Good(m, s), NEW c \in Clients, NEW x \in Client,
         x.open = s.cli[c].open, x.pr = s.cli[c].pr, x.pw = s.cli[c].pw, x.asap = s.cli[c].asap,
         x.pcmd => x.pr,
         x.open /\ ~x.asap /\ x.out > 0 => c \in ToSet(s.pwrite) \/ x.handler
  PROVE  /\ Good(m, WithCli(s, With(s.cli, c, x)))
         /\ \A d \in Clients : WithCli(s, With(s.cli, c, x)).cli[d].open = s.cli[d].open
<1> DEFINE f == s.cli
           r == s.pread
           w == s.pwrite
           t == s.toclose
           g == With(f, c, x)
<1>1. s = State(f, r, w, t) /\ Sound(m, f, r, w, t)
  BY GoodParts
<1>2. Fits(m, f[c], c, r, w, t) /\ f \in [Clients -> Client] /\ Queue(r) /\ Queue(w) /\ Queue(t)
  BY <1>1 DEF Sound
<1>3. Fits(m, x, c, r, w, t)
  BY <1>2 DEF Fits
<1>4. Sound(m, g, r, w, t)
  <2> HIDE DEF f, r, w, t
  <2> QED  BY <1>1, <1>2, <1>3, OneClient, SameItself
<1>5. g[c] = x /\ \A d \in Clients : d # c => g[d] = f[d]
  BY <1>2, WithFields
<1>6. \A d \in Clients : g[d].open = f[d].open
  BY <1>5
<1> HIDE DEF f, r, w, t, g
<1>7. WithCli(s, g) = State(g, r, w, t)
  BY <1>1, StateExcept
<1> QED  BY <1>4, <1>6, <1>7, GoodState, StateFields DEF f, g


\* Any change of one client and its places in the queues.
LEMMA Changed ==
  ASSUME NEW m, NEW s, Good(m, s), NEW c \in Clients, NEW x \in Client,
         NEW r1, NEW w1, NEW t1, Queue(r1), Queue(w1), Queue(t1),
         SameElse(c, s.pread, r1), SameElse(c, s.pwrite, w1), SameElse(c, s.toclose, t1),
         Fits(m, x, c, r1, w1, t1)
  PROVE  /\ Good(m, State(With(s.cli, c, x), r1, w1, t1))
         /\ With(s.cli, c, x)[c] = x
         /\ \A d \in Clients : d # c => With(s.cli, c, x)[d] = s.cli[d]
<1>1. Sound(m, s.cli, s.pread, s.pwrite, s.toclose)
  BY GoodParts
<1>2. s.cli \in [Clients -> Client]
  BY <1>1 DEF Sound
<1>3. Sound(m, With(s.cli, c, x), r1, w1, t1)
  BY <1>1, OneClient
<1>4. Good(m, State(With(s.cli, c, x), r1, w1, t1))
  BY <1>3, GoodState
<1> QED  BY <1>2, <1>4, WithFields

LEMMA GoodClient ==
  ASSUME NEW m, NEW s, Good(m, s), NEW c \in Clients
  PROVE  /\ s.cli[c] \in Client /\ Fits(m, s.cli[c], c, s.pread, s.pwrite, s.toclose)
         /\ Queue(s.pread) /\ Queue(s.pwrite) /\ Queue(s.toclose)
  BY DEF Good, Sound

-----------------------------------------------------------------------------
(* The operations on clients.                                               *)

\* The same clients are open.
Keeps(s, t) == \A d \in Clients : t.cli[d].open = s.cli[d].open

\* And the clients in the queues the threads work on are the same.
Steady(s, t) == Keeps(s, t) /\ t.pread = s.pread /\ t.pwrite = s.pwrite

LEMMA AsyncFreed ==
  ASSUME NEW m, NEW s, Good(m, s), NEW c \in Clients, s.cli[c].open
  PROVE  Good(m, freeClientAsync(s, c)) /\ Steady(s, freeClientAsync(s, c))
<1>1. CASE s.cli[c].asap
  <2>1. freeClientAsync(s, c) = s
    BY <1>1 DEF freeClientAsync
  <2> QED  BY <2>1 DEF Steady, Keeps
<1>2. CASE ~s.cli[c].asap
  <2> DEFINE x == [s.cli[c] EXCEPT !.asap = TRUE]
             q == Append(s.toclose, c)
             u == State(With(s.cli, c, x), s.pread, s.pwrite, q)
  <2>1. /\ s.cli[c] \in Client /\ Fits(m, s.cli[c], c, s.pread, s.pwrite, s.toclose)
        /\ Queue(s.pread) /\ Queue(s.pwrite) /\ Queue(s.toclose)
    BY GoodClient
  <2>2. Queue(q) /\ ToSet(q) = ToSet(s.toclose) \cup {c}
    BY <1>2, <2>1, Appended DEF Fits
  <2>3. freeClientAsync(s, c) = WithClose(WithCli(s, With(s.cli, c, x)), q)
    BY <1>2, Zenon DEF freeClientAsync, WithClose, WithCli, With
  <2>4. freeClientAsync(s, c) = u
    BY <2>3, GoodParts, StateExcept
  <2>5. /\ x \in Client /\ x.asap = TRUE /\ x.pr = s.cli[c].pr /\ x.pw = s.cli[c].pw
        /\ x.pcmd = s.cli[c].pcmd /\ x.open = s.cli[c].open
    BY <2>1 DEF Client
  <2> HIDE DEF x, q
  <2>6. Fits(m, x, c, s.pread, s.pwrite, q)
    BY <2>1, <2>2, <2>5 DEF Fits
  <2>7. SameElse(c, s.toclose, q)
    BY <2>2 DEF SameElse
  <2>8. /\ Good(m, u) /\ With(s.cli, c, x)[c] = x
        /\ \A d \in Clients : d # c => With(s.cli, c, x)[d] = s.cli[d]
    BY <2>1, <2>2, <2>5, <2>6, <2>7, SameItself, Changed
  <2>9. Steady(s, u)
    <3> DEFINE g == With(s.cli, c, x)
    <3>1. u.cli = g /\ u.pread = s.pread /\ u.pwrite = s.pwrite
      BY StateFields
    <3> HIDE DEF g, u
    <3>2. \A d \in Clients : g[d].open = s.cli[d].open
      BY <2>5, <2>8 DEF g
    <3> QED  BY <3>1, <3>2 DEF Steady, Keeps
  <2> QED  BY <2>4, <2>8, <2>9
<1> QED  BY <1>1, <1>2


LEMMA Opened ==
  ASSUME NEW s, NEW c \in Clients, NEW x, NEW r1, NEW w1, NEW t1,
         With(s.cli, c, x)[c] = x, x.open = s.cli[c].open,
         \A d \in Clients : d # c => With(s.cli, c, x)[d] = s.cli[d]
  PROVE  Keeps(s, State(With(s.cli, c, x), r1, w1, t1))
<1> DEFINE g == With(s.cli, c, x)
           u == State(g, r1, w1, t1)
<1>1. u.cli = g
  BY StateFields
<1>2. \A d \in Clients : g[d].open = s.cli[d].open
  OBVIOUS
<1> HIDE DEF g, u
<1>3. Keeps(s, u)
  BY <1>1, <1>2 DEF Keeps
<1> QED  BY <1>3 DEF u, g


\* All parts of the state replaced, one by one.
LEMMA Replaced ==
  ASSUME NEW m, NEW s, Good(m, s), NEW f, NEW r, NEW w, NEW t
  PROVE  WithRead(WithWrite(WithClose(WithCli(s, f), t), w), r) = State(f, r, w, t)
<1>1. s = State(s.cli, s.pread, s.pwrite, s.toclose)
  BY GoodParts
<1>2. WithCli(s, f) = State(f, s.pread, s.pwrite, s.toclose)
  BY <1>1, StateExcept
<1>3. WithClose(WithCli(s, f), t) = State(f, s.pread, s.pwrite, t)
  BY <1>2, StateExcept
<1>4. WithWrite(WithClose(WithCli(s, f), t), w) = State(f, s.pread, w, t)
  BY <1>3, StateExcept
<1> QED  BY <1>4, StateExcept

LEMMA FreedFields ==
  /\ FreedClient \in Client /\ ~FreedClient.open /\ ~FreedClient.pr /\ ~FreedClient.pw
  /\ ~FreedClient.asap /\ ~FreedClient.pcmd
<1> DEFINE k == NewClient
<1>1. k \in Client /\ ~k.pr /\ ~k.pw /\ ~k.asap /\ ~k.pcmd
  BY DEF NewClient, Client
<1> HIDE DEF k
<1>2. FreedClient = [k EXCEPT !.open = FALSE]
  BY DEF FreedClient, k
<1> QED  BY <1>1, <1>2 DEF Client

LEMMA Freed ==
  ASSUME NEW m, ~m, NEW s, Good(m, s), NEW c \in Clients
  PROVE  /\ Good(m, freeClient(s, c))
         /\ \A d \in Clients : d # c => freeClient(s, c).cli[d] = s.cli[d]
<1> DEFINE x == FreedClient
           r1 == IF s.cli[c].pr THEN Without(s.pread, c) ELSE s.pread
           w1 == IF s.cli[c].pw THEN Without(s.pwrite, c) ELSE s.pwrite
           t1 == IF s.cli[c].asap THEN Without(s.toclose, c) ELSE s.toclose
           u == State(With(s.cli, c, x), r1, w1, t1)
<1>1. /\ s.cli[c] \in Client /\ Fits(m, s.cli[c], c, s.pread, s.pwrite, s.toclose)
      /\ Queue(s.pread) /\ Queue(s.pwrite) /\ Queue(s.toclose)
  BY GoodClient
<1>2. freeClient(s, c) = WithRead(WithWrite(WithClose(WithCli(s, With(s.cli, c, x)), t1), w1), r1)
  BY Zenon DEF freeClient, WithClose, WithCli, WithRead, WithWrite, With
<1>3. x \in Client /\ ~x.open /\ ~x.pr /\ ~x.pw /\ ~x.asap /\ ~x.pcmd
  BY FreedFields
<1>4. Queue(r1) /\ ToSet(r1) = ToSet(s.pread) \ {c}
  BY <1>1, Removed DEF Fits
<1>5. Queue(w1) /\ ToSet(w1) = ToSet(s.pwrite) \ {c}
  BY <1>1, Removed DEF Fits
<1>6. Queue(t1) /\ ToSet(t1) = ToSet(s.toclose) \ {c}
  BY <1>1, Removed DEF Fits
<1> HIDE DEF x, r1, w1, t1
<1>7. freeClient(s, c) = u
  BY <1>2, Replaced
<1>8. Fits(m, x, c, r1, w1, t1)
  BY <1>3, <1>4, <1>5, <1>6 DEF Fits
<1>9. SameElse(c, s.pread, r1) /\ SameElse(c, s.pwrite, w1) /\ SameElse(c, s.toclose, t1)
  BY <1>4, <1>5, <1>6 DEF SameElse
<1>10. Good(m, u) /\ \A d \in Clients : d # c => With(s.cli, c, x)[d] = s.cli[d]
  BY <1>3, <1>4, <1>5, <1>6, <1>8, <1>9, Changed
<1>11. u.cli = With(s.cli, c, x)
  BY StateFields
<1> QED  BY <1>7, <1>10, <1>11

LEMMA Replied ==
  ASSUME NEW m, ~m, NEW s, Good(m, s), NEW c \in Clients, s.cli[c].open
  PROVE  Good(m, addReply(s, c)) /\ Keeps(s, addReply(s, c))
<1>1. CASE s.cli[c].asap
  <2>1. addReply(s, c) = s
    BY <1>1 DEF addReply
  <2> QED  BY <2>1 DEF Keeps
<1>2. CASE ~s.cli[c].asap
  <2> DEFINE k == s.cli[c]
             new == k.out = 0 /\ ~k.pw
             n == k.out + 1
             b == k.pw \/ new
             y == [k EXCEPT !.out = n]
             x == [y EXCEPT !.pw = b]
             q == IF new THEN <<c>> \o s.pwrite ELSE s.pwrite
             u == State(With(s.cli, c, x), s.pread, q, s.toclose)
  <2>1. /\ k \in Client /\ Fits(m, k, c, s.pread, s.pwrite, s.toclose)
        /\ Queue(s.pread) /\ Queue(s.pwrite) /\ Queue(s.toclose)
    BY GoodClient
  <2>2. Queue(q) /\ (c \in ToSet(q) <=> k.pw \/ new) /\ SameElse(c, s.pwrite, q)
    <3>1. CASE new
      <4>1. q = <<c>> \o s.pwrite /\ c \notin ToSet(s.pwrite)
        BY <2>1, <3>1 DEF Fits
      <4>2. Queue(q) /\ ToSet(q) = ToSet(s.pwrite) \cup {c}
        BY <2>1, <4>1, Prepended
      <4> QED  BY <3>1, <4>2 DEF SameElse
    <3>2. CASE ~new
      <4>1. q = s.pwrite
        BY <3>2
      <4> QED  BY <2>1, <3>2, <4>1 DEF SameElse, Fits
    <3> QED  BY <3>1, <3>2
  <2>3. addReply(s, c) = WithWrite(WithCli(s, With(s.cli, c, x)), q)
    <3>1. s.cli \in [Clients -> Client] /\ DOMAIN s.cli = Clients
      BY DEF Good, States
    <3> QED  BY <1>2, <2>1, <3>1, Zenon DEF addReply, WithCli, WithWrite, With
  <2>4. b \in BOOLEAN /\ n \in Int /\ (b <=> k.pw \/ new)
    BY <2>1 DEF Client
  <2>5. n > 0 => k.out > 0 \/ k.out = 0
    BY <2>1 DEF Client
  <2>6. k.out = 0 => b
    BY <2>4
  <2> HIDE DEF n, b
  <2>7. /\ y \in Client /\ y.out = n /\ y.asap = k.asap /\ y.pr = k.pr
        /\ y.pcmd = k.pcmd /\ y.open = k.open /\ y.handler = k.handler
    BY <2>1, <2>4 DEF Client
  <2> HIDE DEF y
  <2>8. /\ x \in Client /\ x.out = n /\ x.pw = b /\ x.asap = y.asap /\ x.pr = y.pr
        /\ x.pcmd = y.pcmd /\ x.open = y.open /\ x.handler = y.handler
    BY <2>7, <2>4 DEF Client
  <2> HIDE DEF x, new, q
  <2>9. addReply(s, c) = u
    BY <2>3, GoodParts, StateExcept
  <2>10. x.open /\ ~x.asap /\ x.out > 0 => c \in ToSet(q) \/ x.handler
    <3>1. SUFFICES ASSUME x.open, ~x.asap, x.out > 0 PROVE c \in ToSet(q) \/ x.handler
      OBVIOUS
    <3>2. CASE k.out = 0
      BY <2>2, <2>4, <2>6, <3>2
    <3>3. CASE k.out > 0
      <4>1. c \in ToSet(s.pwrite) \/ k.handler
        BY <1>2, <2>1, <3>3 DEF Fits
      <4>2. c \in ToSet(s.pwrite) => k.pw
        BY <2>1 DEF Fits
      <4> QED  BY <2>2, <2>7, <2>8, <4>1, <4>2
    <3> QED  BY <2>5, <2>8, <3>1, <3>2, <3>3
  <2>11. Fits(m, x, c, s.pread, q, s.toclose)
    <3>1. x.pw <=> ~m /\ c \in ToSet(q)
      BY <2>2, <2>4, <2>8
    <3>2. x.pr = k.pr /\ x.asap = k.asap /\ x.pcmd = k.pcmd /\ x.open = k.open
      BY <2>7, <2>8
    <3>3. ~x.open => FALSE
      BY <3>2
    <3> HIDE DEF k
    <3> QED  BY <2>1, <2>10, <3>1, <3>2, <3>3 DEF Fits
  <2>12. x.open = s.cli[c].open
    BY <2>7, <2>8
  <2>13. /\ Good(m, u) /\ With(s.cli, c, x)[c] = x
         /\ \A d \in Clients : d # c => With(s.cli, c, x)[d] = s.cli[d]
    BY <2>1, <2>2, <2>8, <2>11, SameItself, Changed
  <2>14. Keeps(s, u)
    BY <2>12, <2>13, Opened
  <2> QED  BY <2>9, <2>13, <2>14
<1> QED  BY <1>1, <1>2


\* Touched, with the queues.
LEMMA TouchedSteady ==
  ASSUME NEW m, NEW s, Good(m, s), NEW c \in Clients, NEW x \in Client,
         x.open = s.cli[c].open, x.pr = s.cli[c].pr, x.pw = s.cli[c].pw, x.asap = s.cli[c].asap,
         x.pcmd => x.pr,
         x.open /\ ~x.asap /\ x.out > 0 => c \in ToSet(s.pwrite) \/ x.handler
  PROVE  /\ Good(m, WithCli(s, With(s.cli, c, x)))
         /\ Steady(s, WithCli(s, With(s.cli, c, x)))
         /\ WithCli(s, With(s.cli, c, x)).cli[c] = x
<1> DEFINE g == With(s.cli, c, x)
           u == WithCli(s, g)
<1>1. Good(m, u) /\ \A d \in Clients : u.cli[d].open = s.cli[d].open
  BY Touched
<1>2. g[c] = x
  <2>1. s.cli \in [Clients -> Client]
    BY DEF Good, States
  <2> QED  BY <2>1, WithFields
<1> HIDE DEF g
<1>3. u = State(g, s.pread, s.pwrite, s.toclose)
  BY GoodParts, StateExcept
<1>4. u.pread = s.pread /\ u.pwrite = s.pwrite /\ u.cli = g
  BY <1>3, StateFields
<1> HIDE DEF u
<1>5. Good(m, u) /\ Steady(s, u) /\ u.cli[c] = x
  BY <1>1, <1>2, <1>4 DEF Steady, Keeps
<1> QED  BY <1>5 DEF u, g

LEMMA SteadyTwice ==
  ASSUME NEW s, NEW t, NEW u, Steady(s, t), Steady(t, u)
  PROVE  Steady(s, u)
  BY DEF Steady, Keeps

LEMMA KeepsTwice ==
  ASSUME NEW s, NEW t, NEW u, Keeps(s, t), Keeps(t, u)
  PROVE  Keeps(s, u)
  BY DEF Keeps

LEMMA Written ==
  ASSUME NEW m, NEW s, Good(m, s), NEW c \in Clients, s.cli[c].open,
         NEW how \in {"all", "part", "error"}, NEW hi
  PROVE  Good(m, writeToClient(s, c, how, hi)) /\ Steady(s, writeToClient(s, c, how, hi))
<1>1. CASE how = "error"
  <2>1. writeToClient(s, c, how, hi) = freeClientAsync(s, c)
    BY <1>1 DEF writeToClient
  <2> QED  BY <2>1, AsyncFreed
<1>2. CASE how = "part"
  <2>1. writeToClient(s, c, how, hi) = s
    BY <1>2 DEF writeToClient
  <2> QED  BY <2>1 DEF Steady, Keeps
<1>3. CASE how = "all"
  <2> DEFINE k == s.cli[c]
             n == 0
             b == k.handler /\ ~hi
             y == [k EXCEPT !.out = n]
             x == [y EXCEPT !.handler = b]
             t == WithCli(s, With(s.cli, c, x))
  <2>1. k \in Client /\ Fits(m, k, c, s.pread, s.pwrite, s.toclose)
    BY GoodClient
  <2>2. writeToClient(s, c, how, hi) = IF k.after THEN freeClientAsync(t, c) ELSE t
    <3>1. s.cli \in [Clients -> Client] /\ DOMAIN s.cli = Clients
      BY DEF Good, States
    <3>2. t = [s EXCEPT !.cli[c].out = 0, !.cli[c].handler = @ /\ ~hi]
      BY <2>1, <3>1, Zenon DEF WithCli, With
    <3> HIDE DEF t
    <3> QED  BY <1>3, <3>2 DEF writeToClient
  <2>3. b \in BOOLEAN /\ n \in Int /\ ~(n > 0)
    BY <2>1 DEF Client
  <2> HIDE DEF n, b
  <2>4. /\ y \in Client /\ y.out = n /\ y.asap = k.asap /\ y.pr = k.pr
        /\ y.pcmd = k.pcmd /\ y.open = k.open /\ y.pw = k.pw
    BY <2>1, <2>3 DEF Client
  <2> HIDE DEF y
  <2>5. /\ x \in Client /\ x.out = n /\ x.asap = y.asap /\ x.pr = y.pr
        /\ x.pcmd = y.pcmd /\ x.open = y.open /\ x.pw = y.pw
    BY <2>3, <2>4 DEF Client
  <2> HIDE DEF x
  <2>6. x.pcmd => x.pr
    BY <2>1, <2>4, <2>5 DEF Fits
  <2>7. Good(m, t) /\ Steady(s, t)
    BY <2>3, <2>4, <2>5, <2>6, TouchedSteady
  <2>8. t.cli[c].open
    BY <2>7 DEF Steady, Keeps
  <2> HIDE DEF t
  <2>9. Good(m, freeClientAsync(t, c)) /\ Steady(t, freeClientAsync(t, c))
    BY <2>7, <2>8, AsyncFreed
  <2> QED  BY <2>2, <2>7, <2>9, SteadyTwice
<1> QED  BY <1>1, <1>2, <1>3

LEMMA SocketRead ==
  ASSUME NEW m, NEW s, Good(m, s), NEW c \in Clients, s.cli[c].open
  PROVE  /\ Good(m, ReadSocket(s, c)) /\ Steady(s, ReadSocket(s, c))
         /\ ReadSocket(s, c).cli[c].pr = s.cli[c].pr
<1> DEFINE k == s.cli[c]
<1>1. k \in Client /\ Fits(m, k, c, s.pread, s.pwrite, s.toclose)
  BY GoodClient
<1>2. s.cli \in [Clients -> Client] /\ DOMAIN s.cli = Clients
  BY DEF Good, States
<1>3. CASE k.wire > 0
  <2> DEFINE n == k.buf + k.wire
             z == 0
             y == [k EXCEPT !.buf = n]
             x == [y EXCEPT !.wire = z]
             t == WithCli(s, With(s.cli, c, x))
  <2>1. ReadSocket(s, c) = t
    <3>1. t = [s EXCEPT !.cli[c].buf = @ + s.cli[c].wire, !.cli[c].wire = 0]
      BY <1>1, <1>2, Zenon DEF WithCli, With
    <3> HIDE DEF t
    <3> QED  BY <1>3, <3>1 DEF ReadSocket
  <2>2. n \in Int /\ z \in Int
    BY <1>1 DEF Client
  <2> HIDE DEF n, z
  <2>3. /\ y \in Client /\ y.asap = k.asap /\ y.pr = k.pr /\ y.out = k.out
        /\ y.pcmd = k.pcmd /\ y.open = k.open /\ y.pw = k.pw /\ y.handler = k.handler
    BY <1>1, <2>2 DEF Client
  <2> HIDE DEF y
  <2>4. /\ x \in Client /\ x.asap = y.asap /\ x.pr = y.pr /\ x.out = y.out
        /\ x.pcmd = y.pcmd /\ x.open = y.open /\ x.pw = y.pw /\ x.handler = y.handler
    BY <2>2, <2>3 DEF Client
  <2> HIDE DEF x
  <2>5. /\ x.pcmd => x.pr
        /\ x.open /\ ~x.asap /\ x.out > 0 => c \in ToSet(s.pwrite) \/ x.handler
    BY <1>1, <2>3, <2>4 DEF Fits
  <2>6. Good(m, t) /\ Steady(s, t) /\ t.cli[c] = x
    <3>1. x.open = k.open /\ x.pr = k.pr /\ x.pw = k.pw /\ x.asap = k.asap
      BY <2>3, <2>4
    <3> QED  BY <2>4, <2>5, <3>1, TouchedSteady, ZenonT(30)
  <2> HIDE DEF t
  <2> QED  BY <2>1, <2>3, <2>4, <2>6
<1>4. CASE ~(k.wire > 0) /\ k.eof
  <2>1. ReadSocket(s, c) = freeClientAsync(s, c)
    BY <1>4 DEF ReadSocket
  <2>2. Good(m, ReadSocket(s, c)) /\ Steady(s, ReadSocket(s, c))
    BY <2>1, AsyncFreed
  <2> DEFINE t == ReadSocket(s, c)
  <2> HIDE DEF t
  <2>3. Good(m, t) /\ t.pread = s.pread
    BY <2>2 DEF t, Steady
  <2>4. /\ t.cli[c] \in Client /\ Fits(m, t.cli[c], c, t.pread, t.pwrite, t.toclose)
    BY <2>3, GoodClient
  <2>5. t.cli[c].pr <=> k.pr
    BY <1>1, <2>3, <2>4 DEF Fits
  <2>6. t.cli[c].pr \in BOOLEAN /\ k.pr \in BOOLEAN
    BY <1>1, <2>4 DEF Client
  <2> QED  BY <2>2, <2>5, <2>6 DEF t
<1>5. CASE ~(k.wire > 0) /\ ~k.eof
  <2>1. ReadSocket(s, c) = s
    BY <1>5 DEF ReadSocket
  <2> QED  BY <2>1 DEF Steady, Keeps
<1> QED  BY <1>3, <1>4, <1>5

LEMMA CommandLeft ==
  ASSUME NEW m, NEW s, Good(m, s), NEW c \in Clients, MayParse(s.cli[c]) => s.cli[c].pr
  PROVE  Good(m, LeaveCommand(s, c)) /\ Steady(s, LeaveCommand(s, c))
<1> DEFINE k == s.cli[c]
           b == k.pcmd \/ MayParse(k)
           x == [k EXCEPT !.pcmd = b]
           t == WithCli(s, With(s.cli, c, x))
<1>1. k \in Client /\ Fits(m, k, c, s.pread, s.pwrite, s.toclose)
  BY GoodClient
<1>2. s.cli \in [Clients -> Client] /\ DOMAIN s.cli = Clients
  BY DEF Good, States
<1>3. LeaveCommand(s, c) = t
  BY <1>1, <1>2, Zenon DEF WithCli, With, LeaveCommand
<1>4. b \in BOOLEAN /\ (b => k.pr)
  BY <1>1 DEF Client, Fits
<1> HIDE DEF b
<1>5. /\ x \in Client /\ x.asap = k.asap /\ x.pr = k.pr /\ x.out = k.out
      /\ x.pcmd = b /\ x.open = k.open /\ x.pw = k.pw /\ x.handler = k.handler
  BY <1>1, <1>4 DEF Client
<1> HIDE DEF x
<1>6. /\ x.pcmd => x.pr
      /\ x.open /\ ~x.asap /\ x.out > 0 => c \in ToSet(s.pwrite) \/ x.handler
  BY <1>1, <1>4, <1>5 DEF Fits
<1>7. Good(m, t) /\ Steady(s, t)
  BY <1>5, <1>6, TouchedSteady
<1> HIDE DEF t
<1> QED  BY <1>3, <1>7


-----------------------------------------------------------------------------
(* Commands.                                                                *)

LEMMA QuitSound ==
  ASSUME NEW m, ~m, NEW s, Good(m, s), NEW c \in Clients, s.cli[c].open
  PROVE  Good(m, Quit(s, c)) /\ Keeps(s, Quit(s, c))
<1> DEFINE u == addReply(s, c)
           k == u.cli[c]
           x == [k EXCEPT !.after = TRUE]
           t == WithCli(u, With(u.cli, c, x))
<1>1. Good(m, u) /\ Keeps(s, u)
  BY Replied
<1> HIDE DEF u
<1>2. k \in Client /\ Fits(m, k, c, u.pread, u.pwrite, u.toclose)
  BY <1>1, GoodClient
<1>3. Quit(s, c) = t
  <2>1. u.cli \in [Clients -> Client] /\ DOMAIN u.cli = Clients
    BY <1>1 DEF Good, States
  <2>2. Quit(s, c) = [u EXCEPT !.cli[c].after = TRUE]
    BY DEF Quit, u
  <2> QED  BY <1>2, <2>1, <2>2, Zenon DEF WithCli, With
<1>4. /\ x \in Client /\ x.asap = k.asap /\ x.pr = k.pr /\ x.out = k.out
      /\ x.pcmd = k.pcmd /\ x.open = k.open /\ x.pw = k.pw /\ x.handler = k.handler
  BY <1>2 DEF Client
<1> HIDE DEF x
<1>5. /\ x.pcmd => x.pr
      /\ x.open /\ ~x.asap /\ x.out > 0 => c \in ToSet(u.pwrite) \/ x.handler
  BY <1>2, <1>4 DEF Fits
<1>6. Good(m, t) /\ Steady(u, t)
  BY <1>1, <1>4, <1>5, TouchedSteady
<1> HIDE DEF t
<1>7. Keeps(s, t)
  BY <1>1, <1>6, KeepsTwice DEF Steady
<1> QED  BY <1>3, <1>6, <1>7

\* Whatever a command does, the clients and queues stay consistent and the
\* client that sent it is not freed.
LEMMA EffectSound ==
  ASSUME NEW m, ~m, NEW s, Good(m, s), NEW c \in Clients, s.cli[c].open,
         NEW k, k.does \in {"answer", "quit", "send", "overflow", "kill"},
         k.to \in Clients, s.cli[k.to].open
  PROVE  Good(m, Effect(s, c, k)) /\ Effect(s, c, k).cli[c].open
<1> DEFINE t == k.to
<1>1. CASE k.does = "answer"
  <2>1. Effect(s, c, k) = addReply(s, c)
    BY <1>1 DEF Effect
  <2> QED  BY <2>1, Replied DEF Keeps
<1>2. CASE k.does = "quit" \/ (k.does = "kill" /\ t = c)
  <2>1. Effect(s, c, k) = Quit(s, c)
    BY <1>2 DEF Effect
  <2> QED  BY <2>1, QuitSound DEF Keeps
<1>3. CASE k.does = "send"
  <2> DEFINE u == addReply(s, t)
  <2>1. Effect(s, c, k) = addReply(u, c)
    BY <1>3 DEF Effect
  <2>2. Good(m, u) /\ Keeps(s, u)
    BY Replied
  <2> HIDE DEF u
  <2>3. u.cli[c].open
    BY <2>2 DEF Keeps
  <2>4. Good(m, addReply(u, c)) /\ Keeps(u, addReply(u, c))
    BY <2>2, <2>3, Replied
  <2> QED  BY <2>1, <2>3, <2>4 DEF Keeps
<1>4. CASE k.does = "overflow"
  <2> DEFINE u == addReply(s, t)
             v == freeClientAsync(u, t)
  <2>1. Effect(s, c, k) = addReply(v, c)
    BY <1>4 DEF Effect
  <2>2. Good(m, u) /\ Keeps(s, u)
    BY Replied
  <2> HIDE DEF u
  <2>3. u.cli[c].open /\ u.cli[t].open
    BY <2>2 DEF Keeps
  <2>4. Good(m, v) /\ Steady(u, v)
    BY <2>2, <2>3, AsyncFreed
  <2> HIDE DEF v
  <2>5. v.cli[c].open
    BY <2>3, <2>4 DEF Keeps, Steady
  <2>6. Good(m, addReply(v, c)) /\ Keeps(v, addReply(v, c))
    BY <2>4, <2>5, Replied
  <2> QED  BY <2>1, <2>5, <2>6 DEF Keeps
<1>5. CASE k.does = "kill" /\ t # c
  <2> DEFINE u == freeClient(s, t)
  <2>1. Effect(s, c, k) = addReply(u, c)
    BY <1>5 DEF Effect
  <2>2. Good(m, u) /\ u.cli[c] = s.cli[c]
    BY <1>5, Freed
  <2> HIDE DEF u
  <2>3. Good(m, addReply(u, c)) /\ Keeps(u, addReply(u, c))
    BY <2>2, Replied
  <2> QED  BY <2>1, <2>2, <2>3 DEF Keeps
<1> QED  BY <1>1, <1>2, <1>3, <1>4, <1>5

-----------------------------------------------------------------------------
(* Handing clients to the threads.                                          *)

\* Distribute gives every thread clients of the queue, and no client to two.
LEMMA Distributed ==
  ASSUME NEW q, Queue(q), NEW L,
         L = [j \in 0..(Threads - 1) |-> Pick(q, {i \in DOMAIN q : (i - 1) % Threads = j})]
  PROVE  Shared(L, q)
<1> DEFINE I(j) == {i \in DOMAIN q : (i - 1) % Threads = j}
<1>1. \A j \in 0..(Threads - 1) :
        /\ Queue(L[j])
        /\ \A c : c \in ToSet(L[j]) <=> \E i \in I(j) : q[i] = c
  <2>1. SUFFICES ASSUME NEW j \in 0..(Threads - 1)
                 PROVE  /\ Queue(L[j])
                        /\ \A c : c \in ToSet(L[j]) <=> \E i \in I(j) : q[i] = c
    OBVIOUS
  <2>2. L[j] = Pick(q, I(j)) /\ I(j) \subseteq DOMAIN q
    OBVIOUS
  <2> HIDE DEF I
  <2> QED  BY <2>2, Picked
<1>2. \A i, j : i # j => I(i) \cap I(j) = {}
  OBVIOUS
<1>3. q \in Seq(Clients) /\ IsInjective(q) /\ DOMAIN q = 1..Len(q)
  BY QueueDef DEF Queue
<1>4. \A j : I(j) \subseteq 1..Len(q)
  BY <1>3
<1>5. DOMAIN L = 0..(Threads - 1) /\ L = [j \in 0..(Threads - 1) |-> L[j]]
  OBVIOUS
<1> HIDE DEF I
<1>6. L \in [0..(Threads - 1) -> Seq(Clients)]
  BY <1>1, <1>5 DEF Queue
<1>7. \A j \in 0..(Threads - 1) : IsInjective(L[j]) /\ ToSet(L[j]) \subseteq ToSet(q)
  <2>1. SUFFICES ASSUME NEW j \in 0..(Threads - 1)
                 PROVE  IsInjective(L[j]) /\ ToSet(L[j]) \subseteq ToSet(q)
    OBVIOUS
  <2>2. IsInjective(L[j])
    BY <1>1 DEF Queue
  <2>3. ASSUME NEW c \in ToSet(L[j]) PROVE c \in ToSet(q)
    <3>1. PICK i \in I(j) : q[i] = c
      BY <1>1
    <3> QED  BY <1>3, <1>4, <3>1, QueueDef
  <2> QED  BY <2>2, <2>3
<1>8. ASSUME NEW i \in 0..(Threads - 1), NEW j \in 0..(Threads - 1), i # j,
             NEW c \in ToSet(L[i]) \cap ToSet(L[j])
      PROVE  FALSE
  <2>1. PICK a \in I(i) : q[a] = c
    BY <1>1
  <2>2. PICK b \in I(j) : q[b] = c
    BY <1>1
  <2>3. a = b
    BY <1>3, <1>4, <2>1, <2>2, QueueDef
  <2> QED  BY <1>2, <1>8, <2>1, <2>2, <2>3
<1> QED  BY <1>6, <1>7, <1>8 DEF Shared

\* A thread is done with the first client of its list.
LEMMA ServedFirst ==
  ASSUME NEW L, NEW q, Shared(L, q), NEW j \in 0..(Threads - 1), L[j] # <<>>
  PROVE  /\ Shared([L EXCEPT ![j] = Tail(@)], q)
         /\ Head(L[j]) \in ToSet(q) /\ Head(L[j]) \in Clients
<1> DEFINE M == [L EXCEPT ![j] = Tail(@)]
<1>1. L \in [0..(Threads - 1) -> Seq(Clients)]
  BY DEF Shared
<1>2. Queue(L[j])
  BY <1>1 DEF Shared, Queue
<1>3. /\ Queue(Tail(L[j])) /\ ToSet(Tail(L[j])) = ToSet(L[j]) \ {Head(L[j])}
      /\ Head(L[j]) \in Clients /\ Head(L[j]) \in ToSet(L[j])
  BY <1>2, Popped
<1>4. M \in [0..(Threads - 1) -> Seq(Clients)]
  BY <1>1, <1>3 DEF Queue
<1>5. M[j] = Tail(L[j]) /\ \A i \in 0..(Threads - 1) : i # j => M[i] = L[i]
  BY <1>1
<1> HIDE DEF M
<1>6. \A i \in 0..(Threads - 1) : IsInjective(M[i]) /\ ToSet(M[i]) \subseteq ToSet(L[i])
  BY <1>3, <1>5 DEF Shared, Queue
<1>7. Shared(M, q)
  BY <1>4, <1>6 DEF Shared
<1>8. Head(L[j]) \in ToSet(q)
  BY <1>3 DEF Shared
<1> QED  BY <1>3, <1>7, <1>8 DEF M


-----------------------------------------------------------------------------
(* The steps.                                                               *)

LEMMA NowGood ==
  ASSUME IInv
  PROVE  /\ Good(Writing(main.pc, op), Now)
         /\ Now.cli = cli /\ Now.pread = pread /\ Now.pwrite = pwrite /\ Now.toclose = toclose
<1>1. Now = State(cli, pread, pwrite, toclose)
  BY DEF Now, State
<1> QED  BY <1>1, GoodState, StateFields DEF IInv

LEMMA SameMode ==
  ASSUME NEW m, NEW n, m <=> n, NEW f, NEW r, NEW w, NEW t, Sound(m, f, r, w, t)
  PROVE  Sound(n, f, r, w, t)
  BY DEF Sound, Fits

\* The stacks of return addresses.
LEMMA Stacks ==
  /\ Head(<<"writes">>) = "writes" /\ Tail(<<"writes">>) = <<>>
  /\ Head(<<"sleep">>) = "sleep" /\ Tail(<<"sleep">>) = <<>>
  /\ Head(<<"sync">>) = "sync" /\ Tail(<<"sync">>) = <<>>
  /\ Head(<<"events">>) = "events" /\ Tail(<<"events">>) = <<>>
  /\ Head(<<"park", "sleep">>) = "park" /\ Tail(<<"park", "sleep">>) = <<"sleep">>
  /\ Head(<<"park", "sync">>) = "park" /\ Tail(<<"park", "sync">>) = <<"sync">>
  /\ <<"writes">> \o <<>> = <<"writes">> /\ <<"events">> \o <<>> = <<"events">>
  /\ <<"park", "sleep">> \o <<>> = <<"park", "sleep">>
  /\ <<"park", "sync">> \o <<>> = <<"park", "sync">>
  OBVIOUS

LEMMA Pushed ==
  ASSUME NEW b \in Seq(Places), NEW a \in Places
  PROVE  /\ <<a>> \o b \in Seq(Places)
         /\ Head(<<a>> \o b) = a /\ Tail(<<a>> \o b) = b
<1> DEFINE q == <<a>> \o b
<1>1. q \in Seq(Places) /\ Len(q) = Len(b) + 1 /\ q[1] = a /\ Len(b) \in Nat
  OBVIOUS
<1>2. \A i \in 1..Len(b) : q[i + 1] = b[i]
  OBVIOUS
<1> HIDE DEF q
<1>3. Head(q) = a /\ Tail(q) \in Seq(Places) /\ Len(Tail(q)) = Len(b)
  BY <1>1
<1>4. \A i \in 1..Len(b) : Tail(q)[i] = q[i + 1]
  BY <1>1
<1> DEFINE t == Tail(q)
<1> HIDE DEF t
<1>5. t \in Seq(Places) /\ Len(t) = Len(b) /\ \A i \in 1..Len(t) : t[i] = b[i]
  BY <1>2, <1>3, <1>4 DEF t
<1>6. t = b
  BY <1>5, SeqEqual
<1> QED  BY <1>1, <1>3, <1>6 DEF q, t

LEMMA BaseStacks ==
  ASSUME NEW b \in Bases
  PROVE  /\ b \in Seq(Places) /\ <<"parsed">> \o b \in Seq(Places)
         /\ Head(<<"parsed">> \o b) = "parsed" /\ Tail(<<"parsed">> \o b) = b
<1>1. "writes" \in Places /\ "park" \in Places /\ "sleep" \in Places /\ "sync" \in Places
  BY DEF Places
<1>2. <<"writes">> \in Seq(Places) /\ <<"park", "sleep">> \in Seq(Places)
  BY <1>1
<1>3. <<"park", "sync">> \in Seq(Places)
  BY <1>1
<1>5. b \in Seq(Places)
  BY <1>2, <1>3 DEF Bases
<1>6. "parsed" \in Places
  BY DEF Places
<1> QED  BY <1>5, <1>6, Pushed

\* A step of the main thread that touches no client and gives no thread work.
LEMMA Quiet ==
  ASSUME IInv, UNCHANGED <<cli, queues, list, pending, op, worker>>,
         main.pc \notin {"slice", "install"}, main'.pc \notin {"slice", "install", "exec"},
         main' \in MainType,
         main'.cur = NoClient, Stacked(main', op)
  PROVE  IInv'
<1>1. Writing(main'.pc, op') <=> Writing(main.pc, op)
  BY DEF Writing
<1>2. Sound(Writing(main.pc, op), cli, pread, pwrite, toclose)'
  <2>1. Sound(Writing(main'.pc, op'), cli, pread, pwrite, toclose)
    BY <1>1, SameMode DEF IInv
  <2> QED  BY <2>1 DEF queues
<1>3. ControlInv'
  BY DEF IInv, ControlInv, Executing
<1>4. ListInv'
  BY DEF IInv, ListInv
<1>5. WorkInv'
  BY DEF IInv, WorkInv
<1> QED  BY <1>2, <1>3, <1>4, <1>5 DEF IInv

\* The main thread's record after Goto, Call and Return.
LEMMA Went ==
  ASSUME main \in MainType, NEW pc \in Places, Goto(pc)
  PROVE  /\ main' \in MainType /\ main'.pc = pc /\ main'.ret = main.ret
         /\ main'.cur = main.cur /\ main'.parsed = main.parsed
  BY DEF Goto, MainType

LEMMA Called ==
  ASSUME main \in MainType, NEW pc \in Places, NEW rets \in Seq(Places), Call(pc, rets)
  PROVE  main' \in MainType /\ main'.pc = pc /\ main'.ret = rets \o main.ret /\ main'.cur = main.cur
<1> DEFINE a == [main EXCEPT !.pc = pc]
           r == rets \o main.ret
<1>1. main' = [a EXCEPT !.ret = r]
  BY Zenon DEF Call, MainType
<1>2. r \in Seq(Places)
  BY DEF MainType
<1> HIDE DEF r
<1>3. a \in MainType /\ a.pc = pc /\ a.cur = main.cur
  BY DEF MainType
<1> HIDE DEF a
<1>4. main' \in MainType /\ main'.pc = pc /\ main'.ret = r /\ main'.cur = main.cur
  BY <1>1, <1>2, <1>3 DEF MainType
<1> QED  BY <1>4 DEF r

LEMMA Returned ==
  ASSUME main \in MainType, NEW pc \in Places, NEW r \in Seq(Places),
         Head(main.ret) = pc, Tail(main.ret) = r, Return
  PROVE  main' \in MainType /\ main'.pc = pc /\ main'.ret = r /\ main'.cur = NoClient
<1> DEFINE a == [main EXCEPT !.pc = pc]
           b == [a EXCEPT !.ret = r]
<1>1. main' = [b EXCEPT !.cur = NoClient]
  BY Zenon DEF Return, MainType
<1>2. a \in MainType /\ a.pc = pc
  BY DEF MainType
<1> HIDE DEF a
<1>3. b \in MainType /\ b.pc = pc /\ b.ret = r
  BY <1>2 DEF MainType
<1> HIDE DEF b
<1> QED  BY <1>1, <1>3 DEF MainType


\* The main thread goes to another place, on the same stack.
LEMMA QuietGoto ==
  ASSUME IInv, UNCHANGED <<cli, queues, list, pending, op, worker>>,
         main.pc \in {"poll", "writes", "sync", "free"}, NEW pc \in {"events", "sync", "free", "poll"},
         Goto(pc)
  PROVE  IInv'
<1>1. main \in MainType /\ main.ret = <<>> /\ main.cur = NoClient
  BY DEF IInv, ControlInv, Stacked, Executing
<1>2. pc \in Places
  BY DEF Places
<1>3. main' \in MainType /\ main'.pc = pc /\ main'.ret = <<>> /\ main'.cur = NoClient
  BY <1>1, <1>2, Went
<1>4. Stacked(main', op)
  BY <1>3 DEF Stacked
<1> QED  BY <1>3, <1>4, Quiet

\* The main thread calls the handling of pending reads.
LEMMA QuietCall ==
  ASSUME IInv, UNCHANGED <<cli, queues, list, pending, op, worker>>,
         main.pc \in {"events", "sleep", "writes"}, NEW b \in Bases, Call("reads", b)
  PROVE  IInv'
<1>1. main \in MainType /\ main.ret = <<>> /\ main.cur = NoClient
  BY DEF IInv, ControlInv, Stacked, Executing
<1>2. "reads" \in Places /\ b \in Seq(Places)
  BY BaseStacks DEF Places
<1>3. /\ main' \in MainType /\ main'.pc = "reads" /\ main'.ret = b \o <<>>
      /\ main'.cur = NoClient
  BY <1>1, <1>2, Called
<1>4. main'.ret = b
  BY <1>2, <1>3, ConcatEmptySeq
<1>5. Stacked(main', op)
  BY <1>3, <1>4 DEF Stacked
<1> QED  BY <1>3, <1>5, Quiet

\* The main thread returns from the handling of pending reads or from parking.
LEMMA QuietReturn ==
  ASSUME IInv, UNCHANGED <<cli, queues, list, pending, op, worker>>,
         main.pc \in {"reads", "parsed", "park"}, Return
  PROVE  IInv'
<1>1. main \in MainType
  BY DEF IInv, ControlInv
<1> DEFINE pc == Head(main.ret)
           r == Tail(main.ret)
<1>2. main.ret \in Bases \/ main.ret \in {<<"sleep">>, <<"sync">>}
  BY DEF IInv, ControlInv, Stacked
<1>3. \/ pc \in {"writes", "sleep", "sync"} /\ r = <<>>
      \/ pc = "park" /\ r \in {<<"sleep">>, <<"sync">>}
  BY <1>2, Stacks DEF Bases
<1>4. pc \in Places /\ r \in Seq(Places)
  <2>1. "sleep" \in Places /\ "sync" \in Places
    BY DEF Places
  <2>2. <<"sleep">> \in Seq(Places) /\ <<"sync">> \in Seq(Places) /\ <<>> \in Seq(Places)
    BY <2>1
  <2>3. pc \in Places
    BY <1>3 DEF Places
  <2> QED  BY <1>3, <2>2, <2>3
<1>5. main' \in MainType /\ main'.pc = pc /\ main'.ret = r /\ main'.cur = NoClient
  BY <1>1, <1>4, Returned
<1> HIDE DEF pc, r
<1>6. Stacked(main', op)
  BY <1>3, <1>5 DEF Stacked
<1> QED  BY <1>3, <1>5, <1>6, Quiet

LEMMA QuietSteps ==
  ASSUME IInv,
         \/ aeApiPoll \/ serverCron \/ beforeSleep \/ NoReads \/ ReadsDone \/ NoWrites
         \/ WriteAlone \/ WritesDone \/ NoneToFree \/ ThreadsParked
  PROVE  IInv'
<1>1. /\ <<"writes">> \in Bases /\ <<"park", "sleep">> \in Bases
      /\ <<"park", "sync">> \in Bases
  BY DEF Bases
<1>2. CASE aeApiPoll
  BY <1>2, QuietGoto DEF aeApiPoll, At, threads
<1>3. CASE serverCron
  BY <1>1, <1>3, QuietCall DEF serverCron, At, threads
<1>4. CASE beforeSleep
  BY <1>1, <1>4, QuietCall DEF beforeSleep, At, threads
<1>5. CASE NoReads
  BY <1>5, QuietReturn DEF NoReads, At, threads
<1>6. CASE ReadsDone
  BY <1>6, QuietReturn DEF ReadsDone, At, threads
<1>7. CASE NoWrites
  BY <1>7, QuietGoto DEF NoWrites, At, threads
<1>8. CASE WriteAlone
  <2>1. main.pc = "writes" /\ UNCHANGED <<cli, queues, list, pending, op, worker>>
    BY <1>8 DEF WriteAlone, At, threads
  <2>2. CASE active
    BY <1>1, <1>8, <2>1, <2>2, QuietCall DEF WriteAlone
  <2>3. CASE ~active
    BY <1>8, <2>1, <2>3, QuietGoto DEF WriteAlone
  <2> QED  BY <2>2, <2>3
<1>9. CASE WritesDone
  BY <1>9, QuietGoto DEF WritesDone, At, threads
<1>10. CASE NoneToFree
  BY <1>10, QuietGoto DEF NoneToFree, At, threads
<1>11. CASE ThreadsParked
  BY <1>11, QuietReturn DEF ThreadsParked, At
<1> QED
  BY <1>2, <1>3, <1>4, <1>5, <1>6, <1>7, <1>8, <1>9, <1>10, <1>11

\* Steps that leave the main thread where it is, and the lists alone.
LEMMA SmallSteps ==
  ASSUME IInv,
         SkipEvent \/ \E j \in Workers : ParkThread(j) \/ Spin(j) \/ LockUnlock(j) \/ ThreadDone(j)
  PROVE  IInv'
<1>1. UNCHANGED <<cli, queues, list, op, main>>
  BY DEF SkipEvent, ParkThread, Spin, LockUnlock, ThreadDone, threads
<1>2. Sound(Writing(main.pc, op), cli, pread, pwrite, toclose)'
  BY <1>1 DEF IInv, queues
<1>3. ControlInv'
  BY <1>1 DEF IInv, ControlInv
<1>4. ListInv'
  BY <1>1 DEF IInv, ListInv, queues
<1>5. WorkInv'
  <2>1. CASE SkipEvent
    BY <1>1, <2>1 DEF IInv, WorkInv, SkipEvent, threads
  <2>2. ASSUME NEW j \in Workers, ParkThread(j) PROVE WorkInv'
    BY <1>1, <2>2 DEF IInv, WorkInv, ParkThread
  <2>3. ASSUME NEW j \in Workers, Spin(j) PROVE WorkInv'
    <3>1. /\ pending' = pending
          /\ worker' = [worker EXCEPT ![j] = IF pending[j] = 0 THEN "lock" ELSE "work"]
      BY <2>3 DEF Spin
    <3> QED  BY <1>1, <3>1 DEF IInv, WorkInv
  <2>4. ASSUME NEW j \in Workers, LockUnlock(j) PROVE WorkInv'
    <3>1. /\ pending' = pending
          /\ \/ worker' = [worker EXCEPT ![j] = "unlock"]
             \/ worker' = [worker EXCEPT ![j] = "spin"]
      BY <2>4 DEF LockUnlock
    <3> QED  BY <1>1, <3>1 DEF IInv, WorkInv
  <2>5. ASSUME NEW j \in Workers, ThreadDone(j) PROVE WorkInv'
    <3>1. /\ pending' = [pending EXCEPT ![j] = 0] /\ list[j] = <<>>
          /\ worker' = [worker EXCEPT ![j] = "spin"]
      BY <2>5 DEF ThreadDone
    <3> QED  BY <1>1, <3>1 DEF IInv, WorkInv
  <2> QED  BY <2>1, <2>2, <2>3, <2>4, <2>5
<1> QED  BY <1>2, <1>3, <1>4, <1>5 DEF IInv


LEMMA ClientsChanged ==
  ASSUME IInv, UNCHANGED <<main, op>>, NEW s, Good(Writing(main.pc, op), s), Is(s),
         main.pc = "exec" => s.cli[main.cur].open
  PROVE  Sound(Writing(main.pc, op), cli, pread, pwrite, toclose)' /\ ControlInv'
<1>1. Sound(Writing(main.pc, op), cli, pread, pwrite, toclose)'
  BY DEF Good, Is
<1>2. cli' = s.cli
  BY DEF Is
<1> QED  BY <1>1, <1>2 DEF IInv, ControlInv, Executing

LEMMA IdleLists ==
  ASSUME IInv, main.pc # "slice", main'.pc # "slice", UNCHANGED <<list, pending, worker>>
  PROVE  ListInv' /\ WorkInv'
<1>1. ListInv'
  BY DEF IInv, ListInv
<1>2. WorkInv'
  BY DEF IInv, WorkInv
<1> QED  BY <1>1, <1>2

\* One client changes, not what the queues and threads know of it.
LEMMA PeerSteps ==
  ASSUME IInv, NEW c \in Clients, ClientSends(c) \/ ClientDisconnects(c)
  PROVE  IInv'
<1> DEFINE m == Writing(main.pc, op)
           k == cli[c]
<1>1. /\ Good(m, Now) /\ Now.cli = cli /\ Now.pread = pread /\ Now.pwrite = pwrite
      /\ Now.toclose = toclose
  BY NowGood
<1>2. k \in Client /\ Fits(m, k, c, pread, pwrite, toclose) /\ cli \in [Clients -> Client]
  BY <1>1, GoodClient DEF Good, States
<1>3. \E x \in Client :
        /\ cli' = With(cli, c, x)
        /\ x.asap = k.asap /\ x.pr = k.pr /\ x.out = k.out
        /\ x.pcmd = k.pcmd /\ x.open = k.open /\ x.pw = k.pw /\ x.handler = k.handler
  <2>1. CASE ClientSends(c)
    <3> DEFINE n == k.wire + 1
               x == [k EXCEPT !.wire = n]
    <3>1. cli' = With(cli, c, x)
      BY <1>2, <2>1, Zenon DEF ClientSends, With
    <3>2. n \in Int
      BY <1>2 DEF Client
    <3> HIDE DEF n
    <3>3. /\ x \in Client /\ x.asap = k.asap /\ x.pr = k.pr /\ x.out = k.out
          /\ x.pcmd = k.pcmd /\ x.open = k.open /\ x.pw = k.pw /\ x.handler = k.handler
      BY <1>2, <3>2 DEF Client
    <3> QED  BY <3>1, <3>3
  <2>2. CASE ClientDisconnects(c)
    <3> DEFINE x == [k EXCEPT !.eof = TRUE]
    <3>1. cli' = With(cli, c, x)
      BY <1>2, <2>2, Zenon DEF ClientDisconnects, With
    <3>3. /\ x \in Client /\ x.asap = k.asap /\ x.pr = k.pr /\ x.out = k.out
          /\ x.pcmd = k.pcmd /\ x.open = k.open /\ x.pw = k.pw /\ x.handler = k.handler
      BY <1>2 DEF Client
    <3> QED  BY <3>1, <3>3
  <2> QED  BY <2>1, <2>2
<1>4. PICK x \in Client :
        /\ cli' = With(cli, c, x)
        /\ x.asap = k.asap /\ x.pr = k.pr /\ x.out = k.out
        /\ x.pcmd = k.pcmd /\ x.open = k.open /\ x.pw = k.pw /\ x.handler = k.handler
  BY <1>3
<1> DEFINE s == WithCli(Now, With(cli, c, x))
<1>5. Good(m, s) /\ Steady(Now, s)
  <2>1. /\ x.pcmd => x.pr
        /\ x.open /\ ~x.asap /\ x.out > 0 => c \in ToSet(pwrite) \/ x.handler
    BY <1>2, <1>4 DEF Fits
  <2>2. x.open = cli[c].open /\ x.pr = cli[c].pr /\ x.pw = cli[c].pw /\ x.asap = cli[c].asap
    BY <1>4
  <2> HIDE DEF m
  <2> QED  BY <1>1, <2>1, <2>2, TouchedSteady
<1>6. UNCHANGED <<main, op, list, pending, worker, pread, pwrite, toclose>>
  BY DEF ClientSends, ClientDisconnects, queues, threads
<1>7. Is(s)
  <2>1. s = State(With(cli, c, x), pread, pwrite, toclose)
    <3>1. Now = State(cli, pread, pwrite, toclose)
      BY DEF Now, State
    <3> QED  BY <3>1, StateExcept
  <2> QED  BY <1>4, <1>6, <2>1, StateFields DEF Is
<1>8. main.pc = "exec" => s.cli[main.cur].open
  <2> HIDE DEF s
  <2> QED  BY <1>1, <1>5 DEF IInv, ControlInv, Executing, Steady, Keeps
<1> HIDE DEF s
<1>9. Sound(Writing(main.pc, op), cli, pread, pwrite, toclose)' /\ ControlInv'
  BY <1>5, <1>6, <1>7, <1>8, ClientsChanged
<1>10. ListInv'
  BY <1>6 DEF IInv, ListInv
<1>11. WorkInv'
  BY <1>6 DEF IInv, WorkInv
<1> QED  BY <1>9, <1>10, <1>11 DEF IInv

LEMMA OutcomeSet ==
  ASSUME NEW c, NEW how \in Outcomes(c)
  PROVE  how \in {"all", "part", "error"}
  BY DEF Outcomes

\* Serving a client leaves the queues of pending reads and writes alone.
LEMMA ServeSound ==
  ASSUME IInv, main.pc = "slice", NEW c \in Clients,
         c \in ToSet(IF op = "read" THEN pread ELSE pwrite), Serve(c), UNCHANGED <<main, op>>
  PROVE  /\ Sound(Writing(main.pc, op), cli, pread, pwrite, toclose)' /\ ControlInv'
         /\ UNCHANGED <<pread, pwrite>>
<1> DEFINE m == Writing(main.pc, op)
<1>1. /\ Good(m, Now) /\ Now.cli = cli /\ Now.pread = pread /\ Now.pwrite = pwrite
      /\ Now.toclose = toclose
  BY NowGood
<1>2. cli[c] \in Client /\ Fits(m, cli[c], c, pread, pwrite, toclose)
  BY <1>1, GoodClient
<1>3. cli[c].open
  BY <1>2 DEF Fits
<1>4. \E s : Good(m, s) /\ Steady(Now, s) /\ Is(s)
  <2> HIDE DEF m
  <2>1. CASE op = "read" /\ Is(LeaveCommand(ReadSocket(Now, c), c))
    <3> DEFINE t == ReadSocket(Now, c)
               u == LeaveCommand(t, c)
    <3>1. cli[c].pr
      BY <1>2, <2>1 DEF Fits
    <3>2. Good(m, t) /\ Steady(Now, t) /\ t.cli[c].pr
      BY <1>1, <1>3, <3>1, SocketRead
    <3> HIDE DEF t
    <3>3. Good(m, u) /\ Steady(t, u)
      BY <3>2, CommandLeft
    <3>4. Is(u)
      BY <2>1 DEF t
    <3> HIDE DEF u
    <3> QED  BY <3>2, <3>3, <3>4, SteadyTwice
  <2>2. ASSUME NEW how \in Outcomes(c), Is(writeToClient(Now, c, how, FALSE))
        PROVE  \E s : Good(m, s) /\ Steady(Now, s) /\ Is(s)
    <3> DEFINE hi == FALSE
               t == writeToClient(Now, c, how, hi)
    <3>1. Is(t)
      BY <2>2
    <3> HIDE DEF hi
    <3>2. how \in {"all", "part", "error"}
      BY OutcomeSet
    <3>3. Good(m, t) /\ Steady(Now, t)
      BY <1>1, <1>3, <3>2, Written
    <3> HIDE DEF t
    <3> QED  BY <3>1, <3>3
  <2> QED  BY <2>1, <2>2 DEF Serve
<1>5. PICK s : Good(m, s) /\ Steady(Now, s) /\ Is(s)
  BY <1>4
<1>6. Sound(Writing(main.pc, op), cli, pread, pwrite, toclose)' /\ ControlInv'
  BY <1>5, ClientsChanged
<1>7. pread' = pread /\ pwrite' = pwrite
  BY <1>1, <1>5 DEF Is, Steady
<1> QED  BY <1>6, <1>7

LEMMA ServeSteps ==
  ASSUME IInv, MainServes \/ \E j \in Workers : ThreadServes(j)
  PROVE  IInv'
<1>1. PICK j \in 0..(Threads - 1) :
        /\ main.pc = "slice" /\ list[j] # <<>> /\ Serve(Head(list[j]))
        /\ list' = [list EXCEPT ![j] = Tail(@)]
        /\ j \in Workers => pending[j] # 0
  <2>1. CASE MainServes
    <3>1. 0 \in 0..(Threads - 1) /\ 0 \notin Workers
      BY IOAssumption DEF Workers
    <3> QED  BY <2>1, <3>1 DEF MainServes, At
  <2>2. ASSUME NEW i \in Workers, ThreadServes(i)
        PROVE  /\ i \in 0..(Threads - 1)
               /\ main.pc = "slice" /\ list[i] # <<>> /\ Serve(Head(list[i]))
               /\ list' = [list EXCEPT ![i] = Tail(@)]
               /\ pending[i] # 0
    <3>1. i \in 0..(Threads - 1)
      BY IOAssumption DEF Workers
    <3>2. pending[i] # 0
      BY <2>2 DEF ThreadServes, IInv, WorkInv
    <3>3. main.pc = "slice"
      BY <3>2 DEF IInv, WorkInv
    <3> QED  BY <2>2, <3>1, <3>2, <3>3 DEF ThreadServes
  <2> QED  BY <2>1, <2>2
<1>2. UNCHANGED <<main, op, pending, worker>>
  BY DEF MainServes, ThreadServes
<1> DEFINE q == IF op = "read" THEN pread ELSE pwrite
<1>3. Shared(list, q)
  BY <1>1 DEF IInv, ListInv
<1>4. Shared(list', q) /\ Head(list[j]) \in ToSet(q) /\ Head(list[j]) \in Clients
  <2> HIDE DEF q
  <2> QED  BY <1>1, <1>3, ServedFirst
<1>5. /\ Sound(Writing(main.pc, op), cli, pread, pwrite, toclose)' /\ ControlInv'
      /\ UNCHANGED <<pread, pwrite>>
  BY <1>1, <1>2, <1>4, ServeSound
<1>6. ListInv'
  BY <1>1, <1>2, <1>4, <1>5 DEF ListInv
<1>7. WorkInv'
  <2>1. \A i \in Workers : i \in 0..(Threads - 1)
    BY IOAssumption DEF Workers
  <2>2. list \in [0..(Threads - 1) -> Seq(Clients)]
    BY <1>3 DEF Shared
  <2>3. \A i \in Workers : pending[i] = 0 => list'[i] = list[i]
    BY <1>1, <2>1, <2>2
  <2> QED  BY <1>1, <1>2, <2>3 DEF IInv, WorkInv
<1> QED  BY <1>5, <1>6, <1>7 DEF IInv


LEMMA StartsCommands ==
  ASSUME IInv, main.pc \in {"events", "parsed"}, NEW c \in Clients, NEW b \in BOOLEAN,
         RunCommandsOf(c, b), UNCHANGED <<op, list, pending, worker>>,
         NEW s, Good(Writing(main.pc, op), s), Is(s), s.cli[c].open
  PROVE  IInv'
<1>1. main \in MainType
  BY DEF IInv, ControlInv
<1> DEFINE r == <<main.pc>> \o main.ret
<1>2. main.ret \in Seq(Places) /\ main.pc \in Places
  BY <1>1 DEF MainType
<1>3. main' = [pc |-> "exec", cur |-> c, parsed |-> b, ret |-> r]
  BY DEF RunCommandsOf
<1>4. r \in Seq(Places)
  BY <1>2, Pushed
<1>5. r = <<"events">> \/ \E d \in Bases : r = <<"parsed">> \o d
  <2>1. CASE main.pc = "events"
    <3>1. main.ret = <<>>
      BY <2>1 DEF IInv, ControlInv, Stacked
    <3> QED  BY <2>1, <3>1, Stacks
  <2>2. CASE main.pc = "parsed"
    <3>1. main.ret \in Bases
      BY <2>2 DEF IInv, ControlInv, Stacked
    <3> QED  BY <2>2, <3>1
  <2> QED  BY <2>1, <2>2
<1> HIDE DEF r
<1>6. main' \in MainType /\ main'.pc = "exec" /\ main'.cur = c /\ main'.ret = r
  <2>1. "exec" \in Places
    BY DEF Places
  <2> QED  BY <1>3, <1>4, <2>1 DEF MainType
<1>7. Sound(Writing(main.pc, op), cli, pread, pwrite, toclose)'
  <2>1. Writing(main.pc, op) <=> Writing(main'.pc, op')
    BY <1>6 DEF Writing
  <2>2. Sound(Writing(main.pc, op), cli', pread', pwrite', toclose')
    BY DEF Good, Is
  <2>3. Sound(Writing(main'.pc, op'), cli', pread', pwrite', toclose')
    BY <2>1, <2>2, SameMode
  <2> QED  BY <2>3
<1>8. ControlInv'
  <2>1. cli'[c].open
    BY DEF Is
  <2>2. Stacked(main', op)
    BY <1>5, <1>6 DEF Stacked
  <2> QED  BY <1>6, <2>1, <2>2 DEF IInv, ControlInv, Executing
<1>9. ListInv' /\ WorkInv'
  BY <1>6, IdleLists
<1> QED  BY <1>7, <1>8, <1>9 DEF IInv

LEMMA ReadStep ==
  ASSUME IInv, NEW c \in Clients, readQueryFromClient(c)
  PROVE  IInv'
<1> DEFINE m == Writing(main.pc, op)
           k == cli[c]
<1>1. /\ Good(m, Now) /\ Now.cli = cli /\ Now.pread = pread /\ Now.pwrite = pwrite
      /\ Now.toclose = toclose
  BY NowGood
<1>2. /\ k \in Client /\ Fits(m, k, c, pread, pwrite, toclose)
      /\ Queue(pread) /\ Queue(pwrite) /\ Queue(toclose)
  BY <1>1, GoodClient
<1>3. main.pc = "events" /\ cli[c].open /\ UNCHANGED <<op, list, pending, worker>>
  BY DEF readQueryFromClient, At, threads
<1>4. CASE postponeClientRead(c)
  <2> DEFINE x == [k EXCEPT !.pr = TRUE]
             q == <<c>> \o pread
             s == State(With(cli, c, x), q, pwrite, toclose)
  <2>1. Is([Now EXCEPT !.cli[c].pr = TRUE, !.pread = <<c>> \o @]) /\ main' = main
    BY <1>4 DEF readQueryFromClient
  <2>2. ~k.pr
    BY <1>4 DEF postponeClientRead
  <2>3. [Now EXCEPT !.cli[c].pr = TRUE, !.pread = <<c>> \o @] = WithRead(WithCli(Now, With(cli, c, x)), q)
    BY <1>1, Zenon DEF WithRead, WithCli, With
  <2>4. Queue(q) /\ ToSet(q) = ToSet(pread) \cup {c}
    BY <1>2, <2>2, Prepended DEF Fits
  <2>5. /\ x \in Client /\ x.pr = TRUE /\ x.asap = k.asap /\ x.out = k.out
        /\ x.pcmd = k.pcmd /\ x.open = k.open /\ x.pw = k.pw /\ x.handler = k.handler
    BY <1>2 DEF Client
  <2> HIDE DEF x, q
  <2>6. Is(s)
    <3>1. Now = State(cli, pread, pwrite, toclose)
      BY DEF Now, State
    <3>2. WithRead(WithCli(Now, With(cli, c, x)), q) = s
      BY <3>1, StateExcept
    <3> QED  BY <2>1, <2>3, <3>2
  <2>7. Fits(m, x, c, q, pwrite, toclose)
    <3> HIDE DEF m
    <3> QED  BY <1>2, <1>3, <2>4, <2>5 DEF Fits
  <2>8. SameElse(c, pread, q)
    BY <2>4 DEF SameElse
  <2>9. Good(m, s)
    <3> HIDE DEF m
    <3> QED  BY <1>1, <1>2, <2>4, <2>5, <2>7, <2>8, SameItself, Changed
  <2>10. Sound(Writing(main.pc, op), cli, pread, pwrite, toclose)' /\ ControlInv'
    BY <1>3, <2>1, <2>6, <2>9, ClientsChanged
  <2>11. ListInv' /\ WorkInv'
    BY <1>3, <2>1, IdleLists
  <2> QED  BY <2>10, <2>11 DEF IInv
<1>5. CASE ~postponeClientRead(c)
  <2> DEFINE s == ReadSocket(Now, c)
             b == FALSE
  <2>1. Is(s) /\ RunCommandsOf(c, b)
    BY <1>5 DEF readQueryFromClient
  <2>2. Good(m, s) /\ Steady(Now, s)
    BY <1>1, <1>3, SocketRead
  <2>3. b \in BOOLEAN
    OBVIOUS
  <2> HIDE DEF b, s
  <2>4. s.cli[c].open
    BY <1>1, <1>3, <2>2 DEF Steady, Keeps
  <2> QED  BY <1>3, <2>1, <2>2, <2>3, <2>4, StartsCommands
<1> QED  BY <1>4, <1>5

LEMMA ReplyStep ==
  ASSUME IInv, NEW c \in Clients, sendReplyToClient(c)
  PROVE  IInv'
<1> DEFINE m == Writing(main.pc, op)
<1>1. Good(m, Now) /\ Now.cli = cli
  BY NowGood
<1>2. /\ main.pc = "events" /\ cli[c].open /\ UNCHANGED <<op, list, pending, worker>>
      /\ main' = main
  BY DEF sendReplyToClient, At, threads
<1>3. PICK how \in Outcomes(c) : Is(writeToClient(Now, c, how, TRUE))
  BY DEF sendReplyToClient
<1>4. how \in {"all", "part", "error"}
  BY OutcomeSet
<1> DEFINE hi == TRUE
           s == writeToClient(Now, c, how, hi)
<1>5. Is(s)
  BY <1>3
<1> HIDE DEF hi
<1>6. Good(m, s)
  BY <1>1, <1>2, <1>4, Written
<1> HIDE DEF s
<1>7. Sound(Writing(main.pc, op), cli, pread, pwrite, toclose)' /\ ControlInv'
  BY <1>2, <1>5, <1>6, ClientsChanged
<1>8. ListInv' /\ WorkInv'
  BY <1>2, IdleLists
<1> QED  BY <1>7, <1>8 DEF IInv

LEMMA CommandStep ==
  ASSUME IInv, ExecuteCommand
  PROVE  IInv'
<1> DEFINE m == Writing(main.pc, op)
           c == main.cur
           k == cli[c]
<1>1. /\ Good(m, Now) /\ Now.cli = cli /\ Now.pwrite = pwrite
  BY NowGood
<1>2. main.pc = "exec" /\ c \in Clients /\ k.open /\ main \in MainType
  BY DEF ExecuteCommand, At, IInv, ControlInv, Executing
<1>3. k \in Client /\ Fits(m, k, c, Now.pread, pwrite, Now.toclose)
  BY <1>1, <1>2, GoodClient
<1> DEFINE n == k.buf - 1
           x == [k EXCEPT !.buf = n]
           s == WithCli(Now, With(cli, c, x))
<1>4. [Now EXCEPT !.cli[c].buf = @ - 1] = s
  BY <1>1, Zenon DEF WithCli, With
<1>5. n \in Int
  BY <1>3 DEF Client
<1> HIDE DEF n
<1>6. /\ x \in Client /\ x.pr = k.pr /\ x.asap = k.asap /\ x.out = k.out
      /\ x.pcmd = k.pcmd /\ x.open = k.open /\ x.pw = k.pw /\ x.handler = k.handler
  BY <1>3, <1>5 DEF Client
<1> HIDE DEF x
<1>7. Good(m, s) /\ Steady(Now, s)
  <2>1. /\ x.pcmd => x.pr
        /\ x.open /\ ~x.asap /\ x.out > 0 => c \in ToSet(pwrite) \/ x.handler
    BY <1>3, <1>6 DEF Fits
  <2>2. x.open = cli[c].open /\ x.pr = cli[c].pr /\ x.pw = cli[c].pw /\ x.asap = cli[c].asap
    BY <1>6
  <2> HIDE DEF m, k, c
  <2> QED  BY <1>1, <1>2, <1>6, <2>1, <2>2, TouchedSteady
<1>8. PICK a \in Commands(c) : Is(Effect([Now EXCEPT !.cli[c].buf = @ - 1], c, a))
  BY DEF ExecuteCommand
<1>9. /\ a.does \in {"answer", "quit", "send", "overflow", "kill"}
      /\ a.to \in Clients /\ cli[a.to].open
  BY <1>2 DEF Commands
<1> DEFINE t == Effect(s, c, a)
<1>10. Is(t)
  BY <1>4, <1>8
<1> HIDE DEF s
<1>11. s.cli[c].open /\ s.cli[a.to].open
  BY <1>1, <1>2, <1>7, <1>9 DEF Steady, Keeps
<1>12. ~m
  BY <1>2 DEF Writing
<1>13. Good(m, t) /\ t.cli[c].open
  <2> HIDE DEF m, c
  <2> QED  BY <1>2, <1>7, <1>9, <1>11, <1>12, EffectSound
<1> HIDE DEF t
<1>14. main' = [main EXCEPT !.parsed = FALSE] /\ UNCHANGED <<op, list, pending, worker>>
  BY DEF ExecuteCommand, threads
<1>15. main' \in MainType /\ main'.pc = "exec" /\ main'.cur = c /\ main'.ret = main.ret
  BY <1>2, <1>14 DEF MainType
<1>16. Sound(Writing(main.pc, op), cli, pread, pwrite, toclose)'
  <2>1. Sound(Writing(main.pc, op), cli', pread', pwrite', toclose')
    BY <1>10, <1>13 DEF Good, Is
  <2> QED  BY <1>2, <1>14, <1>15, <2>1
<1>17. ControlInv'
  <2>1. cli'[c].open
    BY <1>10, <1>13 DEF Is
  <2>2. Stacked(main', op)
    BY <1>2, <1>15 DEF Stacked, IInv, ControlInv
  <2> QED  BY <1>2, <1>14, <1>15, <2>1, <2>2 DEF IInv, ControlInv, Executing
<1>18. ListInv' /\ WorkInv'
  BY <1>2, <1>14, <1>15, IdleLists
<1> QED  BY <1>16, <1>17, <1>18 DEF IInv

LEMMA CommandsEnd ==
  ASSUME IInv, CommandsDone
  PROVE  IInv'
<1> DEFINE m == Writing(main.pc, op)
           c == main.cur
           s == LeaveCommand(Now, c)
<1>1. Good(m, Now) /\ Now.cli = cli
  BY NowGood
<1>2. main.pc = "exec" /\ c \in Clients /\ main \in MainType
  BY DEF CommandsDone, At, IInv, ControlInv, Executing
<1>3. (MayParse(cli[c]) => cli[c].pr) /\ Is(s) /\ UNCHANGED <<op, list, pending, worker>>
  BY DEF CommandsDone, threads
<1>4. Good(m, s)
  BY <1>1, <1>2, <1>3, CommandLeft
<1> HIDE DEF s
<1>5. PICK pc \in {"events", "parsed"}, r \in Bases \cup {<<>>} :
        /\ Head(main.ret) = pc /\ Tail(main.ret) = r
        /\ pc = "events" => r = <<>>
        /\ pc = "parsed" => r \in Bases
  <2>1. main.ret = <<"events">> \/ \E b \in Bases : main.ret = <<"parsed">> \o b
    BY <1>2 DEF IInv, ControlInv, Stacked
  <2>2. CASE main.ret = <<"events">>
    BY <2>2, Stacks
  <2>3. ASSUME NEW b \in Bases, main.ret = <<"parsed">> \o b
        PROVE  Head(main.ret) = "parsed" /\ Tail(main.ret) = b
    BY <2>3, BaseStacks
  <2> QED  BY <2>1, <2>2, <2>3
<1>6. pc \in Places /\ r \in Seq(Places)
  <2>1. r \in Seq(Places)
    <3>1. <<>> \in Seq(Places)
      OBVIOUS
    <3>2. \A b \in Bases : b \in Seq(Places)
      BY BaseStacks
    <3> QED  BY <3>1, <3>2
  <2> QED  BY <2>1 DEF Places
<1>7. Return
  BY DEF CommandsDone
<1>8. main' \in MainType /\ main'.pc = pc /\ main'.ret = r /\ main'.cur = NoClient
  BY <1>2, <1>5, <1>6, <1>7, Returned
<1>9. Stacked(main', op)
  BY <1>5, <1>8 DEF Stacked
<1>10. Sound(Writing(main.pc, op), cli, pread, pwrite, toclose)'
  <2>1. Writing(main.pc, op) <=> Writing(main'.pc, op')
    BY <1>2, <1>5, <1>8 DEF Writing
  <2>2. Sound(Writing(main.pc, op), cli', pread', pwrite', toclose')
    BY <1>3, <1>4 DEF Good, Is
  <2>3. Sound(Writing(main'.pc, op'), cli', pread', pwrite', toclose')
    BY <2>1, <2>2, SameMode
  <2> QED  BY <2>3
<1>11. ControlInv'
  BY <1>3, <1>5, <1>8, <1>9 DEF IInv, ControlInv, Executing
<1>12. ListInv' /\ WorkInv'
  BY <1>2, <1>3, <1>5, <1>8, IdleLists
<1> QED  BY <1>10, <1>11, <1>12 DEF IInv


\* The threads have nothing left: every list they share is empty.
LEMMA AllServed ==
  ASSUME NEW L, NEW q, Shared(L, q), \A j \in 0..(Threads - 1) : L[j] = <<>>
  PROVE  L = [j \in 0..(Threads - 1) |-> <<>>]
  BY DEF Shared

LEMMA WaitStep ==
  ASSUME IInv, WaitForThreads
  PROVE  IInv'
<1> DEFINE pc == IF op = "read" THEN "parsed" ELSE "install"
<1>1. /\ main.pc = "slice" /\ list[0] = <<>> /\ \A j \in Workers : pending[j] = 0
      /\ Goto(pc) /\ UNCHANGED <<cli, pread, pwrite, toclose, list, pending, op, worker>>
  BY DEF WaitForThreads, At, queues, threads
<1>2. main \in MainType /\ op \in {"read", "write"} /\ main.cur = NoClient
  BY <1>1 DEF IInv, ControlInv, Executing
<1>3. pc \in Places
  BY DEF Places
<1>4. main' \in MainType /\ main'.pc = pc /\ main'.ret = main.ret /\ main'.cur = NoClient
  BY <1>1, <1>2, <1>3, Went
<1>5. Sound(Writing(main.pc, op), cli, pread, pwrite, toclose)'
  <2>1. Writing(main.pc, op) <=> Writing(main'.pc, op')
    BY <1>1, <1>2, <1>4 DEF Writing
  <2>2. Sound(Writing(main'.pc, op'), cli, pread, pwrite, toclose)
    BY <2>1, SameMode DEF IInv
  <2> QED  BY <1>1, <2>2
<1>6. Stacked(main', op)
  BY <1>1, <1>2, <1>4 DEF Stacked, IInv, ControlInv
<1>7. ControlInv'
  BY <1>1, <1>2, <1>4, <1>6 DEF ControlInv, Executing
<1>8. list = [j \in 0..(Threads - 1) |-> <<>>]
  <2>1. \A j \in 0..(Threads - 1) : j = 0 \/ j \in Workers
    BY IOAssumption DEF Workers
  <2>2. \A j \in 0..(Threads - 1) : list[j] = <<>>
    BY <1>1, <2>1 DEF IInv, WorkInv
  <2>3. Shared(list, IF op = "read" THEN pread ELSE pwrite)
    BY <1>1 DEF IInv, ListInv
  <2> QED  BY <2>2, <2>3, AllServed
<1>9. ListInv'
  BY <1>1, <1>4, <1>8 DEF ListInv
<1>10. WorkInv'
  BY <1>1 DEF IInv, WorkInv
<1> QED  BY <1>5, <1>7, <1>9, <1>10 DEF IInv

\* What the threads are started with.
LEMMA Started ==
  ASSUME IInv, main.pc # "slice", main'.pc = "slice", NEW q, Queue(q), Distribute(q),
         pending' = [j \in Workers |-> Len(list'[j])], worker' = worker
  PROVE  Shared(list', q) /\ WorkInv'
<1>1. Shared(list', q)
  BY Distributed DEF Distribute
<1>2. \A j \in Workers : list'[j] \in Seq(Clients)
  <2>1. \A j \in Workers : j \in 0..(Threads - 1)
    BY IOAssumption DEF Workers
  <2> QED  BY <1>1, <2>1 DEF Shared
<1>3. pending' \in [Workers -> Nat] /\ \A j \in Workers : pending'[j] = Len(list'[j])
  BY <1>2
<1>4. \A j \in Workers : pending'[j] = 0 => list'[j] = <<>>
  BY <1>2, <1>3
<1>5. \A j \in Workers : worker[j] # "work"
  BY DEF IInv, WorkInv
<1> QED  BY <1>1, <1>3, <1>4, <1>5 DEF IInv, WorkInv

LEMMA DistributeReadsStep ==
  ASSUME IInv, DistributeReads
  PROVE  IInv'
<1>1. /\ main.pc = "reads" /\ Distribute(pread) /\ Goto("slice") /\ op' = "read"
      /\ pending' = [j \in Workers |-> Len(list'[j])]
      /\ UNCHANGED <<cli, pread, pwrite, toclose, worker>>
  BY DEF DistributeReads, At, queues, StartWork
<1>2. main \in MainType /\ main.cur = NoClient /\ main.ret \in Bases
  BY <1>1 DEF IInv, ControlInv, Executing, Stacked
<1>3. "slice" \in Places
  BY DEF Places
<1>4. main' \in MainType /\ main'.pc = "slice" /\ main'.ret = main.ret /\ main'.cur = NoClient
  BY <1>1, <1>2, <1>3, Went
<1>5. Sound(Writing(main.pc, op), cli, pread, pwrite, toclose)'
  <2>1. Writing(main.pc, op) <=> Writing(main'.pc, op')
    BY <1>1, <1>4 DEF Writing
  <2>2. Sound(Writing(main'.pc, op'), cli, pread, pwrite, toclose)
    BY <2>1, SameMode DEF IInv
  <2> QED  BY <1>1, <2>2
<1>6. ControlInv'
  BY <1>1, <1>2, <1>4 DEF ControlInv, Executing, Stacked
<1>7. Shared(list', pread) /\ WorkInv'
  <2>1. Queue(pread)
    BY DEF IInv, Sound
  <2> QED  BY <1>1, <1>4, <2>1, Started
<1>8. ListInv'
  BY <1>1, <1>4, <1>7 DEF ListInv
<1> QED  BY <1>5, <1>6, <1>7, <1>8 DEF IInv

LEMMA PendingCommandsStep ==
  ASSUME IInv, RunPendingCommands
  PROVE  IInv'
<1> DEFINE m == Writing(main.pc, op)
           c == Head(pread)
           k == cli[c]
           q == Tail(pread)
           y == [k EXCEPT !.pr = FALSE]
           x == [y EXCEPT !.pcmd = FALSE]
           s == State(With(cli, c, x), q, pwrite, toclose)
<1>1. /\ main.pc = "parsed" /\ pread # <<>> /\ RunCommandsOf(c, k.pcmd)
      /\ Is([Now EXCEPT !.pread = Tail(@), !.cli[c].pr = FALSE, !.cli[c].pcmd = FALSE])
      /\ UNCHANGED <<op, list, pending, worker>>
  BY DEF RunPendingCommands, At, threads
<1>2. /\ Good(m, Now) /\ Now.cli = cli /\ Now.pread = pread /\ Now.pwrite = pwrite
      /\ Now.toclose = toclose
  BY NowGood
<1>3. Queue(pread) /\ Queue(pwrite) /\ Queue(toclose) /\ cli \in [Clients -> Client]
  BY DEF IInv, Sound
<1>4. Queue(q) /\ ToSet(q) = ToSet(pread) \ {c} /\ c \in Clients /\ c \in ToSet(pread)
  BY <1>1, <1>3, Popped
<1>5. k \in Client /\ Fits(m, k, c, pread, pwrite, toclose)
  BY <1>2, <1>4, GoodClient
<1>6. Is(s)
  <2>1. [Now EXCEPT !.pread = Tail(@), !.cli[c].pr = FALSE, !.cli[c].pcmd = FALSE]
        = WithCli(WithRead(Now, q), With(cli, c, x))
    BY <1>2, <1>3, <1>4, Zenon DEF WithRead, WithCli, With
  <2>2. Now = State(cli, pread, pwrite, toclose)
    BY DEF Now, State
  <2> HIDE DEF q, x, c
  <2>3. WithCli(WithRead(Now, q), With(cli, c, x)) = s
    BY <2>2, StateExcept
  <2> QED  BY <1>1, <2>1, <2>3
<1>7. /\ y \in Client /\ y.pr = FALSE /\ y.asap = k.asap /\ y.out = k.out
      /\ y.open = k.open /\ y.pw = k.pw /\ y.handler = k.handler
  BY <1>5 DEF Client
<1> HIDE DEF y
<1>8. /\ x \in Client /\ x.pr = y.pr /\ x.pcmd = FALSE /\ x.asap = y.asap /\ x.out = y.out
      /\ x.open = y.open /\ x.pw = y.pw /\ x.handler = y.handler
  BY <1>7 DEF Client
<1>9. k.open /\ k.pcmd \in BOOLEAN
  BY <1>4, <1>5 DEF Fits, Client
<1> HIDE DEF x, c, q
<1>10. Fits(m, x, c, q, pwrite, toclose)
  <2>1. /\ x.pr = FALSE /\ x.pcmd = FALSE /\ x.asap = k.asap /\ x.out = k.out
        /\ x.open = k.open /\ x.pw = k.pw /\ x.handler = k.handler
    BY <1>7, <1>8
  <2> HIDE DEF m, k
  <2> QED  BY <1>4, <1>5, <1>9, <2>1 DEF Fits
<1>11. SameElse(c, pread, q)
  BY <1>4 DEF SameElse
<1>12. Good(m, s) /\ With(cli, c, x)[c] = x
  <2> HIDE DEF m
  <2> QED  BY <1>2, <1>3, <1>4, <1>8, <1>10, <1>11, SameItself, Changed
<1>13. s.cli[c].open
  <2>1. s.cli = With(cli, c, x)
    BY StateFields
  <2> QED  BY <1>7, <1>8, <1>9, <1>12, <2>1
<1> HIDE DEF s
<1> QED  BY <1>1, <1>4, <1>6, <1>9, <1>12, <1>13, StartsCommands


\* The clients' flags of pending writes are cleared and the threads get those
\* that will not be freed.
LEMMA DistributeWritesStep ==
  ASSUME IInv, DistributeWrites
  PROVE  IInv'
<1> DEFINE m == Writing(main.pc, op)
           I == {i \in DOMAIN pwrite : ~cli[pwrite[i]].asap}
           q == Pick(pwrite, I)
           g == [c \in Clients |-> IF c \in ToSet(pwrite) THEN [cli[c] EXCEPT !.pw = FALSE]
                                   ELSE cli[c]]
<1>1. /\ main.pc = "writes" /\ Goto("slice") /\ op' = "write" /\ worker' = worker
      /\ pending' = [j \in Workers |-> Len(list'[j])]
      /\ Is([Now EXCEPT !.pwrite = q, !.cli = g]) /\ Distribute(q)
  BY DEF DistributeWrites, At, StartWork
<1>2. /\ cli' = g /\ pread' = pread /\ pwrite' = q /\ toclose' = toclose
  <2>1. Now = State(cli, pread, pwrite, toclose)
    BY DEF Now, State
  <2>2. [Now EXCEPT !.pwrite = q, !.cli = g] = WithCli(WithWrite(Now, q), g)
    BY Zenon DEF WithCli, WithWrite
  <2> HIDE DEF q, g
  <2>3. WithCli(WithWrite(Now, q), g) = State(g, pread, q, toclose)
    BY <2>1, StateExcept
  <2>4. Is(State(g, pread, q, toclose))
    BY <1>1, <2>2, <2>3
  <2> QED  BY <2>4, StateFields DEF Is
<1>3. /\ Queue(pread) /\ Queue(pwrite) /\ Queue(toclose) /\ cli \in [Clients -> Client]
      /\ \A c \in Clients : Fits(m, cli[c], c, pread, pwrite, toclose)
  BY DEF IInv, Sound
<1>4. Queue(q) /\ \A c : c \in ToSet(q) <=> \E i \in I : pwrite[i] = c
  <2>1. I \subseteq DOMAIN pwrite
    OBVIOUS
  <2> HIDE DEF I
  <2> QED  BY <1>3, <2>1, Picked
<1>5. \A c : c \in ToSet(q) <=> c \in ToSet(pwrite) /\ ~cli[c].asap
  <2>1. \A c : (\E i \in I : pwrite[i] = c) <=> c \in ToSet(pwrite) /\ ~cli[c].asap
    BY DEF ToSet
  <2> HIDE DEF I, q
  <2> QED  BY <1>4, <2>1
<1>6. main \in MainType /\ main.cur = NoClient /\ main.ret = <<>>
  BY <1>1 DEF IInv, ControlInv, Executing, Stacked
<1>7. main' \in MainType /\ main'.pc = "slice" /\ main'.ret = <<>> /\ main'.cur = NoClient
  <2>1. "slice" \in Places
    BY DEF Places
  <2> QED  BY <1>1, <1>6, <2>1, Went
<1>8. ~m /\ Writing(main'.pc, op')
  BY <1>1, <1>7 DEF Writing
<1>9. ASSUME NEW c \in Clients
      PROVE  g[c] \in Client /\ Fits(Writing(main'.pc, op'), g[c], c, pread, q, toclose)
  <2> DEFINE k == cli[c]
             x == g[c]
  <2>1. k \in Client /\ Fits(m, k, c, pread, pwrite, toclose)
    BY <1>3
  <2>2. /\ x \in Client /\ ~x.pw /\ x.pr = k.pr /\ x.asap = k.asap /\ x.out = k.out
        /\ x.open = k.open /\ x.pcmd = k.pcmd /\ x.handler = k.handler
    <3>1. CASE c \in ToSet(pwrite)
      <4>1. x = [k EXCEPT !.pw = FALSE]
        BY <3>1
      <4> HIDE DEF x, k
      <4> QED  BY <2>1, <4>1 DEF Client
    <3>2. CASE c \notin ToSet(pwrite)
      <4>1. x = k
        BY <3>2
      <4> HIDE DEF x, k
      <4> QED  BY <2>1, <3>2, <4>1 DEF Fits
    <3> QED  BY <3>1, <3>2
  <2> DEFINE n == Writing(main'.pc, op')
  <2>3. n
    BY <1>8
  <2>4. c \in ToSet(q) <=> c \in ToSet(pwrite) /\ ~k.asap
    BY <1>5
  <2> HIDE DEF x, k, n, q, m
  <2>5. Fits(n, x, c, pread, q, toclose)
    BY <2>1, <2>2, <2>3, <2>4 DEF Fits
  <2> QED  BY <2>2, <2>5 DEF x, n
<1>10. Sound(Writing(main.pc, op), cli, pread, pwrite, toclose)'
  <2>1. g \in [Clients -> Client]
    BY <1>9
  <2> HIDE DEF g, q
  <2>2. Sound(Writing(main'.pc, op'), g, pread, q, toclose)
    BY <1>3, <1>4, <1>9, <2>1 DEF Sound
  <2> QED  BY <1>2, <2>2
<1>11. ControlInv'
  BY <1>1, <1>7 DEF ControlInv, Executing, Stacked
<1> HIDE DEF q
<1>12. Shared(list', q) /\ WorkInv'
  BY <1>1, <1>4, <1>7, Started
<1>13. ListInv'
  BY <1>1, <1>2, <1>7, <1>12 DEF ListInv
<1> QED  BY <1>10, <1>11, <1>12, <1>13 DEF IInv

LEMMA InstallStep ==
  ASSUME IInv, InstallHandlers
  PROVE  IInv'
<1> DEFINE m == Writing(main.pc, op)
           w == <<>>
           b(c) == cli[c].handler \/ (c \in ToSet(pwrite) /\ cli[c].out > 0)
           g == [c \in Clients |-> [cli[c] EXCEPT !.handler = b(c)]]
<1>1. /\ main.pc = "install" /\ Goto("free") /\ UNCHANGED <<op, list, pending, worker>>
      /\ Is([Now EXCEPT !.pwrite = w, !.cli = g])
  BY Zenon DEF InstallHandlers, At, threads
<1>2. Queue(w) /\ ToSet(w) = {}
  BY EmptyQueue
<1> HIDE DEF w
<1>3. /\ cli' = g /\ pread' = pread /\ pwrite' = w /\ toclose' = toclose
  <2>1. Now = State(cli, pread, pwrite, toclose)
    BY DEF Now, State
  <2>2. [Now EXCEPT !.pwrite = w, !.cli = g] = WithCli(WithWrite(Now, w), g)
    BY Zenon DEF WithCli, WithWrite
  <2> HIDE DEF g
  <2>3. WithCli(WithWrite(Now, w), g) = State(g, pread, w, toclose)
    BY <2>1, StateExcept
  <2>4. Is(State(g, pread, w, toclose))
    BY <1>1, <2>2, <2>3
  <2> QED  BY <2>4, StateFields DEF Is
<1>4. /\ Queue(pread) /\ Queue(pwrite) /\ Queue(toclose) /\ cli \in [Clients -> Client]
      /\ \A c \in Clients : Fits(m, cli[c], c, pread, pwrite, toclose)
  BY DEF IInv, Sound
<1>5. main \in MainType /\ main.cur = NoClient /\ main.ret = <<>>
  BY <1>1 DEF IInv, ControlInv, Executing, Stacked
<1>6. main' \in MainType /\ main'.pc = "free" /\ main'.ret = <<>> /\ main'.cur = NoClient
  <2>1. "free" \in Places
    BY DEF Places
  <2> QED  BY <1>1, <1>5, <2>1, Went
<1>7. m /\ ~Writing(main'.pc, op')
  BY <1>1, <1>6 DEF Writing
<1>8. ASSUME NEW c \in Clients
      PROVE  g[c] \in Client /\ Fits(Writing(main'.pc, op'), g[c], c, pread, w, toclose)
  <2> DEFINE k == cli[c]
             h == b(c)
             x == g[c]
             n == Writing(main'.pc, op')
  <2>1. k \in Client /\ Fits(m, k, c, pread, pwrite, toclose)
    BY <1>4
  <2>2. x = [k EXCEPT !.handler = h]
    OBVIOUS
  <2>3. h \in BOOLEAN /\ (k.handler => h) /\ (c \in ToSet(pwrite) /\ k.out > 0 => h)
    BY <2>1 DEF Client
  <2>4. ~n /\ m
    BY <1>7
  <2> HIDE DEF x, k, h, n, m
  <2>5. /\ x \in Client /\ x.pw = k.pw /\ x.pr = k.pr /\ x.asap = k.asap /\ x.out = k.out
        /\ x.open = k.open /\ x.pcmd = k.pcmd /\ x.handler = h
    BY <2>1, <2>2, <2>3 DEF Client
  <2>6. Fits(n, x, c, pread, w, toclose)
    BY <1>2, <2>1, <2>3, <2>4, <2>5 DEF Fits
  <2> QED  BY <2>5, <2>6 DEF x, n
<1>9. Sound(Writing(main.pc, op), cli, pread, pwrite, toclose)'
  <2>1. g \in [Clients -> Client]
    BY <1>8
  <2> HIDE DEF g
  <2>2. Sound(Writing(main'.pc, op'), g, pread, w, toclose)
    BY <1>2, <1>4, <1>8, <2>1 DEF Sound
  <2> QED  BY <1>3, <2>2
<1>10. ControlInv'
  BY <1>1, <1>6 DEF ControlInv, Executing, Stacked, IInv
<1>11. ListInv' /\ WorkInv'
  BY <1>1, <1>6, IdleLists
<1> QED  BY <1>9, <1>10, <1>11 DEF IInv


LEMMA WithTwice ==
  ASSUME NEW f \in [Clients -> Client], NEW c \in Clients, NEW y \in Client, NEW x \in Client
  PROVE  With(With(f, c, y), c, x) = With(f, c, x)
  BY DEF With

\* Operations on a client whose fields y were replaced before.
LEMMA AsyncOf ==
  ASSUME NEW f \in [Clients -> Client], NEW c \in Clients, NEW y \in Client, ~y.asap,
         NEW r, NEW w, NEW t
  PROVE  freeClientAsync(State(With(f, c, y), r, w, t), c)
         = State(With(f, c, [y EXCEPT !.asap = TRUE]), r, w, Append(t, c))
<1> DEFINE g == With(f, c, y)
           s == State(g, r, w, t)
           x == [y EXCEPT !.asap = TRUE]
           q == Append(t, c)
<1>1. g \in [Clients -> Client] /\ g[c] = y
  BY WithFields
<1>2. x \in Client
  BY DEF Client
<1>3. With(g, c, x) = With(f, c, x)
  BY <1>2, WithTwice
<1> HIDE DEF g
<1>4. s.cli = g /\ s.toclose = t
  BY StateFields
<1> HIDE DEF s
<1>5. freeClientAsync(s, c) = WithClose(WithCli(s, With(g, c, x)), q)
  <2>1. ~s.cli[c].asap /\ s.cli[c] = y
    BY <1>1, <1>4
  <2> QED  BY <1>1, <1>4, <2>1, Zenon DEF freeClientAsync, WithClose, WithCli, With
<1> HIDE DEF x, q
<1>6. freeClientAsync(s, c) = WithClose(WithCli(s, With(f, c, x)), q)
  BY <1>3, <1>5
<1>7. WithClose(WithCli(s, With(f, c, x)), q) = State(With(f, c, x), r, w, q)
  BY StateExcept DEF s
<1> QED  BY <1>6, <1>7 DEF s, g, x, q

LEMMA HandlerOf ==
  ASSUME NEW f \in [Clients -> Client], NEW c \in Clients, NEW y \in Client,
         NEW r, NEW w, NEW t, NEW s, s = State(With(f, c, y), r, w, t)
  PROVE  [s EXCEPT !.cli[c].handler = @ \/ s.cli[c].out > 0]
         = State(With(f, c, [y EXCEPT !.handler = y.handler \/ y.out > 0]), r, w, t)
<1> DEFINE g == With(f, c, y)
           b == y.handler \/ y.out > 0
           x == [y EXCEPT !.handler = b]
<1>1. g \in [Clients -> Client] /\ g[c] = y
  BY WithFields
<1>2. x \in Client
  <2>1. b \in BOOLEAN
    BY DEF Client
  <2> HIDE DEF b
  <2> QED  BY <2>1 DEF Client
<1>3. With(g, c, x) = With(f, c, x)
  BY <1>2, WithTwice
<1>4. s.cli = g /\ s.cli[c] = y
  BY <1>1, StateFields
<1> HIDE DEF g
<1>5. [s EXCEPT !.cli[c].handler = @ \/ s.cli[c].out > 0] = WithCli(s, With(g, c, x))
  BY <1>1, <1>4, Zenon DEF WithCli, With
<1> HIDE DEF x
<1>6. WithCli(s, With(f, c, x)) = State(With(f, c, x), r, w, t)
  BY StateExcept
<1> QED  BY <1>3, <1>5, <1>6 DEF x

\* All replies of a client are written.
Drained(s, c, hi) == [s EXCEPT !.cli[c].out = 0, !.cli[c].handler = @ /\ ~hi]
DrainedClient(y, hi) == [[y EXCEPT !.out = 0] EXCEPT !.handler = y.handler /\ ~hi]

LEMMA WrittenOf ==
  ASSUME NEW f \in [Clients -> Client], NEW c \in Clients, NEW y \in Client,
         NEW r, NEW w, NEW t, NEW s, s = State(With(f, c, y), r, w, t), NEW hi
  PROVE  Drained(s, c, hi) = State(With(f, c, DrainedClient(y, hi)), r, w, t)
<1> DEFINE g == With(f, c, y)
           n == 0
           b == y.handler /\ ~hi
           z == [y EXCEPT !.out = n]
           x == [z EXCEPT !.handler = b]
<1>1. g \in [Clients -> Client] /\ g[c] = y
  BY WithFields
<1>4. s.cli = g /\ s.cli[c] = y
  BY <1>1, StateFields
<1>2. x \in Client
  <2>1. b \in BOOLEAN /\ n \in Int
    BY DEF Client
  <2> HIDE DEF b, n
  <2>2. z \in Client
    BY <2>1 DEF Client
  <2> HIDE DEF z
  <2> QED  BY <2>1, <2>2 DEF Client
<1>3. With(g, c, x) = With(f, c, x)
  BY <1>2, WithTwice
<1> HIDE DEF g
<1>5. Drained(s, c, hi) = WithCli(s, With(g, c, x))
  BY <1>1, <1>4, ZenonT(30) DEF WithCli, With, Drained
<1> HIDE DEF x
<1>6. WithCli(s, With(f, c, x)) = State(With(f, c, x), r, w, t)
  BY StateExcept
<1>7. x = DrainedClient(y, hi)
  BY DEF x, DrainedClient
<1> QED  BY <1>3, <1>5, <1>6, <1>7

\* What writing to the first client of the queue of pending writes does to the
\* client k: it leaves the queue, and has a handler if replies are left.
LEMMA WriteSyncStep ==
  ASSUME IInv, WriteSync
  PROVE  IInv'
<1> DEFINE m == Writing(main.pc, op)
           c == Head(pwrite)
           k == cli[c]
           q == Tail(pwrite)
           k1 == [k EXCEPT !.pw = FALSE]
           s == State(With(cli, c, k1), pread, q, toclose)
<1>1. /\ main.pc = "sync" /\ pwrite # <<>> /\ UNCHANGED <<main, op, list, pending, worker>>
  BY DEF WriteSync, At, threads
<1>2. /\ Good(m, Now) /\ Now.cli = cli /\ Now.pread = pread /\ Now.pwrite = pwrite
      /\ Now.toclose = toclose
  BY NowGood
<1>3. Queue(pread) /\ Queue(pwrite) /\ Queue(toclose) /\ cli \in [Clients -> Client]
  BY DEF IInv, Sound
<1>4. Queue(q) /\ ToSet(q) = ToSet(pwrite) \ {c} /\ c \in Clients /\ c \in ToSet(pwrite)
  BY <1>1, <1>3, Popped
<1>5. k \in Client /\ Fits(m, k, c, pread, pwrite, toclose) /\ ~m
  BY <1>1, <1>2, <1>4, GoodClient DEF Writing
<1>6. [Now EXCEPT !.pwrite = Tail(@), !.cli[c].pw = FALSE] = s
  <2>1. [Now EXCEPT !.pwrite = Tail(@), !.cli[c].pw = FALSE]
        = WithCli(WithWrite(Now, q), With(cli, c, k1))
    BY <1>2, <1>3, <1>4, Zenon DEF WithWrite, WithCli, With
  <2>2. Now = State(cli, pread, pwrite, toclose)
    BY DEF Now, State
  <2> HIDE DEF q, k1, c
  <2>3. WithCli(WithWrite(Now, q), With(cli, c, k1)) = s
    BY <2>2, StateExcept
  <2> QED  BY <2>1, <2>3
<1>7. /\ k1 \in Client /\ k1.pw = FALSE /\ k1.pr = k.pr /\ k1.asap = k.asap /\ k1.out = k.out
      /\ k1.open = k.open /\ k1.pcmd = k.pcmd /\ k1.handler = k.handler /\ k1.after = k.after
  BY <1>5 DEF Client
<1>8. k.open /\ SameElse(c, pwrite, q) /\ c \notin ToSet(q)
  BY <1>4, <1>5 DEF Fits, SameElse
<1>9. \/ cli[c].asap /\ Is(s)
      \/ /\ ~cli[c].asap
         /\ \E how \in Outcomes(c) :
              LET t == writeToClient(s, c, how, FALSE)
              IN  Is(IF t.cli[c].asap THEN t
                     ELSE [t EXCEPT !.cli[c].handler = @ \/ t.cli[c].out > 0])
  <2> HIDE DEF s
  <2> QED  BY <1>6 DEF WriteSync
<1> HIDE DEF k1, c, q, m
\* The fields x that are written back, in each of the cases.
<1>10. ASSUME NEW x \in Client, NEW t1, Queue(t1), Is(State(With(cli, c, x), pread, q, t1)),
              ~x.pw, x.pr = k.pr, x.pcmd = k.pcmd, x.open = k.open,
              x.asap <=> c \in ToSet(t1), SameElse(c, toclose, t1),
              x.asap \/ ~(x.out > 0) \/ x.handler
       PROVE  IInv'
  <2> DEFINE u == State(With(cli, c, x), pread, q, t1)
  <2>1. Fits(m, x, c, pread, q, t1)
    <3> HIDE DEF k
    <3> QED  BY <1>5, <1>8, <1>10 DEF Fits
  <2>2. Good(m, u)
    BY <1>2, <1>3, <1>4, <1>8, <1>10, <2>1, SameItself, Changed
  <2>3. Is(u)
    BY <1>10
  <2> HIDE DEF u
  <2>4. Sound(Writing(main.pc, op), cli, pread, pwrite, toclose)' /\ ControlInv'
    BY <1>1, <2>2, <2>3, ClientsChanged DEF m
  <2>5. ListInv' /\ WorkInv'
    BY <1>1, IdleLists
  <2> QED  BY <2>4, <2>5 DEF IInv
<1>11. CASE cli[c].asap /\ Is(s)
  <2>1. c \in ToSet(toclose)
    BY <1>5, <1>11 DEF Fits
  <2>2. SameElse(c, toclose, toclose)
    BY SameItself
  <2>3. /\ ~k1.pw /\ k1.pr = k.pr /\ k1.pcmd = k.pcmd /\ k1.open = k.open
        /\ (k1.asap <=> c \in ToSet(toclose)) /\ (k1.asap \/ ~(k1.out > 0) \/ k1.handler)
    BY <1>7, <1>11, <2>1
  <2> QED  BY <1>3, <1>7, <1>10, <1>11, <2>2, <2>3
<1>12. ASSUME ~cli[c].asap, NEW how \in Outcomes(c),
              LET t == writeToClient(s, c, how, FALSE)
              IN  Is(IF t.cli[c].asap THEN t
                     ELSE [t EXCEPT !.cli[c].handler = @ \/ t.cli[c].out > 0])
       PROVE  IInv'
  <2> DEFINE hi == FALSE
             t == writeToClient(s, c, how, hi)
             q1 == Append(toclose, c)
  <2>1. Is(IF t.cli[c].asap THEN t ELSE [t EXCEPT !.cli[c].handler = @ \/ t.cli[c].out > 0])
    BY <1>12
  <2>2. ~hi
    OBVIOUS
  <2>3. s.cli[c] = k1
    <3>1. s.cli = With(cli, c, k1)
      BY StateFields
    <3> QED  BY <1>3, <1>4, <1>7, <3>1, WithFields
  <2>4. c \notin ToSet(toclose) /\ Queue(q1) /\ ToSet(q1) = ToSet(toclose) \cup {c}
    <3>1. c \notin ToSet(toclose)
      BY <1>5, <1>12 DEF Fits
    <3> QED  BY <1>3, <1>4, <3>1, Appended
  <2>5. SameElse(c, toclose, q1) /\ SameElse(c, toclose, toclose)
    BY <2>4 DEF SameElse
  <2>6. how \in {"all", "part", "error"}
    BY OutcomeSet
  <2> HIDE DEF hi, q1
  \* A client that will be freed.
  <2>7. ASSUME NEW y \in Client, ~y.asap, ~y.pw, y.pr = k.pr, y.pcmd = k.pcmd, y.open = k.open,
               t = freeClientAsync(State(With(cli, c, y), pread, q, toclose), c)
        PROVE  IInv'
    <3> DEFINE x == [y EXCEPT !.asap = TRUE]
               u == State(With(cli, c, x), pread, q, q1)
    <3>1. t = u
      BY <1>3, <1>4, <2>7, AsyncOf DEF q1
    <3>2. /\ x \in Client /\ x.asap = TRUE /\ x.pw = y.pw /\ x.pr = y.pr /\ x.pcmd = y.pcmd
          /\ x.open = y.open
      BY <2>7 DEF Client
    <3> HIDE DEF x, t
    <3>3. u.cli[c] = x
      <4>1. u.cli = With(cli, c, x)
        BY StateFields
      <4> QED  BY <1>3, <1>4, <3>2, <4>1, WithFields
    <3>4. Is(u)
      <4> HIDE DEF u
      <4> QED  BY <2>1, <3>1, <3>2, <3>3
    <3>5. /\ ~x.pw /\ x.pr = k.pr /\ x.pcmd = k.pcmd /\ x.open = k.open
          /\ (x.asap <=> c \in ToSet(q1)) /\ x.asap
      BY <2>4, <2>7, <3>2
    <3> QED  BY <1>10, <2>4, <2>5, <3>2, <3>4, <3>5
  \* A client that stays.
  <2>8. ASSUME NEW y \in Client, ~y.asap, ~y.pw, y.pr = k.pr, y.pcmd = k.pcmd, y.open = k.open,
               t = State(With(cli, c, y), pread, q, toclose)
        PROVE  IInv'
    <3> DEFINE b == y.handler \/ y.out > 0
               x == [y EXCEPT !.handler = b]
               u == State(With(cli, c, x), pread, q, toclose)
    <3>1. t.cli[c] = y
      <4>1. t.cli = With(cli, c, y)
        BY <2>8, StateFields
      <4> QED  BY <1>3, <1>4, <4>1, WithFields
    <3>2. [t EXCEPT !.cli[c].handler = @ \/ t.cli[c].out > 0] = u
      <4> HIDE DEF t
      <4> QED  BY <1>3, <1>4, <2>8, HandlerOf, SMTT(30)
    <3>3. b \in BOOLEAN /\ (y.out > 0 => b)
      BY <2>8 DEF Client
    <3>4. Is(u)
      <4> HIDE DEF t, u
      <4> QED  BY <2>1, <2>8, <3>1, <3>2
    <3> HIDE DEF b
    <3>5. /\ x \in Client /\ x.asap = y.asap /\ x.pw = y.pw /\ x.pr = y.pr /\ x.pcmd = y.pcmd
          /\ x.open = y.open /\ x.out = y.out /\ x.handler = b
      BY <2>8, <3>3 DEF Client
    <3> HIDE DEF x
    <3>6. /\ ~x.pw /\ x.pr = k.pr /\ x.pcmd = k.pcmd /\ x.open = k.open
          /\ (x.asap <=> c \in ToSet(toclose)) /\ (~(x.out > 0) \/ x.handler)
      BY <2>4, <2>8, <3>3, <3>5
    <3> QED  BY <1>3, <1>10, <2>5, <3>4, <3>5, <3>6
  <2>9. CASE how = "error"
    <3>1. t = freeClientAsync(s, c)
      BY <2>9 DEF writeToClient
    <3> HIDE DEF t
    <3> QED  BY <1>7, <1>12, <2>7, <3>1
  <2>10. CASE how = "part"
    <3>1. t = s
      BY <2>10 DEF writeToClient
    <3> HIDE DEF t
    <3> QED  BY <1>7, <1>12, <2>8, <3>1
  <2>11. CASE how = "all"
    <3> DEFINE n == 0
               b == k1.handler /\ ~hi
               z == [k1 EXCEPT !.out = n]
               y == [z EXCEPT !.handler = b]
               v == State(With(cli, c, y), pread, q, toclose)
    <3>1. Drained(s, c, hi) = v
      <4>1. y = DrainedClient(k1, hi)
        BY DEF DrainedClient
      <4> HIDE DEF y
      <4> QED  BY <1>3, <1>4, <1>7, <4>1, WrittenOf
    <3>2. t = IF k1.after THEN freeClientAsync(v, c) ELSE v
      <4> HIDE DEF v, s
      <4> QED  BY <2>3, <2>11, <3>1 DEF writeToClient, Drained
    <3>3. b \in BOOLEAN /\ n \in Int
      BY <1>7 DEF Client
    <3> HIDE DEF b, n
    <3>4. /\ z \in Client /\ z.asap = k1.asap /\ z.pw = k1.pw /\ z.pr = k1.pr
          /\ z.pcmd = k1.pcmd /\ z.open = k1.open
      BY <1>7, <3>3 DEF Client
    <3> HIDE DEF z
    <3>5. /\ y \in Client /\ y.asap = z.asap /\ y.pw = z.pw /\ y.pr = z.pr
          /\ y.pcmd = z.pcmd /\ y.open = z.open
      BY <3>3, <3>4 DEF Client
    <3> HIDE DEF y, t
    <3>6. ~y.asap /\ ~y.pw /\ y.pr = k.pr /\ y.pcmd = k.pcmd /\ y.open = k.open
      BY <1>7, <1>12, <3>4, <3>5
    <3>7. CASE k1.after
      BY <2>7, <3>2, <3>5, <3>6, <3>7
    <3>8. CASE ~k1.after
      BY <2>8, <3>2, <3>5, <3>6, <3>8
    <3> QED  BY <3>7, <3>8
  <2> QED  BY <2>6, <2>9, <2>10, <2>11
<1> QED  BY <1>9, <1>11, <1>12


LEMMA FreedOf ==
  ASSUME NEW f \in [Clients -> Client], NEW c \in Clients, NEW y \in Client, ~y.asap,
         NEW r, NEW w, NEW t
  PROVE  freeClient(State(With(f, c, y), r, w, t), c)
         = State(With(f, c, FreedClient), IF y.pr THEN Without(r, c) ELSE r,
                 IF y.pw THEN Without(w, c) ELSE w, t)
<1> DEFINE g == With(f, c, y)
           s == State(g, r, w, t)
           x == FreedClient
           r1 == IF y.pr THEN Without(r, c) ELSE r
           w1 == IF y.pw THEN Without(w, c) ELSE w
<1>1. g \in [Clients -> Client] /\ g[c] = y
  BY WithFields
<1>2. With(g, c, x) = With(f, c, x)
  BY FreedFields, WithTwice
<1> HIDE DEF g
<1>3. s.cli = g /\ s.pread = r /\ s.pwrite = w /\ s.toclose = t /\ s.cli[c] = y
  BY <1>1, StateFields
<1> HIDE DEF s
<1> DEFINE t2 == IF s.cli[c].asap THEN Without(s.toclose, c) ELSE s.toclose
           w2 == IF s.cli[c].pw THEN Without(s.pwrite, c) ELSE s.pwrite
           r2 == IF s.cli[c].pr THEN Without(s.pread, c) ELSE s.pread
<1>4. freeClient(s, c) = WithRead(WithWrite(WithClose(WithCli(s, With(s.cli, c, x)), t2), w2), r2)
  BY Zenon DEF freeClient, WithClose, WithCli, WithRead, WithWrite, With
<1>5. t2 = t /\ w2 = w1 /\ r2 = r1
  BY <1>3
<1> HIDE DEF x, r1, w1, t2, w2, r2
<1>6. freeClient(s, c) = WithRead(WithWrite(WithClose(WithCli(s, With(f, c, x)), t), w1), r1)
  BY <1>2, <1>3, <1>4, <1>5
<1> DEFINE h == With(f, c, x)
<1> HIDE DEF h
<1>7. WithCli(s, h) = State(h, r, w, t)
  BY StateExcept DEF s
<1>8. WithClose(WithCli(s, h), t) = State(h, r, w, t)
  BY <1>7, StateExcept
<1>9. WithWrite(WithClose(WithCli(s, h), t), w1) = State(h, r, w1, t)
  BY <1>8, StateExcept
<1>10. WithRead(WithWrite(WithClose(WithCli(s, h), t), w1), r1) = State(h, r1, w1, t)
  BY <1>9, StateExcept
<1> QED  BY <1>6, <1>10 DEF s, g, h, x, r1, w1

LEMMA FreeStep ==
  ASSUME IInv, FreeAsync
  PROVE  IInv'
<1> DEFINE m == Writing(main.pc, op)
           c == Head(toclose)
           k == cli[c]
           y == [k EXCEPT !.asap = FALSE]
           x == FreedClient
           r1 == IF y.pr THEN Without(pread, c) ELSE pread
           w1 == IF y.pw THEN Without(pwrite, c) ELSE pwrite
           q == Tail(toclose)
           s0 == [Now EXCEPT !.cli[c].asap = FALSE]
           u == State(With(cli, c, x), r1, w1, q)
<1>1. /\ main.pc = "free" /\ toclose # <<>> /\ UNCHANGED <<main, op, list, pending, worker>>
      /\ Is([freeClient(s0, c) EXCEPT !.toclose = Tail(@)])
  BY DEF FreeAsync, At, threads
<1>2. /\ Good(m, Now) /\ Now.cli = cli /\ Now.pread = pread /\ Now.pwrite = pwrite
      /\ Now.toclose = toclose
  BY NowGood
<1>3. Queue(pread) /\ Queue(pwrite) /\ Queue(toclose) /\ cli \in [Clients -> Client]
  BY DEF IInv, Sound
<1>4. Queue(q) /\ ToSet(q) = ToSet(toclose) \ {c} /\ c \in Clients /\ c \in ToSet(toclose)
  BY <1>1, <1>3, Popped
<1>5. k \in Client /\ Fits(m, k, c, pread, pwrite, toclose) /\ ~m
  BY <1>1, <1>2, <1>4, GoodClient DEF Writing
<1>6. s0 = State(With(cli, c, y), pread, pwrite, toclose)
  <2>1. s0 = WithCli(Now, With(cli, c, y))
    BY <1>2, Zenon DEF WithCli, With
  <2>2. Now = State(cli, pread, pwrite, toclose)
    BY DEF Now, State
  <2> HIDE DEF y, c, s0
  <2> QED  BY <2>1, <2>2, StateExcept
<1>7. y \in Client /\ ~y.asap /\ y.pr = k.pr /\ y.pw = k.pw
  BY <1>5 DEF Client
<1> HIDE DEF y, c, s0, m
<1>8. freeClient(s0, c) = State(With(cli, c, x), r1, w1, toclose)
  BY <1>3, <1>4, <1>6, <1>7, FreedOf
<1>9. Queue(r1) /\ ToSet(r1) = ToSet(pread) \ {c}
  BY <1>3, <1>5, <1>7, Removed DEF Fits
<1>10. Queue(w1) /\ ToSet(w1) = ToSet(pwrite) \ {c}
  BY <1>3, <1>5, <1>7, Removed DEF Fits
<1>11. x \in Client /\ ~x.open /\ ~x.pr /\ ~x.pw /\ ~x.asap /\ ~x.pcmd
  BY FreedFields
<1> HIDE DEF x, r1, w1
<1>12. Is(u)
  <2> DEFINE v == freeClient(s0, c)
  <2>1. v.toclose = toclose
    BY <1>8, StateFields
  <2> HIDE DEF v
  <2>2. [v EXCEPT !.toclose = Tail(@)] = WithClose(v, q)
    BY <2>1 DEF WithClose
  <2>3. WithClose(v, q) = u
    BY <1>8, StateExcept DEF v
  <2> HIDE DEF u
  <2> QED  BY <1>1, <2>2, <2>3 DEF v
<1> HIDE DEF q
<1>13. Fits(m, x, c, r1, w1, q)
  BY <1>4, <1>5, <1>9, <1>10, <1>11 DEF Fits
<1>14. SameElse(c, pread, r1) /\ SameElse(c, pwrite, w1) /\ SameElse(c, toclose, q)
  BY <1>4, <1>9, <1>10 DEF SameElse
<1>15. Good(m, u)
  BY <1>2, <1>4, <1>9, <1>10, <1>11, <1>13, <1>14, Changed
<1> HIDE DEF u
<1>16. Sound(Writing(main.pc, op), cli, pread, pwrite, toclose)' /\ ControlInv'
  BY <1>1, <1>12, <1>15, ClientsChanged DEF m
<1>17. ListInv' /\ WorkInv'
  BY <1>1, IdleLists
<1> QED  BY <1>16, <1>17 DEF IInv

-----------------------------------------------------------------------------
(* The theorems.                                                            *)

LEMMA InitInv == Init => IInv
<1> SUFFICES ASSUME Init PROVE IInv
  OBVIOUS
<1>1. NewClient \in Client /\ ~NewClient.pr /\ ~NewClient.pw /\ ~NewClient.asap
      /\ ~NewClient.pcmd /\ NewClient.open /\ ~(NewClient.out > 0)
  BY DEF NewClient, Client
<1>2. /\ main.pc = "poll" /\ main.cur = NoClient /\ main.ret = <<>> /\ main \in MainType
      /\ op = "read"
  BY DEF Init, MainType, Places
<1>3. Sound(Writing(main.pc, op), cli, pread, pwrite, toclose)
  <2> DEFINE q == <<>>
             k == NewClient
  <2>1. Queue(q) /\ ToSet(q) = {} /\ pread = q /\ pwrite = q /\ toclose = q
    BY EmptyQueue DEF Init
  <2>2. cli = [c \in Clients |-> k]
    BY DEF Init
  <2> HIDE DEF q, k
  <2>3. cli \in [Clients -> Client]
    BY <1>1, <2>2 DEF k
  <2>4. \A c \in Clients : Fits(Writing(main.pc, op), cli[c], c, q, q, q)
    BY <1>1, <1>2, <2>1, <2>2 DEF Fits, k
  <2> QED  BY <2>1, <2>3, <2>4 DEF Sound
<1>4. ControlInv
  BY <1>2 DEF ControlInv, Stacked, Executing
<1>5. ListInv
  BY <1>2 DEF ListInv, Init
<1>6. WorkInv
  <2>1. \A j \in Workers : j \in 0..(Threads - 1)
    BY IOAssumption DEF Workers
  <2> QED  BY <2>1 DEF WorkInv, Init
<1> QED  BY <1>3, <1>4, <1>5, <1>6 DEF IInv

LEMMA NextInv == IInv /\ [Next]_vars => IInv'
<1> SUFFICES ASSUME IInv, [Next]_vars PROVE IInv'
  OBVIOUS
<1>1. CASE UNCHANGED vars
  <2>1. UNCHANGED <<cli, pread, pwrite, toclose, list, pending, op, main, worker>>
    BY <1>1 DEF vars
  <2>2. Sound(Writing(main.pc, op), cli, pread, pwrite, toclose)'
    BY <2>1 DEF IInv
  <2>3. ControlInv' /\ ListInv' /\ WorkInv'
    BY <2>1 DEF IInv, ControlInv, ListInv, WorkInv
  <2> QED  BY <2>2, <2>3 DEF IInv
<1>2. ASSUME NEW c \in Clients, ClientSends(c) \/ ClientDisconnects(c) PROVE IInv'
  BY <1>2, PeerSteps
<1>3. CASE MainStep
  <2>1. CASE SkipEvent \/ \E j \in Workers : ParkThread(j)
    BY <2>1, SmallSteps
  <2>2. ASSUME NEW c \in Clients, readQueryFromClient(c) \/ sendReplyToClient(c) PROVE IInv'
    BY <2>2, ReadStep, ReplyStep
  <2>3. CASE ExecuteCommand \/ CommandsDone
    BY <2>3, CommandStep, CommandsEnd
  <2>4. CASE \/ DistributeReads \/ WaitForThreads \/ RunPendingCommands \/ DistributeWrites
             \/ InstallHandlers \/ WriteSync \/ FreeAsync
    BY <2>4, DistributeReadsStep, WaitStep, PendingCommandsStep, DistributeWritesStep,
       InstallStep, WriteSyncStep, FreeStep
  <2>5. CASE MainServes
    BY <2>5, ServeSteps
  <2>6. CASE \/ aeApiPoll \/ serverCron \/ beforeSleep \/ NoReads \/ ReadsDone \/ NoWrites
             \/ WriteAlone \/ WritesDone \/ NoneToFree \/ ThreadsParked
    BY <2>6, QuietSteps
  <2> QED  BY <1>3, <2>1, <2>2, <2>3, <2>4, <2>5, <2>6 DEF MainStep
<1>4. ASSUME NEW j \in Workers, WorkerStep(j) PROVE IInv'
  BY <1>4, SmallSteps, ServeSteps DEF WorkerStep
<1> QED  BY <1>1, <1>2, <1>3, <1>4 DEF Next

LEMMA Inductive == Spec => []IInv
<1>1. Init => IInv
  BY InitInv
<1>2. IInv /\ [Next]_vars => IInv'
  BY NextInv
<1> QED  BY <1>1, <1>2, PTL DEF Spec

LEMMA TrackedIfInv == IInv => ClientsTracked
<1> SUFFICES ASSUME IInv PROVE ClientsTracked
  OBVIOUS
<1> DEFINE m == Writing(main.pc, op)
<1>1. /\ Queue(pread) /\ Queue(pwrite) /\ Queue(toclose) /\ cli \in [Clients -> Client]
      /\ \A c \in Clients : Fits(m, cli[c], c, pread, pwrite, toclose)
  BY DEF IInv, Sound
<1> HIDE DEF m
<1>2. NoDangling
  <2>1. SUFFICES ASSUME NEW c \in Clients, ~cli[c].open
                 PROVE  /\ main.cur # c
                        /\ \A q \in {pread, pwrite, toclose} : c \notin ToSet(q)
                        /\ \A j \in DOMAIN list : c \notin ToSet(list[j])
    BY DEF NoDangling
  <2>2. main.cur # c
    BY <2>1, IOAssumption DEF IInv, ControlInv, Executing
  <2>3. c \notin ToSet(pread) /\ c \notin ToSet(pwrite) /\ c \notin ToSet(toclose)
    BY <1>1, <2>1 DEF Fits
  <2>4. ASSUME NEW j \in DOMAIN list PROVE c \notin ToSet(list[j])
    <3>1. CASE main.pc = "slice"
      <4>1. Shared(list, IF op = "read" THEN pread ELSE pwrite)
        BY <3>1 DEF IInv, ListInv
      <4>2. DOMAIN list = 0..(Threads - 1)
        BY <4>1 DEF Shared
      <4> QED  BY <2>3, <2>4, <4>1, <4>2 DEF Shared
    <3>2. CASE main.pc # "slice"
      <4>1. list[j] = <<>>
        BY <2>4, <3>2 DEF IInv, ListInv
      <4> QED  BY <4>1, EmptyQueue
    <3> QED  BY <3>1, <3>2
  <2> QED  BY <2>2, <2>3, <2>4
<1>3. FlagsMatch
  <2>1. \A q \in {pread, pwrite, toclose} : IsInjective(q)
    BY <1>1 DEF Queue
  <2>2. \A c \in Clients :
          /\ cli[c].pr <=> c \in ToSet(pread)
          /\ cli[c].asap <=> c \in ToSet(toclose)
          /\ cli[c].pw => c \in ToSet(pwrite)
          /\ cli[c].pcmd => cli[c].pr
    BY <1>1 DEF Fits
  <2> QED  BY <2>1, <2>2 DEF FlagsMatch
<1>4. ReplyScheduled
  BY <1>1 DEF Fits, ReplyScheduled
<1> QED  BY <1>2, <1>3, <1>4 DEF ClientsTracked

LEMMA AloneIfInv == IInv => OneThreadPerClient
<1> SUFFICES ASSUME IInv PROVE OneThreadPerClient
  OBVIOUS
<1>1. /\ DOMAIN list = 0..(Threads - 1)
      /\ \A i, j \in DOMAIN list : i # j => ToSet(list[i]) \cap ToSet(list[j]) = {}
      /\ \A j \in DOMAIN list : IsInjective(list[j])
  <2>1. CASE main.pc = "slice"
    <3>1. Shared(list, IF op = "read" THEN pread ELSE pwrite)
      BY <2>1 DEF IInv, ListInv
    <3> QED  BY <3>1 DEF Shared
  <2>2. CASE main.pc # "slice"
    <3>1. list = [j \in 0..(Threads - 1) |-> <<>>]
      BY <2>2 DEF IInv, ListInv
    <3>2. DOMAIN list = 0..(Threads - 1) /\ \A j \in 0..(Threads - 1) : list[j] = <<>>
      BY <3>1
    <3>3. ToSet(<<>>) = {} /\ IsInjective(<<>>)
      BY EmptyQueue DEF Queue
    <3> QED  BY <3>2, <3>3
  <2> QED  BY <2>1, <2>2
<1>2. ~Serving => \A j \in Workers : list[j] = <<>> /\ pending[j] = 0 /\ worker[j] # "work"
  BY DEF Serving, At, IInv, WorkInv
<1> QED  BY <1>1, <1>2 DEF OneThreadPerClient

\* The server never loses track of a client, whoever frees it and whenever
\* (freeClient, unlinkClient, freeClientAsync): queues, thread lists and the
\* running command loop refer only to live clients, the flags the serverAsserts
\* rely on agree with the queues, and no reply is stranded without a pending
\* write or a write handler.  For any number of clients, threads and commands.
THEOREM NoClientLost == Spec => []ClientsTracked
  BY Inductive, TrackedIfInv, PTL

\* No client is ever served by two threads, and none is served while the main
\* thread executes commands, frees clients or sleeps: the only synchronisation
\* of the threads (io_threads_pending, io_threads_list) suffices.
THEOREM ThreadsExclusive == Spec => []OneThreadPerClient
  BY Inductive, AloneIfInv, PTL
=============================================================================
