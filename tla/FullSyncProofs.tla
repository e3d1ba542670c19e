--------------------------- MODULE FullSyncProofs ---------------------------
(***************************************************************************)
(* A full resynchronisation is exact (SyncIsExact) for any number of       *)
(* replicas, commands, children, failures and broken connections, in any   *)
(* configuration, save for a replica that was given the output buffer of   *)
(* one that had missed a write.                                            *)
(*                                                                         *)
(* The predicates of the invariant take the state they speak of as         *)
(* arguments: l is a log, k a child, F the contents of dump.rdb, p a pipe  *)
(* and n the chunks of an RDB.                                             *)
(***************************************************************************)
EXTENDS FullSync, SequenceTheorems, WellFoundedInduction, TLAPS

Op == {"set", "flush"}

(* The numbers after a up to b.                                              *)
Span(a, b) == [i \in 1..(b - a) |-> a + i]

(* The last FLUSHALL among the first n commands is the f-th; f = 0 if there   *)
(* is none.                                                                  *)
IsLast(f, n, l) ==
    /\ f = 0 \/ l[f] = "flush"
    /\ \A i \in (f + 1)..n : l[i] # "flush"

(* d is what the first n commands leave.                                      *)
IsData(d, n, l) == \E f \in 0..n : IsLast(f, n, l) /\ d = Span(f, n)

(* d will be the dataset of the master once the commands after the a-th have  *)
(* been executed on it.  After a FLUSHALL anything will do, and FLUSHALL may   *)
(* indeed have replaced dump.rdb.                                             *)
Exact(d, a, l) == IsData(d, a, l) \/ \E i \in (a + 1)..Len(l) : l[i] = "flush"

-----------------------------------------------------------------------------
(* One replica, with the client structure c.                                  *)

Data == Seq(Nat)
Client ==
    [st : {"none", "start", "end", "bulk", "online"}, off : Nat, buf : Seq(Nat),
     fd : SUBSET Data, got : Nat, ack : BOOLEAN, data : SUBSET Data, asap : BOOLEAN,
     missed : BOOLEAN]

(* Its output buffer continues at its offset, and one of the snapshots S      *)
(* is the one to load.                                                       *)
Holds(c, S, l) ==
    ~c.missed => /\ c.off \in 0..Len(l) /\ c.buf = Span(c.off, Len(l))
                 /\ \E d \in S : Exact(d, c.off, l)

Idle(c) ==
    /\ c.st \in {"none", "start"} /\ c.buf = <<>> /\ c.got = 0 /\ c.data = {}
    /\ ~c.asap /\ ~c.missed

Fed(c, l) ==
    \/ c.st = "bulk" /\ Holds(c, c.fd, l)
    \/ c.st = "online" /\ Holds(c, c.data, l)

(* What the replicas of child k are going to load.                            *)
Coming(k, F) == IF k.type = "disk" /\ k.st = "ok" THEN F ELSE {k.snap}

(* How far the stream of a diskless child has come: the pipe is not read       *)
(* while a replica is one chunk behind.                                       *)
Streamed(r, c, k, p, n) ==
    k.type = "socket" =>
        /\ c.data = IF c.got = n THEN {k.snap} ELSE {}
        /\ p.open => /\ r \in p.conns
                     /\ IF r \in p.writing THEN c.got + 1 = p.read ELSE c.got = p.read
        /\ ~p.open /\ k.st = "ok" => c.got = n

Waits(r, c, l, k, F, p, n) ==
    /\ c.st = "end" /\ k.type # "none"
    /\ Holds(c, Coming(k, F), l) /\ Streamed(r, c, k, p, n)

ClientOK(r, c, l, k, F, p, n) ==
    /\ c \in Client
    /\ Idle(c) \/ Fed(c, l) \/ Waits(r, c, l, k, F, p, n)

-----------------------------------------------------------------------------
(* The rest of the state.                                                     *)

LogOK == log \in Seq(Op) /\ \E f \in 0..Len(log) : IsLast(f, Len(log), log)

EnvFields ==
    {"eof", "modes", "saveParams", "delSyncFiles", "asyncClose",
     "chunks", "writes", "syncs", "drops", "others"}

EnvOK ==
    /\ env = [x \in EnvFields |-> env[x]]
    /\ env.chunks \in Nat \ {0}
    /\ diskless \in env.modes

ChildOK(k, n) ==
    /\ k \in [type : {"none", "disk", "socket"}, snap : Data,
              st : {"none", "running", "ok", "err", "killed"}, wrote : Nat]
    /\ k.type = "socket" /\ k.st = "ok" => k.wrote = n

PipeOK(p, k) ==
    /\ p \in [open : BOOLEAN, conns : SUBSET Replicas, writing : SUBSET Replicas,
              reader : BOOLEAN, read : Nat, deleted : BOOLEAN]
    /\ p.writing \subseteq p.conns
    /\ p.open => k.type = "socket"
    /\ k.type = "socket" /\ k.st = "running" => p.open
    /\ ~p.open => p.conns = {}
    /\ p.reader => p.writing = {}

(* The pipe only feeds replicas that wait.                                     *)
ConnsWait(R, p) == \A r \in p.conns : R[r].st = "end"

Clients(R, l, k, F, p, n) == \A r \in Replicas : ClientOK(r, R[r], l, k, F, p, n)

Core(R, l, k, F, p, n) ==
    /\ R = [r \in Replicas |-> R[r]] /\ Clients(R, l, k, F, p, n)
    /\ ChildOK(k, n) /\ PipeOK(p, k)
    /\ ConnsWait(R, p)

SyncInv ==
    /\ LogOK /\ EnvOK /\ file \subseteq Data
    /\ Core(rep, log, child, file, pipe, env.chunks)

-----------------------------------------------------------------------------
(* Lemmas about logs.                                                         *)

LEMMA SpanType ==
  ASSUME NEW a \in Nat, NEW b \in Nat, a <= b
  PROVE  /\ Span(a, b) \in Seq(Nat) /\ Len(Span(a, b)) = b - a
         /\ DOMAIN Span(a, b) = 1..(b - a)
         /\ \A i \in 1..(b - a) : Span(a, b)[i] = a + i
<1>1. b - a \in Nat
  OBVIOUS
<1>2. \A i \in 1..(b - a) : a + i \in Nat
  OBVIOUS
<1>3. Span(a, b) \in [1..(b - a) -> Nat]
  BY <1>2 DEF Span
<1>4. Span(a, b) \in Seq(Nat)
  BY <1>1, <1>3
<1>5. DOMAIN Span(a, b) = 1..(b - a)
  BY DEF Span
<1>6. Len(Span(a, b)) = b - a
  BY <1>1, <1>4, <1>5
<1> QED BY <1>4, <1>5, <1>6 DEF Span

\* Two sequences of numbers are equal when they agree.
LEMMA SameSeq ==
  ASSUME NEW s \in Seq(Nat), NEW t \in Seq(Nat), Len(s) = Len(t),
         \A i \in 1..Len(s) : s[i] = t[i]
  PROVE  s = t
BY SeqEqual

\* The buffer grows by the next command.
LEMMA SpanAppend ==
  ASSUME NEW a \in Nat, NEW b \in Nat, a <= b
  PROVE  Append(Span(a, b), b + 1) = Span(a, b + 1)
<1>1. /\ Span(a, b) \in Seq(Nat) /\ Len(Span(a, b)) = b - a
      /\ \A i \in 1..(b - a) : Span(a, b)[i] = a + i
  BY SpanType
<1>2. /\ Span(a, b + 1) \in Seq(Nat) /\ Len(Span(a, b + 1)) = b + 1 - a
      /\ \A i \in 1..(b + 1 - a) : Span(a, b + 1)[i] = a + i
  BY SpanType
<1> DEFINE s == Span(a, b)
           t == Append(s, b + 1)
<1> HIDE DEF s
<1>3. /\ t \in Seq(Nat) /\ Len(t) = b - a + 1
      /\ \A i \in 1..(b - a) : t[i] = s[i]
      /\ t[b - a + 1] = b + 1
  BY <1>1 DEF s
<1>4. \A i \in 1..(b + 1 - a) : t[i] = a + i
  BY <1>1, <1>3 DEF s
<1> HIDE DEF t
<1>5. t = Span(a, b + 1)
  BY <1>2, <1>3, <1>4, SameSeq
<1> QED BY <1>5 DEF t, s

\* The buffer shrinks by the command that is sent.
LEMMA SpanTail ==
  ASSUME NEW a \in Nat, NEW b \in Nat, a < b
  PROVE  /\ Span(a, b) # <<>> /\ Head(Span(a, b)) = a + 1
         /\ Tail(Span(a, b)) = Span(a + 1, b)
<1>1. /\ Span(a, b) \in Seq(Nat) /\ Len(Span(a, b)) = b - a
      /\ \A i \in 1..(b - a) : Span(a, b)[i] = a + i
  BY SpanType
<1>2. /\ Span(a + 1, b) \in Seq(Nat) /\ Len(Span(a + 1, b)) = b - (a + 1)
      /\ \A i \in 1..(b - (a + 1)) : Span(a + 1, b)[i] = a + 1 + i
  BY SpanType
<1> DEFINE s == Span(a, b)
           t == Tail(s)
<1> HIDE DEF s
<1>3. s # <<>> /\ Head(s) = a + 1
  BY <1>1 DEF s
<1>4. /\ t \in Seq(Nat) /\ Len(t) = b - a - 1
      /\ \A i \in 1..(b - a - 1) : t[i] = s[i + 1]
  BY <1>1, <1>3 DEF s
<1>5. \A i \in 1..(b - a - 1) : t[i] = a + 1 + i
  BY <1>1, <1>4 DEF s
<1> HIDE DEF t
<1>6. t = Span(a + 1, b)
  BY <1>2, <1>4, <1>5, SameSeq
<1> QED BY <1>3, <1>6 DEF t, s

\* A buffer with nothing in it is one at the end of the log.
LEMMA SpanEmpty ==
  ASSUME NEW a \in Nat
  PROVE  Span(a, a) = <<>>
BY SpanType

\* Two adjacent parts of the log.
LEMMA SpanConcat ==
  ASSUME NEW a \in Nat, NEW b \in Nat, NEW c \in Nat, a <= b, b <= c
  PROVE  Span(a, b) \o Span(b, c) = Span(a, c)
<1>1. /\ Span(a, b) \in Seq(Nat) /\ Len(Span(a, b)) = b - a
      /\ \A i \in 1..(b - a) : Span(a, b)[i] = a + i
  BY SpanType
<1>2. /\ Span(b, c) \in Seq(Nat) /\ Len(Span(b, c)) = c - b
      /\ \A i \in 1..(c - b) : Span(b, c)[i] = b + i
  BY SpanType
<1>3. /\ Span(a, c) \in Seq(Nat) /\ Len(Span(a, c)) = c - a
      /\ \A i \in 1..(c - a) : Span(a, c)[i] = a + i
  BY SpanType
<1> DEFINE s == Span(a, b)
           t == Span(b, c)
           u == s \o t
<1> HIDE DEF s, t
<1>4. /\ u \in Seq(Nat) /\ Len(u) = c - a
      /\ \A i \in 1..(c - a) : u[i] = IF i <= b - a THEN s[i] ELSE t[i - (b - a)]
  <2>1. /\ s \in Seq(Nat) /\ t \in Seq(Nat) /\ Len(s) = b - a /\ Len(t) = c - b
        /\ Len(s) + Len(t) = c - a
    BY <1>1, <1>2 DEF s, t
  <2>2. /\ u \in Seq(Nat) /\ Len(u) = Len(s) + Len(t)
        /\ \A i \in 1..(Len(s) + Len(t)) : u[i] = IF i <= Len(s) THEN s[i] ELSE t[i - Len(s)]
    BY <2>1, ConcatProperties
  <2> QED BY <2>1, <2>2
<1>5. \A i \in 1..(c - a) : u[i] = a + i
  <2> SUFFICES ASSUME NEW i \in 1..(c - a) PROVE u[i] = a + i
    OBVIOUS
  <2> HIDE DEF u
  <2>1. CASE i <= b - a
    BY <1>1, <1>4, <2>1 DEF s
  <2>2. CASE ~(i <= b - a)
    <3>1. i - (b - a) \in 1..(c - b)
      BY <2>2
    <3> QED BY <1>2, <1>4, <2>2, <3>1 DEF t
  <2> QED BY <2>1, <2>2
<1> HIDE DEF u
<1>6. u = Span(a, c)
  BY <1>3, <1>4, <1>5, SameSeq
<1> QED BY <1>6 DEF u, s, t

\* The end of a part of the log.
LEMMA SpanSub ==
  ASSUME NEW a \in Nat, NEW f \in Nat, NEW b \in Nat, a <= f, f <= b
  PROVE  SubSeq(Span(a, b), f - a + 1, b - a) = Span(f, b)
<1>1. /\ Span(a, b) \in Seq(Nat) /\ Len(Span(a, b)) = b - a
      /\ \A i \in 1..(b - a) : Span(a, b)[i] = a + i
  BY SpanType
<1>2. /\ Span(f, b) \in Seq(Nat) /\ Len(Span(f, b)) = b - f
      /\ \A i \in 1..(b - f) : Span(f, b)[i] = f + i
  BY SpanType
<1> DEFINE s == Span(a, b)
           t == SubSeq(s, f - a + 1, b - a)
<1> HIDE DEF s
<1>3. f - a + 1 \in 1..(b - a + 1) /\ b - a \in 0..Len(s)
  BY <1>1 DEF s
<1>4. /\ t \in Seq(Nat) /\ Len(t) = b - f
      /\ \A i \in 1..(b - f) : t[i] = s[f - a + 1 + i - 1]
  BY <1>1, <1>3, SubSeqProperties DEF s
<1>5. \A i \in 1..(b - f) : t[i] = f + i
  <2> SUFFICES ASSUME NEW i \in 1..(b - f) PROVE t[i] = f + i
    OBVIOUS
  <2> HIDE DEF t
  <2>1. f - a + i \in 1..(b - a)
    OBVIOUS
  <2>2. t[i] = s[f - a + i]
    <3>1. f - a + 1 + i - 1 = f - a + i
      OBVIOUS
    <3> QED BY <1>4, <3>1
  <2> QED BY <1>1, <2>1, <2>2 DEF s
<1> HIDE DEF t
<1>6. t = Span(f, b)
  BY <1>2, <1>4, <1>5, SameSeq
<1> QED BY <1>6 DEF t, s

\* What a log does to an exact snapshot: nothing when it grows ...
LEMMA ExactGrows ==
  ASSUME NEW l \in Seq(Op), NEW op \in Op, NEW d, NEW a \in 0..Len(l), Exact(d, a, l)
  PROVE  Exact(d, a, Append(l, op))
<1> DEFINE m == Append(l, op)
<1>1. Len(l) \in Nat /\ Len(m) = Len(l) + 1 /\ \A i \in 1..Len(l) : m[i] = l[i]
  OBVIOUS
<1> HIDE DEF m
<1>2. CASE \E i \in (a + 1)..Len(l) : l[i] = "flush"
  <2>1. PICK i \in (a + 1)..Len(l) : l[i] = "flush"
    BY <1>2
  <2>2. i \in (a + 1)..Len(m) /\ m[i] = "flush"
    BY <1>1, <2>1
  <2> QED BY <2>2 DEF Exact, m
<1>3. CASE IsData(d, a, l)
  <2>1. PICK f \in 0..a : IsLast(f, a, l) /\ d = Span(f, a)
    BY <1>3 DEF IsData
  <2>2. (f = 0 \/ f \in 1..Len(l)) /\ \A i \in (f + 1)..a : i \in 1..Len(l)
    BY <1>1, <2>1
  <2>3. IsLast(f, a, m)
    BY <1>1, <2>1, <2>2 DEF IsLast
  <2> QED BY <2>1, <2>3 DEF Exact, IsData, m
<1> QED BY <1>2, <1>3 DEF Exact

\* ... anything is exact when a FLUSHALL follows ...
LEMMA ExactFlushed ==
  ASSUME NEW l \in Seq(Op), NEW d, NEW a \in 0..Len(l)
  PROVE  Exact(d, a, Append(l, "flush"))
<1> DEFINE m == Append(l, "flush")
<1>1. Len(l) \in Nat /\ Len(m) = Len(l) + 1 /\ m[Len(l) + 1] = "flush"
  BY DEF Op
<1> HIDE DEF m
<1>2. Len(l) + 1 \in (a + 1)..Len(m)
  BY <1>1
<1> QED BY <1>1, <1>2 DEF Exact, m

\* ... and executing the next command keeps it exact.
LEMMA ExactApply ==
  ASSUME NEW l \in Seq(Op), NEW d, NEW a \in Nat, a < Len(l), Exact(d, a, l)
  PROVE  Exact(IF l[a + 1] = "flush" THEN <<>> ELSE Append(d, a + 1), a + 1, l)
<1>1. Len(l) \in Nat /\ a + 1 \in 1..Len(l)
  OBVIOUS
<1>2. CASE l[a + 1] = "flush"
  <2>1. a + 1 \in 0..(a + 1) /\ IsLast(a + 1, a + 1, l)
    BY <1>2 DEF IsLast
  <2>2. Span(a + 1, a + 1) = <<>>
    BY SpanEmpty
  <2>3. IsData(<<>>, a + 1, l)
    BY <2>1, <2>2 DEF IsData
  <2> QED BY <1>2, <2>3 DEF Exact
<1>3. CASE l[a + 1] # "flush" /\ \E i \in (a + 1)..Len(l) : l[i] = "flush"
  <2>1. PICK i \in (a + 1)..Len(l) : l[i] = "flush"
    BY <1>3
  <2>2. i \in (a + 1 + 1)..Len(l)
    BY <1>1, <1>3, <2>1
  <2> QED BY <2>1, <2>2 DEF Exact
<1>4. CASE l[a + 1] # "flush" /\ IsData(d, a, l)
  <2>1. PICK f \in 0..a : IsLast(f, a, l) /\ d = Span(f, a)
    BY <1>4 DEF IsData
  <2>2. f \in 0..(a + 1) /\ IsLast(f, a + 1, l)
    BY <1>4, <2>1 DEF IsLast
  <2>3. Append(d, a + 1) = Span(f, a + 1)
    <3>1. f \in Nat /\ f <= a
      OBVIOUS
    <3>2. Append(Span(f, a), a + 1) = Span(f, a + 1)
      BY <3>1, SpanAppend
    <3> QED BY <2>1, <3>2
  <2>4. IsData(Append(d, a + 1), a + 1, l)
    BY <2>2, <2>3 DEF IsData
  <2> QED BY <1>4, <2>4 DEF Exact
<1> QED BY <1>2, <1>3, <1>4 DEF Exact

\* The last FLUSHALL of a log that grows.
LEMMA LastGrows ==
  ASSUME LogOK, NEW op \in Op, log' = Append(log, op)
  PROVE  LogOK'
<1>1. /\ Len(log) \in Nat /\ Len(log') = Len(log) + 1 /\ log' \in Seq(Op)
      /\ \A i \in 1..Len(log) : log'[i] = log[i]
      /\ log'[Len(log) + 1] = op
  BY DEF LogOK
<1>2. PICK f \in 0..Len(log) : IsLast(f, Len(log), log)
  BY DEF LogOK
<1>3. CASE op = "flush"
  <2>1. IsLast(Len(log'), Len(log'), log') /\ Len(log') \in 0..Len(log')
    BY <1>1, <1>3 DEF IsLast
  <2> QED BY <1>1, <2>1 DEF LogOK
<1>4. CASE op # "flush"
  <2>1. IsLast(f, Len(log'), log') /\ f \in 0..Len(log')
    BY <1>1, <1>2, <1>4 DEF IsLast
  <2> QED BY <1>1, <2>1 DEF LogOK
<1> QED BY <1>3, <1>4

\* Executing the end of the log, after its a-th command.
LEMMA ApplyEnd ==
  ASSUME log \in Seq(Op), NEW a \in 0..Len(log), NEW f \in 0..Len(log),
         IsLast(f, Len(log), log), NEW d
  PROVE  ApplyAll(d, Span(a, Len(log)))
           = IF f > a THEN Span(f, Len(log)) ELSE d \o Span(a, Len(log))
<1> DEFINE n == Len(log)
           b == Span(a, n)
<1>1. n \in Nat /\ a \in Nat /\ f \in Nat /\ a <= n /\ f <= n
  OBVIOUS
<1>2. IsLast(f, n, log)
  OBVIOUS
<1> HIDE DEF n
<1>3. Len(b) = n - a /\ \A k \in 1..(n - a) : b[k] = a + k
  BY <1>1, SpanType
<1>4. Flushes(b) = {k \in 1..(n - a) : log[a + k] = "flush"}
  <2> HIDE DEF b
  <2> QED BY <1>3 DEF Flushes
<1> HIDE DEF b
<1>5. CASE f > a
  <2>1. f - a \in Flushes(b)
    <3>1. f - a \in 1..(n - a) /\ a + (f - a) = f
      BY <1>1, <1>5
    <3>2. log[f] = "flush"
      BY <1>1, <1>2, <1>5 DEF IsLast
    <3> QED BY <1>4, <3>1, <3>2
  <2>2. \A k \in Flushes(b) : k \in Int /\ f - a >= k
    <3> SUFFICES ASSUME NEW k \in Flushes(b), ~(f - a >= k) PROVE FALSE
      BY <1>1, <1>4
    <3>1. k \in 1..(n - a) /\ log[a + k] = "flush"
      BY <1>4
    <3>2. a + k \in (f + 1)..n
      BY <1>1, <3>1
    <3> QED BY <1>2, <3>1, <3>2 DEF IsLast
  <2>3. Max(Flushes(b)) = f - a
    <3> DEFINE S == Flushes(b)
               x == f - a
    <3>1. x \in S /\ x \in Int /\ \A k \in S : k \in Int /\ x >= k
      BY <1>1, <2>1, <2>2
    <3> HIDE DEF S, x
    <3>2. \A y \in S : (\A k \in S : y >= k) => y = x
      BY <3>1
    <3>3. Max(S) = x
      BY <3>1, <3>2 DEF Max
    <3> QED BY <3>3 DEF S, x
  <2>4. ApplyAll(d, b) = SubSeq(b, f - a + 1, n - a)
    BY <1>3, <2>1, <2>3 DEF ApplyAll
  <2>5. SubSeq(b, f - a + 1, n - a) = Span(f, n)
    <3>1. a <= f
      BY <1>1, <1>5
    <3> QED BY <1>1, <3>1, SpanSub DEF b
  <2> QED BY <1>5, <2>4, <2>5 DEF b, n
<1>6. CASE ~(f > a)
  <2>1. \A k \in 1..(n - a) : a + k \in (f + 1)..n
    BY <1>1, <1>6
  <2>2. Flushes(b) = {}
    BY <1>2, <1>4, <2>1 DEF IsLast
  <2> QED BY <1>6, <2>2 DEF ApplyAll, b, n
<1> QED BY <1>5, <1>6

\* The dataset of the master is what its log leaves.
LEMMA DatasetIsData ==
  ASSUME LogOK
  PROVE  Dataset \in Data /\ IsData(Dataset, Len(log), log)
<1>0. log \in Seq(Op) /\ Len(log) \in Nat
  BY DEF LogOK
<1>1. PICK f \in 0..Len(log) : IsLast(f, Len(log), log)
  BY DEF LogOK
<1>2. [i \in 1..Len(log) |-> i] = Span(0, Len(log))
  BY <1>0 DEF Span
<1>3. Dataset = IF f > 0 THEN Span(f, Len(log)) ELSE <<>> \o Span(0, Len(log))
  <2>1. 0 \in 0..Len(log) /\ Dataset = ApplyAll(<<>>, Span(0, Len(log)))
    BY <1>0, <1>2 DEF Dataset
  <2> QED BY <1>0, <1>1, <2>1, ApplyEnd
<1>4. Span(0, Len(log)) \in Seq(Nat) /\ Span(f, Len(log)) \in Seq(Nat)
  BY <1>0, <1>1, SpanType
<1>5. <<>> \o Span(0, Len(log)) = Span(0, Len(log))
  BY <1>4, ConcatEmptySeq
<1>6. Dataset = Span(f, Len(log))
  BY <1>1, <1>3, <1>5
<1> QED BY <1>1, <1>4, <1>6 DEF IsData, Data

\* An exact snapshot and the buffer make up the dataset of the master.
LEMMA ExactIsEnough ==
  ASSUME LogOK, NEW a \in 0..Len(log), NEW d, Exact(d, a, log)
  PROVE  ApplyAll(d, Span(a, Len(log))) = Dataset
<1>0. log \in Seq(Op) /\ Len(log) \in Nat
  BY DEF LogOK
<1>1. PICK f \in 0..Len(log) : IsLast(f, Len(log), log) /\ Dataset = Span(f, Len(log))
  BY DatasetIsData DEF IsData
<1>2. ApplyAll(d, Span(a, Len(log)))
        = IF f > a THEN Span(f, Len(log)) ELSE d \o Span(a, Len(log))
  BY <1>0, <1>1, ApplyEnd
<1>3. CASE f > a
  BY <1>1, <1>2, <1>3
<1>4. CASE ~(f > a)
  <2>1. \A i \in (a + 1)..Len(log) : i \in (f + 1)..Len(log)
    BY <1>0, <1>4
  <2>2. IsData(d, a, log)
    BY <1>1, <2>1 DEF Exact, IsLast
  <2>3. PICK g \in 0..a : IsLast(g, a, log) /\ d = Span(g, a)
    BY <2>2 DEF IsData
  <2>4. f \in 0..a /\ g \in 0..a /\ f \in Int /\ g \in Int
    BY <1>0, <1>4
  <2>5. ~(g < f)
    <3> SUFFICES ASSUME g < f PROVE FALSE
      OBVIOUS
    <3>1. f \in (g + 1)..a /\ f # 0
      BY <2>4
    <3> QED BY <1>1, <2>3, <3>1 DEF IsLast
  <2>6. ~(f < g)
    <3> SUFFICES ASSUME f < g PROVE FALSE
      OBVIOUS
    <3>1. g \in (f + 1)..Len(log) /\ g # 0
      BY <1>0, <2>4
    <3> QED BY <1>1, <2>3, <3>1 DEF IsLast
  <2>7. f = g
    BY <2>4, <2>5, <2>6
  <2>8. d \o Span(a, Len(log)) = Span(f, Len(log))
    <3> DEFINE n == Len(log)
    <3>1. f \in Nat /\ a \in Nat /\ n \in Nat /\ f <= a /\ a <= n /\ d = Span(f, a)
      BY <1>0, <2>3, <2>4, <2>7
    <3> HIDE DEF n
    <3>2. Span(f, a) \o Span(a, n) = Span(f, n)
      BY <3>1, SpanConcat
    <3> QED BY <3>1, <3>2 DEF n
  <2> QED BY <1>1, <1>2, <1>4, <2>8
<1> QED BY <1>3, <1>4

-----------------------------------------------------------------------------
(* ApplyAll is Apply for each command in turn.                                *)

\* A set of natural numbers has a least element.
LEMMA LeastNat ==
  ASSUME NEW T, T \subseteq Nat, T # {}
  PROVE  \E x \in T : \A y \in T : x <= y
<1> DEFINE R == OpToRel(<, Nat)
<1>1. IsWellFoundedOn(R, Nat)
  BY NatLessThanWellFounded, Zenon
<1>2. \A y, x \in Nat : y < x => <<y, x>> \in R
  BY Zenon DEF OpToRel
<1> HIDE DEF R
<1>3. PICK x \in T : \A y \in T : ~(<<y, x>> \in R)
  BY <1>1, WFMin
<1>4. \A y \in T : ~(y < x)
  BY <1>2, <1>3
<1>5. x \in Nat /\ \A y \in T : y \in Nat
  OBVIOUS
<1> QED BY <1>3, <1>4, <1>5

\* Max finds the greatest element of a set of numbers up to n.
LEMMA MaxIsGreatest ==
  ASSUME NEW n \in Nat, NEW S, S \subseteq 1..n, S # {}
  PROVE  Max(S) \in S /\ \A y \in S : Max(S) >= y
<1> DEFINE T == {n - y : y \in S}
<1>1. T \subseteq Nat /\ T # {}
  <2>1. \A y \in S : n - y \in Nat
    OBVIOUS
  <2>2. PICK y \in S : TRUE
    OBVIOUS
  <2>3. n - y \in T
    OBVIOUS
  <2> QED BY <2>1, <2>3
<1>2. PICK t \in T : \A u \in T : t <= u
  BY <1>1, LeastNat
<1>3. PICK x \in S : t = n - x
  BY <1>2
<1>4. \A y \in S : n - y \in T /\ y \in Nat
  OBVIOUS
<1>5. \A y \in S : t <= n - y
  BY <1>2, <1>4
<1>6. \A y \in S : x >= y
  BY <1>3, <1>4, <1>5
<1> QED BY <1>6 DEF Max

LEMMA MaxIs ==
  ASSUME NEW S, S \subseteq Int, NEW x \in S, \A y \in S : x >= y
  PROVE  Max(S) = x
<1>1. \A y \in S : (\A k \in S : y >= k) => y = x
  OBVIOUS
<1> QED BY <1>1 DEF Max

LEMMA ApplyAllNone == ASSUME NEW d \in Data PROVE ApplyAll(d, <<>>) = d
<1>1. Flushes(<<>>) = {}
  BY DEF Flushes
<1>2. d \o <<>> = d
  BY ConcatEmptySeq DEF Data
<1> QED BY <1>1, <1>2 DEF ApplyAll

LEMMA ApplyAllOne ==
  ASSUME NEW d \in Data, NEW b \in Data, NEW i \in Nat
  PROVE  ApplyAll(d, Append(b, i)) = Apply(ApplyAll(d, b), i)
<1> DEFINE n == Len(b)
           c == Append(b, i)
<1>1. /\ n \in Nat /\ b \in Seq(Nat) /\ d \in Seq(Nat) /\ c \in Seq(Nat) /\ Len(c) = n + 1
      /\ c[n + 1] = i /\ \A k \in 1..n : c[k] = b[k]
  BY DEF Data
<1> HIDE DEF n, c
<1>2. Flushes(b) = {k \in 1..n : log[b[k]] = "flush"}
  BY DEF Flushes, n
<1>3. Flushes(c) = {k \in 1..(n + 1) : log[c[k]] = "flush"}
  BY <1>1 DEF Flushes
<1>4. \A k \in 1..(n + 1) : k = n + 1 \/ k \in 1..n
  BY <1>1
<1>5. \A k \in 1..n : k \in Flushes(c) <=> k \in Flushes(b)
  BY <1>1, <1>2, <1>3
<1>6. CASE log[i] = "flush"
  <2> DEFINE S == Flushes(c)
             x == n + 1
  <2>1. x \in S /\ S \subseteq Int /\ \A y \in S : x >= y
    BY <1>1, <1>3, <1>6
  <2> HIDE DEF S, x
  <2>2. Max(S) = x
    BY <2>1, MaxIs
  <2>3. ApplyAll(d, c) = SubSeq(c, n + 1 + 1, n + 1)
    BY <1>1, <2>1, <2>2 DEF ApplyAll, S, x
  <2>4. SubSeq(c, n + 1 + 1, n + 1) = <<>>
    BY <1>1
  <2> QED BY <1>6, <2>3, <2>4 DEF Apply, c
<1>7. CASE log[i] # "flush"
  <2>1. Flushes(c) = Flushes(b)
    <3>1. n + 1 \notin Flushes(c)
      BY <1>1, <1>3, <1>7
    <3>2. Flushes(c) \subseteq 1..n /\ Flushes(b) \subseteq 1..n
      BY <1>2, <1>3, <1>4, <3>1
    <3> QED BY <1>5, <3>2
  <2>2. CASE Flushes(b) = {}
    <3>1. ApplyAll(d, c) = d \o Append(b, i) /\ ApplyAll(d, b) = d \o b
      BY <2>1, <2>2 DEF ApplyAll, c
    <3>2. d \o Append(b, i) = Append(d \o b, i)
      BY <1>1
    <3> QED BY <1>7, <3>1, <3>2 DEF Apply, c
  <2>3. CASE Flushes(b) # {}
    <3> DEFINE m == Max(Flushes(b))
               s == SubSeq(b, m + 1, n)
               t == SubSeq(c, m + 1, n + 1)
    <3>1. m \in 1..n
      <4> DEFINE S == Flushes(b)
      <4>1. S \subseteq 1..n /\ S # {}
        BY <1>2, <2>3
      <4> HIDE DEF S
      <4>2. Max(S) \in S
        BY <1>1, <4>1, MaxIsGreatest
      <4> QED BY <4>1, <4>2 DEF S
    <3>2. ApplyAll(d, c) = t /\ ApplyAll(d, b) = s
      BY <1>1, <2>1, <2>3 DEF ApplyAll, n
    <3> HIDE DEF m
    <3>3. /\ s \in Seq(Nat) /\ Len(s) = n - m
          /\ \A k \in 1..(n - m) : s[k] = b[m + k]
      <4>1. m \in Nat /\ n \in Nat /\ m <= n /\ \A k \in (m + 1)..n : b[k] \in Nat
        BY <1>1, <3>1 DEF n
      <4>2. /\ s \in Seq(Nat) /\ Len(s) = (IF m + 1 <= n THEN n - (m + 1) + 1 ELSE 0)
            /\ \A k \in 1..(n - (m + 1) + 1) : s[k] = b[m + 1 + k - 1]
        <5>1. m + 1 \in Int /\ n \in Int
          BY <4>1
        <5> QED BY <4>1, <5>1, SubSeqProperties
      <4>3. /\ n - (m + 1) + 1 = n - m /\ (m + 1 <= n \/ n - m = 0)
            /\ \A k \in 1..(n - m) : m + 1 + k - 1 = m + k
        BY <4>1
      <4> HIDE DEF s
      <4> QED BY <4>2, <4>3
    <3>4. /\ t \in Seq(Nat) /\ Len(t) = n - m + 1
          /\ \A k \in 1..(n - m + 1) : t[k] = c[m + k]
      <4>1. m + 1 \in 1..(n + 2) /\ n + 1 \in m..Len(c) /\ n + 1 = Len(c)
        BY <1>1, <3>1
      <4>2. /\ t \in Seq(Nat) /\ Len(t) = n - m + 1
            /\ \A k \in 1..(n - m + 1) : t[k] = c[m + 1 + k - 1]
        BY <1>1, <3>1, <4>1, SubSeqProperties
      <4>3. \A k \in 1..(n - m + 1) : m + 1 + k - 1 = m + k
        BY <1>1, <3>1
      <4> QED BY <4>2, <4>3
    <3> DEFINE u == Append(s, i)
    <3> HIDE DEF s, t
    <3>5. /\ u \in Seq(Nat) /\ Len(u) = n - m + 1 /\ u[n - m + 1] = i
          /\ \A k \in 1..(n - m) : u[k] = s[k]
      BY <1>1, <3>1, <3>3
    <3> HIDE DEF u
    <3>6. \A k \in 1..(n - m + 1) : t[k] = u[k]
      <4> SUFFICES ASSUME NEW k \in 1..(n - m + 1) PROVE t[k] = u[k]
        OBVIOUS
      <4>1. CASE k \in 1..(n - m)
        <5>1. m + k \in 1..n
          BY <1>1, <3>1, <4>1
        <5> QED BY <1>1, <3>3, <3>4, <3>5, <4>1, <5>1
      <4>2. CASE k = n - m + 1
        <5>1. m + k = n + 1
          BY <1>1, <3>1, <4>2
        <5> QED BY <1>1, <3>4, <3>5, <4>2, <5>1
      <4> QED BY <1>1, <3>1, <4>1, <4>2
    <3>7. t = u
      BY <3>4, <3>5, <3>6, SameSeq
    <3> QED BY <1>7, <3>2, <3>7 DEF Apply, c, u
  <2> QED BY <2>2, <2>3
<1> QED BY <1>6, <1>7

-----------------------------------------------------------------------------
(* Lemmas about one client structure.                                         *)

\* A client that is nobody, and one that has just asked for SYNC.
LEMMA NewClients ==
  /\ NoClient \in Client /\ Idle(NoClient) /\ NoClient.st = "none"
  /\ [NoClient EXCEPT !.st = "start"] \in Client
  /\ Idle([NoClient EXCEPT !.st = "start"]) /\ [NoClient EXCEPT !.st = "start"].st = "start"
<1>1. <<>> \in Seq(Nat)
  BY EmptySeq
<1>2. NoClient \in Client
  BY <1>1 DEF NoClient, Client
<1>3. [NoClient EXCEPT !.st = "start"] \in Client
  BY <1>2 DEF Client
<1> QED BY <1>2, <1>3 DEF NoClient, Idle

\* The fields replicationSetupSlaveForFullResync sets.
LEMMA SetupFields ==
  ASSUME NEW c \in Client, NEW o \in Nat, NEW b \in BOOLEAN
  PROVE  LET e == SetupSlaveForFullResync(c, o, b) IN
         /\ e \in Client /\ e.st = "end" /\ e.off = o /\ e.missed = c.missed
         /\ e.buf = c.buf /\ e.got = c.got /\ e.data = c.data
<1> DEFINE e == SetupSlaveForFullResync(c, o, b)
<1>1. /\ e.st = "end" /\ e.off = o /\ e.missed = c.missed
      /\ e.buf = c.buf /\ e.got = c.got /\ e.data = c.data /\ e.fd = c.fd /\ e.ack = c.ack
  BY DEF SetupSlaveForFullResync, Client
<1>2. e \in Client
  BY DEF SetupSlaveForFullResync, Client
<1> HIDE DEF e
<1> QED BY <1>1, <1>2 DEF e

\* A replica that holds a snapshot is fed one more command.
FeedClient(c, i, b) == [c EXCEPT !.buf = Append(@, i), !.asap = b]

LEMMA FeedFields ==
  ASSUME NEW c \in Client, NEW i \in Nat, NEW b \in BOOLEAN, NEW e, e = FeedClient(c, i, b)
  PROVE  /\ e \in Client /\ e.st = c.st /\ e.off = c.off /\ e.missed = c.missed
         /\ e.buf = Append(c.buf, i) /\ e.got = c.got /\ e.data = c.data /\ e.fd = c.fd
<1>1. c.buf \in Seq(Nat)
  BY DEF Client
<1> DEFINE f == Append(c.buf, i)
<1>2. f \in Seq(Nat) /\ e = [c EXCEPT !.buf = f, !.asap = b]
  BY <1>1 DEF FeedClient
<1> HIDE DEF f
<1>3. /\ e \in Client /\ e.st = c.st /\ e.off = c.off /\ e.missed = c.missed
      /\ e.buf = f /\ e.got = c.got /\ e.data = c.data /\ e.fd = c.fd
  BY <1>2 DEF Client
<1> QED BY <1>3 DEF f

LEMMA FeedHolds ==
  ASSUME NEW l \in Seq(Op), NEW op \in Op, NEW c \in Client, NEW S, NEW b \in BOOLEAN,
         ~c.missed, Holds(c, S, l)
  PROVE  Holds(FeedClient(c, Len(l) + 1, b), S, Append(l, op))
<1> DEFINE e == FeedClient(c, Len(l) + 1, b)
           m == Append(l, op)
<1>1. Len(l) \in Nat /\ Len(m) = Len(l) + 1
  OBVIOUS
<1>2. /\ c.off \in 0..Len(l) /\ c.buf = Span(c.off, Len(l))
      /\ \E d \in S : Exact(d, c.off, l)
  BY DEF Holds
<1>3. e.off = c.off /\ e.missed = c.missed /\ e.buf = Append(c.buf, Len(l) + 1)
  <2> DEFINE i == Len(l) + 1
  <2>1. i \in Nat /\ e = FeedClient(c, i, b)
    BY <1>1
  <2> HIDE DEF e, i
  <2>2. e.off = c.off /\ e.missed = c.missed /\ e.buf = Append(c.buf, i)
    BY <2>1, FeedFields, Z3T(30)
  <2> QED BY <2>2 DEF i
<1>4. PICK d \in S : Exact(d, c.off, l)
  BY <1>2
<1>5. Exact(d, c.off, m)
  BY <1>2, <1>4, ExactGrows
<1>6. Append(Span(c.off, Len(l)), Len(l) + 1) = Span(c.off, Len(l) + 1)
  <2> DEFINE a == c.off
             i == Len(l)
  <2>1. a \in Nat /\ i \in Nat /\ a <= i
    BY <1>1, <1>2
  <2> HIDE DEF a, i
  <2>2. Append(Span(a, i), i + 1) = Span(a, i + 1)
    BY <2>1, SpanAppend
  <2> QED BY <2>2 DEF a, i
<1> HIDE DEF e, m
<1>7. e.off \in 0..Len(m) /\ e.buf = Span(e.off, Len(m)) /\ Exact(d, e.off, m)
  BY <1>1, <1>2, <1>3, <1>5, <1>6
<1>8. Holds(e, S, m)
  BY <1>7 DEF Holds
<1> QED BY <1>8 DEF e, m

\* After a FLUSHALL every snapshot will do, but there must be one.
LEMMA FlushHolds ==
  ASSUME NEW l \in Seq(Op), NEW c \in Client, NEW S, NEW T, NEW b \in BOOLEAN,
         ~c.missed, Holds(c, S, l), T # {}
  PROVE  Holds(FeedClient(c, Len(l) + 1, b), T, Append(l, "flush"))
<1> DEFINE e == FeedClient(c, Len(l) + 1, b)
           m == Append(l, "flush")
<1>1. Len(l) \in Nat /\ Len(m) = Len(l) + 1
  BY DEF Op
<1>2. c.off \in 0..Len(l) /\ c.buf = Span(c.off, Len(l))
  BY DEF Holds
<1>3. e.off = c.off /\ e.missed = c.missed /\ e.buf = Append(c.buf, Len(l) + 1)
  <2> DEFINE i == Len(l) + 1
  <2>1. i \in Nat /\ e = FeedClient(c, i, b)
    BY <1>1
  <2> HIDE DEF e, i
  <2>2. e.off = c.off /\ e.missed = c.missed /\ e.buf = Append(c.buf, i)
    BY <2>1, FeedFields, Z3T(30)
  <2> QED BY <2>2 DEF i
<1>4. PICK d \in T : TRUE
  OBVIOUS
<1>5. Exact(d, c.off, m)
  BY <1>2, ExactFlushed
<1>6. Append(Span(c.off, Len(l)), Len(l) + 1) = Span(c.off, Len(l) + 1)
  <2> DEFINE a == c.off
             i == Len(l)
  <2>1. a \in Nat /\ i \in Nat /\ a <= i
    BY <1>1, <1>2
  <2> HIDE DEF a, i
  <2>2. Append(Span(a, i), i + 1) = Span(a, i + 1)
    BY <2>1, SpanAppend
  <2> QED BY <2>2 DEF a, i
<1> HIDE DEF e, m
<1>7. e.off \in 0..Len(m) /\ e.buf = Span(e.off, Len(m)) /\ Exact(d, e.off, m)
  BY <1>1, <1>2, <1>3, <1>5, <1>6
<1>8. Holds(e, T, m)
  BY <1>4, <1>7 DEF Holds
<1> QED BY <1>8 DEF e, m

-----------------------------------------------------------------------------
(* Replicas that do not wait for a child.                                      *)

RestOK(c, l) == c \in Client /\ (Idle(c) \/ Fed(c, l))

LEMMA RestIsOK ==
  ASSUME NEW c, NEW l, RestOK(c, l)
  PROVE  /\ c.st # "end"
         /\ \A r, k, F, p, n : ClientOK(r, c, l, k, F, p, n)
BY DEF RestOK, Idle, Fed, ClientOK

LEMMA OKIsRest ==
  ASSUME NEW r, NEW c, NEW l, NEW k, NEW F, NEW p, NEW n,
         ClientOK(r, c, l, k, F, p, n), c.st # "end" \/ k.type = "none"
  PROVE  RestOK(c, l)
BY DEF ClientOK, RestOK, Waits

LEMMA RestNoClient ==
  ASSUME NEW l
  PROVE  RestOK(NoClient, l)
BY NewClients DEF RestOK

\* Without a child nobody waits for one.
LEMMA AllRest ==
  ASSUME SyncInv, child.type = "none"
  PROVE  /\ \A r \in Replicas : RestOK(rep[r], log)
         /\ ~pipe.open /\ pipe.conns = {} /\ pipe.writing = {}
<1>1. ASSUME NEW r \in Replicas PROVE RestOK(rep[r], log)
  <2>1. ClientOK(r, rep[r], log, child, file, pipe, env.chunks)
    BY DEF SyncInv, Core, Clients
  <2> QED BY <2>1, OKIsRest
<1> QED BY <1>1 DEF SyncInv, Core, PipeOK

\* startBgsaveForReplication gives every replica that waits for a child the
\* offset of the fork, or drops them all.
LEMMA StartClient ==
  ASSUME LogOK, NEW c, RestOK(c, log), c.st = "start", NEW b \in BOOLEAN, NEW r, NEW W, r \in W,
         NEW n \in Nat \ {0}, NEW type \in {"disk", "socket"}, NEW F, NEW p,
         type = "socket" => p.open /\ p.conns = W /\ p.writing = {} /\ p.read = 0,
         NEW e, e = SetupSlaveForFullResync(c, Len(log), b),
         NEW k, k = [type |-> type, snap |-> Dataset, st |-> "running", wrote |-> 0]
  PROVE  ClientOK(r, e, log, k, F, p, n) /\ e.st = "end"
<1>1. Len(log) \in Nat /\ log \in Seq(Op)
  BY DEF LogOK
<1>0. c \in Client
  BY DEF RestOK
<1>2. c.buf = <<>> /\ c.got = 0 /\ c.data = {} /\ ~c.missed
  BY DEF RestOK, Idle, Fed
<1>3. /\ e \in Client /\ e.st = "end" /\ e.off = Len(log) /\ ~e.missed
      /\ e.buf = <<>> /\ e.got = 0 /\ e.data = {}
  <2> DEFINE o == Len(log)
  <2>1. o \in Nat /\ e = SetupSlaveForFullResync(c, o, b)
    BY <1>1
  <2> HIDE DEF o
  <2>2. /\ e \in Client /\ e.st = "end" /\ e.off = o /\ e.missed = c.missed
        /\ e.buf = c.buf /\ e.got = c.got /\ e.data = c.data
    BY <1>0, <2>1, SetupFields
  <2> QED BY <1>2, <2>2 DEF o
<1>4. k.type = type /\ k.snap = Dataset /\ k.st = "running"
  OBVIOUS
<1>5. Exact(Dataset, Len(log), log)
  BY DatasetIsData DEF Exact
<1>6. Span(Len(log), Len(log)) = <<>>
  BY <1>1, SpanEmpty
<1>7. Len(log) \in 0..Len(log)
  BY <1>1
<1> HIDE DEF LogOK
<1>8. Holds(e, {Dataset}, log)
  BY <1>3, <1>5, <1>6, <1>7 DEF Holds
<1>9. Coming(k, F) = {Dataset}
  BY <1>4 DEF Coming
<1>10. Streamed(r, e, k, p, n)
  BY <1>3, <1>4 DEF Streamed
<1> QED BY <1>3, <1>4, <1>8, <1>9, <1>10 DEF ClientOK, Waits

LEMMA StartOK ==
  ASSUME LogOK, EnvOK, NEW R, NEW L, NEW P, NEW reader \in BOOLEAN,
         \A r \in Replicas : RestOK(R[r], log),
         PipeOK(P, NoChild), ~P.open, startBgsaveForReplication(R, L, P, reader)
  PROVE  \A F : Core(rep', log, child', F, pipe', env.chunks)
<1> SUFFICES ASSUME NEW F
             PROVE  Core(rep', log, child', F, pipe', env.chunks)
  OBVIOUS
<1> DEFINE W == InState(R, {"start"})
           sock == diskless /\ W \subseteq env.eof
           n == env.chunks
<1>0. n \in Nat \ {0} /\ diskless \in env.modes
  BY DEF EnvOK
<1>1. \A r \in Replicas : r \in W <=> R[r].st = "start"
  BY DEF InState
<1>2. W \subseteq Replicas /\ P.conns = {} /\ P.writing = {}
  BY DEF InState, PipeOK
<1>4. \/ /\ \E D \in MayClose(W) :
              rep' = [r \in Replicas |->
                        IF r \in W THEN SetupSlaveForFullResync(R[r], Len(log), r \in D)
                        ELSE R[r]]
         /\ child' = [type |-> IF sock THEN "socket" ELSE "disk", snap |-> Dataset,
                      st |-> "running", wrote |-> 0]
         /\ pipe' = IF sock THEN [open |-> TRUE, conns |-> W, writing |-> {},
                                  reader |-> reader, read |-> 0, deleted |-> ~reader]
                    ELSE P
      \/ rep' = Freed(R, W) /\ child' = NoChild /\ pipe' = P
  BY DEF startBgsaveForReplication
<1>5. sock \in BOOLEAN
  OBVIOUS
<1> HIDE DEF W, sock, n
<1>6. CASE rep' = Freed(R, W) /\ child' = NoChild /\ pipe' = P
  <2>1. rep' = [r \in Replicas |-> IF r \in W THEN NoClient ELSE R[r]]
    BY <1>6 DEF Freed
  <2>2. \A r \in Replicas : rep'[r] = NoClient \/ rep'[r] = R[r]
    BY <2>1
  <2>3. \A r \in Replicas : RestOK(rep'[r], log)
    BY <2>2, RestNoClient
  <2>4. \A r \in Replicas : ClientOK(r, rep'[r], log, child', F, pipe', n) /\ rep'[r].st # "end"
    BY <2>3, RestIsOK
  <2>5. ChildOK(child', n)
    BY <1>6, EmptySeq DEF ChildOK, NoChild, Data
  <2>6. rep' = [r \in Replicas |-> rep'[r]]
    BY <2>1
  <2> QED
    BY <1>2, <1>6, <2>3, <2>4, <2>5, <2>6 DEF Core, Clients, ConnsWait, n
<1>7. CASE /\ \E D \in MayClose(W) :
                rep' = [r \in Replicas |->
                          IF r \in W THEN SetupSlaveForFullResync(R[r], Len(log), r \in D)
                          ELSE R[r]]
           /\ child' = [type |-> IF sock THEN "socket" ELSE "disk", snap |-> Dataset,
                        st |-> "running", wrote |-> 0]
           /\ pipe' = IF sock THEN [open |-> TRUE, conns |-> W, writing |-> {},
                                    reader |-> reader, read |-> 0, deleted |-> ~reader]
                      ELSE P
  <2>1. PICK D \in MayClose(W) :
           rep' = [r \in Replicas |->
                     IF r \in W THEN SetupSlaveForFullResync(R[r], Len(log), r \in D)
                     ELSE R[r]]
    BY <1>7
  <2> DEFINE type == IF sock THEN "socket" ELSE "disk"
             k == child'
             p == pipe'
  <2>3. /\ type \in {"disk", "socket"} /\ (type = "socket" <=> sock)
        /\ k = [type |-> type, snap |-> Dataset, st |-> "running", wrote |-> 0]
    BY <1>5, <1>7
  <2>4. /\ sock => p = [open |-> TRUE, conns |-> W, writing |-> {}, reader |-> reader, read |-> 0, deleted |-> ~reader]
        /\ ~sock => p = P
    BY <1>5, <1>7
  <2> HIDE DEF type, k, p
  <2>5. type = "socket" => p.open /\ p.conns = W /\ p.writing = {} /\ p.read = 0
    BY <2>3, <2>4
  <2>6. ASSUME NEW r \in Replicas
        PROVE  /\ ClientOK(r, rep'[r], log, k, F, p, n)
               /\ rep'[r].st = "end" <=> r \in W
    <3>1. CASE r \in W
      <4> DEFINE c == R[r]
                 b == r \in D
                 e == rep'[r]
      <4>1. RestOK(c, log) /\ c.st = "start" /\ b \in BOOLEAN
        BY <1>1, <3>1
      <4>2. e = SetupSlaveForFullResync(c, Len(log), b)
        BY <2>1, <3>1
      <4> HIDE DEF c, b, e
      <4>3. ClientOK(r, e, log, k, F, p, n) /\ e.st = "end"
        BY <1>0, <2>3, <2>5, <3>1, <4>1, <4>2, StartClient, Z3T(30)
      <4> QED BY <3>1, <4>3 DEF e
    <3>2. CASE r \notin W
      <4>1. rep'[r] = R[r] /\ RestOK(R[r], log)
        BY <2>1, <3>2
      <4> QED BY <3>2, <4>1, RestIsOK
    <3> QED BY <3>1, <3>2
  <2>7. ChildOK(k, n)
    BY <2>3, DatasetIsData DEF ChildOK
  <2>8. PipeOK(p, k)
    <3>1. k.type = type /\ k.st = "running"
      BY <2>3
    <3>2. CASE sock
      <4>1. p = [open |-> TRUE, conns |-> W, writing |-> {}, reader |-> reader, read |-> 0, deleted |-> ~reader]
        BY <2>4, <3>2
      <4>2. p.open = TRUE /\ p.conns = W /\ p.writing = {}
        BY <4>1
      <4>3. p \in [open : BOOLEAN, conns : SUBSET Replicas, writing : SUBSET Replicas,
                   reader : BOOLEAN, read : Nat, deleted : BOOLEAN]
        BY <1>2, <4>1
      <4> QED BY <2>3, <3>1, <3>2, <4>2, <4>3 DEF PipeOK
    <3>3. CASE ~sock
      BY <1>2, <2>3, <2>4, <3>1, <3>3 DEF PipeOK
    <3> QED BY <1>5, <3>2, <3>3
  <2>9. ConnsWait(rep', p)
    <3>1. p.conns = {} \/ p.conns = W
      BY <1>2, <1>5, <2>4
    <3> QED BY <1>2, <2>6, <3>1 DEF ConnsWait
  <2>11. rep' = [r \in Replicas |-> rep'[r]]
    BY <2>1
  <2> QED
    BY <2>6, <2>7, <2>8, <2>9, <2>11 DEF Core, Clients, n, k, p
<1> QED BY <1>4, <1>6, <1>7

LEMMA NoPipeOK == PipeOK(NoPipe, NoChild) /\ ~NoPipe.open /\ NoPipe.conns = {}
BY DEF PipeOK, NoPipe, NoChild

\* A replica whose child ended well is given the whole snapshot.
LEMMA ServedOK ==
  ASSUME NEW r, NEW c, NEW C, NEW p, NEW n, ClientOK(r, c, log, C, file, p, n),
         c.st = "end", ~p.open, C.st = "ok", C.type \in {"none", "disk", "socket"},
         file \subseteq Data
  PROVE  RestOK(Served(c, C), log)
<1>1. c \in Client /\ Waits(r, c, log, C, file, p, n)
  BY DEF ClientOK, Idle, Fed
<1>2. Holds(c, Coming(C, file), log) /\ C.type # "none"
  BY <1>1 DEF Waits
<1>3. CASE C.type = "socket"
  <2>1. c.data = {C.snap} /\ Coming(C, file) = {C.snap}
    BY <1>1, <1>3 DEF Waits, Streamed, Coming
  <2> DEFINE e == [c EXCEPT !.st = "online", !.ack = TRUE]
  <2>2. /\ e \in Client /\ e.st = "online" /\ e.missed = c.missed
        /\ e.off = c.off /\ e.buf = c.buf /\ e.data = c.data
    BY <1>1 DEF Client
  <2>3. Served(c, C) = e
    BY <1>3 DEF Served
  <2> HIDE DEF e
  <2>4. Holds(e, e.data, log)
    BY <1>2, <2>1, <2>2 DEF Holds
  <2> QED BY <2>2, <2>3, <2>4 DEF RestOK, Fed
<1>4. CASE C.type = "disk"
  <2>1. Coming(C, file) = file
    BY <1>4 DEF Coming
  <2> DEFINE e == [c EXCEPT !.st = "bulk", !.fd = file]
  <2>2. /\ e \in Client /\ e.st = "bulk" /\ e.missed = c.missed
        /\ e.off = c.off /\ e.buf = c.buf /\ e.fd = file
    BY <1>1 DEF Client
  <2>3. Served(c, C) = e
    BY <1>4 DEF Served
  <2> HIDE DEF e
  <2>4. Holds(e, e.fd, log)
    BY <1>2, <2>1, <2>2 DEF Holds
  <2> QED BY <2>2, <2>3, <2>4 DEF RestOK, Fed
<1> QED BY <1>2, <1>3, <1>4

\* updateSlavesWaitingBgsave leaves nobody waiting for the child that ended.
LEMMA UpdateOK ==
  ASSUME LogOK, EnvOK, file \subseteq Data, NEW R0, NEW L0, NEW C, NEW p,
         NEW reader \in BOOLEAN,
         Core(R0, log, C, file, p, env.chunks), ~p.open,
         updateSlavesWaitingBgsave(R0, L0, C, reader)
  PROVE  \A F : Core(rep', log, child', F, pipe', env.chunks)
<1> DEFINE E == InState(R0, {"end"})
           lost == IF C.st = "ok" /\ (C.type = "disk" => file # {}) THEN {} ELSE E
           R == [r \in Replicas |-> IF r \in E \ lost THEN Served(R0[r], C)
                                    ELSE Freed(R0, lost)[r]]
           L == Listed(L0, lost)
<1>1. \A r \in Replicas : r \in E <=> R0[r].st = "end"
  BY DEF InState
<1>2. lost \subseteq E /\ (lost = E \/ C.st = "ok")
  OBVIOUS
<1>3. \A r \in Replicas :
         /\ r \in E \ lost => R[r] = Served(R0[r], C)
         /\ r \in lost => R[r] = NoClient
         /\ r \notin E => R[r] = R0[r]
  BY <1>2 DEF Freed
<1>4. \/ startBgsaveForReplication(R, L, NoPipe, reader)
      \/ rep' = R /\ child' = NoChild /\ pipe' = NoPipe
  BY DEF updateSlavesWaitingBgsave
<1>5. R = [r \in Replicas |-> R[r]]
  OBVIOUS
<1>6. C.type \in {"none", "disk", "socket"}
  BY DEF Core, ChildOK
<1> HIDE DEF E, lost, R, L
<1>7. ASSUME NEW r \in Replicas
      PROVE  RestOK(R[r], log)
  <2>1. ClientOK(r, R0[r], log, C, file, p, env.chunks)
    BY DEF Core, Clients
  <2>2. CASE r \in E \ lost
    <3>1. R[r] = Served(R0[r], C) /\ R0[r].st = "end" /\ C.st = "ok"
      BY <1>1, <1>2, <1>3, <2>2
    <3>2. RestOK(Served(R0[r], C), log)
      BY <1>6, <2>1, <3>1, ServedOK
    <3> QED BY <2>1, <3>1, <3>2
  <2>3. CASE r \in lost
    BY <1>3, <2>3, RestNoClient
  <2>4. CASE r \notin E
    BY <1>1, <1>3, <2>1, <2>4, OKIsRest
  <2> QED BY <1>2, <2>2, <2>3, <2>4
<1>8. CASE startBgsaveForReplication(R, L, NoPipe, reader)
  BY <1>7, <1>8, NoPipeOK, StartOK
<1>9. CASE rep' = R /\ child' = NoChild /\ pipe' = NoPipe
  <2> SUFFICES ASSUME NEW F
               PROVE  Core(rep', log, child', F, pipe', env.chunks)
    OBVIOUS
  <2>1. \A r \in Replicas : /\ ClientOK(r, rep'[r], log, child', F, pipe', env.chunks)
                            /\ rep'[r].st # "end"
    BY <1>7, <1>9, RestIsOK
  <2>2. ChildOK(child', env.chunks)
    BY <1>9, EmptySeq DEF ChildOK, NoChild, Data
  <2> QED
    BY <1>5, <1>7, <1>9, <2>1, <2>2, NoPipeOK DEF Core, Clients, ConnsWait
<1> QED BY <1>4, <1>8, <1>9

-----------------------------------------------------------------------------
(* Commands.                                                                   *)

\* The stream of a child only depends on what it is, and on its ending well.
LEMMA StreamedSame ==
  ASSUME NEW r, NEW c, NEW e, NEW k, NEW k2, NEW p, NEW n, Streamed(r, c, k, p, n),
         e.data = c.data, e.got = c.got, k2.type = k.type, k2.snap = k.snap,
         k2.st = "ok" => k.st = "ok"
  PROVE  Streamed(r, e, k2, p, n)
BY DEF Streamed

\* replicationFeedSlaves, for one replica: the command is a write, or a
\* FLUSHALL that may also kill the child and save the empty dataset.
FedAs(c, l, b, e) ==
    e = IF c.st \notin {"none", "start"} /\ ~c.asap THEN FeedClient(c, Len(l) + 1, b)
        ELSE [c EXCEPT !.missed = @ \/ c.asap]

SameChild(k, k2) ==
    k2.type = k.type /\ k2.snap = k.snap /\ (k2.st = "ok" <=> k.st = "ok")

FileAfter(op, F, F2) ==
    (op = "set" /\ F2 = F) \/ (op = "flush" /\ (F2 = F \/ F2 = {<<>>}))

LEMMA FeedOK ==
  ASSUME NEW l \in Seq(Op), NEW op \in Op, NEW r, NEW c, NEW k, NEW F, NEW p, NEW n,
         ClientOK(r, c, l, k, F, p, n), NEW k2, NEW F2, NEW b \in BOOLEAN, NEW e,
         SameChild(k, k2), FileAfter(op, F, F2), FedAs(c, l, b, e)
  PROVE  /\ ClientOK(r, e, Append(l, op), k2, F2, p, n)
         /\ e.st = c.st
<1> USE DEF SameChild, FileAfter, FedAs
<1> DEFINE m == Append(l, op)
           i == Len(l) + 1
<1>0. c \in Client /\ i \in Nat
  BY DEF ClientOK
<1>1. CASE Idle(c)
  <2>1. e = [c EXCEPT !.missed = FALSE] /\ ~c.missed
    BY <1>1 DEF Idle
  <2>2. e = c
    BY <1>0, <2>1 DEF Client
  <2> QED BY <1>1, <2>2 DEF Idle, ClientOK
<1>2. CASE ~Idle(c) /\ c.asap
  <2>1. /\ e \in Client /\ e.st = c.st /\ e.got = c.got /\ e.data = c.data /\ e.missed
    <3>1. e = [c EXCEPT !.missed = TRUE]
      BY <1>2
    <3> QED BY <1>0, <3>1 DEF Client
  <2>2. \A S : Holds(e, S, m)
    BY <2>1 DEF Holds
  <2> HIDE DEF m
  <2>3. CASE Fed(c, l)
    <3>1. Fed(e, m)
      BY <2>1, <2>2, <2>3 DEF Fed
    <3> QED BY <2>1, <3>1 DEF ClientOK, m
  <2>4. CASE Waits(r, c, l, k, F, p, n)
    <3>1. Streamed(r, e, k2, p, n)
      BY <2>1, <2>4, StreamedSame DEF Waits
    <3>2. Waits(r, e, m, k2, F2, p, n)
      BY <2>1, <2>2, <2>4, <3>1 DEF Waits
    <3> QED BY <2>1, <3>2 DEF ClientOK, m
  <2> QED BY <1>2, <2>1, <2>3, <2>4 DEF ClientOK
<1>3. CASE ~Idle(c) /\ ~c.asap
  <2>1. c.st \notin {"none", "start"}
    BY <1>3 DEF ClientOK, Fed, Waits
  <2>2. e = FeedClient(c, i, b)
    BY <1>3, <2>1
  <2> HIDE DEF i, m
  <2>3. /\ e \in Client /\ e.st = c.st /\ e.off = c.off /\ e.missed = c.missed
        /\ e.got = c.got /\ e.data = c.data /\ e.fd = c.fd
    <3>1. c \in Client /\ i \in Nat /\ e = FeedClient(c, i, b)
      BY <1>0, <2>2 DEF i
    <3>2. e \in Client
      BY <3>1, FeedFields, Z3T(30)
    <3>3. e.st = c.st /\ e.off = c.off /\ e.got = c.got /\ e.data = c.data /\ e.fd = c.fd
      BY <3>1, FeedFields, Z3T(30)
    <3>4. e.missed = c.missed
      BY <3>1 DEF FeedClient, Client
    <3> QED BY <3>2, <3>3, <3>4
  <2>4. ASSUME NEW S, Holds(c, S, l) PROVE Holds(e, S, m)
    <3>1. CASE c.missed
      BY <2>3, <3>1 DEF Holds
    <3>2. CASE ~c.missed
      BY <1>0, <2>2, <2>4, <3>2, FeedHolds DEF i, m
    <3> QED BY <3>1, <3>2
  <2>5. CASE Fed(c, l)
    <3>1. Fed(e, m)
      BY <2>3, <2>4, <2>5 DEF Fed
    <3> QED BY <2>3, <3>1 DEF ClientOK, m
  <2>6. CASE Waits(r, c, l, k, F, p, n)
    <3>1. Streamed(r, e, k2, p, n)
      BY <2>3, <2>6, StreamedSame DEF Waits
    <3>2. Holds(c, Coming(k, F), l) /\ k.type # "none" /\ c.st = "end"
      BY <2>6 DEF Waits
    <3>3. Holds(e, Coming(k2, F2), m)
      <4>1. CASE op = "set" /\ F2 = F
        <5>1. Coming(k2, F2) = Coming(k, F)
          BY <4>1 DEF Coming
        <5> QED BY <2>4, <3>2, <5>1
      <4>0. CASE c.missed
        BY <2>3, <4>0 DEF Holds
      <4>2. CASE ~c.missed /\ op = "flush" /\ (F2 = F \/ F2 = {<<>>})
        <5>1. Coming(k, F) # {}
          BY <3>2, <4>2 DEF Holds
        <5>2. Coming(k2, F2) # {}
          BY <4>2, <5>1 DEF Coming
        <5>3. m = Append(l, "flush")
          BY <4>2 DEF m
        <5> DEFINE S == Coming(k, F)
                   T == Coming(k2, F2)
        <5>4. Holds(c, S, l) /\ T # {}
          BY <3>2, <5>2
        <5> HIDE DEF S, T
        <5>5. Holds(e, T, m)
          BY <1>0, <2>2, <4>2, <5>3, <5>4, FlushHolds DEF i
        <5> QED BY <5>5 DEF T
      <4> QED BY <4>0, <4>1, <4>2
    <3>4. Waits(r, e, m, k2, F2, p, n)
      BY <2>3, <3>1, <3>2, <3>3 DEF Waits
    <3> QED BY <2>3, <3>4 DEF ClientOK, m
  <2> QED BY <1>3, <2>5, <2>6 DEF ClientOK
<1> QED BY <1>1, <1>2, <1>3

LEMMA FeedCore ==
  ASSUME SyncInv, NEW op \in Op, replicationFeedSlaves(op),
         child'.type = child.type, child'.snap = child.snap,
         child'.st = "ok" <=> child.st = "ok", child'.st = "running" => child.st = "running",
         ChildOK(child', env.chunks), pipe' = pipe,
         (op = "set" /\ file' = file) \/ (op = "flush" /\ (file' = file \/ file' = {<<>>}))
  PROVE  LogOK' /\ Core(rep', log', child', file', pipe', env.chunks)
<1> DEFINE n == env.chunks
<1>1. log' = Append(log, op) /\ log \in Seq(Op) /\ LogOK
  BY DEF replicationFeedSlaves, SyncInv, LogOK
<1>2. LogOK'
  BY <1>1, LastGrows
<1>3. PICK D \in MayClose(Registering) :
         rep' = [r \in Replicas |->
                   IF r \in Registering
                   THEN [rep[r] EXCEPT !.buf = Append(@, Len(log) + 1), !.asap = r \in D]
                   ELSE [rep[r] EXCEPT !.missed = @ \/ r \in Closing]]
  BY DEF replicationFeedSlaves
<1>5. /\ Core(rep, log, child, file, pipe, n)
      /\ Clients(rep, log, child, file, pipe, n)
  BY DEF SyncInv, Core
<1> HIDE DEF n
<1>6. ASSUME NEW r \in Replicas
      PROVE  /\ ClientOK(r, rep'[r], log', child', file', pipe', n)
             /\ rep'[r].st = rep[r].st
  <2> DEFINE c == rep[r]
             e == rep'[r]
             b == r \in D
             k == child
             k2 == child'
             F == file
             F2 == file'
  <2>1. FedAs(c, log, b, e)
    BY <1>3 DEF Registering, Closing, FeedClient, FedAs
  <2>2. ClientOK(r, c, log, k, F, pipe, n) /\ b \in BOOLEAN
    BY <1>5 DEF Clients
  <2>3. SameChild(k, k2) /\ FileAfter(op, F, F2)
    BY DEF SameChild, FileAfter
  <2> HIDE DEF c, e, b, k, k2, F, F2
  <2>5. /\ ClientOK(r, e, Append(log, op), k2, F2, pipe, n)
        /\ e.st = c.st
    BY <1>1, <2>1, <2>2, <2>3, FeedOK
  <2>6. pipe' = pipe /\ log' = Append(log, op)
    BY <1>1
  <2> QED BY <2>5, <2>6 DEF c, e, k2, F2
<1>7. PipeOK(pipe', child') /\ ConnsWait(rep', pipe')
  <2>1. PipeOK(pipe, child) /\ ConnsWait(rep, pipe)
    BY <1>5 DEF Core
  <2>2. PipeOK(pipe', child')
    BY <2>1 DEF PipeOK
  <2>3. ConnsWait(rep', pipe')
    BY <1>6, <2>1 DEF ConnsWait, PipeOK
  <2> QED BY <2>2, <2>3
<1>9. rep' = [r \in Replicas |-> rep'[r]]
  BY <1>3
<1> QED
  BY <1>2, <1>6, <1>7, <1>9 DEF Core, Clients, n

\* The configuration stays what it was; only what is left of the bounds changes.
EnvSame ==
    /\ EnvOK'
    /\ env'.chunks = env.chunks

LEMMA EnvBudget ==
  ASSUME EnvOK, diskless' = diskless, NEW x \in {"syncs", "drops", "others"},
         NEW v, env' = [env EXCEPT ![x] = v]
  PROVE  EnvSame
<1>1. env = [y \in EnvFields |-> env[y]] /\ x \in EnvFields
  BY DEF EnvOK, EnvFields
<1>2. env' = [y \in EnvFields |-> IF y = x THEN v ELSE env[y]]
  BY <1>1
<1>3. /\ env'.chunks = env.chunks
      /\ env'.modes = env.modes /\ env'.eof = env.eof
  BY <1>2 DEF EnvFields
<1>4. env' = [y \in EnvFields |-> env'[y]]
  BY <1>2
<1> QED BY <1>3, <1>4 DEF EnvSame, EnvOK

LEMMA EnvUnchanged ==
  ASSUME EnvOK, env' = env, diskless' \in env.modes
  PROVE  EnvSame
BY DEF EnvSame, EnvOK

StepOK ==
    /\ LogOK' /\ file' \subseteq Data /\ EnvSame
    /\ Core(rep', log', child', file', pipe', env.chunks)

LEMMA StepIsInv == ASSUME StepOK PROVE SyncInv'
<1>1. env'.chunks = env.chunks /\ EnvOK'
  BY DEF StepOK, EnvSame
<1>2. Core(rep', log', child', file', pipe', env'.chunks)
  BY <1>1 DEF StepOK
<1> QED BY <1>1, <1>2 DEF StepOK, SyncInv

LEMMA InvParts ==
  ASSUME SyncInv
  PROVE  /\ LogOK /\ EnvOK /\ file \subseteq Data /\ diskless \in env.modes
         /\ env.chunks \in Nat \ {0}
         /\ Core(rep, log, child, file, pipe, env.chunks)
         /\ ChildOK(child, env.chunks) /\ PipeOK(pipe, child) /\ ConnsWait(rep, pipe)
         /\ rep = [r \in Replicas |-> rep[r]]
         /\ \A r \in Replicas : ClientOK(r, rep[r], log, child, file, pipe, env.chunks)
BY DEF SyncInv, Core, Clients, EnvOK

\* A killed child is the same child, and does not end well any more.
LEMMA KilledOK ==
  ASSUME NEW n, ChildOK(child, n)
  PROVE  /\ ChildOK(killRDBChild, n) /\ SameChild(child, killRDBChild)
         /\ killRDBChild.st # "running"
<1> DEFINE s == IF child.st = "running" THEN "killed" ELSE child.st
           k == killRDBChild
<1>1. s \in {"none", "ok", "err", "killed"} /\ (s = "ok" <=> child.st = "ok")
  BY DEF ChildOK
<1>2. k = [child EXCEPT !.st = s]
  BY DEF killRDBChild
<1> HIDE DEF s, k
<1>3. /\ k.type = child.type /\ k.snap = child.snap /\ k.st = s /\ k.wrote = child.wrote
      /\ k \in [type : {"none", "disk", "socket"}, snap : Data,
                st : {"none", "running", "ok", "err", "killed"}, wrote : Nat]
  BY <1>1, <1>2 DEF ChildOK
<1>4. ChildOK(k, n) /\ SameChild(child, k) /\ k.st # "running"
  BY <1>1, <1>3 DEF ChildOK, SameChild
<1> QED BY <1>4 DEF k

LEMMA WriteStep == ASSUME SyncInv, Write PROVE StepOK
<1>1. /\ LogOK' /\ Core(rep', log', child', file', pipe', env.chunks)
  BY InvParts, FeedCore DEF Write, Op
<1>2. file' \subseteq Data /\ EnvSame
  BY InvParts, EnvUnchanged DEF Write
<1> QED BY <1>1, <1>2 DEF StepOK

LEMMA FlushAllStep == ASSUME SyncInv, FlushAll PROVE StepOK
<1>1. /\ replicationFeedSlaves("flush") /\ child' = killRDBChild /\ pipe' = pipe
      /\ file' = file \/ file' = {<<>>}
      /\ env' = env /\ diskless' = diskless
  BY DEF FlushAll
<1>2. /\ ChildOK(child', env.chunks) /\ SameChild(child, child') /\ child'.st # "running"
  BY <1>1, InvParts, KilledOK
<1>3. LogOK' /\ Core(rep', log', child', file', pipe', env.chunks)
  BY <1>1, <1>2, FeedCore DEF Op, SameChild
<1>4. file' \subseteq Data
  <2>1. <<>> \in Data
    BY EmptySeq DEF Data
  <2> QED BY <1>1, <2>1, InvParts
<1>5. EnvSame
  BY <1>1, InvParts, EnvUnchanged
<1> QED BY <1>3, <1>4, <1>5 DEF StepOK

-----------------------------------------------------------------------------
(* Children.                                                                   *)

\* While nobody waits for it, the child and the file are nobody's business.
LEMMA NobodyWaits ==
  ASSUME SyncInv, NEW k, NEW F, \A r \in Replicas : RestOK(rep[r], log),
         ChildOK(k, env.chunks), PipeOK(pipe, k)
  PROVE  Core(rep, log, k, F, pipe, env.chunks)
<1>1. \A r \in Replicas : /\ rep[r].st # "end"
                          /\ ClientOK(r, rep[r], log, k, F, pipe, env.chunks)
  BY RestIsOK
<1> QED BY <1>1, InvParts DEF Core, Clients

LEMMA BgsaveStep == ASSUME SyncInv, Bgsave PROVE StepOK
<1>1. child.type = "none"
  BY DEF Bgsave, hasActiveChildProcess
<1>2. \A r \in Replicas : RestOK(rep[r], log)
  BY <1>1, AllRest
<1>3. ~pipe.open
  BY <1>1, AllRest
<1>4. ChildOK(child', env.chunks) /\ child'.type = "disk"
  BY InvParts, DatasetIsData DEF Bgsave, ChildOK
<1>5. PipeOK(pipe, child')
  BY <1>3, <1>4, InvParts DEF PipeOK
<1>6. Core(rep, log, child', file, pipe, env.chunks)
  BY <1>2, <1>4, <1>5, NobodyWaits
<1>7. LogOK' /\ EnvSame /\ file' \subseteq Data
  BY InvParts, EnvUnchanged DEF Bgsave, LogOK
<1> QED BY <1>6, <1>7 DEF StepOK, Bgsave

LEMMA SaveStep == ASSUME SyncInv, saveCommand PROVE StepOK
<1>1. \A r \in Replicas : RestOK(rep[r], log)
  BY AllRest DEF saveCommand
<1>2. Core(rep, log, child, file', pipe, env.chunks)
  BY <1>1, InvParts, NobodyWaits
<1>3. LogOK' /\ EnvSame /\ file' \subseteq Data
  BY InvParts, EnvUnchanged, DatasetIsData DEF saveCommand, LogOK
<1> QED BY <1>2, <1>3 DEF StepOK, saveCommand

LEMMA OtherSteps ==
  ASSUME SyncInv, OtherFork \/ OtherDone \/ ConfigSetDiskless
  PROVE  StepOK
<1>1. UNCHANGED <<log, rep, child, pipe, file>>
  BY DEF OtherFork, OtherDone, ConfigSetDiskless
<1>2. EnvSame
  <2>1. CASE OtherFork
    BY <2>1, InvParts, EnvBudget DEF OtherFork
  <2>2. CASE OtherDone \/ ConfigSetDiskless
    BY <2>2, InvParts, EnvUnchanged DEF OtherDone, ConfigSetDiskless
  <2> QED BY <2>1, <2>2
<1>3. LogOK'
  BY <1>1, InvParts DEF LogOK
<1> QED BY <1>1, <1>2, <1>3, InvParts DEF StepOK

\* The child makes progress, or fails, before it has ended well.
LEMMA ChildChange ==
  ASSUME SyncInv, NEW k, NEW F, ChildOK(k, env.chunks), PipeOK(pipe, k),
         k.type = child.type, k.snap = child.snap, child.st = "running",
         k.st = "ok" => (k.type = "disk" => F = {k.snap}) /\ (k.type = "socket" => pipe.open)
  PROVE  Core(rep, log, k, F, pipe, env.chunks)
<1> DEFINE n == env.chunks
<1> HIDE DEF n
<1>1. ASSUME NEW r \in Replicas
      PROVE  ClientOK(r, rep[r], log, k, F, pipe, n)
  <2> DEFINE c == rep[r]
             p == pipe
  <2>1. ClientOK(r, c, log, child, file, p, n)
    BY InvParts DEF n
  <2>2. CASE c.st # "end"
    BY <2>1, <2>2, OKIsRest, RestIsOK
  <2>3. CASE c.st = "end"
    <3>1. c \in Client /\ Waits(r, c, log, child, file, p, n)
      BY <2>1, <2>3 DEF ClientOK, Idle, Fed
    <3>2. Coming(child, file) = {child.snap}
      BY DEF Coming
    <3>3. Coming(k, F) = {child.snap}
      BY DEF Coming
    <3>4. Streamed(r, c, k, p, n)
      BY <3>1 DEF Waits, Streamed
    <3> HIDE DEF c, p
    <3>5. Waits(r, c, log, k, F, p, n)
      BY <3>1, <3>2, <3>3, <3>4 DEF Waits
    <3> QED BY <3>1, <3>5 DEF ClientOK, c, p
  <2> QED BY <2>2, <2>3
<1> QED BY <1>1, InvParts DEF Core, Clients, n

LEMMA ChildSteps ==
  ASSUME SyncInv, ChildWrites \/ ChildEnds \/ ChildFails
  PROVE  StepOK
<1> DEFINE k == child'
           ChildSet == [type : {"none", "disk", "socket"}, snap : Data,
                        st : {"none", "running", "ok", "err", "killed"}, wrote : Nat]
<1>1. child \in ChildSet /\ child.st = "running"
  BY InvParts DEF ChildOK, ChildWrites, ChildEnds, ChildFails
<1>2. UNCHANGED <<log, rep, pipe>>
  BY DEF ChildWrites, ChildEnds, ChildFails
<1>3. /\ k \in ChildSet /\ k.type = child.type /\ k.snap = child.snap
      /\ k.st = "ok" => /\ k.type = "socket" => k.wrote = env.chunks
                        /\ k.type = "disk" => file' = {k.snap}
  <2>1. CASE ChildWrites
    <3> DEFINE w == child.wrote + 1
    <3>1. w \in Nat /\ k = [child EXCEPT !.wrote = w]
      BY <1>1, <2>1 DEF ChildWrites
    <3> HIDE DEF w, k
    <3> QED BY <1>1, <3>1
  <2>2. CASE ChildEnds
    <3>1. k = [child EXCEPT !.st = "ok"] /\ (child.type = "socket" => child.wrote = env.chunks)
          /\ file' = IF child.type = "disk" THEN {child.snap} ELSE file
      BY <2>2 DEF ChildEnds
    <3> HIDE DEF k
    <3> QED BY <1>1, <3>1
  <2>3. CASE ChildFails
    <3>1. k = [child EXCEPT !.st = "err"]
      BY <2>3 DEF ChildFails
    <3> HIDE DEF k
    <3> QED BY <1>1, <3>1
  <2> QED BY <2>1, <2>2, <2>3
<1>4. file' \subseteq Data
  <2>1. file' = file \/ file' = {child.snap}
    BY DEF ChildWrites, ChildEnds, ChildFails
  <2> QED BY <1>1, <2>1, InvParts
<1> HIDE DEF k
<1>5. ChildOK(k, env.chunks)
  BY <1>3 DEF ChildOK
<1>6. PipeOK(pipe, k) /\ (k.type = "socket" => pipe.open)
  BY <1>1, <1>3, InvParts DEF PipeOK
<1>7. Core(rep, log, k, file', pipe, env.chunks)
  BY <1>1, <1>3, <1>5, <1>6, ChildChange
<1>8. LogOK'
  BY <1>2, InvParts DEF LogOK
<1>9. EnvSame
  <2>1. CASE ChildFails
    BY <2>1, InvParts, EnvBudget DEF ChildFails
  <2>2. CASE ChildWrites \/ ChildEnds
    BY <2>2, InvParts, EnvUnchanged DEF ChildWrites, ChildEnds
  <2> QED BY <2>1, <2>2
<1> QED BY <1>2, <1>4, <1>7, <1>8, <1>9 DEF StepOK, k

\* The child is collected.
LEMMA DoneStep == ASSUME SyncInv, checkChildrenDone PROVE StepOK
<1>1. /\ ~pipe.open /\ updateSlavesWaitingBgsave(rep, slaves, child, TRUE)
      /\ UNCHANGED <<log, file, diskless, env>>
  BY DEF checkChildrenDone
<1>2. \A F : Core(rep', log, child', F, pipe', env.chunks)
  <2> DEFINE reader == TRUE
  <2>1. reader \in BOOLEAN /\ updateSlavesWaitingBgsave(rep, slaves, child, reader)
    BY <1>1
  <2> HIDE DEF reader
  <2> QED BY <1>1, <2>1, InvParts, UpdateOK
<1>3. LogOK' /\ EnvSame /\ file' \subseteq Data
  BY <1>1, InvParts, EnvUnchanged DEF LogOK
<1> QED BY <1>1, <1>2, <1>3 DEF StepOK

\* The pipe has been drained.
LEMMA CleanupStep == ASSUME SyncInv, RdbPipeCleanup PROVE StepOK
<1> DEFINE n == env.chunks
<1>1. /\ pipe.open /\ pipe.reader /\ pipe.read = child.wrote /\ child.st # "running"
      /\ pipe' = NoPipe /\ UNCHANGED <<log, rep, child, file, diskless, env>>
  BY DEF RdbPipeCleanup
<1>2. child.type = "socket" /\ pipe.writing = {} /\ (child.st = "ok" => child.wrote = n)
  BY <1>1, InvParts DEF PipeOK, ChildOK
<1> HIDE DEF n
<1>3. ASSUME NEW r \in Replicas
      PROVE  ClientOK(r, rep[r], log, child, file, NoPipe, n)
  <2> DEFINE c == rep[r]
  <2>1. ClientOK(r, c, log, child, file, pipe, n)
    BY InvParts DEF n
  <2>2. CASE c.st # "end"
    BY <2>1, <2>2, OKIsRest, RestIsOK
  <2>3. CASE c.st = "end"
    <3>1. c \in Client /\ Waits(r, c, log, child, file, pipe, n)
      BY <2>1, <2>3 DEF ClientOK, Idle, Fed
    <3>2. c.got = pipe.read /\ c.data = IF c.got = n THEN {child.snap} ELSE {}
      BY <1>1, <1>2, <3>1 DEF Waits, Streamed
    <3>3. Streamed(r, c, child, NoPipe, n)
      BY <1>1, <1>2, <3>2 DEF Streamed, NoPipe
    <3> HIDE DEF c
    <3>4. Waits(r, c, log, child, file, NoPipe, n)
      BY <3>1, <3>3 DEF Waits
    <3> QED BY <3>1, <3>4 DEF ClientOK, c
  <2> QED BY <2>2, <2>3
<1>4. PipeOK(NoPipe, child) /\ ConnsWait(rep, NoPipe)
  BY <1>1 DEF PipeOK, NoPipe, ConnsWait
<1>5. Core(rep, log, child, file, NoPipe, n)
  BY <1>3, <1>4, InvParts DEF Core, Clients, n
<1>6. LogOK' /\ EnvSame /\ file' \subseteq Data
  BY <1>1, InvParts, EnvUnchanged DEF LogOK
<1> QED BY <1>1, <1>5, <1>6 DEF StepOK, n

-----------------------------------------------------------------------------
(* Replicas that go away, and the pipe.                                        *)

LEMMA FreedFields ==
  ASSUME NEW R, NEW D
  PROVE  /\ Freed(R, D) = [r \in Replicas |-> Freed(R, D)[r]]
         /\ \A r \in Replicas : /\ r \in D => Freed(R, D)[r] = NoClient
                                /\ r \notin D => Freed(R, D)[r] = R[r]
BY DEF Freed

\* The replicas D go away; p is the pipe without them.
LEMMA FreedCore ==
  ASSUME SyncInv, NEW D, NEW p, PipeOK(p, child),
         p.open = pipe.open, p.read = pipe.read, p.conns = pipe.conns \ D,
         p.writing = pipe.writing \ D
  PROVE  Core(Freed(rep, D), log, child, file, p, env.chunks)
<1> DEFINE n == env.chunks
           R == Freed(rep, D)
<1>1. \A r \in Replicas : /\ r \in D => R[r] = NoClient
                          /\ r \notin D => R[r] = rep[r]
  BY FreedFields
<1>2. R = [r \in Replicas |-> R[r]]
  BY FreedFields
<1>5. ConnsWait(R, p)
  <2>1. ConnsWait(rep, pipe) /\ pipe.conns \subseteq Replicas
    BY InvParts DEF PipeOK
  <2> HIDE DEF R
  <2> QED BY <1>1, <2>1 DEF ConnsWait
<1> HIDE DEF R, n
<1>6. ASSUME NEW r \in Replicas PROVE ClientOK(r, R[r], log, child, file, p, n)
  <2>1. CASE r \in D
    BY <1>1, <2>1, RestNoClient, RestIsOK
  <2>2. CASE r \notin D
    <3> DEFINE c == rep[r]
    <3>1. ClientOK(r, c, log, child, file, pipe, n) /\ R[r] = c
      BY <1>1, <2>2, InvParts DEF n
    <3>2. CASE c.st # "end"
      BY <3>1, <3>2, OKIsRest, RestIsOK
    <3>3. CASE c.st = "end"
      <4>1. c \in Client /\ Waits(r, c, log, child, file, pipe, n)
        BY <3>1, <3>3 DEF ClientOK, Idle, Fed
      <4> HIDE DEF c
      <4>2. Streamed(r, c, child, p, n)
        BY <2>2, <4>1 DEF Waits, Streamed
      <4>3. Waits(r, c, log, child, file, p, n)
        BY <4>1, <4>2 DEF Waits
      <4> QED BY <3>1, <4>1, <4>3 DEF ClientOK
    <3> QED BY <3>2, <3>3
  <2> QED BY <2>1, <2>2
<1> QED BY <1>2, <1>5, <1>6, InvParts DEF Core, Clients, R, n

LEMMA PipeWithoutOK ==
  ASSUME SyncInv, NEW D
  PROVE  /\ PipeOK(PipeWithout(D), child)
         /\ PipeWithout(D).open = pipe.open /\ PipeWithout(D).read = pipe.read
         /\ PipeWithout(D).conns = pipe.conns \ D
         /\ PipeWithout(D).writing = pipe.writing \ D
<1> DEFINE out == D \intersect InState(rep, {"end"})
           p == PipeWithout(D)
           cs == pipe.conns \ out
           ws == pipe.writing \ out
           rd == pipe.reader \/ (pipe.writing # {} /\ pipe.writing \subseteq out)
           PipeSet == [open : BOOLEAN, conns : SUBSET Replicas, writing : SUBSET Replicas,
                       reader : BOOLEAN, read : Nat, deleted : BOOLEAN]
<1>1. /\ pipe \in PipeSet /\ pipe.writing \subseteq pipe.conns
      /\ ConnsWait(rep, pipe) /\ (pipe.reader => pipe.writing = {})
      /\ (~pipe.open => pipe.conns = {}) /\ (pipe.open => child.type = "socket")
      /\ (child.type = "socket" /\ child.st = "running" => pipe.open)
  BY InvParts DEF PipeOK
<1>2. pipe.conns \subseteq InState(rep, {"end"})
  BY <1>1 DEF ConnsWait, InState
<1>3. cs = pipe.conns \ D /\ ws = pipe.writing \ D
  BY <1>1, <1>2
<1>4. /\ cs \in SUBSET Replicas /\ ws \in SUBSET Replicas /\ ws \subseteq cs
      /\ rd \in BOOLEAN /\ (rd => ws = {}) /\ (pipe.conns = {} => cs = {})
  BY <1>1
<1>5. p = [pipe EXCEPT !.conns = cs, !.writing = ws, !.reader = rd]
  BY DEF PipeWithout
<1> HIDE DEF p, cs, ws, rd
<1>6. /\ p \in PipeSet /\ p.open = pipe.open /\ p.read = pipe.read /\ p.conns = cs
      /\ p.writing = ws /\ p.reader = rd
  BY <1>1, <1>4, <1>5
<1>7. PipeOK(p, child)
  BY <1>1, <1>4, <1>6 DEF PipeOK
<1> QED BY <1>3, <1>6, <1>7 DEF p

LEMMA DropSteps ==
  ASSUME SyncInv, beforeSleep \/ \E r \in Replicas : DropReplica(r)
  PROVE  StepOK
<1>1. PICK D : rep' = Freed(rep, D) /\ pipe' = PipeWithout(D)
  BY DEF beforeSleep, DropReplica
<1>2. UNCHANGED <<log, child, file, diskless>>
  BY DEF beforeSleep, DropReplica
<1>3. Core(Freed(rep, D), log, child, file, PipeWithout(D), env.chunks)
  BY PipeWithoutOK, FreedCore
<1>4. EnvSame
  <2>1. CASE beforeSleep
    BY <2>1, InvParts, EnvUnchanged DEF beforeSleep
  <2>2. CASE \E r \in Replicas : DropReplica(r)
    BY <2>2, InvParts, EnvBudget DEF DropReplica
  <2> QED BY <2>1, <2>2
<1>5. LogOK' /\ file' \subseteq Data
  BY <1>2, InvParts DEF LogOK
<1> QED BY <1>1, <1>2, <1>3, <1>4, <1>5 DEF StepOK

\* The last replica of a transfer goes away.
LEMMA LastGoneStep == ASSUME SyncInv, LastReplicaGone PROVE StepOK
<1> DEFINE D == pipe.conns
           R == Freed(rep, D)
           C == killRDBChild
<1>1. /\ pipe.open /\ UNCHANGED <<log, file, diskless>>
      /\ env' = [env EXCEPT !.drops = @ - Cardinality(D)]
      /\ \/ rep' = R /\ child' = C /\ pipe' = NoPipe
         \/ updateSlavesWaitingBgsave(R, Listed(slaves, D), C, FALSE)
  BY DEF LastReplicaGone, CanReadPipe
<1>2. child.type = "socket"
  BY <1>1, InvParts DEF PipeOK
<1>3. ASSUME NEW r \in Replicas PROVE RestOK(R[r], log)
  <2>1. CASE r \in D
    BY <2>1, FreedFields, RestNoClient
  <2>2. CASE r \notin D
    <3> DEFINE c == rep[r]
    <3>1. ClientOK(r, c, log, child, file, pipe, env.chunks)
      BY InvParts
    <3>2. R[r] = c
      BY <2>2, FreedFields
    <3>3. c.st # "end"
      BY <1>1, <1>2, <2>2, <3>1 DEF ClientOK, Idle, Fed, Waits, Streamed
    <3> QED BY <3>1, <3>2, <3>3, OKIsRest
  <2> QED BY <2>1, <2>2
<1>4. ChildOK(C, env.chunks) /\ C.st # "running"
  BY InvParts, KilledOK
<1>5. R = [r \in Replicas |-> R[r]]
  BY FreedFields
<1>6. PipeOK(NoPipe, C) /\ ~NoPipe.open
  BY <1>4 DEF PipeOK, NoPipe
<1> DEFINE L == Listed(slaves, D)
<1> HIDE DEF R, C, L
<1>7. \A F : Core(R, log, C, F, NoPipe, env.chunks)
  <2> SUFFICES ASSUME NEW F PROVE Core(R, log, C, F, NoPipe, env.chunks)
    OBVIOUS
  <2>1. \A r \in Replicas : R[r].st # "end" /\ ClientOK(r, R[r], log, C, F, NoPipe, env.chunks)
    BY <1>3, RestIsOK
  <2>2. ConnsWait(R, NoPipe)
    BY DEF ConnsWait, NoPipe
  <2> QED BY <1>3, <1>4, <1>5, <1>6, <2>1, <2>2 DEF Core, Clients
<1>8. Core(rep', log, child', file, pipe', env.chunks)
  <2>1. CASE rep' = R /\ child' = C /\ pipe' = NoPipe
    BY <1>7, <2>1
  <2>2. CASE updateSlavesWaitingBgsave(R, L, C, FALSE)
    <3> DEFINE reader == FALSE
               p == NoPipe
    <3>1. reader \in BOOLEAN /\ updateSlavesWaitingBgsave(R, L, C, reader)
      BY <2>2
    <3>2. Core(R, log, C, file, p, env.chunks) /\ ~p.open
      BY <1>6, <1>7
    <3> HIDE DEF reader, p
    <3> QED BY <3>1, <3>2, InvParts, UpdateOK
  <2> QED BY <1>1, <2>1, <2>2 DEF L
<1>9. EnvSame
  BY <1>1, InvParts, EnvBudget
<1>10. LogOK' /\ file' \subseteq Data
  BY <1>1, InvParts DEF LogOK
<1> QED BY <1>1, <1>8, <1>9, <1>10 DEF StepOK

\* The read of the pipe fails.
LEMMA PipeErrorStep == ASSUME SyncInv, PipeReadError PROVE StepOK
<1> DEFINE D == pipe.conns
           R == Freed(rep, D)
           C == killRDBChild
           p == pipe'
           PipeSet == [open : BOOLEAN, conns : SUBSET Replicas, writing : SUBSET Replicas,
                       reader : BOOLEAN, read : Nat, deleted : BOOLEAN]
<1>1. /\ pipe.open /\ pipe.reader /\ UNCHANGED <<log, file, diskless>>
      /\ env' = [env EXCEPT !.drops = @ - 1]
      /\ rep' = R /\ child' = C /\ p = [pipe EXCEPT !.conns = {}]
  BY DEF PipeReadError
<1>2. child.type = "socket" /\ pipe \in PipeSet /\ pipe.writing = {}
  BY <1>1, InvParts DEF PipeOK
<1>3. ASSUME NEW r \in Replicas PROVE RestOK(R[r], log)
  <2>1. CASE r \in D
    BY <2>1, FreedFields, RestNoClient
  <2>2. CASE r \notin D
    <3> DEFINE c == rep[r]
    <3>1. ClientOK(r, c, log, child, file, pipe, env.chunks)
      BY InvParts
    <3>2. R[r] = c
      BY <2>2, FreedFields
    <3>3. c.st # "end"
      BY <1>1, <1>2, <2>2, <3>1 DEF ClientOK, Idle, Fed, Waits, Streamed
    <3> QED BY <3>1, <3>2, <3>3, OKIsRest
  <2> QED BY <2>1, <2>2
<1>4. ChildOK(C, env.chunks) /\ SameChild(child, C)
  BY InvParts, KilledOK
<1>5. R = [r \in Replicas |-> R[r]]
  BY FreedFields
<1>6. PipeOK(p, C) /\ p.conns = {}
  <2> HIDE DEF p, C
  <2>1. p \in PipeSet /\ p.open = pipe.open /\ p.conns = {} /\ p.writing = {}
    BY <1>1, <1>2
  <2> QED BY <1>1, <1>2, <1>4, <2>1 DEF PipeOK, SameChild
<1> HIDE DEF R, C, p
<1>7. Core(R, log, C, file, p, env.chunks)
  <2>1. \A r \in Replicas : ClientOK(r, R[r], log, C, file, p, env.chunks)
    BY <1>3, RestIsOK
  <2>2. ConnsWait(R, p)
    BY <1>6 DEF ConnsWait
  <2> QED BY <1>4, <1>5, <1>6, <2>1, <2>2 DEF Core, Clients
<1>8. EnvSame
  BY <1>1, InvParts, EnvBudget
<1>9. LogOK' /\ file' \subseteq Data
  BY <1>1, InvParts DEF LogOK
<1> QED BY <1>1, <1>7, <1>8, <1>9 DEF StepOK, p

\* A chunk reaches one replica.
GotChunk(c, n, s) == [c EXCEPT !.got = @ + 1, !.data = IF c.got + 1 = n THEN {s} ELSE {}]

LEMMA DeliverFields ==
  ASSUME NEW c \in Client, NEW n, NEW s \in Data, NEW e, e = GotChunk(c, n, s)
  PROVE  /\ e \in Client /\ e.st = c.st /\ e.off = c.off /\ e.buf = c.buf /\ e.missed = c.missed
         /\ e.got = c.got + 1 /\ e.data = IF e.got = n THEN {s} ELSE {}
<1> DEFINE g == c.got + 1
           v == IF g = n THEN {s} ELSE {}
<1>1. g \in Nat /\ v \in SUBSET Data /\ e = [c EXCEPT !.got = g, !.data = v]
  BY DEF Client, GotChunk
<1> HIDE DEF g, v
<1>2. /\ e \in Client /\ e.st = c.st /\ e.off = c.off /\ e.buf = c.buf /\ e.missed = c.missed
      /\ e.got = g /\ e.data = v
  BY <1>1 DEF Client
<1> QED BY <1>2 DEF g, v

\* A replica of the transfer keeps what it waits for when the pipe moves on.
LEMMA MovedOK ==
  ASSUME NEW r, NEW c, NEW e, NEW l, NEW k, NEW F, NEW p, NEW p2, NEW n,
         ClientOK(r, c, l, k, F, p, n), c.st = "end", k.type = "socket",
         e \in Client, e.st = c.st, e.off = c.off, e.buf = c.buf, e.missed = c.missed,
         e.data = IF e.got = n THEN {k.snap} ELSE {},
         p2.open, r \in p2.conns,
         IF r \in p2.writing THEN e.got + 1 = p2.read ELSE e.got = p2.read
  PROVE  ClientOK(r, e, l, k, F, p2, n)
<1>1. Holds(c, Coming(k, F), l)
  BY DEF ClientOK, Idle, Fed, Waits
<1>2. Holds(e, Coming(k, F), l)
  BY <1>1 DEF Holds
<1>3. Streamed(r, e, k, p2, n)
  BY DEF Streamed
<1> QED BY <1>2, <1>3 DEF ClientOK, Waits

\* What a replica of an open transfer has got.
LEMMA TransferFacts ==
  ASSUME SyncInv, pipe.open, NEW r \in Replicas, rep[r].st = "end"
  PROVE  /\ rep[r] \in Client /\ r \in pipe.conns
         /\ rep[r].data = IF rep[r].got = env.chunks THEN {child.snap} ELSE {}
         /\ r \in pipe.writing => rep[r].got + 1 = pipe.read
         /\ r \notin pipe.writing => rep[r].got = pipe.read
<1> DEFINE c == rep[r]
           n == env.chunks
<1>1. ClientOK(r, c, log, child, file, pipe, n) /\ child.type = "socket"
  BY InvParts DEF PipeOK
<1> HIDE DEF c, n
<1>2. c.st = "end"
  BY DEF c
<1>3. c \in Client /\ Streamed(r, c, child, pipe, n)
  BY <1>1, <1>2 DEF ClientOK, Idle, Fed, Waits
<1>4. /\ c \in Client /\ r \in pipe.conns
      /\ c.data = IF c.got = n THEN {child.snap} ELSE {}
      /\ r \in pipe.writing => c.got + 1 = pipe.read
      /\ r \notin pipe.writing => c.got = pipe.read
  BY <1>1, <1>3 DEF Streamed
<1> QED BY <1>4 DEF c, n

\* The pipe p2 after the chunk has been given to some of its replicas.
LEMMA MovedCore ==
  ASSUME SyncInv, pipe.open, NEW R, NEW p2, R = [r \in Replicas |-> R[r]],
         PipeOK(p2, child), p2.open, p2.conns \subseteq pipe.conns,
         \A r \in Replicas : rep[r].st # "end" => R[r] = rep[r],
         \A r \in Replicas : rep[r].st = "end" /\ r \notin p2.conns => R[r] = NoClient,
         \A r \in p2.conns :
            /\ R[r] \in Client /\ R[r].st = rep[r].st /\ R[r].off = rep[r].off
            /\ R[r].buf = rep[r].buf /\ R[r].missed = rep[r].missed
            /\ R[r].data = IF R[r].got = env.chunks THEN {child.snap} ELSE {}
            /\ IF r \in p2.writing THEN R[r].got + 1 = p2.read ELSE R[r].got = p2.read
  PROVE  Core(R, log, child, file, p2, env.chunks)
<1> DEFINE n == env.chunks
<1>1. child.type = "socket" /\ pipe.conns \subseteq Replicas
  BY InvParts DEF PipeOK
<1>2. /\ ChildOK(child, n)
      /\ \A r \in pipe.conns : rep[r].st = "end"
      /\ \A r \in Replicas : ClientOK(r, rep[r], log, child, file, pipe, n)
  BY InvParts DEF ConnsWait
<1> HIDE DEF n
<1>3. ASSUME NEW r \in Replicas
      PROVE  ClientOK(r, R[r], log, child, file, p2, n)
  <2>1. CASE rep[r].st # "end"
    BY <1>2, <2>1, OKIsRest, RestIsOK
  <2>2. CASE rep[r].st = "end" /\ r \notin p2.conns
    <3>1. R[r] = NoClient
      BY <2>2
    <3>2. ClientOK(r, NoClient, log, child, file, p2, n)
      BY RestNoClient, RestIsOK
    <3> QED BY <3>1, <3>2
  <2>3. CASE r \in p2.conns
    <3> DEFINE c == rep[r]
               e == R[r]
    <3>1. /\ ClientOK(r, c, log, child, file, pipe, n) /\ c.st = "end"
      BY <1>2, <2>3
    <3>2. /\ e \in Client /\ e.st = c.st /\ e.off = c.off
          /\ e.buf = c.buf /\ e.missed = c.missed
          /\ e.data = IF e.got = n THEN {child.snap} ELSE {}
          /\ IF r \in p2.writing THEN e.got + 1 = p2.read ELSE e.got = p2.read
      BY <2>3 DEF n
    <3> HIDE DEF c, e
    <3>3. ClientOK(r, e, log, child, file, p2, n)
      BY <1>1, <2>3, <3>1, <3>2, MovedOK
    <3> QED BY <3>3 DEF e
  <2> QED BY <2>1, <2>2, <2>3
<1>4. ConnsWait(R, p2)
  BY <1>2 DEF ConnsWait
<1> QED BY <1>2, <1>3, <1>4 DEF Core, Clients, n

\* rdbPipeReadHandler.
LEMMA PipeReadStep == ASSUME SyncInv, rdbPipeReadHandler PROVE StepOK
<1>1. PICK D \in SUBSET pipe.conns : \E B \in SUBSET (pipe.conns \ D) :
        /\ env' = [env EXCEPT !.drops = @ - Cardinality(D)]
        /\ rep' = Deliver(Freed(rep, D), pipe.conns \ (D \union B))
        /\ pipe' = [pipe EXCEPT !.conns = @ \ D, !.writing = B,
                                !.reader = ReadsOn(B), !.read = @ + 1]
  BY DEF rdbPipeReadHandler
<1>2. PICK B \in SUBSET (pipe.conns \ D) :
        /\ env' = [env EXCEPT !.drops = @ - Cardinality(D)]
        /\ rep' = Deliver(Freed(rep, D), pipe.conns \ (D \union B))
        /\ pipe' = [pipe EXCEPT !.conns = @ \ D, !.writing = B,
                                !.reader = ReadsOn(B), !.read = @ + 1]
  BY <1>1
<1>3. pipe.open /\ pipe.reader /\ UNCHANGED <<log, child, file, diskless>>
  BY DEF rdbPipeReadHandler, CanReadPipe
<1>4. /\ child.type = "socket" /\ pipe.writing = {} /\ pipe.conns \subseteq Replicas
      /\ child.snap \in Data /\ \A r \in pipe.conns : rep[r].st = "end"
  BY <1>3, InvParts DEF PipeOK, ChildOK, ConnsWait
<1> DEFINE p2 == pipe'
           R == rep'
           cs == pipe.conns \ D
           rd == B = {}
           g == pipe.read + 1
           PipeSet == [open : BOOLEAN, conns : SUBSET Replicas, writing : SUBSET Replicas,
                       reader : BOOLEAN, read : Nat, deleted : BOOLEAN]
<1>5. pipe \in PipeSet /\ pipe.read \in Nat
  BY InvParts DEF PipeOK
<1>6. /\ p2 \in PipeSet /\ p2.open = pipe.open /\ p2.conns = cs /\ p2.writing = B
      /\ p2.reader = rd /\ p2.read = g
  <2>1. p2 = [pipe EXCEPT !.conns = cs, !.writing = B, !.reader = rd, !.read = g]
    BY <1>2 DEF ReadsOn
  <2>2. /\ cs \in SUBSET Replicas /\ B \in SUBSET Replicas /\ rd \in BOOLEAN /\ g \in Nat
    BY <1>4, <1>5
  <2> HIDE DEF p2, cs, rd, g
  <2> QED BY <1>5, <2>1, <2>2
<1>7. B \subseteq cs /\ cs \subseteq pipe.conns
  OBVIOUS
<1>8. PipeOK(p2, child)
  <2> HIDE DEF p2
  <2> QED BY <1>3, <1>4, <1>6, <1>7 DEF PipeOK
<1>9. /\ R = [r \in Replicas |-> R[r]]
      /\ \A r \in Replicas :
           R[r] = IF r \in pipe.conns \ (D \union B)
                  THEN [Freed(rep, D)[r] EXCEPT
                          !.got = @ + 1,
                          !.data = IF Freed(rep, D)[r].got + 1 = env.chunks
                                   THEN {child.snap} ELSE {}]
                  ELSE Freed(rep, D)[r]
  BY <1>2 DEF Deliver
<1>10. \A r \in Replicas : /\ r \in D => Freed(rep, D)[r] = NoClient
                           /\ r \notin D => Freed(rep, D)[r] = rep[r]
  BY FreedFields
<1> HIDE DEF R, p2
<1>11. \A r \in Replicas : rep[r].st # "end" => R[r] = rep[r]
  BY <1>4, <1>9, <1>10
<1>12. \A r \in Replicas : rep[r].st = "end" /\ r \notin p2.conns => R[r] = NoClient
  <2> SUFFICES ASSUME NEW r \in Replicas, rep[r].st = "end", r \notin cs
               PROVE  R[r] = NoClient
    BY <1>6
  <2>1. r \in pipe.conns
    BY <1>3, TransferFacts
  <2>2. r \in D
    BY <2>1
  <2> QED BY <1>9, <1>10, <2>2
<1>13. ASSUME NEW r \in p2.conns
       PROVE  /\ R[r] \in Client /\ R[r].st = rep[r].st /\ R[r].off = rep[r].off
              /\ R[r].buf = rep[r].buf /\ R[r].missed = rep[r].missed
              /\ R[r].data = IF R[r].got = env.chunks THEN {child.snap} ELSE {}
              /\ IF r \in p2.writing THEN R[r].got + 1 = p2.read ELSE R[r].got = p2.read
  <2> DEFINE c == rep[r]
             e == R[r]
             n == env.chunks
             s == child.snap
  <2>1. r \in pipe.conns /\ r \notin D /\ r \in Replicas
    BY <1>4, <1>6
  <2>2. /\ c \in Client /\ c.data = (IF c.got = n THEN {s} ELSE {})
        /\ c.got = pipe.read
    BY <1>3, <1>4, <2>1, TransferFacts
  <2>3. CASE r \in B
    <3>1. e = c
      BY <1>9, <1>10, <2>1, <2>3
    <3>2. r \in p2.writing /\ c.got + 1 = p2.read
      BY <1>6, <2>2, <2>3
    <3> HIDE DEF c, e
    <3> QED BY <2>2, <3>1, <3>2 DEF c, e
  <2>4. CASE r \notin B
    <3>1. e = GotChunk(c, n, s)
      BY <1>9, <1>10, <2>1, <2>4 DEF GotChunk
    <3>2. s \in Data /\ r \notin p2.writing /\ c.got + 1 = p2.read
      BY <1>4, <1>6, <2>2, <2>4
    <3> HIDE DEF c, e, n, s
    <3>3. /\ e \in Client /\ e.st = c.st /\ e.off = c.off /\ e.buf = c.buf /\ e.missed = c.missed
          /\ e.got = c.got + 1 /\ e.data = IF e.got = n THEN {s} ELSE {}
      BY <2>2, <3>1, <3>2, DeliverFields
    <3> QED BY <3>2, <3>3 DEF c, e, n, s
  <2> QED BY <2>3, <2>4
<1>14. p2.open /\ p2.conns \subseteq pipe.conns
  BY <1>3, <1>6
<1>15. Core(R, log, child, file, p2, env.chunks)
  BY <1>3, <1>8, <1>9, <1>11, <1>12, <1>13, <1>14, MovedCore
<1>16. EnvSame
  BY <1>2, <1>3, InvParts, EnvBudget
<1>17. LogOK' /\ file' \subseteq Data
  BY <1>3, InvParts DEF LogOK
<1> QED BY <1>3, <1>15, <1>16, <1>17 DEF StepOK, R, p2

\* rdbPipeWriteHandler.
LEMMA PipeWriteStep ==
  ASSUME SyncInv, NEW x \in Replicas, rdbPipeWriteHandler(x)
  PROVE  StepOK
<1> DEFINE p2 == pipe'
           R == rep'
           ws == pipe.writing \ {x}
           rd == pipe.writing = {x}
           PipeSet == [open : BOOLEAN, conns : SUBSET Replicas, writing : SUBSET Replicas,
                       reader : BOOLEAN, read : Nat, deleted : BOOLEAN]
<1>1. /\ x \in pipe.writing /\ rep' = Deliver(rep, {x})
      /\ p2 = [pipe EXCEPT !.writing = ws, !.reader = rd]
      /\ UNCHANGED <<log, child, file, diskless, env>>
  BY DEF rdbPipeWriteHandler
<1>2. /\ pipe \in PipeSet /\ pipe.writing \subseteq pipe.conns /\ pipe.open
      /\ pipe.conns \subseteq Replicas /\ child.type = "socket"
      /\ child.snap \in Data /\ \A r \in pipe.conns : rep[r].st = "end"
  BY <1>1, InvParts DEF PipeOK, ChildOK, ConnsWait
<1>3. /\ p2 \in PipeSet /\ p2.open = pipe.open /\ p2.conns = pipe.conns /\ p2.writing = ws
      /\ p2.reader = rd /\ p2.read = pipe.read
  <2>1. ws \in SUBSET Replicas /\ rd \in BOOLEAN
    BY <1>2
  <2> HIDE DEF p2, ws, rd
  <2> QED BY <1>1, <1>2, <2>1
<1>4. PipeOK(p2, child)
  <2>1. ws \subseteq pipe.conns /\ (rd => ws = {})
    BY <1>2
  <2> HIDE DEF p2, ws, rd
  <2> QED BY <1>2, <1>3, <2>1 DEF PipeOK
<1>5. /\ R = [r \in Replicas |-> R[r]]
      /\ \A r \in Replicas :
           R[r] = IF r = x
                  THEN [rep[r] EXCEPT !.got = @ + 1,
                                      !.data = IF rep[r].got + 1 = env.chunks
                                               THEN {child.snap} ELSE {}]
                  ELSE rep[r]
  BY <1>1 DEF Deliver
<1> HIDE DEF R, p2
<1>6. \A r \in Replicas : rep[r].st # "end" => R[r] = rep[r]
  BY <1>1, <1>2, <1>5
<1>7. \A r \in Replicas : rep[r].st = "end" /\ r \notin p2.conns => R[r] = NoClient
  BY <1>2, <1>3, TransferFacts
<1>8. ASSUME NEW r \in p2.conns
      PROVE  /\ R[r] \in Client /\ R[r].st = rep[r].st /\ R[r].off = rep[r].off
             /\ R[r].buf = rep[r].buf /\ R[r].missed = rep[r].missed
             /\ R[r].data = IF R[r].got = env.chunks THEN {child.snap} ELSE {}
             /\ IF r \in p2.writing THEN R[r].got + 1 = p2.read ELSE R[r].got = p2.read
  <2> DEFINE c == rep[r]
             e == R[r]
             n == env.chunks
             s == child.snap
  <2>1. r \in pipe.conns /\ r \in Replicas
    BY <1>2, <1>3
  <2>2. /\ c \in Client /\ c.data = (IF c.got = n THEN {s} ELSE {})
        /\ r \in pipe.writing => c.got + 1 = pipe.read
        /\ r \notin pipe.writing => c.got = pipe.read
    BY <1>2, <2>1, TransferFacts
  <2>3. CASE r # x
    <3>1. e = c /\ (r \in p2.writing <=> r \in pipe.writing) /\ p2.read = pipe.read
      BY <1>3, <1>5, <2>1, <2>3
    <3> HIDE DEF c, e
    <3> QED BY <2>2, <3>1 DEF c, e
  <2>4. CASE r = x
    <3>1. e = GotChunk(c, n, s)
      BY <1>5, <2>1, <2>4 DEF GotChunk
    <3>2. s \in Data /\ r \notin p2.writing /\ c.got + 1 = p2.read
      BY <1>1, <1>2, <1>3, <2>2, <2>4
    <3> HIDE DEF c, e, n, s
    <3>3. /\ e \in Client /\ e.st = c.st /\ e.off = c.off /\ e.buf = c.buf /\ e.missed = c.missed
          /\ e.got = c.got + 1 /\ e.data = IF e.got = n THEN {s} ELSE {}
      BY <2>2, <3>1, <3>2, DeliverFields
    <3> QED BY <3>2, <3>3 DEF c, e, n, s
  <2> QED BY <2>3, <2>4
<1>9. p2.open /\ p2.conns \subseteq pipe.conns
  BY <1>2, <1>3
<1>10. Core(R, log, child, file, p2, env.chunks)
  BY <1>2, <1>4, <1>5, <1>6, <1>7, <1>8, <1>9, MovedCore
<1>11. LogOK' /\ file' \subseteq Data /\ EnvSame
  BY <1>1, InvParts, EnvUnchanged DEF LogOK
<1> QED BY <1>1, <1>10, <1>11 DEF StepOK, R, p2

-----------------------------------------------------------------------------
(* Towards one replica that does not wait for a child.                         *)

LEMMA OneClient ==
  ASSUME SyncInv, NEW x \in Replicas, NEW e, RestOK(e, log),
         rep[x].st # "end", NEW R, R = [r \in Replicas |-> IF r = x THEN e ELSE rep[r]]
  PROVE  Core(R, log, child, file, pipe, env.chunks)
<1> DEFINE n == env.chunks
<1>1. /\ ConnsWait(rep, pipe) /\ pipe.conns \subseteq Replicas
      /\ \A r \in Replicas : ClientOK(r, rep[r], log, child, file, pipe, n)
  BY InvParts DEF PipeOK
<1> HIDE DEF n
<1>2. \A r \in Replicas : (r = x => R[r] = e) /\ (r # x => R[r] = rep[r])
  OBVIOUS
<1>3. R = [r \in Replicas |-> R[r]]
  OBVIOUS
<1>4. e.st # "end" /\ ClientOK(x, e, log, child, file, pipe, n)
  BY RestIsOK
<1>5. \A r \in Replicas : ClientOK(r, R[r], log, child, file, pipe, n)
  BY <1>1, <1>2, <1>4
<1>6. ConnsWait(R, pipe)
  BY <1>1, <1>2 DEF ConnsWait
<1> QED BY <1>3, <1>5, <1>6, InvParts DEF Core, Clients, n

LEMMA BulkStep == ASSUME SyncInv, NEW x \in Replicas, sendBulkToSlave(x) PROVE StepOK
<1> DEFINE c == rep[x]
           e == [c EXCEPT !.st = "online", !.data = c.fd, !.fd = {}]
<1>1. c.st = "bulk" /\ UNCHANGED <<log, child, pipe, file, diskless, env>>
  BY DEF sendBulkToSlave
<1>2. rep' = [r \in Replicas |-> IF r = x THEN e ELSE rep[r]]
  BY InvParts DEF sendBulkToSlave
<1>3. c \in Client /\ Holds(c, c.fd, log)
  BY <1>1, InvParts DEF ClientOK, Idle, Fed, Waits
<1>4. /\ e \in Client /\ e.st = "online" /\ e.data = c.fd /\ e.off = c.off /\ e.buf = c.buf
      /\ e.missed = c.missed
  <2> DEFINE v == c.fd
  <2>1. v \in SUBSET Data /\ e = [c EXCEPT !.st = "online", !.data = v, !.fd = {}]
    BY <1>3 DEF Client
  <2> HIDE DEF v, c, e
  <2>2. /\ e \in Client /\ e.st = "online" /\ e.data = v /\ e.off = c.off /\ e.buf = c.buf
        /\ e.missed = c.missed
    BY <1>3, <2>1 DEF Client
  <2> QED BY <2>2 DEF v
<1> HIDE DEF e
<1>5. Holds(e, e.data, log)
  <2> HIDE DEF c
  <2> QED BY <1>3, <1>4 DEF Holds
<1>6. RestOK(e, log)
  BY <1>4, <1>5 DEF RestOK, Fed
<1>7. Core(rep', log, child, file, pipe, env.chunks)
  BY <1>1, <1>2, <1>4, <1>6, OneClient
<1>8. LogOK' /\ file' \subseteq Data /\ EnvSame
  BY <1>1, InvParts, EnvUnchanged DEF LogOK
<1> QED BY <1>1, <1>7, <1>8 DEF StepOK

LEMMA AckStep == ASSUME SyncInv, NEW x \in Replicas, replconfAck(x) PROVE StepOK
<1> DEFINE c == rep[x]
           e == [c EXCEPT !.ack = FALSE]
<1>1. c.st = "online" /\ UNCHANGED <<log, child, pipe, file, diskless, env>>
  BY DEF replconfAck
<1>2. rep' = [r \in Replicas |-> IF r = x THEN e ELSE rep[r]]
  BY InvParts DEF replconfAck
<1>3. c \in Client /\ Holds(c, c.data, log)
  BY <1>1, InvParts DEF ClientOK, Idle, Fed, Waits
<1>4. /\ e \in Client /\ e.st = c.st /\ e.data = c.data /\ e.off = c.off /\ e.buf = c.buf
      /\ e.missed = c.missed
  <2> HIDE DEF c
  <2> QED BY <1>3 DEF Client
<1> HIDE DEF e
<1>5. Holds(e, e.data, log)
  <2> HIDE DEF c
  <2> QED BY <1>3, <1>4 DEF Holds
<1>6. RestOK(e, log)
  BY <1>1, <1>4, <1>5 DEF RestOK, Fed
<1>7. Core(rep', log, child, file, pipe, env.chunks)
  BY <1>1, <1>2, <1>4, <1>6, OneClient
<1>8. LogOK' /\ file' \subseteq Data /\ EnvSame
  BY <1>1, InvParts, EnvUnchanged DEF LogOK
<1> QED BY <1>1, <1>7, <1>8 DEF StepOK

\* The next command of the buffer is executed on what the replica holds.
LEMMA SentHolds ==
  ASSUME log \in Seq(Op), NEW c, c \in Client, Holds(c, c.data, log), c.buf # <<>>, ~c.missed,
         NEW e, e.off = c.off + 1, e.buf = Tail(c.buf),
         e.data = {Apply(d, Head(c.buf)) : d \in c.data}
  PROVE  Holds(e, e.data, log)
<1> DEFINE a == c.off
           n == Len(log)
<1>1. n \in Nat /\ a \in 0..n /\ c.buf = Span(a, n)
  BY DEF Holds
<1>2. PICK d \in c.data : Exact(d, a, log)
  BY DEF Holds
<1>3. a \in Nat /\ a < n
  <2>1. a # n
    BY <1>1, SpanEmpty
  <2> HIDE DEF a, n
  <2> QED BY <1>1, <2>1
<1> HIDE DEF a, n
<1>4. Head(c.buf) = a + 1 /\ Tail(c.buf) = Span(a + 1, n)
  BY <1>1, <1>3, SpanTail
<1>5. Exact(Apply(d, a + 1), a + 1, log)
  BY <1>2, <1>3, ExactApply DEF Apply, n
<1>6. Apply(d, a + 1) \in e.data
  BY <1>2, <1>4
<1>7. e.off = a + 1 /\ a + 1 \in 0..n
  BY <1>3, <1>1 DEF a
<1> QED BY <1>4, <1>5, <1>6, <1>7 DEF Holds, n

\* A command leaves a dataset.
LEMMA ApplyType ==
  ASSUME NEW d \in Data, NEW i \in Nat
  PROVE  Apply(d, i) \in Data
BY EmptySeq DEF Apply, Data

LEMMA SendStep == ASSUME SyncInv, NEW x \in Replicas, writeToClient(x) PROVE StepOK
<1> DEFINE c == rep[x]
           v == {Apply(d, Head(c.buf)) : d \in c.data}
           t == Tail(c.buf)
           o == c.off + 1
           e == [c EXCEPT !.data = v, !.buf = t, !.off = o]
<1>1. c.st = "online" /\ c.buf # <<>> /\ UNCHANGED <<log, child, pipe, file, diskless, env>>
  BY DEF writeToClient
<1>2. rep' = [r \in Replicas |-> IF r = x THEN e ELSE rep[r]]
  BY InvParts DEF writeToClient
<1>3. c \in Client /\ Holds(c, c.data, log) /\ log \in Seq(Op)
  BY <1>1, InvParts DEF ClientOK, Idle, Fed, Waits, LogOK
<1>4. v \in SUBSET Data /\ t \in Seq(Nat) /\ o \in Nat
  <2>1. c.data \in SUBSET Data /\ c.buf \in Seq(Nat) /\ c.off \in Nat
    BY <1>3 DEF Client
  <2>2. Head(c.buf) \in Nat /\ t \in Seq(Nat)
    <3> DEFINE b == c.buf
    <3>1. b \in Seq(Nat) /\ b # <<>>
      BY <1>1, <2>1
    <3> HIDE DEF b
    <3>2. Head(b) \in Nat /\ Tail(b) \in Seq(Nat)
      BY <3>1
    <3> QED BY <3>2 DEF b
  <2>3. \A d \in c.data : Apply(d, Head(c.buf)) \in Data
    BY <2>1, <2>2, ApplyType
  <2> QED BY <2>1, <2>2, <2>3
<1>5. /\ e \in Client /\ e.st = "online" /\ e.data = v /\ e.off = o /\ e.buf = t
      /\ e.missed = c.missed
  <2> HIDE DEF v, t, o, c
  <2>1. e \in Client
    BY <1>3, <1>4 DEF Client
  <2>2. e.st = c.st /\ e.data = v /\ e.off = o /\ e.buf = t /\ e.missed = c.missed
    BY <1>3 DEF Client
  <2> QED BY <1>1, <2>1, <2>2
<1> HIDE DEF e
<1>6. Holds(e, e.data, log)
  <2>1. CASE c.missed
    BY <1>5, <2>1 DEF Holds
  <2>2. CASE ~c.missed
    <3>1. e.off = c.off + 1 /\ e.buf = Tail(c.buf) /\ e.data = {Apply(d, Head(c.buf)) : d \in c.data}
      BY <1>5
    <3> HIDE DEF c, v, t, o
    <3> QED BY <1>1, <1>3, <2>2, <3>1, SentHolds
  <2> QED BY <2>1, <2>2
<1>7. RestOK(e, log)
  BY <1>5, <1>6 DEF RestOK, Fed
<1>8. Core(rep', log, child, file, pipe, env.chunks)
  BY <1>1, <1>2, <1>5, <1>7, OneClient
<1>9. LogOK' /\ file' \subseteq Data /\ EnvSame
  BY <1>1, InvParts, EnvUnchanged DEF LogOK
<1> QED BY <1>1, <1>8, <1>9 DEF StepOK

-----------------------------------------------------------------------------
(* The steps that start children, and the specification.                      *)

\* A closed pipe does not need a child.
LEMMA ClosedPipe ==
  ASSUME SyncInv, child.type = "none"
  PROVE  PipeOK(pipe, NoChild) /\ ~pipe.open
BY AllRest, InvParts DEF PipeOK, NoChild

\* replicationCron starts a child, or removes a file that nobody needs.
LEMMA CronStep == ASSUME SyncInv, replicationCron PROVE StepOK
<1>1. /\ \/ /\ ~hasActiveChildProcess /\ startBgsaveForReplication(rep, slaves, pipe, TRUE)
         \/ UNCHANGED <<rep, slaves, child, pipe>>
      /\ \/ file' = file
         \/ file' = {} /\ InState(rep', {"start", "end", "bulk"}) = {}
      /\ UNCHANGED <<log, diskless, env>>
  BY DEF replicationCron, CronRemovesFile
<1>2. Core(rep', log, child', file', pipe', env.chunks)
  <2>1. CASE ~hasActiveChildProcess /\ startBgsaveForReplication(rep, slaves, pipe, TRUE)
    <3> DEFINE reader == TRUE
    <3>1. child.type = "none" /\ reader \in BOOLEAN
          /\ startBgsaveForReplication(rep, slaves, pipe, reader)
      BY <2>1 DEF hasActiveChildProcess
    <3>2. \A r \in Replicas : RestOK(rep[r], log)
      BY <3>1, AllRest, InvParts
    <3> HIDE DEF reader
    <3> QED BY <3>1, <3>2, ClosedPipe, InvParts, StartOK
  <2>2. CASE UNCHANGED <<rep, slaves, child, pipe>> /\ file' = file
    BY <2>2, InvParts
  <2>3. CASE /\ UNCHANGED <<rep, slaves, child, pipe>>
             /\ InState(rep', {"start", "end", "bulk"}) = {}
    <3>1. \A r \in Replicas : rep[r].st # "end"
      BY <2>3 DEF InState
    <3>2. \A r \in Replicas : RestOK(rep[r], log)
      BY <3>1, InvParts, OKIsRest
    <3>3. Core(rep, log, child, file', pipe, env.chunks)
      BY <3>2, InvParts, NobodyWaits
    <3> QED BY <2>3, <3>3
  <2> QED BY <1>1, <2>1, <2>2, <2>3
<1>3. file' \subseteq Data
  BY <1>1, InvParts
<1>4. LogOK' /\ EnvSame
  BY <1>1, InvParts, EnvUnchanged DEF LogOK
<1> QED BY <1>1, <1>2, <1>3, <1>4 DEF StepOK

\* A replica joins the child of s: it gets the offset and the buffer of s.
LEMMA AttachCore ==
  ASSUME SyncInv, NEW x \in Replicas, rep[x].st = "none", NEW s \in Replicas,
         rep[s].st = "end", child.type = "disk", NEW F \in MayClose({x}), NEW e,
         e = SetupSlaveForFullResync(
               CopyClientOutputBuffer([NoClient EXCEPT !.st = "start"], s),
               InitialOffset(s), x \in F),
         NEW R, R = [r \in Replicas |-> IF r = x THEN e ELSE rep[r]]
  PROVE  Core(R, log, child, file, pipe, env.chunks)
<1> DEFINE n == env.chunks
           c == rep[s]
           w == [NoClient EXCEPT !.st = "start"]
           f == [w EXCEPT !.buf = c.buf, !.missed = c.missed]
           o == c.off
           b == x \in F
<1>1. /\ ConnsWait(rep, pipe) /\ pipe.conns \subseteq Replicas
      /\ \A r \in Replicas : ClientOK(r, rep[r], log, child, file, pipe, n)
  BY InvParts DEF PipeOK
<1>3. b \in BOOLEAN
  OBVIOUS
<1>4. ClientOK(s, c, log, child, file, pipe, n) /\ c.st = "end"
  BY <1>1
<1> HIDE DEF c
<1>5. c \in Client /\ Holds(c, Coming(child, file), log)
  BY <1>4 DEF ClientOK, Idle, Fed, Waits
<1>6. c.buf \in Seq(Nat) /\ o \in Nat /\ c.missed \in BOOLEAN
  BY <1>5 DEF Client
<1>7. f \in Client /\ f.buf = c.buf /\ f.missed = c.missed
  <2> DEFINE u == c.buf
             v == c.missed
  <2>1. w \in Client /\ u \in Seq(Nat) /\ v \in BOOLEAN
        /\ f = [w EXCEPT !.buf = u, !.missed = v]
    BY <1>6, NewClients
  <2> HIDE DEF u, v, w, f
  <2>2. f \in Client /\ f.buf = u /\ f.missed = v
    BY <2>1 DEF Client
  <2> QED BY <2>2 DEF u, v
<1>8. e = SetupSlaveForFullResync(f, o, b)
  BY DEF CopyClientOutputBuffer, InitialOffset, c
<1> HIDE DEF w, f, o, b, n
<1>9. e \in Client /\ e.st = "end" /\ e.off = o /\ e.missed = f.missed /\ e.buf = f.buf
  BY <1>3, <1>6, <1>7, <1>8, SetupFields
<1>10. Holds(e, Coming(child, file), log)
  BY <1>4, <1>5, <1>7, <1>9 DEF Holds, o
<1>11. Streamed(x, e, child, pipe, n)
  BY DEF Streamed
<1>12. ClientOK(x, e, log, child, file, pipe, n)
  BY <1>9, <1>10, <1>11 DEF ClientOK, Waits
<1>13. \A r \in Replicas : (r = x => R[r] = e) /\ (r # x => R[r] = rep[r])
  OBVIOUS
<1>14. R = [r \in Replicas |-> R[r]]
  OBVIOUS
<1>15. \A r \in Replicas : ClientOK(r, R[r], log, child, file, pipe, n)
  BY <1>1, <1>12, <1>13
<1>16. ConnsWait(R, pipe)
  BY <1>1, <1>9, <1>13 DEF ConnsWait
<1> QED BY <1>14, <1>15, <1>16, InvParts DEF Core, Clients, n

LEMMA SyncStep == ASSUME SyncInv, NEW x \in Replicas, syncCommand(x) PROVE StepOK
<1> DEFINE new == [NoClient EXCEPT !.st = "start"]
           R == [rep EXCEPT ![x] = new]
           L == Append(slaves, x)
<1>1. /\ rep[x].st = "none" /\ env' = [env EXCEPT !.syncs = @ - 1]
      /\ UNCHANGED <<log, file, diskless>>
  BY DEF syncCommand
<1>2. \/ /\ \E s \in Replicas, F \in MayClose({x}) :
              /\ CanAttach(x, s)
              /\ rep' = [R EXCEPT ![x] = SetupSlaveForFullResync(
                           CopyClientOutputBuffer(new, s), InitialOffset(s), x \in F)]
         /\ UNCHANGED <<child, pipe>>
      \/ rep' = R /\ UNCHANGED <<child, pipe>>
      \/ child.type = "none" /\ startBgsaveForReplication(R, L, pipe, TRUE)
  BY DEF syncCommand
<1>3. R = [r \in Replicas |-> IF r = x THEN new ELSE rep[r]]
  BY InvParts
<1>4. new \in Client /\ Idle(new)
  BY NewClients
<1>5. RestOK(new, log)
  BY <1>4 DEF RestOK
<1>6. Core(rep', log, child', file, pipe', env.chunks)
  <2>1. CASE /\ \E s \in Replicas, F \in MayClose({x}) :
                  /\ CanAttach(x, s)
                  /\ rep' = [R EXCEPT ![x] = SetupSlaveForFullResync(
                               CopyClientOutputBuffer(new, s), InitialOffset(s), x \in F)]
             /\ UNCHANGED <<child, pipe>>
    <3>1. PICK s \in Replicas, F \in MayClose({x}) :
             /\ CanAttach(x, s)
             /\ rep' = [R EXCEPT ![x] = SetupSlaveForFullResync(
                          CopyClientOutputBuffer(new, s), InitialOffset(s), x \in F)]
      BY <2>1
    <3>2. rep[s].st = "end" /\ child.type = "disk"
      BY <3>1 DEF CanAttach, FirstWaiting
    <3> DEFINE e == SetupSlaveForFullResync(
                      CopyClientOutputBuffer(new, s), InitialOffset(s), x \in F)
               Q == rep'
    <3>3. Q = [r \in Replicas |-> IF r = x THEN e ELSE rep[r]]
      <4> HIDE DEF e
      <4> QED BY <1>3, <3>1 DEF e
    <3> HIDE DEF Q
    <3>4. Core(Q, log, child, file, pipe, env.chunks)
      BY <1>1, <3>2, <3>3, AttachCore
    <3> QED BY <2>1, <3>4 DEF Q
  <2>2. CASE rep' = R /\ UNCHANGED <<child, pipe>>
    <3> HIDE DEF new, R
    <3>1. Core(R, log, child, file, pipe, env.chunks)
      BY <1>1, <1>3, <1>4, <1>5, OneClient
    <3> QED BY <2>2, <3>1
  <2>3. CASE child.type = "none" /\ startBgsaveForReplication(R, L, pipe, TRUE)
    <3> HIDE DEF new, R, L
    <3> DEFINE reader == TRUE
    <3>1. reader \in BOOLEAN /\ startBgsaveForReplication(R, L, pipe, reader)
      BY <2>3
    <3>2. \A r \in Replicas : RestOK(rep[r], log)
      BY <2>3, AllRest, InvParts
    <3>3. \A r \in Replicas : RestOK(R[r], log)
      BY <1>3, <1>4, <1>5, <3>2
    <3> HIDE DEF reader
    <3> QED BY <2>3, <3>1, <3>3, ClosedPipe, InvParts, StartOK
  <2> QED BY <1>2, <2>1, <2>2, <2>3
<1>7. EnvSame
  BY <1>1, InvParts, EnvBudget
<1>8. LogOK' /\ file' \subseteq Data
  BY <1>1, InvParts DEF LogOK
<1> QED BY <1>1, <1>6, <1>7, <1>8 DEF StepOK

LEMMA InitSync == ASSUME Init PROVE SyncInv
<1>1. env \in [eof : SUBSET Replicas, modes : {{TRUE}, {FALSE}, {TRUE, FALSE}},
               saveParams : BOOLEAN, delSyncFiles : BOOLEAN, asyncClose : BOOLEAN,
               chunks : Nat \ {0},
               writes : Nat, syncs : Nat, drops : Nat, others : Nat]
  BY FullSyncAssumption DEF Init
<1>2. EnvOK
  <2>1. env = [x \in EnvFields |-> env[x]]
    BY <1>1 DEF EnvFields
  <2>2. env.chunks \in Nat \ {0}
    BY <1>1
  <2> QED BY <2>1, <2>2 DEF EnvOK, Init
<1>3. LogOK
  <2>1. log = <<>> /\ Len(log) = 0
    BY DEF Init
  <2>2. log \in Seq(Op)
    BY <2>1, EmptySeq
  <2>3. 0 \in 0..Len(log) /\ IsLast(0, Len(log), log)
    BY <2>1 DEF IsLast
  <2> QED BY <2>2, <2>3 DEF LogOK
<1>4. /\ rep = [r \in Replicas |-> NoClient] /\ child = NoChild /\ pipe = NoPipe /\ file = {}
  BY DEF Init
<1>5. \A r \in Replicas : rep[r] = NoClient
  BY <1>4
<1>7. Clients(rep, log, child, file, pipe, env.chunks)
  BY <1>5, RestNoClient, RestIsOK DEF Clients
<1>8. ChildOK(child, env.chunks)
  BY <1>4, EmptySeq DEF ChildOK, NoChild, Data
<1>9. PipeOK(pipe, child) /\ ConnsWait(rep, pipe)
  BY <1>4, NoPipeOK DEF ConnsWait
<1>11. rep = [r \in Replicas |-> rep[r]]
  BY <1>4
<1>12. Core(rep, log, child, file, pipe, env.chunks)
  BY <1>7, <1>8, <1>9, <1>11 DEF Core
<1> QED BY <1>2, <1>3, <1>4, <1>12 DEF SyncInv

LEMMA NextSync == ASSUME SyncInv, Next PROVE SyncInv'
<1>1. CASE Write
  BY <1>1, WriteStep, StepIsInv
<1>2. CASE FlushAll
  BY <1>2, FlushAllStep, StepIsInv
<1>3. CASE Bgsave
  BY <1>3, BgsaveStep, StepIsInv
<1>4. CASE saveCommand
  BY <1>4, SaveStep, StepIsInv
<1>5. CASE OtherFork \/ OtherDone \/ ConfigSetDiskless
  BY <1>5, OtherSteps, StepIsInv
<1>6. CASE ChildWrites \/ ChildEnds \/ ChildFails
  BY <1>6, ChildSteps, StepIsInv
<1>7. CASE checkChildrenDone
  BY <1>7, DoneStep, StepIsInv
<1>8. CASE rdbPipeReadHandler
  BY <1>8, PipeReadStep, StepIsInv
<1>9. CASE LastReplicaGone
  BY <1>9, LastGoneStep, StepIsInv
<1>15. CASE PipeReadError
  BY <1>15, PipeErrorStep, StepIsInv
<1>10. CASE RdbPipeCleanup
  BY <1>10, CleanupStep, StepIsInv
<1>11. CASE beforeSleep \/ \E r \in Replicas : DropReplica(r)
  BY <1>11, DropSteps, StepIsInv
<1>12. CASE replicationCron
  BY <1>12, CronStep, StepIsInv
<1>13. CASE \E r \in Replicas : syncCommand(r)
  BY <1>13, SyncStep, StepIsInv
<1>14. CASE \E r \in Replicas : ReplicaStep(r)
  <2>1. PICK r \in Replicas : ReplicaStep(r)
    BY <1>14
  <2>2. CASE rdbPipeWriteHandler(r)
    BY <2>2, PipeWriteStep, StepIsInv
  <2>3. CASE sendBulkToSlave(r)
    BY <2>3, BulkStep, StepIsInv
  <2>4. CASE replconfAck(r)
    BY <2>4, AckStep, StepIsInv
  <2>5. CASE writeToClient(r)
    BY <2>5, SendStep, StepIsInv
  <2> QED BY <2>1, <2>2, <2>3, <2>4, <2>5 DEF ReplicaStep
<1> QED
  BY <1>1, <1>2, <1>3, <1>4, <1>5, <1>6, <1>7, <1>8, <1>9, <1>10, <1>11, <1>12, <1>13, <1>14,
     <1>15
  DEF Next

LEMMA StutterSync == ASSUME SyncInv, UNCHANGED vars PROVE SyncInv'
<1>1. /\ log' = log /\ rep' = rep /\ child' = child /\ pipe' = pipe /\ file' = file
      /\ env' = env /\ diskless' = diskless
  BY DEF vars
<1>2. LogOK' /\ file' \subseteq Data /\ EnvSame
  BY <1>1, InvParts, EnvUnchanged DEF LogOK
<1>3. StepOK
  BY <1>1, <1>2, InvParts DEF StepOK
<1> QED BY <1>3, StepIsInv

LEMMA SyncInvExact == ASSUME SyncInv PROVE SyncIsExact
<1>1. LogOK /\ log \in Seq(Op) /\ Len(log) \in Nat
  BY InvParts DEF LogOK
<1>2. ASSUME NEW r \in Syncing
      PROVE  /\ rep[r].off \in 0..Len(log) /\ rep[r].buf = Span(rep[r].off, Len(log))
             /\ \E d \in Snapshot(r) : Exact(d, rep[r].off, log)
  <2> DEFINE c == rep[r]
             n == env.chunks
  <2>1. /\ r \in Replicas /\ c.st \in {"end", "bulk", "online"} /\ ~c.missed
        /\ ClientOK(r, c, log, child, file, pipe, n)
    BY InvParts DEF Syncing
  <2>2. Holds(c, Snapshot(r), log)
    <3>1. CASE c.st = "end"
      <4>1. Snapshot(r) = Coming(child, file)
        BY <3>1 DEF Snapshot, Coming
      <4> HIDE DEF c, n
      <4> QED BY <2>1, <3>1, <4>1 DEF ClientOK, Idle, Fed, Waits
    <3>2. CASE c.st = "bulk"
      <4>1. Snapshot(r) = c.fd
        BY <3>2 DEF Snapshot
      <4> HIDE DEF c, n
      <4> QED BY <2>1, <3>2, <4>1 DEF ClientOK, Idle, Fed, Waits
    <3>3. CASE c.st = "online"
      <4>1. Snapshot(r) = c.data
        BY <3>3 DEF Snapshot
      <4> HIDE DEF c, n
      <4> QED BY <2>1, <3>3, <4>1 DEF ClientOK, Idle, Fed, Waits
    <3> QED BY <2>1, <3>1, <3>2, <3>3
  <2> QED BY <2>1, <2>2 DEF Holds
<1>3. SnapshotPlusDiff
  <2> SUFFICES ASSUME NEW r \in Syncing
               PROVE  \E d \in Snapshot(r) : ApplyAll(d, rep[r].buf) = Dataset
    BY DEF SnapshotPlusDiff
  <2> DEFINE a == rep[r].off
  <2>1. a \in 0..Len(log) /\ rep[r].buf = Span(a, Len(log))
    BY <1>2
  <2>2. PICK d \in Snapshot(r) : Exact(d, a, log)
    BY <1>2
  <2> HIDE DEF a
  <2>3. ApplyAll(d, Span(a, Len(log))) = Dataset
    BY <1>1, <2>1, <2>2, ExactIsEnough
  <2> QED BY <2>1, <2>3
<1>4. OffsetMatchesBuffer
  BY <1>2 DEF OffsetMatchesBuffer, Span
<1>5. WaitersHaveChild
  <2> SUFFICES ASSUME NEW r \in Replicas, rep[r].st = "end" PROVE child.type # "none"
    BY DEF WaitersHaveChild
  <2>1. ClientOK(r, rep[r], log, child, file, pipe, env.chunks)
    BY InvParts
  <2> QED BY <2>1 DEF ClientOK, Idle, Fed, Waits
<1> QED BY <1>3, <1>4, <1>5 DEF SyncIsExact

(* A full resynchronisation is exact: whatever a replica is going to load     *)
(* (the snapshot of the child it waits for, dump.rdb as it is then, the file  *)
(* it has opened, the RDB it was streamed) and the differences in its output  *)
(* buffer make up the dataset of the master, its offset is where that buffer  *)
(* starts, and a replica in WAIT_BGSAVE_END always has a child.  Commands,    *)
(* FLUSHALL, SAVE, BGSAVE, failing and killed children, shared children and   *)
(* broken connections come in any number and order, for any set of replicas.  *)
(* A client that is scheduled to be closed is not fed any more; only a replica *)
(* that copyClientOutputBuffer gave such a buffer is excepted (missed).        *)
THEOREM SyncExact == Spec => []SyncIsExact
<1>1. Init => SyncInv
  BY InitSync
<1>2. SyncInv /\ [Next]_vars => SyncInv'
  BY NextSync, StutterSync
<1>3. SyncInv => SyncIsExact
  BY SyncInvExact
<1> QED BY <1>1, <1>2, <1>3, PTL DEF Spec
=============================================================================
