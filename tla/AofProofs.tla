----------------------------- MODULE AofProofs -----------------------------
(***************************************************************************)
(* The append only file for any configuration and any number of commands,  *)
(* errors, rewrites, changes of appendonly and crashes: the file is the    *)
(* history, a file that a crash leaves can be loaded, and with             *)
(* appendfsync always an acknowledged command is synced, save those the    *)
(* code lets go (a.excused).  Then the                                     *)
(* background threads that close and fsync its files (Bio), for any set of *)
(* job types and any number of jobs.                                       *)
(***************************************************************************)
EXTENDS Aof, Bio, SequenceTheorems, TLAPS

Byte == Nat

EnvType ==
    [policy : {"always", "everysec"}, noFsyncOnRewrite : BOOLEAN, threads : BOOLEAN,
     cmds : Nat, err : Nat, full : Nat, rewrite : Nat, toggle : Nat, crash : Nat]

FileType == [data : Seq(Byte), synced : Nat]

WritePath ==
    [buf : Seq(Byte), file : FileType, size : Nat, fsoff : Nat, ok : BOOLEAN,
     postponed : {0, 1, 2}, sec : BOOLEAN, jobs : Seq({"cur", "old"}), exit : BOOLEAN,
     err : Nat, excused : SUBSET Nat]

ChildType ==
    [ph : {"none", "dump", "asked", "ok", "err"}, base : Nat, diff : Seq(Byte), stop : BOOLEAN]

TypeOK ==
    /\ n \in Nat /\ owed \subseteq 1..n /\ acked \subseteq 1..n
    /\ handler \in {"none", "barrier", "plain"}
    /\ st \in {"on", "off", "wait"} /\ phase \in {"run", "renamed", "dead"}
    /\ a \in WritePath /\ child \in ChildType
    /\ rw \in Seq(Byte) /\ dpipe \in Seq(Byte)
    /\ sched \in BOOLEAN /\ other \in BOOLEAN /\ env \in EnvType

\* No more than what is in the file is synced, and only a dead process has
\* called exit.
FileInv == a.file.synced <= Len(a.file.data) /\ (a.exit <=> phase = "dead")

\* What the rewrite has reached: nothing is kept for a child that does not
\* exist, and a child that is done has read all it was sent.
ChildInv ==
    /\ child.ph = "none" => rw = <<>>
    /\ child.ph = "ok" => child.stop /\ dpipe = <<>>
    /\ phase = "renamed" => child.ph = "ok" /\ st # "off" /\ a.file.data = Bytes(2 * n)

\* With appendfsync always nothing waits in the buffer of an AOF that is not
\* on, and only a server whose AOF is on dies.
OffInv ==
    /\ env.policy = "always" /\ st # "on" => a.buf = <<>>
    /\ phase = "dead" => st = "on"

\* A file a crash leaves behind is a prefix of the history: loading it never
\* finds an error before the end.
CrashLoadable == phase = "dead" => Loadable

\* Command i is synced, or the code let it go.
Safe(x, i) == i \in x.excused \/ 2 * i <= x.file.synced

\* The commands the clients know, and those they are about to know when there
\* is nothing left to write, are safe.
SyncInv ==
    env.policy = "always" /\ st = "on" /\ phase # "renamed" =>
        /\ \A i \in acked : Safe(a, i)
        /\ phase = "run" /\ a.buf = <<>> => \A i \in owed : Safe(a, i)

\* The inductive invariant.
IInv == TypeOK /\ FileInv /\ ChildInv /\ OffInv /\ HistoryKept /\ CrashLoadable /\ SyncInv

-----------------------------------------------------------------------------
(* Sequences of bytes.                                                      *)

LEMMA BytesSeq ==
  ASSUME NEW k \in Nat
  PROVE  /\ Bytes(k) \in Seq(Byte) /\ Len(Bytes(k)) = k
         /\ \A i \in 1..k : Bytes(k)[i] = i
BY DEF Bytes, Byte

LEMMA Cat ==
  ASSUME NEW s \in Seq(Byte), NEW t \in Seq(Byte)
  PROVE  /\ s \o t \in Seq(Byte) /\ Len(s) \in Nat /\ Len(t) \in Nat
         /\ Len(s \o t) = Len(s) + Len(t)
         /\ \A i \in 1..(Len(s) + Len(t)) :
              (s \o t)[i] = IF i <= Len(s) THEN s[i] ELSE t[i - Len(s)]
BY ConcatProperties, LenProperties

LEMMA CatAssoc ==
  ASSUME NEW s \in Seq(Byte), NEW t \in Seq(Byte), NEW u \in Seq(Byte)
  PROVE  (s \o t) \o u = s \o (t \o u)
BY ConcatAssociative

LEMMA Fits ==
  ASSUME NEW i \in Nat, NEW j \in Nat, NEW k \in Nat, i <= j
  PROVE  i <= j + k /\ j + k \in Nat /\ j + k <= j + k
OBVIOUS

\* The history grows by the two bytes of a command.
LEMMA BytesGrow ==
  ASSUME NEW k \in Nat
  PROVE  Bytes(2 * k) \o <<2 * k + 1, 2 * k + 2>> = Bytes(2 * (k + 1))
<1> DEFINE b == Bytes(2 * k)
           c == <<2 * k + 1, 2 * k + 2>>
           d == Bytes(2 * (k + 1))
<1>1. b \in Seq(Byte) /\ Len(b) = 2 * k /\ \A i \in 1..(2 * k) : b[i] = i
  BY BytesSeq
<1>2. d \in Seq(Byte) /\ Len(d) = 2 * k + 2 /\ \A i \in 1..(2 * k + 2) : d[i] = i
  BY BytesSeq
<1>3. c \in Seq(Byte) /\ Len(c) = 2 /\ c[1] = 2 * k + 1 /\ c[2] = 2 * k + 2
  BY DEF Byte
<1> HIDE DEF b, c, d
<1>4. /\ b \o c \in Seq(Byte) /\ Len(b \o c) = 2 * k + 2
      /\ \A i \in 1..(2 * k + 2) : (b \o c)[i] = IF i <= 2 * k THEN b[i] ELSE c[i - 2 * k]
  <2>1. /\ b \o c \in Seq(Byte) /\ Len(b \o c) = Len(b) + Len(c)
        /\ \A i \in 1..(Len(b) + Len(c)) :
             (b \o c)[i] = IF i <= Len(b) THEN b[i] ELSE c[i - Len(b)]
    BY <1>1, <1>3, Cat
  <2> QED BY <2>1, <1>1, <1>3
<1>5. \A i \in 1..(2 * k + 2) : (b \o c)[i] = d[i]
  <2> SUFFICES ASSUME NEW i \in 1..(2 * k + 2) PROVE (b \o c)[i] = i
    BY <1>2
  <2>1. i <= 2 * k \/ i = 2 * k + 1 \/ i = 2 * k + 2
    OBVIOUS
  <2> QED BY <2>1, <1>1, <1>3, <1>4
<1>6. b \o c = d
  BY <1>2, <1>4, <1>5, SeqEqual
<1> QED BY <1>6 DEF b, c, d

\* A prefix of the history is a history.
LEMMA PrefixOfBytes ==
  ASSUME NEW s \in Seq(Byte), NEW t \in Seq(Byte), NEW k \in Nat, s \o t = Bytes(k)
  PROVE  s = Bytes(Len(s)) /\ Len(s) \in Nat /\ Len(t) \in Nat /\ Len(s) + Len(t) = k
<1>1. Len(s) \in Nat /\ Len(t) \in Nat
  BY LenProperties
<1>2. Len(s) + Len(t) = k
  BY ConcatProperties, BytesSeq
<1>3. \A i \in 1..Len(s) : s[i] = i
  <2> SUFFICES ASSUME NEW i \in 1..Len(s) PROVE s[i] = i
    OBVIOUS
  <2>1. (s \o t)[i] = s[i]
    BY <1>1, ConcatProperties
  <2>2. Bytes(k)[i] = i
    BY <1>1, <1>2, BytesSeq
  <2> QED BY <2>1, <2>2
<1>4. Bytes(Len(s)) \in Seq(Byte) /\ Len(Bytes(Len(s))) = Len(s)
       /\ \A i \in 1..Len(s) : Bytes(Len(s))[i] = i
  BY <1>1, BytesSeq
<1>5. s = Bytes(Len(s))
  BY <1>3, <1>4, SeqEqual
<1> QED BY <1>1, <1>2, <1>5

\* What is cut off after k bytes, and what is left.
LEMMA Cut ==
  ASSUME NEW s \in Seq(Byte), NEW k \in 0..Len(s)
  PROVE  /\ SubSeq(s, 1, k) \in Seq(Byte) /\ Len(SubSeq(s, 1, k)) = k
         /\ SubSeq(s, k + 1, Len(s)) \in Seq(Byte)
         /\ SubSeq(s, 1, k) \o SubSeq(s, k + 1, Len(s)) = s
<1> DEFINE p == SubSeq(s, 1, k)
           q == SubSeq(s, k + 1, Len(s))
<1>0. Len(s) \in Nat /\ k \in Nat /\ k <= Len(s) /\ \A i \in 1..Len(s) : s[i] \in Byte
  BY LenProperties, ElementOfSeq
<1>1. p \in Seq(Byte) /\ Len(p) = k /\ \A i \in 1..k : p[i] = s[i]
  BY <1>0, SubSeqProperties
<1>2. /\ q \in Seq(Byte) /\ Len(q) = Len(s) - k
      /\ \A i \in 1..(Len(s) - k) : q[i] = s[k + i]
  BY <1>0, SubSeqProperties
<1> HIDE DEF p, q
<1>3. /\ p \o q \in Seq(Byte) /\ Len(p \o q) = Len(s)
      /\ \A i \in 1..Len(s) : (p \o q)[i] = IF i <= k THEN p[i] ELSE q[i - k]
  <2>1. /\ p \o q \in Seq(Byte) /\ Len(p \o q) = Len(p) + Len(q)
        /\ \A i \in 1..(Len(p) + Len(q)) :
             (p \o q)[i] = IF i <= Len(p) THEN p[i] ELSE q[i - Len(p)]
    BY <1>1, <1>2, Cat
  <2> QED BY <2>1, <1>0, <1>1, <1>2
<1>4. \A i \in 1..Len(s) : (p \o q)[i] = s[i]
  <2> SUFFICES ASSUME NEW i \in 1..Len(s) PROVE (p \o q)[i] = s[i]
    OBVIOUS
  <2>1. CASE i <= k
    BY <2>1, <1>0, <1>1, <1>3
  <2>2. CASE ~(i <= k)
    <3>1. i - k \in 1..(Len(s) - k) /\ k + (i - k) = i
      BY <2>2, <1>0
    <3> QED BY <3>1, <2>2, <1>2, <1>3
  <2> QED BY <2>1, <2>2
<1>5. p \o q = s
  BY <1>3, <1>4, SeqEqual
<1> QED BY <1>0, <1>1, <1>2, <1>5 DEF p, q

\* A byte that goes from the head of one queue to the end of another.
LEMMA MoveHead ==
  ASSUME NEW s \in Seq(Byte), NEW t \in Seq(Byte), t # <<>>
  PROVE  /\ Append(s, Head(t)) \in Seq(Byte) /\ Tail(t) \in Seq(Byte)
         /\ Append(s, Head(t)) \o Tail(t) = s \o t
<1> DEFINE u == Append(s, Head(t))
<1>1. /\ Head(t) \in Byte /\ Head(t) = t[1] /\ Tail(t) \in Seq(Byte)
      /\ Len(Tail(t)) = Len(t) - 1 /\ Len(t) \in Nat \ {0}
      /\ \A i \in 1..Len(Tail(t)) : Tail(t)[i] = t[i + 1]
  BY HeadTailProperties, EmptySeq
<1>2. /\ u \in Seq(Byte) /\ Len(u) = Len(s) + 1 /\ Len(s) \in Nat
      /\ u[Len(s) + 1] = t[1] /\ \A i \in 1..Len(s) : u[i] = s[i]
  BY <1>1
<1> HIDE DEF u
<1>3. /\ u \o Tail(t) \in Seq(Byte) /\ Len(u \o Tail(t)) = Len(s) + Len(t)
      /\ \A i \in 1..(Len(s) + Len(t)) : (u \o Tail(t))[i] =
           IF i <= Len(s) + 1 THEN u[i] ELSE Tail(t)[i - (Len(s) + 1)]
  <2>1. /\ u \o Tail(t) \in Seq(Byte) /\ Len(u \o Tail(t)) = Len(u) + Len(Tail(t))
        /\ \A i \in 1..(Len(u) + Len(Tail(t))) :
             (u \o Tail(t))[i] = IF i <= Len(u) THEN u[i] ELSE Tail(t)[i - Len(u)]
    BY <1>1, <1>2, Cat
  <2>2. Len(u) + Len(Tail(t)) = Len(s) + Len(t)
    BY <1>1, <1>2
  <2> QED BY <2>1, <2>2, <1>2
<1>4. /\ s \o t \in Seq(Byte) /\ Len(s \o t) = Len(s) + Len(t)
      /\ \A i \in 1..(Len(s) + Len(t)) : (s \o t)[i] = IF i <= Len(s) THEN s[i] ELSE t[i - Len(s)]
  BY ConcatProperties
<1>5. ASSUME NEW i \in 1..(Len(s) + Len(t)) PROVE (u \o Tail(t))[i] = (s \o t)[i]
  <2>1. CASE i <= Len(s)
    BY <2>1, <1>2, <1>3, <1>4
  <2>2. CASE i = Len(s) + 1
    BY <2>2, <1>1, <1>2, <1>3, <1>4
  <2>3. CASE i > Len(s) + 1
    <3> DEFINE j == i - (Len(s) + 1)
    <3>1. j \in 1..Len(Tail(t)) /\ j + 1 = i - Len(s)
      BY <2>3, <1>1, <1>2
    <3>2. Tail(t)[j] = t[i - Len(s)]
      BY <3>1, <1>1
    <3>3. (u \o Tail(t))[i] = Tail(t)[j] /\ (s \o t)[i] = t[i - Len(s)]
      BY <2>3, <1>2, <1>3, <1>4
    <3> QED BY <3>2, <3>3
  <2> QED BY <2>1, <2>2, <2>3, <1>1, <1>2
<1>6. u \o Tail(t) = s \o t
  BY <1>3, <1>4, <1>5, SeqEqual
<1> QED BY <1>1, <1>2, <1>6 DEF u

-----------------------------------------------------------------------------
(* The outcomes of flushAppendOnlyFile.                                     *)

\* Nothing was written.
Kept(x) ==
    /\ x.file = a.file /\ x.buf = a.buf /\ x.size = a.size /\ x.exit = a.exit
    /\ x.excused = a.excused
    /\ a.buf = <<>> \/ env.policy = "everysec"

\* The whole buffer was written, and synced if it has to be and can be.
Wrote(x) ==
    /\ st # "off" /\ x.buf = <<>> /\ x.exit = a.exit
    /\ x.file.data = a.file.data \o a.buf /\ x.size = a.size + Len(a.buf)
    /\ x.file.synced \in {a.file.synced, Len(x.file.data)}
    /\ env.policy = "always" =>
         x.file.synced = Len(x.file.data) \/ \A i \in 1..n : Safe(x, i)

\* k bytes of the buffer were written; "always" gives up.
Short(x, k) ==
    /\ a.buf # <<>> /\ x.file.synced = a.file.synced /\ x.excused = a.excused
    /\ x.file.data = a.file.data \o SubSeq(a.buf, 1, k)
    /\ IF env.policy = "always" THEN x.exit
       ELSE /\ ~x.exit
            /\ x.buf = SubSeq(a.buf, k + 1, Len(a.buf)) /\ x.size = a.size + k

\* An update of what a write changes.
Update(x, f, size, buf, ok, postponed, exit, err) ==
    [x EXCEPT !.file = f, !.size = size, !.buf = buf, !.ok = ok, !.postponed = postponed,
              !.exit = exit, !.err = err]

\* y is x but for the fsync: what is written stays, and all of it is synced or
\* what is not is excused.
Fsynced(x, y) ==
    /\ y \in WritePath /\ y.buf = x.buf /\ y.size = x.size /\ y.exit = x.exit
    /\ y.jobs = x.jobs /\ y.file.data = x.file.data
    /\ \/ y.file.synced = Len(x.file.data)
       \/ y.file = x.file /\ \A i \in 1..n : Safe(y, i)
    /\ x.excused \subseteq y.excused

LEMMA Excused ==
  ASSUME TypeOK, NEW x \in WritePath, NEW cmds, cmds \subseteq 1..n
  PROVE  LET y == Excuse(x, cmds) IN
         /\ y \in WritePath /\ y.buf = x.buf /\ y.size = x.size /\ y.exit = x.exit
         /\ y.jobs = x.jobs /\ y.file = x.file /\ y.err = x.err
         /\ y.excused = x.excused \union Unsynced(x, cmds)
         /\ \A i \in cmds : Safe(y, i)
<1> DEFINE e == x.excused \union Unsynced(x, cmds)
           y == Excuse(x, cmds)
<1>0. n \in Nat /\ x.file \in FileType /\ x.file.synced \in Nat /\ x.excused \in SUBSET Nat
  BY DEF TypeOK, WritePath, FileType
<1>1. e \in SUBSET Nat
  <2>1. cmds \subseteq Nat
    BY <1>0
  <2>2. Unsynced(x, cmds) \subseteq cmds
    BY DEF Unsynced
  <2> QED BY <1>0, <2>1, <2>2
<1>2. y = [x EXCEPT !.excused = e]
  BY DEF Excuse
<1>3. \A i \in cmds : i \in e \/ 2 * i <= x.file.synced
  BY <1>0 DEF Unsynced
<1> HIDE DEF e, y
<1>4. /\ y \in WritePath /\ y.buf = x.buf /\ y.size = x.size /\ y.exit = x.exit
      /\ y.jobs = x.jobs /\ y.file = x.file /\ y.err = x.err /\ y.excused = e
  BY <1>1, <1>2 DEF WritePath
<1> QED BY <1>3, <1>4 DEF e, y, Safe

LEMMA TypeOfFsync ==
  ASSUME TypeOK, NEW x \in WritePath, NEW y \in redis_fsync(x)
  PROVE  Fsynced(x, y)
<1>0. /\ x.file \in FileType /\ Len(x.file.data) \in Nat /\ n \in Nat /\ x.err \in Nat
      /\ 1..n \subseteq 1..n
  BY LenProperties DEF WritePath, FileType, TypeOK
<1>1. CASE y = [x EXCEPT !.file = SyncFile(@)]
  <2>1. SyncFile(x.file) \in FileType /\ SyncFile(x.file).data = x.file.data
         /\ SyncFile(x.file).synced = Len(x.file.data)
    BY <1>0 DEF SyncFile, FileType
  <2> QED BY <1>1, <2>1 DEF WritePath, Fsynced
<1>2. CASE x.err > 0 /\ y = FailedFsync(x)
  <2> DEFINE z == Excuse(x, 1..n)
             all == 1..n
  <2>0. all \subseteq 1..n
    OBVIOUS
  <2> HIDE DEF all
  <2>1. /\ Excuse(x, all) \in WritePath /\ Excuse(x, all).buf = x.buf
        /\ Excuse(x, all).size = x.size /\ Excuse(x, all).exit = x.exit
        /\ Excuse(x, all).jobs = x.jobs /\ Excuse(x, all).file = x.file
        /\ Excuse(x, all).err = x.err
        /\ Excuse(x, all).excused = x.excused \union Unsynced(x, all)
        /\ \A i \in all : Safe(Excuse(x, all), i)
    BY <2>0, Excused
  <2>2. /\ z \in WritePath /\ z.buf = x.buf /\ z.size = x.size /\ z.exit = x.exit
        /\ z.jobs = x.jobs /\ z.file = x.file /\ z.err = x.err /\ x.excused \subseteq z.excused
        /\ \A i \in 1..n : Safe(z, i)
    BY <2>1 DEF all
  <2>3. y = [z EXCEPT !.err = x.err - 1] /\ x.err - 1 \in Nat
    BY <1>0, <1>2, <2>2 DEF FailedFsync
  <2> HIDE DEF z
  <2>4. /\ y \in WritePath /\ y.buf = x.buf /\ y.size = x.size /\ y.exit = x.exit
        /\ y.jobs = x.jobs /\ y.file = x.file /\ y.excused = z.excused
    BY <2>2, <2>3 DEF WritePath
  <2>5. \A i \in 1..n : Safe(y, i)
    BY <2>2, <2>4 DEF Safe
  <2> QED BY <2>2, <2>4, <2>5 DEF Fsynced
<1> QED BY <1>1, <1>2 DEF redis_fsync

LEMMA TypeOfTryFsync ==
  ASSUME TypeOK, NEW x \in WritePath, NEW b \in BOOLEAN, NEW y \in TryFsync(x, b)
  PROVE  /\ y \in WritePath /\ y.buf = x.buf /\ y.size = x.size /\ y.exit = x.exit
         /\ y.file.data = x.file.data
         /\ y.file.synced \in {x.file.synced, Len(x.file.data)}
         /\ env.policy = "everysec" => y.file = x.file /\ y.excused = x.excused
         /\ env.policy = "always" =>
              y.file.synced = Len(x.file.data) \/ \A i \in 1..n : Safe(y, i)
<1> DEFINE t == FsyncTried(x)
           y2 == [x EXCEPT !.sec = FALSE]
           y3 == [t EXCEPT !.jobs = Append(@, "cur")]
<1>0. env.policy \in {"always", "everysec"}
  BY DEF TypeOK, EnvType
<1>1. /\ t \in WritePath /\ t.buf = x.buf /\ t.size = x.size /\ t.exit = x.exit
      /\ t.file = x.file /\ t.jobs = x.jobs /\ t.excused = x.excused
  BY DEF FsyncTried, WritePath
<1>2. Append(t.jobs, "cur") \in Seq({"cur", "old"})
  BY <1>1 DEF WritePath
<1> HIDE DEF t
<1>3. /\ y2 \in WritePath /\ y2.buf = x.buf /\ y2.size = x.size /\ y2.exit = x.exit
      /\ y2.file = x.file /\ y2.excused = x.excused
  BY DEF WritePath
<1>4. /\ y3 \in WritePath /\ y3.buf = x.buf /\ y3.size = x.size /\ y3.exit = x.exit
      /\ y3.file = x.file /\ y3.excused = x.excused
  BY <1>1, <1>2 DEF WritePath
<1> HIDE DEF y2, y3
<1>5. \/ y = Excuse(x, 1..n) /\ env.policy = "always"
      \/ y \in redis_fsync(t) /\ env.policy = "always"
      \/ y = x /\ env.policy # "always"
      \/ y = y2 /\ env.policy # "always"
      \/ y = y3 /\ env.policy # "always"
  BY DEF TryFsync, t, y2, y3
<1>6. CASE y = Excuse(x, 1..n) /\ env.policy = "always"
  <2> DEFINE all == 1..n
  <2>1. all \subseteq 1..n
    OBVIOUS
  <2>2. y = Excuse(x, all)
    BY <1>6
  <2> HIDE DEF all
  <2>3. /\ y \in WritePath /\ y.buf = x.buf /\ y.size = x.size /\ y.exit = x.exit
        /\ y.file = x.file /\ \A i \in all : Safe(y, i)
    BY <2>1, <2>2, Excused
  <2> QED BY <1>6, <2>3 DEF all
<1>7. CASE y \in redis_fsync(t) /\ env.policy = "always"
  <2>1. Fsynced(t, y)
    BY <1>1, <1>7, TypeOfFsync
  <2> QED BY <2>1, <1>1, <1>7 DEF Fsynced
<1> QED BY <1>0, <1>3, <1>4, <1>5, <1>6, <1>7

LEMMA TypeOfShortWrite ==
  ASSUME TypeOK, NEW k \in 0..Len(a.buf), NEW u \in BOOLEAN, a.buf # <<>>,
         st # "off" => a.err # 0
  PROVE  LET x == ShortWrite(k, u) IN
         x \in WritePath /\ Short(x, IF u THEN 0 ELSE k) /\ x.exit = (env.policy = "always")
<1> DEFINE kept == IF u THEN 0 ELSE k
           head == SubSeq(a.buf, 1, kept)
           rest == SubSeq(a.buf, kept + 1, Len(a.buf))
           f == [a.file EXCEPT !.data = @ \o head]
           x == ShortWrite(k, u)
           exit == env.policy = "always"
           err == IF st = "off" THEN a.err ELSE a.err - 1
<1>1. /\ a.buf \in Seq(Byte) /\ a.file \in FileType /\ a.file.data \in Seq(Byte)
      /\ a.size \in Nat /\ Len(a.buf) \in Nat /\ a \in WritePath /\ a.err \in Nat
  BY LenProperties DEF TypeOK, WritePath, FileType
<1>2. kept \in 0..Len(a.buf)
  BY <1>1
<1>3. head \in Seq(Byte) /\ rest \in Seq(Byte)
  BY <1>1, <1>2, Cut
<1>4. a.file.data \o head \in Seq(Byte)
  BY <1>1, <1>3, Cat
<1>5. f \in FileType
  BY <1>1, <1>4 DEF FileType
<1>6. f.data = a.file.data \o head /\ f.synced = a.file.synced
  BY <1>1 DEF FileType
<1> DEFINE size == IF env.policy = "always" THEN a.size ELSE a.size + kept
           buf == IF env.policy = "always" THEN a.buf ELSE rest
<1>7. x = Update(a, f, size, buf, FALSE, 0, exit, err)
  BY <1>1 DEF ShortWrite, WritePath, Update
<1>8. size \in Nat /\ buf \in Seq(Byte) /\ 0 \in {0, 1, 2} /\ exit \in BOOLEAN
      /\ FALSE \in BOOLEAN /\ err \in Nat
  BY <1>1, <1>2, <1>3
<1> HIDE DEF head, rest, kept, x, size, buf, f, exit, err
<1>9. /\ x \in WritePath /\ x.file = f /\ x.size = size /\ x.buf = buf
      /\ x.exit = exit /\ x.excused = a.excused
  <2>1. x \in WritePath
    BY <1>1, <1>5, <1>7, <1>8 DEF Update, WritePath
  <2>2. x.file = f /\ x.size = size /\ x.buf = buf /\ x.exit = exit /\ x.excused = a.excused
    BY <1>1, <1>7 DEF Update, WritePath
  <2> QED BY <2>1, <2>2
<1>10. Short(x, kept)
  BY <1>6, <1>9 DEF Short, head, rest, size, buf, exit
<1> QED BY <1>9, <1>10 DEF x, kept, exit

LEMMA FlushOutcome ==
  ASSUME TypeOK, NEW force \in BOOLEAN, NEW x \in flushAppendOnlyFile(force)
  PROVE  /\ x \in WritePath
         /\ Kept(x) \/ Wrote(x) \/ \E k \in 0..Len(a.buf) : Short(x, k)
<1>0. /\ a \in WritePath /\ a.buf \in Seq(Byte) /\ a.file \in FileType
      /\ a.file.data \in Seq(Byte) /\ Len(a.buf) \in Nat /\ a.size \in Nat
      /\ env.policy \in {"always", "everysec"} /\ a.postponed \in {0, 1, 2}
  BY LenProperties DEF TypeOK, WritePath, FileType, EnvType
<1>1. CASE a.buf = <<>>
  <2>1. CASE FsyncOnly
    <3>1. x \in TryFsync(a, FALSE) /\ env.policy = "everysec"
      BY <1>1, <2>1 DEF flushAppendOnlyFile, FsyncOnly
    <3> QED BY <3>1, <1>0, TypeOfTryFsync DEF Kept
  <2>2. CASE ~FsyncOnly
    BY <1>0, <1>1, <2>2 DEF flushAppendOnlyFile, Kept
  <2> QED BY <2>1, <2>2
<1>2. CASE a.buf # <<>> /\ Postpone(force)
  <2>1. x = [a EXCEPT !.postponed = IF @ = 0 THEN 1 ELSE @] /\ env.policy = "everysec"
    BY <1>2 DEF flushAppendOnlyFile, Postpone
  <2> DEFINE p == IF a.postponed = 0 THEN 1 ELSE a.postponed
  <2>2. x \in WritePath
    <3>1. p \in {0, 1, 2} /\ x = [a EXCEPT !.postponed = p]
      BY <2>1, <1>0
    <3> HIDE DEF p
    <3> QED BY <3>1, <1>0 DEF WritePath
  <2>3. Kept(x)
    BY <2>1, <1>0 DEF WritePath, Kept
  <2> QED BY <2>2, <2>3
<1>3. CASE a.buf # <<>> /\ ~Postpone(force)
  <2>1. x \in WriteErrors \/ (st # "off" /\ x \in TryFsync(Written, aofFsyncInProgress))
    BY <1>3 DEF flushAppendOnlyFile
  <2>2. CASE x \in WriteErrors
    <3>1. PICK k \in 0..Len(a.buf), u \in BOOLEAN :
            x = ShortWrite(k, u) /\ (st # "off" => a.err # 0)
      <4>1. CASE st = "off"
        <5>1. x = ShortWrite(0, TRUE) /\ 0 \in 0..Len(a.buf) /\ TRUE \in BOOLEAN
          BY <4>1, <2>2, <1>0 DEF WriteErrors
        <5> QED BY <4>1, <5>1
      <4>2. CASE st # "off"
        BY <4>2, <2>2, <1>0 DEF WriteErrors
      <4> QED BY <4>1, <4>2
    <3>2. (IF u THEN 0 ELSE k) \in 0..Len(a.buf)
      BY <1>0
    <3> QED BY <3>1, <3>2, <1>3, TypeOfShortWrite
  <2>3. CASE st # "off" /\ x \in TryFsync(Written, aofFsyncInProgress)
    <3> DEFINE f == [a.file EXCEPT !.data = @ \o a.buf]
    <3>1. f \in FileType
      BY <1>0, Cat DEF FileType
    <3>2. f.data = a.file.data \o a.buf /\ f.synced = a.file.synced
      BY <1>0 DEF FileType
    <3>3. Written = Update(a, f, a.size + Len(a.buf), <<>>, TRUE, 0, a.exit, a.err)
      BY <1>0 DEF Written, WritePath, Update
    <3>4. /\ Written \in WritePath /\ Written.file = f /\ Written.size = a.size + Len(a.buf)
          /\ Written.buf = <<>> /\ Written.exit = a.exit
      <4>1. a.size + Len(a.buf) \in Nat /\ <<>> \in Seq(Byte) /\ 0 \in {0, 1, 2}
             /\ a.exit \in BOOLEAN /\ TRUE \in BOOLEAN /\ a.err \in Nat
        BY <1>0 DEF WritePath
      <4> HIDE DEF f
      <4>2. Written \in WritePath
        BY <3>1, <3>3, <4>1, <1>0 DEF Update, WritePath
      <4>3. /\ Written.file = f /\ Written.size = a.size + Len(a.buf) /\ Written.buf = <<>>
            /\ Written.exit = a.exit
        BY <3>3, <1>0 DEF Update, WritePath
      <4> QED BY <4>2, <4>3
    <3>5. aofFsyncInProgress \in BOOLEAN
      BY DEF aofFsyncInProgress
    <3>6. Wrote(x) /\ x \in WritePath
      <4> DEFINE w == Written
      <4>1. w.file.data = a.file.data \o a.buf /\ w.file.synced = a.file.synced
        BY <3>2, <3>4
      <4>2. /\ x \in WritePath /\ x.buf = w.buf /\ x.size = w.size /\ x.exit = w.exit
            /\ x.file.data = w.file.data
            /\ x.file.synced \in {w.file.synced, Len(w.file.data)}
            /\ env.policy = "always" =>
                 x.file.synced = Len(w.file.data) \/ \A i \in 1..n : Safe(x, i)
        BY <2>3, <3>4, <3>5, TypeOfTryFsync
      <4> HIDE DEF w
      <4>3. w.size = a.size + Len(a.buf) /\ w.buf = <<>> /\ w.exit = a.exit
        BY <3>4 DEF w
      <4> QED BY <2>3, <4>1, <4>2, <4>3 DEF Wrote
    <3> QED BY <3>6
  <2> QED BY <2>1, <2>2, <2>3
<1> QED BY <1>1, <1>2, <1>3

-----------------------------------------------------------------------------
(* The invariant holds initially and is preserved by each action.           *)

LEMMA InitIInv == Init => IInv
<1> SUFFICES ASSUME Init PROVE IInv
  OBVIOUS
<1>1. <<>> \in Seq(Byte) /\ <<>> \in Seq({"cur", "old"}) /\ Bytes(0) = <<>> /\ Len(<<>>) = 0
       /\ <<>> \o <<>> = <<>>
  BY DEF Bytes
<1>2. /\ a.buf = <<>> /\ a.file.data = <<>> /\ a.file.synced = 0 /\ a.size = 0
      /\ a.exit = FALSE /\ child.ph = "none"
  BY DEF Init, NoChild
<1>4. env \in EnvType /\ env.err \in Nat
  BY AofAssumption DEF Init, EnvType
<1>3. a \in WritePath /\ child \in ChildType
  BY <1>1, <1>4 DEF Init, WritePath, FileType, NoChild, ChildType
<1>5. TypeOK
  BY <1>1, <1>3, <1>4 DEF Init, TypeOK
<1>6. FileInv /\ ChildInv /\ OffInv /\ CrashLoadable /\ SyncInv
  <2>1. FileInv
    BY <1>1, <1>2 DEF Init, FileInv
  <2>2. ChildInv /\ OffInv /\ CrashLoadable
    BY <1>1, <1>2 DEF Init, ChildInv, OffInv, CrashLoadable
  <2>3. SyncInv
    BY DEF Init, SyncInv
  <2> QED BY <2>1, <2>2, <2>3
<1>7. HistoryKept
  BY <1>1, <1>2 DEF Init, HistoryKept, FileIsHistory, RewriteIsHistory, SizeIsLength
<1> QED BY <1>5, <1>6, <1>7 DEF IInv

\* The fsync policy does not change.
SameSettings ==
    env'.policy = env.policy

\* What the invariant says of the file.
LEMMA FileFacts ==
  ASSUME IInv
  PROVE  /\ a \in WritePath /\ a.buf \in Seq(Byte) /\ a.file \in FileType
         /\ a.file.data \in Seq(Byte) /\ a.file.synced \in Nat /\ Len(a.file.data) \in Nat
         /\ Len(a.buf) \in Nat /\ a.size \in Nat /\ n \in Nat /\ 2 * n \in Nat
         /\ a.exit \in BOOLEAN /\ a.jobs \in Seq({"cur", "old"})
         /\ child.base \in Nat /\ child.diff \in Seq(Byte) /\ rw \in Seq(Byte)
         /\ dpipe \in Seq(Byte) /\ env.policy \in {"always", "everysec"}
BY LenProperties DEF IInv, TypeOK, WritePath, FileType, ChildType, EnvType

\* The file after a complete and after a short write.
LEMMA WroteFacts ==
  ASSUME IInv, NEW x \in WritePath, Wrote(x)
  PROVE  /\ x.file.data \in Seq(Byte) /\ Len(x.file.data) = Len(a.file.data) + Len(a.buf)
         /\ x.file.synced <= Len(x.file.data)
<1>1. x.file.data \in Seq(Byte) /\ Len(x.file.data) = Len(a.file.data) + Len(a.buf)
  BY FileFacts, Cat DEF Wrote
<1>2. x.file.synced = a.file.synced \/ x.file.synced = Len(x.file.data)
  BY DEF Wrote
<1>3. /\ a.file.synced <= Len(a.file.data) /\ a.file.synced \in Nat
      /\ Len(a.file.data) \in Nat /\ Len(a.buf) \in Nat
  BY FileFacts DEF IInv, FileInv
<1>4. /\ a.file.synced <= Len(a.file.data) + Len(a.buf)
      /\ Len(a.file.data) + Len(a.buf) <= Len(a.file.data) + Len(a.buf)
  BY <1>3, Fits
<1> QED BY <1>1, <1>2, <1>4

LEMMA ShortFacts ==
  ASSUME IInv, NEW x \in WritePath, NEW k \in 0..Len(a.buf), Short(x, k)
  PROVE  LET rest == SubSeq(a.buf, k + 1, Len(a.buf)) IN
         /\ x.file.data \in Seq(Byte) /\ Len(x.file.data) = Len(a.file.data) + k
         /\ x.file.synced <= Len(x.file.data)
         /\ rest \in Seq(Byte) /\ x.file.data \o rest = a.file.data \o a.buf
<1> DEFINE d == a.file.data
           b == a.buf
           head == SubSeq(b, 1, k)
           rest == SubSeq(b, k + 1, Len(b))
<1>1. d \in Seq(Byte) /\ b \in Seq(Byte) /\ Len(d) \in Nat /\ k \in Nat
  BY FileFacts
<1>2. head \in Seq(Byte) /\ rest \in Seq(Byte) /\ Len(head) = k /\ head \o rest = b
  BY <1>1, Cut
<1>3. x.file.data = d \o head /\ x.file.synced = a.file.synced
  BY DEF Short
<1> HIDE DEF d, b, head, rest
<1>4. d \o head \in Seq(Byte) /\ Len(d \o head) = Len(d) + k
  BY <1>1, <1>2, Cat
<1>5. (d \o head) \o rest = d \o b
  <2>1. (d \o head) \o rest = d \o (head \o rest)
    BY <1>1, <1>2, CatAssoc
  <2> QED BY <2>1, <1>2
<1>6. a.file.synced <= Len(d) /\ a.file.synced \in Nat
  BY FileFacts DEF IInv, FileInv, d
<1>7. a.file.synced <= Len(d) + k
  BY <1>1, <1>6
<1> QED BY <1>2, <1>3, <1>4, <1>5, <1>7 DEF d, b, rest

\* A flush, after which the replies R are sent.
LEMMA FlushIInv ==
  ASSUME IInv, phase = "run", NEW force \in BOOLEAN, NEW x \in flushAppendOnlyFile(force),
         NEW R, R = {} \/ R = Replied(x), handler' \in {"none", "barrier", "plain"},
         a' = x, phase' = PhaseOf(x), SameSettings, env' \in EnvType,
         acked' = acked \union R, owed' = owed \ R,
         UNCHANGED <<n, st, child, rw, dpipe, sched, other>>
  PROVE  IInv'
<1>f. /\ a.buf \in Seq(Byte) /\ a.file.data \in Seq(Byte) /\ a.file.synced \in Nat
      /\ Len(a.file.data) \in Nat /\ Len(a.buf) \in Nat /\ a.size \in Nat
      /\ n \in Nat /\ 2 * n \in Nat
  BY FileFacts
<1>0. TypeOK /\ FileInv /\ ChildInv /\ OffInv /\ HistoryKept /\ SyncInv
  BY DEF IInv
<1>1. x \in WritePath /\ (Kept(x) \/ Wrote(x) \/ \E k \in 0..Len(a.buf) : Short(x, k))
  BY <1>0, FlushOutcome
<1>2. R \subseteq owed /\ (x.exit => R = {})
  BY DEF Replied
<1>3. TypeOK'
  <2>1. phase' \in {"run", "renamed", "dead"}
    BY DEF PhaseOf
  <2> QED BY <1>0, <1>1, <1>2, <2>1 DEF TypeOK
<1>4. a.exit = FALSE /\ a.file.synced <= Len(a.file.data)
  BY <1>0, <1>f DEF FileInv
<1>5. x.exit \in BOOLEAN /\ phase' = (IF x.exit THEN "dead" ELSE "run")
  BY <1>1 DEF WritePath, PhaseOf
<1>6. ChildInv' /\ RewriteIsHistory'
  BY <1>0, <1>5 DEF ChildInv, HistoryKept, RewriteIsHistory
<1>7. st = "on" => a.file.data \o a.buf = Bytes(2 * n) /\ a.size = Len(a.file.data)
  BY <1>0 DEF HistoryKept, FileIsHistory, SizeIsLength
<1>8. CASE Kept(x)
  <2>1. x.exit = FALSE /\ phase' = "run" /\ x.file = a.file /\ x.buf = a.buf /\ x.size = a.size
    BY <1>8, <1>4, <1>5 DEF Kept
  <2>2. FileInv' /\ OffInv' /\ CrashLoadable'
    BY <2>1, <1>0, <1>4 DEF FileInv, OffInv, CrashLoadable, SameSettings
  <2>3. FileIsHistory' /\ SizeIsLength'
    BY <2>1, <1>7 DEF FileIsHistory, SizeIsLength
  <2>4. SyncInv'
    <3>1. \A i : Safe(x, i) <=> Safe(a, i)
      BY <1>8 DEF Kept, Safe
    <3>2. env.policy = "always" => a.buf = <<>>
      BY <1>8, <1>f DEF Kept
    <3> QED BY <2>1, <3>1, <3>2, <1>0, <1>2 DEF SyncInv, SameSettings
  <2> QED BY <1>3, <1>6, <2>2, <2>3, <2>4 DEF IInv, HistoryKept
<1>9. CASE Wrote(x)
  <2>1. x.exit = FALSE /\ phase' = "run" /\ x.buf = <<>> /\ st # "off"
        /\ x.file.data = a.file.data \o a.buf /\ x.size = a.size + Len(a.buf)
    BY <1>9, <1>4, <1>5 DEF Wrote
  <2>2. x.file.data \in Seq(Byte) /\ Len(x.file.data) = Len(a.file.data) + Len(a.buf)
    BY <1>1, <1>9, WroteFacts
  <2>3. x.file.synced <= Len(x.file.data)
    BY <1>1, <1>9, WroteFacts
  <2>4. FileInv' /\ OffInv' /\ CrashLoadable'
    BY <2>1, <2>3, <1>0, <1>4 DEF FileInv, OffInv, CrashLoadable, SameSettings
  <2>5. FileIsHistory' /\ SizeIsLength'
    <3>1. x.file.data \o <<>> = x.file.data
      BY <2>2, ConcatEmptySeq
    <3> QED BY <2>1, <2>2, <3>1, <1>7, FileFacts DEF FileIsHistory, SizeIsLength
  <2>6. SyncInv'
    <3> SUFFICES ASSUME env.policy = "always", st = "on", NEW i \in acked \union owed
                 PROVE  Safe(x, i)
      BY <1>2, <2>1 DEF SyncInv, SameSettings
    <3>0. i \in 1..n
      BY <1>0 DEF TypeOK
    <3>1. CASE x.file.synced = Len(x.file.data)
      <4>1. x.file.synced = 2 * n
        BY <3>1, <1>7, <2>1, <1>f, BytesSeq
      <4> QED BY <3>0, <4>1, <1>f DEF Safe
    <3>2. CASE \A j \in 1..n : Safe(x, j)
      BY <3>0, <3>2
    <3> QED BY <3>1, <3>2, <1>9 DEF Wrote
  <2> QED BY <1>3, <1>6, <2>4, <2>5, <2>6 DEF IInv, HistoryKept
<1>10. CASE \E k \in 0..Len(a.buf) : Short(x, k)
  <2> PICK k \in 0..Len(a.buf) : Short(x, k)
    BY <1>10
  <2> DEFINE rest == SubSeq(a.buf, k + 1, Len(a.buf))
  <2>1. a.buf # <<>> /\ \A i : Safe(x, i) <=> Safe(a, i)
    BY DEF Short, Safe
  <2>2. x.file.data \in Seq(Byte) /\ rest \in Seq(Byte)
    BY <1>1, ShortFacts
  <2>3. (env.policy = "always" => x.exit)
         /\ (env.policy # "always" => ~x.exit /\ x.buf = rest /\ x.size = a.size + k)
    BY DEF Short
  <2>4. Len(x.file.data) = Len(a.file.data) + k /\ x.file.synced <= Len(x.file.data)
    BY <1>1, ShortFacts
  <2>5. x.file.data \o rest = a.file.data \o a.buf
    BY <1>1, ShortFacts
  <2> HIDE DEF rest
  <2>6. FileInv'
    BY <1>5, <2>4 DEF FileInv
  <2>7. CASE env.policy = "always"
    <3>1. st = "on" /\ phase' = "dead" /\ x.exit = TRUE
      BY <2>1, <2>3, <2>7, <1>0, <1>5 DEF OffInv
    <3>2. x.file.data = Bytes(Len(x.file.data))
      <4>1. x.file.data \o rest = Bytes(2 * n)
        BY <3>1, <1>7, <2>5
      <4> QED BY <4>1, <2>2, <2>4, <1>f, PrefixOfBytes, Zenon
    <3>3. OffInv' /\ CrashLoadable' /\ FileIsHistory' /\ SizeIsLength'
      BY <3>1, <3>2 DEF OffInv, CrashLoadable, Loadable, FileIsHistory, SizeIsLength
    <3>4. SyncInv'
      BY <3>1, <1>0, <1>2, <2>1 DEF SyncInv, SameSettings
    <3> QED BY <1>3, <1>6, <2>6, <3>3, <3>4 DEF IInv, HistoryKept
  <2>8. CASE env.policy # "always"
    <3>1. x.exit = FALSE /\ phase' = "run" /\ x.buf = rest /\ x.size = a.size + k
      BY <2>3, <2>8, <1>5
    <3>2. OffInv' /\ CrashLoadable' /\ SyncInv'
      BY <3>1, <2>8 DEF OffInv, CrashLoadable, SyncInv, SameSettings
    <3>3. FileIsHistory' /\ SizeIsLength'
      BY <3>1, <1>7, <2>4, <2>5 DEF FileIsHistory, SizeIsLength
    <3> QED BY <1>3, <1>6, <2>6, <3>2, <3>3 DEF IInv, HistoryKept
  <2> QED BY <2>7, <2>8
<1> QED BY <1>1, <1>8, <1>9, <1>10

LEMMA BeforeSleepIInv == IInv /\ beforeSleep => IInv'
<1> SUFFICES ASSUME IInv, beforeSleep PROVE IInv'
  OBVIOUS
<1>1. PICK x \in flushAppendOnlyFile(FALSE) :
        /\ a' = x /\ phase' = PhaseOf(x)
        /\ \/ /\ acked' = acked \union Replied(x) /\ owed' = owed \ Replied(x)
              /\ UNCHANGED <<handler, env>>
           \/ /\ env.full > 0 /\ handler' \in WriteHandlers
              /\ env' = [env EXCEPT !.full = @ - 1]
              /\ UNCHANGED <<acked, owed>>
  BY DEF beforeSleep
<1>2. phase = "run" /\ UNCHANGED <<n, st, child, rw, dpipe, sched, other>>
  BY DEF beforeSleep
<1>0. env \in EnvType /\ handler \in {"none", "barrier", "plain"}
  BY DEF IInv, TypeOK
<1>3. CASE /\ acked' = acked \union Replied(x) /\ owed' = owed \ Replied(x)
           /\ UNCHANGED <<handler, env>>
  <2>1. env' \in EnvType /\ SameSettings /\ handler' \in {"none", "barrier", "plain"}
    BY <1>0, <1>3 DEF SameSettings
  <2> QED BY <1>1, <1>2, <1>3, <2>1, FlushIInv
<1>4. CASE /\ env.full > 0 /\ handler' \in WriteHandlers
           /\ env' = [env EXCEPT !.full = @ - 1]
           /\ UNCHANGED <<acked, owed>>
  <2>1. handler' \in {"none", "barrier", "plain"}
    BY <1>4 DEF WriteHandlers
  <2>2. env' \in EnvType /\ SameSettings
    <3>1. env.full - 1 \in Nat
      BY <1>0, <1>4 DEF EnvType
    <3> QED BY <1>0, <1>4, <3>1 DEF EnvType, SameSettings
  <2>3. acked' = acked \union {} /\ owed' = owed \ {}
    BY <1>4
  <2> QED BY <1>1, <1>2, <2>1, <2>2, <2>3, FlushIInv
<1> QED BY <1>1, <1>3, <1>4

\* What a handler sends is safe: with the barrier the buffer is empty, and
\* without it the code lets go what is not synced.
LEMMA SendReplyIInv == IInv /\ sendReplyToClient => IInv'
<1> SUFFICES ASSUME IInv, sendReplyToClient PROVE IInv'
  OBVIOUS
<1>1. /\ phase = "run" /\ handler # "none" /\ (handler = "barrier" => a.buf = <<>>)
      /\ acked' = acked \union owed /\ owed' = {} /\ handler' = "none"
      /\ a' = (IF handler = "plain" THEN Excuse(a, owed) ELSE a)
      /\ UNCHANGED <<n, st, child, rw, dpipe, sched, other, phase, env>>
  BY DEF sendReplyToClient
<1>0. /\ TypeOK /\ a \in WritePath /\ owed \subseteq 1..n
      /\ handler \in {"none", "barrier", "plain"}
  BY DEF IInv, TypeOK
<1>2. /\ a' \in WritePath /\ a'.buf = a.buf /\ a'.size = a.size /\ a'.exit = a.exit
      /\ a'.file = a.file /\ a.excused \subseteq a'.excused
      /\ handler = "plain" => \A i \in owed : Safe(a', i)
      /\ handler # "plain" => a' = a
  <2>1. CASE handler = "plain"
    <3>1. /\ Excuse(a, owed) \in WritePath /\ Excuse(a, owed).buf = a.buf
          /\ Excuse(a, owed).size = a.size /\ Excuse(a, owed).exit = a.exit
          /\ Excuse(a, owed).file = a.file
          /\ Excuse(a, owed).excused = a.excused \union Unsynced(a, owed)
          /\ \A i \in owed : Safe(Excuse(a, owed), i)
      BY <1>0, Excused
    <3> QED BY <1>1, <2>1, <3>1
  <2>2. CASE handler # "plain"
    BY <1>0, <1>1, <2>2
  <2> QED BY <2>1, <2>2
<1>3. TypeOK'
  BY <1>0, <1>1, <1>2 DEF TypeOK
<1>4. FileInv' /\ ChildInv' /\ OffInv' /\ CrashLoadable'
  BY <1>1, <1>2 DEF IInv, FileInv, ChildInv, OffInv, CrashLoadable, Loadable
<1>5. HistoryKept'
  BY <1>1, <1>2 DEF IInv, HistoryKept, FileIsHistory, RewriteIsHistory, SizeIsLength
<1>6. SyncInv'
  <2>1. \A i : Safe(a, i) => Safe(a', i)
    BY <1>2 DEF Safe
  <2>2. env.policy = "always" /\ st = "on" => \A i \in owed : Safe(a', i)
    BY <1>0, <1>1, <1>2, <2>1 DEF IInv, SyncInv
  <2> QED BY <1>1, <2>1, <2>2 DEF IInv, SyncInv
<1> QED BY <1>3, <1>4, <1>5, <1>6 DEF IInv

LEMMA CronFlushIInv == IInv /\ CronFlush => IInv'
<1> SUFFICES ASSUME IInv, CronFlush PROVE IInv'
  OBVIOUS
<1>1. PICK x \in flushAppendOnlyFile(FALSE) : a' = x /\ phase' = PhaseOf(x)
  BY DEF CronFlush
<1>2. phase = "run" /\ UNCHANGED <<n, owed, acked, handler, st, child, rw, dpipe, sched, other, env>>
  BY DEF CronFlush
<1>3. env' \in EnvType /\ SameSettings /\ handler' \in {"none", "barrier", "plain"}
  BY <1>2 DEF SameSettings, IInv, TypeOK
<1>4. acked' = acked \union {} /\ owed' = owed \ {}
  BY <1>2
<1> QED BY <1>1, <1>2, <1>3, <1>4, FlushIInv

\* A step that leaves the file, the commands and the state of the AOF alone.
LEMMA FrameIInv ==
  ASSUME IInv, TypeOK', ChildInv', RewriteIsHistory', SameSettings,
         UNCHANGED <<n, owed, acked, handler, st, phase>>,
         a'.file = a.file, a'.buf = a.buf, a'.size = a.size, a'.exit = a.exit,
         a'.excused = a.excused
  PROVE  IInv'
<1>1. FileInv' /\ OffInv' /\ CrashLoadable'
  BY DEF IInv, FileInv, OffInv, CrashLoadable, Loadable, SameSettings
<1>2. FileIsHistory' /\ SizeIsLength'
  BY DEF IInv, HistoryKept, FileIsHistory, SizeIsLength
<1>3. SyncInv'
  BY DEF IInv, SyncInv, Safe, SameSettings
<1> QED BY <1>1, <1>2, <1>3 DEF IInv, HistoryKept

LEMMA TickIInv == IInv /\ Tick => IInv'
<1> SUFFICES ASSUME IInv, Tick PROVE IInv'
  OBVIOUS
<1> DEFINE p == IF a.postponed = 1 THEN 2 ELSE a.postponed
<1>1. p \in {0, 1, 2} /\ a' = [a EXCEPT !.sec = TRUE, !.postponed = p] /\ a \in WritePath
  BY DEF IInv, TypeOK, WritePath, Tick
<1> HIDE DEF p
<1>2. a' \in WritePath /\ a'.file = a.file /\ a'.buf = a.buf /\ a'.size = a.size
       /\ a'.exit = a.exit /\ a'.excused = a.excused
  BY <1>1 DEF WritePath
<1>3. TypeOK' /\ ChildInv' /\ RewriteIsHistory' /\ SameSettings
  BY <1>2 DEF IInv, TypeOK, ChildInv, HistoryKept, RewriteIsHistory, SameSettings, Tick
<1> QED BY <1>2, <1>3, FrameIInv DEF Tick

\* An fsync in the background preserves the invariant, also when it fails.
LEMMA BioFsyncIInv == IInv /\ BioFsync => IInv'
<1> SUFFICES ASSUME IInv, BioFsync PROVE IInv'
  OBVIOUS
<1>1. PICK x \in IF Head(a.jobs) = "cur" THEN redis_fsync(a) ELSE {a} :
        a' = [x EXCEPT !.jobs = Tail(@)]
  BY DEF BioFsync
<1>2. /\ phase = "run" /\ a.jobs # <<>>
      /\ UNCHANGED <<n, owed, acked, handler, st, child, rw, dpipe, sched, other, phase, env>>
  BY DEF BioFsync
<1>0. /\ TypeOK /\ a \in WritePath /\ Len(a.file.data) \in Nat /\ a.file.synced \in Nat
      /\ a.file.synced <= Len(a.file.data) /\ n \in Nat
  BY FileFacts DEF IInv, FileInv
<1>3. /\ x \in WritePath /\ x.buf = a.buf /\ x.size = a.size /\ x.exit = a.exit
      /\ x.jobs = a.jobs /\ x.file.data = a.file.data /\ a.excused \subseteq x.excused
      /\ x.file.synced = Len(a.file.data) \/ x.file = a.file
  <2>1. CASE x \in redis_fsync(a)
    BY <1>0, <2>1, TypeOfFsync DEF Fsynced
  <2>2. CASE x = a
    BY <1>0, <2>2
  <2> QED BY <1>1, <2>1, <2>2
<1>4. Tail(x.jobs) \in Seq({"cur", "old"})
  BY <1>2, <1>3, FileFacts
<1>5. /\ a' \in WritePath /\ a'.file = x.file /\ a'.buf = x.buf /\ a'.size = x.size
      /\ a'.exit = x.exit /\ a'.excused = x.excused
  BY <1>1, <1>3, <1>4 DEF WritePath
<1>6. TypeOK' /\ ChildInv' /\ OffInv' /\ CrashLoadable'
  BY <1>2, <1>3, <1>5 DEF IInv, TypeOK, ChildInv, OffInv, CrashLoadable
<1>7. FileInv' /\ HistoryKept'
  <2>1. /\ a'.file.data = a.file.data /\ a'.buf = a.buf /\ a'.size = a.size
        /\ a'.exit = a.exit
    BY <1>3, <1>5
  <2>2. a'.file.synced <= Len(a'.file.data)
    BY <1>0, <1>3, <1>5
  <2>3. FileInv'
    BY <1>2, <2>1, <2>2 DEF IInv, FileInv
  <2>4. HistoryKept'
    BY <1>2, <2>1 DEF IInv, HistoryKept, FileIsHistory, RewriteIsHistory, SizeIsLength
  <2> QED BY <2>3, <2>4
<1>8. SyncInv'
  <2>1. ASSUME NEW i \in Nat, Safe(a, i) PROVE Safe(a', i)
    <3>1. a.file.synced <= a'.file.synced
      BY <1>0, <1>3, <1>5
    <3>2. a'.file.synced \in Nat
      BY <1>5 DEF WritePath, FileType
    <3> QED BY <1>0, <1>3, <1>5, <2>1, <3>1, <3>2 DEF Safe
  <2>2. acked \subseteq Nat /\ owed \subseteq Nat
    BY <1>0 DEF TypeOK
  <2>3. a'.buf = a.buf
    BY <1>3, <1>5
  <2> QED BY <1>2, <2>1, <2>2, <2>3 DEF IInv, SyncInv
<1> QED BY <1>6, <1>7, <1>8 DEF IInv

\* A command extends the history, and with it what is in the file and the
\* buffer and what the rewrite has.
LEMMA FeedIInv == IInv /\ feedAppendOnlyFile => IInv'
<1> SUFFICES ASSUME IInv, feedAppendOnlyFile PROVE IInv'
  OBVIOUS
<1> DEFINE cmd == <<2 * n + 1, 2 * n + 2>>
<1>f. /\ a \in WritePath /\ a.buf \in Seq(Byte) /\ a.file.data \in Seq(Byte)
      /\ n \in Nat /\ rw \in Seq(Byte) /\ dpipe \in Seq(Byte)
      /\ child.base \in Nat /\ child.diff \in Seq(Byte) /\ a.file.synced \in Nat
  BY FileFacts
<1>0. cmd \in Seq(Byte) /\ cmd # <<>>
  BY <1>f DEF Byte
<1>1. /\ phase = "run" /\ n' = n + 1 /\ owed' = owed \union {n + 1}
      /\ a' = (IF st = "on" THEN [a EXCEPT !.buf = @ \o cmd] ELSE a)
      /\ rw' = (IF st # "off" /\ child.ph # "none" THEN rw \o cmd ELSE rw)
      /\ UNCHANGED <<acked, handler, st, child, dpipe, sched, other, phase, env>>
  BY DEF feedAppendOnlyFile, AofChild, aofRewriteBufferAppend
<1>2. Bytes(2 * n) \o cmd = Bytes(2 * n')
  BY <1>f, <1>1, BytesGrow
<1> HIDE DEF cmd
<1>3. a.buf \o cmd \in Seq(Byte) /\ rw \o cmd \in Seq(Byte) /\ a.buf \o cmd # <<>>
  <2>1. a.buf \o cmd \in Seq(Byte) /\ rw \o cmd \in Seq(Byte)
    BY <1>0, <1>f, Cat
  <2>2. a.buf \o cmd # <<>>
    BY <1>0, <1>f, ConcatEqualIffEmpty
  <2> QED BY <2>1, <2>2
<1>4. /\ a' \in WritePath /\ a'.file = a.file /\ a'.size = a.size /\ a'.exit = a.exit
      /\ a'.excused = a.excused
      /\ st = "on" => a'.buf = a.buf \o cmd
      /\ st # "on" => a' = a
  BY <1>f, <1>1, <1>3 DEF WritePath
<1>5. rw' \in Seq(Byte)
  BY <1>1, <1>3, <1>f
<1>6. TypeOK'
  <2>1. n' \in Nat /\ owed' \subseteq 1..n' /\ acked' \subseteq 1..n'
    <3>1. owed \subseteq 1..n /\ acked \subseteq 1..n
      BY DEF IInv, TypeOK
    <3> QED BY <3>1, <1>1, <1>f
  <2> QED BY <2>1, <1>1, <1>4, <1>5 DEF IInv, TypeOK
<1>7. FileInv' /\ ChildInv' /\ OffInv' /\ CrashLoadable'
  BY <1>1, <1>4 DEF IInv, FileInv, ChildInv, OffInv, CrashLoadable
<1>8. FileIsHistory' /\ SizeIsLength'
  <2>1. CASE st = "on"
    <3>1. a.file.data \o a.buf = Bytes(2 * n)
      BY <2>1, <1>1 DEF IInv, HistoryKept, FileIsHistory
    <3>2. a.file.data \o (a.buf \o cmd) = (a.file.data \o a.buf) \o cmd
      BY <1>0, <1>f, CatAssoc, ZenonT(30)
    <3>3. a'.file.data \o a'.buf = Bytes(2 * n')
      BY <2>1, <1>2, <1>4, <3>1, <3>2
    <3> QED BY <3>3, <1>1, <1>4 DEF IInv, HistoryKept, FileIsHistory, SizeIsLength
  <2>2. CASE st # "on"
    BY <2>2, <1>1 DEF FileIsHistory, SizeIsLength
  <2> QED BY <2>1, <2>2
<1>9. RewriteIsHistory'
  <2> SUFFICES ASSUME st # "off", child.ph \in {"dump", "asked", "ok"}
               PROVE  Bytes(child.base) \o child.diff \o dpipe \o rw' = Bytes(2 * n')
    BY <1>1 DEF RewriteIsHistory
  <2> DEFINE pre == Bytes(child.base) \o child.diff \o dpipe
  <2>1. rw' = rw \o cmd
    BY <1>1
  <2>2. pre \o rw = Bytes(2 * n)
    BY <1>1 DEF IInv, HistoryKept, RewriteIsHistory
  <2>3. pre \in Seq(Byte)
    <3>1. Bytes(child.base) \in Seq(Byte)
      BY <1>f, BytesSeq
    <3>2. Bytes(child.base) \o child.diff \in Seq(Byte)
      BY <3>1, <1>f, Cat
    <3> QED BY <3>2, <1>f, Cat
  <2> HIDE DEF pre
  <2>4. pre \o (rw \o cmd) = (pre \o rw) \o cmd
    BY <2>3, <1>0, <1>f, CatAssoc
  <2> QED BY <2>1, <2>2, <2>4, <1>2 DEF pre
<1>10. SyncInv'
  BY <1>1, <1>3, <1>4 DEF IInv, SyncInv, Safe
<1> QED BY <1>6, <1>7, <1>8, <1>9, <1>10 DEF IInv, HistoryKept

\* A rewrite that starts has the whole history in its snapshot.
LEMMA ForkFacts ==
  ASSUME IInv, rewriteAppendOnlyFileBackground, rw' = <<>>, n' = n
  PROVE  /\ child' \in ChildType /\ dpipe' \in Seq(Byte) /\ rw' \in Seq(Byte) /\ sched' \in BOOLEAN
         /\ child'.ph = "dump" /\ RewriteIsHistory'
<1>1. n \in Nat /\ 2 * n \in Nat
  BY FileFacts
<1>2. Bytes(2 * n) \in Seq(Byte)
  BY <1>1, BytesSeq
<1>3. <<>> \in Seq(Byte) /\ Bytes(2 * n) \o <<>> = Bytes(2 * n)
  BY <1>2, ConcatEmptySeq
<1>4. /\ child' = [ph |-> "dump", base |-> 2 * n, diff |-> <<>>, stop |-> FALSE]
      /\ dpipe' = <<>> /\ sched' = FALSE
  BY DEF rewriteAppendOnlyFileBackground
<1>5. Bytes(child'.base) \o child'.diff \o dpipe' \o rw' = Bytes(2 * n')
  BY <1>3, <1>4
<1> QED BY <1>1, <1>3, <1>4, <1>5 DEF ChildType, RewriteIsHistory

LEMMA BgrewriteaofIInv == IInv /\ bgrewriteaofCommand => IInv'
<1> SUFFICES ASSUME IInv, bgrewriteaofCommand PROVE IInv'
  OBVIOUS
<1>1. /\ phase = "run" /\ child.ph = "none" /\ env.rewrite > 0
      /\ env' = [env EXCEPT !.rewrite = @ - 1]
      /\ UNCHANGED <<n, owed, acked, handler, st, a, rw, other, phase>>
      /\ IF other THEN sched' = TRUE /\ UNCHANGED <<child, dpipe>>
         ELSE rewriteAppendOnlyFileBackground
  BY DEF bgrewriteaofCommand, AofChild
<1>2. env' \in EnvType /\ SameSettings
  BY <1>1, SMTT(30) DEF IInv, TypeOK, EnvType, SameSettings
<1>3. rw = <<>>
  BY <1>1 DEF IInv, ChildInv
<1>4. CASE other
  <2>1. TypeOK'
    BY <1>1, <1>2, <1>4 DEF IInv, TypeOK
  <2>2. ChildInv' /\ RewriteIsHistory'
    BY <1>1, <1>4 DEF IInv, ChildInv, HistoryKept, RewriteIsHistory
  <2> QED BY <2>1, <2>2, <1>1, <1>2, FrameIInv
<1>5. CASE ~other
  <2>1. /\ child' \in ChildType /\ dpipe' \in Seq(Byte) /\ sched' \in BOOLEAN
        /\ child'.ph = "dump" /\ RewriteIsHistory'
    BY <1>1, <1>3, <1>5, ForkFacts
  <2>2. TypeOK'
    BY <1>1, <1>2, <2>1 DEF IInv, TypeOK
  <2>3. ChildInv'
    BY <1>1, <2>1 DEF ChildInv
  <2> QED BY <2>1, <2>2, <2>3, <1>1, <1>2, FrameIInv
<1> QED BY <1>4, <1>5

LEMMA CronRewriteIInv == IInv /\ CronRewrite => IInv'
<1> SUFFICES ASSUME IInv, CronRewrite PROVE IInv'
  OBVIOUS
<1>1. /\ phase = "run" /\ child.ph = "none" /\ rewriteAppendOnlyFileBackground
      /\ UNCHANGED <<n, owed, acked, handler, st, a, rw, other, phase, env>>
  BY DEF CronRewrite, hasActiveChildProcess, AofChild
<1>2. rw = <<>> /\ SameSettings
  BY <1>1 DEF IInv, ChildInv, SameSettings
<1>3. /\ child' \in ChildType /\ dpipe' \in Seq(Byte) /\ sched' \in BOOLEAN
      /\ child'.ph = "dump" /\ RewriteIsHistory'
  BY <1>1, <1>2, ForkFacts
<1>4. TypeOK'
  BY <1>1, <1>3 DEF IInv, TypeOK
<1>5. ChildInv'
  BY <1>1, <1>3 DEF ChildInv
<1> QED BY <1>1, <1>2, <1>3, <1>4, <1>5, FrameIInv

\* What the rewrite has, in the order in which it will be in the file.
LEMMA RewriteFacts ==
  ASSUME IInv
  PROVE  /\ Bytes(child.base) \in Seq(Byte) /\ Bytes(child.base) \o child.diff \in Seq(Byte)
         /\ Bytes(child.base) \o child.diff \o dpipe \in Seq(Byte)
         /\ (Bytes(child.base) \o child.diff) \o dpipe = Bytes(child.base) \o (child.diff \o dpipe)
         /\ child.diff \o dpipe \in Seq(Byte)
         /\ (Bytes(child.base) \o (child.diff \o dpipe)) \o <<>>
              = Bytes(child.base) \o (child.diff \o dpipe)
<1>f. child.base \in Nat /\ child.diff \in Seq(Byte) /\ dpipe \in Seq(Byte)
  BY FileFacts
<1>1. Bytes(child.base) \in Seq(Byte)
  BY <1>f, BytesSeq
<1>2. Bytes(child.base) \o child.diff \in Seq(Byte) /\ child.diff \o dpipe \in Seq(Byte)
  BY <1>1, <1>f, Cat
<1>3. (Bytes(child.base) \o child.diff) \o dpipe \in Seq(Byte)
  BY <1>2, <1>f, Cat
<1>4. (Bytes(child.base) \o child.diff) \o dpipe = Bytes(child.base) \o (child.diff \o dpipe)
  BY <1>1, <1>f, CatAssoc
<1>5. Bytes(child.base) \o (child.diff \o dpipe) \in Seq(Byte)
  BY <1>3, <1>4
<1>6. (Bytes(child.base) \o (child.diff \o dpipe)) \o <<>>
        = Bytes(child.base) \o (child.diff \o dpipe)
  BY <1>5, ConcatEmptySeq
<1> QED BY <1>1, <1>2, <1>3, <1>4, <1>6

LEMMA WriteDiffIInv == IInv /\ aofChildWriteDiffData => IInv'
<1> SUFFICES ASSUME IInv, aofChildWriteDiffData PROVE IInv'
  OBVIOUS
<1>1. /\ phase = "run" /\ child.ph # "none" /\ rw # <<>> /\ ~child.stop
      /\ dpipe' = Append(dpipe, Head(rw)) /\ rw' = Tail(rw)
      /\ UNCHANGED <<n, owed, acked, handler, st, a, child, sched, other, phase, env>>
  BY DEF aofChildWriteDiffData, AofChild
<1>2. rw \in Seq(Byte) /\ dpipe \in Seq(Byte)
  BY FileFacts
<1>3. dpipe' \in Seq(Byte) /\ rw' \in Seq(Byte) /\ dpipe' \o rw' = dpipe \o rw
  BY <1>1, <1>2, MoveHead
<1> DEFINE pre == Bytes(child.base) \o child.diff
<1>4. pre \in Seq(Byte)
  BY RewriteFacts
<1> HIDE DEF pre
<1>5. (pre \o dpipe') \o rw' = (pre \o dpipe) \o rw
  <2>1. (pre \o dpipe') \o rw' = pre \o (dpipe' \o rw')
    BY <1>3, <1>4, CatAssoc
  <2>2. (pre \o dpipe) \o rw = pre \o (dpipe \o rw)
    BY <1>2, <1>4, CatAssoc
  <2> QED BY <2>1, <2>2, <1>3
<1>6. RewriteIsHistory'
  BY <1>1, <1>5 DEF pre, IInv, HistoryKept, RewriteIsHistory
<1>7. TypeOK' /\ ChildInv' /\ SameSettings
  BY <1>1, <1>3 DEF IInv, TypeOK, ChildInv, SameSettings
<1> QED BY <1>1, <1>6, <1>7, FrameIInv

\* A step of the child that moves what is in the pipe to its difference.
LEMMA ChildReads ==
  ASSUME IInv, NEW ph \in {"dump", "ok"}, phase # "dead",
         child.ph = "dump" \/ (child.ph = "asked" /\ child.stop),
         ph = "ok" => child.stop,
         child' = [child EXCEPT !.ph = ph, !.diff = @ \o dpipe], dpipe' = <<>>,
         UNCHANGED <<n, owed, acked, handler, st, a, rw, sched, other, phase, env>>
  PROVE  IInv'
<1>1. child \in ChildType /\ <<>> \in Seq(Byte)
  BY DEF IInv, TypeOK
<1>2. child.diff \o dpipe \in Seq(Byte)
  BY RewriteFacts
<1>3. /\ child' \in ChildType /\ child'.ph = ph /\ child'.base = child.base
      /\ child'.diff = child.diff \o dpipe /\ child'.stop = child.stop
  BY <1>1, <1>2 DEF ChildType
<1>4. TypeOK' /\ SameSettings
  BY <1>1, <1>3 DEF IInv, TypeOK, SameSettings
<1>5. ChildInv'
  BY <1>3 DEF IInv, ChildInv
<1>6. RewriteIsHistory'
  <2>1. Bytes(child'.base) \o child'.diff \o dpipe' \o rw'
          = Bytes(child.base) \o child.diff \o dpipe \o rw
    BY <1>3, RewriteFacts
  <2> QED BY <2>1, <1>3 DEF IInv, HistoryKept, RewriteIsHistory
<1> QED BY <1>4, <1>5, <1>6, FrameIInv

\* At most the number of errors left changes.
ErrorsOnly ==
    /\ a' \in WritePath /\ a'.file = a.file /\ a'.buf = a.buf /\ a'.size = a.size
    /\ a'.exit = a.exit /\ a'.excused = a.excused

LEMMA ErrorsType ==
  ASSUME IInv, NEW err \in Nat, a' = [a EXCEPT !.err = err]
  PROVE  ErrorsOnly
BY DEF IInv, TypeOK, WritePath, ErrorsOnly

\* A step of the child that changes neither its difference nor the pipe.
LEMMA ChildMoves ==
  ASSUME IInv, NEW ph \in {"asked", "err"}, NEW stop \in BOOLEAN, phase # "dead",
         child.ph \in {"dump", "asked"},
         child' = [child EXCEPT !.ph = ph, !.stop = stop], NEW err \in Nat,
         a' = [a EXCEPT !.err = err],
         UNCHANGED <<n, owed, acked, handler, st, rw, dpipe, sched, other, phase, env>>
  PROVE  IInv'
<1>1. child \in ChildType
  BY DEF IInv, TypeOK
<1>3. /\ child' \in ChildType /\ child'.ph = ph /\ child'.base = child.base
      /\ child'.diff = child.diff
  BY <1>1 DEF ChildType
<1>2. ErrorsOnly
  BY ErrorsType
<1>4. TypeOK' /\ SameSettings
  BY <1>1, <1>2, <1>3 DEF IInv, TypeOK, ErrorsOnly, SameSettings
<1>5. ChildInv'
  BY <1>2, <1>3 DEF IInv, ChildInv, ErrorsOnly
<1>6. RewriteIsHistory'
  BY <1>3 DEF IInv, HistoryKept, RewriteIsHistory
<1> QED BY <1>2, <1>4, <1>5, <1>6, FrameIInv DEF ErrorsOnly

LEMMA ChildIInv == IInv /\ (ChildStep \/ aofChildPipeReadable) => IInv'
<1> SUFFICES ASSUME IInv, ChildStep \/ aofChildPipeReadable PROVE IInv'
  OBVIOUS
<1>0. /\ child \in ChildType /\ child.stop \in BOOLEAN /\ a.err \in Nat
      /\ a = [a EXCEPT !.err = a.err]
  BY DEF IInv, TypeOK, ChildType, WritePath
<1>1. CASE aofReadDiffFromParent
  <2>1. child' = [child EXCEPT !.ph = "dump", !.diff = @ \o dpipe]
    BY <1>0, <1>1 DEF aofReadDiffFromParent, ChildType
  <2> QED BY <1>1, <2>1, ChildReads DEF aofReadDiffFromParent
<1>2. CASE ChildAsksToStop
  <2>1. child' = [child EXCEPT !.ph = "asked", !.stop = child.stop]
    BY <1>0, <1>2 DEF ChildAsksToStop, ChildType
  <2>2. child.ph \in {"dump", "asked"} /\ phase # "dead" /\ a' = [a EXCEPT !.err = a.err]
        /\ UNCHANGED <<n, owed, acked, handler, st, rw, dpipe, sched, other, phase, env>>
    BY <1>0, <1>2 DEF ChildAsksToStop
  <2> QED BY <1>0, <2>1, <2>2, ChildMoves
<1>3. CASE aofChildPipeReadable
  <2>1. child' = [child EXCEPT !.ph = "asked", !.stop = TRUE]
    BY <1>0, <1>3 DEF aofChildPipeReadable, ChildType
  <2>2. child.ph \in {"dump", "asked"} /\ phase # "dead" /\ a' = [a EXCEPT !.err = a.err]
        /\ UNCHANGED <<n, owed, acked, handler, st, rw, dpipe, sched, other, phase, env>>
    BY <1>0, <1>3 DEF aofChildPipeReadable
  <2> QED BY <1>0, <2>1, <2>2, ChildMoves
<1>4. CASE ChildFinishes
  BY <1>4, ChildReads DEF ChildFinishes
<1>5. CASE ChildFails
  <2>1. child' = [child EXCEPT !.ph = "err", !.stop = child.stop]
    BY <1>0, <1>5 DEF ChildFails, ChildType
  <2>2. child.ph \in {"dump", "asked"} /\ phase # "dead" /\ a' = [a EXCEPT !.err = a.err - 1]
        /\ UNCHANGED <<n, owed, acked, handler, st, rw, dpipe, sched, other, phase, env>>
        /\ a.err - 1 \in Nat
    BY <1>0, <1>5 DEF ChildFails
  <2> QED BY <1>0, <2>1, <2>2, ChildMoves
<1> QED BY <1>1, <1>2, <1>3, <1>4, <1>5 DEF ChildStep

LEMMA NoChildFacts ==
  /\ NoChild \in ChildType /\ NoChild.ph = "none" /\ <<>> \in Seq(Byte)
BY DEF NoChild, ChildType

\* The rename puts the whole history in place; what the parent added last is
\* not synced yet.
LEMMA RenameIInv == IInv /\ RewriteRename => IInv'
<1> SUFFICES ASSUME IInv, RewriteRename PROVE IInv'
  OBVIOUS
<1>1. /\ phase = "run" /\ child.ph = "ok" /\ a' = [a EXCEPT !.file = Rewritten]
      /\ UNCHANGED <<n, owed, acked, handler, st, other, env>>
  BY DEF RewriteRename
<1>2. dpipe = <<>>
  BY <1>1 DEF IInv, ChildInv
<1> DEFINE pre == Bytes(child.base) \o child.diff
<1>f. /\ a \in WritePath /\ child.base \in Nat /\ child.diff \in Seq(Byte) /\ rw \in Seq(Byte)
  BY FileFacts
<1>3. pre \in Seq(Byte) /\ Len(pre) = child.base + Len(child.diff) /\ Len(pre) \in Nat
  <2>1. Bytes(child.base) \in Seq(Byte) /\ Len(Bytes(child.base)) = child.base
    BY <1>f, BytesSeq
  <2>2. pre \in Seq(Byte) /\ Len(pre) = Len(Bytes(child.base)) + Len(child.diff)
    BY <2>1, <1>f, Cat
  <2>3. Len(pre) \in Nat
    BY <2>2, LenProperties
  <2> QED BY <2>1, <2>2, <2>3
<1>4. Rewritten = [data |-> pre \o rw, synced |-> child.base + Len(child.diff)]
  BY DEF Rewritten
<1> HIDE DEF pre
<1>5. pre \o rw \in Seq(Byte) /\ Len(pre) <= Len(pre \o rw)
  <2>1. pre \o rw \in Seq(Byte) /\ Len(pre \o rw) = Len(pre) + Len(rw) /\ Len(rw) \in Nat
    BY <1>3, <1>f, Cat
  <2> QED BY <2>1, <1>3, Fits
<1>6. /\ Rewritten \in FileType /\ Rewritten.data = pre \o rw
      /\ Rewritten.synced <= Len(Rewritten.data)
  BY <1>3, <1>4, <1>5 DEF FileType
<1>7. /\ a' \in WritePath /\ a'.file = Rewritten /\ a'.buf = a.buf /\ a'.size = a.size
      /\ a'.exit = a.exit
  BY <1>1, <1>6, <1>f DEF WritePath
<1>8. st # "off" => pre \o rw = Bytes(2 * n)
  <2>1. pre \o <<>> = pre
    BY <1>3, ConcatEmptySeq
  <2> QED BY <2>1, <1>1, <1>2 DEF pre, IInv, HistoryKept, RewriteIsHistory
<1>9. CASE st = "off"
  <2>1. /\ child' = NoChild /\ rw' = <<>> /\ dpipe' = <<>> /\ phase' = "run"
        /\ sched' = (sched \/ st = "wait")
    BY <1>1, <1>9 DEF RewriteRename, Cleanup
  <2>2. TypeOK'
    BY <2>1, <1>1, <1>7, NoChildFacts DEF IInv, TypeOK
  <2>3. FileInv' /\ ChildInv' /\ OffInv' /\ CrashLoadable'
    BY <2>1, <1>1, <1>6, <1>7, NoChildFacts DEF IInv, FileInv, ChildInv, OffInv, CrashLoadable
  <2>4. HistoryKept' /\ SyncInv'
    BY <2>1, <1>1, <1>9
       DEF HistoryKept, FileIsHistory, RewriteIsHistory, SizeIsLength, SyncInv
  <2> QED BY <2>2, <2>3, <2>4 DEF IInv
<1>10. CASE st # "off"
  <2>1. phase' = "renamed" /\ UNCHANGED <<child, rw, dpipe, sched>>
    BY <1>10 DEF RewriteRename
  <2>2. TypeOK'
    BY <2>1, <1>1, <1>7 DEF IInv, TypeOK
  <2>3. FileInv' /\ ChildInv' /\ OffInv' /\ CrashLoadable'
    BY <2>1, <1>1, <1>6, <1>7, <1>8, <1>10 DEF IInv, FileInv, ChildInv, OffInv, CrashLoadable
  <2>4. HistoryKept' /\ SyncInv'
    BY <2>1 DEF HistoryKept, FileIsHistory, RewriteIsHistory, SizeIsLength, SyncInv
  <2> QED BY <2>2, <2>3, <2>4 DEF IInv
<1> QED BY <1>9, <1>10

\* After the switch the file is the history and, with appendfsync always, all
\* of it is synced.
LEMMA SwitchIInv == IInv /\ RewriteSwitch => IInv'
<1> SUFFICES ASSUME IInv, RewriteSwitch PROVE IInv'
  OBVIOUS
<1>1. /\ phase = "renamed" /\ phase' = "run" /\ a' \in AfterRewrite(a) /\ st' = "on"
      /\ child' = NoChild /\ rw' = <<>> /\ dpipe' = <<>> /\ sched' = (sched \/ "on" = "wait")
      /\ UNCHANGED <<n, owed, acked, handler, other, env>>
  BY DEF RewriteSwitch, Cleanup
<1>2. a.file.data = Bytes(2 * n) /\ a.exit = FALSE /\ a.file.synced <= Len(a.file.data)
  BY <1>1, FileFacts DEF IInv, ChildInv, FileInv
<1>f. /\ a \in WritePath /\ a.file \in FileType /\ n \in Nat /\ 2 * n \in Nat
      /\ a.file.data \in Seq(Byte) /\ Len(a.file.data) \in Nat /\ a.file.synced \in Nat
      /\ a.jobs \in Seq({"cur", "old"})
  BY FileFacts
<1> DEFINE old == [i \in 1..Len(a.jobs) |-> "old"]
           len == Len(a.file.data)
<1>3. old \in Seq({"cur", "old"})
  <2>1. Len(a.jobs) \in Nat
    BY <1>f, LenProperties
  <2> QED BY <2>1, IsASeq
<1>4. ASSUME NEW new \in Seq({"cur", "old"})
      PROVE  LET w == Switched(a, new) IN
             /\ w \in WritePath /\ w.file = a.file /\ w.size = len /\ w.buf = <<>>
             /\ w.exit = a.exit
  <2> DEFINE j == old \o new
  <2>1. j \in Seq({"cur", "old"})
    <3> HIDE DEF old
    <3> QED BY <1>3, ConcatProperties
  <2>2. Switched(a, new) = [a EXCEPT !.jobs = j, !.excused = {}, !.size = len, !.fsoff = len,
                                     !.buf = <<>>]
    BY DEF Switched
  <2>3. <<>> \in Seq(Byte) /\ len \in Nat /\ {} \in SUBSET Nat
    BY <1>f
  <2> HIDE DEF j, len
  <2> QED BY <2>1, <2>2, <2>3, <1>f DEF WritePath
<1>5. /\ a' \in WritePath /\ a'.file.data = a.file.data /\ a'.size = len /\ a'.buf = <<>>
      /\ a'.exit = a.exit /\ a'.file.synced <= len
      /\ env.policy = "always" => a'.file.synced = len \/ \A i \in 1..n : Safe(a', i)
  <2>1. <<>> \in Seq({"cur", "old"}) /\ <<"cur">> \in Seq({"cur", "old"})
    OBVIOUS
  <2>2. CASE env.policy = "always"
    <3> DEFINE w == Switched(a, <<>>)
    <3>1. /\ w \in WritePath /\ w.file = a.file /\ w.size = len /\ w.buf = <<>>
          /\ w.exit = a.exit
      BY <1>4, <2>1
    <3>2. a' \in redis_fsync(w)
      BY <1>1, <2>2 DEF AfterRewrite
    <3> HIDE DEF w
    <3>3. Fsynced(w, a')
      BY <3>1, <3>2, TypeOfFsync DEF IInv
    <3> QED BY <1>2, <1>f, <3>1, <3>3 DEF Fsynced
  <2>3. CASE env.policy # "always"
    <3>1. a' = Switched(a, <<"cur">>)
      BY <1>1, <2>3 DEF AfterRewrite
    <3> QED BY <1>2, <1>4, <2>1, <2>3, <3>1
  <2> QED BY <2>2, <2>3
<1> HIDE DEF len
<1>8. TypeOK'
  BY <1>1, <1>5, NoChildFacts DEF IInv, TypeOK
<1>9. FileInv' /\ ChildInv' /\ OffInv' /\ CrashLoadable'
  BY <1>1, <1>2, <1>5, NoChildFacts DEF FileInv, ChildInv, OffInv, CrashLoadable, len
<1>10. HistoryKept'
  <2>1. a.file.data \o <<>> = a.file.data
    BY <1>f, ConcatEmptySeq
  <2> QED BY <2>1, <1>1, <1>2, <1>5, NoChildFacts
          DEF HistoryKept, FileIsHistory, RewriteIsHistory, SizeIsLength, len
<1>11. SyncInv'
  <2> SUFFICES ASSUME env.policy = "always", NEW i \in acked \union owed PROVE Safe(a', i)
    BY <1>1 DEF SyncInv
  <2>1. i \in 1..n
    BY DEF IInv, TypeOK
  <2>2. len = 2 * n
    BY <1>2, <1>f, BytesSeq DEF len
  <2>3. CASE a'.file.synced = len
    BY <2>1, <2>2, <2>3, <1>f DEF Safe
  <2> QED BY <2>1, <2>3, <1>5
<1> QED BY <1>8, <1>9, <1>10, <1>11 DEF IInv

\* A step after which no child is left.
LEMMA ChildGone ==
  ASSUME IInv, phase = "run", child' = NoChild, rw' = <<>>, dpipe' = <<>>, sched' \in BOOLEAN,
         SameSettings, env' \in EnvType, ErrorsOnly,
         UNCHANGED <<n, owed, acked, handler, st, other, phase>>
  PROVE  IInv'
<1>1. TypeOK'
  BY NoChildFacts DEF IInv, TypeOK, ErrorsOnly
<1>2. ChildInv' /\ RewriteIsHistory'
  BY NoChildFacts DEF ChildInv, RewriteIsHistory
<1> QED BY <1>1, <1>2, FrameIInv DEF ErrorsOnly

LEMMA RewriteFailedIInv == IInv /\ RewriteFailed => IInv'
<1> SUFFICES ASSUME IInv, RewriteFailed PROVE IInv'
  OBVIOUS
<1> DEFINE left == IF child.ph = "ok" THEN a.err - 1 ELSE a.err
<1>1. left \in Nat /\ a' = [a EXCEPT !.err = left] /\ env \in EnvType /\ env' = env
  BY DEF IInv, TypeOK, WritePath, RewriteFailed
<1> HIDE DEF left
<1>2. env' \in EnvType /\ SameSettings /\ ErrorsOnly
  BY <1>1, ErrorsType DEF SameSettings
<1>3. /\ child' = NoChild /\ rw' = <<>> /\ dpipe' = <<>> /\ sched' = (sched \/ st = "wait")
      /\ phase = "run" /\ UNCHANGED <<n, owed, acked, handler, st, other, phase>>
  BY DEF RewriteFailed, Cleanup
<1>4. sched' \in BOOLEAN
  BY <1>3
<1> QED BY <1>2, <1>3, <1>4, ChildGone

LEMMA StartFailsIInv == IInv /\ startAppendOnlyFails => IInv'
<1> SUFFICES ASSUME IInv, startAppendOnlyFails PROVE IInv'
  OBVIOUS
<1>0. env \in EnvType /\ env.toggle - 1 \in Nat /\ a.err - 1 \in Nat
  BY DEF IInv, TypeOK, EnvType, WritePath, startAppendOnlyFails
<1>1. env' \in EnvType /\ SameSettings
  BY <1>0 DEF EnvType, SameSettings, startAppendOnlyFails
<1>3. ErrorsOnly
  BY <1>0, ErrorsType DEF startAppendOnlyFails
<1>2. sched' \in BOOLEAN
  BY DEF IInv, TypeOK, startAppendOnlyFails
<1> QED BY <1>1, <1>2, <1>3, ChildGone DEF startAppendOnlyFails, killAppendOnlyChild

LEMMA OtherIInv == IInv /\ (OtherFork \/ OtherDone) => IInv'
<1> SUFFICES ASSUME IInv, OtherFork \/ OtherDone PROVE IInv'
  OBVIOUS
<1>1. env' \in EnvType /\ SameSettings
  BY DEF IInv, TypeOK, EnvType, SameSettings, OtherFork, OtherDone
<1>2. TypeOK' /\ UNCHANGED <<n, owed, acked, handler, st, a, phase, child, rw, dpipe>>
  BY <1>1 DEF IInv, TypeOK, OtherFork, OtherDone
<1>3. ChildInv' /\ RewriteIsHistory'
  BY <1>2 DEF IInv, ChildInv, HistoryKept, RewriteIsHistory
<1> QED BY <1>1, <1>2, <1>3, FrameIInv

LEMMA StopIInv == IInv /\ stopAppendOnly => IInv'
<1> SUFFICES ASSUME IInv, stopAppendOnly PROVE IInv'
  OBVIOUS
<1>1. PICK x \in flushAppendOnlyFile(TRUE) :
        /\ phase' = PhaseOf(x)
        /\ env' = [env EXCEPT !.toggle = @ - 1]
        /\ \/ x.exit /\ a' = x /\ UNCHANGED <<st, child, rw, dpipe, sched>>
           \/ /\ ~x.exit /\ a' \in redis_fsync(x)
              /\ st' = "off" /\ sched' = FALSE
              /\ child' = NoChild /\ rw' = <<>> /\ dpipe' = <<>>
  BY DEF stopAppendOnly, killAppendOnlyChild
<1>2. phase = "run" /\ env.toggle > 0 /\ st # "off" /\ UNCHANGED <<n, owed, acked, handler, other>>
  BY DEF stopAppendOnly
<1>3. env' \in EnvType /\ SameSettings
  <2>1. env \in EnvType /\ env.toggle - 1 \in Nat
    BY <1>2 DEF IInv, TypeOK, EnvType
  <2> QED BY <1>1, <2>1 DEF EnvType, SameSettings
<1>4. CASE x.exit
  <2>1. a' = x /\ UNCHANGED <<st, child, rw, dpipe, sched>>
    BY <1>1, <1>4
  <2>2. acked' = acked \union {} /\ owed' = owed \ {}
    BY <1>2
  <2>3. handler' \in {"none", "barrier", "plain"}
    BY <1>2 DEF IInv, TypeOK
  <2> QED BY <1>1, <1>2, <1>3, <2>1, <2>2, <2>3, FlushIInv
<1>5. CASE ~x.exit
  <2>1. /\ a' \in redis_fsync(x) /\ st' = "off" /\ sched' = FALSE
        /\ child' = NoChild /\ rw' = <<>> /\ dpipe' = <<>> /\ phase' = "run"
    BY <1>1, <1>5 DEF PhaseOf
  <2>2. x \in WritePath /\ (Kept(x) \/ Wrote(x) \/ \E k \in 0..Len(a.buf) : Short(x, k))
    BY FlushOutcome DEF IInv
  <2>3. x.exit \in BOOLEAN /\ x.file.synced <= Len(x.file.data) /\ Len(x.file.data) \in Nat
    <3>1. x.exit \in BOOLEAN /\ Len(x.file.data) \in Nat
      BY <2>2, LenProperties DEF WritePath, FileType
    <3>2. CASE Kept(x)
      BY <3>2, <3>1 DEF Kept, IInv, FileInv
    <3>3. CASE Wrote(x)
      BY <3>3, <3>1, <2>2, WroteFacts
    <3>4. CASE \E k \in 0..Len(a.buf) : Short(x, k)
      BY <3>4, <3>1, <2>2, ShortFacts
    <3> QED BY <2>2, <3>1, <3>2, <3>3, <3>4
  <2>4. Fsynced(x, a')
    BY <2>1, <2>2, TypeOfFsync DEF IInv
  <2>5. /\ a' \in WritePath /\ a'.buf = x.buf /\ a'.exit = x.exit
        /\ a'.file.synced <= Len(a'.file.data)
    BY <2>3, <2>4 DEF Fsynced
  <2>6. env.policy = "always" => x.buf = <<>>
    BY <1>5, <2>2 DEF Kept, Wrote, Short
  <2>7. TypeOK'
    BY <1>2, <1>3, <2>1, <2>5, NoChildFacts DEF IInv, TypeOK
  <2>8. FileInv' /\ ChildInv' /\ OffInv' /\ CrashLoadable'
    BY <1>3, <1>5, <2>1, <2>5, <2>6, NoChildFacts
       DEF FileInv, ChildInv, OffInv, CrashLoadable, SameSettings
  <2>9. HistoryKept' /\ SyncInv'
    BY <2>1 DEF HistoryKept, FileIsHistory, RewriteIsHistory, SizeIsLength, SyncInv
  <2> QED BY <2>7, <2>8, <2>9 DEF IInv
<1> QED BY <1>4, <1>5

LEMMA StartIInv == IInv /\ startAppendOnly => IInv'
<1> SUFFICES ASSUME IInv, startAppendOnly PROVE IInv'
  OBVIOUS
<1>1. /\ phase = "run" /\ st = "off" /\ env.toggle > 0 /\ env' = [env EXCEPT !.toggle = @ - 1]
      /\ st' = "wait" /\ a' = [a EXCEPT !.sec = FALSE]
      /\ UNCHANGED <<n, owed, acked, handler, other, phase>>
      /\ \/ child.ph = "none" /\ sched' = TRUE /\ UNCHANGED <<child, rw, dpipe>>
         \/ rw' = <<>> /\ rewriteAppendOnlyFileBackground
  BY DEF startAppendOnly, AofChild
<1>2. env' \in EnvType /\ SameSettings
  <2>1. env \in EnvType /\ env.toggle - 1 \in Nat
    BY <1>1 DEF IInv, TypeOK, EnvType
  <2> QED BY <2>1, <1>1 DEF EnvType, SameSettings
<1>3. ErrorsOnly
  BY <1>1 DEF IInv, TypeOK, WritePath, ErrorsOnly
<1>4. /\ child' \in ChildType /\ rw' \in Seq(Byte) /\ dpipe' \in Seq(Byte) /\ sched' \in BOOLEAN
      /\ ChildInv' /\ RewriteIsHistory'
  <2>1. CASE child.ph = "none" /\ sched' = TRUE /\ UNCHANGED <<child, rw, dpipe>>
    BY <1>1, <2>1 DEF IInv, TypeOK, ChildInv, RewriteIsHistory
  <2>2. CASE rw' = <<>> /\ rewriteAppendOnlyFileBackground
    <3>1. /\ child' \in ChildType /\ dpipe' \in Seq(Byte) /\ rw' \in Seq(Byte)
          /\ sched' \in BOOLEAN /\ child'.ph = "dump" /\ RewriteIsHistory'
      BY <2>2, <1>1, ForkFacts
    <3> QED BY <3>1, <1>1, <2>2 DEF ChildInv
  <2> QED BY <1>1, <2>1, <2>2
<1>5. TypeOK'
  BY <1>1, <1>2, <1>3, <1>4 DEF IInv, TypeOK, ErrorsOnly
<1>6. FileInv' /\ OffInv' /\ CrashLoadable'
  BY <1>1, <1>2, <1>3 DEF IInv, FileInv, OffInv, CrashLoadable, SameSettings, ErrorsOnly
<1>7. FileIsHistory' /\ SizeIsLength' /\ SyncInv'
  BY <1>1 DEF FileIsHistory, SizeIsLength, SyncInv
<1> QED BY <1>4, <1>5, <1>6, <1>7 DEF IInv, HistoryKept

\* A crash leaves a prefix of the history.
LEMMA CrashIInv == IInv /\ Crash => IInv'
<1> SUFFICES ASSUME IInv, Crash PROVE IInv'
  OBVIOUS
<1>1. /\ phase \in {"run", "renamed"}
      /\ st = "on" /\ env.crash > 0 /\ env' = [env EXCEPT !.crash = @ - 1]
      /\ phase' = "dead" /\ UNCHANGED <<n, owed, acked, handler, st, child, rw, dpipe, sched, other>>
  BY DEF Crash
<1>2. PICK k \in a.file.synced..Len(a.file.data) :
        a' = [a EXCEPT !.file.data = SubSeq(@, 1, k), !.exit = TRUE,
                       !.excused = IF phase = "renamed" THEN Unsynced(a, 1..n) ELSE @]
  BY DEF Crash
<1> DEFINE d == a.file.data
           b == a.buf
           cut == SubSeq(d, 1, k)
           rest == SubSeq(d, k + 1, Len(d))
           f == [a.file EXCEPT !.data = cut]
           e == IF phase = "renamed" THEN Unsynced(a, 1..n) ELSE a.excused
<1>f. /\ a \in WritePath /\ a.file \in FileType /\ d \in Seq(Byte) /\ a.file.synced \in Nat
      /\ Len(d) \in Nat /\ b \in Seq(Byte) /\ n \in Nat /\ 2 * n \in Nat
  BY FileFacts
<1>3. k \in 0..Len(d) /\ a.file.synced <= k /\ k \in Nat
  BY <1>f
<1>4. cut \in Seq(Byte) /\ Len(cut) = k /\ rest \in Seq(Byte) /\ cut \o rest = d
  BY <1>3, <1>f, Cut
<1>5. a' = [a EXCEPT !.file = f, !.exit = TRUE, !.excused = e]
  BY <1>2, <1>f DEF WritePath, FileType
<1> HIDE DEF cut, rest
<1>6. f \in FileType /\ f.data = cut /\ f.synced = a.file.synced
  BY <1>4, <1>f DEF FileType
<1>e. e \in SUBSET Nat
  <2>1. a.excused \in SUBSET Nat
    BY <1>f DEF WritePath
  <2> QED BY <2>1, <1>f DEF Unsynced
<1> HIDE DEF f, e
<1>7. a' \in WritePath /\ a'.file = f /\ a'.exit = TRUE /\ a'.excused = e
  BY <1>5, <1>6, <1>e, <1>f DEF WritePath
<1>8. env' \in EnvType /\ SameSettings
  <2>1. env \in EnvType /\ env.crash - 1 \in Nat
    BY <1>1 DEF IInv, TypeOK, EnvType
  <2> QED BY <2>1, <1>1 DEF EnvType, SameSettings
<1>9. TypeOK'
  BY <1>1, <1>7, <1>8 DEF IInv, TypeOK
<1>10. FileInv' /\ ChildInv' /\ OffInv'
  BY <1>1, <1>3, <1>4, <1>6, <1>7 DEF IInv, FileInv, ChildInv, OffInv
<1>11. d = Bytes(Len(d))
  <2>1. CASE phase = "run"
    <3>1. d \o b = Bytes(2 * n)
      BY <2>1, <1>1 DEF IInv, HistoryKept, FileIsHistory
    <3> HIDE DEF d, b
    <3> QED BY <3>1, <1>f, PrefixOfBytes
  <2>2. CASE phase = "renamed"
    BY <2>2, <1>f, BytesSeq DEF IInv, ChildInv
  <2> QED BY <1>1, <2>1, <2>2
<1>12. cut = Bytes(Len(cut))
  <2>1. cut \o rest = Bytes(Len(d))
    BY <1>4, <1>11
  <2> QED BY <2>1, <1>4, <1>f, PrefixOfBytes
<1>13. CrashLoadable' /\ HistoryKept'
  BY <1>1, <1>6, <1>7, <1>12
     DEF CrashLoadable, Loadable, HistoryKept, FileIsHistory, RewriteIsHistory, SizeIsLength
<1>14. SyncInv'
  <2> SUFFICES ASSUME env.policy = "always", NEW i \in acked PROVE Safe(a', i)
    BY <1>1, <1>8 DEF SyncInv, SameSettings
  <2>1. i \in 1..n
    BY DEF IInv, TypeOK
  <2>2. CASE phase = "run"
    <3>1. Safe(a, i)
      BY <2>2, <1>1 DEF IInv, SyncInv
    <3> QED BY <3>1, <2>2, <1>6, <1>7 DEF Safe, e
  <2>3. CASE phase = "renamed"
    <3>1. i \in Unsynced(a, 1..n) \/ 2 * i <= a.file.synced
      BY <2>1, <1>f DEF Unsynced
    <3> QED BY <3>1, <2>3, <1>6, <1>7 DEF Safe, e
  <2> QED BY <1>1, <2>2, <2>3
<1> QED BY <1>9, <1>10, <1>13, <1>14 DEF IInv

\* Loading rounds the file down to whole commands.
LEMMA Rounded ==
  ASSUME NEW len \in Nat
  PROVE  len \div 2 \in Nat /\ 2 * (len \div 2) <= len
OBVIOUS

LEMMA LoadIInv == IInv /\ loadAppendOnlyFile => IInv'
<1> SUFFICES ASSUME IInv, loadAppendOnlyFile PROVE IInv'
  OBVIOUS
<1> DEFINE cmds == Len(a.file.data) \div 2
           size == 2 * cmds
           synced == IF a.file.synced < size THEN a.file.synced ELSE size
<1>1. /\ phase = "dead" /\ phase' = "run" /\ n' = cmds /\ owed' = {}
      /\ acked' = acked \intersect 1..cmds /\ handler' = "none"
      /\ a' = [buf |-> <<>>, file |-> [data |-> Bytes(size), synced |-> synced],
               size |-> size, fsoff |-> size, ok |-> TRUE, postponed |-> 0,
               sec |-> FALSE, jobs |-> <<>>, exit |-> FALSE,
               err |-> a.err, excused |-> a.excused \intersect 1..cmds]
      /\ child' = NoChild /\ rw' = <<>> /\ dpipe' = <<>> /\ sched' = FALSE /\ other' = FALSE
      /\ UNCHANGED <<st, env>>
  BY DEF loadAppendOnlyFile
<1>2. /\ cmds \in Nat /\ a.file.synced \in Nat /\ a.err \in Nat
      /\ a.excused \intersect 1..cmds \in SUBSET Nat
  <2>1. a.err \in Nat /\ a.excused \in SUBSET Nat
    BY FileFacts DEF WritePath
  <2>2. cmds \in Nat /\ a.file.synced \in Nat
    BY FileFacts, Rounded
  <2> QED BY <2>1, <2>2
<1> HIDE DEF cmds
<1>3. size \in Nat /\ synced \in Nat /\ synced <= size
  BY <1>2
<1>4. st = "on"
  BY <1>1 DEF IInv, OffInv
<1>5. Bytes(size) \in Seq(Byte) /\ Len(Bytes(size)) = size /\ Bytes(size) \o <<>> = Bytes(size)
  <2>1. Bytes(size) \in Seq(Byte) /\ Len(Bytes(size)) = size
    BY <1>3, BytesSeq
  <2> QED BY <2>1, ConcatEmptySeq
<1>6. TypeOK'
  <2>1. a' \in WritePath
    <3>1. <<>> \in Seq(Byte) /\ <<>> \in Seq({"cur", "old"})
      OBVIOUS
    <3> HIDE DEF size, synced
    <3> QED BY <3>1, <1>1, <1>2, <1>3, <1>5 DEF WritePath, FileType
  <2> QED BY <2>1, <1>1, <1>2, NoChildFacts DEF IInv, TypeOK
<1>7. a'.file.data = Bytes(size) /\ a'.file.synced = synced /\ a'.size = size /\ a'.buf = <<>>
       /\ a'.exit = FALSE /\ a'.excused = a.excused \intersect 1..cmds
  BY <1>1
<1>8. FileInv' /\ ChildInv' /\ OffInv' /\ CrashLoadable'
  BY <1>1, <1>3, <1>4, <1>5, <1>7, NoChildFacts DEF FileInv, ChildInv, OffInv, CrashLoadable
<1>9. HistoryKept'
  BY <1>1, <1>5, <1>7, NoChildFacts
     DEF HistoryKept, FileIsHistory, RewriteIsHistory, SizeIsLength
<1>10. SyncInv'
  <2> SUFFICES ASSUME env.policy = "always", NEW i \in acked, i \in 1..cmds PROVE Safe(a', i)
    BY <1>1 DEF SyncInv
  <2>1. Safe(a, i)
    BY <1>1, <1>4 DEF IInv, SyncInv
  <2>2. 2 * i <= a.file.synced => 2 * i <= synced
    BY <1>2
  <2> QED BY <2>1, <2>2, <1>7 DEF Safe
<1> QED BY <1>6, <1>8, <1>9, <1>10 DEF IInv

-----------------------------------------------------------------------------
LEMMA NextIInv == IInv /\ [Next]_vars => IInv'
<1> SUFFICES ASSUME IInv, [Next]_vars PROVE IInv'
  OBVIOUS
<1>1. CASE UNCHANGED vars
  BY <1>1 DEF vars, IInv, TypeOK, FileInv, ChildInv, OffInv, HistoryKept, FileIsHistory,
              RewriteIsHistory, SizeIsLength, CrashLoadable, Loadable, SyncInv, Safe
<1> QED
  BY <1>1, BeforeSleepIInv, SendReplyIInv, CronFlushIInv, TickIInv, BioFsyncIInv, FeedIInv, BgrewriteaofIInv,
     CronRewriteIInv, WriteDiffIInv, ChildIInv, RenameIInv, SwitchIInv, RewriteFailedIInv,
     StopIInv, StartIInv, StartFailsIInv, OtherIInv, CrashIInv, LoadIInv
  DEF Next

LEMMA Invariance == Spec => []IInv
BY InitIInv, NextIInv, PTL DEF Spec

\* Whatever is written, rewritten, toggled, cut short or killed, the file and
\* the buffer hold every command once and in order, and so does the file a
\* rewrite is building (flushAppendOnlyFile, feedAppendOnlyFile,
\* backgroundRewriteDoneHandler).
THEOREM HistorySafe == Spec => []HistoryKept
BY Invariance, PTL DEF IInv

\* loadAppendOnlyFile never refuses the file a crash has left: it is the
\* history up to some byte, so that truncating the last command is enough.
THEOREM CrashSafe == Spec => []CrashLoadable
BY Invariance, PTL DEF IInv

\* With appendfsync always, what a client was told is on disk, and a crash
\* leaves it there, save the commands the code lets go: an fsync that failed or
\* was skipped, a write handler without barrier, a crash between the rename and
\* the fsync of a rewritten file (flushAppendOnlyFile, handleClientsWithPendingWrites,
\* backgroundRewriteDoneHandler).
THEOREM AckedSafe == Spec => []AckedIsSynced
<1>1. IInv => AckedIsSynced
  BY DEF IInv, SyncInv, Safe, AckedIsSynced
<1> QED BY Invariance, <1>1, PTL

-----------------------------------------------------------------------------
(* The background threads (Bio).  Nothing is shared with Aof, which sees     *)
(* the fsync and close jobs as a queue of its own.                          *)


\* The inductive invariant: ProcessedInOrder is not inductive alone, because
\* the order of future executions is the order of the list.
BioIInv == BioTypeOK /\ MutexInv /\ QueueInv /\ ProcessedInOrder

\* bioInit establishes the invariant.
LEMMA BioInitIInv == BioInit => BioIInv
BY DEF BioInit, BioIInv, BioTypeOK, MutexInv, QueueInv, CountOf, OrderOf,
       ProcessedInOrder, WorkerPC, MainPC

\* What the invariant says of one job type.
LEMMA FieldsOf ==
  ASSUME BioIInv, NEW t \in Types
  PROVE  /\ jobs[t] \in Seq(Nat) /\ Len(jobs[t]) \in Nat
         /\ processed[t] \in Seq(Nat) /\ Len(processed[t]) \in Nat
         /\ pending[t] \in Nat /\ created[t] \in Nat
         /\ CountOf(t) /\ OrderOf(t)
<1>1. CountOf(t) /\ OrderOf(t)
  BY DEF BioIInv, QueueInv
<1> QED
  BY <1>1 DEF BioIInv, BioTypeOK

\* A step that leaves the fields of type u alone preserves the queue of u.
LEMMA QueueFrame ==
  ASSUME BioIInv, NEW u \in Types,
         jobs'[u] = jobs[u], pending'[u] = pending[u],
         processed'[u] = processed[u], created'[u] = created[u],
         wpc'[u] \in {"work", "relock"} <=> wpc[u] \in {"work", "relock"},
         wpc'[u] = "relock" <=> wpc[u] = "relock"
  PROVE  CountOf(u)' /\ OrderOf(u)'
<1>1. CountOf(u) /\ OrderOf(u)
  BY FieldsOf
<1>2. CountOf(u)'
  BY <1>1 DEF CountOf
<1>3. OrderOf(u)'
  BY <1>1 DEF OrderOf
<1> QED
  BY <1>2, <1>3

\* bioCreateBackgroundJob preserves the invariant.
LEMMA CreateIInv == BioIInv /\ bioCreateBackgroundJob => BioIInv'
<1> SUFFICES ASSUME BioIInv, bioCreateBackgroundJob PROVE BioIInv'
  OBVIOUS
<1>1. BioTypeOK' /\ MutexInv' /\ ProcessedInOrder'
  BY DEF BioIInv, BioTypeOK, MutexInv, ProcessedInOrder, WorkerPC, MainPC,
         bioCreateBackgroundJob, AddJob, SignalNewJob
<1>2. ASSUME NEW u \in Types PROVE CountOf(u)' /\ OrderOf(u)'
  <2>1. CASE u # mtype
    BY <2>1, QueueFrame DEF BioIInv, BioTypeOK, bioCreateBackgroundJob, AddJob,
                              SignalNewJob
  <2>2. CASE u = mtype
    <3>0. BioTypeOK
      BY DEF BioIInv
    <3>1. /\ jobs'[u] = Append(jobs[u], created[u] + 1)
          /\ created'[u] = created[u] + 1
          /\ pending'[u] = pending[u] + 1
          /\ processed'[u] = processed[u]
          /\ wpc'[u] = "relock" <=> wpc[u] = "relock"
      BY <2>2 DEF BioIInv, BioTypeOK, bioCreateBackgroundJob, AddJob,
                              SignalNewJob
    <3>2. /\ Len(jobs[u]) \in Nat /\ Len(processed[u]) \in Nat
          /\ created[u] \in Nat /\ CountOf(u) /\ OrderOf(u)
          /\ jobs[u] \in Seq(Nat)
      BY FieldsOf
    <3>3. /\ Len(jobs'[u]) = Len(jobs[u]) + 1
          /\ \A i \in 1..Len(jobs[u]) : jobs'[u][i] = jobs[u][i]
          /\ jobs'[u][Len(jobs[u]) + 1] = created[u] + 1
      BY <3>1, <3>2
    <3>4. CountOf(u)'
      <4>1. pending'[u] = Len(jobs'[u])
        BY <3>1, <3>2, <3>3 DEF CountOf
      <4>2. Len(jobs'[u]) > 0
        BY <3>0, <3>2, <3>3 DEF BioTypeOK
      <4>3. Len(processed'[u]) + Len(jobs'[u])
              = Len(processed[u]) + Len(jobs[u]) + 1
        BY <3>0, <3>1, <3>2, <3>3 DEF BioTypeOK
      <4>4. Len(processed'[u]) + Len(jobs'[u])
              = IF wpc'[u] = "relock" THEN created'[u] + 1 ELSE created'[u]
        BY <3>0, <3>1, <3>2, <4>3 DEF CountOf, BioTypeOK
      <4> QED
        BY <4>1, <4>2, <4>4 DEF CountOf
    <3>5. OrderOf(u)'
      <4> SUFFICES ASSUME NEW i \in 1..Len(jobs'[u])
                   PROVE  jobs'[u][i] = created'[u] - Len(jobs'[u]) + i
        BY DEF OrderOf
      <4>1. i \in 1..Len(jobs[u]) \/ i = Len(jobs[u]) + 1
        BY <3>0, <3>2, <3>3 DEF BioTypeOK
      <4>2. CASE i \in 1..Len(jobs[u])
        BY <3>0, <3>1, <3>2, <3>3, <4>2 DEF OrderOf, BioTypeOK
      <4>3. CASE i = Len(jobs[u]) + 1
        BY <3>0, <3>1, <3>2, <3>3, <4>3 DEF BioTypeOK
      <4> QED
        BY <4>1, <4>2, <4>3
    <3> QED
      BY <3>4, <3>5
  <2> QED
    BY <2>1, <2>2
<1> QED
  BY <1>1, <1>2 DEF BioIInv, QueueInv

\* Executing the first job preserves the invariant: it is the next in order.
LEMMA ProcessIInv ==
  ASSUME BioIInv, NEW t \in Types, WorkerProcess(t)
  PROVE  BioIInv'
<1>0. BioTypeOK
  BY DEF BioIInv
<1>1. /\ jobs[t] \in Seq(Nat) /\ Len(jobs[t]) \in Nat
      /\ processed[t] \in Seq(Nat) /\ Len(processed[t]) \in Nat
      /\ created[t] \in Nat /\ CountOf(t) /\ OrderOf(t)
  BY FieldsOf
<1>2. /\ Len(jobs[t]) > 0
      /\ Len(processed[t]) + Len(jobs[t]) = created[t]
  BY <1>1 DEF CountOf, WorkerProcess
<1>3. Head(jobs[t]) = Len(processed[t]) + 1
  <2>1. Head(jobs[t]) = jobs[t][1] /\ 1 \in 1..Len(jobs[t])
    BY <1>1, <1>2
  <2>2. jobs[t][1] = created[t] - Len(jobs[t]) + 1
    BY <1>1, <2>1 DEF OrderOf
  <2> QED
    BY <1>1, <1>2, <2>1, <2>2 DEF BioIInv, BioTypeOK
<1>4. /\ processed'[t] = Append(processed[t], Len(processed[t]) + 1)
      /\ processed' \in [Types -> Seq(Nat)]
      /\ \A u \in Types \ {t} : processed'[u] = processed[u]
      /\ wpc'[t] = "relock"
      /\ \A u \in Types \ {t} : wpc'[u] = wpc[u]
      /\ UNCHANGED <<jobs, pending, created>>
  BY <1>1, <1>3 DEF BioIInv, BioTypeOK, WorkerProcess
<1>5. /\ Len(processed'[t]) = Len(processed[t]) + 1
      /\ \A i \in 1..Len(processed[t]) : processed'[t][i] = processed[t][i]
      /\ processed'[t][Len(processed[t]) + 1] = Len(processed[t]) + 1
  BY <1>1, <1>4
<1>6. BioTypeOK' /\ MutexInv'
  BY <1>4 DEF BioIInv, BioTypeOK, MutexInv, WorkerPC, WorkerProcess
<1>7. ASSUME NEW u \in Types PROVE CountOf(u)' /\ OrderOf(u)'
  <2>1. CASE u # t
    BY <1>4, <2>1, QueueFrame
  <2>2. CASE u = t
    <3>1. CountOf(t)'
      BY <1>1, <1>2, <1>4, <1>5, <1>6 DEF CountOf, BioIInv, BioTypeOK
    <3>2. OrderOf(t)'
      BY <1>1, <1>4 DEF OrderOf
    <3> QED
      BY <2>2, <3>1, <3>2
  <2> QED
    BY <2>1, <2>2
<1>8. ASSUME NEW u \in Types
      PROVE  /\ Len(processed'[u]) <= created'[u]
             /\ \A i \in 1..Len(processed'[u]) : processed'[u][i] = i
  <2>1. CASE u # t
    BY <1>4, <2>1 DEF BioIInv, ProcessedInOrder
  <2>2. CASE u = t
    <3>1. Len(processed[t]) + 1 <= created[t]
      BY <1>1, <1>2 DEF BioIInv, BioTypeOK
    <3>2. \A i \in 1..Len(processed[t]) : processed[t][i] = i
      BY DEF BioIInv, ProcessedInOrder
    <3> QED
      <4>1. ASSUME NEW i \in 1..Len(processed[t]) + 1
            PROVE  processed'[t][i] = i
        <5>1. i \in 1..Len(processed[t]) \/ i = Len(processed[t]) + 1
          BY <1>0, <1>1 DEF BioTypeOK
        <5> QED
          BY <1>5, <3>2, <5>1
      <4> QED
        BY <1>4, <1>5, <2>2, <3>1, <4>1
  <2> QED
    BY <2>1, <2>2
<1> QED
  BY <1>6, <1>7, <1>8 DEF BioIInv, QueueInv, ProcessedInOrder

\* Removing the executed job preserves the invariant.
LEMMA DoneIInv ==
  ASSUME BioIInv, NEW t \in Types, WorkerDone(t)
  PROVE  BioIInv'
<1>0. BioTypeOK
  BY DEF BioIInv
<1>1. /\ jobs[t] \in Seq(Nat) /\ Len(jobs[t]) \in Nat
      /\ Len(processed[t]) \in Nat /\ pending[t] \in Nat
      /\ created[t] \in Nat /\ CountOf(t) /\ OrderOf(t)
  BY FieldsOf
<1>2. /\ Len(jobs[t]) > 0 /\ pending[t] > 0
      /\ Len(processed[t]) + Len(jobs[t]) = created[t] + 1
  BY <1>1 DEF CountOf, WorkerDone
<1>3. /\ Tail(jobs[t]) \in Seq(Nat)
      /\ Len(Tail(jobs[t])) = Len(jobs[t]) - 1
      /\ \A i \in 1..Len(jobs[t]) - 1 : Tail(jobs[t])[i] = jobs[t][i + 1]
  BY <1>1, <1>2
<1>4. /\ jobs'[t] = Tail(jobs[t])
      /\ pending'[t] = pending[t] - 1
      /\ wpc'[t] = "top"
      /\ \A u \in Types \ {t} : /\ jobs'[u] = jobs[u]
                                /\ pending'[u] = pending[u]
                                /\ wpc'[u] = wpc[u]
      /\ UNCHANGED <<processed, created>>
  BY DEF BioIInv, BioTypeOK, WorkerDone, BroadcastStep
<1>5. BioTypeOK' /\ MutexInv' /\ ProcessedInOrder'
  <2>1. BioTypeOK /\ MutexInv /\ ProcessedInOrder
    BY DEF BioIInv
  <2>2. pending' \in [Types -> Nat]
    BY <1>1, <1>2, <2>1 DEF BioTypeOK, WorkerDone
  <2>3. BioTypeOK'
    BY <1>3, <2>1, <2>2 DEF BioTypeOK, WorkerPC, MainPC, WorkerDone, BroadcastStep
  <2>4. MutexInv'
    BY <2>1 DEF BioTypeOK, MutexInv, WorkerDone, BroadcastStep
  <2>5. ProcessedInOrder'
    BY <2>1, <1>4 DEF ProcessedInOrder
  <2> QED
    BY <2>3, <2>4, <2>5
<1>6. ASSUME NEW u \in Types PROVE CountOf(u)' /\ OrderOf(u)'
  <2>1. CASE u # t
    BY <1>4, <2>1, QueueFrame
  <2>2. CASE u = t
    <3>1. CountOf(t)'
      <4>1. pending'[t] = Len(jobs'[t])
        BY <1>1, <1>3, <1>4 DEF CountOf
      <4>2. Len(processed'[t]) + Len(jobs'[t]) = created'[t]
        <5>1. Len(jobs'[t]) = Len(jobs[t]) - 1
          BY <1>3, <1>4
        <5>2. Len(processed[t]) + (Len(jobs[t]) - 1) = created[t]
          <6> DEFINE q == Len(jobs[t])
                     p == Len(processed[t])
          <6>1. q \in Nat /\ p \in Nat /\ p + q = created[t] + 1
            BY <1>1, <1>2
          <6> HIDE DEF q, p
          <6>2. p + (q - 1) = created[t]
            BY <1>1, <6>1
          <6> QED
            BY <6>2 DEF q, p
        <5> QED
          BY <1>4, <5>1, <5>2
      <4> QED
        BY <1>4, <4>1, <4>2 DEF CountOf
    <3>2. OrderOf(t)'
      BY <1>1, <1>2, <1>3, <1>4, <1>5 DEF OrderOf, BioIInv, BioTypeOK
    <3> QED
      BY <2>2, <3>1, <3>2
  <2> QED
    BY <2>1, <2>2
<1> QED
  BY <1>5, <1>6 DEF BioIInv, QueueInv

\* A step that moves no job preserves the queues.
LEMMA QuietIInv ==
  ASSUME BioIInv, BioTypeOK', MutexInv',
         UNCHANGED <<jobs, pending, created, processed>>,
         \A u \in Types :
           /\ wpc'[u] \in {"work", "relock"} => Len(jobs[u]) > 0
           /\ wpc'[u] = "relock" <=> wpc[u] = "relock"
  PROVE  BioIInv'
<1>1. ASSUME NEW u \in Types PROVE CountOf(u)' /\ OrderOf(u)'
  <2>1. CountOf(u) /\ OrderOf(u)
    BY FieldsOf
  <2>2. CountOf(u)'
    BY <2>1 DEF CountOf
  <2>3. OrderOf(u)'
    BY <2>1 DEF OrderOf
  <2> QED
    BY <2>2, <2>3
<1>2. ProcessedInOrder'
  BY DEF BioIInv, ProcessedInOrder
<1> QED
  BY <1>1, <1>2 DEF BioIInv, QueueInv

\* Every step of either thread preserves the invariant.
LEMMA BioNextIInv == BioIInv /\ [BioNext]_bioVars => BioIInv'
<1> SUFFICES ASSUME BioIInv, [BioNext]_bioVars PROVE BioIInv'
  OBVIOUS
<1>1. BioTypeOK /\ MutexInv /\ \A u \in Types : CountOf(u)
  BY DEF BioIInv, QueueInv
<1>2. \A u \in Types : wpc[u] \in {"work", "relock"} => Len(jobs[u]) > 0
  BY <1>1 DEF CountOf
<1> USE DEF BioTypeOK, MutexInv, WorkerPC, MainPC
<1>3. ASSUME NEW t \in Types, NEW call \in {"create", "query", "step"},
             MainLock(t, call)
      PROVE  BioIInv'
  BY <1>1, <1>2, <1>3, QuietIInv DEF MainLock
<1>4. CASE bioCreateBackgroundJob
  BY <1>4, CreateIInv
<1>5. CASE bioPendingJobsOfType
  BY <1>1, <1>2, <1>5, QuietIInv DEF bioPendingJobsOfType
<1>6. CASE bioWaitStepOfType
  BY <1>1, <1>2, <1>6, QuietIInv DEF bioWaitStepOfType
<1>7. CASE StepReturn
  BY <1>1, <1>2, <1>7, QuietIInv DEF StepReturn
<1>8. ASSUME NEW t \in Types, WorkerLock(t) PROVE BioIInv'
  BY <1>1, <1>2, <1>8, QuietIInv DEF WorkerLock
<1>9. ASSUME NEW t \in Types, WorkerWait(t) PROVE BioIInv'
  BY <1>1, <1>2, <1>9, QuietIInv DEF WorkerWait
<1>10. ASSUME NEW t \in Types, WorkerPop(t) PROVE BioIInv'
  <2>1. Len(jobs[t]) > 0
    BY <1>1, <1>10 DEF WorkerPop
  <2> QED
    BY <1>1, <1>2, <1>10, <2>1, QuietIInv DEF WorkerPop
<1>11. ASSUME NEW t \in Types, WorkerProcess(t) PROVE BioIInv'
  BY <1>11, ProcessIInv
<1>12. ASSUME NEW t \in Types, WorkerDone(t) PROVE BioIInv'
  BY <1>12, DoneIInv
<1>13. ASSUME NEW t \in Types, SpuriousWakeup(t) PROVE BioIInv'
  BY <1>1, <1>2, <1>13, QuietIInv DEF SpuriousWakeup
<1>14. CASE UNCHANGED bioVars
  BY <1>1, <1>2, <1>14, QuietIInv DEF bioVars
<1> HIDE DEF BioTypeOK, MutexInv, WorkerPC, MainPC
<1> QED
  BY <1>3, <1>4, <1>5, <1>6, <1>7, <1>8, <1>9, <1>10, <1>11, <1>12, <1>13,
     <1>14 DEF BioNext, Main, Worker

LEMMA BioInvariance == BioSpec => []BioIInv
BY BioInitIInv, BioNextIInv, PTL DEF BioSpec

\* bioProcessBackgroundJobs runs the jobs of a type once each and in the order
\* bioCreateBackgroundJob queued them, and only under its mutex does a thread
\* touch the list.
THEOREM JobsInOrder == BioSpec => [](MutexInv /\ ProcessedInOrder)
<1>1. BioIInv => MutexInv /\ ProcessedInOrder
  BY DEF BioIInv
<1> QED BY BioInvariance, <1>1, PTL

\* When bioPendingJobsOfType is 0, all jobs of the type have been executed.
THEOREM BioSafety == BioSpec => []PendingZeroMeansDone
<1>1. ASSUME BioIInv PROVE PendingZeroMeansDone
  <2> SUFFICES ASSUME NEW t \in Types, pending[t] = 0
               PROVE  Len(processed[t]) = created[t]
    BY DEF PendingZeroMeansDone
  <2>1. /\ CountOf(t) /\ Len(jobs[t]) \in Nat /\ Len(processed[t]) \in Nat
        /\ created[t] \in Nat
    BY <1>1, FieldsOf
  <2> QED
    BY <1>1, <2>1 DEF CountOf, BioIInv, BioTypeOK
<1>2. BioIInv => PendingZeroMeansDone
  BY <1>1
<1> QED
  BY BioInvariance, <1>2, PTL
=============================================================================
