---------------------------- MODULE PsyncProofs -----------------------------
(***************************************************************************)
(* Proofs about partial resynchronisation and WAIT (Psync), for any number  *)
(* of instances, clients, writes, changes of roles, lost links, freed       *)
(* backlogs and restarts.                                                   *)
(*                                                                          *)
(* A point says that the history with some ID has a dataset at an offset.   *)
(* Instances, RDB files and connections claim points.  What makes a partial *)
(* resynchronisation right is that all points claimed with one ID lie on    *)
(* one history.                                                             *)
(***************************************************************************)
EXTENDS Psync, FiniteSetTheorems, SequenceTheorems, TLAPS

Point == [id : Nat, off : Nat, data : Seq(Nat)]

\* p is an earlier point of the history of q, or the same.
Below(p, q) ==
  /\ p.id = q.id /\ p.off <= q.off
  /\ q.off - p.off = Len(q.data) - Len(p.data)
  /\ \A i \in 1 .. Len(p.data) : p.data[i] = q.data[i]

Agree(p, q) == p.id = q.id => Below(p, q) \/ Below(q, p)

\* What a server, an RDB file or the answer of a full resynchronisation claims.
At(s) == [id |-> s.id, off |-> s.off, data |-> s.data]

\* What a server with a second ID claims about that one: an earlier dataset of its own.
Second(s) ==
  [id |-> s.id2, off |-> s.off2 - 1,
   data |-> SubSeq(s.data, 1, Len(s.data) - (s.off - s.off2 + 1))]

\* What a replica with state s will have when it has read all that is on its
\* connection c.
Base(s, c) ==
  IF c.reply.type = "full" THEN At(c.reply)
  ELSE [id |-> IF c.reply.type = "continue" THEN c.reply.id ELSE s.id,
        off |-> s.off, data |-> s.data]

End(s, c) ==
  [id |-> Base(s, c).id, off |-> Base(s, c).off + Len(c.q), data |-> Base(s, c).data \o c.q]

\* The points claimed by an instance with state s, connection c and RDB file d.  The
\* ID and the offset mean something when they would be saved, and the second ID as
\* long as there is a backlog.
IsFile(d) == d.id # None
IsEnd(c) == c.phase = "slave"
HasSecond(s) == s.backlog /\ s.id2 # None

Claims(s, c, d) ==
  {p \in Point :
     \/ rdbPopulateSaveInfo(s) /\ p = At(s)
     \/ HasSecond(s) /\ p = Second(s)
     \/ IsFile(d) /\ p = At(d)
     \/ IsEnd(c) /\ p = End(s, c)}

\* Those of them other instances may have heard of.
Told(s, c) ==
  {p \in Point :
     \/ HasSecond(s) /\ p = Second(s)
     \/ IsEnd(c) /\ p = End(s, c)}

Points(S, C, D) == UNION {Claims(S[n], C[n], D[n]) : n \in Nodes}

\* The points other than what n itself and its file claim.
Others(S, C, D, n) ==
  {p \in Point : (\E k \in Nodes \ {n} : p \in Claims(S[k], C[k], D[k])) \/ p \in Told(S[n], C[n])}

-----------------------------------------------------------------------------
(* The inductive invariant.                                                 *)

Server ==
  [host : Nodes \cup {None}, state : {"none", "connect", "psync", "transfer", "connected"},
   id : Nat \ {0}, id2 : Nat, off2 : Nat \cup {-1}, off : Nat, backlog : BOOLEAN, buf : Seq(Nat),
   cached : [id : Nat, off : Nat \cup {-1}], data : Seq(Nat)]

Reply == [type : {"none", "continue", "full"}, id : Nat, off : Nat \cup {-1}, data : Seq(Nat)]

Connection ==
  [to : Nodes \cup {None}, phase : {"none", "asked", "slave"}, open : BOOLEAN,
   id : Nat, off : Nat, ack : Nat, reply : Reply, q : Seq(Nat)]

File == [data : Seq(Nat), id : Nat, off : Nat \cup {-1}]

\* The backlog is the end of the dataset, and the second ID names a part of it.
Backlogged(s) ==
  /\ rdbPopulateSaveInfo(s)
  /\ Len(s.buf) <= BacklogSize /\ Len(s.buf) <= Len(s.data)
  /\ \A i \in 1 .. Len(s.buf) : s.buf[i] = s.data[Len(s.data) - Len(s.buf) + i]
  /\ s.id2 # None => s.off2 \in 1 .. s.off + 1 /\ s.off - s.off2 + 1 <= Len(s.data)

Local(s) ==
  /\ s \in Server
  /\ s.host = None <=> s.state = "none"
  /\ s.cached # NoCache => s.state \in {"connect", "psync"} /\ s.cached = [id |-> s.id, off |-> s.off]
  /\ s.state = "connected" => s.backlog
  /\ s.id2 = None => s.off2 = -1
  /\ IF s.backlog THEN Backlogged(s) ELSE s.buf = <<>>

\* The connection c of the replica r fits its state s.
Asks(s, c) ==
  /\ s.state = "psync" /\ c.reply = NoReply /\ c.q = <<>>
  /\ c.id = s.cached.id /\ c.off = s.cached.off + 1 /\ c.ack = 0

Receives(s, c) ==
  \/ c.reply.type = "continue" /\ s.state = "psync" /\ s.cached # NoCache /\ c.ack = 0
     /\ c.reply.id # None
  \/ c.reply.type = "full" /\ s.state \in {"psync", "transfer"} /\ c.ack = 0
     /\ c.reply.id # None /\ c.reply.off # -1
  \/ c.reply = NoReply /\ s.state = "connected" /\ c.ack <= s.off

Link(r, s, c) ==
  /\ c \in Connection /\ s.host # r
  /\ IF c.to = None THEN c = NoConn /\ s.state \in {"none", "connect"}
     ELSE /\ c.to = s.host
          /\ \/ c.phase = "asked" /\ Asks(s, c)
             \/ c.phase = "slave" /\ Receives(s, c)

\* A slave that m still feeds will have what m has.
Follows(C, k, m) == C[k].to = m /\ C[k].phase = "slave" /\ C[k].open

Attached(S, C) ==
  \A k, m \in Nodes : Follows(C, k, m) => S[m].backlog /\ End(S[k], C[k]) = At(S[m])

\* Nobody is ahead of a master in its history, and no two masters have one.
Leads(S, P) ==
  /\ \A m \in Nodes : S[m].host = None /\ S[m].backlog =>
       \A p \in P : p.id = S[m].id => p.off <= S[m].off
  /\ \A m, n \in Nodes : m # n /\ S[m].host = None /\ S[n].host = None => S[m].id # S[n].id

\* The ID of an instance without backlog that does not count its writes, or did not
\* when it took the ID, is known to nobody.
Private(s) == ~s.backlog /\ (s.host = None \/ (s.cached # NoCache /\ s.id2 # None))

Secret(S, C, D) ==
  \A n \in Nodes :
    /\ Private(S[n]) => \A p \in Others(S, C, D, n) : p.id # S[n].id
    /\ ~S[n].backlog /\ S[n].host = None => D[n].id # S[n].id

\* IDs up to L have been taken.
Taken(S, P, L) == (\A n \in Nodes : S[n].id <= L) /\ \A p \in P : p.id <= L

\* Writes up to B have been made; a client with the mark k has made write k.w, and
\* who has it has it at offset k.woff or before.
Whole(p, B, K) ==
  /\ \A i \in 1 .. Len(p.data) : p.data[i] <= B
  /\ \A k \in K : \A i \in 1 .. Len(p.data) :
       p.data[i] = k.w => i - (Len(p.data) - p.off) <= k.woff

AllWhole(S, D, P, B, K) ==
  /\ \A p \in P : Whole(p, B, K)
  /\ \A n \in Nodes : Whole(At(S[n]), B, K) /\ \A i \in 1 .. Len(D[n].data) : D[n].data[i] <= B

Good(S, C, D, L, B, K) ==
  /\ S = [n \in Nodes |-> S[n]] /\ C = [n \in Nodes |-> C[n]] /\ D \in [Nodes -> File]
  /\ \A n \in Nodes : Local(S[n]) /\ Link(n, S[n], C[n]) /\ (D[n].id = None <=> D[n].off = -1)
  /\ \A p, q \in Points(S, C, D) : Agree(p, q)
  /\ Attached(S, C)
  /\ Leads(S, Points(S, C, D))
  /\ Secret(S, C, D)
  /\ Taken(S, Points(S, C, D), L)
  /\ AllWhole(S, D, Points(S, C, D), B, K)

Marks == {[w |-> cl[c].w, woff |-> cl[c].woff] : c \in {d \in Clients : cl[d].w # None}}

Person ==
  [st : {"idle", "blocked", "done"}, at : Nodes \cup {None}, w : Nat, woff : Nat, need : Nat]

WaitInv ==
  /\ cl \in [Clients -> Person]
  /\ acks \in [Nodes -> [waiting : Seq(Clients), get : BOOLEAN]]
  /\ \A c \in Clients : cl[c].at # None => c <= count.write /\ cl[c].w # None
  /\ \A c \in Clients : cl[c].w <= count.write
  /\ \A c \in Clients : cl[c].st = "blocked" => cl[c].at # None
  /\ WaitersAtMasters

CountType ==
  [write : Nat, role : Nat, drop : Nat, free : Nat, restart : Nat, ids : Nat, max : Bounds]

\* The last ID that was taken.
LastId == NewId - 1

Sound == Good(srv, conn, disk, LastId, count.write, Marks)

IInv == count \in CountType /\ Sound /\ WaitInv

-----------------------------------------------------------------------------
(* Lemmas: points and what claims them.                                     *)

LEMMA BelowItself == ASSUME NEW p \in Point PROVE Below(p, p)
BY DEF Below, Point

LEMMA BelowTrans ==
  ASSUME NEW p \in Point, NEW q \in Point, NEW x \in Point, Below(p, q), Below(q, x)
  PROVE  Below(p, x)
<1>1. /\ p.off \in Nat /\ q.off \in Nat /\ x.off \in Nat
      /\ Len(p.data) \in Nat /\ Len(q.data) \in Nat /\ Len(x.data) \in Nat
  BY DEF Point
<1>2. Len(p.data) <= Len(q.data)
  BY DEF Below, Point
<1> QED BY <1>1, <1>2 DEF Below, Point

\* Earlier points of a history that agrees with a point agree with it too.
LEMMA AgreeBelow ==
  ASSUME NEW p \in Point, NEW q \in Point, NEW x \in Point, Below(p, q), Agree(q, x)
  PROVE  Agree(p, x)
<1>1. /\ p.off \in Nat /\ q.off \in Nat /\ x.off \in Nat
      /\ Len(p.data) \in Nat /\ Len(q.data) \in Nat /\ Len(x.data) \in Nat
  BY DEF Point
<1>2. Len(p.data) <= Len(q.data)
  BY DEF Below, Point
<1>3. CASE Below(q, x)
  BY <1>3, BelowTrans DEF Agree
<1>4. CASE Below(x, q) /\ p.off <= x.off
  <2>1. Len(p.data) <= Len(x.data)
    BY <1>1, <1>4 DEF Below, Point
  <2>2. p.id = x.id /\ p.off <= x.off /\ x.off - p.off = Len(x.data) - Len(p.data)
    <3>1. /\ p.id = q.id /\ x.id = q.id /\ p.off <= x.off
          /\ q.off - p.off = Len(q.data) - Len(p.data) /\ q.off - x.off = Len(q.data) - Len(x.data)
      BY <1>4 DEF Below
    <3> DEFINE a == p.off
               b == q.off
               y == x.off
               k == Len(p.data)
               m == Len(q.data)
               n == Len(x.data)
    <3>2. a \in Nat /\ b \in Nat /\ y \in Nat /\ k \in Nat /\ m \in Nat /\ n \in Nat
      BY <1>1
    <3>3. b - a = m - k /\ b - y = m - n
      BY <3>1
    <3> HIDE DEF a, b, y, k, m, n
    <3>4. y - a = n - k /\ a - y = k - n
      BY <3>2, <3>3
    <3> QED BY <3>1, <3>4 DEF a, b, y, k, m, n
  <2>3. \A i \in 1 .. Len(p.data) : p.data[i] = x.data[i]
    BY <1>1, <1>2, <1>4, <2>1 DEF Below, Point
  <2> QED BY <2>2, <2>3 DEF Below, Agree
<1>5. CASE Below(x, q) /\ x.off <= p.off
  <2>1. Len(x.data) <= Len(p.data)
    BY <1>1, <1>5 DEF Below, Point
  <2>2. p.id = x.id /\ x.off <= p.off /\ p.off - x.off = Len(p.data) - Len(x.data)
    <3>1. /\ p.id = q.id /\ x.id = q.id /\ x.off <= p.off
          /\ q.off - p.off = Len(q.data) - Len(p.data) /\ q.off - x.off = Len(q.data) - Len(x.data)
      BY <1>5 DEF Below
    <3> DEFINE a == p.off
               b == q.off
               y == x.off
               k == Len(p.data)
               m == Len(q.data)
               n == Len(x.data)
    <3>2. a \in Nat /\ b \in Nat /\ y \in Nat /\ k \in Nat /\ m \in Nat /\ n \in Nat
      BY <1>1
    <3>3. b - a = m - k /\ b - y = m - n
      BY <3>1
    <3> HIDE DEF a, b, y, k, m, n
    <3>4. y - a = n - k /\ a - y = k - n
      BY <3>2, <3>3
    <3> QED BY <3>1, <3>4 DEF a, b, y, k, m, n
  <2>3. \A i \in 1 .. Len(x.data) : x.data[i] = p.data[i]
    BY <1>1, <1>2, <1>5, <2>1 DEF Below, Point
  <2> QED BY <2>2, <2>3 DEF Below, Agree
<1> QED BY <1>1, <1>3, <1>4, <1>5 DEF Agree, Below, Point

LEMMA AgreeSym == ASSUME NEW p, NEW q, Agree(p, q) PROVE Agree(q, p)
BY DEF Agree

\* Points below points that agree agree.
LEMMA CoveredAgree ==
  ASSUME NEW p \in Point, NEW q \in Point, NEW a \in Point, NEW b \in Point,
         Below(p, a), Below(q, b), Agree(a, b)
  PROVE  Agree(p, q)
<1>1. Agree(p, b)
  BY AgreeBelow
<1>2. Agree(q, p)
  BY <1>1, AgreeSym, AgreeBelow
<1> QED BY <1>2, AgreeSym

LEMMA WholeBelow ==
  ASSUME NEW p \in Point, NEW q \in Point, NEW B, NEW K, Below(p, q), Whole(q, B, K)
  PROVE  Whole(p, B, K)
<1>1. /\ p.off \in Nat /\ q.off \in Nat /\ Len(p.data) \in Nat /\ Len(q.data) \in Nat
  BY DEF Point
<1>2. Len(p.data) <= Len(q.data) /\ Len(p.data) - p.off = Len(q.data) - q.off
  <2> DEFINE m == Len(p.data)
             n == Len(q.data)
  <2>1. m \in Nat /\ n \in Nat /\ p.off \in Nat /\ q.off \in Nat
    BY DEF Point
  <2>2. p.off <= q.off /\ q.off - p.off = n - m
    BY DEF Below
  <2> HIDE DEF m, n
  <2>3. m <= n /\ m - p.off = n - q.off
    BY <2>1, <2>2
  <2> QED BY <2>3 DEF m, n
<1>3. \A i \in 1 .. Len(p.data) : i \in 1 .. Len(q.data) /\ p.data[i] = q.data[i]
  BY <1>1, <1>2 DEF Below, Point
<1> QED BY <1>2, <1>3 DEF Whole

\* What is claimed are points.
LEMMA AtPoint ==
  ASSUME NEW s, s \in Server
  PROVE  At(s) \in Point
BY DEF Server, At, Point

LEMMA FilePoint ==
  ASSUME NEW d \in File, d.id = None <=> d.off = -1, IsFile(d)
  PROVE  At(d) \in Point
BY DEF File, At, Point, IsFile

LEMMA SecondPoint ==
  ASSUME NEW s, Local(s), HasSecond(s)
  PROVE  Second(s) \in Point
<1>1. /\ s \in Server /\ s.off2 \in 1 .. s.off + 1 /\ s.off - s.off2 + 1 <= Len(s.data)
  BY DEF Local, Backlogged, HasSecond
<1>2. /\ s.off2 - 1 \in Nat /\ s.id2 \in Nat /\ s.data \in Seq(Nat)
      /\ Len(s.data) - (s.off - s.off2 + 1) \in 0 .. Len(s.data)
  BY <1>1 DEF Server
<1> DEFINE k == Len(s.data) - (s.off - s.off2 + 1)
<1>3. SubSeq(s.data, 1, k) \in Seq(Nat)
  BY <1>2
<1> QED BY <1>2, <1>3 DEF Second, Point

LEMMA EndPoint ==
  ASSUME NEW r, NEW s, NEW c, Local(s), Link(r, s, c), IsEnd(c)
  PROVE  /\ Base(s, c) \in Point /\ End(s, c) \in Point
         /\ Below(Base(s, c), End(s, c))
<1>1. c \in Connection /\ s \in Server /\ Receives(s, c)
  BY DEF Local, Link, IsEnd, NoConn
<1>2. Base(s, c) \in Point
  <2>1. CASE c.reply.type = "full"
    BY <1>1, <2>1 DEF Receives, Base, At, Connection, Reply, Point, NoReply
  <2>2. CASE c.reply.type # "full"
    BY <1>1, <2>2 DEF Base, Connection, Server, Reply, Point
  <2> QED BY <2>1, <2>2
<1> DEFINE b == Base(s, c)
<1>3. b.id \in Nat /\ b.off \in Nat /\ b.data \in Seq(Nat) /\ c.q \in Seq(Nat)
  BY <1>1, <1>2 DEF Connection, Point
<1>4. End(s, c) = [id |-> b.id, off |-> b.off + Len(c.q), data |-> b.data \o c.q]
  BY DEF End
<1> HIDE DEF b
<1>5. End(s, c) \in Point
  BY <1>3, <1>4 DEF Point
<1>6. Below(b, End(s, c))
  <2> DEFINE e == End(s, c)
  <2>1. e.id = b.id /\ e.off = b.off + Len(c.q) /\ e.data = b.data \o c.q
    BY DEF End, b
  <2>2. /\ Len(e.data) = Len(b.data) + Len(c.q)
        /\ \A i \in 1 .. Len(b.data) : b.data[i] = e.data[i]
    <3> DEFINE y == b.data
               q == c.q
    <3>1. y \in Seq(Nat) /\ q \in Seq(Nat)
      BY <1>3
    <3> HIDE DEF y, q
    <3>2. Len(y \o q) = Len(y) + Len(q) /\ \A i \in 1 .. Len(y) : y[i] = (y \o q)[i]
      BY <3>1
    <3> QED BY <2>1, <3>2 DEF y, q
  <2> HIDE DEF e
  <2>3. b.off <= e.off /\ e.off - b.off = Len(e.data) - Len(b.data)
    BY <1>3, <2>1, <2>2
  <2>4. Below(b, e)
    BY <2>1, <2>2, <2>3 DEF Below
  <2> QED BY <2>4 DEF e
<1> QED BY <1>2, <1>5, <1>6 DEF b

-----------------------------------------------------------------------------
(* Lemmas: one instance changes, and connections are closed.                *)

Shut(c) == [c EXCEPT !.open = FALSE]

LEMMA ShutFields ==
  ASSUME NEW r, NEW s, NEW c, NEW d, Link(r, s, c)
  PROVE  /\ Link(r, s, Shut(c)) /\ ~Shut(c).open
         /\ Claims(s, Shut(c), d) = Claims(s, c, d) /\ Told(s, Shut(c)) = Told(s, c)
<1>1. c \in Connection
  BY DEF Link
<1>2. /\ Shut(c) \in Connection /\ ~Shut(c).open
      /\ Shut(c).to = c.to /\ Shut(c).phase = c.phase /\ Shut(c).id = c.id /\ Shut(c).off = c.off
      /\ Shut(c).ack = c.ack /\ Shut(c).reply = c.reply /\ Shut(c).q = c.q
  BY <1>1 DEF Connection, Shut
<1>3. c = NoConn => Shut(c) = NoConn
  <2>1. NoConn.open = FALSE
    BY DEF NoConn
  <2>2. c.open = FALSE => Shut(c) = c
    BY <1>1 DEF Connection, Shut
  <2> QED BY <2>1, <2>2
<1>4. Link(r, s, Shut(c))
  BY <1>2, <1>3 DEF Link, Asks, Receives
<1>5. End(s, Shut(c)) = End(s, c) /\ (IsEnd(Shut(c)) <=> IsEnd(c))
  BY <1>2 DEF End, Base, IsEnd
<1>6. Claims(s, Shut(c), d) = Claims(s, c, d) /\ Told(s, Shut(c)) = Told(s, c)
  BY <1>5 DEF Claims, Told
<1> QED BY <1>2, <1>4, <1>6

LEMMA ClosedClaims ==
  ASSUME NEW r, NEW s, NEW c, NEW d, NEW c1, Link(r, s, c), c1 = c \/ c1 = Shut(c)
  PROVE  Claims(s, c1, d) = Claims(s, c, d) /\ Told(s, c1) = Told(s, c) /\ Link(r, s, c1)
BY ShutFields

LEMMA InPoints ==
  ASSUME NEW S, NEW C, NEW D, NEW p
  PROVE  p \in Points(S, C, D) <=> \E n \in Nodes : p \in Claims(S[n], C[n], D[n])
BY DEF Points

LEMMA ClaimsArePoints ==
  ASSUME NEW s, NEW c, NEW d
  PROVE  /\ Claims(s, c, d) \subseteq Point /\ Told(s, c) \subseteq Claims(s, c, d)
BY DEF Claims, Told

LEMMA InOthers ==
  ASSUME NEW S, NEW C, NEW D, NEW p, NEW n
  PROVE  p \in Others(S, C, D, n) <=>
           (\E k \in Nodes \ {n} : p \in Claims(S[k], C[k], D[k])) \/ p \in Told(S[n], C[n])
BY ClaimsArePoints DEF Others

\* What the instances with a backlog have.
Backed(S) == {At(S[m]) : m \in {n \in Nodes : S[n].backlog}}

\* It is among their claims.
LEMMA BackedClaims ==
  ASSUME NEW S, NEW C, NEW D, NEW m \in Nodes, Local(S[m]), S[m].backlog
  PROVE  At(S[m]) \in Claims(S[m], C[m], D[m])
<1>1. rdbPopulateSaveInfo(S[m]) /\ At(S[m]) \in Point
  BY AtPoint DEF Local, Backlogged
<1> QED BY <1>1 DEF Claims

\* A claim that was there before, or an earlier point.
Old(S, C, D, r, q) == \E p \in Claims(S[r], C[r], D[r]) \cup Backed(S) : Below(q, p)

\* A master has no connection of its own.
LEMMA MasterUnlinked ==
  ASSUME NEW r, NEW s, NEW c, Link(r, s, c), s.host = None
  PROVE  c = NoConn /\ ~IsEnd(c)
<1>1. c = NoConn
  BY DEF Link
<1> QED BY <1>1 DEF NoConn, IsEnd

\* An ID that was not taken yet, or that of a master that counts nothing.
Unheard(S, L, r, i) == L < i \/ (i = S[r].id /\ S[r].host = None /\ ~S[r].backlog)

LEMMA UnheardIds ==
  ASSUME NEW S, NEW C, NEW D, NEW L \in Nat, NEW B, NEW K, Good(S, C, D, L, B, K),
         NEW r \in Nodes, NEW i \in Nat, Unheard(S, L, r, i)
  PROVE  /\ \A p \in Points(S, C, D) : p.id # i
         /\ \A n \in Nodes \ {r} : Private(S[n]) => S[n].id # i
<1> DEFINE P == Points(S, C, D)
<1>0. /\ \A n \in Nodes : Local(S[n]) /\ Link(n, S[n], C[n])
      /\ \A n \in Nodes : S[n].id \in Nat /\ S[n].id <= L
      /\ \A p \in P : p.id \in Nat /\ p.id <= L
  <2>1. P \subseteq Point
    BY InPoints, ClaimsArePoints
  <2> QED BY <2>1 DEF Good, Taken, Point, Local, Server
<1>1. CASE L < i
  BY <1>0, <1>1
<1>2. CASE i = S[r].id /\ S[r].host = None /\ ~S[r].backlog
  <2>1. /\ \A p \in Others(S, C, D, r) : p.id # i
        /\ D[r].id # i
    BY <1>2 DEF Good, Secret, Private
  <2>2. ASSUME NEW p \in Claims(S[r], C[r], D[r]) PROVE p.id # i
    <3>1. ~rdbPopulateSaveInfo(S[r])
      BY <1>0, <1>2 DEF Local, rdbPopulateSaveInfo
    <3>2. ~IsEnd(C[r])
      BY <1>0, <1>2, MasterUnlinked
    <3>3. p = At(D[r])
      BY <2>2, <3>1, <3>2, <1>2 DEF Claims, HasSecond
    <3> QED BY <3>3, <2>1 DEF At
  <2>3. \A p \in P : p.id # i
    BY <2>1, <2>2, InPoints, InOthers
  <2>4. ASSUME NEW n \in Nodes, n # r, Private(S[n]) PROVE S[n].id # i
    <3>1. CASE S[n].host = None
      BY <1>2, <2>4, <3>1 DEF Good, Leads
    <3>2. CASE S[n].host # None
      <4>1. rdbPopulateSaveInfo(S[n]) /\ At(S[n]) \in Point
        BY <1>0, <2>4, <3>2, AtPoint DEF Private, rdbPopulateSaveInfo, Local
      <4>2. At(S[n]) \in P
        BY <4>1, InPoints DEF Claims
      <4> QED BY <4>2, <2>3 DEF At
    <3> QED BY <3>1, <3>2
  <2> QED BY <2>3, <2>4
<1> QED BY <1>1, <1>2 DEF Unheard

LEMMA NodeStep ==
  ASSUME NEW S, NEW C, NEW D, NEW L \in Nat, NEW B, NEW K, Good(S, C, D, L, B, K),
         NEW S1, NEW C1, NEW D1, NEW L1 \in Nat, NEW r \in Nodes, L <= L1,
         S1 = [n \in Nodes |-> S1[n]], C1 = [n \in Nodes |-> C1[n]], D1 \in [Nodes -> File],
         \A k \in Nodes \ {r} : /\ S1[k] = S[k] /\ D1[k] = D[k]
                                /\ C1[k] = C[k] \/ C1[k] = Shut(C[k]),
         Local(S1[r]), Link(r, S1[r], C1[r]), D1[r].id = None <=> D1[r].off = -1,
         \A q \in Claims(S1[r], C1[r], D1[r]) :
            Old(S, C, D, r, q) \/ (q = At(S1[r]) /\ Unheard(S, L, r, q.id)),
         S1[r].id <= L1,
         \A k \in Nodes \ {r} : Follows(C1, k, r) => S1[r].backlog /\ At(S1[r]) = At(S[r]),
         \A m \in Nodes : Follows(C1, r, m) => S[m].backlog /\ End(S1[r], C1[r]) = At(S[m]),
         S1[r].host = None =>
            \/ /\ S[r].host = None /\ S1[r].id = S[r].id /\ S1[r].off = S[r].off
               /\ S1[r].backlog => S[r].backlog
            \/ L < S1[r].id,
         Private(S1[r]) =>
            /\ L < S1[r].id \/ (Private(S[r]) /\ S1[r].id = S[r].id)
            /\ \A q \in Told(S1[r], C1[r]) :
                 \E p \in Told(S[r], C[r]) \cup Backed(S) : q.id = p.id,
         ~S1[r].backlog /\ S1[r].host = None => D1[r].id # S1[r].id,
         Whole(At(S1[r]), B, K),
         \A i \in 1 .. Len(D1[r].data) : D1[r].data[i] <= B
  PROVE  Good(S1, C1, D1, L1, B, K)
<1> DEFINE P == Points(S, C, D)
           Q == Points(S1, C1, D1)
<1>1. \A n \in Nodes : Local(S[n]) /\ Link(n, S[n], C[n]) /\ (D[n].id = None <=> D[n].off = -1)
  BY DEF Good
<1>2. \A k \in Nodes \ {r} :
        /\ Claims(S1[k], C1[k], D1[k]) = Claims(S[k], C[k], D[k])
        /\ Told(S1[k], C1[k]) = Told(S[k], C[k])
        /\ Link(k, S1[k], C1[k]) /\ Local(S1[k])
  <2> SUFFICES ASSUME NEW k \in Nodes \ {r}
               PROVE  /\ Claims(S1[k], C1[k], D1[k]) = Claims(S[k], C[k], D[k])
                      /\ Told(S1[k], C1[k]) = Told(S[k], C[k])
                      /\ Link(k, S1[k], C1[k]) /\ Local(S1[k])
    OBVIOUS
  <2>1. /\ S1[k] = S[k] /\ D1[k] = D[k] /\ (C1[k] = C[k] \/ C1[k] = Shut(C[k]))
        /\ Local(S[k]) /\ Link(k, S[k], C[k])
    BY <1>1
  <2> QED BY <2>1, ClosedClaims
<1>3. \A m \in Nodes : S[m].backlog => At(S[m]) \in Claims(S[m], C[m], D[m])
  BY <1>1, BackedClaims
<1>4. P \subseteq Point /\ Q \subseteq Point
  BY InPoints, ClaimsArePoints
<1>5. \A p \in Claims(S[r], C[r], D[r]) \cup Backed(S) : p \in P
  BY <1>3, InPoints DEF Backed
<1>6. \A q \in Q : (\E p \in P : Below(q, p)) \/ (q = At(S1[r]) /\ Unheard(S, L, r, q.id))
  <2> SUFFICES ASSUME NEW q \in Q
               PROVE  (\E p \in P : Below(q, p)) \/ (q = At(S1[r]) /\ Unheard(S, L, r, q.id))
    OBVIOUS
  <2>1. PICK n \in Nodes : q \in Claims(S1[n], C1[n], D1[n])
    BY InPoints
  <2>2. CASE n = r
    BY <2>1, <2>2, <1>5 DEF Old
  <2>3. CASE n # r
    <3>1. q \in P
      BY <2>1, <2>3, <1>2, InPoints
    <3> QED BY <3>1, <1>4, BelowItself
  <2> QED BY <2>2, <2>3
<1>7. \A n \in Nodes : Local(S1[n]) /\ Link(n, S1[n], C1[n]) /\ (D1[n].id = None <=> D1[n].off = -1)
  BY <1>1, <1>2
<1>8. \A p \in P : p.id \in Nat /\ p.id <= L
  BY <1>4 DEF Good, Taken, Point
<1>81. ASSUME NEW i \in Nat, Unheard(S, L, r, i)
       PROVE  /\ \A p \in P : p.id # i
              /\ \A n \in Nodes \ {r} : Private(S[n]) => S[n].id # i
  BY <1>81, UnheardIds
<1>82. \A q \in Q : q.id \in Nat
  BY <1>4 DEF Point
<1>9. \A p, q \in Q : Agree(p, q)
  <2> SUFFICES ASSUME NEW p \in Q, NEW q \in Q PROVE Agree(p, q)
    OBVIOUS
  <2>0. \A a, b \in P : Agree(a, b)
    BY DEF Good
  <2>1. CASE (\E a \in P : Below(p, a)) /\ (\E b \in P : Below(q, b))
    BY <2>0, <2>1, <1>4, CoveredAgree
  <2>2. CASE p = At(S1[r]) /\ q = At(S1[r])
    BY <2>2, <1>4, BelowItself DEF Agree
  <2>3. CASE (\E a \in P : Below(p, a)) /\ Unheard(S, L, r, q.id)
    <3>1. p.id # q.id
      BY <2>3, <1>81, <1>82 DEF Below
    <3> QED BY <3>1 DEF Agree
  <2>4. CASE Unheard(S, L, r, p.id) /\ \E b \in P : Below(q, b)
    <3>1. p.id # q.id
      BY <2>4, <1>81, <1>82 DEF Below
    <3> QED BY <3>1 DEF Agree
  <2> QED BY <1>6, <2>1, <2>2, <2>3, <2>4
<1>10. Attached(S1, C1)
  <2> SUFFICES ASSUME NEW k \in Nodes, NEW m \in Nodes, Follows(C1, k, m)
               PROVE  S1[m].backlog /\ End(S1[k], C1[k]) = At(S1[m])
    BY DEF Attached
  <2>0. k # m
    BY <1>7 DEF Follows, Link, NoConn
  <2>1. CASE k = r
    BY <2>0, <2>1
  <2>2. CASE k # r
    <3>1. C1[k] = C[k] /\ Follows(C, k, m)
      <4>1. ~Shut(C[k]).open
        BY <1>1, ShutFields
      <4> QED BY <2>2, <4>1 DEF Follows
    <3>2. S[m].backlog /\ End(S[k], C[k]) = At(S[m])
      BY <3>1 DEF Good, Attached
    <3>3. CASE m = r
      BY <2>2, <3>1, <3>2, <3>3
    <3>4. CASE m # r
      BY <2>2, <3>1, <3>2, <3>4
    <3> QED BY <3>3, <3>4
  <2> QED BY <2>1, <2>2
<1>11. Leads(S1, Q)
  <2>0. Leads(S, P)
    BY DEF Good
  <2>1. ASSUME NEW m \in Nodes, S1[m].host = None, S1[m].backlog, NEW q \in Q, q.id = S1[m].id
        PROVE  q.off <= S1[m].off
    <3>0. S1[m].off \in Nat /\ q.off \in Nat
      BY <1>4, <1>7 DEF Local, Server, Point
    <3>1. CASE q = At(S1[m])
      BY <3>0, <3>1 DEF At
    <3>2. CASE S[m].host = None /\ S[m].backlog /\ S1[m].id = S[m].id /\ S1[m].off = S[m].off
      <4>1. PICK p \in P : Below(q, p)
        <5>1. At(S[m]) \in P /\ At(S[m]).id = q.id
          BY <1>3, <2>1, <3>2, InPoints DEF At
        <5>2. ~Unheard(S, L, r, q.id)
          BY <5>1, <1>81, <1>82
        <5> QED BY <1>6, <5>2
      <4>2. p.id = q.id /\ q.off <= p.off /\ p.off \in Nat
        BY <4>1, <1>4 DEF Below, Point
      <4>3. p.off <= S[m].off
        BY <2>0, <2>1, <3>2, <4>2 DEF Leads
      <4> QED BY <3>0, <3>2, <4>2, <4>3
    <3>3. CASE m = r /\ L < S1[r].id
      <4>1. ~ \E p \in P : Below(q, p)
        <5>1. q.id \in Nat /\ L < q.id
          BY <2>1, <3>3, <1>4 DEF Point
        <5>2. ASSUME NEW p \in P, Below(q, p) PROVE FALSE
          <6>1. q.id = p.id
            BY <5>2 DEF Below
          <6> QED BY <5>1, <6>1, <1>8
        <5> QED BY <5>2
      <4> QED BY <1>6, <3>1, <3>3, <4>1
    <3>4. CASE m # r
      BY <2>1, <3>2, <3>4
    <3> QED BY <2>1, <3>2, <3>3, <3>4
  <2>2. ASSUME NEW m \in Nodes, NEW n \in Nodes, m # n, S1[m].host = None, S1[n].host = None
        PROVE  S1[m].id # S1[n].id
    <3>1. \A k \in Nodes : S[k].id \in Nat /\ S1[k].id \in Nat /\ S[k].id <= L
      BY <1>1, <1>7 DEF Local, Server, Good, Taken
    <3>2. \A k \in Nodes : S1[k].host = None => (S[k].host = None /\ S1[k].id = S[k].id) \/ (k = r /\ L < S1[k].id)
      OBVIOUS
    <3> QED BY <2>0, <2>2, <3>1, <3>2 DEF Leads
  <2> QED BY <2>1, <2>2 DEF Leads
<1>12. Secret(S1, C1, D1)
  <2>0. Secret(S, C, D)
    BY DEF Good
  <2>1. ASSUME NEW n \in Nodes, Private(S1[n]), NEW q \in Others(S1, C1, D1, n)
        PROVE  q.id # S1[n].id
    <3>0. /\ \A k \in Nodes : S[k].id \in Nat /\ S1[k].id \in Nat /\ S[k].id <= L
          /\ ~S1[n].backlog
      BY <2>1, <1>1, <1>7 DEF Local, Server, Good, Taken, Private
    <3>1. CASE n = r
      <4>1. q \in Told(S1[r], C1[r]) \/ \E k \in Nodes \ {r} : q \in Claims(S[k], C[k], D[k])
        BY <2>1, <3>1, <1>2, InOthers
      <4>2. PICK p : q.id = p.id /\ (p \in Others(S, C, D, r) \/ p \in Backed(S))
        BY <2>1, <3>1, <4>1, InOthers
      <4>3. p \in P
        BY <4>2, <1>5, InOthers, InPoints, ClaimsArePoints
      <4>4. CASE L < S1[r].id
        BY <3>0, <3>1, <4>2, <4>3, <4>4, <1>8
      <4>5. CASE Private(S[r]) /\ S1[r].id = S[r].id
        <5>1. p \in Others(S, C, D, r)
          <6>1. ~S[r].backlog
            BY <4>5 DEF Private
          <6>2. ASSUME p \in Backed(S) PROVE p \in Others(S, C, D, r)
            <7>1. PICK m \in Nodes : S[m].backlog /\ p = At(S[m])
              BY <6>2 DEF Backed
            <7> QED BY <6>1, <7>1, <1>3, InOthers
          <6> QED BY <4>2, <6>2
        <5> QED BY <2>0, <3>1, <4>2, <4>5, <5>1 DEF Secret
      <4> QED BY <2>1, <3>1, <4>4, <4>5
    <3>2. CASE n # r
      <4>1. S1[n] = S[n] /\ Private(S[n]) /\ ~S[n].backlog
        BY <2>1, <3>0, <3>2
      <4>2. \A p \in Others(S, C, D, n) : p.id # S[n].id
        BY <2>0, <4>1 DEF Secret
      <4>3. \/ q \in Claims(S1[r], C1[r], D1[r])
            \/ q \in Others(S, C, D, n)
        <5>1. \/ q \in Told(S1[n], C1[n])
              \/ \E k \in Nodes \ {n} : q \in Claims(S1[k], C1[k], D1[k])
          BY <2>1, InOthers
        <5>2. CASE q \in Told(S1[n], C1[n])
          BY <3>2, <5>2, <1>2, InOthers
        <5>3. CASE \E k \in Nodes \ {n} : q \in Claims(S1[k], C1[k], D1[k])
          BY <5>3, <1>2, InOthers
        <5> QED BY <5>1, <5>2, <5>3
      <4>4. CASE q \in Claims(S1[r], C1[r], D1[r])
        <5>1. CASE Old(S, C, D, r, q)
          <6>1. PICK p \in Claims(S[r], C[r], D[r]) \cup Backed(S) : Below(q, p)
            BY <5>1 DEF Old
          <6>2. p \in Others(S, C, D, n)
            <7>1. CASE p \in Claims(S[r], C[r], D[r])
              BY <3>2, <7>1, InOthers
            <7>2. CASE p \in Backed(S)
              <8>1. PICK m \in Nodes : S[m].backlog /\ p = At(S[m])
                BY <7>2 DEF Backed
              <8> QED BY <4>1, <8>1, <1>3, InOthers
            <7> QED BY <7>1, <7>2
          <6> QED BY <4>1, <4>2, <6>1, <6>2 DEF Below
        <5>2. CASE Unheard(S, L, r, q.id)
          <6>1. q.id \in Nat
            BY <4>4, ClaimsArePoints DEF Point
          <6> QED BY <3>2, <4>1, <5>2, <6>1, <1>81
        <5> QED BY <4>4, <5>1, <5>2
      <4> QED BY <4>1, <4>2, <4>3, <4>4
    <3> QED BY <3>1, <3>2
  <2>2. ASSUME NEW n \in Nodes, ~S1[n].backlog, S1[n].host = None
        PROVE  D1[n].id # S1[n].id
    <3>1. CASE n = r
      BY <2>2, <3>1
    <3>2. CASE n # r
      BY <2>0, <2>2, <3>2 DEF Secret
    <3> QED BY <3>1, <3>2
  <2> QED BY <2>1, <2>2 DEF Secret
<1>13. Taken(S1, Q, L1)
  <2>1. ASSUME NEW n \in Nodes PROVE S1[n].id <= L1
    <3>1. CASE n = r
      BY <3>1
    <3>2. CASE n # r
      <4>1. S[n].id \in Nat /\ S[n].id <= L
        BY <1>1 DEF Local, Server, Good, Taken
      <4> QED BY <3>2, <4>1
    <3> QED BY <3>1, <3>2
  <2>2. ASSUME NEW q \in Q PROVE q.id <= L1
    <3>1. CASE \E p \in P : Below(q, p)
      BY <3>1, <1>8 DEF Below
    <3>2. CASE q = At(S1[r])
      BY <3>2 DEF At
    <3> QED BY <1>6, <3>1, <3>2
  <2> QED BY <2>1, <2>2 DEF Taken
<1>14. AllWhole(S1, D1, Q, B, K)
  <2>0. AllWhole(S, D, P, B, K)
    BY DEF Good
  <2>1. ASSUME NEW q \in Q PROVE Whole(q, B, K)
    <3>1. CASE \E p \in P : Below(q, p)
      BY <2>0, <3>1, <1>4, WholeBelow DEF AllWhole
    <3>2. CASE q = At(S1[r])
      BY <3>2
    <3> QED BY <1>6, <3>1, <3>2
  <2>2. ASSUME NEW n \in Nodes
        PROVE  Whole(At(S1[n]), B, K) /\ \A i \in 1 .. Len(D1[n].data) : D1[n].data[i] <= B
    <3>1. CASE n = r
      BY <3>1
    <3>2. CASE n # r
      BY <2>0, <3>2 DEF AllWhole
    <3> QED BY <3>1, <3>2
  <2> QED BY <2>1, <2>2 DEF AllWhole
<1> QED BY <1>7, <1>9, <1>10, <1>11, <1>12, <1>13, <1>14 DEF Good

-----------------------------------------------------------------------------
(* Lemmas: a byte is added to the stream.                                   *)

FeedOf(s, w) == feedReplicationBacklog(Applied(s, w), w)

\* One byte later.
Later(p, w) == [id |-> p.id, off |-> p.off + 1, data |-> Append(p.data, w)]

Longer(c, w) == [c EXCEPT !.q = Append(@, w)]

LEMMA LaterPoint ==
  ASSUME NEW p \in Point, NEW w \in Nat
  PROVE  /\ Later(p, w) \in Point /\ Below(p, Later(p, w))
         /\ Later(p, w).id = p.id /\ Later(p, w).off = p.off + 1
         /\ Later(p, w).data = Append(p.data, w)
<1> DEFINE x == p.data
           o == p.off
           q == Later(p, w)
<1>1. p.id \in Nat /\ o \in Nat /\ x \in Seq(Nat)
  BY DEF Point
<1>2. q.id = p.id /\ q.off = o + 1 /\ q.data = Append(x, w)
  BY DEF Later
<1>3. q \in Point
  BY <1>1 DEF Later, Point
<1> HIDE DEF q, x, o
<1>4. Append(x, w) \in Seq(Nat) /\ Len(Append(x, w)) = Len(x) + 1 /\ Len(x) \in Nat
      /\ \A i \in 1 .. Len(x) : x[i] = Append(x, w)[i]
  BY <1>1
<1>5. o <= q.off /\ q.off - o = Len(q.data) - Len(x)
  BY <1>1, <1>2, <1>4
<1>6. Below(p, q)
  BY <1>2, <1>4, <1>5 DEF Below, x, o
<1> QED BY <1>2, <1>3, <1>6 DEF q, x, o

LEMMA FeedFields ==
  ASSUME NEW s, s \in Server, NEW w \in Nat
  PROVE  LET t == FeedOf(s, w) IN
         /\ t.host = s.host /\ t.state = s.state /\ t.id = s.id /\ t.id2 = s.id2 /\ t.off2 = s.off2
         /\ t.off = s.off + 1 /\ t.backlog = s.backlog /\ t.cached = s.cached
         /\ t.data = Append(s.data, w)
         /\ t.buf = IF Len(Append(s.buf, w)) > BacklogSize
                    THEN Tail(Append(s.buf, w)) ELSE Append(s.buf, w)
         /\ t \in Server
         /\ rdbPopulateSaveInfo(t) <=> rdbPopulateSaveInfo(s)
         /\ At(t) = Later(At(s), w)
<1> DEFINE a == Applied(s, w)
           b == IF Len(Append(s.buf, w)) > BacklogSize
                THEN Tail(Append(s.buf, w)) ELSE Append(s.buf, w)
           t == FeedOf(s, w)
<1>1. /\ a \in Server /\ a.host = s.host /\ a.state = s.state /\ a.id = s.id /\ a.id2 = s.id2
      /\ a.off2 = s.off2 /\ a.off = s.off /\ a.backlog = s.backlog /\ a.cached = s.cached
      /\ a.buf = s.buf /\ a.data = Append(s.data, w)
  <2> DEFINE x == Append(s.data, w)
  <2>1. x \in Seq(Nat) /\ a = [s EXCEPT !.data = x]
    BY DEF Applied, Server
  <2> HIDE DEF x, a
  <2>2. /\ a \in Server /\ a.host = s.host /\ a.state = s.state /\ a.id = s.id /\ a.id2 = s.id2
        /\ a.off2 = s.off2 /\ a.off = s.off /\ a.backlog = s.backlog /\ a.cached = s.cached
        /\ a.buf = s.buf /\ a.data = x
    BY <2>1 DEF Server
  <2> QED BY <2>2 DEF x
<1>2. s.buf \in Seq(Nat) /\ s.off \in Nat
  BY DEF Server
<1>3. b \in Seq(Nat)
  <2>1. Append(s.buf, w) \in Seq(Nat) /\ Append(s.buf, w) # <<>>
    BY <1>2
  <2>2. Tail(Append(s.buf, w)) \in Seq(Nat)
    BY <2>1
  <2> QED BY <2>1, <2>2
<1>4. t = [a EXCEPT !.off = s.off + 1, !.buf = b]
  BY <1>1 DEF FeedOf, feedReplicationBacklog
<1> HIDE DEF a, b
<1>5. /\ t \in Server /\ t.host = s.host /\ t.state = s.state /\ t.id = s.id /\ t.id2 = s.id2
      /\ t.off2 = s.off2 /\ t.off = s.off + 1 /\ t.backlog = s.backlog /\ t.cached = s.cached
      /\ t.buf = b /\ t.data = Append(s.data, w)
  <2> DEFINE o == s.off + 1
             u == [a EXCEPT !.off = o]
  <2>1. o \in Nat /\ t = [u EXCEPT !.buf = b]
    BY <1>2, <1>4
  <2> HIDE DEF o, t
  <2>2. /\ u \in Server /\ u.host = s.host /\ u.state = s.state /\ u.id = s.id /\ u.id2 = s.id2
        /\ u.off2 = s.off2 /\ u.off = o /\ u.backlog = s.backlog /\ u.cached = s.cached
        /\ u.data = Append(s.data, w)
    BY <1>1, <2>1 DEF Server
  <2> HIDE DEF u
  <2>3. /\ t \in Server /\ t.host = u.host /\ t.state = u.state /\ t.id = u.id /\ t.id2 = u.id2
        /\ t.off2 = u.off2 /\ t.off = u.off /\ t.backlog = u.backlog /\ t.cached = u.cached
        /\ t.buf = b /\ t.data = u.data
    BY <2>1, <2>2, <1>3 DEF Server
  <2> QED BY <2>2, <2>3 DEF o
<1> HIDE DEF t
<1>6. rdbPopulateSaveInfo(t) <=> rdbPopulateSaveInfo(s)
  BY <1>5 DEF rdbPopulateSaveInfo
<1>7. At(t) = Later(At(s), w)
  BY <1>5 DEF At, Later
<1> QED BY <1>5, <1>6, <1>7 DEF t, b

LEMMA FeedLocal ==
  ASSUME NEW s, Local(s), s.backlog, s.cached = NoCache, NEW w \in Nat
  PROVE  /\ Local(FeedOf(s, w))
         /\ HasSecond(FeedOf(s, w)) <=> HasSecond(s)
         /\ HasSecond(s) => Second(FeedOf(s, w)) = Second(s)
<1> DEFINE t == FeedOf(s, w)
           x == s.data
           y == s.buf
           b == IF Len(Append(y, w)) > BacklogSize THEN Tail(Append(y, w)) ELSE Append(y, w)
<1>1. s \in Server /\ Backlogged(s)
  BY DEF Local
<1>2. /\ t \in Server /\ t.host = s.host /\ t.state = s.state /\ t.id2 = s.id2 /\ t.off2 = s.off2
      /\ t.off = s.off + 1 /\ t.backlog /\ t.cached = NoCache /\ t.data = Append(x, w) /\ t.buf = b
      /\ rdbPopulateSaveInfo(t)
  BY <1>1, FeedFields DEF Backlogged
<1>3. /\ x \in Seq(Nat) /\ y \in Seq(Nat) /\ Len(x) \in Nat /\ Len(y) \in Nat
      /\ s.off \in Nat /\ s.off2 \in Int
  BY <1>1 DEF Server
<1>4. /\ Len(y) <= BacklogSize /\ Len(y) <= Len(x) /\ BacklogSize \in Nat \ {0}
      /\ \A i \in 1 .. Len(y) : y[i] = x[Len(x) - Len(y) + i]
      /\ s.id2 # None => s.off2 \in 1 .. s.off + 1 /\ s.off - s.off2 + 1 <= Len(x)
  BY <1>1, PsyncAssumption DEF Backlogged
<1> HIDE DEF t, x, y
<1> DEFINE X == Append(x, w)
           Y == Append(y, w)
<1>5. /\ X \in Seq(Nat) /\ Len(X) = Len(x) + 1 /\ X[Len(x) + 1] = w
      /\ \A i \in 1 .. Len(x) : X[i] = x[i]
      /\ Y \in Seq(Nat) /\ Len(Y) = Len(y) + 1 /\ Y[Len(y) + 1] = w
      /\ \A i \in 1 .. Len(y) : Y[i] = y[i]
  BY <1>3
<1>6. \A i \in 1 .. Len(Y) : Y[i] = X[Len(X) - Len(Y) + i]
  <2> SUFFICES ASSUME NEW i \in 1 .. Len(Y) PROVE Y[i] = X[Len(X) - Len(Y) + i]
    OBVIOUS
  <2>1. CASE i = Len(y) + 1
    BY <2>1, <1>3, <1>5
  <2>2. CASE i \in 1 .. Len(y)
    <3>1. Len(x) - Len(y) + i \in 1 .. Len(x) /\ Len(X) - Len(Y) + i = Len(x) - Len(y) + i
      BY <2>2, <1>3, <1>4, <1>5
    <3> QED BY <2>2, <3>1, <1>4, <1>5
  <2>3. i = Len(y) + 1 \/ i \in 1 .. Len(y)
    <3>1. Len(Y) = Len(y) + 1
      BY <1>5
    <3> HIDE DEF Y
    <3> QED BY <3>1, <1>3
  <2> QED BY <2>1, <2>2, <2>3
<1> HIDE DEF X, Y
<1>7. Tail(Y) \in Seq(Nat) /\ Len(Tail(Y)) = Len(y) /\ \A i \in 1 .. Len(y) : Tail(Y)[i] = Y[i + 1]
  BY <1>3, <1>5
<1>8. /\ Len(b) <= BacklogSize /\ Len(b) <= Len(X)
      /\ \A i \in 1 .. Len(b) : b[i] = X[Len(X) - Len(b) + i]
  <2>1. CASE Len(Y) > BacklogSize
    <3>1. b = Tail(Y)
      BY <2>1 DEF Y
    <3> HIDE DEF b
    <3>2. ASSUME NEW i \in 1 .. Len(y) PROVE b[i] = X[Len(X) - Len(y) + i]
      <4>1. i + 1 \in 1 .. Len(Y) /\ Len(X) - Len(Y) + (i + 1) = Len(X) - Len(y) + i
        BY <1>3, <1>5
      <4> QED BY <3>1, <4>1, <1>6, <1>7
    <3>3. Len(b) = Len(y) /\ Len(y) <= Len(X)
      BY <3>1, <1>3, <1>4, <1>5, <1>7
    <3> QED BY <3>2, <3>3, <1>4
  <2>2. CASE ~(Len(Y) > BacklogSize)
    <3>1. b = Y
      BY <2>2 DEF Y
    <3> HIDE DEF b
    <3> QED BY <2>2, <3>1, <1>3, <1>4, <1>5, <1>6
  <2> QED BY <2>1, <2>2
<1> HIDE DEF b
<1>9. s.id2 # None => t.off2 \in 1 .. t.off + 1 /\ t.off - t.off2 + 1 <= Len(X)
  <2> SUFFICES ASSUME s.id2 # None PROVE t.off2 \in 1 .. t.off + 1 /\ t.off - t.off2 + 1 <= Len(X)
    OBVIOUS
  <2> DEFINE o == s.off
             e == s.off2
             k == Len(x)
  <2>1. o \in Nat /\ e \in 1 .. o + 1 /\ o - e + 1 <= k /\ k \in Nat
    BY <1>3, <1>4
  <2>2. t.off = o + 1 /\ t.off2 = e /\ Len(X) = k + 1
    BY <1>2, <1>5
  <2> HIDE DEF o, e, k
  <2> QED BY <2>1, <2>2
<1>10. Backlogged(t)
  BY <1>2, <1>8, <1>9 DEF Backlogged, X
<1>11. Local(t)
  BY <1>2, <1>10 DEF Local, t
<1>12. HasSecond(t) <=> HasSecond(s)
  BY <1>2 DEF HasSecond
<1>13. ASSUME HasSecond(s) PROVE Second(t) = Second(s)
  <2> DEFINE k == Len(x) - (s.off - s.off2 + 1)
  <2>1. k \in 0 .. Len(x) /\ Len(X) - (t.off - t.off2 + 1) = k
    <3> DEFINE o == s.off
               e == s.off2
               m == Len(x)
    <3>1. o \in Nat /\ e \in 1 .. o + 1 /\ o - e + 1 <= m /\ m \in Nat
      BY <1>3, <1>4, <1>13 DEF HasSecond
    <3>2. t.off = o + 1 /\ t.off2 = e /\ Len(X) = m + 1
      BY <1>2, <1>5
    <3> HIDE DEF o, e, m
    <3>3. m - (o - e + 1) \in 0 .. m /\ Len(X) - (t.off - t.off2 + 1) = m - (o - e + 1)
      BY <3>1, <3>2
    <3> QED BY <3>3 DEF o, e, m
  <2> HIDE DEF k
  <2>2. SubSeq(X, 1, k) = SubSeq(x, 1, k)
    BY <2>1, <1>3, <1>5
  <2> QED BY <2>1, <2>2, <1>2 DEF Second, X, x, k
<1> QED BY <1>11, <1>12, <1>13 DEF t

\* Adding a byte to a concatenation adds it to its second part.
LEMMA AppendConcat ==
  ASSUME NEW y \in Seq(Nat), NEW q \in Seq(Nat), NEW w \in Nat
  PROVE  /\ Append(y \o q, w) = y \o Append(q, w)
         /\ Len(Append(q, w)) = Len(q) + 1 /\ Len(q) \in Nat
<1>1. <<w>> \in Seq(Nat) /\ y \o q \in Seq(Nat)
  OBVIOUS
<1>2. Append(y \o q, w) = (y \o q) \o <<w>> /\ Append(q, w) = q \o <<w>>
  BY <1>1, AppendIsConcat
<1>3. (y \o q) \o <<w>> = y \o (q \o <<w>>)
  BY <1>1, ConcatAssociative
<1> QED BY <1>2, <1>3

LEMMA LongerFields ==
  ASSUME NEW r, NEW s, NEW c, Local(s), Link(r, s, c), IsEnd(c), NEW w \in Nat,
         NEW e, e = Longer(c, w)
  PROVE  /\ Link(r, s, e) /\ e.to = c.to /\ e.phase = c.phase /\ e.open = c.open
         /\ End(s, e) = Later(End(s, c), w)
<1> DEFINE x == Append(c.q, w)
<1>1. c \in Connection /\ c.to # None /\ s.host = c.to
  BY DEF Link, IsEnd, NoConn
<1>2. x \in Seq(Nat) /\ e = [c EXCEPT !.q = x]
  BY <1>1 DEF Connection, Longer
<1> HIDE DEF x
<1>3. /\ e \in Connection /\ e.to = c.to /\ e.phase = c.phase /\ e.open = c.open /\ e.id = c.id
      /\ e.off = c.off /\ e.ack = c.ack /\ e.reply = c.reply /\ e.q = x
  BY <1>1, <1>2 DEF Connection
<1>4. Link(r, s, e)
  BY <1>1, <1>3 DEF Link, Asks, Receives, IsEnd
<1>5. Base(s, e) = Base(s, c)
  BY <1>3 DEF Base
<1>6. End(s, e) = Later(End(s, c), w)
  <2> DEFINE b == Base(s, c)
             y == b.data
             q == c.q
  <2>1. b \in Point /\ q \in Seq(Nat)
    BY <1>1, EndPoint DEF Connection
  <2>2. y \in Seq(Nat) /\ b.off \in Nat
    BY <2>1 DEF Point
  <2>3. /\ End(s, c) = [id |-> b.id, off |-> b.off + Len(q), data |-> y \o q]
        /\ End(s, e) = [id |-> b.id, off |-> b.off + Len(Append(q, w)), data |-> y \o Append(q, w)]
    BY <1>3, <1>5 DEF End, x
  <2> DEFINE o == b.off
             i == b.id
             l == Len(q)
  <2> HIDE DEF b, y, q
  <2>4. Append(y \o q, w) = y \o Append(q, w) /\ Len(Append(q, w)) = l + 1 /\ l \in Nat
    BY <2>1, <2>2, AppendConcat
  <2>6. o \in Nat
    BY <2>2
  <2> HIDE DEF o, i, l
  <2>5. o + (l + 1) = (o + l) + 1
    BY <2>4, <2>6
  <2>7. End(s, c).id = i /\ End(s, c).off = o + l /\ End(s, c).data = y \o q
    BY <2>3 DEF o, i, l
  <2>8. End(s, e) = [id |-> i, off |-> o + (l + 1), data |-> y \o Append(q, w)]
    BY <2>3, <2>4 DEF o, i
  <2> QED BY <2>4, <2>5, <2>7, <2>8 DEF Later
<1> QED BY <1>3, <1>4, <1>6

\* The instance r executes a byte that comes next in its history, and feeds it.
Feeding(S, C, D, S1, C1, r, w, B, K) ==
  /\ S[r].backlog /\ S[r].cached = NoCache
  /\ S1 = [S EXCEPT ![r] = FeedOf(S[r], w)] /\ C1 = [n \in Nodes |-> C1[n]]
  /\ \A k \in Nodes \ {r} : C1[k] = IF Follows(C, k, r) THEN Longer(C[k], w) ELSE C[k]
  /\ Link(r, S1[r], C1[r])
  /\ IsEnd(C1[r]) => IsEnd(C[r]) /\ End(S1[r], C1[r]) = End(S[r], C[r])
  /\ \A m \in Nodes : Follows(C1, r, m) => Follows(C, r, m)
  /\ \A q \in Points(S, C, D) : Agree(At(S1[r]), q)
  /\ \A m \in Nodes : m # r /\ S[m].host = None /\ S[m].backlog /\ S[m].id = S[r].id =>
       S[r].off + 1 <= S[m].off
  /\ Whole(At(S1[r]), B, K)

LEMMA FeedStep ==
  ASSUME NEW S, NEW C, NEW D, NEW L \in Nat, NEW B, NEW K, Good(S, C, D, L, B, K),
         NEW r \in Nodes, NEW w \in Nat, NEW S1, NEW C1, Feeding(S, C, D, S1, C1, r, w, B, K)
  PROVE  Good(S1, C1, D, L, B, K)
<1> USE DEF Feeding
<1> DEFINE P == Points(S, C, D)
           Q == Points(S1, C1, D)
           top == At(S1[r])
<1>1. \A n \in Nodes : Local(S[n]) /\ Link(n, S[n], C[n]) /\ (D[n].id = None <=> D[n].off = -1)
  BY DEF Good
<1>2. /\ S = [n \in Nodes |-> S[n]] /\ S1 = [n \in Nodes |-> S1[n]]
      /\ S1[r] = FeedOf(S[r], w) /\ \A k \in Nodes \ {r} : S1[k] = S[k]
  BY DEF Good
<1>3. /\ Local(S1[r]) /\ top = Later(At(S[r]), w) /\ S1[r].host = S[r].host /\ S1[r].id = S[r].id
      /\ S1[r].off = S[r].off + 1 /\ S1[r].backlog
      /\ HasSecond(S1[r]) <=> HasSecond(S[r])
      /\ HasSecond(S[r]) => Second(S1[r]) = Second(S[r])
      /\ rdbPopulateSaveInfo(S1[r]) <=> rdbPopulateSaveInfo(S[r])
  <2>1. S[r] \in Server
    BY <1>1 DEF Local
  <2> QED BY <1>1, <1>2, <2>1, FeedLocal, FeedFields
<1>4. At(S[r]) \in Point /\ At(S[r]) \in Claims(S[r], C[r], D[r])
  <2>1. S[r].backlog /\ Local(S[r])
    BY <1>1
  <2> HIDE DEF Feeding
  <2>2. At(S[r]) \in Claims(S[r], C[r], D[r])
    BY <2>1, BackedClaims
  <2> QED BY <2>2, ClaimsArePoints
<1>5. top \in Point /\ top.id = S[r].id /\ top.off = S[r].off + 1
  <2>1. At(S[r]).id = S[r].id /\ At(S[r]).off = S[r].off
    BY DEF At
  <2> QED BY <1>3, <1>4, <2>1, LaterPoint
<1> HIDE DEF top
<1>6. ASSUME NEW k \in Nodes, k # r, Follows(C, k, r)
      PROVE  /\ Link(k, S1[k], C1[k]) /\ End(S1[k], C1[k]) = top
             /\ \A q \in Claims(S1[k], C1[k], D[k]) : q \in Claims(S[k], C[k], D[k]) \/ q = top
             /\ \A q \in Told(S1[k], C1[k]) : q \in Told(S[k], C[k]) \/ q = top
  <2>1. IsEnd(C[k]) /\ C1[k] = Longer(C[k], w) /\ S1[k] = S[k] /\ Local(S[k]) /\ Link(k, S[k], C[k])
    BY <1>1, <1>2, <1>6 DEF Follows, IsEnd
  <2>2. End(S[k], C[k]) = At(S[r])
    BY <1>6 DEF Good, Attached
  <2>3. Link(k, S[k], C1[k]) /\ End(S[k], C1[k]) = Later(At(S[r]), w)
    BY <2>1, <2>2, LongerFields
  <2>4. /\ \A q \in Claims(S[k], C1[k], D[k]) :
             q \in Claims(S[k], C[k], D[k]) \/ q = End(S[k], C1[k])
        /\ \A q \in Told(S[k], C1[k]) : q \in Told(S[k], C[k]) \/ q = End(S[k], C1[k])
    BY DEF Claims, Told
  <2> QED BY <2>1, <2>3, <2>4, <1>3
<1>7. ASSUME NEW k \in Nodes, k # r, ~Follows(C, k, r)
      PROVE  S1[k] = S[k] /\ C1[k] = C[k]
  BY <1>2, <1>7
<1>8. \A q \in Claims(S1[r], C1[r], D[r]) : q \in Claims(S[r], C[r], D[r]) \/ q = top
  BY <1>3 DEF Claims, top
<1>9. \A n \in Nodes : \A q \in Claims(S1[n], C1[n], D[n]) : q \in Claims(S[n], C[n], D[n]) \/ q = top
  BY <1>6, <1>7, <1>8
<1>10. \A q \in Q : q \in P \/ q = top
  BY <1>9, InPoints
<1>11. P \subseteq Point
  BY InPoints, ClaimsArePoints
<1>12. \A n \in Nodes : Local(S1[n]) /\ Link(n, S1[n], C1[n]) /\ (D[n].id = None <=> D[n].off = -1)
  BY <1>1, <1>2, <1>3, <1>6, <1>7
<1>13. \A p, q \in Q : Agree(p, q)
  <2>1. \A p, q \in P : Agree(p, q)
    BY DEF Good
  <2>2. Agree(top, top)
    BY <1>5, BelowItself DEF Agree
  <2>3. \A q \in P : Agree(top, q) /\ Agree(q, top)
    BY AgreeSym DEF top
  <2> QED BY <1>10, <2>1, <2>2, <2>3
<1>14. Attached(S1, C1)
  <2> SUFFICES ASSUME NEW k \in Nodes, NEW m \in Nodes, Follows(C1, k, m)
               PROVE  S1[m].backlog /\ End(S1[k], C1[k]) = At(S1[m])
    BY DEF Attached
  <2>0. k # m
    BY <1>12 DEF Follows, Link, NoConn
  <2>1. CASE k = r
    <3>1. Follows(C, k, m) /\ IsEnd(C1[r])
      BY <2>1 DEF Follows, IsEnd
    <3>2. S[m].backlog /\ End(S[k], C[k]) = At(S[m])
      BY <3>1 DEF Good, Attached
    <3> QED BY <1>2, <2>0, <2>1, <3>1, <3>2
  <2>2. CASE k # r /\ Follows(C, k, r)
    <3>1. C1[k].to = C[k].to
      <4>1. IsEnd(C[k]) /\ C1[k] = Longer(C[k], w) /\ Local(S[k]) /\ Link(k, S[k], C[k])
        BY <2>2, <1>1 DEF Follows, IsEnd
      <4> QED BY <4>1, LongerFields
    <3>2. m = r
      BY <2>2, <3>1 DEF Follows
    <3> QED BY <2>2, <3>2, <1>3, <1>6 DEF top
  <2>3. CASE k # r /\ ~Follows(C, k, r)
    <3>1. S1[k] = S[k] /\ C1[k] = C[k]
      BY <2>3, <1>7
    <3>2. Follows(C, k, m) /\ m # r
      BY <2>3, <3>1 DEF Follows
    <3>3. S[m].backlog /\ End(S[k], C[k]) = At(S[m])
      BY <3>2 DEF Good, Attached
    <3> QED BY <3>1, <3>2, <3>3, <1>2
  <2> QED BY <2>1, <2>2, <2>3
<1>15. Leads(S1, Q)
  <2>0. Leads(S, P)
    BY DEF Good
  <2>1. \A n \in Nodes : /\ S1[n].host = S[n].host /\ S1[n].id = S[n].id
                         /\ S1[n].backlog <=> S[n].backlog
    BY <1>2, <1>3
  <2>2. \A n \in Nodes : S[n].off \in Nat /\ S[n].off <= S1[n].off /\ S1[n].off \in Nat
    <3> SUFFICES ASSUME NEW n \in Nodes
                 PROVE  S[n].off \in Nat /\ S[n].off <= S1[n].off /\ S1[n].off \in Nat
      OBVIOUS
    <3>1. S[n].off \in Nat /\ S[r].off \in Nat
      BY <1>1 DEF Local, Server
    <3>2. CASE n = r
      BY <3>1, <3>2, <1>3
    <3>3. CASE n # r
      BY <3>1, <3>3, <1>2
    <3> QED BY <3>2, <3>3
  <2>3. ASSUME NEW m \in Nodes, S1[m].host = None, S1[m].backlog, NEW q \in Q, q.id = S1[m].id
        PROVE  q.off <= S1[m].off
    <3>1. CASE q \in P
      <4>1. q.off <= S[m].off /\ q.off \in Nat
        BY <2>0, <2>1, <2>3, <3>1, <1>11 DEF Leads, Point
      <4> QED BY <2>2, <4>1
    <3>2. CASE q = top
      <4>1. CASE m = r
        BY <3>2, <4>1, <1>3, <1>5, <2>2
      <4>2. CASE m # r
        <5>1. S1[m] = S[m] /\ S[m].id = S[r].id
          BY <2>3, <3>2, <4>2, <1>2, <1>5
        <5> QED BY <2>3, <3>2, <4>2, <5>1, <1>5
      <4> QED BY <4>1, <4>2
    <3> QED BY <1>10, <3>1, <3>2
  <2>4. \A m, n \in Nodes : m # n /\ S1[m].host = None /\ S1[n].host = None => S1[m].id # S1[n].id
    BY <2>0, <2>1 DEF Leads
  <2> QED BY <2>3, <2>4 DEF Leads
<1>16. Secret(S1, C1, D)
  <2>0. Secret(S, C, D)
    BY DEF Good
  <2>1. ASSUME NEW n \in Nodes, ~S1[n].backlog
        PROVE  n # r /\ S1[n] = S[n]
    BY <2>1, <1>2, <1>3
  <2>2. ASSUME NEW n \in Nodes, Private(S1[n]), NEW q \in Others(S1, C1, D, n)
        PROVE  q.id # S1[n].id
    <3>1. n # r /\ S1[n] = S[n]
      BY <2>1, <2>2 DEF Private
    <3>2. \A p \in Others(S, C, D, n) : p.id # S[n].id
      BY <2>0, <2>2, <3>1 DEF Secret
    <3>3. At(S[r]) \in Others(S, C, D, n)
      BY <3>1, <1>4, InOthers
    <3>4. q \in Others(S, C, D, n) \/ q = top
      <4>1. q \in Told(S1[n], C1[n]) => q \in Told(S[n], C[n]) \/ q = top
        BY <3>1, <1>6, <1>7
      <4> QED BY <2>2, <4>1, <1>9, InOthers
    <3>5. At(S[r]).id = S[r].id
      BY DEF At
    <3> QED BY <3>1, <3>2, <3>3, <3>4, <3>5, <1>5
  <2> QED BY <2>0, <2>1, <2>2 DEF Secret
<1>17. Taken(S1, Q, L)
  <2>1. Taken(S, P, L)
    BY DEF Good
  <2> QED BY <2>1, <1>2, <1>3, <1>5, <1>10 DEF Taken
<1>18. AllWhole(S1, D, Q, B, K)
  <2>1. AllWhole(S, D, P, B, K)
    BY DEF Good
  <2>2. ASSUME NEW n \in Nodes PROVE Whole(At(S1[n]), B, K)
    <3>1. CASE n = r
      BY <3>1
    <3>2. CASE n # r
      BY <2>1, <3>2, <1>2 DEF AllWhole
    <3> QED BY <3>1, <3>2
  <2> QED BY <2>1, <2>2, <1>10 DEF AllWhole, top
<1> QED BY <1>2, <1>12, <1>13, <1>14, <1>15, <1>16, <1>17, <1>18 DEF Good


-----------------------------------------------------------------------------
(* Lemmas: what the steps of one instance do to its records.                *)

Node(r, s, c, d) ==
  /\ Local(s) /\ Link(r, s, c) /\ d \in File /\ (d.id = None <=> d.off = -1)
  /\ ~s.backlog /\ s.host = None => d.id # s.id

\* A point that is claimed, or in X, or an earlier one.
Covered(q, s, c, d, X) == \E p \in Claims(s, c, d) \cup X : Below(q, p)

\* The claims of r become earlier points, or those of X, or an unheard ID is claimed; a
\* master has an ID and an offset of its own, and what is private stays so.
Evolves(r, s, c, d, s1, c1, d1, L, X) ==
  /\ Node(r, s1, c1, d1)
  /\ rdbPopulateSaveInfo(s1) =>
       Covered(At(s1), s, c, d, X) \/ L < s1.id \/ (s1.id = s.id /\ s.host = None /\ ~s.backlog)
  /\ HasSecond(s1) => Covered(Second(s1), s, c, d, X)
  /\ IsFile(d1) => Covered(At(d1), s, c, d, X)
  /\ IsEnd(c1) => Covered(End(s1, c1), s, c, d, X)
  /\ s1.host = None =>
       \/ s.host = None /\ s1.id = s.id /\ s1.off = s.off /\ (s1.backlog => s.backlog)
       \/ L < s1.id
  /\ Private(s1) =>
       /\ L < s1.id \/ (Private(s) /\ s1.id = s.id)
       /\ \A q \in Told(s1, c1) : \E p \in Told(s, c) \cup X : q.id = p.id

\* Only the records of r change, but for connections that are closed.
Frame(S, C, D, S1, C1, D1, r) ==
  /\ S1 = [n \in Nodes |-> S1[n]] /\ C1 = [n \in Nodes |-> C1[n]] /\ D1 \in [Nodes -> File]
  /\ \A k \in Nodes \ {r} : /\ S1[k] = S[k] /\ D1[k] = D[k]
                            /\ C1[k] = C[k] \/ C1[k] = Shut(C[k])

\* The slaves of r, and r as a slave, still have what their master has.
StaysAttached(S, C, S1, C1, r) ==
  /\ \A k \in Nodes \ {r} : Follows(C1, k, r) => S1[r].backlog /\ At(S1[r]) = At(S[r])
  /\ \A m \in Nodes : Follows(C1, r, m) => S[m].backlog /\ End(S1[r], C1[r]) = At(S[m])

LEMMA EvolveStep ==
  ASSUME NEW S, NEW C, NEW D, NEW L \in Nat, NEW B, NEW K, Good(S, C, D, L, B, K),
         NEW S1, NEW C1, NEW D1, NEW L1 \in Nat, NEW r \in Nodes, L <= L1, S1[r].id <= L1,
         Frame(S, C, D, S1, C1, D1, r),
         Evolves(r, S[r], C[r], D[r], S1[r], C1[r], D1[r], L, Backed(S)),
         StaysAttached(S, C, S1, C1, r),
         Whole(At(S1[r]), B, K), \A i \in 1 .. Len(D1[r].data) : D1[r].data[i] <= B
  PROVE  Good(S1, C1, D1, L1, B, K)
<1>1. /\ S1 = [n \in Nodes |-> S1[n]] /\ C1 = [n \in Nodes |-> C1[n]] /\ D1 \in [Nodes -> File]
      /\ \A k \in Nodes \ {r} : /\ S1[k] = S[k] /\ D1[k] = D[k]
                                /\ C1[k] = C[k] \/ C1[k] = Shut(C[k])
  BY DEF Frame
<1>2. Local(S1[r]) /\ Link(r, S1[r], C1[r]) /\ (D1[r].id = None <=> D1[r].off = -1)
  BY DEF Evolves, Node
<1>3. \A q \in Claims(S1[r], C1[r], D1[r]) :
        Old(S, C, D, r, q) \/ (q = At(S1[r]) /\ Unheard(S, L, r, q.id))
  <2>1. At(S1[r]).id = S1[r].id
    BY DEF At
  <2> QED BY <2>1 DEF Evolves, Covered, Claims, Old, Unheard
<1>4. /\ \A k \in Nodes \ {r} : Follows(C1, k, r) => S1[r].backlog /\ At(S1[r]) = At(S[r])
      /\ \A m \in Nodes : Follows(C1, r, m) => S[m].backlog /\ End(S1[r], C1[r]) = At(S[m])
  BY DEF StaysAttached
<1>5. S1[r].host = None =>
        \/ /\ S[r].host = None /\ S1[r].id = S[r].id /\ S1[r].off = S[r].off
           /\ S1[r].backlog => S[r].backlog
        \/ L < S1[r].id
  BY DEF Evolves
<1>6. Private(S1[r]) =>
        /\ L < S1[r].id \/ (Private(S[r]) /\ S1[r].id = S[r].id)
        /\ \A q \in Told(S1[r], C1[r]) : \E p \in Told(S[r], C[r]) \cup Backed(S) : q.id = p.id
  BY DEF Evolves
<1>7. ~S1[r].backlog /\ S1[r].host = None => D1[r].id # S1[r].id
  BY DEF Evolves, Node
<1> QED BY <1>1, <1>2, <1>3, <1>4, <1>5, <1>6, <1>7, NodeStep, SMTT(60)

LEMMA GoodNode ==
  ASSUME NEW S, NEW C, NEW D, NEW L, NEW B, NEW K, Good(S, C, D, L, B, K), NEW r \in Nodes
  PROVE  /\ Node(r, S[r], C[r], D[r]) /\ Whole(At(S[r]), B, K)
         /\ \A i \in 1 .. Len(D[r].data) : D[r].data[i] <= B
         /\ S[r].id \in Nat /\ S[r].id <= L
BY DEF Good, Node, Secret, Taken, AllWhole, Local, Server

\* Every claim covers itself, and the end of a connection what is read before it.
LEMMA CoveredBy ==
  ASSUME NEW r, NEW s, NEW c, NEW d, Node(r, s, c, d), NEW X
  PROVE  /\ rdbPopulateSaveInfo(s) => Covered(At(s), s, c, d, X)
         /\ HasSecond(s) => Covered(Second(s), s, c, d, X)
         /\ IsFile(d) => Covered(At(d), s, c, d, X)
         /\ IsEnd(c) => Covered(End(s, c), s, c, d, X) /\ Covered(Base(s, c), s, c, d, X)
<1>1. Local(s) /\ Link(r, s, c) /\ d \in File /\ (d.id = None <=> d.off = -1) /\ s \in Server
  BY DEF Node, Local
<1>2. \A q \in Claims(s, c, d) : Below(q, q)
  BY ClaimsArePoints, BelowItself
<1>3. rdbPopulateSaveInfo(s) => At(s) \in Claims(s, c, d)
  BY <1>1, AtPoint DEF Claims
<1>4. HasSecond(s) => Second(s) \in Claims(s, c, d)
  BY <1>1, SecondPoint DEF Claims
<1>5. IsFile(d) => At(d) \in Claims(s, c, d)
  BY <1>1, FilePoint DEF Claims
<1>6. IsEnd(c) => End(s, c) \in Claims(s, c, d) /\ Below(Base(s, c), End(s, c))
  BY <1>1, EndPoint DEF Claims
<1> QED BY <1>2, <1>3, <1>4, <1>5, <1>6 DEF Covered

\* Another connection with the same end.
LEMMA SameEnd ==
  ASSUME NEW r, NEW s, NEW c, NEW d, Node(r, s, c, d), NEW c1, Link(r, s, c1),
         IsEnd(c1) => IsEnd(c) /\ End(s, c1) = End(s, c), NEW L, NEW X
  PROVE  Evolves(r, s, c, d, s, c1, d, L, X)
<1>1. Node(r, s, c1, d)
  BY DEF Node
<1>2. Told(s, c1) \subseteq Told(s, c)
  BY DEF Told
<1> QED BY <1>1, <1>2, CoveredBy DEF Evolves

\* The host, the state and the cached master change.
Relabel(s, s1) ==
  /\ s1 \in Server /\ s1.id = s.id /\ s1.off = s.off /\ s1.data = s.data /\ s1.id2 = s.id2
  /\ s1.off2 = s.off2 /\ s1.backlog = s.backlog /\ s1.buf = s.buf
  /\ s1.host = None <=> s1.state = "none"
  /\ s1.host = None => s.host = None
  /\ s1.cached # NoCache =>
       s1.state \in {"connect", "psync"} /\ s1.cached = [id |-> s.id, off |-> s.off]
  /\ s1.state = "connected" => s.backlog
  /\ s.backlog => rdbPopulateSaveInfo(s1)
  /\ rdbPopulateSaveInfo(s1) => rdbPopulateSaveInfo(s) \/ (s.host = None /\ ~s.backlog)
  /\ Private(s1) => Private(s)

LEMMA Relabelled ==
  ASSUME NEW r, NEW s, NEW c, NEW d, Node(r, s, c, d), NEW s1, NEW c1, Relabel(s, s1),
         Link(r, s1, c1), ~IsEnd(c1), NEW L, NEW X
  PROVE  Evolves(r, s, c, d, s1, c1, d, L, X) /\ At(s1) = At(s)
<1> USE DEF Relabel
<1>1. At(s1) = At(s) /\ Second(s1) = Second(s) /\ (HasSecond(s1) <=> HasSecond(s))
  BY DEF At, Second, HasSecond
<1>2. Local(s1)
  <2>1. s.backlog => Backlogged(s)
    BY DEF Node, Local
  <2>2. s.backlog => Backlogged(s1)
    BY <2>1 DEF Backlogged
  <2> QED BY <2>2 DEF Node, Local
<1>3. Node(r, s1, c1, d)
  BY <1>2 DEF Node
<1>4. Told(s1, c1) \subseteq Told(s, c)
  BY <1>1 DEF Told
<1> QED BY <1>1, <1>3, <1>4, CoveredBy DEF Evolves

LEMMA SendPsyncNode ==
  ASSUME NEW r, NEW s, NEW c, NEW d, Node(r, s, c, d), s.state = "connect",
         NEW s1, s1 = [s EXCEPT !.state = "psync"], NEW c1,
         c1 = [to |-> s.host, phase |-> "asked", open |-> TRUE,
               id |-> s.cached.id, off |-> s.cached.off + 1, ack |-> 0,
               reply |-> NoReply, q |-> <<>>], NEW L, NEW X
  PROVE  Evolves(r, s, c, d, s1, c1, d, L, X) /\ At(s1) = At(s) /\ s1.backlog = s.backlog
         /\ ~IsEnd(c1)
<1>1. s \in Server /\ Local(s) /\ s.host # None /\ s.host # r
  BY DEF Node, Local, Link
<1>2. /\ s1 \in Server /\ s1.id = s.id /\ s1.off = s.off /\ s1.data = s.data /\ s1.id2 = s.id2
      /\ s1.off2 = s.off2 /\ s1.backlog = s.backlog /\ s1.buf = s.buf /\ s1.host = s.host
      /\ s1.cached = s.cached /\ s1.state = "psync"
  BY <1>1 DEF Server
<1>3. s.cached.id \in Nat /\ s.cached.off + 1 \in Nat /\ s.host \in Nodes \cup {None}
  BY <1>1 DEF Server
<1>4. NoReply \in Reply
  BY DEF NoReply, Reply, None
<1>5. c1 \in Connection
  BY <1>3, <1>4 DEF Connection
<1>6. c1.to = s.host /\ c1.phase = "asked" /\ c1.id = s.cached.id /\ c1.off = s.cached.off + 1
      /\ c1.ack = 0 /\ c1.reply = NoReply /\ c1.q = <<>>
  OBVIOUS
<1>7. Link(r, s1, c1) /\ ~IsEnd(c1)
  BY <1>1, <1>2, <1>5, <1>6 DEF Link, Asks, IsEnd
<1>8. /\ s1.cached # NoCache => s1.cached = [id |-> s.id, off |-> s.off]
      /\ rdbPopulateSaveInfo(s1) <=> rdbPopulateSaveInfo(s)
      /\ Private(s1) => Private(s)
      /\ s.backlog => rdbPopulateSaveInfo(s)
  BY <1>1, <1>2 DEF Local, rdbPopulateSaveInfo, Private, Backlogged
<1>9. Relabel(s, s1)
  BY <1>1, <1>2, <1>8 DEF Relabel
<1> QED BY <1>2, <1>7, <1>9, Relabelled

LEMMA NoConnLink ==
  ASSUME NEW r, NEW s, s.host # r, s.state \in {"none", "connect"}
  PROVE  Link(r, s, NoConn) /\ ~IsEnd(NoConn) /\ NoConn.to = None
<1>1. NoReply \in Reply
  BY DEF NoReply, Reply, None
<1>2. NoConn \in Connection
  BY <1>1 DEF NoConn, Connection, None
<1>3. NoConn.to = None /\ NoConn.phase = "none"
  BY DEF NoConn
<1> QED BY <1>2, <1>3 DEF Link, IsEnd

\* freeClient(server.master) caches the master.
LEMMA FreeMasterFields ==
  ASSUME NEW s, Local(s), NEW t, t = FreeMaster(s)
  PROVE  /\ t \in Server /\ t.id = s.id /\ t.off = s.off /\ t.data = s.data /\ t.id2 = s.id2
         /\ t.off2 = s.off2 /\ t.backlog = s.backlog /\ t.buf = s.buf /\ t.host = s.host
         /\ t.state = s.state
         /\ t.cached = IF s.state = "connected" THEN [id |-> s.id, off |-> s.off] ELSE s.cached
<1>1. s \in Server
  BY DEF Local
<1>2. [id |-> s.id, off |-> s.off] \in [id : Nat, off : Nat \cup {-1}]
  BY <1>1 DEF Server
<1> DEFINE x == [id |-> s.id, off |-> s.off]
<1>3. t = IF s.state = "connected" THEN [s EXCEPT !.cached = x] ELSE s
  BY DEF FreeMaster, CacheMaster
<1>4. x \in [id : Nat, off : Nat \cup {-1}]
  BY <1>2
<1> HIDE DEF x
<1>5. /\ t \in Server /\ t.id = s.id /\ t.off = s.off /\ t.data = s.data /\ t.id2 = s.id2
      /\ t.off2 = s.off2 /\ t.backlog = s.backlog /\ t.buf = s.buf /\ t.host = s.host
      /\ t.state = s.state
      /\ t.cached = IF s.state = "connected" THEN x ELSE s.cached
  <2>1. CASE s.state = "connected"
    <3>1. t = [s EXCEPT !.cached = x]
      BY <1>3, <2>1
    <3> QED BY <1>1, <1>4, <2>1, <3>1 DEF Server
  <2>2. CASE s.state # "connected"
    BY <1>1, <1>3, <2>2
  <2> QED BY <2>1, <2>2
<1> QED BY <1>5 DEF x

\* No instance has the ID 0, so that a cache that was filled is one.
LEMMA CachedSome ==
  ASSUME NEW s, s \in Server
  PROVE  [id |-> s.id, off |-> s.off] # NoCache
<1>1. s.id # 0
  BY DEF Server
<1>2. [id |-> s.id, off |-> s.off].id = s.id /\ NoCache.id = 0
  BY DEF NoCache, None
<1> QED BY <1>1, <1>2

LEMMA UnlinkNode ==
  ASSUME NEW r, NEW s, NEW c, NEW d, Node(r, s, c, d), c.to # None,
         NEW s1, s1 = Unlinked(s), NEW L, NEW X
  PROVE  Evolves(r, s, c, d, s1, NoConn, d, L, X) /\ At(s1) = At(s) /\ s1.backlog = s.backlog
<1> DEFINE t == FreeMaster(s)
<1>1. Local(s) /\ s \in Server /\ s.host # None /\ s.host # r
  BY DEF Node, Local, Link
<1>2. /\ t \in Server /\ t.id = s.id /\ t.off = s.off /\ t.data = s.data /\ t.id2 = s.id2
      /\ t.off2 = s.off2 /\ t.backlog = s.backlog /\ t.buf = s.buf /\ t.host = s.host
      /\ t.cached = IF s.state = "connected" THEN [id |-> s.id, off |-> s.off] ELSE s.cached
      /\ s1 = [t EXCEPT !.state = "connect"]
  BY <1>1, FreeMasterFields DEF Unlinked
<1> HIDE DEF t
<1>3. /\ s1 \in Server /\ s1.id = s.id /\ s1.off = s.off /\ s1.data = s.data /\ s1.id2 = s.id2
      /\ s1.off2 = s.off2 /\ s1.backlog = s.backlog /\ s1.buf = s.buf /\ s1.host = s.host
      /\ s1.cached = IF s.state = "connected" THEN [id |-> s.id, off |-> s.off] ELSE s.cached
      /\ s1.state = "connect"
  BY <1>2 DEF Server
<1>4. Link(r, s1, NoConn) /\ ~IsEnd(NoConn)
  BY <1>1, <1>3, NoConnLink
<1>5. Relabel(s, s1)
  <2>1. /\ s1.cached # NoCache => s1.cached = [id |-> s.id, off |-> s.off]
        /\ rdbPopulateSaveInfo(s1) <=> s1.cached # NoCache
        /\ rdbPopulateSaveInfo(s) <=> s.state = "connected" \/ s.cached # NoCache
        /\ s.backlog => rdbPopulateSaveInfo(s)
        /\ s.state = "connected" => s.backlog
    BY <1>1, <1>3 DEF Local, rdbPopulateSaveInfo, Backlogged
  <2>2. s1.cached # NoCache <=> s.state = "connected" \/ s.cached # NoCache
    BY <1>1, <1>3, CachedSome
  <2>3. Private(s1) => Private(s)
    BY <1>1, <1>3, <2>1, <2>2 DEF Private
  <2> QED BY <1>1, <1>3, <2>1, <2>2, <2>3 DEF Relabel
<1> QED BY <1>3, <1>4, <1>5, Relabelled

Cached(s) == IF FreeMaster(s).host = None THEN CacheMaster(FreeMaster(s)) ELSE FreeMaster(s)
Demoted(t, m) == [t EXCEPT !.host = m, !.state = "connect"]

LEMMA ReplicaofNode ==
  ASSUME NEW r, NEW s, NEW c, NEW d, Node(r, s, c, d), NEW m \in Nodes, m # r, m # None,
         NEW t, t = Cached(s), NEW s1, s1 = Demoted(t, m), NEW L, NEW X
  PROVE  Evolves(r, s, c, d, s1, NoConn, d, L, X) /\ At(s1) = At(s)
<1> USE DEF Cached, Demoted
<1> DEFINE f == FreeMaster(s)
           x == [id |-> s.id, off |-> s.off]
<1>1. Local(s) /\ s \in Server /\ x \in [id : Nat, off : Nat \cup {-1}] /\ x # NoCache
  BY CachedSome DEF Node, Local, Server
<1>2. /\ f \in Server /\ f.id = s.id /\ f.off = s.off /\ f.data = s.data /\ f.id2 = s.id2
      /\ f.off2 = s.off2 /\ f.backlog = s.backlog /\ f.buf = s.buf /\ f.host = s.host
      /\ f.cached = IF s.state = "connected" THEN x ELSE s.cached
  BY <1>1, FreeMasterFields
<1>3. t = IF s.host = None THEN [f EXCEPT !.cached = x] ELSE f
  BY <1>2 DEF CacheMaster
<1> HIDE DEF f, x
<1>4. /\ t \in Server /\ t.id = s.id /\ t.off = s.off /\ t.data = s.data /\ t.id2 = s.id2
      /\ t.off2 = s.off2 /\ t.backlog = s.backlog /\ t.buf = s.buf
      /\ t.cached = IF s.host = None \/ s.state = "connected" THEN x ELSE s.cached
  BY <1>1, <1>2, <1>3 DEF Server
<1>5. /\ s1 \in Server /\ s1.id = s.id /\ s1.off = s.off /\ s1.data = s.data /\ s1.id2 = s.id2
      /\ s1.off2 = s.off2 /\ s1.backlog = s.backlog /\ s1.buf = s.buf /\ s1.host = m
      /\ s1.cached = IF s.host = None \/ s.state = "connected" THEN x ELSE s.cached
      /\ s1.state = "connect"
  BY <1>4 DEF Server
<1>6. Link(r, s1, NoConn) /\ ~IsEnd(NoConn)
  BY <1>5, NoConnLink
<1>7. Relabel(s, s1)
  <2>1. /\ s1.cached # NoCache => s1.cached = x
        /\ rdbPopulateSaveInfo(s1) <=> s1.cached # NoCache
        /\ rdbPopulateSaveInfo(s) <=>
             (s.host = None /\ s.backlog) \/ s.state = "connected" \/ s.cached # NoCache
        /\ s.backlog => rdbPopulateSaveInfo(s)
        /\ s.state = "connected" => s.backlog
    BY <1>1, <1>5 DEF Local, rdbPopulateSaveInfo, Backlogged, x
  <2>2. s1.cached # NoCache <=> s.host = None \/ s.state = "connected" \/ s.cached # NoCache
    BY <1>1, <1>5
  <2>3. Private(s1) => Private(s)
    BY <1>1, <1>5, <2>1, <2>2 DEF Private
  <2> QED BY <1>1, <1>5, <2>1, <2>2, <2>3 DEF Relabel, x
<1> QED BY <1>6, <1>7, Relabelled

Promoted(s, new) ==
  [shiftReplicationId(s, new) EXCEPT !.host = None, !.state = "none", !.cached = NoCache]

\* An instance that starts a history: only its file was claimed before, and perhaps, as
\* its second ID, what it had.
LEMMA UnsetMasterNode ==
  ASSUME NEW r, NEW s, NEW c, NEW d, Node(r, s, c, d), NEW L \in Nat, NEW new \in Nat, L < new,
         d.id <= L, NEW s1, NEW X, s.host # None, r # None, s1 = Promoted(s, new)
  PROVE  Evolves(r, s, c, d, s1, NoConn, d, L, X) /\ s1.id = new
         /\ s1.off = s.off /\ s1.data = s.data
<1> USE DEF Promoted
<1>1. Local(s) /\ s \in Server /\ d \in File
  BY DEF Node, Local
<1>2. s.id # None /\ s.id \in Nat /\ s.off \in Nat /\ s.data \in Seq(Nat) /\ new \in Nat \ {0}
  BY <1>1 DEF Server, None
<1> DEFINE o == s.off + 1
           a == [s EXCEPT !.id2 = s.id, !.off2 = o, !.id = new]
<1>3. /\ a \in Server /\ a.id2 = s.id /\ a.off2 = o /\ a.id = new /\ a.off = s.off /\ a.data = s.data
      /\ a.backlog = s.backlog /\ a.buf = s.buf
  <2>1. o \in Nat
    BY <1>2
  <2> HIDE DEF o
  <2> QED BY <1>1, <1>2, <2>1 DEF Server
<1>4. s1 = [a EXCEPT !.host = None, !.state = "none", !.cached = NoCache]
  BY DEF shiftReplicationId
<1>5. NoCache \in [id : Nat, off : Nat \cup {-1}]
  BY DEF NoCache, None
<1> HIDE DEF a
<1>6. /\ s1 \in Server /\ s1.host = None /\ s1.state = "none" /\ s1.cached = NoCache
      /\ s1.id2 = s.id /\ s1.off2 = o /\ s1.id = new /\ s1.off = s.off /\ s1.data = s.data
      /\ s1.backlog = s.backlog /\ s1.buf = s.buf
  <2> DEFINE x == NoCache
  <2>1. x \in [id : Nat, off : Nat \cup {-1}] /\ s1 = [a EXCEPT !.host = None, !.state = "none", !.cached = x]
    BY <1>4, <1>5
  <2> HIDE DEF x, o
  <2>2. /\ s1 \in Server /\ s1.host = None /\ s1.state = "none" /\ s1.cached = x
        /\ s1.id2 = a.id2 /\ s1.off2 = a.off2 /\ s1.id = a.id /\ s1.off = a.off /\ s1.data = a.data
        /\ s1.backlog = a.backlog /\ s1.buf = a.buf
    BY <1>3, <2>1 DEF Server
  <2> QED BY <1>3, <2>2 DEF x
<1>7. /\ s1.off2 \in 1 .. s1.off + 1 /\ s1.off - s1.off2 + 1 = 0 /\ 0 <= Len(s1.data)
      /\ s1.off2 - 1 = s.off
  <2> DEFINE k == s.off
  <2>1. k \in Nat /\ s1.off = k /\ s1.off2 = k + 1 /\ Len(s1.data) \in Nat
    BY <1>2, <1>6
  <2> HIDE DEF k
  <2>2. s1.off2 \in 1 .. s1.off + 1 /\ s1.off - s1.off2 + 1 = 0 /\ s1.off2 - 1 = k
    BY <2>1
  <2> QED BY <2>1, <2>2 DEF k
<1>8. s.backlog => Backlogged(s1)
  <2>1. s.backlog => Backlogged(s)
    BY <1>1 DEF Local
  <2> QED BY <2>1, <1>6, <1>7 DEF Backlogged, rdbPopulateSaveInfo
<1>9. Local(s1)
  BY <1>1, <1>2, <1>6, <1>8 DEF Local
<1>10. Link(r, s1, NoConn) /\ ~IsEnd(NoConn)
  BY <1>6, NoConnLink
<1>11. Node(r, s1, NoConn, d)
  <2>1. d.id \in Nat
    BY <1>1 DEF File
  <2> QED BY <1>6, <1>9, <1>10, <2>1 DEF Node
<1>12. HasSecond(s1) => Covered(Second(s1), s, c, d, X)
  <2>1. HasSecond(s1) => rdbPopulateSaveInfo(s)
    BY <1>1, <1>6 DEF HasSecond, Local, Backlogged
  <2>2. SubSeq(s1.data, 1, Len(s1.data) - (s1.off - s1.off2 + 1)) = s.data
    <3> DEFINE x == s.data
    <3>1. x \in Seq(Nat)
      BY <1>2
    <3>2. Len(s1.data) - (s1.off - s1.off2 + 1) = Len(x)
      BY <1>2, <1>6, <1>7
    <3> HIDE DEF x
    <3>3. SubSeq(x, 1, Len(x)) = x
      BY <3>1
    <3> QED BY <1>6, <3>2, <3>3 DEF x
  <2>3. Second(s1) = At(s)
    BY <1>6, <1>7, <2>2 DEF Second, At
  <2> QED BY <2>1, <2>3, CoveredBy
<1>13. Private(s1) => Told(s1, NoConn) = {}
  BY <1>10 DEF Told, Private, HasSecond
<1> QED BY <1>6, <1>10, <1>11, <1>12, <1>13, CoveredBy DEF Evolves

\* A master gets a new ID, and gives up its backlog or has a new one.
LEMMA NewHistoryNode ==
  ASSUME NEW r, NEW s, NEW c, NEW d, Node(r, s, c, d), NEW L \in Nat, NEW new \in Nat, L < new,
         d.id <= L, s.host = None, NEW b \in BOOLEAN, NEW s1, NEW X,
         s1 \in Server, s1.host = None, s1.state = s.state, s1.cached = s.cached, s1.id = new,
         s1.id2 = None, s1.off2 = -1, s1.off = s.off, s1.data = s.data, s1.backlog = b, s1.buf = <<>>
  PROVE  Evolves(r, s, c, d, s1, c, d, L, X)
<1>1. Local(s) /\ s \in Server /\ d \in File /\ Link(r, s, c) /\ s.host # r
  BY DEF Node, Local, Link
<1>2. c = NoConn /\ ~IsEnd(c)
  BY <1>1, MasterUnlinked
<1>3. s.state = "none" /\ s.cached = NoCache
  BY <1>1 DEF Local
<1>4. BacklogSize \in Nat
  BY PsyncAssumption
<1>5. b => Backlogged(s1)
  <2>1. s1.data \in Seq(Nat) /\ Len(s1.buf) = 0
    BY DEF Server
  <2> QED BY <1>4, <2>1 DEF Backlogged, rdbPopulateSaveInfo, None
<1>6. Local(s1)
  BY <1>3, <1>5 DEF Local
<1>7. Link(r, s1, c)
  BY <1>1, <1>2, <1>3, NoConnLink
<1>8. Node(r, s1, c, d)
  <2>1. d.id \in Nat
    BY <1>1 DEF File
  <2> QED BY <1>6, <1>7, <2>1 DEF Node
<1>9. ~HasSecond(s1) /\ Told(s1, c) = {}
  BY <1>2 DEF HasSecond, Told
<1> QED BY <1>2, <1>8, <1>9, CoveredBy DEF Evolves

Saved(s) ==
  IF rdbPopulateSaveInfo(s) THEN [data |-> s.data, id |-> s.id, off |-> s.off]
  ELSE [data |-> s.data, id |-> None, off |-> -1]

LEMMA SaveRdbNode ==
  ASSUME NEW r, NEW s, NEW c, NEW d, Node(r, s, c, d), NEW d1, NEW L, NEW X,
         d1 = Saved(s)
  PROVE  Evolves(r, s, c, d, s, c, d1, L, X) /\ d1.data = s.data
<1> USE DEF Saved
<1>1. Local(s) /\ s \in Server
  BY DEF Node, Local
<1>2. s.data \in Seq(Nat) /\ s.id \in Nat \ {0} /\ s.off \in Nat
  BY <1>1 DEF Server
<1>3. d1 \in File /\ (d1.id = None <=> d1.off = -1) /\ d1.data = s.data
  BY <1>2 DEF File, None
<1>4. IsFile(d1) => rdbPopulateSaveInfo(s) /\ At(d1) = At(s)
  BY DEF IsFile, At
<1>5. ~s.backlog /\ s.host = None => d1.id # s.id
  <2>1. ~s.backlog /\ s.host = None => ~rdbPopulateSaveInfo(s)
    BY <1>1 DEF Local, rdbPopulateSaveInfo
  <2> QED BY <1>2, <2>1 DEF None
<1>6. Node(r, s, c, d1)
  BY <1>3, <1>5 DEF Node
<1> QED BY <1>3, <1>4, <1>6, CoveredBy DEF Evolves

Started(s, d, new, keep) ==
  [host |-> s.host, state |-> IF s.host = None THEN "none" ELSE "connect",
   id |-> IF keep THEN d.id ELSE new, id2 |-> None, off2 |-> -1,
   off |-> IF keep THEN d.off ELSE 0,
   backlog |-> FALSE, buf |-> <<>>, cached |-> NoCache, data |-> d.data]
Resumed(s0, keep) == IF keep THEN CacheMaster(s0) ELSE s0

LEMMA RestartNode ==
  ASSUME NEW r, NEW s, NEW c, NEW d, Node(r, s, c, d), NEW L \in Nat, NEW new \in Nat, L < new,
         d.id <= L, NEW keep \in BOOLEAN, keep <=> s.host # None /\ d.id # None, NEW s0, NEW s1, NEW X,
         s0 = Started(s, d, new, keep), s1 = Resumed(s0, keep)
  PROVE  /\ Evolves(r, s, c, d, s1, NoConn, d, L, X)
         /\ s1.id \in Nat /\ s1.id <= new /\ s1.data = d.data
         /\ IF keep THEN IsFile(d) /\ At(s1) = At(d) ELSE s1.off = 0
<1> USE DEF Started, Resumed
<1>1. Local(s) /\ s \in Server /\ d \in File /\ s.host # r /\ (d.id = None <=> d.off = -1)
  BY DEF Node, Local, Link
<1>2. s.host \in Nodes \cup {None} /\ d.data \in Seq(Nat) /\ d.id \in Nat /\ d.off \in Nat \cup {-1}
  BY <1>1 DEF Server, File
<1> DEFINE i == IF keep THEN d.id ELSE new
           o == IF keep THEN d.off ELSE 0
           x == IF keep THEN [id |-> i, off |-> o] ELSE NoCache
           st == IF s.host = None THEN "none" ELSE "connect"
<1>3. i \in Nat \ {0} /\ o \in Nat /\ i <= new
  BY <1>1, <1>2 DEF None
<1>4. x \in [id : Nat, off : Nat \cup {-1}]
  BY <1>3 DEF NoCache, None
<1>5. s0 = [host |-> s.host, state |-> st, id |-> i, id2 |-> None, off2 |-> -1, off |-> o,
            backlog |-> FALSE, buf |-> <<>>, cached |-> NoCache, data |-> d.data]
  OBVIOUS
<1>51. s1 = IF keep THEN [s0 EXCEPT !.cached = [id |-> i, off |-> o]] ELSE s0
  <2>1. s0.id = i /\ s0.off = o
    BY <1>5
  <2> QED BY <2>1 DEF CacheMaster
<1>6. st \in {"none", "connect"} /\ (s.host = None <=> st = "none")
  OBVIOUS
<1>61. x # NoCache => keep /\ x = [id |-> i, off |-> o]
  OBVIOUS
<1> HIDE DEF i, o, x, st
<1>7. /\ s1.host = s.host /\ s1.state = st /\ s1.id = i /\ s1.id2 = None /\ s1.off2 = -1
      /\ s1.off = o /\ ~s1.backlog /\ s1.buf = <<>> /\ s1.cached = x /\ s1.data = d.data
      /\ s1 \in Server
  <2>1. /\ s0.host = s.host /\ s0.state = st /\ s0.id = i /\ s0.id2 = None /\ s0.off2 = -1
        /\ s0.off = o /\ ~s0.backlog /\ s0.buf = <<>> /\ s0.cached = NoCache /\ s0.data = d.data
        /\ s0 \in Server
    BY <1>2, <1>3, <1>5, <1>6 DEF Server, None, NoCache
  <2>2. CASE keep
    <3>1. s1 = [s0 EXCEPT !.cached = x]
      BY <2>2, <1>51 DEF x
    <3> QED BY <2>1, <3>1, <1>4 DEF Server
  <2>3. CASE ~keep
    BY <2>1, <2>3, <1>51 DEF x
  <2> QED BY <2>2, <2>3
<1>9. x # NoCache => st = "connect"
  BY <1>6, <1>61
<1>10. Local(s1)
  BY <1>6, <1>61, <1>7, <1>9 DEF Local
<1>11. Link(r, s1, NoConn) /\ ~IsEnd(NoConn)
  BY <1>1, <1>6, <1>7, NoConnLink
<1>12. ~keep => i = new
  BY DEF i
<1>13. Node(r, s1, NoConn, d)
  <2>1. s.host = None => d.id # i
    BY <1>2, <1>12
  <2> QED BY <1>1, <1>7, <1>10, <1>11, <2>1 DEF Node
<1>14. keep => IsFile(d) /\ At(s1) = At(d)
  BY <1>7 DEF IsFile, At, i, o
<1>15. rdbPopulateSaveInfo(s1) => keep
  BY <1>6, <1>61, <1>7 DEF rdbPopulateSaveInfo
<1>16. Private(s1) => L < s1.id /\ Told(s1, NoConn) = {}
  BY <1>7, <1>11, <1>12 DEF Private, Told, HasSecond
<1>17. ~HasSecond(s1)
  BY <1>7 DEF HasSecond
<1>18. s1.host = None => L < s1.id
  BY <1>7, <1>12
<1>19. Evolves(r, s, c, d, s1, NoConn, d, L, X)
  BY <1>11, <1>13, <1>14, <1>15, <1>16, <1>17, <1>18, CoveredBy DEF Evolves
<1> QED BY <1>3, <1>7, <1>14, <1>19 DEF o

\* The connection of a replica that reads an answer.
LEMMA AnswerLink ==
  ASSUME NEW r, NEW s, NEW c, NEW d, Node(r, s, c, d), c.reply.type \in {"continue", "full"}
  PROVE  /\ IsEnd(c) /\ c \in Connection /\ c.to = s.host /\ c.to # None /\ c.to # r /\ s.host # r
         /\ c.reply \in Reply /\ c.reply.id # None /\ c.ack = 0 /\ Receives(s, c)
         /\ s \in Server /\ Local(s) /\ d \in File
<1>1. Link(r, s, c) /\ Local(s) /\ s \in Server /\ d \in File
  BY DEF Node, Local
<1>2. c.reply # NoReply
  BY DEF NoReply
<1>3. c # NoConn
  BY <1>2 DEF NoConn
<1>4. c \in Connection /\ c.to = s.host /\ c.to # None /\ s.host # r /\ c.phase = "slave" /\ Receives(s, c)
  BY <1>1, <1>2, <1>3 DEF Link, Asks
<1>5. c.reply \in Reply
  BY <1>4 DEF Connection
<1>6. c.reply.id # None /\ c.ack = 0
  BY <1>2, <1>4 DEF Receives
<1> QED BY <1>1, <1>4, <1>5, <1>6 DEF IsEnd

Transferring(s) == [freeReplicationBacklog(s) EXCEPT !.state = "transfer", !.cached = NoCache]

LEMMA ReceiveFullresyncNode ==
  ASSUME NEW r, NEW s, NEW c, NEW d, Node(r, s, c, d), c.reply.type = "full", s.state = "psync",
         NEW s1, NEW L, NEW X,
         s1 = Transferring(s)
  PROVE  /\ Evolves(r, s, c, d, s1, c, d, L, X) /\ End(s1, c) = End(s, c)
         /\ s1.id = s.id /\ s1.off = s.off /\ s1.data = s.data
<1> USE DEF Transferring
<1>1. /\ IsEnd(c) /\ c \in Connection /\ c.to = s.host /\ c.to # None /\ s.host # r
      /\ Receives(s, c) /\ s \in Server /\ Local(s)
  BY AnswerLink
<1>2. NoCache \in [id : Nat, off : Nat \cup {-1}]
  BY DEF NoCache, None
<1> DEFINE x == NoCache
           a == freeReplicationBacklog(s)
<1>3. /\ a \in Server /\ a.host = s.host /\ a.id = s.id /\ a.off = s.off /\ a.data = s.data
      /\ ~a.backlog /\ a.buf = <<>> /\ a.id2 = s.id2 /\ a.off2 = s.off2
  <2> DEFINE b == FALSE
             y == <<>>
  <2>1. b \in BOOLEAN /\ y \in Seq(Nat) /\ a = [s EXCEPT !.backlog = b, !.buf = y]
    BY DEF freeReplicationBacklog
  <2> HIDE DEF b, y, a
  <2>2. /\ a \in Server /\ a.host = s.host /\ a.id = s.id /\ a.off = s.off /\ a.data = s.data
        /\ a.backlog = b /\ a.buf = y /\ a.id2 = s.id2 /\ a.off2 = s.off2
    BY <1>1, <2>1 DEF Server
  <2> QED BY <2>2 DEF b, y
<1>4. s1 = [a EXCEPT !.state = "transfer", !.cached = x] /\ x \in [id : Nat, off : Nat \cup {-1}]
  BY <1>2
<1> HIDE DEF x, a
<1>5. /\ s1 \in Server /\ s1.host = s.host /\ s1.id = s.id /\ s1.off = s.off /\ s1.data = s.data
      /\ ~s1.backlog /\ s1.buf = <<>> /\ s1.id2 = s.id2 /\ s1.off2 = s.off2 /\ s1.state = "transfer"
      /\ s1.cached = x
  BY <1>3, <1>4 DEF Server
<1>6. Local(s1)
  BY <1>1, <1>5 DEF Local, x
<1>7. Receives(s1, c)
  BY <1>1, <1>5 DEF Receives, NoReply
<1>8. Link(r, s1, c)
  BY <1>1, <1>5, <1>7 DEF Link, IsEnd
<1>9. Node(r, s1, c, d)
  BY <1>1, <1>5, <1>6, <1>8 DEF Node
<1>10. End(s1, c) = End(s, c)
  BY DEF End, Base
<1>11. ~rdbPopulateSaveInfo(s1) /\ ~HasSecond(s1) /\ ~Private(s1) /\ s1.host # None
  BY <1>1, <1>5 DEF rdbPopulateSaveInfo, HasSecond, Private, x
<1> QED BY <1>5, <1>9, <1>10, <1>11, CoveredBy DEF Evolves

FileIn(c) == [data |-> c.reply.data, id |-> c.reply.id, off |-> c.reply.off]

\* The file that is received.
LEMMA ReceivedFile ==
  ASSUME NEW r, NEW s, NEW c, NEW d, Node(r, s, c, d), c.reply.type = "full", NEW X, NEW d1,
         d1 = FileIn(c)
  PROVE  /\ d1 \in File /\ (d1.id = None <=> d1.off = -1) /\ At(d1) = Base(s, c)
         /\ Covered(At(d1), s, c, d, X) /\ IsEnd(c) /\ d1.data = Base(s, c).data
         /\ d1.id \in Nat \ {0} /\ d1.off \in Nat /\ d1.data \in Seq(Nat)
<1> USE DEF FileIn
<1>1. /\ IsEnd(c) /\ c.reply \in Reply /\ c.reply.id # None /\ Receives(s, c)
  BY AnswerLink
<1>2. c.reply.off # -1
  BY <1>1 DEF Receives, NoReply
<1>3. c.reply.data \in Seq(Nat) /\ c.reply.id \in Nat \ {0} /\ c.reply.off \in Nat
  BY <1>1, <1>2 DEF Reply, None
<1>4. /\ d1 \in File /\ (d1.id = None <=> d1.off = -1) /\ d1.data \in Seq(Nat)
      /\ d1.id \in Nat \ {0} /\ d1.off \in Nat
  BY <1>3 DEF File, None
<1>5. At(d1) = Base(s, c) /\ d1.data = Base(s, c).data
  BY DEF At, Base
<1> QED BY <1>1, <1>4, <1>5, CoveredBy

Flushed(s) == [s EXCEPT !.data = <<>>, !.state = "connect"]

LEMMA LoadFailsNode ==
  ASSUME NEW r, NEW s, NEW c, NEW d, Node(r, s, c, d), c.reply.type = "full", s.state = "transfer",
         NEW s1, NEW d1, NEW L, NEW X,
         s1 = Flushed(s),
         d1 = FileIn(c)
  PROVE  /\ Evolves(r, s, c, d, s1, NoConn, d1, L, X)
         /\ s1.id = s.id /\ s1.data = <<>> /\ ~s.backlog
<1> USE DEF FileIn, Flushed
<1>1. c.to # None /\ c.to = s.host /\ s.host # r /\ s \in Server /\ Local(s)
  BY AnswerLink
<1>2. s.cached = NoCache /\ ~s.backlog /\ s.host # None /\ s.buf = <<>>
  <2>1. s.cached = NoCache /\ s.host # None
    BY <1>1 DEF Local
  <2>2. ~rdbPopulateSaveInfo(s)
    BY <2>1 DEF rdbPopulateSaveInfo
  <2> QED BY <1>1, <2>1, <2>2 DEF Local, Backlogged
<1>3. /\ s1 \in Server /\ s1.host = s.host /\ s1.id = s.id /\ s1.off = s.off /\ s1.data = <<>>
      /\ s1.backlog = s.backlog /\ s1.buf = s.buf /\ s1.id2 = s.id2 /\ s1.off2 = s.off2
      /\ s1.state = "connect" /\ s1.cached = s.cached
  <2> DEFINE y == <<>>
  <2>1. y \in Seq(Nat) /\ s1 = [s EXCEPT !.data = y, !.state = "connect"]
    OBVIOUS
  <2> HIDE DEF y
  <2>2. /\ s1 \in Server /\ s1.host = s.host /\ s1.id = s.id /\ s1.off = s.off /\ s1.data = y
        /\ s1.backlog = s.backlog /\ s1.buf = s.buf /\ s1.id2 = s.id2 /\ s1.off2 = s.off2
        /\ s1.state = "connect" /\ s1.cached = s.cached
    BY <1>1, <2>1 DEF Server
  <2> QED BY <2>2 DEF y
<1>4. Local(s1)
  BY <1>1, <1>2, <1>3 DEF Local
<1>5. Link(r, s1, NoConn) /\ ~IsEnd(NoConn)
  BY <1>1, <1>3, NoConnLink
<1>6. d1 \in File /\ (d1.id = None <=> d1.off = -1) /\ Covered(At(d1), s, c, d, X)
  BY ReceivedFile
<1>7. Node(r, s1, NoConn, d1)
  BY <1>2, <1>3, <1>4, <1>5, <1>6 DEF Node
<1>8. ~rdbPopulateSaveInfo(s1) /\ ~HasSecond(s1) /\ ~Private(s1)
  BY <1>2, <1>3 DEF rdbPopulateSaveInfo, HasSecond, Private
<1> QED BY <1>2, <1>3, <1>5, <1>6, <1>7, <1>8 DEF Evolves

LEMMA CreateFields ==
  ASSUME NEW s, s \in Server, NEW t, t = createReplicationBacklog(s)
  PROVE  /\ t \in Server /\ t.host = s.host /\ t.state = s.state /\ t.id = s.id /\ t.id2 = s.id2
         /\ t.off2 = s.off2 /\ t.off = s.off /\ t.cached = s.cached /\ t.data = s.data /\ t.backlog
         /\ t.buf = IF s.backlog THEN s.buf ELSE <<>>
<1>1. CASE s.backlog
  BY <1>1 DEF createReplicationBacklog
<1>2. CASE ~s.backlog
  <2> DEFINE b == TRUE
             y == <<>>
  <2>1. b \in BOOLEAN /\ y \in Seq(Nat) /\ t = [s EXCEPT !.backlog = b, !.buf = y]
    BY <1>2 DEF createReplicationBacklog
  <2> HIDE DEF b, y
  <2>2. /\ t \in Server /\ t.host = s.host /\ t.state = s.state /\ t.id = s.id /\ t.id2 = s.id2
        /\ t.off2 = s.off2 /\ t.off = s.off /\ t.cached = s.cached /\ t.data = s.data /\ t.backlog = b
        /\ t.buf = y
    BY <2>1 DEF Server
  <2> QED BY <1>2, <2>2 DEF b, y
<1> QED BY <1>1, <1>2

\* The answer has been read, and the end of the connection is the same for who has it.
LEMMA AnsweredFields ==
  ASSUME NEW s, NEW c, NEW s1, NEW c1, c \in Connection, c1 = [c EXCEPT !.reply = NoReply],
         Base(s, c) = At(s1)
  PROVE  /\ c1 \in Connection /\ c1.to = c.to /\ c1.phase = c.phase /\ c1.open = c.open
         /\ c1.ack = c.ack /\ c1.q = c.q /\ c1.reply = NoReply
         /\ End(s1, c1) = End(s, c)
<1> DEFINE x == NoReply
<1>1. x \in Reply /\ c1 = [c EXCEPT !.reply = x]
  BY DEF NoReply, Reply, None
<1> HIDE DEF x
<1>2. /\ c1 \in Connection /\ c1.to = c.to /\ c1.phase = c.phase /\ c1.open = c.open
      /\ c1.ack = c.ack /\ c1.q = c.q /\ c1.reply = x
  BY <1>1 DEF Connection
<1>3. c1.reply.type = "none"
  BY <1>2 DEF x, NoReply
<1>4. Base(s1, c1) = At(s1)
  BY <1>3 DEF Base, At
<1>5. End(s1, c1) = End(s, c)
  BY <1>2, <1>4 DEF End
<1> QED BY <1>2, <1>5 DEF x

Loaded(s, x, i, o) == [s EXCEPT !.data = x, !.id = i, !.off = o, !.state = "connected"]

LEMMA LoadedFields ==
  ASSUME NEW s, s \in Server, NEW x \in Seq(Nat), NEW i \in Nat \ {0}, NEW o \in Nat, NEW a,
         a = Loaded(s, x, i, o)
  PROVE  /\ a \in Server /\ a.host = s.host /\ a.state = "connected" /\ a.id = i /\ a.off = o
         /\ a.data = x /\ a.cached = s.cached /\ a.backlog = s.backlog
<1> DEFINE b == [s EXCEPT !.data = x, !.id = i]
<1>1. b \in Server /\ b.host = s.host /\ b.id = i /\ b.data = x /\ b.cached = s.cached /\ b.backlog = s.backlog
  BY DEF Server
<1>2. a = [b EXCEPT !.off = o, !.state = "connected"]
  BY DEF Loaded
<1> HIDE DEF b
<1> QED BY <1>1, <1>2 DEF Server

ReadAnswer(c) == [c EXCEPT !.reply = NoReply]
LoadedFrom(s, c) ==
  createReplicationBacklog(clearReplicationId2(
    [s EXCEPT !.data = c.reply.data, !.id = c.reply.id, !.off = c.reply.off, !.state = "connected"]))

LEMMA BulkPayloadNode ==
  ASSUME NEW r, NEW s, NEW c, NEW d, Node(r, s, c, d), c.reply.type = "full", s.state = "transfer",
         NEW s1, NEW c1, NEW d1, NEW L, NEW X,
         s1 = LoadedFrom(s, c),
         c1 = ReadAnswer(c),
         d1 = FileIn(c)
  PROVE  /\ Evolves(r, s, c, d, s1, c1, d1, L, X) /\ End(s1, c1) = End(s, c)
         /\ At(s1) = Base(s, c) /\ ~s.backlog /\ c1.to = c.to /\ c1.open = c.open
<1> USE DEF FileIn, ReadAnswer, LoadedFrom
<1>1. /\ c.to # None /\ c.to = s.host /\ s.host # r /\ s \in Server /\ Local(s) /\ c \in Connection
      /\ IsEnd(c) /\ c.ack = 0
  BY AnswerLink
<1>2. s.cached = NoCache /\ ~s.backlog /\ s.host # None
  <2>1. s.cached = NoCache /\ s.host # None
    BY <1>1 DEF Local
  <2>2. ~rdbPopulateSaveInfo(s)
    BY <2>1 DEF rdbPopulateSaveInfo
  <2> QED BY <1>1, <2>1, <2>2 DEF Local, Backlogged
<1>3. /\ d1 \in File /\ (d1.id = None <=> d1.off = -1) /\ Covered(At(d1), s, c, d, X)
      /\ At(d1) = Base(s, c) /\ d1.id \in Nat \ {0} /\ d1.off \in Nat /\ d1.data \in Seq(Nat)
  BY ReceivedFile
<1> DEFINE x == d1.data
           i == d1.id
           o == d1.off
           a == Loaded(s, x, i, o)
           b == [a EXCEPT !.id2 = None, !.off2 = -1]
<1>4. s1 = createReplicationBacklog(b)
  BY DEF clearReplicationId2, Loaded
<1>5. x \in Seq(Nat) /\ i \in Nat \ {0} /\ o \in Nat /\ d1.data = x /\ d1.id = i /\ d1.off = o
  BY <1>3
<1> HIDE DEF x, i, o
<1>6. /\ a \in Server /\ a.host = s.host /\ a.state = "connected" /\ a.id = i /\ a.off = o
      /\ a.data = x /\ a.cached = NoCache /\ ~a.backlog
  <2>1. /\ a \in Server /\ a.host = s.host /\ a.state = "connected" /\ a.id = i /\ a.off = o
        /\ a.data = x /\ a.cached = s.cached /\ a.backlog = s.backlog
    BY <1>1, <1>5, LoadedFields
  <2> QED BY <1>2, <2>1
<1> HIDE DEF a
<1>7. /\ b \in Server /\ b.host = s.host /\ b.state = "connected" /\ b.id = i /\ b.off = o
      /\ b.data = x /\ b.cached = NoCache /\ ~b.backlog /\ b.id2 = None /\ b.off2 = -1
  <2> DEFINE y == None
             z == -1
  <2>1. y \in Nat /\ z \in Nat \cup {-1} /\ b = [a EXCEPT !.id2 = y, !.off2 = z]
    BY DEF None
  <2> HIDE DEF y, z, b
  <2>2. /\ b \in Server /\ b.host = a.host /\ b.state = a.state /\ b.id = a.id /\ b.off = a.off
        /\ b.data = a.data /\ b.cached = a.cached /\ b.backlog = a.backlog /\ b.id2 = y /\ b.off2 = z
    BY <1>6, <2>1 DEF Server
  <2> QED BY <1>6, <2>2 DEF y, z
<1> HIDE DEF b
<1>8. /\ s1 \in Server /\ s1.host = s.host /\ s1.state = "connected" /\ s1.id = i /\ s1.off = o
      /\ s1.data = x /\ s1.cached = NoCache /\ s1.backlog /\ s1.id2 = None /\ s1.off2 = -1
      /\ s1.buf = <<>>
  BY <1>4, <1>7, CreateFields
<1>9. Local(s1)
  <2>1. BacklogSize \in Nat /\ Len(s1.buf) = 0 /\ Len(s1.data) \in Nat
    BY <1>5, <1>8, PsyncAssumption
  <2>2. Backlogged(s1)
    BY <1>8, <2>1 DEF Backlogged, rdbPopulateSaveInfo
  <2> QED BY <1>1, <1>2, <1>8, <2>2 DEF Local
<1>10. At(s1) = Base(s, c)
  BY <1>3, <1>5, <1>8 DEF At
<1>11. /\ c1 \in Connection /\ c1.to = c.to /\ c1.phase = c.phase /\ c1.open = c.open
       /\ c1.ack = c.ack /\ c1.q = c.q /\ c1.reply = NoReply /\ End(s1, c1) = End(s, c)
  BY <1>1, <1>10, AnsweredFields
<1>12. Receives(s1, c1)
  BY <1>1, <1>5, <1>8, <1>11 DEF Receives
<1>13. Link(r, s1, c1)
  BY <1>1, <1>8, <1>11, <1>12 DEF Link, IsEnd
<1>14. Node(r, s1, c1, d1)
  BY <1>3, <1>8, <1>9, <1>13 DEF Node
<1>15. ~HasSecond(s1) /\ ~Private(s1) /\ s1.host # None
  BY <1>1, <1>8 DEF HasSecond, Private
<1>16. Covered(At(s1), s, c, d, X) /\ Covered(End(s1, c1), s, c, d, X)
  BY <1>1, <1>10, <1>11, CoveredBy
<1> QED BY <1>2, <1>3, <1>10, <1>11, <1>14, <1>15, <1>16 DEF Evolves

Moved(s, i, o, new) == [s EXCEPT !.id2 = i, !.off2 = o, !.id = new]

\* The history of s goes on under the name in the answer.
Continued(s, c) ==
  IF c.reply.id # s.cached.id THEN Moved(s, s.cached.id, s.off + 1, c.reply.id) ELSE s

LEMMA ContinuedFields ==
  ASSUME NEW s, s \in Server, NEW c, c.reply.id \in Nat \ {0}, s.cached.id = s.id,
         NEW t, t = Continued(s, c)
  PROVE  /\ t \in Server /\ t.host = s.host /\ t.id = c.reply.id /\ t.off = s.off
         /\ t.backlog = s.backlog /\ t.buf = s.buf /\ t.data = s.data
         /\ c.reply.id # s.id => t.id2 = s.id /\ t.off2 = s.off + 1
         /\ c.reply.id = s.id => t.id2 = s.id2 /\ t.off2 = s.off2
<1> DEFINE i == s.id
           o == s.off + 1
           new == c.reply.id
<1>1. i \in Nat /\ o \in Nat /\ new \in Nat \ {0} /\ t = IF new # i THEN Moved(s, i, o, new) ELSE s
  BY DEF Server, Continued
<1>2. s.id = i
  OBVIOUS
<1> HIDE DEF i, o, new
<1>3. CASE new # i
  <2>1. t = Moved(s, i, o, new)
    BY <1>1, <1>3
  <2> DEFINE b == [s EXCEPT !.id2 = i, !.off2 = o]
  <2>3. t = [b EXCEPT !.id = new]
    BY <2>1 DEF Moved
  <2>4. /\ b \in Server /\ b.host = s.host /\ b.id2 = i /\ b.off2 = o /\ b.off = s.off
        /\ b.backlog = s.backlog /\ b.buf = s.buf /\ b.data = s.data
    BY <1>1 DEF Server
  <2> HIDE DEF b
  <2>2. /\ t \in Server /\ t.host = s.host /\ t.id = new /\ t.id2 = i
        /\ t.off2 = o /\ t.off = s.off /\ t.backlog = s.backlog /\ t.buf = s.buf /\ t.data = s.data
    BY <1>1, <2>3, <2>4 DEF Server
  <2> QED BY <1>3, <2>2 DEF i, o, new
<1>4. CASE new = i
  BY <1>1, <1>2, <1>4 DEF i, new
<1> QED BY <1>3, <1>4

Joined(t) == [t EXCEPT !.state = "connected", !.cached = NoCache]

LEMMA JoinedFields ==
  ASSUME NEW t, t \in Server, NEW a, a = Joined(t)
  PROVE  /\ a \in Server /\ a.host = t.host /\ a.state = "connected" /\ a.id = t.id /\ a.id2 = t.id2
         /\ a.off2 = t.off2 /\ a.off = t.off /\ a.backlog = t.backlog /\ a.buf = t.buf
         /\ a.cached = NoCache /\ a.data = t.data
<1> DEFINE x == NoCache
<1>1. x \in [id : Nat, off : Nat \cup {-1}] /\ a = [t EXCEPT !.state = "connected", !.cached = x]
  BY DEF NoCache, None, Joined
<1> HIDE DEF x
<1>2. /\ a \in Server /\ a.host = t.host /\ a.state = "connected" /\ a.id = t.id /\ a.id2 = t.id2
      /\ a.off2 = t.off2 /\ a.off = t.off /\ a.backlog = t.backlog /\ a.buf = t.buf
      /\ a.cached = x /\ a.data = t.data
  BY <1>1 DEF Server
<1> QED BY <1>2 DEF x

\* The second ID of an instance whose history has just got another name.
LEMMA SecondOfMoved ==
  ASSUME NEW s, s \in Server, NEW s1, s1.id2 = s.id, s1.off2 = s.off + 1, s1.off = s.off, s1.data = s.data
  PROVE  /\ Second(s1) = At(s) /\ s1.off2 \in 1 .. s1.off + 1 /\ s1.off - s1.off2 + 1 <= Len(s1.data)
<1>1. s.off \in Nat /\ s.data \in Seq(Nat)
  BY DEF Server
<1> DEFINE k == s.off
           x == s.data
<1>2. k \in Nat /\ s1.off = k /\ s1.off2 = k + 1 /\ Len(x) \in Nat /\ x \in Seq(Nat) /\ s1.data = x
  BY <1>1
<1> HIDE DEF k, x
<1>3. /\ s1.off2 \in 1 .. s1.off + 1 /\ s1.off - s1.off2 + 1 = 0 /\ s1.off2 - 1 = k
      /\ Len(x) - (s1.off - s1.off2 + 1) = Len(x)
  BY <1>2
<1>4. SubSeq(x, 1, Len(x)) = x
  BY <1>2
<1>5. Second(s1) = [id |-> s.id, off |-> k, data |-> x]
  BY <1>2, <1>3, <1>4 DEF Second
<1> QED BY <1>2, <1>3, <1>5 DEF At, k, x

LEMMA ContinueNode ==
  ASSUME NEW r, NEW s, NEW c, NEW d, Node(r, s, c, d), c.reply.type = "continue",
         ~s.backlog /\ s.id2 # None => c.reply.id # s.id,
         NEW t, NEW s1, NEW c1, NEW L, NEW X, t = Continued(s, c),
         s1 = createReplicationBacklog(Joined(t)),
         c1 = ReadAnswer(c)
  PROVE  /\ Evolves(r, s, c, d, s1, c1, d, L, X) /\ End(s1, c1) = End(s, c)
         /\ At(s1) = Base(s, c) /\ s1.off = s.off /\ s1.data = s.data /\ s1.id = c.reply.id
         /\ c1.to = c.to /\ c1.open = c.open /\ s.cached.id = s.id /\ s1.backlog
<1> USE DEF ReadAnswer
<1>1. /\ c.to # None /\ c.to = s.host /\ s.host # r /\ s \in Server /\ Local(s) /\ c \in Connection
      /\ IsEnd(c) /\ c.ack = 0 /\ c.reply \in Reply /\ c.reply.id # None /\ Receives(s, c)
  BY AnswerLink
<1>2. s.state = "psync" /\ s.cached # NoCache
  BY <1>1 DEF Receives, NoReply
<1>3. s.cached.id = s.id /\ rdbPopulateSaveInfo(s)
  BY <1>1, <1>2 DEF Local, rdbPopulateSaveInfo
<1> DEFINE new == c.reply.id
           moved == new # s.id
           u == Joined(t)
<1>4. new \in Nat \ {0} /\ s.id \in Nat \ {0} /\ s.off \in Nat /\ s.off + 1 \in Nat
  BY <1>1 DEF Reply, Server, None
<1>6. /\ t \in Server /\ t.host = s.host /\ t.id = new /\ t.off = s.off
      /\ t.backlog = s.backlog /\ t.buf = s.buf /\ t.data = s.data
      /\ moved => t.id2 = s.id /\ t.off2 = s.off + 1
      /\ ~moved => t.id2 = s.id2 /\ t.off2 = s.off2
  BY <1>1, <1>3, <1>4, ContinuedFields
<1> HIDE DEF new
<1>7. /\ u \in Server /\ u.host = s.host /\ u.state = "connected" /\ u.id = new /\ u.id2 = t.id2
      /\ u.off2 = t.off2 /\ u.off = s.off /\ u.backlog = s.backlog /\ u.buf = s.buf
      /\ u.cached = NoCache /\ u.data = s.data
  <2>1. u = Joined(t)
    OBVIOUS
  <2> HIDE DEF u
  <2> QED BY <1>6, <2>1, JoinedFields
<1>8. s1 = createReplicationBacklog(u)
  OBVIOUS
<1> HIDE DEF u
<1>9. /\ s1 \in Server /\ s1.host = s.host /\ s1.state = "connected" /\ s1.id = new /\ s1.id2 = t.id2
      /\ s1.off2 = t.off2 /\ s1.off = s.off /\ s1.backlog /\ s1.cached = NoCache /\ s1.data = s.data
      /\ s1.buf = IF s.backlog THEN s.buf ELSE <<>>
  BY <1>7, <1>8, CreateFields
<1>10. /\ moved => /\ Second(s1) = At(s)
                   /\ s1.off2 \in 1 .. s1.off + 1 /\ s1.off - s1.off2 + 1 <= Len(s1.data)
       /\ ~moved /\ s1.id2 # None =>
            /\ s.backlog /\ HasSecond(s) /\ Second(s1) = Second(s)
            /\ s1.off2 \in 1 .. s1.off + 1 /\ s1.off - s1.off2 + 1 <= Len(s1.data)
  <2>1. CASE moved
    BY <1>1, <1>6, <1>9, <2>1, SecondOfMoved
  <2>2. CASE ~moved /\ s1.id2 # None
    <3>1. s.backlog /\ s.id2 # None
      BY <1>6, <1>9, <2>2 DEF new
    <3>2. Backlogged(s) /\ HasSecond(s)
      BY <1>1, <3>1 DEF Local, HasSecond
    <3> QED BY <1>6, <1>9, <2>2, <3>1, <3>2 DEF Backlogged, Second
  <2> QED BY <2>1, <2>2
<1>11. Local(s1)
  <2>1. BacklogSize \in Nat /\ Len(s1.data) \in Nat /\ Len(<<>>) = 0
    BY <1>9, PsyncAssumption DEF Server
  <2>2. s.backlog => Backlogged(s)
    BY <1>1 DEF Local
  <2>3. /\ Len(s1.buf) <= BacklogSize /\ Len(s1.buf) <= Len(s1.data)
        /\ \A i \in 1 .. Len(s1.buf) : s1.buf[i] = s1.data[Len(s1.data) - Len(s1.buf) + i]
    <3>1. CASE s.backlog
      BY <1>9, <2>2, <3>1 DEF Backlogged
    <3>2. CASE ~s.backlog
      <4>1. s1.buf = <<>>
        BY <1>9, <3>2
      <4> QED BY <2>1, <4>1
    <3> QED BY <3>1, <3>2
  <2>4. Backlogged(s1)
    BY <1>9, <1>10, <2>3 DEF Backlogged, rdbPopulateSaveInfo
  <2>5. s1.id2 = None => s1.off2 = -1
    BY <1>1, <1>4, <1>6, <1>9 DEF Local, None
  <2> QED BY <1>1, <1>9, <2>4, <2>5 DEF Local
<1>12. At(s1) = Base(s, c)
  BY <1>9 DEF At, Base, new
<1>13. /\ c1 \in Connection /\ c1.to = c.to /\ c1.phase = c.phase /\ c1.open = c.open
       /\ c1.ack = c.ack /\ c1.q = c.q /\ c1.reply = NoReply /\ End(s1, c1) = End(s, c)
  BY <1>1, <1>12, AnsweredFields
<1>14. Receives(s1, c1)
  BY <1>1, <1>4, <1>9, <1>13 DEF Receives
<1>15. Link(r, s1, c1)
  BY <1>1, <1>9, <1>13, <1>14 DEF Link, IsEnd
<1>16. Node(r, s1, c1, d)
  BY <1>9, <1>11, <1>15 DEF Node
<1>17. ~Private(s1) /\ s1.host # None
  BY <1>1, <1>9 DEF Private
<1>18. Covered(At(s1), s, c, d, X) /\ Covered(End(s1, c1), s, c, d, X)
  BY <1>1, <1>12, <1>13, CoveredBy
<1>19. HasSecond(s1) => Covered(Second(s1), s, c, d, X)
  BY <1>3, <1>10, CoveredBy DEF HasSecond
<1>20. Evolves(r, s, c, d, s1, c1, d, L, X)
  BY <1>16, <1>17, <1>18, <1>19, CoveredBy DEF Evolves
<1> QED BY <1>3, <1>9, <1>12, <1>13, <1>20 DEF new

LEMMA SubSeqFrom ==
  ASSUME NEW b, b \in Seq(Nat), NEW f, f \in 1 .. Len(b) + 1, NEW q, q = SubSeq(b, f, Len(b))
  PROVE  /\ q \in Seq(Nat) /\ Len(q) = Len(b) - f + 1
         /\ \A i \in 1 .. Len(q) : q[i] = b[f + i - 1]
OBVIOUS

\* The sequence y has x as its beginning, b as its end that reaches x, and b has the end q.
Overlaps(x, y, b, q) ==
  /\ Len(x) + Len(q) = Len(y) /\ Len(b) <= Len(y) /\ Len(q) <= Len(b)
  /\ \A i \in 1 .. Len(x) : x[i] = y[i]
  /\ \A i \in 1 .. Len(b) : b[i] = y[Len(y) - Len(b) + i]
  /\ \A i \in 1 .. Len(q) : q[i] = b[Len(b) - Len(q) + i]

LEMMA Overlap ==
  ASSUME NEW x \in Seq(Nat), NEW y \in Seq(Nat), NEW b \in Seq(Nat), NEW q \in Seq(Nat)
  PROVE  Overlaps(x, y, b, q) => x \o q = y
<1> DEFINE k == Len(x)
           l == Len(y)
           n == Len(b)
           j == Len(q)
<1>0. k \in Nat /\ l \in Nat /\ n \in Nat /\ j \in Nat
  OBVIOUS
<1>6. /\ x \o q \in Seq(Nat) /\ Len(x \o q) = k + j
      /\ \A i \in 1 .. k + j : (x \o q)[i] = IF i <= k THEN x[i] ELSE q[i - k]
  BY ConcatProperties
<1> SUFFICES ASSUME k + j = l, n <= l, j <= n,
                    \A i \in 1 .. k : x[i] = y[i],
                    \A i \in 1 .. n : b[i] = y[l - n + i],
                    \A i \in 1 .. j : q[i] = b[n - j + i]
             PROVE  x \o q = y
  BY DEF Overlaps
<1>1. Len(y) = l
  OBVIOUS
<1> HIDE DEF k, l, n, j
<1>5. ASSUME NEW i \in 1 .. j PROVE q[i] = y[k + i]
  <2>1. n - j + i \in 1 .. n /\ l - n + (n - j + i) = k + i
    BY <1>0
  <2>2. b[n - j + i] = y[l - n + (n - j + i)]
    BY <2>1
  <2> QED BY <2>1, <2>2
<1>7. ASSUME NEW i \in 1 .. l PROVE (x \o q)[i] = y[i]
  <2>1. CASE i <= k
    BY <1>0, <1>6, <2>1
  <2>2. CASE i > k
    <3>1. i - k \in 1 .. j /\ k + (i - k) = i
      BY <1>0, <2>2
    <3>2. (x \o q)[i] = q[i - k]
      BY <1>0, <1>6, <2>2
    <3> QED BY <1>5, <3>1, <3>2
  <2>3. i \in Int /\ k \in Int
    BY <1>0
  <2>4. i <= k \/ i > k
    BY <2>3
  <2> QED BY <2>1, <2>2, <2>4
<1> QED BY <1>1, <1>6, <1>7, SeqEqual

\* The end of the backlog b of y is what is missing after x.
Misses(x, y, b, o, p, f) ==
  /\ o <= p /\ p - o = Len(y) - Len(x) /\ o + 1 >= p - Len(b) + 1
  /\ f = (o + 1) - (p - Len(b) + 1) + 1 /\ Len(b) <= Len(y)
  /\ \A i \in 1 .. Len(x) : x[i] = y[i]
  /\ \A i \in 1 .. Len(b) : b[i] = y[Len(y) - Len(b) + i]

Fills(x, y, o, p, q) == q \in Seq(Nat) /\ x \o q = y /\ o + Len(q) = p

LEMMA Missing ==
  ASSUME NEW x \in Seq(Nat), NEW y \in Seq(Nat), NEW b \in Seq(Nat), NEW o \in Nat, NEW p \in Nat,
         NEW f \in Int, Misses(x, y, b, o, p, f)
  PROVE  Fills(x, y, o, p, SubSeq(b, f, Len(b)))
<1> DEFINE k == Len(x)
           l == Len(y)
           n == Len(b)
           j == l - k
           q == SubSeq(b, f, Len(b))
<1>0. k \in Nat /\ l \in Nat /\ n \in Nat
  OBVIOUS
<1>1. ASSUME o <= p, p - o = l - k, o + 1 >= p - n + 1, f = (o + 1) - (p - n + 1) + 1, n <= l
      PROVE  /\ j \in Nat /\ k + j = l /\ j <= n /\ f \in 1 .. n + 1 /\ n - f + 1 = j /\ o + j = p
             /\ \A i \in Int : f + i - 1 = n - j + i
  <2> HIDE DEF k, l, n
  <2> QED BY <1>0, <1>1
<1>2. ASSUME f \in 1 .. n + 1
      PROVE  /\ q \in Seq(Nat) /\ Len(q) = n - f + 1 /\ \A i \in 1 .. Len(q) : q[i] = b[f + i - 1]
  BY <1>2, SubSeqFrom
<1>3. ASSUME o <= p, p - o = l - k, o + 1 >= p - n + 1, f = (o + 1) - (p - n + 1) + 1, n <= l,
             \A i \in 1 .. k : x[i] = y[i], \A i \in 1 .. n : b[i] = y[l - n + i]
      PROVE  q \in Seq(Nat) /\ x \o q = y /\ o + Len(q) = p
  <2>1. /\ j \in Nat /\ k + j = l /\ j <= n /\ f \in 1 .. n + 1 /\ n - f + 1 = j /\ o + j = p
        /\ \A i \in Int : f + i - 1 = n - j + i
    BY <1>1, <1>3
  <2>2. q \in Seq(Nat) /\ Len(q) = j /\ \A i \in 1 .. Len(q) : q[i] = b[f + i - 1]
    BY <1>2, <2>1
  <2> HIDE DEF q, j
  <2>3. \A i \in 1 .. Len(q) : q[i] = b[Len(b) - Len(q) + i]
    <3> SUFFICES ASSUME NEW i \in 1 .. Len(q) PROVE q[i] = b[Len(b) - Len(q) + i]
      OBVIOUS
    <3>1. i \in Int /\ Len(b) - Len(q) + i = f + i - 1
      BY <2>1, <2>2
    <3> QED BY <2>2, <3>1
  <2>4. k + Len(q) = l /\ n <= l /\ Len(q) <= n /\ o + Len(q) = p
    BY <1>3, <2>1, <2>2
  <2>5. x \o q = y
    <3>1. /\ Len(x) + Len(q) = Len(y) /\ Len(b) <= Len(y) /\ Len(q) <= Len(b)
          /\ \A i \in 1 .. Len(x) : x[i] = y[i]
          /\ \A i \in 1 .. Len(b) : b[i] = y[Len(y) - Len(b) + i]
      BY <1>3, <2>4
    <3>2. q \in Seq(Nat)
      BY <2>2
    <3>3. Overlaps(x, y, b, q)
      BY <2>3, <3>1 DEF Overlaps
    <3> QED BY <3>2, <3>3, Overlap
  <2> QED BY <2>2, <2>4, <2>5
<1> QED BY <1>3 DEF Misses, Fills

\* The same point under another name.
Named(p, i) == [id |-> i, off |-> p.off, data |-> p.data]

LEMMA NamedBelow ==
  ASSUME NEW p \in Point, NEW q \in Point, NEW i \in Nat, Below(p, q)
  PROVE  Named(p, i) \in Point /\ Named(q, i) \in Point /\ Below(Named(p, i), Named(q, i))
BY DEF Named, Point, Below

\* Of two points of one history the one with the smaller offset is the earlier one.
LEMMA AgreeBefore ==
  ASSUME NEW p \in Point, NEW q \in Point, Agree(p, q), p.id = q.id, p.off <= q.off
  PROVE  Below(p, q)
<1>1. CASE Below(p, q)
  BY <1>1
<1>2. CASE Below(q, p)
  <2> DEFINE m == Len(p.data)
             n == Len(q.data)
  <2>1. m \in Nat /\ n \in Nat /\ p.off \in Nat /\ q.off \in Nat
    BY DEF Point
  <2>2. q.off <= p.off /\ p.off - q.off = m - n /\ \A i \in 1 .. n : q.data[i] = p.data[i]
    BY <1>2 DEF Below
  <2>3. m = Len(p.data) /\ n = Len(q.data)
    OBVIOUS
  <2> HIDE DEF m, n
  <2>4. m = n /\ q.off - p.off = n - m
    BY <2>1, <2>2
  <2> QED BY <2>2, <2>3, <2>4 DEF Below
<1> QED BY <1>1, <1>2 DEF Agree

\* The second ID names a beginning of what the instance has.
LEMMA SecondBelow ==
  ASSUME NEW m, Local(m), HasSecond(m)
  PROVE  Below(Named(Second(m), m.id), At(m))
<1> DEFINE y == m.data
           l == Len(y)
           p == m.off
           e == m.off2
           k == l - (p - e + 1)
           z == SubSeq(y, 1, k)
<1>1. m \in Server /\ Backlogged(m) /\ m.id2 # None
  BY DEF Local, HasSecond
<1>2. y \in Seq(Nat) /\ l \in Nat /\ p \in Nat
  BY <1>1 DEF Server
<1>3. e \in 1 .. p + 1 /\ p - e + 1 <= l
  BY <1>1 DEF Backlogged
<1>4. l = Len(y)
  OBVIOUS
<1>5. Named(Second(m), m.id) = [id |-> m.id, off |-> e - 1, data |-> z]
  BY DEF Named, Second
<1>6. At(m) = [id |-> m.id, off |-> p, data |-> y]
  BY DEF At
<1> HIDE DEF y, l, p, e
<1>7. k \in 0 .. l /\ e - 1 <= p /\ p - (e - 1) = l - k
  BY <1>2, <1>3
<1> HIDE DEF k
<1>8. Len(z) = k /\ \A i \in 1 .. k : z[i] = y[i]
  BY <1>2, <1>4, <1>7
<1> HIDE DEF z
<1> QED BY <1>4, <1>5, <1>6, <1>7, <1>8 DEF Below

\* The answer to PSYNC, and the bytes after it.
Served(c, a, q) == [c EXCEPT !.phase = "slave", !.reply = a, !.q = q]

LEMMA ServedFields ==
  ASSUME NEW c, c \in Connection, NEW a, a \in Reply, NEW q, q \in Seq(Nat), NEW c1, c1 = Served(c, a, q)
  PROVE  /\ c1 \in Connection /\ c1.to = c.to /\ c1.phase = "slave" /\ c1.open = c.open
         /\ c1.ack = c.ack /\ c1.reply = a /\ c1.q = q
<1> DEFINE b == [c EXCEPT !.phase = "slave", !.reply = a]
<1>1. /\ b \in Connection /\ b.to = c.to /\ b.phase = "slave" /\ b.open = c.open
      /\ b.ack = c.ack /\ b.reply = a
  BY DEF Connection
<1>2. c1 = [b EXCEPT !.q = q]
  BY DEF Served
<1> HIDE DEF b
<1> QED BY <1>1, <1>2 DEF Connection

ContinueReply(i) == [NoReply EXCEPT !.type = "continue", !.id = i]

LEMMA ContinueReplyFields ==
  ASSUME NEW i, i \in Nat, NEW a, a = ContinueReply(i)
  PROVE  a \in Reply /\ a.type = "continue" /\ a.id = i
<1> DEFINE x == NoReply
<1>1. x \in Reply /\ a = [x EXCEPT !.type = "continue", !.id = i]
  BY DEF ContinueReply, NoReply, Reply, None
<1> HIDE DEF x
<1> QED BY <1>1 DEF Reply

\* A replica that may continue has a beginning of what the other side has.
LEMMA Lags ==
  ASSUME NEW r, NEW s, NEW c, NEW d, Node(r, s, c, d), c.to # None, c.phase = "asked",
         NEW m, Local(m), MayContinue(m, c.id, c.off),
         rdbPopulateSaveInfo(s) =>
           Agree(At(s), At(m)) /\ (HasSecond(m) => Agree(At(s), Second(m)))
  PROVE  /\ rdbPopulateSaveInfo(s) /\ s.cached # NoCache /\ c.off = s.off + 1
         /\ Below(Named(At(s), m.id), At(m))
<1>1. Local(s) /\ s \in Server /\ m \in Server /\ c \in Connection /\ Asks(s, c)
  BY DEF Node, Local, Link
<1>2. c.off \in Nat /\ m.id # 0 /\ m.backlog /\ m.off \in Nat /\ Len(m.buf) \in Nat
  BY <1>1 DEF Connection, Server, MayContinue
<1>3. c.id # None
  <2>1. CASE c.id = m.id
    BY <1>2, <2>1 DEF None
  <2>2. CASE c.id = m.id2 /\ c.off <= m.off2
    <3>1. m.id2 = None => m.off2 = -1
      BY DEF Local
    <3>2. m.off2 # -1
      BY <1>2, <2>2
    <3> QED BY <2>2, <3>1, <3>2
  <2> QED BY <2>1, <2>2 DEF MayContinue
<1>4. s.cached # NoCache
  BY <1>1, <1>3 DEF Asks, NoCache
<1>5. s.cached = [id |-> s.id, off |-> s.off] /\ rdbPopulateSaveInfo(s)
  BY <1>1, <1>4 DEF Local, rdbPopulateSaveInfo
<1>6. c.id = s.id /\ c.off = s.off + 1
  BY <1>1, <1>5 DEF Asks
<1>7. At(s) \in Point /\ At(m) \in Point /\ s.off \in Nat /\ m.id \in Nat
  BY <1>1, AtPoint DEF Server
<1>8. c.off <= m.off + 1
  <2> DEFINE n == Len(m.buf)
             o == c.off
             p == m.off
  <2>1. o \in Nat /\ n \in Nat /\ p \in Nat
    BY <1>2
  <2>2. o <= (p - n + 1) + n
    BY DEF MayContinue, BacklogOff
  <2> HIDE DEF n, o, p
  <2>3. o <= p + 1
    BY <2>1, <2>2
  <2> QED BY <2>3 DEF o, p
<1>9. Named(At(m), m.id) = At(m)
  BY DEF Named, At
<1>10. CASE c.id = m.id
  <2>1. At(s).id = At(m).id /\ At(s).off = s.off /\ At(m).off = m.off
    BY <1>6, <1>10 DEF At
  <2>2. At(s).off <= At(m).off
    BY <1>2, <1>6, <1>7, <1>8, <2>1
  <2>3. Below(At(s), At(m))
    BY <1>5, <1>7, <2>1, <2>2, AgreeBefore
  <2> QED BY <1>4, <1>5, <1>6, <1>7, <1>9, <2>3, NamedBelow
<1>11. CASE c.id = m.id2 /\ c.off <= m.off2
  <2>0. HasSecond(m)
    BY <1>2, <1>3, <1>11 DEF HasSecond
  <2>1. Second(m) \in Point
    BY <2>0, SecondPoint
  <2>2. At(s).id = Second(m).id /\ At(s).off = s.off /\ Second(m).off = m.off2 - 1
    BY <1>6, <1>11 DEF At, Second
  <2>3. At(s).off <= Second(m).off
    <3>1. m.off2 \in Int
      BY <1>1 DEF Server
    <3> QED BY <1>6, <1>7, <1>11, <2>2, <3>1
  <2>4. Below(At(s), Second(m))
    BY <1>5, <1>7, <2>0, <2>1, <2>2, <2>3, AgreeBefore
  <2>5. /\ Named(At(s), m.id) \in Point /\ Named(Second(m), m.id) \in Point
        /\ Below(Named(At(s), m.id), Named(Second(m), m.id))
    BY <1>7, <2>1, <2>4, NamedBelow
  <2>6. Below(Named(Second(m), m.id), At(m))
    BY <2>0, SecondBelow
  <2> QED BY <1>4, <1>5, <1>6, <1>7, <2>5, <2>6, BelowTrans
<1> QED BY <1>10, <1>11 DEF MayContinue

\* The answer and the part of the backlog that a replica gets that may continue.
Rest(c, m) == SubSeq(m.buf, c.off - BacklogOff(m) + 1, Len(m.buf))

Resumes(s, c, m) ==
  /\ MayContinue(m, c.id, c.off)
  /\ rdbPopulateSaveInfo(s) =>
       Agree(At(s), At(m)) /\ (HasSecond(m) => Agree(At(s), Second(m)))

LEMMA RestMisses ==
  ASSUME NEW s, s \in Server, NEW c, NEW m, Local(m), MayContinue(m, c.id, c.off), c.off = s.off + 1,
         Below(Named(At(s), m.id), At(m))
  PROVE  /\ Misses(s.data, m.data, m.buf, s.off, m.off, c.off - BacklogOff(m) + 1)
         /\ c.off - BacklogOff(m) + 1 \in Int
         /\ s.data \in Seq(Nat) /\ m.data \in Seq(Nat) /\ m.buf \in Seq(Nat)
         /\ s.off \in Nat /\ m.off \in Nat
<1> DEFINE x == s.data
           y == m.data
           b == m.buf
           o == s.off
           p == m.off
           f == c.off - BacklogOff(m) + 1
<1>0. m \in Server /\ m.backlog
  BY DEF Local, MayContinue
<1>1. x \in Seq(Nat) /\ y \in Seq(Nat) /\ b \in Seq(Nat) /\ o \in Nat /\ p \in Nat
  BY <1>0 DEF Server
<1>2. /\ o <= p /\ p - o = Len(y) - Len(x) /\ \A i \in 1 .. Len(x) : x[i] = y[i]
  BY DEF Below, Named, At
<1>3. Backlogged(m)
  BY <1>0 DEF Local
<1>4. Len(b) <= Len(y) /\ \A i \in 1 .. Len(b) : b[i] = y[Len(y) - Len(b) + i]
  BY <1>3 DEF Backlogged
<1>5. o + 1 >= p - Len(b) + 1 /\ f = (o + 1) - (p - Len(b) + 1) + 1
  BY DEF BacklogOff, MayContinue
<1> HIDE DEF x, y, b, o, p, f
<1>6. Misses(x, y, b, o, p, f)
  BY <1>2, <1>4, <1>5 DEF Misses
<1>7. f \in Int
  BY <1>1, <1>5
<1> QED BY <1>1, <1>6, <1>7 DEF x, y, b, o, p, f

LEMMA RestIsMissing ==
  ASSUME NEW r, NEW s, NEW c, NEW d, Node(r, s, c, d), c.to # None, c.phase = "asked",
         NEW m, Local(m), Resumes(s, c, m)
  PROVE  /\ Rest(c, m) \in Seq(Nat) /\ s.data \o Rest(c, m) = m.data
         /\ s.off + Len(Rest(c, m)) = m.off /\ s.cached # NoCache
<1>1. s \in Server /\ m \in Server
  BY DEF Node, Local
<1>2. /\ s.cached # NoCache /\ c.off = s.off + 1 /\ Below(Named(At(s), m.id), At(m))
      /\ MayContinue(m, c.id, c.off)
  BY Lags DEF Resumes
<1> DEFINE f == c.off - BacklogOff(m) + 1
<1>3. /\ Misses(s.data, m.data, m.buf, s.off, m.off, f) /\ f \in Int
      /\ s.data \in Seq(Nat) /\ m.data \in Seq(Nat) /\ m.buf \in Seq(Nat)
      /\ s.off \in Nat /\ m.off \in Nat
  BY <1>1, <1>2, RestMisses
<1> HIDE DEF f
<1>4. LET q == SubSeq(m.buf, f, Len(m.buf)) IN
      q \in Seq(Nat) /\ s.data \o q = m.data /\ s.off + Len(q) = m.off
  <2> DEFINE x == s.data
             y == m.data
             b == m.buf
             o == s.off
             p == m.off
  <2>1. /\ Misses(x, y, b, o, p, f) /\ f \in Int /\ x \in Seq(Nat) /\ y \in Seq(Nat)
        /\ b \in Seq(Nat) /\ o \in Nat /\ p \in Nat
    BY <1>3
  <2> HIDE DEF x, y, b, o, p
  <2>2. Fills(x, y, o, p, SubSeq(b, f, Len(b)))
    BY <2>1, Missing
  <2> QED BY <2>2 DEF Fills, x, y, b, o, p
<1> QED BY <1>2, <1>4 DEF Rest, f

LEMMA PartialNode ==
  ASSUME NEW r, NEW s, NEW c, NEW d, Node(r, s, c, d), c.to # None, c.phase = "asked",
         NEW m, Local(m), Resumes(s, c, m),
         NEW c1, c1 = Served(c, ContinueReply(m.id), Rest(c, m)), NEW L, NEW X, At(m) \in X
  PROVE  /\ Evolves(r, s, c, d, s, c1, d, L, X) /\ End(s, c1) = At(m) /\ c1.to = c.to
         /\ c1.open = c.open
<1> DEFINE q == Rest(c, m)
<1>1. /\ Local(s) /\ s \in Server /\ m \in Server /\ c \in Connection /\ Asks(s, c) /\ c.to = s.host
      /\ s.host # r
  BY DEF Node, Local, Link
<1>2. q \in Seq(Nat) /\ s.data \o q = m.data /\ s.off + Len(q) = m.off /\ s.cached # NoCache
  BY RestIsMissing
<1>4. q \in Seq(Nat) /\ s.data \o q = m.data /\ s.off + Len(q) = m.off
  BY <1>2
<1>3. m.id \in Nat \ {0}
  BY <1>1 DEF Server
<1> DEFINE a == ContinueReply(m.id)
<1>5. a \in Reply /\ a.type = "continue" /\ a.id = m.id
  BY <1>3, ContinueReplyFields
<1>6. c1 = Served(c, a, q)
  OBVIOUS
<1> HIDE DEF a, q
<1>7. /\ c1 \in Connection /\ c1.to = c.to /\ c1.phase = "slave" /\ c1.open = c.open
      /\ c1.ack = c.ack /\ c1.reply = a /\ c1.q = q
  BY <1>1, <1>4, <1>5, <1>6, ServedFields
<1>8. End(s, c1) = At(m)
  BY <1>4, <1>5, <1>7 DEF End, Base, At
<1>9. Receives(s, c1)
  BY <1>1, <1>2, <1>3, <1>5, <1>7 DEF Receives, Asks, None
<1>10. Link(r, s, c1)
  BY <1>1, <1>7, <1>9 DEF Link
<1>11. Node(r, s, c1, d)
  BY <1>10 DEF Node
<1>12. Covered(End(s, c1), s, c, d, X)
  <2>1. Below(At(m), At(m))
    BY <1>1, AtPoint, BelowItself
  <2> QED BY <1>8, <2>1 DEF Covered
<1>13. \A t \in Told(s, c1) : t \in Told(s, c) \/ t = At(m)
  BY <1>8 DEF Told
<1>14. Evolves(r, s, c, d, s, c1, d, L, X)
  BY <1>11, <1>12, <1>13, CoveredBy DEF Evolves
<1> QED BY <1>7, <1>8, <1>14

FullReply(m) == [type |-> "full", id |-> m.id, off |-> m.off, data |-> m.data]

LEMMA FullNode ==
  ASSUME NEW r, NEW s, NEW c, NEW d, Node(r, s, c, d), c.to # None, c.phase = "asked",
         NEW m, Local(m), NEW c1, c1 = Served(c, FullReply(m), c.q), NEW L, NEW X, At(m) \in X
  PROVE  /\ Evolves(r, s, c, d, s, c1, d, L, X) /\ End(s, c1) = At(m) /\ c1.to = c.to
         /\ c1.open = c.open
<1>1. /\ Local(s) /\ s \in Server /\ m \in Server /\ c \in Connection /\ Asks(s, c) /\ c.to = s.host
      /\ s.host # r
  BY DEF Node, Local, Link
<1>2. m.id \in Nat \ {0} /\ m.off \in Nat /\ m.data \in Seq(Nat) /\ c.q = <<>> /\ c.q \in Seq(Nat)
  BY <1>1 DEF Server, Asks
<1> DEFINE a == FullReply(m)
<1>3. a \in Reply /\ a.type = "full" /\ a.id = m.id /\ a.off = m.off /\ a.data = m.data
  BY <1>2 DEF Reply, FullReply
<1> HIDE DEF a
<1>4. /\ c1 \in Connection /\ c1.to = c.to /\ c1.phase = "slave" /\ c1.open = c.open
      /\ c1.ack = c.ack /\ c1.reply = a /\ c1.q = c.q
  <2>1. c1 = Served(c, a, c.q)
    BY DEF a
  <2>2. c.q \in Seq(Nat) /\ a \in Reply
    BY <1>2, <1>3
  <2> QED BY <1>1, <2>1, <2>2, ServedFields
<1>5. End(s, c1) = At(m)
  <2> DEFINE y == m.data
             o == m.off
  <2>1. y \in Seq(Nat) /\ o \in Nat
    BY <1>2
  <2>2. End(s, c1) = [id |-> m.id, off |-> o + Len(<<>>), data |-> y \o <<>>]
    BY <1>2, <1>3, <1>4 DEF End, Base, At
  <2>3. At(m) = [id |-> m.id, off |-> o, data |-> y]
    BY DEF At
  <2> HIDE DEF y, o
  <2>4. y \o <<>> = y /\ o + Len(<<>>) = o
    BY <2>1, ConcatEmptySeq
  <2> QED BY <2>2, <2>3, <2>4
<1>6. Receives(s, c1)
  BY <1>1, <1>2, <1>3, <1>4 DEF Receives, Asks, None
<1>7. Link(r, s, c1)
  BY <1>1, <1>4, <1>6 DEF Link
<1>8. Node(r, s, c1, d)
  BY <1>7 DEF Node
<1>9. Covered(End(s, c1), s, c, d, X)
  <2>1. Below(At(m), At(m))
    BY <1>1, AtPoint, BelowItself
  <2> QED BY <1>5, <2>1 DEF Covered
<1>10. \A t \in Told(s, c1) : t \in Told(s, c) \/ t = At(m)
  BY <1>5 DEF Told
<1>11. Evolves(r, s, c, d, s, c1, d, L, X)
  BY <1>8, <1>9, <1>10, CoveredBy DEF Evolves
<1> QED BY <1>4, <1>5, <1>11

LEMMA HeadTailConcat ==
  ASSUME NEW y \in Seq(Nat), NEW q \in Seq(Nat), q # <<>>
  PROVE  /\ Head(q) \in Nat /\ Tail(q) \in Seq(Nat) /\ Len(Tail(q)) \in Nat /\ Len(Tail(q)) + 1 = Len(q)
         /\ Append(y, Head(q)) \o Tail(q) = y \o q
<1>1. /\ Head(q) \in Nat /\ Tail(q) \in Seq(Nat) /\ Len(Tail(q)) \in Nat /\ Len(Tail(q)) + 1 = Len(q)
      /\ <<Head(q)>> \in Seq(Nat)
  OBVIOUS
<1>2. Append(y, Head(q)) = y \o <<Head(q)>>
  BY <1>1, AppendIsConcat
<1>3. (y \o <<Head(q)>>) \o Tail(q) = y \o (<<Head(q)>> \o Tail(q))
  BY <1>1, ConcatAssociative
<1>4. <<Head(q)>> \o Tail(q) = q
  <2> DEFINE h == Head(q)
             u == Tail(q)
             z == <<h>> \o u
  <2>1. z \in Seq(Nat) /\ Len(z) = Len(q)
    BY <1>1
  <2>2. \A i \in 1 .. Len(z) : z[i] = q[i]
    <3> SUFFICES ASSUME NEW i \in 1 .. Len(z) PROVE z[i] = q[i]
      OBVIOUS
    <3>1. CASE i = 1
      BY <3>1, <1>1
    <3>2. CASE i # 1
      BY <3>2, <1>1, <2>1
    <3> QED BY <3>1, <3>2
  <2> QED BY <2>1, <2>2, SeqEqual
<1> QED BY <1>1, <1>2, <1>3, <1>4

\* One byte has been read, and perhaps acknowledged.
Shorter(c) == [c EXCEPT !.q = Tail(@)]
WithAck(c, o) == [c EXCEPT !.ack = o]

LEMMA ShorterFields ==
  ASSUME NEW c, c \in Connection, c.q # <<>>, NEW o, o \in Nat, NEW c1,
         c1 = Shorter(c) \/ c1 = WithAck(Shorter(c), o)
  PROVE  /\ c1 \in Connection /\ c1.to = c.to /\ c1.phase = c.phase /\ c1.open = c.open
         /\ c1.reply = c.reply /\ c1.q = Tail(c.q) /\ c1.ack \in {c.ack, o}
<1> DEFINE x == Tail(c.q)
           b == Shorter(c)
<1>1. x \in Seq(Nat) /\ b = [c EXCEPT !.q = x]
  BY DEF Connection, Shorter
<1> HIDE DEF x, b
<1>2. /\ b \in Connection /\ b.to = c.to /\ b.phase = c.phase /\ b.open = c.open
      /\ b.reply = c.reply /\ b.q = x /\ b.ack = c.ack
  BY <1>1 DEF Connection
<1>3. CASE c1 = b
  BY <1>2, <1>3 DEF x
<1>4. CASE c1 = WithAck(b, o)
  <2>1. c1 = [b EXCEPT !.ack = o]
    BY <1>4 DEF WithAck
  <2>2. /\ c1 \in Connection /\ c1.to = b.to /\ c1.phase = b.phase /\ c1.open = b.open
        /\ c1.reply = b.reply /\ c1.q = b.q /\ c1.ack = o
    BY <1>2, <2>1 DEF Connection
  <2> QED BY <1>2, <2>2 DEF x
<1> QED BY <1>3, <1>4 DEF b

PointOf(i, o, x) == [id |-> i, off |-> o, data |-> x]

\* What a replica that has read the answer has in the end.
LEMMA EndOf ==
  ASSUME NEW s, NEW c, Base(s, c) = At(s)
  PROVE  End(s, c) = PointOf(s.id, s.off + Len(c.q), s.data \o c.q)
<1>1. At(s).id = s.id /\ At(s).off = s.off /\ At(s).data = s.data
  BY DEF At
<1> QED BY <1>1 DEF End, PointOf

\* A replica applies a byte: the end of its connection stays.
LEMMA ByteNode ==
  ASSUME NEW r, NEW s, NEW c, NEW d, Node(r, s, c, d), s.state = "connected",
         c.q # <<>>, NEW w, w = Head(c.q), NEW t, t = FeedOf(s, w), NEW o, o = s.off, NEW c1,
         c1 = Shorter(c) \/ c1 = WithAck(Shorter(c), o)
  PROVE  /\ Link(r, t, c1) /\ IsEnd(c) /\ End(t, c1) = End(s, c) /\ w \in Nat
         /\ c1.to = c.to /\ c1.phase = c.phase /\ c1.open = c.open
         /\ s.backlog /\ s.cached = NoCache /\ Below(At(t), End(s, c))
<1>1. /\ Local(s) /\ s \in Server /\ Link(r, s, c) /\ s.backlog /\ s.cached = NoCache
      /\ s.off \in Nat /\ o \in Nat /\ s.data \in Seq(Nat)
  BY DEF Node, Local, Server
<1>2. c # NoConn
  BY DEF NoConn
<1>3. /\ c \in Connection /\ c.to # None /\ c.to = s.host /\ s.host # r /\ c.phase = "slave"
      /\ Receives(s, c) /\ c.q \in Seq(Nat)
  BY <1>1, <1>2 DEF Link, Asks, Connection
<1>4. c.reply = NoReply /\ c.ack <= s.off /\ c.ack \in Nat
  BY <1>3 DEF Receives, Connection
<1>5. w \in Nat /\ Len(Tail(c.q)) + 1 = Len(c.q) /\ Len(Tail(c.q)) \in Nat
      /\ Append(s.data, w) \o Tail(c.q) = s.data \o c.q
  BY <1>1, <1>3, HeadTailConcat
<1>6. /\ t.host = s.host /\ t.state = s.state /\ t.id = s.id /\ t.off = s.off + 1
      /\ t.data = Append(s.data, w)
  BY <1>1, <1>5, FeedFields
<1>7. /\ c1 \in Connection /\ c1.to = c.to /\ c1.phase = c.phase /\ c1.open = c.open
      /\ c1.reply = c.reply /\ c1.q = Tail(c.q) /\ c1.ack \in {c.ack, o}
  BY <1>1, <1>3, ShorterFields
<1>8. c1.ack <= t.off
  BY <1>1, <1>4, <1>6, <1>7
<1>9. Receives(t, c1)
  BY <1>4, <1>6, <1>7, <1>8 DEF Receives
<1>10. Link(r, t, c1)
  BY <1>3, <1>6, <1>7, <1>9 DEF Link
<1>11. Local(t)
  BY <1>1, <1>5, FeedLocal
<1>12. NoReply.type = "none"
  BY DEF NoReply
<1>13. Base(t, c1) = At(t) /\ Base(s, c) = At(s)
  BY <1>4, <1>7, <1>12 DEF Base, At
<1>14. End(t, c1) = End(s, c)
  <2> DEFINE l == Len(Tail(c.q))
             k == Len(c.q)
             p == s.off
  <2>1. l \in Nat /\ p \in Nat /\ l + 1 = k
    BY <1>1, <1>5
  <2>2. End(t, c1) = PointOf(t.id, t.off + l, t.data \o Tail(c.q))
    BY <1>7, <1>13, EndOf
  <2>3. End(s, c) = PointOf(s.id, p + k, s.data \o c.q)
    BY <1>13, EndOf
  <2>5. t.off = p + 1
    BY <1>6
  <2> HIDE DEF l, k, p
  <2>4. t.off + l = p + k
    BY <2>1, <2>5
  <2> QED BY <1>5, <1>6, <2>2, <2>3, <2>4
<1>15. IsEnd(c) /\ IsEnd(c1)
  BY <1>3, <1>7 DEF IsEnd
<1>16. Below(At(t), End(s, c))
  BY <1>10, <1>11, <1>13, <1>14, <1>15, EndPoint
<1> QED BY <1>1, <1>5, <1>7, <1>10, <1>14, <1>15, <1>16


-----------------------------------------------------------------------------
(* Lemmas: writes.                                                          *)

Mark == [w : Nat, woff : Nat]

\* Writes that nobody has yet may be marked.
LEMMA WholeMarks ==
  ASSUME NEW p, p.data \in Seq(Nat), NEW B \in Nat, NEW B1 \in Nat, B <= B1, NEW K, NEW K1,
         \A k \in K1 : k \in K \/ B < k.w, Whole(p, B, K)
  PROVE  Whole(p, B1, K1)
<1>1. \A i \in 1 .. Len(p.data) : p.data[i] \in Nat /\ p.data[i] <= B
  BY DEF Whole
<1>2. \A i \in 1 .. Len(p.data) : p.data[i] <= B1
  BY <1>1
<1>3. ASSUME NEW k \in K1, NEW i \in 1 .. Len(p.data), p.data[i] = k.w
      PROVE  i - (Len(p.data) - p.off) <= k.woff
  <2>1. k \in K
    BY <1>1, <1>3
  <2> QED BY <1>3, <2>1 DEF Whole
<1> QED BY <1>2, <1>3 DEF Whole

LEMMA GoodMarks ==
  ASSUME NEW S, NEW C, NEW D, NEW L, NEW B \in Nat, NEW K, Good(S, C, D, L, B, K),
         NEW B1 \in Nat, B <= B1, NEW K1, \A k \in K1 : k \in K \/ B < k.w
  PROVE  Good(S, C, D, L, B1, K1)
<1>1. ASSUME NEW p \in Points(S, C, D) PROVE Whole(p, B1, K1)
  <2>1. p \in Point
    BY InPoints, ClaimsArePoints
  <2>2. p.data \in Seq(Nat) /\ Whole(p, B, K)
    BY <2>1 DEF Good, AllWhole, Point
  <2> QED BY <2>2, WholeMarks
<1>2. ASSUME NEW n \in Nodes PROVE Whole(At(S[n]), B1, K1)
  <2>1. At(S[n]) \in Point
    BY AtPoint DEF Good, Local
  <2>2. At(S[n]).data \in Seq(Nat) /\ Whole(At(S[n]), B, K)
    BY <2>1 DEF Good, AllWhole, Point
  <2> QED BY <2>2, WholeMarks
<1>3. ASSUME NEW n \in Nodes, NEW i \in 1 .. Len(D[n].data) PROVE D[n].data[i] <= B1
  <2>1. D[n].data \in Seq(Nat) /\ D[n].data[i] <= B
    BY DEF Good, AllWhole, File
  <2>2. D[n].data[i] \in Nat
    BY <2>1
  <2> QED BY <2>1, <2>2
<1>4. AllWhole(S, D, Points(S, C, D), B1, K1)
  BY <1>1, <1>2, <1>3 DEF AllWhole
<1> QED BY <1>4 DEF Good

\* A write that is counted stands at an offset that its mark reaches.
Fits(w, o, B, K) == w <= B /\ \A k \in K : k.w = w => o <= k.woff

\* The last place of a dataset with one more byte.
LEMMA AppendFields ==
  ASSUME NEW x \in Seq(Nat), NEW w \in Nat, NEW y, y = Append(x, w)
  PROVE  /\ y \in Seq(Nat) /\ Len(y) = Len(x) + 1 /\ Len(x) \in Nat
         /\ \A i \in 1 .. Len(y) : (i \in 1 .. Len(x) /\ y[i] = x[i]) \/ (i = Len(x) + 1 /\ y[i] = w)
<1>1. y \in Seq(Nat) /\ Len(y) = Len(x) + 1 /\ Len(x) \in Nat
  OBVIOUS
<1> QED BY <1>1

LEMMA WholeAppend ==
  ASSUME NEW p \in Point, NEW q \in Point, NEW w \in Nat, NEW B, NEW K, K \subseteq Mark, Whole(p, B, K),
         q.data = Append(p.data, w), q.off = p.off \/ q.off = p.off + 1, Fits(w, q.off, B, K)
  PROVE  Whole(q, B, K)
<1> DEFINE x == p.data
           y == q.data
           n == Len(p.data)
           o == p.off
           u == q.off
<1>1. /\ x \in Seq(Nat) /\ n \in Nat /\ o \in Nat /\ u \in Nat /\ Len(y) = n + 1 /\ y \in Seq(Nat)
      /\ \A i \in 1 .. n + 1 : (i \in 1 .. n /\ y[i] = x[i]) \/ (i = n + 1 /\ y[i] = w)
  BY AppendFields DEF Point
<1>2. u = o \/ u = o + 1
  OBVIOUS
<1>3. /\ \A i \in 1 .. n : x[i] <= B
      /\ \A k \in K : \A i \in 1 .. n : x[i] = k.w => i - (n - o) <= k.woff
  BY DEF Whole
<1>4. w <= B /\ \A k \in K : k.w = w => u <= k.woff
  BY DEF Fits
<1>5. \A k \in K : k.woff \in Nat
  BY DEF Mark
<1>6. Whole(q, B, K) <=>
      /\ \A i \in 1 .. Len(y) : y[i] <= B
      /\ \A k \in K : \A i \in 1 .. Len(y) : y[i] = k.w => i - (Len(y) - u) <= k.woff
  BY DEF Whole
<1> HIDE DEF x, y, n, o, u
<1>7. \A i \in 1 .. n + 1 : y[i] <= B
  BY <1>1, <1>3, <1>4
<1>8. ASSUME NEW k \in K, NEW i \in 1 .. n + 1, y[i] = k.w PROVE i - ((n + 1) - u) <= k.woff
  <2>1. CASE i \in 1 .. n /\ y[i] = x[i]
    <3>1. i - (n - o) <= k.woff
      BY <1>3, <1>8, <2>1
    <3> QED BY <1>1, <1>2, <1>5, <3>1
  <2>2. CASE i = n + 1 /\ y[i] = w
    <3>1. u <= k.woff
      BY <1>4, <1>8, <2>2
    <3> QED BY <1>1, <1>5, <2>2, <3>1
  <2> QED BY <1>1, <2>1, <2>2
<1> QED BY <1>1, <1>6, <1>7, <1>8


\* What an instance with one more byte claims is a point.
LEMMA FedPoint ==
  ASSUME NEW s, s \in Server, NEW w \in Nat, NEW t, t = FeedOf(s, w)
  PROVE  /\ At(s) \in Point /\ At(t) \in Point /\ Below(At(s), At(t)) /\ At(t).id = s.id
         /\ At(s).off = s.off /\ At(t).off = t.off /\ At(t).off = At(s).off + 1
         /\ At(t).data = Append(At(s).data, w)
<1>1. At(s) \in Point /\ At(t) = Later(At(s), w)
  BY AtPoint, FeedFields
<1>2. At(s).id = s.id /\ At(s).off = s.off /\ At(t).off = t.off
  BY DEF At
<1> QED BY <1>1, <1>2, LaterPoint

FedOf(C, r, w) == [n \in Nodes |-> IF Follows(C, n, r) THEN Longer(C[n], w) ELSE C[n]]

\* A master with a backlog executes a byte.
LEMMA MasterFeed ==
  ASSUME NEW S, NEW C, NEW D, NEW L \in Nat, NEW B, NEW K, Good(S, C, D, L, B, K), K \subseteq Mark,
         NEW r \in Nodes, NEW w \in Nat, S[r].host = None, S[r].backlog, NEW t, t = FeedOf(S[r], w),
         Fits(w, t.off, B, K), NEW S1, S1 = [S EXCEPT ![r] = t], NEW C1,
         C1 = FedOf(C, r, w)
  PROVE  Good(S1, C1, D, L, B, K)
<1> USE DEF FedOf
<1>1. /\ Local(S[r]) /\ S[r] \in Server /\ Link(r, S[r], C[r]) /\ S1[r] = t /\ S[r].state = "none"
  BY DEF Good, Local
<1>2. C[r] = NoConn /\ ~IsEnd(C[r]) /\ S[r].cached = NoCache /\ S[r].host # r
  BY <1>1, MasterUnlinked DEF Local, Link
<1>3. \A m \in Nodes : ~Follows(C, r, m)
  BY <1>2 DEF Follows, NoConn
<1>4. C1[r] = NoConn
  BY <1>2, <1>3
<1>5. t.host = None /\ t.state = "none" /\ t.off = S[r].off + 1
  BY <1>1, FeedFields
<1>6. Link(r, S1[r], C1[r]) /\ ~IsEnd(C1[r])
  BY <1>1, <1>2, <1>4, <1>5, NoConnLink
<1>7. \A m \in Nodes : ~Follows(C1, r, m)
  BY <1>4 DEF Follows, NoConn
<1>8. /\ At(S[r]) \in Point /\ At(t) \in Point /\ Below(At(S[r]), At(t)) /\ At(t).id = S[r].id
      /\ At(S[r]).off = S[r].off /\ At(t).off = t.off /\ At(t).off = At(S[r]).off + 1
      /\ At(t).data = Append(At(S[r]).data, w)
  BY <1>1, FedPoint
<1>9. ASSUME NEW q \in Points(S, C, D) PROVE Agree(At(t), q)
  <2>1. q \in Point
    BY InPoints, ClaimsArePoints
  <2>2. At(S[r]) \in Points(S, C, D)
    BY <1>1, BackedClaims, InPoints
  <2>3. Agree(q, At(S[r]))
    BY <2>2 DEF Good
  <2>4. CASE q.id = S[r].id
    <3>1. q.off <= At(S[r]).off
      BY <1>8, <2>4 DEF Good, Leads
    <3>2. q.id = At(S[r]).id
      BY <2>4 DEF At
    <3>3. Below(q, At(S[r]))
      BY <1>8, <2>1, <2>3, <3>1, <3>2, AgreeBefore
    <3>4. Below(q, At(t))
      BY <1>8, <2>1, <3>3, BelowTrans
    <3> QED BY <3>4 DEF Agree
  <2>5. CASE q.id # S[r].id
    BY <1>8, <2>5 DEF Agree
  <2> QED BY <2>4, <2>5
<1>10. \A m \in Nodes : m # r /\ S[m].host = None /\ S[m].backlog => S[m].id # S[r].id
  BY DEF Good, Leads
<1>11. Whole(At(S[r]), B, K)
  BY DEF Good, AllWhole
<1>12. Whole(At(t), B, K)
  BY <1>8, <1>11, WholeAppend
<1>13. \A k \in Nodes \ {r} : C1[k] = IF Follows(C, k, r) THEN Longer(C[k], w) ELSE C[k]
  OBVIOUS
<1>14. C1 = [n \in Nodes |-> C1[n]]
  OBVIOUS
<1>15. S1 = [S EXCEPT ![r] = FeedOf(S[r], w)]
  OBVIOUS
<1>16. \A m \in Nodes : m # r /\ S[m].host = None /\ S[m].backlog /\ S[m].id = S[r].id => S[r].off + 1 <= S[m].off
  BY <1>10
<1>17. /\ \A q \in Points(S, C, D) : Agree(At(S1[r]), q)
       /\ Whole(At(S1[r]), B, K)
  BY <1>1, <1>9, <1>12
<1>18. \A m \in Nodes : Follows(C1, r, m) => Follows(C, r, m)
  BY <1>7
<1>19. Feeding(S, C, D, S1, C1, r, w, B, K)
  BY <1>2, <1>6, <1>13, <1>14, <1>15, <1>16, <1>17, <1>18 DEF Feeding
<1> QED BY <1>19, FeedStep

\* A replica executes a byte of its master.
Reading(S, C, S1, C1, r, w, o, t, c1) ==
  /\ S[r].state = "connected" /\ C[r].q # <<>> /\ w = Head(C[r].q)
  /\ t = FeedOf(S[r], w) /\ o = S[r].off
  /\ c1 = Shorter(C[r]) \/ c1 = WithAck(Shorter(C[r]), o)
  /\ S1 = [S EXCEPT ![r] = t] /\ C1 = [n \in Nodes |-> C1[n]] /\ C1[r] = c1
  /\ \A k \in Nodes \ {r} : C1[k] = IF Follows(C, k, r) THEN Longer(C[k], w) ELSE C[k]

LEMMA ByteStep ==
  ASSUME NEW S, NEW C, NEW D, NEW L \in Nat, NEW B, NEW K, Good(S, C, D, L, B, K),
         NEW r \in Nodes, NEW w, NEW o, NEW t, NEW c1, NEW S1, NEW C1,
         Reading(S, C, S1, C1, r, w, o, t, c1)
  PROVE  Good(S1, C1, D, L, B, K)
<1> USE DEF Reading
<1>1. Node(r, S[r], C[r], D[r]) /\ S1[r] = t /\ S[r] \in Server /\ Local(S[r]) /\ Link(r, S[r], C[r])
  BY GoodNode DEF Good, Local
<1>2. /\ Link(r, t, c1) /\ IsEnd(C[r]) /\ End(t, c1) = End(S[r], C[r]) /\ w \in Nat
      /\ c1.to = C[r].to /\ c1.phase = C[r].phase /\ c1.open = C[r].open
      /\ S[r].backlog /\ S[r].cached = NoCache /\ Below(At(t), End(S[r], C[r]))
  BY <1>1, ByteNode
<1> DEFINE e == End(S[r], C[r])
<1>3. e \in Point
  BY <1>1, <1>2, EndPoint
<1>4. e \in Claims(S[r], C[r], D[r])
  BY <1>2, <1>3 DEF Claims
<1>5. e \in Points(S, C, D)
  BY <1>4, InPoints
<1>6. /\ At(t) \in Point /\ At(t).id = S[r].id /\ At(t).off = t.off /\ t.off = S[r].off + 1 /\ S[r].off \in Nat
  <2>1. At(t) \in Point /\ At(t).id = S[r].id /\ At(t).off = t.off
    BY <1>1, <1>2, FedPoint
  <2>2. t.off = S[r].off + 1
    BY <1>1, <1>2, FeedFields
  <2>3. S[r].off \in Nat
    BY <1>1 DEF Server
  <2> QED BY <2>1, <2>2, <2>3
<1>7. ASSUME NEW q \in Points(S, C, D) PROVE Agree(At(t), q)
  <2>1. q \in Point
    BY InPoints, ClaimsArePoints
  <2>2. Agree(e, q)
    BY <1>5 DEF Good
  <2> QED BY <1>2, <1>3, <1>6, <2>1, <2>2, AgreeBelow
<1>8. ASSUME NEW m \in Nodes, S[m].host = None, S[m].backlog, S[m].id = S[r].id
      PROVE  S[r].off + 1 <= S[m].off
  <2>1. e.id = S[m].id /\ t.off <= e.off
    BY <1>2, <1>6, <1>8 DEF Below
  <2>2. e.off <= S[m].off
    BY <1>5, <1>8, <2>1 DEF Good, Leads
  <2>3. S[m].off \in Nat /\ e.off \in Nat
    BY <1>3 DEF Good, Local, Server, Point
  <2> HIDE DEF e
  <2> QED BY <1>6, <2>1, <2>2, <2>3
<1>9. Whole(At(t), B, K)
  <2>1. Whole(e, B, K)
    BY <1>5 DEF Good, AllWhole
  <2> QED BY <1>2, <1>3, <1>6, <2>1, WholeBelow
<1>10. \A m \in Nodes : Follows(C1, r, m) => Follows(C, r, m)
  BY <1>2 DEF Follows
<1>11. Link(r, S1[r], C1[r]) /\ (IsEnd(C1[r]) => IsEnd(C[r]) /\ End(S1[r], C1[r]) = End(S[r], C[r]))
  BY <1>1, <1>2
<1>12. S1 = [S EXCEPT ![r] = FeedOf(S[r], w)]
  OBVIOUS
<1>13. /\ \A q \in Points(S, C, D) : Agree(At(S1[r]), q)
       /\ Whole(At(S1[r]), B, K)
  BY <1>1, <1>7, <1>9
<1>14. \A m \in Nodes : m # r /\ S[m].host = None /\ S[m].backlog /\ S[m].id = S[r].id => S[r].off + 1 <= S[m].off
  BY <1>8
<1>15. Feeding(S, C, D, S1, C1, r, w, B, K)
  BY <1>2, <1>10, <1>11, <1>12, <1>13, <1>14 DEF Feeding
<1> QED BY <1>2, <1>15, FeedStep


-----------------------------------------------------------------------------
(* One instance changes its records.                                        *)

\* The records of r become s1, c1 and d1; connections of others may be closed.
Sets(S, C, D, S1, C1, D1, r, s1, c1, d1) ==
  /\ S1 = [n \in Nodes |-> S1[n]] /\ C1 = [n \in Nodes |-> C1[n]] /\ D1 = [n \in Nodes |-> D1[n]]
  /\ S1[r] = s1 /\ C1[r] = c1 /\ D1[r] = d1
  /\ \A k \in Nodes \ {r} : /\ S1[k] = S[k] /\ D1[k] = D[k]
                            /\ C1[k] = C[k] \/ C1[k] = Shut(C[k])

\* Its slaves are gone, or it has what it had.
KeepsSlaves(S, C1, r, s1) ==
  \/ \A k \in Nodes \ {r} : ~Follows(C1, k, r)
  \/ s1.backlog = S[r].backlog /\ At(s1) = At(S[r])

\* It is not fed, or as before, or by an instance whose dataset it will have.
KeepsMaster(S, c, s1, c1, r) ==
  \/ ~IsEnd(c1)
  \/ IsEnd(c) /\ c1.to = c.to /\ c1.open = c.open /\ End(s1, c1) = End(S[r], c)
  \/ S[c1.to].backlog /\ End(s1, c1) = At(S[c1.to])

LEMMA RecordStep ==
  ASSUME NEW S, NEW C, NEW D, NEW L \in Nat, NEW B, NEW K, Good(S, C, D, L, B, K),
         NEW S1, NEW C1, NEW D1, NEW L1 \in Nat, L <= L1, NEW r \in Nodes, NEW s1, NEW c1, NEW d1,
         Sets(S, C, D, S1, C1, D1, r, s1, c1, d1), s1.id <= L1,
         Evolves(r, S[r], C[r], D[r], s1, c1, d1, L, Backed(S)),
         KeepsSlaves(S, C1, r, s1), KeepsMaster(S, C[r], s1, c1, r),
         Whole(At(s1), B, K), \A i \in 1 .. Len(d1.data) : d1.data[i] <= B
  PROVE  Good(S1, C1, D1, L1, B, K)
<1>1. /\ S1[r] = s1 /\ C1[r] = c1 /\ D1[r] = d1 /\ d1 \in File /\ D \in [Nodes -> File]
  BY DEF Sets, Evolves, Node, Good
<1>2. Frame(S, C, D, S1, C1, D1, r)
  <2>1. \A k \in Nodes \ {r} : D1[k] \in File
    BY <1>1 DEF Sets
  <2>2. D1 \in [Nodes -> File]
    BY <1>1, <2>1 DEF Sets
  <2> QED BY <2>2 DEF Sets, Frame
<1>3. ASSUME NEW k \in Nodes \ {r}, Follows(C1, k, r)
      PROVE  S1[r].backlog /\ At(S1[r]) = At(S[r])
  <2>1. s1.backlog = S[r].backlog /\ At(s1) = At(S[r])
    BY <1>3 DEF KeepsSlaves
  <2>2. Link(k, S[k], C[k])
    BY DEF Good
  <2>3. ~Shut(C[k]).open
    BY <2>2, ShutFields
  <2>4. Follows(C, k, r)
    BY <1>3, <2>3 DEF Follows, Sets
  <2>5. S[r].backlog
    BY <2>4 DEF Good, Attached
  <2> QED BY <1>1, <2>1, <2>5
<1>4. ASSUME NEW m \in Nodes, Follows(C1, r, m)
      PROVE  S[m].backlog /\ End(S1[r], C1[r]) = At(S[m])
  <2>1. c1.to = m /\ IsEnd(c1) /\ c1.open
    BY <1>1, <1>4 DEF Follows, IsEnd
  <2>2. CASE IsEnd(C[r]) /\ c1.to = C[r].to /\ c1.open = C[r].open /\ End(s1, c1) = End(S[r], C[r])
    <3>1. Follows(C, r, m)
      BY <2>1, <2>2 DEF Follows, IsEnd
    <3> QED BY <1>1, <2>2, <3>1 DEF Good, Attached
  <2>3. CASE S[c1.to].backlog /\ End(s1, c1) = At(S[c1.to])
    BY <1>1, <2>1, <2>3
  <2> QED BY <2>1, <2>2, <2>3 DEF KeepsMaster
<1>5. StaysAttached(S, C, S1, C1, r)
  BY <1>3, <1>4 DEF StaysAttached
<1> QED BY <1>1, <1>2, <1>5, EvolveStep

\* A write that is not counted: nobody is told of the history it belongs to.
LEMMA AppliedFields ==
  ASSUME NEW s, s \in Server, NEW w \in Nat, NEW t, t = Applied(s, w)
  PROVE  /\ t \in Server /\ t.host = s.host /\ t.state = s.state /\ t.id = s.id /\ t.id2 = s.id2
         /\ t.off2 = s.off2 /\ t.off = s.off /\ t.cached = s.cached /\ t.backlog = s.backlog
         /\ t.buf = s.buf /\ t.data = Append(s.data, w)
<1> DEFINE x == Append(s.data, w)
<1>1. x \in Seq(Nat) /\ t = [s EXCEPT !.data = x]
  BY DEF Server, Applied
<1> HIDE DEF x
<1>2. /\ t \in Server /\ t.host = s.host /\ t.state = s.state /\ t.id = s.id /\ t.id2 = s.id2
      /\ t.off2 = s.off2 /\ t.off = s.off /\ t.cached = s.cached /\ t.backlog = s.backlog
      /\ t.buf = s.buf /\ t.data = x
  BY <1>1 DEF Server
<1> QED BY <1>2 DEF x

LEMMA AppliedNode ==
  ASSUME NEW r, NEW s, NEW c, NEW d, Node(r, s, c, d), s.host = None, ~s.backlog,
         NEW w \in Nat, NEW s1, s1 = Applied(s, w), NEW L, NEW X
  PROVE  Evolves(r, s, c, d, s1, c, d, L, X)
<1>1. Local(s) /\ s \in Server /\ Link(r, s, c) /\ s.state = "none" /\ s.cached = NoCache /\ s.buf = <<>>
  BY DEF Node, Local
<1>2. c = NoConn /\ ~IsEnd(c) /\ s.host # r
  BY <1>1, MasterUnlinked DEF Link
<1>3. /\ s1 \in Server /\ s1.host = s.host /\ s1.state = s.state /\ s1.id = s.id /\ s1.id2 = s.id2
      /\ s1.off2 = s.off2 /\ s1.off = s.off /\ s1.cached = s.cached /\ s1.backlog = s.backlog
      /\ s1.buf = s.buf
  BY <1>1, AppliedFields
<1>4. Local(s1)
  BY <1>1, <1>3 DEF Local
<1>5. Link(r, s1, c)
  BY <1>1, <1>2, <1>3, NoConnLink
<1>6. Node(r, s1, c, d)
  BY <1>3, <1>4, <1>5 DEF Node
<1>7. ~rdbPopulateSaveInfo(s1) /\ ~HasSecond(s1)
  BY <1>1, <1>3 DEF rdbPopulateSaveInfo, HasSecond
<1>8. Private(s) /\ Told(s1, c) = {}
  BY <1>2, <1>7 DEF Private, Told
<1>9. IsFile(d) => Covered(At(d), s, c, d, X)
  BY CoveredBy
<1> QED BY <1>2, <1>3, <1>6, <1>7, <1>8, <1>9 DEF Evolves

LEMMA UncountedWrite ==
  ASSUME NEW S, NEW C, NEW D, NEW L \in Nat, NEW B, NEW K, Good(S, C, D, L, B, K), K \subseteq Mark,
         NEW r \in Nodes, NEW w \in Nat, S[r].host = None, ~S[r].backlog, Fits(w, S[r].off, B, K),
         NEW t, t = Applied(S[r], w), NEW S1, S1 = [S EXCEPT ![r] = t]
  PROVE  Good(S1, C, D, L, B, K)
<1>1. /\ Node(r, S[r], C[r], D[r]) /\ Whole(At(S[r]), B, K) /\ S[r].id <= L
      /\ \A i \in 1 .. Len(D[r].data) : D[r].data[i] <= B
  BY GoodNode
<1>2. S[r] \in Server /\ Link(r, S[r], C[r])
  BY <1>1 DEF Node, Local
<1>3. t \in Server /\ t.id = S[r].id /\ t.off = S[r].off /\ t.data = Append(S[r].data, w)
  BY <1>2, AppliedFields
<1>4. /\ At(S[r]) \in Point /\ At(t) \in Point /\ At(t).off = t.off /\ At(S[r]).off = S[r].off
      /\ At(t).data = t.data /\ At(S[r]).data = S[r].data
  BY <1>2, <1>3, AtPoint DEF At
<1>5. Whole(At(t), B, K)
  BY <1>1, <1>3, <1>4, WholeAppend
<1>6. Evolves(r, S[r], C[r], D[r], t, C[r], D[r], L, Backed(S))
  BY <1>1, AppliedNode
<1>7. Sets(S, C, D, S1, C, D, r, t, C[r], D[r])
  BY DEF Sets, Good
<1>8. KeepsSlaves(S, C, r, t)
  BY DEF KeepsSlaves, Good, Attached
<1>9. KeepsMaster(S, C[r], t, C[r], r)
  BY <1>2, MasterUnlinked DEF KeepsMaster
<1>10. L <= L /\ t.id <= L
  BY <1>1, <1>3
<1> QED BY <1>1, <1>5, <1>6, <1>7, <1>8, <1>9, <1>10, RecordStep


-----------------------------------------------------------------------------
(* The actions keep the instances sound.                                    *)

LEMMA Now ==
  ASSUME IInv
  PROVE  /\ count \in CountType /\ Good(srv, conn, disk, LastId, count.write, Marks) /\ WaitInv
         /\ LastId \in Nat /\ NewId \in Nat /\ LastId < NewId /\ LastId <= NewId /\ LastId <= LastId
         /\ count.write \in Nat /\ Marks \subseteq Mark
         /\ srv = [n \in Nodes |-> srv[n]] /\ conn = [n \in Nodes |-> conn[n]]
         /\ disk = [n \in Nodes |-> disk[n]] /\ disk \in [Nodes -> File]
<1>1. count \in CountType /\ Good(srv, conn, disk, LastId, count.write, Marks) /\ WaitInv
  BY DEF IInv, Sound
<1> DEFINE top == CHOOSE m \in Nodes : \A n \in Nodes : n <= m
<1>2. top \in Nodes /\ top \in Nat
  BY PsyncAssumption
<1>3. NewId = 1 + count.ids + top
  BY DEF NewId
<1>4. count.ids \in Nat /\ count.write \in Nat
  BY <1>1 DEF CountType
<1> HIDE DEF top
<1>5. LastId \in Nat /\ NewId \in Nat /\ LastId < NewId /\ LastId <= NewId /\ LastId <= LastId
  BY <1>2, <1>3, <1>4 DEF LastId
<1>6. Marks \subseteq Mark
  BY <1>1 DEF Marks, WaitInv, Person, Mark
<1> QED BY <1>1, <1>4, <1>5, <1>6 DEF Good

\* Whether an ID was taken.
LEMMA SameIds ==
  ASSUME count'.ids = count.ids
  PROVE  LastId' = LastId
BY DEF LastId, NewId

LEMMA OneMoreId ==
  ASSUME IInv, count'.ids = count.ids + 1
  PROVE  LastId' = NewId
<1> DEFINE top == CHOOSE m \in Nodes : \A n \in Nodes : n <= m
<1>1. top \in Nat /\ count.ids \in Nat
  BY PsyncAssumption DEF IInv, CountType
<1>2. NewId = 1 + count.ids + top /\ NewId' = 1 + count'.ids + top
  BY DEF NewId
<1> HIDE DEF top
<1> QED BY <1>1, <1>2 DEF LastId

\* Clients may be gone after the step, and no write was made.
LEMMA SoundAfter ==
  ASSUME IInv, Good(srv', conn', disk', LastId', count.write, Marks), count'.write = count.write,
         Marks' \subseteq Marks
  PROVE  Sound'
<1>1. count.write \in Nat /\ count.write <= count.write
  BY Now
<1> QED BY <1>1, GoodMarks DEF Sound

LEMMA SameMarks ==
  ASSUME cl' = cl
  PROVE  Marks' \subseteq Marks
BY DEF Marks

LEMMA SlaveFollows ==
  ASSUME NEW k, NEW m \in Nodes
  PROVE  IsSlave(k, m) <=> Follows(conn, k, m)
BY PsyncAssumption DEF IsSlave, Follows

\* A node of the system.
LEMMA NodeNow ==
  ASSUME IInv, NEW r \in Nodes
  PROVE  /\ Node(r, srv[r], conn[r], disk[r]) /\ Whole(At(srv[r]), count.write, Marks)
         /\ \A i \in 1 .. Len(disk[r].data) : disk[r].data[i] <= count.write
         /\ srv[r].id \in Nat /\ srv[r].id <= LastId /\ r # None
         /\ Local(srv[r]) /\ Link(r, srv[r], conn[r]) /\ srv[r] \in Server /\ conn[r] \in Connection
BY Now, GoodNode, PsyncAssumption DEF Node, Local, Link

LEMMA RefusePsyncSound ==
  ASSUME IInv, NEW r \in Nodes, RefusePsync(r)
  PROVE  Sound'
<1>1. /\ Node(r, srv[r], conn[r], disk[r]) /\ Whole(At(srv[r]), count.write, Marks)
      /\ \A i \in 1 .. Len(disk[r].data) : disk[r].data[i] <= count.write
      /\ srv[r].id <= LastId /\ Link(r, srv[r], conn[r])
  BY NodeNow
<1> DEFINE c1 == Shut(conn[r])
<1>2. /\ conn' = [conn EXCEPT ![r] = c1] /\ srv' = srv /\ disk' = disk /\ cl' = cl /\ count' = count
      /\ conn[r].phase = "asked"
  BY DEF RefusePsync, Shut, wvars
<1>3. Link(r, srv[r], c1) /\ ~IsEnd(c1)
  <2>1. Link(r, srv[r], c1)
    BY <1>1, ShutFields
  <2>2. c1.phase = conn[r].phase
    BY DEF Shut
  <2> QED BY <1>2, <2>1, <2>2 DEF IsEnd
<1>4. Evolves(r, srv[r], conn[r], disk[r], srv[r], c1, disk[r], LastId, Backed(srv))
  BY <1>1, <1>3, SameEnd
<1> HIDE DEF c1
<1>5. Sets(srv, conn, disk, srv', conn', disk', r, srv[r], c1, disk[r])
  BY <1>2, Now DEF Sets
<1>6. KeepsSlaves(srv, conn', r, srv[r]) /\ KeepsMaster(srv, conn[r], srv[r], c1, r)
  BY <1>3 DEF KeepsSlaves, KeepsMaster
<1>7. Good(srv', conn', disk', LastId, count.write, Marks)
  BY <1>1, <1>4, <1>5, <1>6, Now, RecordStep
<1> QED BY <1>2, <1>7, SameIds, SameMarks, SoundAfter


\* The instance r changes its records, and perhaps takes an ID.
LEMMA RecordSound ==
  ASSUME IInv, NEW r \in Nodes, NEW s1, NEW c1, NEW d1,
         Sets(srv, conn, disk, srv', conn', disk', r, s1, c1, d1),
         Evolves(r, srv[r], conn[r], disk[r], s1, c1, d1, LastId, Backed(srv)),
         KeepsSlaves(srv, conn', r, s1), KeepsMaster(srv, conn[r], s1, c1, r),
         Whole(At(s1), count.write, Marks), \A i \in 1 .. Len(d1.data) : d1.data[i] <= count.write,
         \/ count'.ids = count.ids /\ s1.id <= LastId
         \/ count'.ids = count.ids + 1 /\ s1.id <= NewId,
         count'.write = count.write, Marks' \subseteq Marks
  PROVE  Sound'
<1>1. LastId' \in Nat /\ LastId <= LastId' /\ s1.id <= LastId'
  BY Now, SameIds, OneMoreId
<1>2. Good(srv', conn', disk', LastId', count.write, Marks)
  BY <1>1, Now, RecordStep
<1> QED BY <1>2, SoundAfter

LEMMA WithAckFields ==
  ASSUME NEW r, NEW s, NEW c, Link(r, s, c), s \in Server, s.state = "connected", c.to # None, NEW o, o = s.off,
         NEW c1, c1 = WithAck(c, o)
  PROVE  /\ Link(r, s, c1) /\ c1.to = c.to /\ c1.open = c.open /\ c1.phase = c.phase
         /\ End(s, c1) = End(s, c)
<1>1. c \in Connection /\ c.to = s.host /\ s.host # r /\ c.phase = "slave" /\ Receives(s, c) /\ o \in Nat /\ o <= s.off
  BY DEF Link, Asks, Server
<1>2. c.reply = NoReply
  BY <1>1 DEF Receives
<1>3. /\ c1 \in Connection /\ c1.to = c.to /\ c1.open = c.open /\ c1.phase = c.phase
      /\ c1.reply = c.reply /\ c1.q = c.q /\ c1.ack = o
  BY <1>1 DEF WithAck, Connection
<1>4. Receives(s, c1)
  BY <1>1, <1>2, <1>3 DEF Receives
<1>5. Link(r, s, c1)
  BY <1>1, <1>3, <1>4 DEF Link
<1>6. End(s, c1) = End(s, c)
  BY <1>3 DEF End, Base
<1> QED BY <1>3, <1>5, <1>6

LEMMA SendAckSound ==
  ASSUME IInv, NEW r \in Nodes, replicationSendAck(r)
  PROVE  Sound'
<1>1. /\ Node(r, srv[r], conn[r], disk[r]) /\ Whole(At(srv[r]), count.write, Marks)
      /\ \A i \in 1 .. Len(disk[r].data) : disk[r].data[i] <= count.write
      /\ srv[r].id <= LastId /\ Link(r, srv[r], conn[r]) /\ srv[r] \in Server
  BY NodeNow
<1> DEFINE c1 == WithAck(conn[r], srv[r].off)
<1>2. /\ conn' = [conn EXCEPT ![r] = c1] /\ srv' = srv /\ disk' = disk /\ cl' = cl /\ count' = count
      /\ srv[r].state = "connected" /\ conn[r].to # None
  BY Now DEF replicationSendAck, Acked, WithAck, wvars
<1>3. /\ Link(r, srv[r], c1) /\ c1.to = conn[r].to /\ c1.open = conn[r].open /\ c1.phase = conn[r].phase
      /\ End(srv[r], c1) = End(srv[r], conn[r])
  BY <1>1, <1>2, WithAckFields
<1> HIDE DEF c1
<1>4. IsEnd(c1) <=> IsEnd(conn[r])
  BY <1>3 DEF IsEnd
<1>5. Evolves(r, srv[r], conn[r], disk[r], srv[r], c1, disk[r], LastId, Backed(srv))
  BY <1>1, <1>3, <1>4, SameEnd
<1>6. Sets(srv, conn, disk, srv', conn', disk', r, srv[r], c1, disk[r])
  BY <1>2, Now DEF Sets
<1>7. KeepsSlaves(srv, conn', r, srv[r]) /\ KeepsMaster(srv, conn[r], srv[r], c1, r)
  BY <1>3, <1>4 DEF KeepsSlaves, KeepsMaster
<1> QED BY <1>1, <1>2, <1>5, <1>6, <1>7, SameMarks, RecordSound

LEMMA SendPsyncSound ==
  ASSUME IInv, NEW r \in Nodes, SendPsync(r)
  PROVE  Sound'
<1>1. /\ Node(r, srv[r], conn[r], disk[r]) /\ Whole(At(srv[r]), count.write, Marks)
      /\ \A i \in 1 .. Len(disk[r].data) : disk[r].data[i] <= count.write
      /\ srv[r].id <= LastId
  BY NodeNow
<1> DEFINE s1 == [srv[r] EXCEPT !.state = "psync"]
           c1 == [to |-> srv[r].host, phase |-> "asked", open |-> TRUE,
                  id |-> srv[r].cached.id, off |-> srv[r].cached.off + 1, ack |-> 0,
                  reply |-> NoReply, q |-> <<>>]
<1>2. /\ conn' = [conn EXCEPT ![r] = c1] /\ srv' = [srv EXCEPT ![r] = s1]
      /\ disk' = disk /\ cl' = cl /\ count' = count /\ srv[r].state = "connect"
  BY DEF SendPsync, wvars
<1>3. /\ Evolves(r, srv[r], conn[r], disk[r], s1, c1, disk[r], LastId, Backed(srv))
      /\ At(s1) = At(srv[r]) /\ s1.backlog = srv[r].backlog /\ ~IsEnd(c1)
  BY <1>1, <1>2, SendPsyncNode
<1> HIDE DEF s1, c1
<1>4. s1.id = srv[r].id
  BY <1>3 DEF At
<1>5. Sets(srv, conn, disk, srv', conn', disk', r, s1, c1, disk[r])
  BY <1>2, Now DEF Sets
<1>6. KeepsSlaves(srv, conn', r, s1) /\ KeepsMaster(srv, conn[r], s1, c1, r)
  BY <1>3 DEF KeepsSlaves, KeepsMaster
<1> QED BY <1>1, <1>2, <1>3, <1>4, <1>5, <1>6, SameMarks, RecordSound

\* The connection of r is gone: SeeClose and LinkDown.
LEMMA UnlinkSound ==
  ASSUME IInv, NEW r \in Nodes, SeeClose(r) \/ LinkDown(r)
  PROVE  Sound'
<1>1. /\ Node(r, srv[r], conn[r], disk[r]) /\ Whole(At(srv[r]), count.write, Marks)
      /\ \A i \in 1 .. Len(disk[r].data) : disk[r].data[i] <= count.write
      /\ srv[r].id <= LastId
  BY NodeNow
<1> DEFINE s1 == Unlinked(srv[r])
<1>2. /\ conn' = [conn EXCEPT ![r] = NoConn] /\ srv' = [srv EXCEPT ![r] = s1]
      /\ disk' = disk /\ cl' = cl /\ conn[r].to # None
  BY DEF SeeClose, LinkDown, wvars
<1>3. count'.ids = count.ids /\ count'.write = count.write
  BY Now DEF SeeClose, LinkDown, CountType
<1>4. /\ Evolves(r, srv[r], conn[r], disk[r], s1, NoConn, disk[r], LastId, Backed(srv))
      /\ At(s1) = At(srv[r]) /\ s1.backlog = srv[r].backlog
  BY <1>1, <1>2, UnlinkNode
<1> HIDE DEF s1
<1>5. s1.id = srv[r].id /\ ~IsEnd(NoConn)
  BY <1>4 DEF At, IsEnd, NoConn
<1>6. Sets(srv, conn, disk, srv', conn', disk', r, s1, NoConn, disk[r])
  BY <1>2, Now DEF Sets
<1>7. KeepsSlaves(srv, conn', r, s1) /\ KeepsMaster(srv, conn[r], s1, NoConn, r)
  BY <1>4, <1>5 DEF KeepsSlaves, KeepsMaster
<1> QED BY <1>1, <1>2, <1>3, <1>4, <1>5, <1>6, <1>7, SameMarks, RecordSound


LEMMA Disconnected ==
  ASSUME IInv, NEW r \in Nodes, NEW c, NEW C1, C1 = disconnectSlaves(r, c)
  PROVE  /\ C1 = [n \in Nodes |-> C1[n]] /\ C1[r] = c
         /\ \A k \in Nodes \ {r} : (C1[k] = conn[k] \/ C1[k] = Shut(conn[k])) /\ ~Follows(C1, k, r)
<1>1. C1 = [n \in Nodes |-> C1[n]] /\ C1[r] = c
  BY DEF disconnectSlaves
<1>2. ASSUME NEW k \in Nodes \ {r}
      PROVE  (C1[k] = conn[k] \/ C1[k] = Shut(conn[k])) /\ ~Follows(C1, k, r)
  <2>1. C1[k] = IF IsSlave(k, r) THEN Shut(conn[k]) ELSE conn[k]
    BY DEF disconnectSlaves, Shut
  <2>2. ~Shut(conn[k]).open
    BY NodeNow, ShutFields
  <2>3. IsSlave(k, r) <=> Follows(conn, k, r)
    BY SlaveFollows
  <2> QED BY <2>1, <2>2, <2>3 DEF Follows
<1> QED BY <1>1, <1>2

LEMMA DroppedMarks ==
  ASSUME IInv, NEW gone, cl' = Dropped(gone)
  PROVE  Marks' \subseteq Marks
<1>1. \A c \in Clients : cl'[c] = cl[c] \/ cl'[c].w = None
  BY DEF Dropped, Client
<1> QED BY <1>1 DEF Marks

LEMMA SameWhole ==
  ASSUME NEW s, NEW t, s.off = t.off, s.data = t.data, NEW B, NEW K, Whole(At(s), B, K)
  PROVE  Whole(At(t), B, K)
BY DEF Whole, At

LEMMA FileNow ==
  ASSUME IInv, NEW r \in Nodes
  PROVE  disk[r].id <= LastId
<1>1. disk[r] \in File /\ (disk[r].id = None <=> disk[r].off = -1) /\ LastId \in Nat
  BY Now DEF Good
<1>2. CASE IsFile(disk[r])
  <2>1. At(disk[r]) \in Claims(srv[r], conn[r], disk[r])
    BY <1>1, <1>2, FilePoint DEF Claims
  <2>2. At(disk[r]) \in Points(srv, conn, disk)
    BY <2>1, InPoints
  <2>3. At(disk[r]).id <= LastId
    BY <2>2, Now DEF Good, Taken
  <2> QED BY <2>3 DEF At
<1>3. CASE ~IsFile(disk[r])
  BY <1>1, <1>3 DEF IsFile, None
<1> QED BY <1>2, <1>3

LEMMA ReplicaofSound ==
  ASSUME IInv, NEW r \in Nodes, NEW m \in Nodes, replicaof(r, m)
  PROVE  Sound'
<1>1. /\ Node(r, srv[r], conn[r], disk[r]) /\ Whole(At(srv[r]), count.write, Marks)
      /\ \A i \in 1 .. Len(disk[r].data) : disk[r].data[i] <= count.write
      /\ srv[r].id <= LastId /\ m # None
  BY NodeNow
<1> DEFINE t == Cached(srv[r])
           s1 == Demoted(t, m)
<1>2. /\ conn' = disconnectSlaves(r, NoConn) /\ srv' = [srv EXCEPT ![r] = s1]
      /\ disk' = disk /\ cl' = Dropped(ToSet(acks[r].waiting)) /\ m # r
      /\ count' = [count EXCEPT !.role = @ + 1]
  BY DEF replicaof, Cached, Demoted
<1>3. count'.ids = count.ids /\ count'.write = count.write
  BY <1>2, Now DEF CountType
<1>4. /\ Evolves(r, srv[r], conn[r], disk[r], s1, NoConn, disk[r], LastId, Backed(srv))
      /\ At(s1) = At(srv[r])
  BY <1>1, <1>2, ReplicaofNode
<1> HIDE DEF t, s1
<1>5. s1.id = srv[r].id /\ ~IsEnd(NoConn)
  BY <1>4 DEF At, IsEnd, NoConn
<1>6. /\ conn' = [n \in Nodes |-> conn'[n]] /\ conn'[r] = NoConn
      /\ \A k \in Nodes \ {r} : (conn'[k] = conn[k] \/ conn'[k] = Shut(conn[k])) /\ ~Follows(conn', k, r)
  BY <1>2, Disconnected
<1>7. Sets(srv, conn, disk, srv', conn', disk', r, s1, NoConn, disk[r])
  BY <1>2, <1>6, Now DEF Sets
<1>8. KeepsSlaves(srv, conn', r, s1) /\ KeepsMaster(srv, conn[r], s1, NoConn, r)
  BY <1>5, <1>6 DEF KeepsSlaves, KeepsMaster
<1>9. Marks' \subseteq Marks
  BY <1>2, DroppedMarks
<1> QED BY <1>1, <1>3, <1>4, <1>5, <1>7, <1>8, <1>9, RecordSound

LEMMA UnsetMasterSound ==
  ASSUME IInv, NEW r \in Nodes, replicationUnsetMaster(r)
  PROVE  Sound'
<1>1. /\ Node(r, srv[r], conn[r], disk[r]) /\ Whole(At(srv[r]), count.write, Marks)
      /\ \A i \in 1 .. Len(disk[r].data) : disk[r].data[i] <= count.write
      /\ srv[r].id <= LastId /\ disk[r].id <= LastId /\ r # None
      /\ LastId \in Nat /\ NewId \in Nat /\ LastId < NewId
  BY NodeNow, FileNow, Now
<1> DEFINE s1 == Promoted(srv[r], NewId)
<1>2. /\ conn' = disconnectSlaves(r, NoConn) /\ srv' = [srv EXCEPT ![r] = s1]
      /\ disk' = disk /\ cl' = cl /\ srv[r].host # None
      /\ count' = [TookId EXCEPT !.role = @ + 1]
  BY DEF replicationUnsetMaster, wvars, Promoted
<1>3. count'.ids = count.ids + 1 /\ count'.write = count.write
  BY <1>2, Now DEF CountType, TookId
<1>4. /\ Evolves(r, srv[r], conn[r], disk[r], s1, NoConn, disk[r], LastId, Backed(srv))
      /\ s1.id = NewId /\ s1.off = srv[r].off /\ s1.data = srv[r].data
  BY <1>1, <1>2, UnsetMasterNode
<1> HIDE DEF s1
<1>5. s1.id <= NewId /\ ~IsEnd(NoConn)
  BY <1>1, <1>4 DEF IsEnd, NoConn
<1>6. /\ conn' = [n \in Nodes |-> conn'[n]] /\ conn'[r] = NoConn
      /\ \A k \in Nodes \ {r} : (conn'[k] = conn[k] \/ conn'[k] = Shut(conn[k])) /\ ~Follows(conn', k, r)
  BY <1>2, Disconnected
<1>7. Sets(srv, conn, disk, srv', conn', disk', r, s1, NoConn, disk[r])
  BY <1>2, <1>6, Now DEF Sets
<1>8. KeepsSlaves(srv, conn', r, s1) /\ KeepsMaster(srv, conn[r], s1, NoConn, r)
  BY <1>5, <1>6 DEF KeepsSlaves, KeepsMaster
<1>9. Whole(At(s1), count.write, Marks)
  BY <1>1, <1>4, SameWhole
<1> QED BY <1>1, <1>2, <1>3, <1>4, <1>5, <1>7, <1>8, <1>9, SameMarks, RecordSound


LEMMA FreedFields ==
  ASSUME NEW s, s \in Server, NEW new, new \in Nat \ {0}, NEW t, t = FreedBacklog(s, new)
  PROVE  /\ t \in Server /\ t.host = s.host /\ t.state = s.state /\ t.cached = s.cached /\ t.id = new
         /\ t.id2 = None /\ t.off2 = -1 /\ t.off = s.off /\ t.data = s.data /\ ~t.backlog /\ t.buf = <<>>
<1> DEFINE z == None
           v == -1
           y == <<>>
           f == FALSE
           a == [s EXCEPT !.id = new]
           b == [a EXCEPT !.id2 = z, !.off2 = v]
<1>1. z \in Nat /\ v \in Nat \cup {-1} /\ y \in Seq(Nat) /\ f \in BOOLEAN
  BY DEF None
<1>2. t = [b EXCEPT !.backlog = f, !.buf = y]
  BY DEF FreedBacklog, clearReplicationId2, freeReplicationBacklog
<1>3. z = None /\ v = -1 /\ y = <<>> /\ ~f
  OBVIOUS
<1> HIDE DEF z, v, y, f
<1>4. /\ a \in Server /\ a.host = s.host /\ a.state = s.state /\ a.cached = s.cached /\ a.id = new
      /\ a.off = s.off /\ a.data = s.data
  BY DEF Server
<1> HIDE DEF a
<1>5. /\ b \in Server /\ b.host = a.host /\ b.state = a.state /\ b.cached = a.cached /\ b.id = a.id
      /\ b.id2 = z /\ b.off2 = v /\ b.off = a.off /\ b.data = a.data
  BY <1>1, <1>4 DEF Server
<1> HIDE DEF b
<1>6. /\ t \in Server /\ t.host = b.host /\ t.state = b.state /\ t.cached = b.cached /\ t.id = b.id
      /\ t.id2 = b.id2 /\ t.off2 = b.off2 /\ t.off = b.off /\ t.data = b.data /\ t.backlog = f /\ t.buf = y
  BY <1>1, <1>2, <1>5 DEF Server
<1> QED BY <1>3, <1>4, <1>5, <1>6

LEMMA CronSound ==
  ASSUME IInv, NEW r \in Nodes, replicationCron(r)
  PROVE  Sound'
<1>1. /\ Node(r, srv[r], conn[r], disk[r]) /\ Whole(At(srv[r]), count.write, Marks)
      /\ \A i \in 1 .. Len(disk[r].data) : disk[r].data[i] <= count.write
      /\ srv[r].id <= LastId /\ disk[r].id <= LastId /\ srv[r] \in Server /\ Link(r, srv[r], conn[r])
      /\ LastId \in Nat /\ NewId \in Nat \ {0} /\ LastId < NewId
  BY NodeNow, FileNow, Now
<1> DEFINE s1 == FreedBacklog(srv[r], NewId)
<1>2. /\ conn' = conn /\ srv' = [srv EXCEPT ![r] = s1]
      /\ disk' = disk /\ cl' = cl /\ srv[r].host = None /\ Slaves(r) = {}
      /\ count' = [TookId EXCEPT !.free = @ + 1]
  BY DEF replicationCron, wvars
<1>3. count'.ids = count.ids + 1 /\ count'.write = count.write
  BY <1>2, Now DEF CountType, TookId
<1>4. /\ s1 \in Server /\ s1.host = srv[r].host /\ s1.state = srv[r].state /\ s1.cached = srv[r].cached
      /\ s1.id = NewId /\ s1.id2 = None /\ s1.off2 = -1 /\ s1.off = srv[r].off /\ s1.data = srv[r].data
      /\ ~s1.backlog /\ s1.buf = <<>>
  BY <1>1, FreedFields
<1> HIDE DEF s1
<1>5. s1.backlog = FALSE /\ s1.host = None
  BY <1>2, <1>4 DEF Server
<1>6. Evolves(r, srv[r], conn[r], disk[r], s1, conn[r], disk[r], LastId, Backed(srv))
  BY <1>1, <1>2, <1>4, <1>5, NewHistoryNode
<1>7. ~IsEnd(conn[r])
  BY <1>1, <1>2, MasterUnlinked
<1>8. Sets(srv, conn, disk, srv', conn', disk', r, s1, conn[r], disk[r])
  BY <1>2, Now DEF Sets
<1>9. \A k \in Nodes : ~Follows(conn', k, r)
  BY <1>2, SlaveFollows DEF Slaves
<1>10. KeepsSlaves(srv, conn', r, s1) /\ KeepsMaster(srv, conn[r], s1, conn[r], r)
  BY <1>7, <1>9 DEF KeepsSlaves, KeepsMaster
<1>11. Whole(At(s1), count.write, Marks) /\ s1.id <= NewId
  BY <1>1, <1>4, SameWhole
<1> QED BY <1>1, <1>2, <1>3, <1>6, <1>8, <1>10, <1>11, SameMarks, RecordSound

LEMMA SaveRdbSound ==
  ASSUME IInv, NEW r \in Nodes, SaveRdb(r)
  PROVE  Sound'
<1>1. /\ Node(r, srv[r], conn[r], disk[r]) /\ Whole(At(srv[r]), count.write, Marks)
      /\ srv[r].id <= LastId
  BY NodeNow
<1> DEFINE d1 == Saved(srv[r])
<1>2. /\ conn' = conn /\ srv' = srv /\ disk' = [disk EXCEPT ![r] = d1] /\ cl' = cl /\ count' = count
  BY DEF SaveRdb, wvars, Saved
<1>3. Evolves(r, srv[r], conn[r], disk[r], srv[r], conn[r], d1, LastId, Backed(srv)) /\ d1.data = srv[r].data
  BY <1>1, SaveRdbNode
<1> HIDE DEF d1
<1>4. \A i \in 1 .. Len(d1.data) : d1.data[i] <= count.write
  BY <1>1, <1>3 DEF Whole, At
<1>5. Sets(srv, conn, disk, srv', conn', disk', r, srv[r], conn[r], d1)
  BY <1>2, Now DEF Sets
<1>6. KeepsSlaves(srv, conn', r, srv[r]) /\ KeepsMaster(srv, conn[r], srv[r], conn[r], r)
  BY DEF KeepsSlaves, KeepsMaster
<1> QED BY <1>1, <1>2, <1>3, <1>4, <1>5, <1>6, SameMarks, RecordSound

\* An offset of 0 is before every mark.
LEMMA WholeAtZero ==
  ASSUME NEW s, s \in Server, s.off = 0, NEW B, NEW K, K \subseteq Mark,
         \A i \in 1 .. Len(s.data) : s.data[i] <= B
  PROVE  Whole(At(s), B, K)
<1> DEFINE x == s.data
           n == Len(s.data)
<1>1. x \in Seq(Nat) /\ n \in Nat /\ At(s).data = x /\ At(s).off = 0
  BY DEF Server, At
<1>2. \A k \in K : k.woff \in Nat
  BY DEF Mark
<1>3. \A i \in 1 .. n : x[i] <= B
  OBVIOUS
<1>4. Whole(At(s), B, K) <=>
      /\ \A i \in 1 .. n : x[i] <= B
      /\ \A k \in K : \A i \in 1 .. n : x[i] = k.w => i - (n - 0) <= k.woff
  BY <1>1 DEF Whole
<1> HIDE DEF x, n
<1>5. \A k \in K : \A i \in 1 .. n : i - (n - 0) <= k.woff
  BY <1>1, <1>2
<1> QED BY <1>3, <1>4, <1>5

LEMMA RestartSound ==
  ASSUME IInv, NEW r \in Nodes, Restart(r)
  PROVE  Sound'
<1>1. /\ Node(r, srv[r], conn[r], disk[r])
      /\ \A i \in 1 .. Len(disk[r].data) : disk[r].data[i] <= count.write
      /\ disk[r].id <= LastId /\ LastId \in Nat /\ NewId \in Nat /\ LastId < NewId /\ Marks \subseteq Mark
  BY NodeNow, FileNow, Now
<1> DEFINE keep == srv[r].host # None /\ disk[r].id # None
           s0 == Started(srv[r], disk[r], NewId, keep)
           s1 == Resumed(s0, keep)
<1>2. /\ srv' = [srv EXCEPT ![r] = s1] /\ disk' = disk
      /\ conn' = [k \in Nodes |->
           CASE k = r -> NoConn
             [] k # r /\ conn[k].to = r  -> [conn[k] EXCEPT !.open = FALSE]
             [] k # r /\ conn[k].to # r  -> conn[k]]
      /\ count' = [TookId EXCEPT !.restart = @ + 1]
      /\ cl' = Dropped({c \in Clients : cl[c].at = r})
  BY DEF Restart, Started, Resumed
<1>3. count'.ids = count.ids + 1 /\ count'.write = count.write
  BY <1>2, Now DEF CountType, TookId
<1>4. /\ Evolves(r, srv[r], conn[r], disk[r], s1, NoConn, disk[r], LastId, Backed(srv))
      /\ s1.id \in Nat /\ s1.id <= NewId /\ s1.data = disk[r].data
      /\ IF keep THEN IsFile(disk[r]) /\ At(s1) = At(disk[r]) ELSE s1.off = 0
  <2>1. /\ keep \in BOOLEAN
        /\ keep <=> srv[r].host # None /\ disk[r].id # None
        /\ s0 = Started(srv[r], disk[r], NewId, keep) /\ s1 = Resumed(s0, keep)
    OBVIOUS
  <2> HIDE DEF keep, s0, s1
  <2> QED BY <1>1, <2>1, RestartNode
<1> HIDE DEF s0, s1
<1>5. ~IsEnd(NoConn) /\ s1 \in Server
  BY <1>4 DEF IsEnd, NoConn, Evolves, Node, Local
<1>6. /\ conn' = [n \in Nodes |-> conn'[n]] /\ conn'[r] = NoConn
      /\ \A k \in Nodes \ {r} : (conn'[k] = conn[k] /\ conn[k].to # r) \/ conn'[k] = Shut(conn[k])
  BY <1>2 DEF Shut
<1>7. \A k \in Nodes \ {r} : ~Follows(conn', k, r)
  <2>1. \A k \in Nodes \ {r} : ~Shut(conn[k]).open
    BY NodeNow, ShutFields
  <2> QED BY <1>6, <2>1 DEF Follows
<1>8. Sets(srv, conn, disk, srv', conn', disk', r, s1, NoConn, disk[r])
  BY <1>2, <1>6, Now DEF Sets
<1>9. KeepsSlaves(srv, conn', r, s1) /\ KeepsMaster(srv, conn[r], s1, NoConn, r)
  BY <1>5, <1>7 DEF KeepsSlaves, KeepsMaster
<1>10. Whole(At(s1), count.write, Marks)
  <2>1. CASE keep
    <3>1. At(disk[r]) \in Claims(srv[r], conn[r], disk[r])
      BY <1>1, <1>4, <2>1, FilePoint DEF Claims, Node
    <3>2. At(disk[r]) \in Points(srv, conn, disk)
      BY <3>1, InPoints
    <3>3. Whole(At(disk[r]), count.write, Marks)
      BY <3>2, Now DEF Good, AllWhole
    <3> QED BY <1>4, <2>1, <3>3
  <2>2. CASE ~keep
    BY <1>1, <1>4, <1>5, <2>2, WholeAtZero
  <2> QED BY <2>1, <2>2
<1>11. Marks' \subseteq Marks
  BY <1>2, DroppedMarks
<1> QED BY <1>1, <1>3, <1>4, <1>8, <1>9, <1>10, <1>11, RecordSound


\* What a replica that reads an answer has and will have.
LEMMA AnswerNow ==
  ASSUME IInv, NEW r \in Nodes, conn[r].reply.type \in {"continue", "full"}
  PROVE  LET p == Base(srv[r], conn[r])
             e == End(srv[r], conn[r])
         IN  /\ IsEnd(conn[r]) /\ e \in Told(srv[r], conn[r]) /\ e \in Points(srv, conn, disk)
             /\ p.id = e.id /\ p.id <= LastId /\ Whole(p, count.write, Marks)
<1> DEFINE p == Base(srv[r], conn[r])
           e == End(srv[r], conn[r])
<1>1. Node(r, srv[r], conn[r], disk[r]) /\ Local(srv[r]) /\ Link(r, srv[r], conn[r])
  BY NodeNow
<1>2. IsEnd(conn[r])
  BY <1>1, AnswerLink
<1>3. p \in Point /\ e \in Point /\ Below(p, e)
  BY <1>1, <1>2, EndPoint
<1>4. e \in Told(srv[r], conn[r]) /\ e \in Claims(srv[r], conn[r], disk[r])
  BY <1>2, <1>3 DEF Told, Claims
<1>5. e \in Points(srv, conn, disk)
  BY <1>4, InPoints
<1>6. e.id <= LastId /\ Whole(e, count.write, Marks)
  BY <1>5, Now DEF Good, Taken, AllWhole
<1>7. p.id = e.id
  BY <1>3 DEF Below
<1>8. Whole(p, count.write, Marks)
  BY <1>3, <1>6, WholeBelow
<1> QED BY <1>2, <1>4, <1>5, <1>6, <1>7, <1>8

\* An instance without backlog has no slaves.
LEMMA NoBacklogNoSlaves ==
  ASSUME IInv, NEW r \in Nodes, ~srv[r].backlog
  PROVE  \A k \in Nodes : ~Follows(conn, k, r)
BY Now DEF Good, Attached

LEMMA ReceiveFullresyncSound ==
  ASSUME IInv, NEW r \in Nodes, ReceiveFullresync(r)
  PROVE  Sound'
<1>1. /\ Node(r, srv[r], conn[r], disk[r]) /\ Whole(At(srv[r]), count.write, Marks)
      /\ \A i \in 1 .. Len(disk[r].data) : disk[r].data[i] <= count.write
      /\ srv[r].id <= LastId
  BY NodeNow
<1> DEFINE s1 == Transferring(srv[r])
<1>2. /\ conn' = disconnectSlaves(r, conn[r]) /\ srv' = [srv EXCEPT ![r] = s1]
      /\ disk' = disk /\ cl' = cl /\ count' = count
      /\ srv[r].state = "psync" /\ conn[r].reply.type = "full"
  BY DEF ReceiveFullresync, Reads, wvars, Transferring
<1>3. /\ Evolves(r, srv[r], conn[r], disk[r], s1, conn[r], disk[r], LastId, Backed(srv))
      /\ End(s1, conn[r]) = End(srv[r], conn[r])
      /\ s1.id = srv[r].id /\ s1.off = srv[r].off /\ s1.data = srv[r].data
  BY <1>1, <1>2, ReceiveFullresyncNode
<1> HIDE DEF s1
<1>4. IsEnd(conn[r])
  BY <1>2, AnswerNow
<1>5. /\ conn' = [n \in Nodes |-> conn'[n]] /\ conn'[r] = conn[r]
      /\ \A k \in Nodes \ {r} : (conn'[k] = conn[k] \/ conn'[k] = Shut(conn[k])) /\ ~Follows(conn', k, r)
  BY <1>2, Disconnected
<1>6. Sets(srv, conn, disk, srv', conn', disk', r, s1, conn[r], disk[r])
  BY <1>2, <1>5, Now DEF Sets
<1>7. KeepsSlaves(srv, conn', r, s1) /\ KeepsMaster(srv, conn[r], s1, conn[r], r)
  BY <1>3, <1>4, <1>5 DEF KeepsSlaves, KeepsMaster
<1>8. Whole(At(s1), count.write, Marks)
  BY <1>1, <1>3, SameWhole
<1> QED BY <1>1, <1>2, <1>3, <1>6, <1>7, <1>8, SameMarks, RecordSound

LEMMA LoadFailsSound ==
  ASSUME IInv, NEW r \in Nodes, LoadFails(r)
  PROVE  Sound'
<1>1. Node(r, srv[r], conn[r], disk[r]) /\ srv[r].id <= LastId
  BY NodeNow
<1> DEFINE s1 == Flushed(srv[r])
           d1 == FileIn(conn[r])
<1>2. /\ conn' = [conn EXCEPT ![r] = NoConn] /\ srv' = [srv EXCEPT ![r] = s1]
      /\ disk' = [disk EXCEPT ![r] = d1] /\ cl' = cl /\ count' = [count EXCEPT !.drop = @ + 1]
      /\ srv[r].state = "transfer" /\ conn[r].reply.type = "full"
  BY Now DEF LoadFails, Reads, wvars, Flushed, FileIn, Renamed
<1>3. count'.ids = count.ids /\ count'.write = count.write
  BY <1>2, Now DEF CountType
<1>4. /\ Evolves(r, srv[r], conn[r], disk[r], s1, NoConn, d1, LastId, Backed(srv))
      /\ s1.id = srv[r].id /\ s1.data = <<>> /\ ~srv[r].backlog
  BY <1>1, <1>2, LoadFailsNode
<1>5. d1.data = Base(srv[r], conn[r]).data
  BY <1>1, <1>2, ReceivedFile
<1> HIDE DEF s1, d1
<1>6. \A i \in 1 .. Len(d1.data) : d1.data[i] <= count.write
  BY <1>2, <1>5, AnswerNow DEF Whole
<1>7. Sets(srv, conn, disk, srv', conn', disk', r, s1, NoConn, d1)
  BY <1>2, Now DEF Sets
<1>8. \A k \in Nodes \ {r} : ~Follows(conn', k, r)
  BY <1>2, <1>4, NoBacklogNoSlaves DEF Follows
<1>9. ~IsEnd(NoConn)
  BY DEF IsEnd, NoConn
<1>10. KeepsSlaves(srv, conn', r, s1) /\ KeepsMaster(srv, conn[r], s1, NoConn, r)
  BY <1>8, <1>9 DEF KeepsSlaves, KeepsMaster
<1>11. Whole(At(s1), count.write, Marks)
  BY <1>4 DEF Whole, At
<1> QED BY <1>1, <1>2, <1>3, <1>4, <1>6, <1>7, <1>10, <1>11, SameMarks, RecordSound

LEMMA BulkPayloadSound ==
  ASSUME IInv, NEW r \in Nodes, readSyncBulkPayload(r)
  PROVE  Sound'
<1>1. Node(r, srv[r], conn[r], disk[r])
  BY NodeNow
<1> DEFINE s1 == LoadedFrom(srv[r], conn[r])
           c1 == ReadAnswer(conn[r])
           d1 == FileIn(conn[r])
<1>2. /\ conn' = [conn EXCEPT ![r] = c1] /\ srv' = [srv EXCEPT ![r] = s1]
      /\ disk' = [disk EXCEPT ![r] = d1] /\ cl' = cl /\ count' = count
      /\ srv[r].state = "transfer" /\ conn[r].reply.type = "full"
  BY Now DEF readSyncBulkPayload, Reads, wvars, LoadedFrom, ReadAnswer, Answered, FileIn, Renamed
<1>3. /\ Evolves(r, srv[r], conn[r], disk[r], s1, c1, d1, LastId, Backed(srv))
      /\ End(s1, c1) = End(srv[r], conn[r]) /\ At(s1) = Base(srv[r], conn[r]) /\ ~srv[r].backlog
      /\ c1.to = conn[r].to /\ c1.open = conn[r].open
  BY <1>1, <1>2, BulkPayloadNode
<1>4. d1.data = Base(srv[r], conn[r]).data
  BY <1>1, <1>2, ReceivedFile
<1> HIDE DEF s1, c1, d1
<1>5. IsEnd(conn[r]) /\ At(s1).id <= LastId /\ Whole(At(s1), count.write, Marks)
  BY <1>2, <1>3, AnswerNow
<1>6. s1.id <= LastId /\ \A i \in 1 .. Len(d1.data) : d1.data[i] <= count.write
  BY <1>3, <1>4, <1>5 DEF Whole, At
<1>7. Sets(srv, conn, disk, srv', conn', disk', r, s1, c1, d1)
  BY <1>2, Now DEF Sets
<1>8. \A k \in Nodes \ {r} : ~Follows(conn', k, r)
  BY <1>2, <1>3, NoBacklogNoSlaves DEF Follows
<1>9. KeepsSlaves(srv, conn', r, s1) /\ KeepsMaster(srv, conn[r], s1, c1, r)
  BY <1>3, <1>5, <1>8 DEF KeepsSlaves, KeepsMaster
<1> QED BY <1>2, <1>3, <1>5, <1>6, <1>7, <1>9, SameMarks, RecordSound


LEMMA ReceiveContinueSound ==
  ASSUME IInv, NEW r \in Nodes, ReceiveContinue(r)
  PROVE  Sound'
<1>1. /\ Node(r, srv[r], conn[r], disk[r]) /\ Whole(At(srv[r]), count.write, Marks)
      /\ \A i \in 1 .. Len(disk[r].data) : disk[r].data[i] <= count.write
  BY NodeNow
<1> DEFINE t == Continued(srv[r], conn[r])
           s1 == createReplicationBacklog(Joined(t))
           c1 == ReadAnswer(conn[r])
           moved == conn[r].reply.id # srv[r].cached.id
<1>2. /\ conn' = IF moved THEN disconnectSlaves(r, c1) ELSE [conn EXCEPT ![r] = c1]
      /\ srv' = [srv EXCEPT ![r] = s1]
      /\ disk' = disk /\ cl' = cl /\ count' = count
      /\ srv[r].state = "psync" /\ conn[r].reply.type = "continue"
  BY DEF ReceiveContinue, Reads, wvars, Continued, Moved, Joined, ReadAnswer, Answered
<1>3. ASSUME ~srv[r].backlog, srv[r].id2 # None PROVE conn[r].reply.id # srv[r].id
  <2>1. srv[r].cached # NoCache
    <3>1. Receives(srv[r], conn[r])
      BY <1>1, <1>2, AnswerLink
    <3> QED BY <1>2, <3>1 DEF Receives, NoReply
  <2>2. Private(srv[r])
    BY <1>3, <2>1 DEF Private
  <2>3. /\ End(srv[r], conn[r]) \in Told(srv[r], conn[r])
        /\ Base(srv[r], conn[r]).id = End(srv[r], conn[r]).id
    BY <1>2, AnswerNow
  <2>4. End(srv[r], conn[r]) \in Others(srv, conn, disk, r)
    BY <2>3, InOthers
  <2>5. End(srv[r], conn[r]).id # srv[r].id
    BY <2>2, <2>4, Now DEF Good, Secret
  <2>6. Base(srv[r], conn[r]).id = conn[r].reply.id
    BY <1>2 DEF Base
  <2> QED BY <2>3, <2>5, <2>6
<1>4. /\ Evolves(r, srv[r], conn[r], disk[r], s1, c1, disk[r], LastId, Backed(srv))
      /\ End(s1, c1) = End(srv[r], conn[r]) /\ At(s1) = Base(srv[r], conn[r])
      /\ s1.off = srv[r].off /\ s1.data = srv[r].data /\ s1.id = conn[r].reply.id
      /\ c1.to = conn[r].to /\ c1.open = conn[r].open /\ srv[r].cached.id = srv[r].id /\ s1.backlog
  BY <1>1, <1>2, <1>3, ContinueNode
<1> HIDE DEF t, s1, c1
<1>5. IsEnd(conn[r]) /\ At(s1).id <= LastId /\ Whole(At(s1), count.write, Marks)
  BY <1>2, <1>4, AnswerNow
<1>6. s1.id <= LastId
  BY <1>5 DEF At
<1>7. /\ conn' = [n \in Nodes |-> conn'[n]] /\ conn'[r] = c1
      /\ \A k \in Nodes \ {r} : conn'[k] = conn[k] \/ conn'[k] = Shut(conn[k])
      /\ moved => \A k \in Nodes \ {r} : ~Follows(conn', k, r)
      /\ ~moved => \A k \in Nodes \ {r} : conn'[k] = conn[k]
  <2>1. CASE moved
    BY <1>2, <2>1, Disconnected
  <2>2. CASE ~moved
    BY <1>2, <2>2, Now
  <2> QED BY <2>1, <2>2
<1>8. Sets(srv, conn, disk, srv', conn', disk', r, s1, c1, disk[r])
  BY <1>2, <1>7, Now DEF Sets
<1>9. KeepsSlaves(srv, conn', r, s1)
  <2>1. CASE moved
    BY <1>7, <2>1 DEF KeepsSlaves
  <2>2. CASE ~moved /\ srv[r].backlog
    <3>1. At(s1) = At(srv[r])
      BY <1>4, <2>2 DEF At
    <3>2. s1.backlog = srv[r].backlog
      <4>1. s1 \in Server /\ srv[r] \in Server
        BY <1>1, <1>4 DEF Evolves, Node, Local
      <4>2. s1.backlog \in BOOLEAN /\ srv[r].backlog \in BOOLEAN
        BY <4>1 DEF Server
      <4> QED BY <1>4, <2>2, <4>2
    <3> QED BY <3>1, <3>2 DEF KeepsSlaves
  <2>3. CASE ~moved /\ ~srv[r].backlog
    <3>1. \A k \in Nodes \ {r} : ~Follows(conn', k, r)
      BY <1>7, <2>3, NoBacklogNoSlaves DEF Follows
    <3> QED BY <3>1 DEF KeepsSlaves
  <2> QED BY <2>1, <2>2, <2>3
<1>10. KeepsMaster(srv, conn[r], s1, c1, r)
  BY <1>4, <1>5 DEF KeepsMaster
<1> QED BY <1>1, <1>2, <1>4, <1>5, <1>6, <1>8, <1>9, <1>10, SameMarks, RecordSound

\* The other end of the connection of a replica that has asked.
LEMMA AskedOf ==
  ASSUME IInv, NEW r \in Nodes, AcceptsSync(conn[r])
  PROVE  /\ conn[r].to \in Nodes /\ conn[r].to # None /\ conn[r].to # r /\ conn[r].phase = "asked"
         /\ conn[r] \in Connection /\ Local(srv[conn[r].to]) /\ ~IsEnd(conn[r])
<1>1. conn[r].to # None /\ conn[r].phase = "asked"
  BY DEF AcceptsSync
<1>2. conn[r] \in Connection /\ Link(r, srv[r], conn[r])
  BY NodeNow
<1>3. conn[r].to \in Nodes /\ conn[r].to # r
  BY <1>1, <1>2 DEF Connection, Link
<1> QED BY <1>1, <1>2, <1>3, NodeNow DEF IsEnd

LEMMA PartialResyncSound ==
  ASSUME IInv, NEW r \in Nodes, PartialResync(r)
  PROVE  Sound'
<1>1. /\ Node(r, srv[r], conn[r], disk[r]) /\ Whole(At(srv[r]), count.write, Marks)
      /\ \A i \in 1 .. Len(disk[r].data) : disk[r].data[i] <= count.write
      /\ srv[r].id <= LastId /\ srv[r] \in Server
  BY NodeNow
<1> DEFINE m == srv[conn[r].to]
           c1 == Served(conn[r], ContinueReply(m.id), Rest(conn[r], m))
<1>2. /\ AcceptsSync(conn[r]) /\ MayContinue(m, conn[r].id, conn[r].off)
      /\ conn' = [conn EXCEPT ![r] = c1]
      /\ srv' = srv /\ disk' = disk /\ cl' = cl /\ count' = count
  BY DEF PartialResync, Served, ContinueReply, Rest, wvars
<1>3. /\ conn[r].to \in Nodes /\ conn[r].to # None /\ conn[r].to # r /\ conn[r].phase = "asked" /\ Local(m)
  BY <1>2, AskedOf
<1>4. m.backlog
  BY <1>2 DEF MayContinue
<1>5. At(m) \in Points(srv, conn, disk) /\ At(m) \in Backed(srv)
  <2>1. At(m) \in Claims(m, conn[conn[r].to], disk[conn[r].to])
    BY <1>3, <1>4, BackedClaims
  <2> QED BY <1>3, <1>4, <2>1, InPoints DEF Backed
<1>6. HasSecond(m) => Second(m) \in Points(srv, conn, disk)
  <2>1. HasSecond(m) => Second(m) \in Claims(m, conn[conn[r].to], disk[conn[r].to])
    BY <1>3, SecondPoint DEF Claims
  <2> QED BY <1>3, <2>1, InPoints
<1>7. rdbPopulateSaveInfo(srv[r]) => At(srv[r]) \in Points(srv, conn, disk)
  <2>1. rdbPopulateSaveInfo(srv[r]) => At(srv[r]) \in Claims(srv[r], conn[r], disk[r])
    BY <1>1, AtPoint DEF Claims
  <2> QED BY <2>1, InPoints
<1>8. Resumes(srv[r], conn[r], m)
  BY <1>2, <1>5, <1>6, <1>7, Now DEF Resumes, Good
<1>9. /\ Evolves(r, srv[r], conn[r], disk[r], srv[r], c1, disk[r], LastId, Backed(srv))
      /\ End(srv[r], c1) = At(m) /\ c1.to = conn[r].to
  <2>1. c1 = Served(conn[r], ContinueReply(m.id), Rest(conn[r], m))
    OBVIOUS
  <2>2. /\ Node(r, srv[r], conn[r], disk[r]) /\ conn[r].to # None /\ conn[r].phase = "asked"
        /\ Local(m) /\ At(m) \in Backed(srv)
    BY <1>1, <1>3, <1>5
  <2> HIDE DEF m, c1
  <2> QED BY <1>8, <2>1, <2>2, PartialNode
<1> HIDE DEF c1
<1>10. Sets(srv, conn, disk, srv', conn', disk', r, srv[r], c1, disk[r])
  BY <1>2, Now DEF Sets
<1>11. KeepsSlaves(srv, conn', r, srv[r]) /\ KeepsMaster(srv, conn[r], srv[r], c1, r)
  BY <1>4, <1>9 DEF KeepsSlaves, KeepsMaster
<1> QED BY <1>1, <1>2, <1>9, <1>10, <1>11, SameMarks, RecordSound


Fresh(s, new) == createReplicationBacklog(clearReplicationId2([s EXCEPT !.id = new]))

LEMMA FreshFields ==
  ASSUME NEW s, s \in Server, ~s.backlog, NEW new, new \in Nat \ {0}, NEW t, t = Fresh(s, new)
  PROVE  /\ t \in Server /\ t.host = s.host /\ t.state = s.state /\ t.cached = s.cached /\ t.id = new
         /\ t.id2 = None /\ t.off2 = -1 /\ t.off = s.off /\ t.data = s.data /\ t.backlog /\ t.buf = <<>>
<1> DEFINE z == None
           v == -1
           a == [s EXCEPT !.id = new]
           b == [a EXCEPT !.id2 = z, !.off2 = v]
<1>1. z \in Nat /\ v \in Nat \cup {-1} /\ z = None /\ v = -1
  BY DEF None
<1>2. t = createReplicationBacklog(b)
  BY DEF Fresh, clearReplicationId2
<1> HIDE DEF z, v
<1>4. /\ a \in Server /\ a.host = s.host /\ a.state = s.state /\ a.cached = s.cached /\ a.id = new
      /\ a.off = s.off /\ a.data = s.data /\ a.backlog = s.backlog
  BY DEF Server
<1> HIDE DEF a
<1>5. /\ b \in Server /\ b.host = a.host /\ b.state = a.state /\ b.cached = a.cached /\ b.id = a.id
      /\ b.id2 = z /\ b.off2 = v /\ b.off = a.off /\ b.data = a.data /\ b.backlog = a.backlog
  BY <1>1, <1>4 DEF Server
<1> HIDE DEF b
<1>6. /\ t \in Server /\ t.host = b.host /\ t.state = b.state /\ t.id = b.id /\ t.id2 = b.id2
      /\ t.off2 = b.off2 /\ t.off = b.off /\ t.cached = b.cached /\ t.data = b.data /\ t.backlog
      /\ t.buf = IF b.backlog THEN b.buf ELSE <<>>
  BY <1>2, <1>5, CreateFields
<1> QED BY <1>1, <1>4, <1>5, <1>6

\* The answer to a request for a full resynchronisation, from an instance with a backlog.
LEMMA FullStep ==
  ASSUME NEW S, NEW C, NEW D, NEW L \in Nat, NEW B, NEW K, Good(S, C, D, L, B, K),
         NEW r \in Nodes, NEW m \in Nodes, C[r].to = m, m # None, C[r].phase = "asked", S[m].backlog,
         NEW c1, c1 = Served(C[r], FullReply(S[m]), C[r].q), NEW C1, C1 = [C EXCEPT ![r] = c1]
  PROVE  Good(S, C1, D, L, B, K)
<1>1. /\ Node(r, S[r], C[r], D[r]) /\ Whole(At(S[r]), B, K) /\ S[r].id <= L
      /\ \A i \in 1 .. Len(D[r].data) : D[r].data[i] <= B
  BY GoodNode
<1>2. Local(S[m]) /\ At(S[m]) \in Backed(S)
  BY DEF Good, Backed
<1>3. /\ Evolves(r, S[r], C[r], D[r], S[r], c1, D[r], L, Backed(S)) /\ End(S[r], c1) = At(S[m])
      /\ c1.to = C[r].to
  <2>1. Node(r, S[r], C[r], D[r]) /\ C[r].to # None
    BY <1>1
  <2> QED BY <1>2, <2>1, FullNode
<1>4. Sets(S, C, D, S, C1, D, r, S[r], c1, D[r])
  BY DEF Sets, Good
<1>5. KeepsSlaves(S, C1, r, S[r]) /\ KeepsMaster(S, C[r], S[r], c1, r)
  BY <1>3 DEF KeepsSlaves, KeepsMaster
<1>6. L <= L
  OBVIOUS
<1> QED BY <1>1, <1>3, <1>4, <1>5, <1>6, RecordStep

\* The master that is asked gets a backlog, and a new ID.
LEMMA FreshStep ==
  ASSUME IInv, NEW m \in Nodes, srv[m].host = None, ~srv[m].backlog,
         NEW S1, S1 = [srv EXCEPT ![m] = Fresh(srv[m], NewId)]
  PROVE  Good(S1, conn, disk, NewId, count.write, Marks) /\ S1[m].backlog
<1>1. /\ Node(m, srv[m], conn[m], disk[m]) /\ Whole(At(srv[m]), count.write, Marks)
      /\ \A i \in 1 .. Len(disk[m].data) : disk[m].data[i] <= count.write
      /\ disk[m].id <= LastId /\ srv[m] \in Server /\ Link(m, srv[m], conn[m])
      /\ LastId \in Nat /\ NewId \in Nat \ {0} /\ LastId < NewId /\ LastId <= NewId
  BY NodeNow, FileNow, Now
<1> DEFINE s1 == Fresh(srv[m], NewId)
<1>2. /\ s1 \in Server /\ s1.host = srv[m].host /\ s1.state = srv[m].state /\ s1.cached = srv[m].cached
      /\ s1.id = NewId /\ s1.id2 = None /\ s1.off2 = -1 /\ s1.off = srv[m].off /\ s1.data = srv[m].data
      /\ s1.backlog /\ s1.buf = <<>>
  BY <1>1, FreshFields
<1>3. S1 = [srv EXCEPT ![m] = s1]
  OBVIOUS
<1> HIDE DEF s1
<1>4. s1.backlog = TRUE /\ s1.host = None
  BY <1>2 DEF Server
<1>5. Evolves(m, srv[m], conn[m], disk[m], s1, conn[m], disk[m], LastId, Backed(srv))
  BY <1>1, <1>2, <1>4, NewHistoryNode
<1>6. ~IsEnd(conn[m])
  BY <1>1, MasterUnlinked
<1>7. Sets(srv, conn, disk, S1, conn, disk, m, s1, conn[m], disk[m])
  BY <1>3, Now DEF Sets
<1>8. KeepsSlaves(srv, conn, m, s1) /\ KeepsMaster(srv, conn[m], s1, conn[m], m)
  BY <1>6, NoBacklogNoSlaves DEF KeepsSlaves, KeepsMaster
<1>9. Whole(At(s1), count.write, Marks) /\ s1.id <= NewId
  BY <1>1, <1>2, SameWhole
<1>10. Good(S1, conn, disk, NewId, count.write, Marks)
  BY <1>1, <1>5, <1>7, <1>8, <1>9, Now, RecordStep
<1>11. S1[m] = s1
  BY <1>3, Now
<1> QED BY <1>2, <1>10, <1>11

LEMMA FullResyncSound ==
  ASSUME IInv, NEW r \in Nodes, FullResync(r)
  PROVE  Sound'
<1> DEFINE m == conn[r].to
           fresh == Slaves(m) = {} /\ ~srv[m].backlog
<1>1. /\ m \in Nodes /\ m # None /\ m # r /\ conn[r].phase = "asked"
      /\ conn[r] \in Connection /\ Local(srv[m]) /\ AcceptsSync(conn[r])
  BY AskedOf DEF FullResync
<1>2. /\ srv' = [srv EXCEPT ![m] = IF fresh THEN Fresh(srv[m], NewId) ELSE srv[m]]
      /\ conn' = [conn EXCEPT ![r] = [conn[r] EXCEPT !.phase = "slave", !.reply = FullReply(srv'[m])]]
      /\ count' = (IF fresh THEN TookId ELSE count) /\ disk' = disk /\ cl' = cl
  BY <1>1, Now DEF FullResync, Fresh, FullReply, wvars
<1>3. [conn[r] EXCEPT !.phase = "slave", !.reply = FullReply(srv'[m])]
        = Served(conn[r], FullReply(srv'[m]), conn[r].q)
  <2> DEFINE a == FullReply(srv'[m])
             c == conn[r]
  <2> HIDE DEF a, c
  <2>1. c \in Connection
    BY <1>1 DEF c
  <2>2. [c EXCEPT !.phase = "slave", !.reply = a] = [c EXCEPT !.phase = "slave", !.reply = a, !.q = c.q]
    BY <2>1 DEF Connection
  <2> QED BY <2>2 DEF Served, a, c
<1>4. conn' = [conn EXCEPT ![r] = Served(conn[r], FullReply(srv'[m]), conn[r].q)]
  BY <1>2, <1>3
<1>5. count'.write = count.write
  BY <1>2, Now DEF TookId, CountType
<1>6. CASE fresh
  <2>1. srv[m].host = None
    BY <1>1, <1>6 DEF AcceptsSync, Local
  <2>2. srv' = [srv EXCEPT ![m] = Fresh(srv[m], NewId)]
    BY <1>2, <1>6
  <2>3. Good(srv', conn, disk, NewId, count.write, Marks) /\ srv'[m].backlog
    BY <1>1, <1>6, <2>1, <2>2, FreshStep
  <2>4. Good(srv', conn', disk, NewId, count.write, Marks)
    BY <1>1, <1>4, <2>3, Now, FullStep
  <2>5. count'.ids = count.ids + 1
    BY <1>2, <1>6, Now DEF TookId, CountType
  <2>6. LastId' = NewId
    BY <2>5, OneMoreId
  <2> QED BY <1>2, <1>5, <2>4, <2>6, SameMarks, SoundAfter
<1>7. CASE ~fresh
  <2>1. srv[m].backlog
    <3>1. CASE Slaves(m) # {}
      <4>1. PICK k \in Nodes : IsSlave(k, m)
        BY <3>1 DEF Slaves
      <4>2. Follows(conn, k, m)
        BY <1>1, <4>1, SlaveFollows
      <4> QED BY <1>1, <4>2, Now DEF Good, Attached
    <3> QED BY <1>7, <3>1
  <2>2. srv' = srv /\ count' = count
    BY <1>2, <1>7, Now
  <2>3. Good(srv, conn', disk, LastId, count.write, Marks)
    BY <1>1, <1>4, <2>1, <2>2, Now, FullStep
  <2>4. LastId' = LastId
    BY <2>2, SameIds
  <2> QED BY <1>2, <1>5, <2>2, <2>3, <2>4, SameMarks, SoundAfter
<1> QED BY <1>6, <1>7


LEMMA ReceiveByteSound ==
  ASSUME IInv, NEW r \in Nodes, ReceiveByte(r)
  PROVE  Sound'
<1> DEFINE w == Head(conn[r].q)
           t == FeedOf(srv[r], w)
           c0 == Shorter(conn[r])
           c1 == IF w = GetAck THEN Acked(c0, srv[r].off) ELSE c0
<1>1. /\ srv[r].state = "connected" /\ conn[r].q # <<>>
      /\ srv' = [srv EXCEPT ![r] = t] /\ conn' = [Fed(conn, r, w) EXCEPT ![r] = c1]
      /\ disk' = disk /\ cl' = cl /\ count' = count
  BY Now DEF ReceiveByte, Reads, FeedOf, Shorter, wvars
<1>2. c1 = c0 \/ c1 = WithAck(c0, srv[r].off)
  BY DEF Acked, WithAck
<1> HIDE DEF t, c0, c1
<1>3. /\ conn' = [n \in Nodes |-> conn'[n]] /\ conn'[r] = c1
      /\ \A k \in Nodes \ {r} : conn'[k] = IF IsSlave(k, r) THEN Longer(conn[k], w) ELSE conn[k]
  BY <1>1 DEF Fed, Longer
<1>4. \A k \in Nodes \ {r} : conn'[k] = IF Follows(conn, k, r) THEN Longer(conn[k], w) ELSE conn[k]
  BY <1>3, SlaveFollows
<1>5. Good(srv', conn', disk, LastId, count.write, Marks)
  <2> DEFINE o == srv[r].off
  <2>1. t = FeedOf(srv[r], w) /\ w = Head(conn[r].q)
    BY DEF t
  <2>2. o = srv[r].off /\ (c1 = Shorter(conn[r]) \/ c1 = WithAck(Shorter(conn[r]), o))
    BY <1>2 DEF c0
  <2>3. LastId \in Nat /\ Good(srv, conn, disk, LastId, count.write, Marks)
    BY Now
  <2> HIDE DEF w, o
  <2>4. Reading(srv, conn, srv', conn', r, w, o, t, c1)
    BY <1>1, <1>3, <1>4, <2>1, <2>2 DEF Reading
  <2> QED BY <2>3, <2>4, ByteStep
<1> QED BY <1>1, <1>5, SameIds, SameMarks, SoundAfter

Executed(s, w) == IF s.backlog THEN FeedOf(s, w) ELSE Applied(s, w)

\* A master executes a byte: with slaves or without, with a backlog or without.
LEMMA MasterStep ==
  ASSUME NEW S, NEW C, NEW D, NEW L \in Nat, NEW B, NEW K, Good(S, C, D, L, B, K), K \subseteq Mark,
         NEW r \in Nodes, NEW w \in Nat, S[r].host = None,
         NEW t, t = Executed(S[r], w),
         Fits(w, t.off, B, K), NEW S1, S1 = [S EXCEPT ![r] = t], NEW C1, C1 = FedOf(C, r, w)
  PROVE  Good(S1, C1, D, L, B, K)
<1>1. CASE S[r].backlog
  <2>1. t = FeedOf(S[r], w)
    BY <1>1 DEF Executed
  <2> QED BY <1>1, <2>1, MasterFeed
<1>2. CASE ~S[r].backlog
  <2>1. \A n \in Nodes : ~Follows(C, n, r)
    BY <1>2 DEF Good, Attached
  <2>2. C = [n \in Nodes |-> C[n]] /\ S[r] \in Server
    BY DEF Good, Local
  <2>3. C1 = C
    BY <2>1, <2>2 DEF FedOf
  <2>4. t = Applied(S[r], w)
    BY <1>2 DEF Executed
  <2>5. t.off = S[r].off
    BY <2>2, <2>4, AppliedFields
  <2>6. Fits(w, S[r].off, B, K)
    BY <2>5
  <2> QED BY <1>2, <2>3, <2>4, <2>6, UncountedWrite
<1> QED BY <1>1, <1>2

LEMMA FeedsBacked ==
  ASSUME IInv, NEW m \in Nodes
  PROVE  /\ Feeds(m) <=> srv[m].backlog
         /\ \A w : Fed(conn, m, w) = FedOf(conn, m, w)
<1>1. \A k \in Nodes : IsSlave(k, m) <=> Follows(conn, k, m)
  BY SlaveFollows
<1>2. \A k \in Nodes : Follows(conn, k, m) => srv[m].backlog
  BY Now DEF Good, Attached
<1>3. Feeds(m) <=> srv[m].backlog
  BY <1>1, <1>2 DEF Feeds, Slaves
<1>4. ASSUME NEW w
      PROVE  Fed(conn, m, w) = FedOf(conn, m, w)
  BY <1>1 DEF Fed, FedOf, Longer
<1> QED BY <1>3, <1>4

Marked(f, m, w, o, H) ==
  [c \in Clients |-> IF c = w /\ c \in H THEN [f[c] EXCEPT !.at = m, !.w = w, !.woff = o] ELSE f[c]]

\* The mark of the client that has made the write.
LEMMA WriteMarks ==
  ASSUME IInv, NEW m, NEW w \in Nat, count.write < w, NEW o \in Nat, NEW H, cl' = Marked(cl, m, w, o, H)
  PROVE  /\ \A k \in Marks' : k \in Marks \/ count.write < k.w
         /\ Marks' \subseteq Mark /\ Fits(w, o, w, Marks')
<1>1. /\ count.write \in Nat /\ w <= w
      /\ cl \in [Clients -> Person] /\ \A c \in Clients : cl[c].w <= count.write
      /\ Marks \subseteq Mark
  BY Now DEF WaitInv
<1>2. ASSUME NEW k \in Marks' PROVE k \in Marks \/ k = [w |-> w, woff |-> o]
  <2>1. PICK c \in Clients : cl'[c].w # None /\ k = [w |-> cl'[c].w, woff |-> cl'[c].woff]
    BY DEF Marks
  <2>2. CASE c = w /\ c \in H
    <3>1. cl'[c] = [cl[c] EXCEPT !.at = m, !.w = w, !.woff = o] /\ cl[c] \in Person
      BY <1>1, <2>2 DEF Marked
    <3>2. cl'[c].w = w /\ cl'[c].woff = o
      BY <3>1 DEF Person
    <3> QED BY <2>1, <3>2
  <2>3. CASE ~(c = w /\ c \in H)
    <3>1. cl'[c] = cl[c]
      BY <2>3 DEF Marked
    <3> QED BY <2>1, <3>1 DEF Marks
  <2> QED BY <2>2, <2>3
<1>3. \A k \in Marks : k.w <= count.write /\ k.w \in Nat
  BY <1>1 DEF Marks, Person
<1>4. \A k \in Marks' : k \in Marks \/ (k.w = w /\ k.woff = o /\ k \in Mark)
  BY <1>2 DEF Mark
<1>5. \A k \in Marks' : k.w = w => k.woff = o
  BY <1>1, <1>3, <1>4
<1>6. \A k \in Marks' : k.woff \in Nat
  BY <1>1, <1>4 DEF Mark
<1> QED BY <1>1, <1>4, <1>5, <1>6 DEF Fits

LEMMA WriteSound ==
  ASSUME IInv, NEW m \in Nodes, Write(m)
  PROVE  Sound'
<1> DEFINE w == count.write + 1
           t == Executed(srv[m], w)
           o == t.off
<1>1. /\ srv[m].host = None /\ srv' = [srv EXCEPT ![m] = t]
      /\ conn' = FedOf(conn, m, w)
      /\ cl' = Marked(cl, m, w, o, count.max.clients)
      /\ disk' = disk /\ count' = [count EXCEPT !.write = @ + 1]
  BY FeedsBacked DEF Write, FeedOf, Executed, Marked
<1>2. w \in Nat /\ count.write \in Nat /\ count.write <= w /\ count.write < w /\ srv[m] \in Server
  BY Now, NodeNow
<1>3. count'.write = w /\ count'.ids = count.ids
  BY <1>1, Now DEF CountType
<1> HIDE DEF w
<1>4. o \in Nat
  <2>1. srv[m].off \in Nat
    BY <1>2 DEF Server
  <2>2. CASE srv[m].backlog
    <3>1. t = FeedOf(srv[m], w)
      BY <2>2 DEF Executed
    <3>2. o = srv[m].off + 1
      BY <1>2, <3>1, FeedFields
    <3> QED BY <2>1, <3>2
  <2>3. CASE ~srv[m].backlog
    <3>1. t = Applied(srv[m], w)
      BY <2>3 DEF Executed
    <3> HIDE DEF t
    <3>3. srv[m] \in Server /\ w \in Nat
      BY <1>2
    <3>2. t.off = srv[m].off
      BY <3>1, <3>3, AppliedFields
    <3> QED BY <2>1, <3>2
  <2> QED BY <2>2, <2>3
<1>5. t = Executed(srv[m], w) /\ o = t.off
  OBVIOUS
<1> HIDE DEF t, o
<1>6. /\ \A k \in Marks' : k \in Marks \/ count.write < k.w
      /\ Marks' \subseteq Mark /\ Fits(w, o, w, Marks')
  BY <1>1, <1>2, <1>4, WriteMarks
<1>7. Good(srv, conn, disk, LastId, w, Marks')
  BY <1>2, <1>6, Now, GoodMarks
<1>8. Good(srv', conn', disk, LastId, w, Marks')
  BY <1>1, <1>2, <1>5, <1>6, <1>7, Now, MasterStep
<1>9. LastId' = LastId
  BY <1>3, SameIds
<1> QED BY <1>1, <1>3, <1>8, <1>9 DEF Sound


-----------------------------------------------------------------------------
(* Lemmas: the list of waiting clients.                                     *)

Queue(q) == q \in Seq(Clients) /\ IsInjective(q)

LEMMA QueueDef ==
  ASSUME NEW q \in Seq(Clients)
  PROVE  /\ DOMAIN q = 1..Len(q) /\ Len(q) \in Nat
         /\ \A c : c \in ToSet(q) <=> \E i \in 1..Len(q) : q[i] = c
         /\ IsInjective(q) <=> \A i, j \in 1..Len(q) : q[i] = q[j] => i = j
         /\ ToSet(q) \subseteq Clients
<1>1. DOMAIN q = 1..Len(q) /\ Len(q) \in Nat /\ \A i \in 1..Len(q) : q[i] \in Clients
  OBVIOUS
<1>2. \A c : c \in ToSet(q) <=> \E i \in 1..Len(q) : q[i] = c
  BY <1>1 DEF ToSet
<1>3. IsInjective(q) <=> \A i, j \in 1..Len(q) : q[i] = q[j] => i = j
  BY <1>1 DEF IsInjective
<1> QED  BY <1>1, <1>2, <1>3

LEMMA Appended ==
  ASSUME NEW q, Queue(q), NEW c \in Clients, c \notin ToSet(q)
  PROVE  Queue(Append(q, c)) /\ ToSet(Append(q, c)) = ToSet(q) \cup {c}
<1> DEFINE p == Append(q, c)
<1>1. q \in Seq(Clients) /\ IsInjective(q)
  BY DEF Queue
<1>2. p \in Seq(Clients)
  BY <1>1
<1>3. Len(p) = Len(q) + 1 /\ p[Len(p)] = c /\ \A i \in 1..Len(q) : p[i] = q[i]
  BY <1>1
<1>4. \A i \in 1..Len(p) : i # Len(p) => i \in 1..Len(q) /\ p[i] = q[i]
  BY <1>1, <1>3
<1> HIDE DEF p
<1>5. ToSet(p) = ToSet(q) \cup {c}
  <2>1. ASSUME NEW x \in ToSet(p) PROVE x \in ToSet(q) \cup {c}
    BY <1>1, <1>2, <1>3, <1>4, QueueDef
  <2>2. ASSUME NEW x \in ToSet(q) PROVE x \in ToSet(p)
    <3>1. PICK i \in 1..Len(q) : q[i] = x
      BY <1>1, QueueDef
    <3>2. i \in 1..Len(p) /\ p[i] = x
      BY <1>1, <1>3, <3>1
    <3> QED  BY <1>2, <3>2, QueueDef
  <2>3. c \in ToSet(p)
    <3>1. Len(p) \in 1..Len(p)
      BY <1>1, <1>3
    <3> QED  BY <1>2, <1>3, <3>1, QueueDef
  <2> QED  BY <2>1, <2>2, <2>3
<1>6. IsInjective(p)
  <2>1. SUFFICES ASSUME NEW i \in 1..Len(p), NEW j \in 1..Len(p), p[i] = p[j] PROVE i = j
    BY <1>2, QueueDef
  <2>2. \A n \in 1..Len(q) : q[n] # c
    BY <1>1, QueueDef
  <2>3. CASE i # Len(p) /\ j # Len(p)
    <3>1. q[i] = q[j] /\ i \in 1..Len(q) /\ j \in 1..Len(q)
      BY <1>4, <2>1, <2>3
    <3> QED  BY <1>1, <3>1, QueueDef
  <2>4. CASE i = Len(p) \/ j = Len(p)
    BY <1>3, <1>4, <2>1, <2>2, <2>4
  <2> QED  BY <2>3, <2>4
<1> QED  BY <1>2, <1>5, <1>6 DEF Queue, p

\* The number of elements of I before i.
Rank(I, i) == Cardinality({x \in I : x < i})

LEMMA IntervalSize ==
  ASSUME NEW b \in Nat
  PROVE  IsFiniteSet(0..(b - 1)) /\ Cardinality(0..(b - 1)) = b
<1> DEFINE a == 0
           c == b - 1
<1>1. c \in Int /\ a \in Int /\ b = c - a + 1 /\ (a > c => b = 0)
  OBVIOUS
<1>2. ASSUME NEW x \in Int, NEW y \in Int
      PROVE  IsFiniteSet(x..y) /\ Cardinality(x..y) = IF x > y THEN 0 ELSE y - x + 1
  BY FS_Interval
<1> HIDE DEF a, c
<1>3. IsFiniteSet(a..c) /\ Cardinality(a..c) = IF a > c THEN 0 ELSE c - a + 1
  BY <1>1, <1>2
<1>4. IsFiniteSet(a..c) /\ Cardinality(a..c) = b
  BY <1>1, <1>3
<1> QED  BY <1>4 DEF a, c

LEMMA RankGrows ==
  ASSUME NEW I, I \subseteq Nat, IsFiniteSet(I), NEW i \in I, NEW j \in I, i < j
  PROVE  Rank(I, i) < Rank(I, j)
<1> DEFINE A == {x \in I : x < i}
           B == {x \in I : x < j}
<1>1. IsFiniteSet(A) /\ IsFiniteSet(B)
  BY FS_Subset
<1>2. i \notin A /\ A \cup {i} \subseteq B
  <2>1. i \in Nat /\ j \in Nat
    OBVIOUS
  <2>2. ASSUME NEW x \in A PROVE x \in B
    <3>1. x \in I /\ x < i /\ x \in Nat
      OBVIOUS
    <3> QED  BY <2>1, <3>1
  <2>3. i \notin A /\ i \in B
    BY <2>1
  <2> HIDE DEF A, B
  <2> QED  BY <2>2, <2>3
<1>3. Rank(I, i) = Cardinality(A) /\ Rank(I, j) = Cardinality(B)
  BY DEF Rank
<1> HIDE DEF A, B
<1>4. IsFiniteSet(A \cup {i}) /\ Cardinality(A \cup {i}) = Cardinality(A) + 1
  BY <1>1, <1>2, FS_AddElement
<1>5. Cardinality(A \cup {i}) <= Cardinality(B)
  BY <1>1, <1>2, FS_Subset
<1>6. Cardinality(A) \in Nat /\ Cardinality(B) \in Nat
  BY <1>1, FS_CardinalityType
<1> QED  BY <1>3, <1>4, <1>5, <1>6

LEMMA RankInRange ==
  ASSUME NEW I, I \subseteq Nat, IsFiniteSet(I), NEW i \in I
  PROVE  Rank(I, i) \in 0..(Cardinality(I) - 1)
<1> DEFINE A == {x \in I : x < i}
<1>1. A \subseteq I \ {i}
  OBVIOUS
<1>2. Rank(I, i) = Cardinality(A)
  BY DEF Rank
<1> HIDE DEF A
<1>3. IsFiniteSet(I \ {i}) /\ Cardinality(I \ {i}) = Cardinality(I) - 1
  BY FS_RemoveElement
<1>4. IsFiniteSet(A) /\ Cardinality(A) <= Cardinality(I) - 1
  BY <1>1, <1>3, FS_Subset
<1>5. Cardinality(A) \in Nat /\ Cardinality(I) \in Nat
  BY <1>4, FS_CardinalityType
<1> QED  BY <1>2, <1>4, <1>5

\* Every number below the size of I is the rank of one of its elements.
LEMMA NthExists ==
  ASSUME NEW I, I \subseteq Nat, IsFiniteSet(I), NEW n \in 1..Cardinality(I)
  PROVE  Nth(I, n) \in I /\ Rank(I, Nth(I, n)) = n - 1
<1> DEFINE k == Cardinality(I)
           T == 0..(k - 1)
           f == [i \in I |-> Rank(I, i)]
<1>1. k \in Nat
  BY FS_CardinalityType
<1>2. IsFiniteSet(T) /\ Cardinality(T) = k
  BY <1>1, IntervalSize
<1>3. f \in [I -> T]
  BY RankInRange
<1>4. \A i, j \in I : f[i] = f[j] => i = j
  <2>1. SUFFICES ASSUME NEW i \in I, NEW j \in I, i # j PROVE f[i] # f[j]
    OBVIOUS
  <2>2. i \in Nat /\ j \in Nat
    OBVIOUS
  <2>3. f[i] = Rank(I, i) /\ f[j] = Rank(I, j)
    OBVIOUS
  <2>4. Rank(I, i) \in 0..(Cardinality(I) - 1) /\ Rank(I, j) \in 0..(Cardinality(I) - 1)
    BY RankInRange
  <2>5. CASE i < j
    <3>1. Rank(I, i) < Rank(I, j)
      BY <2>5, RankGrows
    <3> QED  BY <1>1, <2>3, <2>4, <3>1
  <2>6. CASE j < i
    <3>1. Rank(I, j) < Rank(I, i)
      BY <2>6, RankGrows
    <3> QED  BY <1>1, <2>3, <2>4, <3>1
  <2> QED  BY <2>2, <2>5, <2>6, <2>1
<1> HIDE DEF f
<1>5. f \in Injection(I, T)
  BY <1>3, <1>4 DEF Injection, IsInjective
<1>6. f \in Surjection(I, T)
  BY <1>2, <1>5, FS_Injection
<1>7. \A t \in T : \E i \in I : f[i] = t
  BY <1>6 DEF Surjection
<1>8. n - 1 \in T
  BY <1>1
<1>9. \E i \in I : Rank(I, i) = n - 1
  BY <1>7, <1>8 DEF f
<1> QED  BY <1>9 DEF Nth, Rank

LEMMA NthOnto ==
  ASSUME NEW I, I \subseteq Nat, IsFiniteSet(I), NEW i \in I
  PROVE  \E n \in 1..Cardinality(I) : Nth(I, n) = i
<1> DEFINE n == Rank(I, i) + 1
<1>1. Cardinality(I) \in Nat
  BY FS_CardinalityType
<1>5. Rank(I, i) \in 0..(Cardinality(I) - 1)
  BY RankInRange
<1>2. n \in 1..Cardinality(I) /\ n - 1 = Rank(I, i)
  BY <1>1, <1>5
<1> HIDE DEF n
<1>3. Nth(I, n) \in I /\ Rank(I, Nth(I, n)) = Rank(I, i)
  BY <1>2, NthExists
<1> DEFINE j == Nth(I, n)
<1> HIDE DEF j
<1>4. j \in I /\ Rank(I, j) = Rank(I, i) /\ j \in Nat /\ i \in Nat
  BY <1>3 DEF j
<1>6. ~(i < j) /\ ~(j < i)
  <2>1. ~(Rank(I, i) < Rank(I, i))
    BY <1>1, <1>5
  <2>2. i < j => Rank(I, i) < Rank(I, j)
    BY <1>4, RankGrows
  <2>3. j < i => Rank(I, j) < Rank(I, i)
    BY <1>4, RankGrows
  <2> QED  BY <1>4, <2>1, <2>2, <2>3
<1>7. j = i
  BY <1>4, <1>6
<1> QED  BY <1>2, <1>7 DEF j

\* A part of a list of clients.
LEMMA Picked ==
  ASSUME NEW q, Queue(q), NEW I, I \subseteq DOMAIN q
  PROVE  /\ Queue(Pick(q, I))
         /\ \A c : c \in ToSet(Pick(q, I)) <=> \E i \in I : q[i] = c
<1> DEFINE k == Cardinality(I)
           p == Pick(q, I)
<1>1. q \in Seq(Clients) /\ IsInjective(q) /\ DOMAIN q = 1..Len(q) /\ Len(q) \in Nat
  BY QueueDef DEF Queue
<1>2. I \subseteq Nat /\ IsFiniteSet(I) /\ k \in Nat
  <2>1. IsFiniteSet(1..Len(q))
    BY <1>1, FS_Interval
  <2> QED  BY <1>1, <2>1, FS_Subset, FS_CardinalityType
<1>3. \A n \in 1..k : Nth(I, n) \in I /\ Rank(I, Nth(I, n)) = n - 1
  BY <1>2, NthExists
<1>4. p = [n \in 1..k |-> q[Nth(I, n)]]
  BY DEF Pick
<1>5. p \in Seq(Clients) /\ Len(p) = k
  <2>1. \A n \in 1..k : q[Nth(I, n)] \in Clients
    BY <1>1, <1>3
  <2> HIDE DEF p, k
  <2>2. p \in [1..k -> Clients]
    BY <1>4, <2>1
  <2> QED  BY <1>2, <2>2
<1> HIDE DEF p
<1>6. \A c : c \in ToSet(p) <=> \E i \in I : q[i] = c
  <2>1. ASSUME NEW c \in ToSet(p) PROVE \E i \in I : q[i] = c
    <3>1. PICK n \in 1..k : p[n] = c
      BY <1>5, QueueDef
    <3> QED  BY <1>3, <1>4, <3>1
  <2>2. ASSUME NEW c, NEW i \in I, q[i] = c PROVE c \in ToSet(p)
    <3>1. PICK n \in 1..k : Nth(I, n) = i
      BY <1>2, NthOnto
    <3>2. p[n] = c
      BY <1>4, <2>2, <3>1
    <3> QED  BY <1>5, <3>1, <3>2, QueueDef
  <2> QED  BY <2>1, <2>2
<1>7. IsInjective(p)
  <2>1. SUFFICES ASSUME NEW a \in 1..k, NEW b \in 1..k, p[a] = p[b] PROVE a = b
    BY <1>5, QueueDef
  <2>2. q[Nth(I, a)] = q[Nth(I, b)] /\ Nth(I, a) \in 1..Len(q) /\ Nth(I, b) \in 1..Len(q)
    BY <1>1, <1>3, <1>4, <2>1
  <2>3. Nth(I, a) = Nth(I, b)
    BY <1>1, <2>2, QueueDef
  <2>4. a - 1 = b - 1
    BY <1>3, <2>3
  <2> QED  BY <1>2, <2>4
<1> QED  BY <1>5, <1>6, <1>7 DEF Queue, p


-----------------------------------------------------------------------------
(* Lemmas: acknowledgements and copies.                                     *)

LEMMA NodesFinite == IsFiniteSet(Nodes)
<1>1. PICK m \in Nodes : \A n \in Nodes : n <= m
  BY PsyncAssumption
<1>2. m \in Int /\ 0 \in Int /\ Nodes \subseteq 0 .. m
  BY <1>1, PsyncAssumption
<1>3. IsFiniteSet(0 .. m)
  BY <1>2, FS_Interval
<1> QED BY <1>2, <1>3, FS_Subset

\* A slave that has acknowledged the offset of a write that its master has, has it.
LEMMA AckedHas ==
  ASSUME IInv, NEW m \in Nodes, NEW r \in Nodes, IsSlave(r, m), NEW k \in Marks, k.woff > 0,
         conn[r].ack >= k.woff, k.w \in ToSet(srv[m].data)
  PROVE  r # m /\ k.w \in ToSet(srv[r].data)
<1>1. /\ Link(r, srv[r], conn[r]) /\ conn[r] \in Connection /\ srv[r] \in Server /\ srv[m] \in Server
      /\ k.woff \in Nat /\ Whole(At(srv[m]), count.write, Marks)
  BY NodeNow, Now DEF Mark
<1>2. Follows(conn, r, m)
  BY SlaveFollows
<1>3. conn[r].to = m /\ conn[r].phase = "slave" /\ m # None
  BY <1>2, NodeNow DEF Follows
<1>4. r # m /\ Receives(srv[r], conn[r])
  BY <1>1, <1>3 DEF Link
<1>5. conn[r].ack \in Nat /\ conn[r].ack # 0
  BY <1>1 DEF Connection
<1>6. conn[r].reply = NoReply /\ conn[r].ack <= srv[r].off
  BY <1>4, <1>5 DEF Receives
<1>7. End(srv[r], conn[r]) = At(srv[m])
  BY <1>2, Now DEF Good, Attached
<1> DEFINE x == srv[r].data
           y == srv[m].data
           q == conn[r].q
           o == srv[r].off
           p == srv[m].off
           a == conn[r].ack
           f == k.woff
<1>8. x \in Seq(Nat) /\ y \in Seq(Nat) /\ q \in Seq(Nat) /\ o \in Nat /\ p \in Nat /\ a \in Nat /\ f \in Nat
  BY <1>1 DEF Server, Connection
<1>9. y = x \o q /\ p = o + Len(q)
  <2>1. Base(srv[r], conn[r]) = At(srv[r])
    BY <1>6 DEF Base, At, NoReply
  <2>2. End(srv[r], conn[r]) = PointOf(srv[r].id, o + Len(q), x \o q)
    BY <2>1, EndOf
  <2>3. At(srv[m]) = PointOf(srv[m].id, p, y)
    BY DEF At, PointOf
  <2>4. PointOf(srv[r].id, o + Len(q), x \o q).off = o + Len(q) /\ PointOf(srv[r].id, o + Len(q), x \o q).data = x \o q
    BY DEF PointOf
  <2>5. PointOf(srv[m].id, p, y).off = p /\ PointOf(srv[m].id, p, y).data = y
    BY DEF PointOf
  <2> QED BY <1>7, <2>2, <2>3, <2>4, <2>5
<1>17. k.w \in ToSet(y)
  OBVIOUS
<1>18. DOMAIN y = 1 .. Len(y)
  BY <1>8
<1> HIDE DEF y
<1>10. PICK i \in 1 .. Len(y) : y[i] = k.w
  BY <1>17, <1>18 DEF ToSet
<1> USE DEF y
<1>11. i - (Len(y) - p) <= f
  BY <1>1, <1>10 DEF Whole, At
<1>12. a <= o /\ f <= a
  BY <1>6
<1> HIDE DEF x, y, q, o, p, a, f
<1>13. Len(x) \in Nat /\ Len(q) \in Nat /\ Len(y) = Len(x) + Len(q) /\ \A j \in 1 .. Len(x) : y[j] = x[j]
  BY <1>8, <1>9, ConcatProperties
<1>14. i \in 1 .. Len(x)
  BY <1>8, <1>9, <1>10, <1>11, <1>12, <1>13
<1>15. k.w = x[i] /\ DOMAIN x = 1 .. Len(x)
  BY <1>8, <1>10, <1>13, <1>14
<1>16. k.w \in ToSet(x)
  BY <1>14, <1>15 DEF ToSet
<1> QED BY <1>4, <1>16 DEF x

\* The number of slaves that have acknowledged a write is right for its client.
LEMMA CopiesBound ==
  ASSUME IInv, NEW c \in Clients, cl[c].at \in Nodes, cl[c].w # None,
         NEW A, A \subseteq Slaves(cl[c].at), \A r \in A : conn[r].ack >= cl[c].woff
  PROVE  CountsCopies(cl[c], Cardinality(A))
<1> DEFINE m == cl[c].at
           had == {n \in Nodes : cl[c].w \in ToSet(srv[n].data)}
           k == [w |-> cl[c].w, woff |-> cl[c].woff]
<1>1. k \in Marks /\ k.w = cl[c].w /\ k.woff = cl[c].woff
  BY DEF Marks
<1>2. ASSUME cl[c].woff > 0, m \in had PROVE Cardinality(A) <= Cardinality(had \ {m})
  <2>1. ASSUME NEW r \in A PROVE r \in had \ {m}
    <3>1. r \in Nodes /\ IsSlave(r, m)
      BY DEF Slaves
    <3>2. conn[r].ack >= k.woff /\ k.woff > 0 /\ k.w \in ToSet(srv[m].data)
      BY <1>1, <1>2
    <3> HIDE DEF k
    <3>3. r # m /\ k.w \in ToSet(srv[r].data)
      BY <1>1, <3>1, <3>2, AckedHas
    <3> QED BY <1>1, <3>1, <3>3
  <2>2. IsFiniteSet(had \ {m})
    BY NodesFinite, FS_Subset
  <2>3. A \subseteq had \ {m}
    BY <2>1
  <2> HIDE DEF had, m
  <2> QED BY <2>2, <2>3, FS_Subset
<1> QED BY <1>2 DEF CountsCopies

\* A client that has got its answer, or is gone.
Done == [Client EXCEPT !.st = "done"]

LEMMA DoneFields ==
  /\ Done \in Person /\ Done.st = "done" /\ Done.at = None /\ Done.w = None /\ Done.woff = 0
BY DEF Done, Client, Person, None

LEMMA RepliedDone ==
  ASSUME NEW k, NEW n, CountsCopies(k, n)
  PROVE  Replied(k, n) = Done
BY DEF Replied, Done


-----------------------------------------------------------------------------
(* The actions keep the waiting clients in their lists.                     *)

AckLists == [Nodes -> [waiting : Seq(Clients), get : BOOLEAN]]

\* The clients in gone get their answers, or are disconnected.
Leaves(gone) == [c \in Clients |-> IF c \in gone THEN Done ELSE cl[c]]

\* Who waits.
LEMMA WaitersNow ==
  ASSUME IInv, NEW n \in Nodes
  PROVE  /\ Queue(acks[n].waiting) /\ acks[n].waiting \in Seq(Clients)
         /\ acks[n].waiting # <<>> => srv[n].host = None
         /\ \A c : c \in ToSet(acks[n].waiting) <=> c \in Clients /\ cl[c].st = "blocked" /\ cl[c].at = n
<1>1. acks \in AckLists /\ WaitersAtMasters
  BY Now DEF WaitInv, AckLists
<1>2. acks[n].waiting \in Seq(Clients)
  BY <1>1 DEF AckLists
<1> QED BY <1>1, <1>2 DEF WaitersAtMasters, Queue

LEMMA WaitersLeave ==
  ASSUME IInv, NEW gone, cl' = Leaves(gone), acks' \in AckLists, count'.write = count.write,
         \A n \in Nodes :
           /\ Queue(acks'[n].waiting)
           /\ acks'[n].waiting # <<>> => srv'[n].host = None
           /\ \A c : c \in ToSet(acks'[n].waiting) <=> c \in ToSet(acks[n].waiting) /\ c \notin gone
  PROVE  WaitInv'
<1>1. /\ cl \in [Clients -> Person]
      /\ \A c \in Clients : cl[c].at # None => c <= count.write /\ cl[c].w # None
      /\ \A c \in Clients : cl[c].w <= count.write
      /\ \A c \in Clients : cl[c].st = "blocked" => cl[c].at # None
      /\ count.write \in Nat
  BY Now DEF WaitInv
<1>2. /\ \A c \in Clients : cl'[c] = IF c \in gone THEN Done ELSE cl[c]
      /\ cl' = [c \in Clients |-> cl'[c]]
  BY DEF Leaves
<1>3. /\ Done \in Person /\ Done.st # "blocked" /\ Done.at = None /\ Done.w <= count.write
  BY <1>1, DoneFields DEF None
<1>4. cl' \in [Clients -> Person]
  BY <1>1, <1>2, <1>3
<1>5. /\ \A c \in Clients : cl'[c].at # None => c <= count.write /\ cl'[c].w # None
      /\ \A c \in Clients : cl'[c].w <= count.write
      /\ \A c \in Clients : cl'[c].st = "blocked" => cl'[c].at # None
  BY <1>1, <1>2, <1>3
<1>6. ASSUME NEW n \in Nodes
      PROVE  /\ acks'[n].waiting # <<>> => srv'[n].host = None
             /\ ToSet(acks'[n].waiting) = {c \in Clients : cl'[c].st = "blocked" /\ cl'[c].at = n}
             /\ IsInjective(acks'[n].waiting)
  <2>1. \A c : c \in ToSet(acks'[n].waiting) <=> c \in Clients /\ cl'[c].st = "blocked" /\ cl'[c].at = n
    <3> SUFFICES ASSUME NEW c
                 PROVE  c \in ToSet(acks'[n].waiting) <=> c \in Clients /\ cl'[c].st = "blocked" /\ cl'[c].at = n
      OBVIOUS
    <3>1. c \in ToSet(acks'[n].waiting) <=> c \in ToSet(acks[n].waiting) /\ c \notin gone
      OBVIOUS
    <3>2. c \in ToSet(acks[n].waiting) <=> c \in Clients /\ cl[c].st = "blocked" /\ cl[c].at = n
      BY WaitersNow
    <3>3. c \in Clients => cl'[c] = IF c \in gone THEN Done ELSE cl[c]
      BY <1>2
    <3> QED BY <1>3, <3>1, <3>2, <3>3
  <2>2. IsInjective(acks'[n].waiting)
    BY DEF Queue
  <2> QED BY <2>1, <2>2
<1>7. WaitersAtMasters'
  BY <1>6 DEF WaitersAtMasters
<1> QED BY <1>4, <1>5, <1>7 DEF WaitInv, AckLists

\* Nobody begins or ceases to wait.
LEMMA WaitersStay ==
  ASSUME IInv, cl' = cl, acks' = acks, count'.write = count.write,
         \A n \in Nodes : srv[n].host = None => srv'[n].host = None
  PROVE  WaitInv'
<1>1. cl \in [Clients -> Person] /\ acks \in AckLists
  BY Now DEF WaitInv, AckLists
<1>2. cl' = Leaves({})
  BY <1>1 DEF Leaves
<1>3. ASSUME NEW n \in Nodes
      PROVE  /\ Queue(acks'[n].waiting)
             /\ acks'[n].waiting # <<>> => srv'[n].host = None
             /\ \A c : c \in ToSet(acks'[n].waiting) <=> c \in ToSet(acks[n].waiting) /\ c \notin {}
  BY WaitersNow
<1> QED BY <1>1, <1>2, <1>3, WaitersLeave

LEMMA EmptyQueue == Queue(<<>>) /\ ToSet(<<>>) = {}
BY DEF Queue, ToSet, IsInjective

\* The clients that wait in r are gone.
LEMMA NobodyWaits ==
  ASSUME IInv, NEW r \in Nodes, NEW gone, cl' = Dropped(gone), acks' \in AckLists,
         acks'[r].waiting = <<>>, \A n \in Nodes \ {r} : acks'[n] = acks[n],
         ToSet(acks[r].waiting) \subseteq gone,
         \A c \in gone : c \in Clients /\ cl[c].at = r, count'.write = count.write,
         \A n \in Nodes \ {r} : srv'[n] = srv[n]
  PROVE  WaitInv'
<1>1. cl' = Leaves(gone)
  BY DEF Dropped, Leaves, Done
<1>2. ASSUME NEW n \in Nodes
      PROVE  /\ Queue(acks'[n].waiting)
             /\ acks'[n].waiting # <<>> => srv'[n].host = None
             /\ \A c : c \in ToSet(acks'[n].waiting) <=> c \in ToSet(acks[n].waiting) /\ c \notin gone
  <2>1. CASE n = r
    BY <2>1, EmptyQueue
  <2>2. CASE n # r
    <3>1. acks'[n] = acks[n] /\ srv'[n] = srv[n]
      BY <2>2
    <3>2. \A c : c \in ToSet(acks[n].waiting) => c \notin gone
      BY <2>2, WaitersNow
    <3> QED BY <3>1, <3>2, WaitersNow
  <2> QED BY <2>1, <2>2
<1> QED BY <1>1, <1>2, WaitersLeave

Emptied(f, r) == [f EXCEPT ![r].waiting = <<>>]
Restarted(f, r) == [f EXCEPT ![r].waiting = <<>>, ![r].get = FALSE]

\* The list of r is emptied, and perhaps nobody is asked any more.
LEMMA NobodyListed ==
  ASSUME NEW r \in Nodes, NEW f, f \in AckLists, NEW g, g = Emptied(f, r) \/ g = Restarted(f, r)
  PROVE  g \in AckLists /\ g[r].waiting = <<>> /\ \A n \in Nodes \ {r} : g[n] = f[n]
<1> USE DEF Emptied, Restarted
<1> DEFINE z == <<>>
           a == f[r]
           b == [a EXCEPT !.waiting = z]
           d == [b EXCEPT !.get = FALSE]
<1>1. z \in Seq(Clients) /\ a \in [waiting : Seq(Clients), get : BOOLEAN] /\ z = <<>>
  BY DEF AckLists
<1>2. g = [f EXCEPT ![r] = b] \/ g = [f EXCEPT ![r] = d]
  BY DEF AckLists
<1> HIDE DEF z, a
<1>3. b \in [waiting : Seq(Clients), get : BOOLEAN] /\ b.waiting = z
  BY <1>1
<1> HIDE DEF b
<1>4. d \in [waiting : Seq(Clients), get : BOOLEAN] /\ d.waiting = z
  BY <1>3
<1> HIDE DEF d
<1>5. g[r].waiting = z /\ (\A n \in Nodes \ {r} : g[n] = f[n]) /\ g \in AckLists
  BY <1>2, <1>3, <1>4 DEF AckLists
<1> QED BY <1>1, <1>5

LEMMA ReplicaofWait ==
  ASSUME IInv, NEW r \in Nodes, NEW m, replicaof(r, m)
  PROVE  WaitInv'
<1>1. /\ cl' = Dropped(ToSet(acks[r].waiting)) /\ acks' = Emptied(acks, r)
      /\ \A n \in Nodes \ {r} : srv'[n] = srv[n]
      /\ count' = [count EXCEPT !.role = @ + 1]
  BY Now DEF replicaof, NoneWaits, Emptied
<1>2. acks \in AckLists /\ count'.write = count.write
  BY <1>1, Now DEF WaitInv, AckLists, CountType
<1>3. acks' \in AckLists /\ acks'[r].waiting = <<>> /\ \A n \in Nodes \ {r} : acks'[n] = acks[n]
  BY <1>1, <1>2, NobodyListed
<1>4. \A c \in ToSet(acks[r].waiting) : c \in Clients /\ cl[c].at = r
  BY WaitersNow
<1> QED BY <1>1, <1>2, <1>3, <1>4, NobodyWaits

LEMMA RestartWait ==
  ASSUME IInv, NEW r \in Nodes, Restart(r)
  PROVE  WaitInv'
<1> DEFINE gone == {c \in Clients : cl[c].at = r}
<1>1. /\ cl' = Dropped(gone) /\ acks' = Restarted(acks, r)
      /\ \A n \in Nodes \ {r} : srv'[n] = srv[n]
      /\ count' = [TookId EXCEPT !.restart = @ + 1]
  <2>1. acks \in AckLists
    BY Now DEF WaitInv, AckLists
  <2>2. acks' = Restarted(acks, r)
    BY <2>1 DEF Restart, NoneWaits, Restarted, AckLists
  <2> QED BY <2>2, Now DEF Restart
<1>2. acks \in AckLists /\ count'.write = count.write
  BY <1>1, Now DEF WaitInv, AckLists, CountType, TookId
<1>3. acks' \in AckLists /\ acks'[r].waiting = <<>> /\ \A n \in Nodes \ {r} : acks'[n] = acks[n]
  BY <1>1, <1>2, NobodyListed
<1>4. ToSet(acks[r].waiting) \subseteq gone
  BY WaitersNow
<1>5. \A c \in gone : c \in Clients /\ cl[c].at = r
  OBVIOUS
<1> HIDE DEF gone
<1> QED BY <1>1, <1>2, <1>3, <1>4, <1>5, NobodyWaits


LEMMA MarkedFields ==
  ASSUME NEW f, f \in [Clients -> Person], NEW m \in Nodes, NEW w \in Nat, NEW o \in Nat, NEW H, NEW g,
         g = Marked(f, m, w, o, H), NEW c \in Clients
  PROVE  /\ g[c] \in Person /\ g[c].st = f[c].st
         /\ g[c] = f[c] \/ (c = w /\ g[c].at = m /\ g[c].w = w)
<1>1. CASE c = w /\ c \in H
  <2>1. g[c] = [f[c] EXCEPT !.at = m, !.w = w, !.woff = o] /\ f[c] \in Person
    BY <1>1 DEF Marked
  <2> DEFINE a == f[c]
             b == [a EXCEPT !.at = m, !.w = w]
             d == [b EXCEPT !.woff = o]
  <2>2. g[c] = d /\ a \in Person
    BY <2>1
  <2> HIDE DEF a
  <2>3. b \in Person /\ b.st = a.st /\ b.at = m /\ b.w = w
    BY <2>2 DEF Person
  <2> HIDE DEF b
  <2>4. d \in Person /\ d.st = b.st /\ d.at = b.at /\ d.w = b.w
    BY <2>3 DEF Person
  <2> HIDE DEF d
  <2> QED BY <1>1, <2>2, <2>3, <2>4 DEF a
<1>2. CASE ~(c = w /\ c \in H)
  BY <1>2 DEF Marked
<1> QED BY <1>1, <1>2

LEMMA WriteWait ==
  ASSUME IInv, NEW m \in Nodes, Write(m)
  PROVE  WaitInv'
<1>1. PICK o \in Nat : cl' = Marked(cl, m, count.write + 1, o, count.max.clients)
  <2> DEFINE w == count.write + 1
             t == IF Feeds(m) THEN feedReplicationBacklog(Applied(srv[m], w), w) ELSE Applied(srv[m], w)
  <2>1. cl' = Marked(cl, m, w, t.off, count.max.clients)
    BY DEF Write, Marked
  <2>2. w \in Nat /\ srv[m] \in Server
    BY Now, NodeNow
  <2> HIDE DEF w
  <2>3. srv[m].off \in Nat
    BY <2>2 DEF Server
  <2>4. FeedOf(srv[m], w).off = srv[m].off + 1
    BY <2>2, FeedFields
  <2>5. Applied(srv[m], w).off = srv[m].off
    BY <2>2, AppliedFields
  <2>6. t.off \in Nat
    BY <2>3, <2>4, <2>5 DEF FeedOf
  <2> HIDE DEF t
  <2> QED BY <2>1, <2>6 DEF w
<1> DEFINE w == count.write + 1
<1>2. /\ cl \in [Clients -> Person] /\ acks \in AckLists
      /\ \A c \in Clients : cl[c].at # None => c <= count.write /\ cl[c].w # None
      /\ \A c \in Clients : cl[c].w <= count.write
      /\ \A c \in Clients : cl[c].st = "blocked" => cl[c].at # None
      /\ count.write \in Nat /\ m # None /\ Clients \subseteq Nat \ {None}
  BY Now, NodeNow, PsyncAssumption DEF WaitInv, AckLists
<1>3. /\ count' = [count EXCEPT !.write = @ + 1] /\ acks' = acks
      /\ \A n \in Nodes \ {m} : srv'[n] = srv[n]
      /\ srv[m].host = None
  BY Now DEF Write
<1>4. count'.write = w /\ w \in Nat
  BY <1>2, <1>3, Now DEF CountType
<1>5. cl' = Marked(cl, m, w, o, count.max.clients)
  BY <1>1
<1>6. \A c \in Clients : cl[c].at = m /\ c = w => FALSE
  BY <1>2
<1>7. \A c \in Clients : cl[c].w \in Nat /\ cl[c].at # None => c # w
  BY <1>2
<1>8. \A c \in Clients : (cl[c].w \in Nat => cl[c].w <= w) /\ (c <= count.write => c <= w)
  BY <1>2
<1>9. w <= w /\ w # None
  BY <1>2 DEF None
<1> HIDE DEF w
<1>10. ASSUME NEW c \in Clients
       PROVE  /\ cl'[c] \in Person /\ cl'[c].st = cl[c].st
              /\ cl'[c] = cl[c] \/ (c = w /\ cl'[c].at = m /\ cl'[c].w = w)
  <2> DEFINE f == cl
             g == cl'
             H == count.max.clients
  <2>1. f \in [Clients -> Person] /\ w \in Nat /\ g = Marked(f, m, w, o, H)
    BY <1>2, <1>4, <1>5
  <2> HIDE DEF f, g, H
  <2>2. g[c] \in Person /\ g[c].st = f[c].st /\ (g[c] = f[c] \/ (c = w /\ g[c].at = m /\ g[c].w = w))
    BY <2>1, MarkedFields
  <2> QED BY <2>2 DEF f, g
<1>11. cl' \in [Clients -> Person] /\ \A c \in Clients : cl[c].w \in Nat
  <2>1. cl' = [c \in Clients |-> cl'[c]]
    BY <1>5 DEF Marked
  <2> QED BY <1>2, <1>10, <2>1 DEF Person
<1>12. ASSUME NEW c \in Clients
       PROVE  /\ cl'[c].at # None => c <= w /\ cl'[c].w # None
              /\ cl'[c].w <= w
              /\ cl'[c].st = "blocked" => cl'[c].at # None
  BY <1>2, <1>8, <1>9, <1>10, <1>11
<1>13. ASSUME NEW c \in Clients, NEW n \in Nodes
       PROVE  cl'[c].st = "blocked" /\ cl'[c].at = n <=> cl[c].st = "blocked" /\ cl[c].at = n
  BY <1>2, <1>7, <1>10, <1>11, <1>12
<1>14. srv'[m].host = None
  <2>1. srv[m] \in Server /\ w \in Nat
    BY <1>4, NodeNow
  <2>2. srv'[m] = FeedOf(srv[m], w) \/ srv'[m] = Applied(srv[m], w)
    BY Now DEF Write, FeedOf, w
  <2>3. FeedOf(srv[m], w).host = srv[m].host
    BY <2>1, FeedFields
  <2>4. Applied(srv[m], w).host = srv[m].host
    BY <2>1, AppliedFields
  <2> QED BY <1>3, <2>2, <2>3, <2>4
<1>15. WaitersAtMasters'
  <2> SUFFICES ASSUME NEW n \in Nodes
               PROVE  /\ acks'[n].waiting # <<>> => srv'[n].host = None
                      /\ ToSet(acks'[n].waiting) = {c \in Clients : cl'[c].st = "blocked" /\ cl'[c].at = n}
                      /\ IsInjective(acks'[n].waiting)
    BY DEF WaitersAtMasters
  <2>1. /\ Queue(acks[n].waiting) /\ (acks[n].waiting # <<>> => srv[n].host = None)
        /\ \A c : c \in ToSet(acks[n].waiting) <=> c \in Clients /\ cl[c].st = "blocked" /\ cl[c].at = n
    BY WaitersNow
  <2>2. ToSet(acks[n].waiting) = {c \in Clients : cl'[c].st = "blocked" /\ cl'[c].at = n}
    BY <1>13, <2>1
  <2> QED BY <1>3, <1>14, <2>1, <2>2 DEF Queue
<1> QED BY <1>2, <1>3, <1>4, <1>11, <1>12, <1>15 DEF WaitInv, AckLists


\* The number that WAIT counts is right for the client.
LEMMA OwnCounts ==
  ASSUME IInv, NEW c \in Clients, cl[c].at \in Nodes, NEW l \in Clients, cl[l].at = cl[c].at,
         cl[l].woff >= cl[c].woff
  PROVE  CountsCopies(cl[c], Own(l))
<1> DEFINE A == {r \in Slaves(cl[l].at) : conn[r].ack >= cl[l].woff}
<1>1. Own(l) = Cardinality(A)
  BY DEF Own, replicationCountAcksByOffset
<1>2. cl \in [Clients -> Person] /\ cl[c].at # None /\ cl[c].w # None
  BY Now, NodeNow DEF WaitInv
<1>3. cl[c].woff \in Nat /\ cl[l].woff \in Nat
  BY <1>2 DEF Person
<1>4. ASSUME NEW r \in A PROVE conn[r].ack >= cl[c].woff
  <2>1. r \in Nodes /\ conn[r].ack >= cl[l].woff
    BY DEF Slaves
  <2>2. conn[r].ack \in Nat
    BY <2>1, NodeNow DEF Connection
  <2> QED BY <1>3, <2>1, <2>2
<1>5. A \subseteq Slaves(cl[c].at)
  OBVIOUS
<1> HIDE DEF A
<1>6. CountsCopies(cl[c], Cardinality(A))
  BY <1>2, <1>4, <1>5, CopiesBound
<1> QED BY <1>1, <1>6

LEMMA LeftMarks ==
  ASSUME IInv, NEW gone, cl' = Leaves(gone)
  PROVE  Marks' \subseteq Marks
<1>1. \A c \in Clients : cl'[c] = cl[c] \/ cl'[c].w = None
  BY DoneFields DEF Leaves
<1> QED BY <1>1 DEF Marks

LEMMA WaitRepliesStep ==
  ASSUME IInv, NEW c \in Clients, WaitReplies(c)
  PROVE  Sound' /\ WaitInv'
<1>1. /\ cl[c].st = "idle" /\ cl[c].at # None /\ cl \in [Clients -> Person] /\ acks \in AckLists
      /\ UNCHANGED <<srv, conn, disk, acks, count>>
      /\ cl' = [cl EXCEPT ![c] = Replied(cl[c], Own(c))]
  BY Now DEF WaitReplies, Own, WaitInv, AckLists
<1>2. cl[c].at \in Nodes /\ cl[c].woff \in Nat
  BY <1>1 DEF Person
<1>3. cl[c].woff >= cl[c].woff
  BY <1>2
<1>4. Replied(cl[c], Own(c)) = Done
  BY <1>2, <1>3, OwnCounts, RepliedDone
<1>5. cl' = Leaves({c})
  BY <1>1, <1>4 DEF Leaves
<1>6. ASSUME NEW n \in Nodes
      PROVE  /\ Queue(acks'[n].waiting)
             /\ acks'[n].waiting # <<>> => srv'[n].host = None
             /\ \A d : d \in ToSet(acks'[n].waiting) <=> d \in ToSet(acks[n].waiting) /\ d \notin {c}
  <2>1. c \notin ToSet(acks[n].waiting)
    BY <1>1, WaitersNow
  <2> QED BY <1>1, <2>1, WaitersNow
<1>7. WaitInv'
  BY <1>1, <1>5, <1>6, WaitersLeave
<1>8. Good(srv', conn', disk', LastId', count.write, Marks)
  BY <1>1, Now, SameIds
<1>9. Sound'
  BY <1>1, <1>5, <1>8, LeftMarks, SoundAfter
<1> QED BY <1>7, <1>9

LEMMA WaitBlocksStep ==
  ASSUME IInv, NEW c \in Clients, NEW need \in Nat, WaitBlocks(c, need)
  PROVE  Sound' /\ WaitInv'
<1> DEFINE m == cl[c].at
<1>1. /\ cl[c].st = "idle" /\ m # None /\ cl \in [Clients -> Person] /\ acks \in AckLists
      /\ srv[m].host = None /\ UNCHANGED <<srv, conn, disk, count>>
      /\ cl' = [cl EXCEPT ![c] = [cl[c] EXCEPT !.st = "blocked", !.need = need]]
      /\ acks' = [acks EXCEPT ![m] = [waiting |-> Append(acks[m].waiting, c), get |-> TRUE]]
  BY Now DEF WaitBlocks, WaitInv, AckLists
<1>2. /\ m \in Nodes /\ cl[c] \in Person
      /\ \A d \in Clients : cl[d].at # None => d <= count.write /\ cl[d].w # None
      /\ \A d \in Clients : cl[d].w <= count.write
      /\ \A d \in Clients : cl[d].st = "blocked" => cl[d].at # None
  BY <1>1, Now DEF Person, WaitInv
<1> DEFINE b == [cl[c] EXCEPT !.st = "blocked", !.need = need]
<1>3. /\ b \in Person /\ b.st = "blocked" /\ b.at = m /\ b.w = cl[c].w /\ b.woff = cl[c].woff
  BY <1>2 DEF Person
<1>4. cl' = [cl EXCEPT ![c] = b]
  BY <1>1
<1> HIDE DEF b
<1>5. /\ cl' \in [Clients -> Person]
      /\ \A d \in Clients : /\ cl'[d].at = cl[d].at /\ cl'[d].w = cl[d].w /\ cl'[d].woff = cl[d].woff
                            /\ cl'[d].st = IF d = c THEN "blocked" ELSE cl[d].st
  BY <1>1, <1>3, <1>4
<1>6. /\ Queue(acks[m].waiting) /\ c \notin ToSet(acks[m].waiting)
  BY <1>1, <1>2, WaitersNow
<1> DEFINE q == Append(acks[m].waiting, c)
<1>7. Queue(q) /\ ToSet(q) = ToSet(acks[m].waiting) \cup {c} /\ q \in Seq(Clients)
  BY <1>6, Appended DEF Queue
<1>8. acks' = [acks EXCEPT ![m] = [waiting |-> q, get |-> TRUE]]
  BY <1>1
<1> HIDE DEF q
<1>9. acks' \in AckLists /\ acks'[m].waiting = q /\ \A n \in Nodes \ {m} : acks'[n] = acks[n]
  BY <1>1, <1>2, <1>7, <1>8 DEF AckLists
<1>10. ASSUME NEW n \in Nodes
       PROVE  /\ acks'[n].waiting # <<>> => srv'[n].host = None
              /\ ToSet(acks'[n].waiting) = {d \in Clients : cl'[d].st = "blocked" /\ cl'[d].at = n}
              /\ IsInjective(acks'[n].waiting)
  <2>1. /\ Queue(acks[n].waiting) /\ (acks[n].waiting # <<>> => srv[n].host = None)
        /\ \A d : d \in ToSet(acks[n].waiting) <=> d \in Clients /\ cl[d].st = "blocked" /\ cl[d].at = n
    BY WaitersNow
  <2>2. CASE n = m
    <3>1. \A d : d \in ToSet(q) <=> d \in Clients /\ cl'[d].st = "blocked" /\ cl'[d].at = n
      BY <1>5, <1>7, <2>1, <2>2
    <3> QED BY <1>1, <1>7, <1>9, <2>2, <3>1 DEF Queue
  <2>3. CASE n # m
    <3>1. \A d : d \in ToSet(acks[n].waiting) <=> d \in Clients /\ cl'[d].st = "blocked" /\ cl'[d].at = n
      BY <1>5, <2>1, <2>3
    <3> QED BY <1>1, <1>9, <2>1, <2>3, <3>1 DEF Queue
  <2> QED BY <2>2, <2>3
<1>11. WaitersAtMasters'
  BY <1>10 DEF WaitersAtMasters
<1>12. WaitInv'
  BY <1>1, <1>2, <1>5, <1>9, <1>11 DEF WaitInv, AckLists
<1>13. Good(srv', conn', disk', LastId', count.write, Marks)
  BY <1>1, Now, SameIds
<1>14. Marks' \subseteq Marks
  BY <1>5 DEF Marks
<1>15. Sound'
  BY <1>1, <1>13, <1>14, SoundAfter
<1> QED BY <1>12, <1>15


LEMMA LastExists ==
  ASSUME NEW S, S \subseteq Nat, IsFiniteSet(S), NEW i \in Nat, \E j \in S : j < i
  PROVE  \E j \in S : j < i /\ \A k \in S : k < i => k <= j
<1> DEFINE I == {j \in S : j < i}
           n == Cardinality(I)
           j == Nth(I, n)
<1>1. I \subseteq Nat /\ IsFiniteSet(I)
  BY FS_Subset
<1>2. I # {}
  OBVIOUS
<1> HIDE DEF I
<1>3. n \in Nat /\ n # 0
  BY <1>1, <1>2, FS_CardinalityType, FS_EmptySet
<1>4. n \in 1 .. n
  BY <1>3
<1>5. j \in I /\ Rank(I, j) = n - 1
  BY <1>1, <1>4, NthExists
<1>6. ASSUME NEW k \in I PROVE k <= j
  <2>1. k \in Nat /\ j \in Nat /\ j \in I
    BY <1>1, <1>5
  <2> HIDE DEF j
  <2>2. Rank(I, k) \in 0 .. (Cardinality(I) - 1)
    BY <1>1, RankInRange
  <2>3. j < k => Rank(I, j) < Rank(I, k)
    BY <1>1, <2>1, RankGrows
  <2>4. Rank(I, j) = n - 1
    BY <1>5 DEF j
  <2>5. ~(j < k)
    BY <1>3, <2>2, <2>3, <2>4
  <2> QED BY <2>1, <2>5
<1> HIDE DEF j
<1> QED BY <1>5, <1>6 DEF I

LEMMA LastCountedIn ==
  ASSUME NEW ws, Queue(ws), NEW S, S \subseteq DOMAIN ws, NEW i \in DOMAIN ws, LastCounted(ws, S, i) # None
  PROVE  \E j \in S : LastCounted(ws, S, i) = ws[j]
<1>1. ws \in Seq(Clients) /\ DOMAIN ws = 1 .. Len(ws) /\ Len(ws) \in Nat
  BY QueueDef DEF Queue
<1>2. S \subseteq Nat /\ IsFiniteSet(S) /\ i \in Nat
  <2>1. IsFiniteSet(1 .. Len(ws))
    BY <1>1, FS_Interval
  <2> QED BY <1>1, <2>1, FS_Subset
<1>3. \E j \in S : j < i
  BY DEF LastCounted
<1>4. \E j \in S : j < i /\ \A k \in S : k < i => k <= j
  BY <1>2, <1>3, LastExists
<1> DEFINE x == CHOOSE j \in S : j < i /\ \A k \in S : k < i => k <= j
<1>5. x \in S
  BY <1>4
<1>6. LastCounted(ws, S, i) = ws[x]
  BY <1>3 DEF LastCounted
<1> HIDE DEF x
<1> QED BY <1>5, <1>6

\* The number that a client gets, its own or that of another one, is right for it.
LEMMA NumberCounts ==
  ASSUME IInv, NEW m \in Nodes, NEW ws, Queue(ws), ToSet(ws) \subseteq ToSet(acks[m].waiting),
         NEW S, S \subseteq DOMAIN ws, NEW i \in Unblocked(ws, S)
  PROVE  /\ i \in DOMAIN ws /\ ws[i] \in ToSet(ws)
         /\ CountsCopies(cl[ws[i]], Number(ws, S, i))
<1>1. /\ ws \in Seq(Clients) /\ DOMAIN ws = 1 .. Len(ws)
      /\ \A c : c \in ToSet(ws) <=> \E j \in 1 .. Len(ws) : ws[j] = c
  BY QueueDef DEF Queue
<1>2. \A j \in DOMAIN ws : ws[j] \in ToSet(ws) /\ ws[j] \in Clients /\ cl[ws[j]].at = m
  BY <1>1, WaitersNow
<1>3. \A c \in Clients : cl[c].woff \in Nat
  BY Now DEF WaitInv, Person
<1>4. i \in DOMAIN ws
  BY DEF Unblocked
<1> DEFINE c == ws[i]
<1>5. c \in Clients /\ cl[c].at = m /\ c \in ToSet(ws) /\ cl[c].woff \in Nat
  BY <1>2, <1>3, <1>4
<1>6. CASE i \in S
  <2>1. Number(ws, S, i) = Own(c)
    BY <1>6 DEF Number
  <2> HIDE DEF c
  <2>2. cl[c].woff >= cl[c].woff
    BY <1>5
  <2>3. CountsCopies(cl[c], Own(c))
    BY <1>5, <2>2, OwnCounts
  <2> QED BY <1>4, <1>5, <2>1, <2>3 DEF c
<1>7. CASE i \notin S
  <2> DEFINE l == LastCounted(ws, S, i)
  <2>1. Number(ws, S, i) = Own(l)
    BY <1>7 DEF Number
  <2>2. Covers(l, c)
    BY <1>7 DEF Unblocked
  <2>3. l # None /\ cl[l].woff > cl[c].woff
    BY <2>2 DEF Covers
  <2>4. \E j \in S : l = ws[j]
    BY <1>4, <2>3, LastCountedIn
  <2>5. l \in Clients /\ cl[l].at = m
    BY <1>2, <2>4
  <2> HIDE DEF l, c
  <2>6. cl[l].woff >= cl[c].woff /\ cl[l].at = cl[c].at
    BY <1>3, <1>5, <2>3, <2>5
  <2>7. CountsCopies(cl[c], Own(l))
    BY <1>5, <2>5, <2>6, OwnCounts
  <2> QED BY <1>4, <1>5, <2>1, <2>7 DEF c
<1> QED BY <1>6, <1>7


\* Whether REPLCONF GETACK is fed to the slaves of m in this step.
Asked(m, ask) ==
  /\ srv' = IF ask /\ Feeds(m)
            THEN [srv EXCEPT ![m] = feedReplicationBacklog(Applied(@, GetAck), GetAck)] ELSE srv
  /\ conn' = IF ask THEN Fed(conn, m, GetAck) ELSE conn

\* The byte that is REPLCONF GETACK is nobody's write.
LEMMA AskedGood ==
  ASSUME IInv, NEW m \in Nodes, NEW ask, ask => srv[m].host = None, Asked(m, ask)
  PROVE  /\ Good(srv', conn', disk, LastId, count.write, Marks)
         /\ \A n \in Nodes : srv'[n].host = srv[n].host
<1>1. /\ Feeds(m) <=> srv[m].backlog
      /\ Fed(conn, m, GetAck) = FedOf(conn, m, GetAck)
  BY FeedsBacked
<1>2. Good(srv, conn, disk, LastId, count.write, Marks) /\ srv[m] \in Server /\ LastId \in Nat /\ Marks \subseteq Mark
  BY Now, NodeNow
<1>3. CASE ask /\ srv[m].backlog
  <2> DEFINE t == FeedOf(srv[m], GetAck)
  <2>1. srv' = [srv EXCEPT ![m] = t] /\ conn' = FedOf(conn, m, GetAck) /\ srv[m].host = None
    BY <1>1, <1>3 DEF Asked, FeedOf
  <2>2. GetAck \in Nat /\ GetAck <= count.write
    BY Now DEF GetAck
  <2>3. \A k \in Marks : k.w # GetAck
    BY DEF Marks, None, GetAck
  <2>4. t.host = srv[m].host
    BY <1>2, <2>2, FeedFields
  <2> HIDE DEF t
  <2>5. Fits(GetAck, t.off, count.write, Marks)
    BY <2>2, <2>3 DEF Fits
  <2>6. Good(srv', conn', disk, LastId, count.write, Marks)
    BY <1>2, <1>3, <2>1, <2>2, <2>5, MasterFeed DEF t
  <2>7. \A n \in Nodes : srv'[n].host = srv[n].host
    BY <2>1, <2>4, Now
  <2> QED BY <2>6, <2>7
<1>4. CASE ~(ask /\ srv[m].backlog)
  <2>1. srv' = srv
    BY <1>1, <1>4 DEF Asked
  <2>2. conn' = conn
    <3>1. CASE ask
      <4>1. \A n \in Nodes : ~Follows(conn, n, m)
        BY <1>2, <1>4, <3>1 DEF Good, Attached
      <4>2. FedOf(conn, m, GetAck) = conn
        BY <4>1, Now DEF FedOf
      <4> QED BY <1>1, <3>1, <4>2 DEF Asked
    <3>2. CASE ~ask
      BY <3>2 DEF Asked
    <3> QED BY <3>1, <3>2
  <2> QED BY <1>2, <2>1, <2>2
<1> QED BY <1>3, <1>4

\* What becomes of the clients that wait in m, when those at the places S are counted for.
Counts(m, late, ws, S) ==
  LET U == Unblocked(ws, S)
      at(c) == CHOOSE i \in U : ws[i] = c
  IN
  /\ processClientsWaitingReplicas(ws, S)
  /\ cl' = [c \in Clients |->
       CASE c \in late -> Replied(cl[c], Own(c))
         [] c \in {ws[i] : i \in U} -> Replied(cl[c], Number(ws, S, at(c)))
         [] OTHER -> cl[c]]
  /\ acks' = [acks EXCEPT ![m] = [waiting |-> Pick(ws, DOMAIN ws \ U), get |-> FALSE]]

\* Those that are unblocked get numbers that are right, the others go on waiting.
LEMMA CountsLeave ==
  ASSUME IInv, NEW m \in Nodes, NEW late, late \subseteq ToSet(acks[m].waiting),
         NEW ws, Queue(ws), \A c : c \in ToSet(ws) <=> c \in ToSet(acks[m].waiting) /\ c \notin late,
         NEW S, S \subseteq DOMAIN ws, Counts(m, late, ws, S)
  PROVE  \E gone : /\ cl' = Leaves(gone) /\ acks' \in AckLists
                   /\ \A n \in Nodes : n # m => acks'[n] = acks[n] /\ ToSet(acks[n].waiting) \cap gone = {}
                   /\ Queue(acks'[m].waiting)
                   /\ \A c : c \in ToSet(acks'[m].waiting) <=> c \in ToSet(acks[m].waiting) /\ c \notin gone
<1> DEFINE U == Unblocked(ws, S)
           served == {ws[i] : i \in U}
           gone == late \cup served
           rest == Pick(ws, DOMAIN ws \ U)
<1>1. \A i \in U : i \in DOMAIN ws /\ ws[i] \in ToSet(ws) /\ CountsCopies(cl[ws[i]], Number(ws, S, i))
  BY NumberCounts
<1>2. \A c \in ToSet(acks[m].waiting) : c \in Clients /\ cl[c].at = m /\ cl[c].woff >= cl[c].woff
  <2>1. \A c \in Clients : cl[c].woff \in Nat
    BY Now DEF WaitInv, Person
  <2> QED BY <2>1, WaitersNow
<1>3. \A c \in late : Replied(cl[c], Own(c)) = Done
  <2> SUFFICES ASSUME NEW c \in late PROVE Replied(cl[c], Own(c)) = Done
    OBVIOUS
  <2>1. c \in Clients /\ cl[c].at = m /\ cl[c].woff >= cl[c].woff
    BY <1>2
  <2>2. CountsCopies(cl[c], Own(c))
    BY <2>1, OwnCounts
  <2> QED BY <2>2, RepliedDone
<1>4. \A c \in served : Replied(cl[c], Number(ws, S, CHOOSE i \in U : ws[i] = c)) = Done
  <2> SUFFICES ASSUME NEW c \in served
               PROVE  Replied(cl[c], Number(ws, S, CHOOSE i \in U : ws[i] = c)) = Done
    OBVIOUS
  <2> DEFINE x == CHOOSE i \in U : ws[i] = c
  <2>1. x \in U /\ ws[x] = c
    OBVIOUS
  <2> HIDE DEF x
  <2>2. CountsCopies(cl[c], Number(ws, S, x))
    BY <1>1, <2>1
  <2>3. Replied(cl[c], Number(ws, S, x)) = Done
    BY <2>2, RepliedDone
  <2> QED BY <2>3 DEF x
<1>5. cl' = Leaves(gone)
  <2>1. cl' = [c \in Clients |->
       CASE c \in late -> Replied(cl[c], Own(c))
         [] c \in served -> Replied(cl[c], Number(ws, S, CHOOSE i \in U : ws[i] = c))
         [] OTHER -> cl[c]]
    BY DEF Counts
  <2> HIDE DEF U, served
  <2> QED BY <1>3, <1>4, <2>1 DEF Leaves
<1>6. DOMAIN ws \ U \subseteq DOMAIN ws
  OBVIOUS
<1>7. Queue(rest) /\ \A c : c \in ToSet(rest) <=> \E i \in DOMAIN ws \ U : ws[i] = c
  BY <1>6, Picked
<1>8. acks' = [acks EXCEPT ![m] = [waiting |-> rest, get |-> FALSE]]
  BY DEF Counts
<1>9. \A c : c \in ToSet(rest) <=> c \in ToSet(ws) /\ c \notin served
  <2>1. /\ DOMAIN ws = 1 .. Len(ws) /\ \A c : c \in ToSet(ws) <=> \E i \in 1 .. Len(ws) : ws[i] = c
        /\ \A i, j \in 1 .. Len(ws) : ws[i] = ws[j] => i = j
    BY QueueDef DEF Queue
  <2> HIDE DEF U, rest
  <2> QED BY <1>1, <1>7, <2>1
<1> HIDE DEF rest
<1>10. acks \in AckLists /\ rest \in Seq(Clients)
  BY <1>7, Now DEF Queue, AckLists, WaitInv
<1>11. acks' \in AckLists /\ acks'[m].waiting = rest /\ \A n \in Nodes : n # m => acks'[n] = acks[n]
  BY <1>8, <1>10 DEF AckLists
<1>12. gone \subseteq ToSet(acks[m].waiting)
  BY <1>1
<1>13. \A n \in Nodes : n # m => ToSet(acks[n].waiting) \cap gone = {}
  <2> HIDE DEF gone
  <2> QED BY <1>12, WaitersNow
<1>14. \A c : c \in ToSet(rest) <=> c \in ToSet(acks[m].waiting) /\ c \notin gone
  <2> HIDE DEF served
  <2> QED BY <1>9
<1> HIDE DEF gone
<1> QED BY <1>5, <1>7, <1>11, <1>13, <1>14

LEMMA BeforeSleepStep ==
  ASSUME IInv, NEW m \in Nodes, NEW late, late \subseteq ToSet(acks[m].waiting), beforeSleep(m, late)
  PROVE  Sound' /\ WaitInv'
<1> DEFINE all == acks[m].waiting
           I == {i \in DOMAIN all : all[i] \notin late}
           ws == Pick(all, I)
           ask == acks[m].get /\ srv[m].host = None
<1>1. Asked(m, ask) /\ disk' = disk /\ count' = count /\ \E S \in SUBSET DOMAIN ws : Counts(m, late, ws, S)
  BY DEF beforeSleep, Asked, Counts
<1>2. Queue(all) /\ I \subseteq DOMAIN all
  BY WaitersNow
<1>3. Queue(ws) /\ \A c : c \in ToSet(ws) <=> \E i \in I : all[i] = c
  BY <1>2, Picked
<1> HIDE DEF ws
<1>4. \A c : c \in ToSet(ws) <=> c \in ToSet(all) /\ c \notin late
  <2>1. DOMAIN all = 1 .. Len(all) /\ \A c : c \in ToSet(all) <=> \E i \in 1 .. Len(all) : all[i] = c
    BY <1>2, QueueDef DEF Queue
  <2> HIDE DEF all
  <2> QED BY <1>3, <2>1
<1>5. PICK S : S \subseteq DOMAIN ws /\ Counts(m, late, ws, S)
  BY <1>1
<1>6. PICK gone :
        /\ cl' = Leaves(gone) /\ acks' \in AckLists
        /\ \A n \in Nodes : n # m => acks'[n] = acks[n] /\ ToSet(acks[n].waiting) \cap gone = {}
        /\ Queue(acks'[m].waiting)
        /\ \A c : c \in ToSet(acks'[m].waiting) <=> c \in ToSet(acks[m].waiting) /\ c \notin gone
  BY <1>3, <1>4, <1>5, CountsLeave
<1>7. /\ Good(srv', conn', disk, LastId, count.write, Marks)
      /\ \A n \in Nodes : srv'[n].host = srv[n].host
  BY <1>1, AskedGood
<1> HIDE DEF all, I, ask
<1>8. ASSUME NEW n \in Nodes
      PROVE  /\ Queue(acks'[n].waiting)
             /\ acks'[n].waiting # <<>> => srv'[n].host = None
             /\ \A c : c \in ToSet(acks'[n].waiting) <=> c \in ToSet(acks[n].waiting) /\ c \notin gone
  <2>1. /\ Queue(acks[n].waiting) /\ acks[n].waiting \in Seq(Clients)
        /\ acks[n].waiting # <<>> => srv[n].host = None
    BY WaitersNow
  <2>2. CASE n = m
    <3>1. acks'[m].waiting # <<>> => acks[m].waiting # <<>>
      <4>1. SUFFICES ASSUME acks[m].waiting = <<>> PROVE acks'[m].waiting = <<>>
        OBVIOUS
      <4>2. \A c : c \notin ToSet(acks'[m].waiting)
        BY <1>6, <4>1, EmptyQueue
      <4>3. acks'[m].waiting \in Seq(Clients)
        BY <1>6 DEF Queue
      <4> DEFINE q == acks'[m].waiting
      <4>4. q \in Seq(Clients) /\ \A c : c \notin ToSet(q)
        BY <4>2, <4>3
      <4> HIDE DEF q
      <4>5. \A i \in 1 .. Len(q) : FALSE
        BY <4>4, QueueDef
      <4>6. Len(q) = 0
        BY <4>4, <4>5
      <4>7. q = <<>>
        BY <4>4, <4>6
      <4> QED BY <4>7 DEF q
    <3> QED BY <1>6, <1>7, <2>1, <2>2, <3>1
  <2>3. CASE n # m
    BY <1>6, <1>7, <2>1, <2>3
  <2> QED BY <2>2, <2>3
<1>9. count'.write = count.write /\ LastId' = LastId
  BY <1>1, SameIds
<1>10. WaitInv'
  BY <1>6, <1>8, <1>9, WaitersLeave
<1>11. Marks' \subseteq Marks
  BY <1>6, LeftMarks
<1>12. Sound'
  BY <1>1, <1>7, <1>9, <1>11, SoundAfter
<1> QED BY <1>10, <1>12


\* No client waits in a replica, whatever it does.
LEMMA ReplicaWaits ==
  ASSUME IInv, NEW r \in Nodes, srv[r].host # None \/ srv'[r].host = None,
         \A n \in Nodes \ {r} : srv'[n] = srv[n], cl' = cl, acks' = acks, count'.write = count.write
  PROVE  WaitInv'
<1>1. \A n \in Nodes : srv[n].host = None => srv'[n].host = None
  OBVIOUS
<1> QED BY <1>1, WaitersStay

LEMMA LinkedIsReplica ==
  ASSUME IInv, NEW r \in Nodes
  PROVE  /\ srv[r].state # "none" => srv[r].host # None
         /\ conn[r].to # None => srv[r].host # None /\ srv[r].state # "none"
<1>1. Local(srv[r]) /\ Link(r, srv[r], conn[r])
  BY NodeNow
<1> QED BY <1>1 DEF Local, Link, None

\* The steps of a replica with its connection.
LEMMA ReplicaStepsWait ==
  ASSUME IInv, NEW r \in Nodes,
         \/ SendPsync(r) \/ ReceiveContinue(r) \/ ReceiveFullresync(r) \/ readSyncBulkPayload(r)
         \/ ReceiveByte(r) \/ SeeClose(r) \/ LoadFails(r) \/ LinkDown(r)
  PROVE  WaitInv'
<1>1. srv[r].state # "none" \/ conn[r].to # None
  BY DEF SendPsync, ReceiveContinue, ReceiveFullresync, readSyncBulkPayload, ReceiveByte, SeeClose, LoadFails,
         LinkDown, Reads
<1>2. \A n \in Nodes \ {r} : srv'[n] = srv[n]
  BY Now DEF SendPsync, ReceiveContinue, ReceiveFullresync, readSyncBulkPayload, ReceiveByte, SeeClose,
             LoadFails, LinkDown
<1>3. cl' = cl /\ acks' = acks
  BY DEF SendPsync, ReceiveContinue, ReceiveFullresync, readSyncBulkPayload, ReceiveByte, SeeClose, LoadFails,
         LinkDown, wvars
<1>4. count'.write = count.write
  BY Now DEF SendPsync, ReceiveContinue, ReceiveFullresync, readSyncBulkPayload, ReceiveByte, SeeClose,
             LoadFails, LinkDown, CountType
<1> QED BY <1>1, <1>2, <1>3, <1>4, LinkedIsReplica, ReplicaWaits

\* The steps that leave the instances as they are.
LEMMA LinkStepsWait ==
  ASSUME IInv, NEW r \in Nodes,
         RefusePsync(r) \/ PartialResync(r) \/ replicationSendAck(r) \/ SaveRdb(r)
  PROVE  WaitInv'
<1>1. srv' = srv /\ cl' = cl /\ acks' = acks /\ count'.write = count.write
  BY DEF RefusePsync, PartialResync, replicationSendAck, SaveRdb, wvars
<1> QED BY <1>1, WaitersStay

LEMMA UnsetMasterWait ==
  ASSUME IInv, NEW r \in Nodes, replicationUnsetMaster(r)
  PROVE  WaitInv'
<1>1. /\ srv[r].host # None /\ cl' = cl /\ acks' = acks
      /\ \A n \in Nodes \ {r} : srv'[n] = srv[n]
      /\ count' = [TookId EXCEPT !.role = @ + 1]
  BY Now DEF replicationUnsetMaster, wvars
<1>2. count'.write = count.write
  BY <1>1, Now DEF CountType, TookId
<1> QED BY <1>1, <1>2, ReplicaWaits

LEMMA CronWait ==
  ASSUME IInv, NEW r \in Nodes, replicationCron(r)
  PROVE  WaitInv'
<1>1. /\ srv[r].host = None /\ cl' = cl /\ acks' = acks /\ srv'[r] = FreedBacklog(srv[r], NewId)
      /\ \A n \in Nodes \ {r} : srv'[n] = srv[n]
      /\ count' = [TookId EXCEPT !.free = @ + 1]
  BY Now DEF replicationCron, wvars
<1>2. count'.write = count.write
  BY <1>1, Now DEF CountType, TookId
<1>3. srv[r] \in Server /\ NewId \in Nat \ {0}
  BY NodeNow, Now
<1>4. srv'[r].host = None
  BY <1>1, <1>3, FreedFields
<1> QED BY <1>1, <1>2, <1>4, ReplicaWaits

LEMMA FullResyncWait ==
  ASSUME IInv, NEW r \in Nodes, FullResync(r)
  PROVE  WaitInv'
<1> DEFINE m == conn[r].to
           fresh == Slaves(m) = {} /\ ~srv[m].backlog
<1>1. /\ m # None /\ cl' = cl /\ acks' = acks
      /\ srv' = [srv EXCEPT ![m] = IF fresh THEN Fresh(srv[m], NewId) ELSE srv[m]]
      /\ count' = IF fresh THEN TookId ELSE count
  BY DEF FullResync, AcceptsSync, wvars, Fresh
<1>2. count'.write = count.write
  BY <1>1, Now DEF CountType, TookId
<1>3. conn[r] \in Connection /\ m \in Nodes
  BY <1>1, NodeNow DEF Connection
<1>4. srv[m] \in Server /\ NewId \in Nat \ {0}
  BY <1>3, NodeNow, Now
<1> HIDE DEF m
<1>5. fresh => Fresh(srv[m], NewId).host = srv[m].host
  BY <1>4, FreshFields
<1>6. \A n \in Nodes : srv'[n].host = srv[n].host
  BY <1>1, <1>3, <1>5, Now
<1> QED BY <1>1, <1>2, <1>6, WaitersStay

-----------------------------------------------------------------------------
(* The invariant is inductive.                                              *)

\* The counters only grow.
LEMMA CountsTyped ==
  ASSUME count \in CountType,
         \/ count' = count \/ count' = TookId
         \/ count' = [count EXCEPT !.write = @ + 1] \/ count' = [count EXCEPT !.role = @ + 1]
         \/ count' = [count EXCEPT !.drop = @ + 1] \/ count' = [TookId EXCEPT !.role = @ + 1]
         \/ count' = [TookId EXCEPT !.free = @ + 1] \/ count' = [TookId EXCEPT !.restart = @ + 1]
  PROVE  count' \in CountType
<1>1. TookId \in CountType
  BY DEF TookId, CountType
<1> HIDE DEF TookId
<1> QED BY <1>1 DEF CountType

LEMMA BoundsAreNodes ==
  ASSUME IInv
  PROVE  /\ count.max.nodes \subseteq Nodes /\ count.max.hosts \subseteq Nodes
         /\ count.max.clients \subseteq Clients
BY Now, PsyncAssumption DEF CountType

LEMMA Inductive == IInv /\ [Next]_vars => IInv'
<1> SUFFICES ASSUME IInv, [Next]_vars PROVE IInv'
  OBVIOUS
<1>1. count \in CountType /\ count.max.nodes \subseteq Nodes /\ count.max.hosts \subseteq Nodes
      /\ count.max.clients \subseteq Clients
  BY Now, BoundsAreNodes
<1>2. SUFFICES count' \in CountType /\ Sound' /\ WaitInv'
  BY DEF IInv
<1>3. ASSUME NEW r \in Nodes, Progress(r)
      PROVE  count' \in CountType /\ Sound' /\ WaitInv'
  <2>1. CASE SendPsync(r)
    <3>1. count' = count
      BY <2>1 DEF SendPsync
    <3> QED BY <1>1, <2>1, <3>1, CountsTyped, SendPsyncSound, ReplicaStepsWait
  <2>2. CASE RefusePsync(r)
    <3>1. count' = count
      BY <2>2 DEF RefusePsync
    <3> QED BY <1>1, <2>2, <3>1, CountsTyped, RefusePsyncSound, LinkStepsWait
  <2>3. CASE PartialResync(r)
    <3>1. count' = count
      BY <2>3 DEF PartialResync
    <3> QED BY <1>1, <2>3, <3>1, CountsTyped, PartialResyncSound, LinkStepsWait
  <2>4. CASE FullResync(r)
    <3>1. count' = count \/ count' = TookId
      BY <2>4 DEF FullResync
    <3> QED BY <1>1, <2>4, <3>1, CountsTyped, FullResyncSound, FullResyncWait
  <2>5. CASE ReceiveContinue(r)
    <3>1. count' = count
      BY <2>5 DEF ReceiveContinue
    <3> QED BY <1>1, <2>5, <3>1, CountsTyped, ReceiveContinueSound, ReplicaStepsWait
  <2>6. CASE ReceiveFullresync(r)
    <3>1. count' = count
      BY <2>6 DEF ReceiveFullresync
    <3> QED BY <1>1, <2>6, <3>1, CountsTyped, ReceiveFullresyncSound, ReplicaStepsWait
  <2>7. CASE readSyncBulkPayload(r)
    <3>1. count' = count
      BY <2>7 DEF readSyncBulkPayload
    <3> QED BY <1>1, <2>7, <3>1, CountsTyped, BulkPayloadSound, ReplicaStepsWait
  <2>8. CASE ReceiveByte(r)
    <3>1. count' = count
      BY <2>8 DEF ReceiveByte
    <3> QED BY <1>1, <2>8, <3>1, CountsTyped, ReceiveByteSound, ReplicaStepsWait
  <2>9. CASE SeeClose(r)
    <3>1. count' = count
      BY <2>9 DEF SeeClose
    <3> QED BY <1>1, <2>9, <3>1, CountsTyped, UnlinkSound, ReplicaStepsWait
  <2>10. CASE replicationSendAck(r)
    <3>1. count' = count
      BY <2>10 DEF replicationSendAck
    <3> QED BY <1>1, <2>10, <3>1, CountsTyped, SendAckSound, LinkStepsWait
  <2> QED BY <1>3, <2>1, <2>2, <2>3, <2>4, <2>5, <2>6, <2>7, <2>8, <2>9, <2>10 DEF Progress
<1>4. ASSUME NEW r \in Nodes, Write(r) \/ replicationUnsetMaster(r) \/ replicationCron(r)
      PROVE  count' \in CountType /\ Sound' /\ WaitInv'
  <2>1. CASE Write(r)
    <3>1. count' = [count EXCEPT !.write = @ + 1]
      BY <2>1 DEF Write
    <3> QED BY <1>1, <2>1, <3>1, CountsTyped, WriteSound, WriteWait
  <2>2. CASE replicationUnsetMaster(r)
    <3>1. count' = [TookId EXCEPT !.role = @ + 1]
      BY <2>2 DEF replicationUnsetMaster
    <3> QED BY <1>1, <2>2, <3>1, CountsTyped, UnsetMasterSound, UnsetMasterWait
  <2>3. CASE replicationCron(r)
    <3>1. count' = [TookId EXCEPT !.free = @ + 1]
      BY <2>3 DEF replicationCron
    <3> QED BY <1>1, <2>3, <3>1, CountsTyped, CronSound, CronWait
  <2> QED BY <1>4, <2>1, <2>2, <2>3
<1>5. ASSUME NEW r \in Nodes, NEW m \in Nodes, replicaof(r, m)
      PROVE  count' \in CountType /\ Sound' /\ WaitInv'
  <2>1. count' = [count EXCEPT !.role = @ + 1]
    BY <1>5 DEF replicaof
  <2> QED BY <1>1, <1>5, <2>1, CountsTyped, ReplicaofSound, ReplicaofWait
<1>6. ASSUME NEW r \in Nodes, LoadFails(r) \/ LinkDown(r) \/ SaveRdb(r) \/ Restart(r)
      PROVE  count' \in CountType /\ Sound' /\ WaitInv'
  <2>1. CASE LoadFails(r)
    <3>1. count' = [count EXCEPT !.drop = @ + 1]
      BY <2>1 DEF LoadFails
    <3> QED BY <1>1, <2>1, <3>1, CountsTyped, LoadFailsSound, ReplicaStepsWait
  <2>2. CASE LinkDown(r)
    <3>1. count' = [count EXCEPT !.drop = @ + 1]
      BY <2>2 DEF LinkDown
    <3> QED BY <1>1, <2>2, <3>1, CountsTyped, UnlinkSound, ReplicaStepsWait
  <2>3. CASE SaveRdb(r)
    <3>1. count' = count
      BY <2>3 DEF SaveRdb
    <3> QED BY <1>1, <2>3, <3>1, CountsTyped, SaveRdbSound, LinkStepsWait
  <2>4. CASE Restart(r)
    <3>1. count' = [TookId EXCEPT !.restart = @ + 1]
      BY <2>4 DEF Restart
    <3> QED BY <1>1, <2>4, <3>1, CountsTyped, RestartSound, RestartWait
  <2> QED BY <1>6, <2>1, <2>2, <2>3, <2>4
<1>7. ASSUME NEW r \in Nodes, NEW late, late \subseteq ToSet(acks[r].waiting), beforeSleep(r, late)
      PROVE  count' \in CountType /\ Sound' /\ WaitInv'
  <2>1. count' = count
    BY <1>7 DEF beforeSleep
  <2> QED BY <1>1, <1>7, <2>1, CountsTyped, BeforeSleepStep
<1>8. ASSUME NEW c \in Clients, WaitReplies(c)
      PROVE  count' \in CountType /\ Sound' /\ WaitInv'
  <2>1. count' = count
    BY <1>8 DEF WaitReplies
  <2> QED BY <1>1, <1>8, <2>1, CountsTyped, WaitRepliesStep
<1>9. ASSUME NEW c \in Clients, NEW need \in Nat, WaitBlocks(c, need)
      PROVE  count' \in CountType /\ Sound' /\ WaitInv'
  <2>1. count' = count
    BY <1>9 DEF WaitBlocks
  <2> QED BY <1>1, <1>9, <2>1, CountsTyped, WaitBlocksStep
<1>10. CASE UNCHANGED vars
  <2>1. srv' = srv /\ conn' = conn /\ disk' = disk /\ cl' = cl /\ acks' = acks /\ count' = count
    BY <1>10 DEF vars
  <2>2. Good(srv', conn', disk', LastId', count.write, Marks)
    BY <2>1, Now, SameIds
  <2>3. Sound'
    BY <2>1, <2>2, SameMarks, SoundAfter
  <2>4. WaitInv'
    BY <2>1, WaitersStay
  <2> QED BY <1>1, <2>1, <2>3, <2>4
<1>11. CASE Next
  <2>1. PICK n \in count.max.nodes :
    \/ Progress(n)
    \/ Write(n) \/ replicationUnsetMaster(n) \/ replicationCron(n)
    \/ \E m \in count.max.hosts : replicaof(n, m)
    \/ LoadFails(n) \/ LinkDown(n) \/ SaveRdb(n) \/ Restart(n)
    \/ \E late \in SUBSET ToSet(acks[n].waiting) : beforeSleep(n, late)
    \/ \E c \in count.max.clients :
         /\ cl[c].at = n
         /\ WaitReplies(c) \/ \E need \in 1 .. Cardinality(count.max.nodes) - 1 : WaitBlocks(c, need)
    BY <1>11 DEF Next
  <2>2. n \in Nodes
    BY <1>1
  <2>3. \A need \in 1 .. Cardinality(count.max.nodes) - 1 : need \in Nat
    <3>1. IsFiniteSet(count.max.nodes)
      BY <1>1, NodesFinite, FS_Subset
    <3>2. Cardinality(count.max.nodes) \in Nat
      BY <3>1, FS_CardinalityType
    <3> QED BY <3>2
  <2>4. CASE \E late \in SUBSET ToSet(acks[n].waiting) : beforeSleep(n, late)
    BY <1>7, <2>2, <2>4
  <2>5. CASE \E c \in count.max.clients :
         /\ cl[c].at = n
         /\ WaitReplies(c) \/ \E need \in 1 .. Cardinality(count.max.nodes) - 1 : WaitBlocks(c, need)
    BY <1>1, <1>8, <1>9, <2>3, <2>5
  <2>6. CASE \E m \in count.max.hosts : replicaof(n, m)
    BY <1>1, <1>5, <2>2, <2>6
  <2> QED BY <1>3, <1>4, <1>6, <2>1, <2>2, <2>4, <2>5, <2>6
<1> QED BY <1>10, <1>11


\* An instance before anything has happened.
NewServer(n) ==
  [host |-> None, state |-> "none", id |-> n, id2 |-> None, off2 |-> -1,
   off |-> 0, backlog |-> FALSE, buf |-> <<>>, cached |-> NoCache, data |-> <<>>]
NoFile == [data |-> <<>>, id |-> None, off |-> -1]

LEMMA NewFields ==
  ASSUME NEW n \in Nodes, NEW s, s = NewServer(n)
  PROVE  /\ s \in Server /\ s.host = None /\ s.state = "none" /\ s.id = n /\ s.id2 = None /\ s.off2 = -1
         /\ ~s.backlog /\ s.buf = <<>> /\ s.cached = NoCache /\ s.data = <<>>
<1> DEFINE z == <<>>
           f == FALSE
           o == -1
           k == NoCache
           h == None
<1>1. z \in Seq(Nat) /\ f \in BOOLEAN /\ o \in Nat \cup {-1} /\ k \in [id : Nat, off : Nat \cup {-1}]
      /\ h \in Nodes \cup {None} /\ h \in Nat /\ n \in Nat \ {0} /\ 0 \in Nat
  BY PsyncAssumption DEF NoCache, None
<1>2. s = [host |-> h, state |-> "none", id |-> n, id2 |-> h, off2 |-> o,
           off |-> 0, backlog |-> f, buf |-> z, cached |-> k, data |-> z]
  BY DEF NewServer
<1>3. z = <<>> /\ ~f /\ o = -1 /\ k = NoCache /\ h = None
  OBVIOUS
<1> HIDE DEF z, f, o, k, h
<1>4. s \in Server
  BY <1>1, <1>2 DEF Server
<1>5. /\ s.host = h /\ s.state = "none" /\ s.id = n /\ s.id2 = h /\ s.off2 = o
      /\ s.backlog = f /\ s.buf = z /\ s.cached = k /\ s.data = z
  BY <1>2
<1> QED BY <1>3, <1>4, <1>5

LEMMA NewNode ==
  ASSUME NEW n \in Nodes, NEW s, s = NewServer(n)
  PROVE  /\ Local(s) /\ Link(n, s, NoConn) /\ ~IsEnd(NoConn) /\ ~rdbPopulateSaveInfo(s) /\ ~HasSecond(s)
         /\ Claims(s, NoConn, NoFile) = {} /\ Told(s, NoConn) = {}
<1>1. /\ s \in Server /\ s.host = None /\ s.state = "none" /\ s.id = n /\ s.id2 = None /\ s.off2 = -1
      /\ ~s.backlog /\ s.buf = <<>> /\ s.cached = NoCache /\ s.data = <<>>
  BY NewFields
<1>2. Local(s)
  BY <1>1 DEF Local
<1>3. NoConn \in Connection
  BY DEF NoConn, Connection, NoReply, Reply, None
<1>4. Link(n, s, NoConn)
  BY <1>1, <1>3, PsyncAssumption DEF Link, NoConn
<1>5. ~IsEnd(NoConn) /\ ~rdbPopulateSaveInfo(s) /\ ~HasSecond(s) /\ ~IsFile(NoFile)
  BY <1>1 DEF IsEnd, NoConn, rdbPopulateSaveInfo, HasSecond, IsFile, NoFile
<1> QED BY <1>2, <1>4, <1>5 DEF Claims, Told

LEMMA NewGood ==
  ASSUME NEW S, S = [n \in Nodes |-> NewServer(n)], NEW C, C = [n \in Nodes |-> NoConn],
         NEW D, D = [n \in Nodes |-> NoFile], NEW L, \A n \in Nodes : n <= L, NEW B, NEW K
  PROVE  Good(S, C, D, L, B, K)
<1>1. \A n \in Nodes : S[n] = NewServer(n) /\ C[n] = NoConn /\ D[n] = NoFile
  OBVIOUS
<1>2. ASSUME NEW n \in Nodes
      PROVE  /\ Local(S[n]) /\ Link(n, S[n], C[n]) /\ Claims(S[n], C[n], D[n]) = {} /\ Told(S[n], C[n]) = {}
             /\ ~IsEnd(C[n])
  BY <1>1, NewNode
<1>3. ASSUME NEW n \in Nodes
      PROVE  S[n].id = n /\ ~S[n].backlog /\ S[n].host = None /\ S[n].data = <<>>
  BY <1>1, NewFields
<1>4. NoFile.id = None /\ NoFile.off = -1 /\ NoFile.data = <<>> /\ NoFile \in File
  BY DEF NoFile, File, None
<1>5. Points(S, C, D) = {}
  BY <1>2 DEF Points
<1>6. \A n \in Nodes : Others(S, C, D, n) = {}
  BY <1>2 DEF Others
<1>7. S = [n \in Nodes |-> S[n]] /\ C = [n \in Nodes |-> C[n]] /\ D \in [Nodes -> File]
  BY <1>4
<1>8. \A n \in Nodes : D[n].id = None <=> D[n].off = -1
  BY <1>1, <1>4
<1>9. Attached(S, C)
  BY <1>2 DEF Attached, Follows, IsEnd
<1>10. Leads(S, Points(S, C, D))
  BY <1>3, <1>5 DEF Leads
<1>11. Secret(S, C, D)
  BY <1>1, <1>3, <1>4, <1>6, PsyncAssumption DEF Secret
<1>12. Taken(S, Points(S, C, D), L)
  BY <1>3, <1>5 DEF Taken
<1>13. AllWhole(S, D, Points(S, C, D), B, K)
  <2>1. \A n \in Nodes : At(S[n]).data = <<>> /\ D[n].data = <<>>
    BY <1>1, <1>3, <1>4 DEF At
  <2>2. \A n \in Nodes : Whole(At(S[n]), B, K)
    BY <2>1 DEF Whole
  <2> QED BY <1>5, <2>1, <2>2 DEF AllWhole
<1> QED BY <1>2, <1>5, <1>7, <1>8, <1>9, <1>10, <1>11, <1>12, <1>13 DEF Good

LEMMA Initially == Init => IInv
<1> SUFFICES ASSUME Init PROVE IInv
  OBVIOUS
<1>1. PICK b \in Bounds :
        count = [write |-> 0, role |-> 0, drop |-> 0, free |-> 0, restart |-> 0, ids |-> 0, max |-> b]
  BY DEF Init
<1>2. count \in CountType /\ count.ids = 0 /\ count.write = 0
  BY <1>1 DEF CountType
<1>3. \A n \in Nodes : n <= LastId
  <2> DEFINE top == CHOOSE m \in Nodes : \A n \in Nodes : n <= m
  <2>1. top \in Nodes /\ top \in Nat /\ \A n \in Nodes : n <= top
    BY PsyncAssumption
  <2>2. NewId = 1 + count.ids + top
    BY DEF NewId
  <2> HIDE DEF top
  <2>3. LastId = top
    BY <1>2, <2>1, <2>2 DEF LastId
  <2> QED BY <2>1, <2>3
<1>4. /\ srv = [n \in Nodes |-> NewServer(n)] /\ conn = [n \in Nodes |-> NoConn]
      /\ disk = [n \in Nodes |-> NoFile] /\ cl = [c \in Clients |-> Client]
      /\ acks = [n \in Nodes |-> [waiting |-> <<>>, get |-> FALSE]]
  BY DEF Init, NewServer, NoFile
<1>5. Sound
  BY <1>3, <1>4, NewGood DEF Sound
<1>6. Client \in Person /\ Client.st # "blocked" /\ Client.at = None /\ Client.w = 0
  BY DEF Client, Person, None
<1>7. \A c \in Clients : cl[c] = Client
  BY <1>4
<1>8. cl \in [Clients -> Person]
  BY <1>4, <1>6
<1>9. acks \in AckLists /\ \A n \in Nodes : acks[n].waiting = <<>>
  BY <1>4 DEF AckLists
<1>10. WaitersAtMasters
  <2>1. {c \in Clients : cl[c].st = "blocked"} = {}
    BY <1>6, <1>7
  <2> QED BY <1>9, <2>1, EmptyQueue DEF WaitersAtMasters, Queue
<1>11. WaitInv
  BY <1>2, <1>6, <1>7, <1>8, <1>9, <1>10 DEF WaitInv, AckLists
<1> QED BY <1>2, <1>5, <1>11 DEF IInv

-----------------------------------------------------------------------------
(* What follows from the invariant.                                         *)

LEMMA EndIsSubSeq ==
  ASSUME NEW b, b \in Seq(Nat), NEW x, x \in Seq(Nat), Len(b) <= Len(x),
         \A i \in 1 .. Len(b) : b[i] = x[Len(x) - Len(b) + i]
  PROVE  b = SubSeq(x, Len(x) - Len(b) + 1, Len(x))
<1> DEFINE f == Len(x) - Len(b) + 1
           y == SubSeq(x, f, Len(x))
<1>1. Len(x) \in Nat /\ Len(b) \in Nat
  OBVIOUS
<1>2. f \in 1 .. Len(x) + 1 /\ Len(b) = Len(x) - f + 1
  BY <1>1
<1>3. \A i \in 1 .. Len(b) : b[i] = x[f + i - 1]
  <2> SUFFICES ASSUME NEW i \in 1 .. Len(b) PROVE b[i] = x[f + i - 1]
    OBVIOUS
  <2>1. f + i - 1 = Len(x) - Len(b) + i
    BY <1>1
  <2> HIDE DEF f
  <2> QED BY <2>1
<1> HIDE DEF f
<1>4. y \in Seq(Nat) /\ Len(y) = Len(x) - f + 1 /\ \A i \in 1 .. Len(y) : y[i] = x[f + i - 1]
  BY <1>2, SubSeqFrom
<1> HIDE DEF y
<1>5. Len(y) = Len(b) /\ \A i \in 1 .. Len(b) : b[i] = y[i]
  BY <1>2, <1>3, <1>4
<1>6. b = y
  BY <1>4, <1>5, SeqEqual
<1> QED BY <1>6 DEF y, f

LEMMA Implies == IInv => ReplicationSound
<1> SUFFICES ASSUME IInv PROVE ReplicationSound
  OBVIOUS
<1>1. TypeOK
  <2>1. ASSUME NEW n \in Nodes
        PROVE  /\ srv[n].host \in Nodes \cup {None}
               /\ srv[n].state \in {"none", "connect", "psync", "transfer", "connected"}
               /\ srv[n].off \in Nat /\ srv[n].off2 \in Nat \cup {-1}
               /\ Len(srv[n].buf) <= BacklogSize
    <3>1. srv[n] \in Server /\ Local(srv[n])
      BY NodeNow
    <3>2. Len(srv[n].buf) <= BacklogSize
      <4>1. CASE srv[n].backlog
        BY <3>1, <4>1 DEF Local, Backlogged
      <4>2. CASE ~srv[n].backlog
        <5>1. srv[n].buf = <<>>
          BY <3>1, <4>2 DEF Local
        <5>2. Len(srv[n].buf) = 0
          BY <5>1
        <5> QED BY <5>2, PsyncAssumption
      <4> QED BY <4>1, <4>2
    <3> QED BY <3>1, <3>2 DEF Server
  <2>2. \A r \in Nodes : conn[r].to \in Nodes \cup {None}
    BY NodeNow DEF Connection
  <2>3. \A n \in Nodes : ToSet(acks[n].waiting) \subseteq Clients
    BY WaitersNow
  <2> QED BY <2>1, <2>2, <2>3 DEF TypeOK
<1>2. StreamConsistent
  <2> SUFFICES ASSUME NEW r \in Nodes, conn[r].to # None, conn[r].open, conn[r].phase = "slave"
               PROVE  srv[conn[r].to].data
                        = (IF conn[r].reply.type = "full" THEN conn[r].reply.data ELSE srv[r].data) \o conn[r].q
    BY DEF StreamConsistent
  <2> DEFINE m == conn[r].to
  <2>1. m \in Nodes /\ Follows(conn, r, m)
    BY NodeNow DEF Connection, Follows
  <2>2. End(srv[r], conn[r]) = At(srv[m])
    BY <2>1, Now DEF Good, Attached
  <2>3. End(srv[r], conn[r]).data = At(srv[m]).data
    BY <2>2
  <2>4. At(srv[m]).data = srv[m].data /\ End(srv[r], conn[r]).data = Base(srv[r], conn[r]).data \o conn[r].q
    BY DEF At, End
  <2>5. Base(srv[r], conn[r]).data = IF conn[r].reply.type = "full" THEN conn[r].reply.data ELSE srv[r].data
    BY DEF Base, At
  <2> QED BY <2>3, <2>4, <2>5
<1>3. BacklogIsTail
  <2> SUFFICES ASSUME NEW m \in Nodes, srv[m].backlog
               PROVE  /\ Len(srv[m].data) - Len(srv[m].buf) >= 0
                      /\ srv[m].buf = SubSeq(srv[m].data, Len(srv[m].data) - Len(srv[m].buf) + 1, Len(srv[m].data))
    BY DEF BacklogIsTail
  <2> DEFINE b == srv[m].buf
             x == srv[m].data
  <2>1. srv[m] \in Server /\ Backlogged(srv[m])
    BY NodeNow DEF Local
  <2>2. /\ b \in Seq(Nat) /\ x \in Seq(Nat) /\ Len(b) <= Len(x)
        /\ \A i \in 1 .. Len(b) : b[i] = x[Len(x) - Len(b) + i]
    BY <2>1 DEF Server, Backlogged
  <2> HIDE DEF b, x
  <2>3. b = SubSeq(x, Len(x) - Len(b) + 1, Len(x))
    BY <2>2, EndIsSubSeq
  <2>4. Len(x) - Len(b) >= 0
    BY <2>2
  <2> QED BY <2>3, <2>4 DEF b, x
<1>4. SlavesNeedBacklog
  <2>1. \A m, r \in Nodes : Follows(conn, r, m) => srv[m].backlog
    BY Now DEF Good, Attached
  <2> QED BY <2>1, SlaveFollows DEF SlavesNeedBacklog, Slaves
<1>5. WaitCountsCopies
  <2>1. cl \in [Clients -> Person]
    BY Now DEF WaitInv
  <2> QED BY <2>1 DEF WaitCountsCopies, Person
<1>6. WaitersAtMasters
  BY Now DEF WaitInv
<1> QED BY <1>1, <1>2, <1>3, <1>4, <1>5, <1>6 DEF ReplicationSound

\* Partial resynchronisation is right for any number of instances, backlog size,
\* schedule of promotions, demotions, lost links, failed loads, freed backlogs and
\* restarts: a replica and what is on its way to it are always the dataset of its
\* master, the backlog is the end of the dataset, an instance with slaves has a
\* backlog, and no WAIT returns more than the number of other instances that have the
\* write.
THEOREM ReplicationSafe == Spec => []ReplicationSound
<1>1. Init => IInv
  BY Initially
<1>2. IInv /\ [Next]_vars => IInv'
  BY Inductive
<1>3. IInv => ReplicationSound
  BY Implies
<1> QED BY <1>1, <1>2, <1>3, PTL DEF Spec
=============================================================================
