--------------------------- MODULE SentinelProofs ---------------------------
(***************************************************************************)
(* The Sentinels for any number of Sentinels, instances, epochs, crashes   *)
(* and lost links: elections by votes are safe, the configuration epoch    *)
(* names the master, and at most parallel_syncs slaves synchronise.        *)
(* Sets of an environment v are written as functions of v, so that a step,  *)
(* which only counts down what is left in env, leaves them alone.           *)
(***************************************************************************)
EXTENDS Sentinel, FiniteSetTheorems, TLAPS

Epochs(v) == 0..v.epoch
Voices(v) == v.sentinels \union {None}
Chosen == {"send_noone", "wait_promotion", "reconf", "update_config"}
Settled == {"reconf", "update_config"}
Early == {"wait_start", "select", "send_noone", "wait_promotion"}
Late == {"select", "send_noone", "wait_promotion", "reconf"}
Flags == {"sent", "inprog", "done"}

\* What a Sentinel holds in memory, inside its timer too.
Memory(v) ==
    [cur : Epochs(v), leader : Voices(v), leaderEpoch : Epochs(v),
     vote : [v.sentinels -> [leader : Voices(v), epoch : Epochs(v)]],
     mdown : SUBSET v.sentinels, sdown : BOOLEAN, odown : BOOLEAN, mrole : {"master", "slave"},
     fstate : {"none"} \union Early \union Settled,
     fepoch : Epochs(v), forced : BOOLEAN, wait : BOOLEAN,
     promoted : v.instances \union {None},
     reconf : [v.instances -> SUBSET Flags],
     slow : SUBSET v.instances, tilt : BOOLEAN, addr : v.instances, cfg : Epochs(v)]

File(v) == [cur : Epochs(v), leaderEpoch : Epochs(v), cfg : Epochs(v), addr : v.instances, stale : BOOLEAN]
Asked(v) == [addr : v.instances, epoch : Epochs(v), runid : Voices(v)]
Reply(v) == [down : BOOLEAN, leader : Voices(v), epoch : Epochs(v)]
Hello(v) == [cur : Epochs(v), addr : v.instances, cfg : Epochs(v)]
Ledger(v) == [by : v.sentinels, epoch : Epochs(v), how : {"votes", "mixed", "forced"}]

\* Slaves of x that have been told of the new master and are not done.
Syncing(v, x) == {i \in v.instances \ {x.addr} : x.reconf[i] \intersect {"sent", "inprog"} # {}}

\* What holds of the memory of one Sentinel: epochs are in order, from the
\* choice of a slave on there is one, and slaves are told of it only after
\* it has become a master.
Sound(v, x) ==
    /\ x \in Memory(v)
    /\ x.cfg <= x.cur /\ x.leaderEpoch <= x.cur /\ x.fepoch <= x.cur
    /\ x.fstate \in Chosen => x.promoted # None
    /\ x.fstate \notin Settled => \A i \in v.instances : x.reconf[i] = {}
    /\ x.fstate # "none" => x.fepoch # 0
    /\ Cardinality(Syncing(v, x)) <= v.parallel

\* The file d holds what the memory x must not lose in a crash, unless it could
\* not be written.
Saved(v, x, d) ==
    /\ d \in File(v)
    /\ d.stale \/ d.leaderEpoch = x.leaderEpoch
    /\ d.cfg <= d.cur /\ d.leaderEpoch <= d.cur /\ d.cur <= x.cur

Types ==
    /\ env \in Environment /\ Master0 \in Instance
    /\ role \in [Instance -> Instance]
    /\ st = [s \in Sentinel |-> st[s]] /\ disk = [s \in Sentinel |-> disk[s]]
    /\ req \in [Sentinel -> [Sentinel -> Seq(Asked(env))]]
    /\ rep \in [Sentinel -> [Sentinel -> Seq(Reply(env))]]
    /\ hello \in [Sentinel -> Hello(env)]
    /\ cmds \subseteq [to : Instance, of : Instance]
    /\ led \subseteq Ledger(env)
    /\ kept \in BOOLEAN

MemoryInv ==
    \A s \in Sentinel :
        /\ Sound(env, st[s]) /\ st[s].fstate # "update_config"
        /\ Saved(env, st[s], disk[s])
        /\ hello[s].cfg <= hello[s].cur

\* Somebody in S knows (memories m), is being told (replies r), or t itself
\* remembers that t voted for c in epoch e.
Voted(S, m, r, t, c, e) ==
    \/ \E s \in S : m[s].vote[t] = [leader |-> c, epoch |-> e]
    \/ \E s \in S : \E i \in 1..Len(r[s][t]) : r[s][t][i].leader = c /\ r[s][t][i].epoch = e
    \/ m[t].leader = c /\ m[t].leaderEpoch = e

\* In epoch e t has had its vote, and if anybody has it, it is c.
Bound(S, m, r, t, c, e) ==
    e <= m[t].leaderEpoch /\ \A d \in S : Voted(S, m, r, t, d, e) => c = d

VoteInv ==
    \A t, c \in Sentinel : \A e \in Epochs(env) \ forgot :
        Voted(Sentinel, st, rep, t, c, e) => Bound(Sentinel, st, rep, t, c, e)

Majorities(S) == {Q \in SUBSET S : Cardinality(Q) >= Cardinality(S) \div 2 + 1}

LeaderInv ==
    \A l \in led : l.how = "votes" /\ l.epoch \notin forgot =>
        \E Q \in Majorities(Sentinel) : \A t \in Q : Bound(Sentinel, st, rep, t, l.by, l.epoch)

\* A failover past the election was recorded.
LedInv ==
    \A s \in Sentinel :
        st[s].fstate \in Late => \E l \in led : l.by = s /\ l.epoch = st[s].fepoch

\* The address that x tells, and will tell when its timer is done.
Tells(x) == IF x.fstate \in Settled THEN x.promoted ELSE x.addr

\* With memory x, file d and hello message h a Sentinel has the configuration
\* of epoch e with master a.
Holds(x, d, h, e, a) ==
    \/ x.cfg = e /\ Tells(x) = a
    \/ d.cfg = e /\ d.addr = a
    \/ h.cfg = e /\ h.addr = a

\* Configurations: one for an epoch, and those of an epoch other than 0 come
\* from a failover that was led, and whose leader, with memory x and file d,
\* has left the election of that epoch behind for good, but for a crash that
\* makes it forget the epoch.
Recall(x, d) == IF d.stale THEN x.cur ELSE d.cur
LeftBehind(x, d, e) == e <= Recall(x, d) /\ (x.fstate \in Early => x.fepoch # e)

OneConfig ==
    \A s, t \in Sentinel : \A e \in Epochs(env) \ forgot : \A a, b \in Instance :
        Holds(st[s], disk[s], hello[s], e, a) /\ Holds(st[t], disk[t], hello[t], e, b) => a = b
FromLeader ==
    \A s \in Sentinel : \A e \in Epochs(env) \ forgot : \A a \in Instance :
        Holds(st[s], disk[s], hello[s], e, a) =>
            e = 0 \/ \E l \in led : l.epoch = e /\ LeftBehind(st[l.by], disk[l.by], e)
ConfigInv == Unique(led) /\ ~kept => OneConfig /\ FromLeader

IInv == Types /\ MemoryInv /\ VoteInv /\ LeaderInv /\ VotesElectOne /\ LedInv /\ ConfigInv

-----------------------------------------------------------------------------
(* What the steps of one Sentinel do to its memory.                         *)

\* y may come after x: epochs grow, a vote is forgotten or given in a newer
\* epoch, an attempt is the same or of a newer epoch, and the master that is
\* told is the same.
Follows(v, x, y) ==
    /\ x.cur <= y.cur
    /\ \/ y.leaderEpoch = x.leaderEpoch /\ y.leader \in {x.leader, None}
       \/ x.leaderEpoch < y.leaderEpoch
    /\ \A t \in v.sentinels : y.vote[t] = x.vote[t] \/ y.vote[t].leader = None
    /\ y.fstate \in Early => (x.fstate \in Early /\ y.fepoch = x.fepoch) \/ x.cur < y.fepoch
    /\ y.cfg = x.cfg /\ Tells(y) = Tells(x)

\* No election was won between x and y.
NoneLed(x, y) == y.fstate \in Late => x.fstate \in Late /\ y.fepoch = x.fepoch

LEMMA InEpochs ==
  ASSUME NEW v \in Environment
  PROVE  \A e : e \in Epochs(v) <=> e \in Nat /\ e <= v.epoch
BY DEF Environment, Epochs

LEMMA EpochFields ==
  ASSUME NEW v \in Environment, NEW x \in Memory(v)
  PROVE  /\ x.cur \in Nat /\ x.leaderEpoch \in Nat /\ x.fepoch \in Nat /\ x.cfg \in Nat
         /\ x.cur <= v.epoch /\ x.leaderEpoch <= v.epoch /\ x.fepoch <= v.epoch /\ x.cfg <= v.epoch
<1>1. x.cur \in Epochs(v) /\ x.leaderEpoch \in Epochs(v) /\ x.fepoch \in Epochs(v) /\ x.cfg \in Epochs(v)
  BY DEF Memory
<1> QED BY <1>1, InEpochs

LEMMA FollowsTrans ==
  ASSUME NEW v \in Environment, NEW x \in Memory(v), NEW y \in Memory(v), NEW z \in Memory(v),
         Follows(v, x, y), Follows(v, y, z)
  PROVE  Follows(v, x, z)
<1>1. /\ x.cur \in Nat /\ y.cur \in Nat /\ z.cur \in Nat /\ x.leaderEpoch \in Nat
      /\ y.leaderEpoch \in Nat /\ z.leaderEpoch \in Nat /\ y.fepoch \in Nat /\ z.fepoch \in Nat
  BY EpochFields
<1>2. x.cur <= z.cur
  BY <1>1 DEF Follows
<1>3. \/ z.leaderEpoch = x.leaderEpoch /\ z.leader \in {x.leader, None}
      \/ x.leaderEpoch < z.leaderEpoch
  BY <1>1 DEF Follows
<1>4. \A t \in v.sentinels : z.vote[t] = x.vote[t] \/ z.vote[t].leader = None
  BY DEF Follows
<1>5. z.fstate \in Early => (x.fstate \in Early /\ z.fepoch = x.fepoch) \/ x.cur < z.fepoch
  BY <1>1 DEF Follows
<1>6. z.cfg = x.cfg /\ Tells(z) = Tells(x)
  BY DEF Follows
<1> QED BY <1>2, <1>3, <1>4, <1>5, <1>6 DEF Follows

LEMMA FiniteSyncing ==
  ASSUME NEW v \in Environment, NEW x
  PROVE  IsFiniteSet(Syncing(v, x)) /\ Cardinality(Syncing(v, x)) \in Nat
<1>1. v.instances \subseteq Instances
  BY DEF Environment
<1>2. Syncing(v, x) \subseteq Instances
  BY <1>1 DEF Syncing
<1> QED BY <1>2, FS_Subset, FS_CardinalityType, SentinelAssumption

\* Memories that differ in nothing that the above is about.
Alike(x, y) ==
    /\ y.cur = x.cur /\ y.leaderEpoch = x.leaderEpoch /\ y.leader = x.leader
    /\ y.fstate = x.fstate /\ y.fepoch = x.fepoch /\ y.cfg = x.cfg
    /\ y.promoted = x.promoted /\ y.addr = x.addr

LEMMA AlikeSound ==
  ASSUME NEW v \in Environment, NEW x, Sound(v, x), NEW y \in Memory(v), Alike(x, y),
         \/ y.reconf = x.reconf
         \/ x.fstate \in Settled /\ Cardinality(Syncing(v, y)) <= v.parallel
  PROVE  Sound(v, y)
<1>1. CASE y.reconf = x.reconf
  <2>1. Syncing(v, y) = Syncing(v, x)
    BY <1>1 DEF Syncing, Alike
  <2> QED BY <1>1, <2>1 DEF Sound, Alike
<1>2. CASE x.fstate \in Settled /\ Cardinality(Syncing(v, y)) <= v.parallel
  BY <1>2 DEF Sound, Alike
<1> QED BY <1>1, <1>2

LEMMA AlikeFollows ==
  ASSUME NEW v \in Environment, NEW x \in Memory(v), NEW y \in Memory(v), Alike(x, y),
         \A t \in v.sentinels : y.vote[t] = x.vote[t] \/ y.vote[t].leader = None
  PROVE  Follows(v, x, y) /\ NoneLed(x, y)
<1>1. Tells(y) = Tells(x)
  BY DEF Alike, Tells
<1>2. x.cur \in Nat
  BY EpochFields
<1> QED BY <1>1, <1>2 DEF Alike, Follows, NoneLed

LEMMA CheckDownFacts ==
  ASSUME env \in Environment, NEW x, Sound(env, x), NEW down \in BOOLEAN
  PROVE  LET y == CheckDown([x EXCEPT !.tilt = FALSE], down)
         IN  /\ Sound(env, y) /\ Follows(env, x, y) /\ NoneLed(x, y)
             /\ y.vote = x.vote /\ y.fstate = x.fstate /\ y.fepoch = x.fepoch /\ y.cur = x.cur
             /\ y.addr = x.addr /\ y.leaderEpoch = x.leaderEpoch
<1> DEFINE y == CheckDown([x EXCEPT !.tilt = FALSE], down)
<1>0. x \in Memory(env)
  BY DEF Sound
<1> DEFINE b == down /\ Cardinality([x EXCEPT !.tilt = FALSE].mdown) + 1 >= Quorum
<1>a. b \in BOOLEAN
  BY Zenon
<1> HIDE DEF b
<1>b. y = [x EXCEPT !.tilt = FALSE, !.sdown = down, !.odown = b]
  BY DEF CheckDown, b
<1>1. y \in Memory(env)
  BY <1>0, <1>a, <1>b DEF Memory
<1>2. Alike(x, y) /\ y.reconf = x.reconf /\ y.vote = x.vote
  BY <1>0, <1>b DEF Memory, Alike
<1> HIDE DEF y
<1>3. Sound(env, y) /\ Follows(env, x, y) /\ NoneLed(x, y)
  BY <1>0, <1>1, <1>2, AlikeSound, AlikeFollows
<1>4. /\ y.fstate = x.fstate /\ y.fepoch = x.fepoch /\ y.cur = x.cur
      /\ y.addr = x.addr /\ y.leaderEpoch = x.leaderEpoch
  BY <1>2 DEF Alike
<1> QED BY <1>2, <1>3, <1>4 DEF y

LEMMA ForgetFacts ==
  ASSUME env \in Environment, NEW x, Sound(env, x), NEW old
  PROVE  LET y == Forget(x, old)
         IN  /\ Sound(env, y) /\ Follows(env, x, y) /\ NoneLed(x, y) /\ Alike(x, y)
<1> DEFINE y == Forget(x, old)
<1>0. x \in Memory(env)
  BY DEF Sound
<1>a. x.vote \in [env.sentinels -> [leader : Voices(env), epoch : Epochs(env)]] /\ x.mdown \in SUBSET env.sentinels
  BY <1>0 DEF Memory
<1> DEFINE w == [t \in Sentinel |-> IF t \in old THEN [x.vote[t] EXCEPT !.leader = None] ELSE x.vote[t]]
<1>b. w \in [env.sentinels -> [leader : Voices(env), epoch : Epochs(env)]]
  BY <1>a DEF Sentinel, Voices
<1>c. \A t \in env.sentinels : w[t] = x.vote[t] \/ w[t].leader = None
  BY <1>a DEF Sentinel
<1> HIDE DEF w
<1>d. y = [x EXCEPT !.mdown = x.mdown \ old, !.vote = w]
  BY DEF Forget, w
<1>1. y \in Memory(env)
  BY <1>0, <1>a, <1>b, <1>d DEF Memory
<1>2. Alike(x, y) /\ y.reconf = x.reconf /\ y.vote = w
  BY <1>0, <1>d DEF Memory, Alike
<1> HIDE DEF y
<1>3. Sound(env, y) /\ Follows(env, x, y) /\ NoneLed(x, y)
  BY <1>0, <1>1, <1>2, <1>c, AlikeSound, AlikeFollows
<1> QED BY <1>2, <1>3 DEF y

\* As AlikeSound, for memories with the same reconfiguration in progress.
LEMMA SameSync ==
  ASSUME NEW v \in Environment, NEW x, Sound(v, x), NEW y \in Memory(v),
         y.addr = x.addr, y.reconf = x.reconf, y.fstate \in Settled <=> x.fstate \in Settled,
         y.cfg <= y.cur, y.leaderEpoch <= y.cur, y.fepoch <= y.cur,
         y.fstate \in Chosen => y.promoted # None, y.fstate # "none" => y.fepoch # 0
  PROVE  Sound(v, y)
<1>1. Syncing(v, y) = Syncing(v, x)
  BY DEF Syncing
<1> QED BY <1>1 DEF Sound

LEMMA StartFacts ==
  ASSUME env \in Environment, NEW x, Sound(env, x), x.fstate = "none", x.cur < env.epoch,
         NEW f \in BOOLEAN
  PROVE  LET y == [sentinelStartFailover(x) EXCEPT !.forced = f]
         IN  /\ Sound(env, y) /\ Follows(env, x, y) /\ NoneLed(x, y)
             /\ y.vote = x.vote /\ y.fstate = "wait_start" /\ y.fepoch = y.cur /\ y.cur = x.cur + 1
             /\ y.addr = x.addr /\ y.leaderEpoch = x.leaderEpoch
<1> DEFINE n == x.cur + 1
           y == [sentinelStartFailover(x) EXCEPT !.forced = f]
<1>0. x \in Memory(env)
  BY DEF Sound
<1>a. /\ x.cur \in Nat /\ x.leaderEpoch \in Nat /\ x.fepoch \in Nat /\ x.cfg \in Nat /\ env.epoch \in Nat
      /\ x.cfg <= x.cur /\ x.leaderEpoch <= x.cur
  BY <1>0, EpochFields DEF Sound, Environment
<1>b. n \in Nat /\ n <= env.epoch /\ x.cfg <= n /\ x.leaderEpoch <= n /\ n # 0 /\ x.cur <= n /\ x.cur < n /\ n <= n
  BY <1>a
<1>c. n \in Epochs(env)
  BY <1>b, InEpochs
<1>e. n = x.cur + 1
  OBVIOUS
<1> HIDE DEF n
<1>d. y = [x EXCEPT !.fstate = "wait_start", !.cur = n, !.fepoch = n, !.wait = TRUE, !.forced = f]
  BY <1>0, <1>e DEF sentinelStartFailover, Memory
<1>1. y \in Memory(env)
  BY <1>0, <1>c, <1>d, ZenonT(30) DEF Memory, Early
<1>2. /\ y.cur = n /\ y.fepoch = n /\ y.fstate = "wait_start" /\ y.vote = x.vote /\ y.addr = x.addr
      /\ y.leaderEpoch = x.leaderEpoch /\ y.leader = x.leader /\ y.cfg = x.cfg /\ y.promoted = x.promoted
      /\ y.reconf = x.reconf
  BY <1>0, <1>d DEF Memory
<1> HIDE DEF y
<1>3. Sound(env, y)
  BY <1>1, <1>2, <1>b, SameSync DEF Chosen, Settled
<1>4. Tells(y) = Tells(x)
  BY <1>2 DEF Tells, Settled
<1>5. Follows(env, x, y) /\ NoneLed(x, y)
  BY <1>2, <1>4, <1>b DEF Follows, NoneLed, Late
<1> QED BY <1>2, <1>3, <1>5, <1>e DEF y

LEMMA VoteFacts ==
  ASSUME env \in Environment, NEW x, Sound(env, x), NEW me, NEW e \in Epochs(env), NEW c \in Voices(env)
  PROVE  LET y == sentinelVoteLeader(x, me, e, c)
         IN  /\ Sound(env, y) /\ Follows(env, x, y) /\ NoneLed(x, y)
             /\ y.vote = x.vote /\ y.fstate = x.fstate /\ y.fepoch = x.fepoch /\ y.addr = x.addr
             /\ y.promoted = x.promoted /\ y.reconf = x.reconf /\ y.cfg = x.cfg
             /\ y.leaderEpoch # x.leaderEpoch => y.leaderEpoch = e
             /\ e <= x.cur => y.cur = x.cur
<1> DEFINE a == IF e > x.cur THEN e ELSE x.cur
           y == sentinelVoteLeader(x, me, e, c)
           w == x.wait \/ c # me
<1>0. x \in Memory(env)
  BY DEF Sound
<1>a. /\ x.cur \in Nat /\ x.leaderEpoch \in Nat /\ x.fepoch \in Nat /\ x.cfg \in Nat /\ e \in Nat
      /\ x.cfg <= x.cur /\ x.leaderEpoch <= x.cur /\ x.fepoch <= x.cur
  BY <1>0, EpochFields, InEpochs DEF Sound
<1>b. /\ a \in Nat /\ x.cur <= a /\ x.cfg <= a /\ x.leaderEpoch <= a /\ x.fepoch <= a /\ a <= a
      /\ (a <= e => a = e) /\ (e <= x.cur => a = x.cur)
  BY <1>a
<1>c. a \in Epochs(env)
  BY <1>0 DEF Memory
<1>w. w \in BOOLEAN
  BY Zenon
<1>y. y = IF x.leaderEpoch < e /\ a <= e
          THEN [x EXCEPT !.cur = a, !.leader = c, !.leaderEpoch = a, !.wait = w]
          ELSE [x EXCEPT !.cur = a]
  BY <1>0 DEF sentinelVoteLeader, Memory
<1> HIDE DEF a, w, y
<1>1. CASE x.leaderEpoch < e /\ a <= e
  <2>d. y = [x EXCEPT !.cur = a, !.leader = c, !.leaderEpoch = a, !.wait = w]
    BY <1>1, <1>y
  <2>1. y \in Memory(env)
    BY <1>0, <1>c, <1>w, <2>d DEF Memory
  <2>2. /\ y.cur = a /\ y.leaderEpoch = a /\ y.vote = x.vote /\ y.fstate = x.fstate /\ y.fepoch = x.fepoch
        /\ y.addr = x.addr /\ y.promoted = x.promoted /\ y.reconf = x.reconf /\ y.cfg = x.cfg
    BY <1>0, <2>d DEF Memory
  <2>3. Sound(env, y)
    BY <2>1, <2>2, <1>b, SameSync DEF Sound
  <2>4. Tells(y) = Tells(x)
    BY <2>2 DEF Tells
  <2>5. Follows(env, x, y) /\ NoneLed(x, y)
    BY <2>2, <2>4, <1>1, <1>a, <1>b DEF Follows, NoneLed
  <2> QED BY <2>2, <2>3, <2>5, <1>1, <1>b DEF y
<1>2. CASE ~(x.leaderEpoch < e /\ a <= e)
  <2>d. y = [x EXCEPT !.cur = a]
    BY <1>2, <1>y
  <2>1. y \in Memory(env)
    BY <1>0, <1>c, <2>d DEF Memory
  <2>2. /\ y.cur = a /\ y.leaderEpoch = x.leaderEpoch /\ y.leader = x.leader /\ y.vote = x.vote
        /\ y.fstate = x.fstate /\ y.fepoch = x.fepoch
        /\ y.addr = x.addr /\ y.promoted = x.promoted /\ y.reconf = x.reconf /\ y.cfg = x.cfg
    BY <1>0, <2>d DEF Memory
  <2>3. Sound(env, y)
    BY <2>1, <2>2, <1>b, SameSync DEF Sound
  <2>4. Tells(y) = Tells(x)
    BY <2>2 DEF Tells
  <2>5. Follows(env, x, y) /\ NoneLed(x, y)
    BY <2>2, <2>4, <1>a, <1>b DEF Follows, NoneLed
  <2> QED BY <2>2, <2>3, <2>5, <1>b DEF y
<1> QED BY <1>1, <1>2

LEMMA AbortFacts ==
  ASSUME env \in Environment, NEW x, Sound(env, x), x.fstate \notin Settled
  PROVE  LET y == sentinelAbortFailover(x)
         IN  /\ Sound(env, y) /\ Follows(env, x, y) /\ NoneLed(x, y) /\ y.fstate = "none"
             /\ y.vote = x.vote /\ y.cur = x.cur /\ y.fepoch = x.fepoch /\ y.addr = x.addr
             /\ y.leaderEpoch = x.leaderEpoch
<1> DEFINE y == sentinelAbortFailover(x)
<1>0. x \in Memory(env)
  BY DEF Sound
<1>1. y \in Memory(env)
  BY <1>0 DEF Memory, sentinelAbortFailover
<1>2. /\ y.fstate = "none" /\ y.vote = x.vote /\ y.cur = x.cur /\ y.fepoch = x.fepoch /\ y.addr = x.addr
      /\ y.leaderEpoch = x.leaderEpoch /\ y.leader = x.leader /\ y.reconf = x.reconf /\ y.cfg = x.cfg
  BY <1>0 DEF Memory, sentinelAbortFailover
<1> HIDE DEF y
<1>3. Sound(env, y)
  BY <1>1, <1>2, SameSync DEF Sound, Chosen, Settled
<1>4. Tells(y) = Tells(x)
  BY <1>2 DEF Tells, Settled
<1>5. x.cur \in Nat
  BY <1>0, EpochFields
<1>6. Follows(env, x, y) /\ NoneLed(x, y)
  BY <1>2, <1>4, <1>5 DEF Follows, NoneLed, Early, Late
<1> QED BY <1>2, <1>3, <1>6 DEF y

\* A step of the failover state machine that stays before "reconf".
Advance(x, p, f) == [x EXCEPT !.promoted = p, !.fstate = f]

LEMMA AdvanceFacts ==
  ASSUME env \in Environment, NEW x, Sound(env, x), x.fstate \in Early, NEW f \in Early,
         NEW p \in env.instances \union {None}, f \in Chosen => p # None
  PROVE  LET y == Advance(x, p, f)
         IN  /\ Sound(env, y) /\ Follows(env, x, y) /\ y.fstate = f
             /\ y.vote = x.vote /\ y.cur = x.cur /\ y.fepoch = x.fepoch /\ y.addr = x.addr
             /\ y.leaderEpoch = x.leaderEpoch /\ y.leader = x.leader
<1> DEFINE y == Advance(x, p, f)
<1>0. x \in Memory(env)
  BY DEF Sound
<1>1. y \in Memory(env)
  BY <1>0 DEF Memory, Advance
<1>2. /\ y.fstate = f /\ y.vote = x.vote /\ y.cur = x.cur /\ y.fepoch = x.fepoch /\ y.addr = x.addr
      /\ y.leaderEpoch = x.leaderEpoch /\ y.leader = x.leader /\ y.reconf = x.reconf /\ y.cfg = x.cfg
      /\ y.promoted = p
  BY <1>0 DEF Memory, Advance
<1> HIDE DEF y
<1>3. Sound(env, y)
  BY <1>1, <1>2, SameSync DEF Sound, Early, Settled
<1>4. Tells(y) = Tells(x)
  BY <1>2 DEF Tells, Settled, Early
<1>5. x.cur \in Nat
  BY <1>0, EpochFields
<1>6. Follows(env, x, y)
  BY <1>2, <1>4, <1>5 DEF Follows
<1> QED BY <1>2, <1>3, <1>6 DEF y

\* What the state machine may make of the memory x and send: NoneLed, but
\* for the end of an election, which leaves alone what it was decided by.
Outcome(v, x, o) ==
    /\ Sound(v, o.x) /\ Follows(v, x, o.x) /\ o.x.addr = x.addr
    /\ o.cmds \subseteq [to : v.instances, of : v.instances]
    /\ NoneLed(x, o.x) \/ (x.fstate = "wait_start" /\ o.x.fstate = "select" /\ o.x.fepoch = x.fepoch)
    /\ x.fstate = "wait_start" => o.x.vote = x.vote /\ o.x.cur = x.cur /\ o.x.fepoch = x.fepoch

LEMMA QuietOutcome ==
  ASSUME NEW v \in Environment, NEW x, NEW y, Sound(v, y), Follows(v, x, y), y.addr = x.addr,
         NoneLed(x, y) \/ (x.fstate = "wait_start" /\ y.fstate = "select" /\ y.fepoch = x.fepoch),
         x.fstate = "wait_start" => y.vote = x.vote /\ y.cur = x.cur /\ y.fepoch = x.fepoch
  PROVE  Outcome(v, x, Quiet(y))
<1> DEFINE o == Quiet(y)
<1>1. o.x = y /\ o.cmds = {}
  BY DEF Quiet
<1> HIDE DEF o
<1>2. Outcome(v, x, o)
  BY <1>1 DEF Outcome
<1> QED BY <1>2 DEF o

LEMMA StayOutcome ==
  ASSUME NEW v \in Environment, NEW x, Sound(v, x)
  PROVE  Outcome(v, x, Quiet(x))
<1>1. x \in Memory(v)
  BY DEF Sound
<1>2. Follows(v, x, x) /\ NoneLed(x, x)
  BY <1>1, AlikeFollows DEF Alike
<1> QED BY <1>2, QuietOutcome

LEMMA AbortOutcome ==
  ASSUME env \in Environment, NEW x, Sound(env, x), x.fstate \notin Settled
  PROVE  Outcome(env, x, Quiet(sentinelAbortFailover(x)))
<1> DEFINE y == sentinelAbortFailover(x)
<1>1. /\ Sound(env, y) /\ Follows(env, x, y) /\ NoneLed(x, y) /\ y.addr = x.addr
      /\ y.vote = x.vote /\ y.cur = x.cur /\ y.fepoch = x.fepoch
  BY AbortFacts
<1> HIDE DEF y
<1>2. Outcome(env, x, Quiet(y))
  BY <1>1, QuietOutcome
<1> QED BY <1>2 DEF y

LEMMA WaitStartOutcome ==
  ASSUME env \in Environment, NEW x, Sound(env, x), x.fstate = "wait_start",
         NEW me \in Sentinel, NEW late \in BOOLEAN, NEW o \in sentinelFailoverWaitStart(x, me, late)
  PROVE  Outcome(env, x, o)
<1>0. x \in Memory(env) /\ x.fepoch <= x.cur
  BY DEF Sound
<1>1. PICK c \in MostVoted(x, me) :
         o = Quiet(LET y == sentinelVoteLeader(x, me, x.fepoch, c)
                   IN  IF me \in Winners(y, me) \/ x.forced THEN [y EXCEPT !.fstate = "select"]
                       ELSE IF late THEN sentinelAbortFailover(y) ELSE y)
  BY DEF sentinelFailoverWaitStart
<1>2. c \in Voices(env)
  BY DEF MostVoted, Sentinel, Voices
<1>3. x.fepoch \in Epochs(env) /\ x.promoted \in env.instances \union {None}
  BY <1>0 DEF Memory
<1> DEFINE y == sentinelVoteLeader(x, me, x.fepoch, c)
<1>4. /\ Sound(env, y) /\ Follows(env, x, y) /\ NoneLed(x, y)
      /\ y.vote = x.vote /\ y.fstate = "wait_start" /\ y.fepoch = x.fepoch /\ y.addr = x.addr
      /\ y.cur = x.cur /\ y.promoted = x.promoted
  BY <1>0, <1>2, <1>3, VoteFacts
<1> DEFINE z == [y EXCEPT !.fstate = "select"]
           a == sentinelAbortFailover(y)
<1>5. o = Quiet(z) \/ o = Quiet(a) \/ o = Quiet(y)
  BY <1>1
<1> HIDE DEF y
<1>6. y \in Memory(env)
  BY <1>4 DEF Sound
<1>7. CASE o = Quiet(z)
  <2>1. z = Advance(y, y.promoted, "select")
    BY <1>6 DEF Memory, Advance
  <2>2. "select" \in Early /\ "wait_start" \in Early /\ "select" \notin Chosen
    BY DEF Early, Chosen
  <2> HIDE DEF z
  <2>3. /\ Sound(env, z) /\ Follows(env, y, z) /\ z.fstate = "select"
        /\ z.vote = y.vote /\ z.cur = y.cur /\ z.fepoch = y.fepoch /\ z.addr = y.addr
    BY <1>3, <1>4, <2>1, <2>2, AdvanceFacts
  <2>4. Follows(env, x, z)
    BY <1>0, <1>4, <1>6, <2>3, FollowsTrans DEF Sound
  <2> QED BY <1>4, <1>7, <2>3, <2>4, QuietOutcome
<1>8. CASE o = Quiet(a)
  <2>1. y.fstate \notin Settled
    BY <1>4 DEF Settled
  <2>2. /\ Sound(env, a) /\ Follows(env, y, a) /\ NoneLed(y, a) /\ a.fstate = "none"
        /\ a.vote = y.vote /\ a.cur = y.cur /\ a.fepoch = y.fepoch /\ a.addr = y.addr
    BY <1>4, <2>1, AbortFacts
  <2> HIDE DEF a
  <2>3. Follows(env, x, a)
    BY <1>0, <1>4, <1>6, <2>2, FollowsTrans DEF Sound
  <2>4. NoneLed(x, a)
    BY <2>2 DEF NoneLed, Late
  <2> QED BY <1>4, <1>8, <2>2, <2>3, <2>4, QuietOutcome
<1>9. CASE o = Quiet(y)
  BY <1>4, <1>9, QuietOutcome
<1> QED BY <1>5, <1>7, <1>8, <1>9

LEMMA SelectOutcome ==
  ASSUME env \in Environment, NEW x, Sound(env, x), x.fstate = "select",
         NEW o \in sentinelFailoverSelectSlave(x)
  PROVE  Outcome(env, x, o)
<1>1. CASE o = Quiet(sentinelAbortFailover(x))
  BY <1>1, AbortOutcome DEF Settled
<1>2. ASSUME NEW i \in Instance \ {x.addr}, o = Quiet([x EXCEPT !.promoted = i, !.fstate = "send_noone"])
      PROVE  Outcome(env, x, o)
  <2> DEFINE y == [x EXCEPT !.promoted = i, !.fstate = "send_noone"]
  <2>1. i \in env.instances \union {None} /\ i # None
    BY SentinelAssumption DEF Instance, Environment
  <2>2. "select" \in Early /\ "send_noone" \in Early
    BY DEF Early
  <2>y. y = Advance(x, i, "send_noone")
    BY DEF Advance
  <2> HIDE DEF y
  <2>3. /\ Sound(env, y) /\ Follows(env, x, y) /\ y.fstate = "send_noone"
        /\ y.fepoch = x.fepoch /\ y.addr = x.addr
    BY <2>1, <2>2, <2>y, AdvanceFacts
  <2>4. NoneLed(x, y)
    BY <2>3 DEF NoneLed, Late
  <2>5. o = Quiet(y)
    BY <1>2 DEF y
  <2> QED BY <2>3, <2>4, <2>5, QuietOutcome
<1> QED BY <1>1, <1>2 DEF sentinelFailoverSelectSlave

LEMMA SendOutcome ==
  ASSUME env \in Environment, NEW x, Sound(env, x), x.fstate = "send_noone", NEW late \in BOOLEAN,
         NEW o \in sentinelFailoverSendSlaveOfNoOne(x, late)
  PROVE  Outcome(env, x, o)
<1>0. x \in Memory(env) /\ x.promoted # None
  BY DEF Sound, Chosen
<1>p. x.promoted \in env.instances
  BY <1>0 DEF Memory
<1>1. CASE o = Quiet(sentinelAbortFailover(x))
  BY <1>1, AbortOutcome DEF Settled
<1>2. CASE o = Quiet(x)
  BY <1>2, StayOutcome
<1>3. CASE o = [x |-> [x EXCEPT !.fstate = "wait_promotion"],
                cmds |-> {[to |-> x.promoted, of |-> x.promoted]}]
  <2> DEFINE y == [x EXCEPT !.fstate = "wait_promotion"]
  <2>1. y = Advance(x, x.promoted, "wait_promotion")
    BY <1>0 DEF Memory, Advance
  <2>2. "wait_promotion" \in Early /\ "send_noone" \in Early
    BY DEF Early
  <2>o. o.x = y /\ o.cmds = {[to |-> x.promoted, of |-> x.promoted]}
    BY <1>3
  <2> HIDE DEF y
  <2>3. /\ Sound(env, y) /\ Follows(env, x, y) /\ y.fstate = "wait_promotion"
        /\ y.fepoch = x.fepoch /\ y.addr = x.addr
    BY <1>0, <1>p, <2>1, <2>2, AdvanceFacts
  <2>4. NoneLed(x, y)
    BY <2>3 DEF NoneLed, Late
  <2>5. o.cmds \subseteq [to : env.instances, of : env.instances]
    BY <1>p, <2>o
  <2> QED BY <2>3, <2>4, <2>5, <2>o DEF Outcome
<1> QED BY <1>1, <1>2, <1>3 DEF sentinelFailoverSendSlaveOfNoOne

LEMMA PromotionOutcome ==
  ASSUME env \in Environment, NEW x, Sound(env, x), x.fstate = "wait_promotion", NEW late \in BOOLEAN,
         NEW o \in sentinelFailoverWaitPromotion(x, late)
  PROVE  Outcome(env, x, o)
<1>1. CASE o = Quiet(sentinelAbortFailover(x))
  BY <1>1, AbortOutcome DEF Settled
<1>2. CASE o = Quiet(x)
  BY <1>2, StayOutcome
<1> QED BY <1>1, <1>2 DEF sentinelFailoverWaitPromotion

\* A pass over the slaves stays within parallel_syncs.
LEMMA PassFacts ==
  ASSUME env \in Environment, NEW x, Sound(env, x), x.fstate = "reconf", NEW p \in Passes(x)
  PROVE  LET y == Reconfigure(x, p)
         IN  /\ y \in Memory(env) /\ Alike(x, y) /\ y.vote = x.vote
             /\ Cardinality(Syncing(env, y)) <= env.parallel
             /\ p.to \subseteq env.instances
<1> DEFINE y == Reconfigure(x, p)
           r == [i \in Instance |->
                  (IF i \in p.seen THEN (x.reconf[i] \ {"sent"}) \union {"done"} ELSE x.reconf[i])
                  \union (IF i \in p.to THEN {"sent"} ELSE {})]
<1>0. x \in Memory(env) /\ Cardinality(Syncing(env, x)) <= env.parallel
  BY DEF Sound
<1>a. x.reconf \in [env.instances -> SUBSET Flags] /\ x.slow \in SUBSET env.instances
  BY <1>0 DEF Memory
<1>b. r \in [env.instances -> SUBSET Flags]
  BY <1>a DEF Instance, Flags
<1>c. /\ p.to \subseteq env.instances
      /\ \/ p.to = {} /\ p.seen = {}
         \/ Cardinality(p.to) + Cardinality(Busy(x)) <= env.parallel
  <2>1. env.parallel \in Nat
    BY DEF Environment
  <2>2. CASE p = [to |-> {}, seen |-> {}]
    BY <2>2
  <2>3. CASE /\ p.to \subseteq Slaves(x)
             /\ \/ Cardinality(p.to) + Cardinality(Busy(x)) = env.parallel
                \/ Cardinality(p.to) + Cardinality(Busy(x)) < env.parallel
    <3>1. Cardinality(p.to) + Cardinality(Busy(x)) <= env.parallel
      <4>1. IsFiniteSet(p.to) /\ IsFiniteSet(Busy(x))
        <5>1. env.instances \subseteq Instances
          BY DEF Environment
        <5>2. p.to \subseteq Instances /\ Busy(x) \subseteq Instances
          BY <2>3, <5>1 DEF Slaves, Busy, Instance
        <5> QED BY <5>2, FS_Subset, SentinelAssumption
      <4>2. Cardinality(p.to) \in Nat /\ Cardinality(Busy(x)) \in Nat
        BY <4>1, FS_CardinalityType
      <4> QED BY <2>1, <2>3, <4>2
    <3> QED BY <2>3, <3>1 DEF Slaves, Instance
  <2> QED BY <2>2, <2>3 DEF Passes
<1>r. \A i \in env.instances :
         r[i] = (IF i \in p.seen THEN (x.reconf[i] \ {"sent"}) \union {"done"} ELSE x.reconf[i])
                \union (IF i \in p.to THEN {"sent"} ELSE {})
  BY DEF Instance
<1>e. p.to = {} /\ p.seen = {} => \A i \in env.instances : r[i] = x.reconf[i]
  BY <1>a, <1>r
<1>f. \A i \in env.instances : r[i] \intersect {"sent", "inprog"} # {} =>
         i \in p.to \/ x.reconf[i] \intersect {"sent", "inprog"} # {}
  BY <1>a, <1>r
<1>y. y = [x EXCEPT !.reconf = r, !.slow = x.slow \ p.seen]
  BY <1>0 DEF Reconfigure, Memory
<1> HIDE DEF r, y
<1>1. y \in Memory(env)
  BY <1>0, <1>a, <1>b, <1>y DEF Memory
<1>2. Alike(x, y) /\ y.vote = x.vote /\ y.reconf = r
  BY <1>0, <1>y DEF Memory, Alike
<1>3. Busy(x) = Syncing(env, x)
  BY DEF Busy, Syncing, Slaves, Instance
<1>4. Cardinality(Syncing(env, y)) <= env.parallel
  <2>1. CASE p.to = {} /\ p.seen = {}
    <3>1. Syncing(env, y) = Syncing(env, x)
      BY <1>2, <1>e, <2>1 DEF Syncing, Alike
    <3> QED BY <3>1, <1>0
  <2>2. CASE Cardinality(p.to) + Cardinality(Busy(x)) <= env.parallel
    <3>1. Syncing(env, y) \subseteq p.to \union Syncing(env, x)
      BY <1>2, <1>f DEF Syncing, Alike
    <3>2. IsFiniteSet(p.to)
      <4>1. env.instances \subseteq Instances
        BY DEF Environment
      <4> QED BY <4>1, <1>c, FS_Subset, SentinelAssumption
    <3>3. IsFiniteSet(Syncing(env, x))
      BY FiniteSyncing
    <3>4. /\ IsFiniteSet(p.to \union Syncing(env, x))
          /\ Cardinality(p.to \union Syncing(env, x)) =
               Cardinality(p.to) + Cardinality(Syncing(env, x)) - Cardinality(p.to \intersect Syncing(env, x))
      BY <3>2, <3>3, FS_Union
    <3>5. Cardinality(Syncing(env, y)) <= Cardinality(p.to \union Syncing(env, x))
      BY <3>1, <3>4, FS_Subset
    <3>6. IsFiniteSet(p.to \intersect Syncing(env, x)) /\ IsFiniteSet(Syncing(env, y))
      BY <3>1, <3>2, <3>4, FS_Subset, FS_Intersection
    <3>7. /\ Cardinality(p.to) \in Nat /\ Cardinality(Syncing(env, x)) \in Nat
          /\ Cardinality(p.to \intersect Syncing(env, x)) \in Nat /\ Cardinality(Syncing(env, y)) \in Nat
      BY <3>2, <3>3, <3>6, FS_CardinalityType
    <3>8. env.parallel \in Nat
      BY DEF Environment
    <3> QED BY <2>2, <1>3, <3>4, <3>5, <3>7, <3>8
  <2> QED BY <1>c, <2>1, <2>2
<1> QED BY <1>1, <1>2, <1>4, <1>c DEF y

LEMMA ReconfOutcome ==
  ASSUME env \in Environment, NEW x, Sound(env, x), x.fstate = "reconf",
         NEW pdown \in BOOLEAN, NEW late \in BOOLEAN,
         NEW o \in sentinelFailoverReconfNextSlave(x, pdown, late)
  PROVE  Outcome(env, x, o)
<1>0. x \in Memory(env) /\ x.promoted # None
  BY DEF Sound, Chosen
<1>p. x.promoted \in env.instances
  BY <1>0 DEF Memory
<1> DEFINE Rest(y) == IF ~pdown /\ late
                      THEN {i \in Slaves(y) \ {y.promoted} :
                               y.reconf[i] \intersect {"done", "sent"} = {}}
                      ELSE {}
           Result(p, down) ==
               LET y == Reconfigure(x, p)
               IN  [x |-> IF Ends(y, down, pdown, late) THEN [y EXCEPT !.fstate = "update_config"] ELSE y,
                    cmds |-> Tell(p.to \union Rest(y), x.promoted)]
<1>a. o \in {Result(p, down) : p \in Passes(x), down \in SUBSET (Slaves(x) \ {x.promoted})}
  BY DEF sentinelFailoverReconfNextSlave
<1> HIDE DEF Result
<1>1. PICK p \in Passes(x), down \in SUBSET (Slaves(x) \ {x.promoted}) : o = Result(p, down)
  BY <1>a
<1> DEFINE y == Reconfigure(x, p)
           z == [y EXCEPT !.fstate = "update_config"]
<1>2. /\ y \in Memory(env) /\ Alike(x, y) /\ y.vote = x.vote
      /\ Cardinality(Syncing(env, y)) <= env.parallel
      /\ p.to \subseteq env.instances
  BY PassFacts
<1> HIDE DEF y
<1>3. o.x = y \/ o.x = z
  BY <1>1 DEF y, Result
<1>4. o.cmds \subseteq [to : env.instances, of : env.instances]
  <2>1. PICK T \in SUBSET env.instances : o.cmds = Tell(T, x.promoted)
    BY <1>1, <1>2 DEF y, Slaves, Instance, Result
  <2> QED BY <2>1, <1>p DEF Tell
<1>5. Sound(env, y) /\ Follows(env, x, y) /\ NoneLed(x, y) /\ y.addr = x.addr
  <2>1. x.fstate \in Settled /\ y.addr = x.addr
    BY <1>2 DEF Settled, Alike
  <2> QED BY <1>0, <1>2, <2>1, AlikeSound, AlikeFollows
<1>6. Sound(env, z) /\ Follows(env, x, z) /\ NoneLed(x, z) /\ z.addr = x.addr
  <2>1. z \in Memory(env)
    BY <1>2 DEF Memory, Settled
  <2>2. /\ z.fstate = "update_config" /\ z.addr = y.addr /\ z.reconf = y.reconf /\ z.cur = y.cur
        /\ z.cfg = y.cfg /\ z.leaderEpoch = y.leaderEpoch /\ z.fepoch = y.fepoch
        /\ z.promoted = y.promoted /\ z.vote = y.vote /\ z.leader = y.leader
    BY <1>2 DEF Memory
  <2> HIDE DEF z
  <2>3. y.fstate = "reconf"
    BY <1>2 DEF Alike
  <2>4. Sound(env, z)
    BY <1>5, <2>1, <2>2, <2>3, SameSync DEF Sound, Settled, Chosen
  <2>5. Tells(z) = Tells(y)
    BY <2>2, <2>3 DEF Tells, Settled
  <2>6. y.cur \in Nat
    BY <1>2, EpochFields
  <2>7. Follows(env, y, z)
    BY <2>2, <2>5, <2>6 DEF Follows, Early
  <2>8. Follows(env, x, z)
    BY <1>0, <1>2, <1>5, <2>1, <2>7, FollowsTrans
  <2> QED BY <1>5, <2>2, <2>4, <2>8 DEF NoneLed, Late
<1> HIDE DEF z
<1> QED BY <1>3, <1>4, <1>5, <1>6 DEF Outcome

LEMMA MachineOutcome ==
  ASSUME env \in Environment, NEW x, Sound(env, x), x.fstate # "update_config",
         NEW me \in Sentinel, NEW pdown \in BOOLEAN, NEW late \in BOOLEAN,
         NEW o \in sentinelFailoverStateMachine(x, me, pdown, late)
  PROVE  Outcome(env, x, o)
<1>0. x.fstate \in {"none", "wait_start", "select", "send_noone", "wait_promotion", "reconf"}
  BY DEF Sound, Memory, Early, Settled
<1>1. CASE x.fstate = "none"
  <2>1. o = Quiet(x)
    BY <1>1 DEF sentinelFailoverStateMachine
  <2> QED BY <2>1, StayOutcome
<1>2. CASE x.fstate = "wait_start"
  <2>1. o \in sentinelFailoverWaitStart(x, me, late)
    BY <1>2 DEF sentinelFailoverStateMachine
  <2> QED BY <1>2, <2>1, WaitStartOutcome
<1>3. CASE x.fstate = "select"
  <2>1. o \in sentinelFailoverSelectSlave(x)
    BY <1>3 DEF sentinelFailoverStateMachine
  <2> QED BY <1>3, <2>1, SelectOutcome
<1>4. CASE x.fstate = "send_noone"
  <2>1. o \in sentinelFailoverSendSlaveOfNoOne(x, late)
    BY <1>4 DEF sentinelFailoverStateMachine
  <2> QED BY <1>4, <2>1, SendOutcome
<1>5. CASE x.fstate = "wait_promotion"
  <2>1. o \in sentinelFailoverWaitPromotion(x, late)
    BY <1>5 DEF sentinelFailoverStateMachine
  <2> QED BY <1>5, <2>1, PromotionOutcome
<1>6. CASE x.fstate = "reconf"
  <2>1. o \in sentinelFailoverReconfNextSlave(x, pdown, late)
    BY <1>6 DEF sentinelFailoverStateMachine
  <2> QED BY <1>6, <2>1, ReconfOutcome
<1> QED BY <1>0, <1>1, <1>2, <1>3, <1>4, <1>5, <1>6

LEMMA ResetFacts ==
  ASSUME env \in Environment, NEW x, Sound(env, x), NEW a \in env.instances
  PROVE  LET y == sentinelResetMasterAndChangeAddress(x, a)
         IN  /\ Sound(env, y) /\ y.fstate = "none" /\ y.addr = a /\ y.cur = x.cur
             /\ y.leaderEpoch = x.leaderEpoch /\ y.leader = None /\ y.cfg = x.cfg
             /\ y.vote = x.vote
<1> DEFINE y == sentinelResetMasterAndChangeAddress(x, a)
           r == [i \in Instance |-> {}]
<1>0. x \in Memory(env) /\ x.cfg <= x.cur /\ x.leaderEpoch <= x.cur /\ x.fepoch <= x.cur
  BY DEF Sound
<1>r. r \in [env.instances -> SUBSET Flags] /\ \A i \in env.instances : r[i] = {}
  BY DEF Instance
<1>y. y = [x EXCEPT !.sdown = FALSE, !.odown = FALSE, !.mrole = "master", !.leader = None,
              !.fstate = "none", !.forced = FALSE, !.wait = FALSE, !.promoted = None,
              !.reconf = r, !.slow = {}, !.addr = a]
  BY DEF sentinelResetMasterAndChangeAddress
<1> HIDE DEF r, y
<1>1. y \in Memory(env)
  BY <1>0, <1>r, <1>y DEF Memory, Voices
<1>2. /\ y.fstate = "none" /\ y.addr = a /\ y.cur = x.cur /\ y.reconf = r /\ y.fepoch = x.fepoch
      /\ y.leaderEpoch = x.leaderEpoch /\ y.leader = None /\ y.cfg = x.cfg
      /\ y.vote = x.vote
  BY <1>0, <1>y DEF Memory
<1>3. Syncing(env, y) = {}
  BY <1>2, <1>r DEF Syncing
<1>4. Cardinality(Syncing(env, y)) <= env.parallel
  BY <1>3, FS_EmptySet DEF Environment
<1>5. Sound(env, y)
  BY <1>0, <1>1, <1>2, <1>4, <1>r DEF Sound, Chosen, Settled
<1> QED BY <1>2, <1>5 DEF y

LEMMA SwitchFacts ==
  ASSUME env \in Environment, NEW x, Sound(env, x)
  PROVE  LET y == sentinelFailoverSwitchToPromotedSlave(x)
         IN  /\ Sound(env, y) /\ y.fstate # "update_config" /\ Follows(env, x, y) /\ NoneLed(x, y)
             /\ x.fstate # "update_config" => y = x
             /\ y.leaderEpoch = x.leaderEpoch
<1> DEFINE y == sentinelFailoverSwitchToPromotedSlave(x)
<1>0. x \in Memory(env)
  BY DEF Sound
<1>1. CASE x.fstate = "update_config"
  <2>1. x.promoted \in env.instances
    BY <1>0, <1>1 DEF Sound, Memory, Chosen
  <2>2. y = sentinelResetMasterAndChangeAddress(x, x.promoted)
    BY <1>1 DEF sentinelFailoverSwitchToPromotedSlave
  <2> HIDE DEF y
  <2>3. /\ Sound(env, y) /\ y.fstate = "none" /\ y.addr = x.promoted /\ y.cur = x.cur
        /\ y.leaderEpoch = x.leaderEpoch /\ y.leader = None /\ y.cfg = x.cfg
        /\ y.vote = x.vote
    BY <2>1, <2>2, ResetFacts
  <2>4. Tells(y) = Tells(x)
    BY <1>1, <2>3 DEF Tells, Settled
  <2>5. x.cur \in Nat
    BY <1>0, EpochFields
  <2>6. Follows(env, x, y) /\ NoneLed(x, y)
    BY <2>3, <2>4, <2>5 DEF Follows, NoneLed, Early, Late
  <2> QED BY <1>1, <2>3, <2>6 DEF y
<1>2. CASE x.fstate # "update_config"
  <2>1. y = x
    BY <1>2 DEF sentinelFailoverSwitchToPromotedSlave
  <2> HIDE DEF y
  <2>2. Follows(env, x, y) /\ NoneLed(x, y)
    BY <1>0, <2>1, AlikeFollows DEF Alike
  <2> QED BY <1>2, <2>1, <2>2 DEF y
<1> QED BY <1>1, <1>2

-----------------------------------------------------------------------------
(* Steps of all Sentinels.                                                  *)

\* A step counts down what is left of the bounds.
EnvKept ==
    /\ env' \in Environment
    /\ env'.sentinels = env.sentinels /\ env'.instances = env.instances
    /\ env'.epoch = env.epoch /\ env'.parallel = env.parallel

LEMMA EnvFacts ==
  ASSUME EnvKept
  PROVE  /\ Sentinel' = Sentinel /\ Instance' = Instance /\ Epochs(env') = Epochs(env)
         /\ Asked(env') = Asked(env) /\ Reply(env') = Reply(env) /\ Hello(env') = Hello(env)
         /\ Ledger(env') = Ledger(env)
         /\ \A x : Sound(env, x) => Sound(env', x)
         /\ \A x, d : Saved(env, x, d) => Saved(env', x, d)
<1>1. Sentinel' = Sentinel /\ Instance' = Instance /\ Epochs(env') = Epochs(env) /\ Voices(env') = Voices(env)
  BY DEF EnvKept, Sentinel, Instance, Epochs, Voices
<1>2. /\ Asked(env') = Asked(env) /\ Reply(env') = Reply(env) /\ Hello(env') = Hello(env)
      /\ Ledger(env') = Ledger(env) /\ File(env') = File(env)
  BY <1>1 DEF EnvKept, Asked, Reply, Hello, Ledger, File
<1>3. Memory(env') = Memory(env)
  BY <1>1 DEF EnvKept, Memory
<1>4. ASSUME NEW x, Sound(env, x) PROVE Sound(env', x)
  <2>1. Syncing(env', x) = Syncing(env, x)
    BY DEF EnvKept, Syncing
  <2> QED BY <1>3, <1>4, <2>1 DEF EnvKept, Sound
<1>5. ASSUME NEW x, NEW d, Saved(env, x, d) PROVE Saved(env', x, d)
  BY <1>2, <1>5 DEF Saved
<1> QED BY <1>1, <1>2, <1>4, <1>5

\* A vote that is known after a step was known before it, or is the first
\* one of its voter in a newer epoch; no vote is taken back, but for those of
\* the epochs that are forgotten.
VoteStep ==
    /\ forgot \subseteq forgot'
    /\ \A t \in Sentinel : \A e \in Epochs(env) \ forgot' :
          e <= st[t].leaderEpoch => e <= st'[t].leaderEpoch
    /\ \A t, c \in Sentinel : \A e \in Epochs(env) \ forgot' :
          Voted(Sentinel, st', rep', t, c, e) =>
             \/ Voted(Sentinel, st, rep, t, c, e)
             \/ st[t].leaderEpoch < e /\ e = st'[t].leaderEpoch /\ c = st'[t].leader

LEMMA VotesKept ==
  ASSUME env \in Environment, VoteInv, VoteStep, EnvKept,
         \A t \in Sentinel : st[t].leaderEpoch \in Nat /\ st'[t].leaderEpoch \in Nat
  PROVE  /\ VoteInv'
         /\ \A t, c \in Sentinel : \A e \in Epochs(env) \ forgot' :
               Bound(Sentinel, st, rep, t, c, e) => Bound(Sentinel, st', rep', t, c, e)
<1>e. \A e \in Epochs(env) : e \in Nat
  BY InEpochs
<1>1. ASSUME NEW t \in Sentinel, NEW c \in Sentinel, NEW e \in Epochs(env) \ forgot', Bound(Sentinel, st, rep, t, c, e)
      PROVE  Bound(Sentinel, st', rep', t, c, e)
  <2>1. e <= st[t].leaderEpoch /\ e <= st'[t].leaderEpoch
    BY <1>1 DEF Bound, VoteStep
  <2>2. e <= st'[t].leaderEpoch /\ ~(st[t].leaderEpoch < e)
    BY <2>1, <1>e
  <2>3. \A d \in Sentinel : Voted(Sentinel, st', rep', t, d, e) => c = d
    BY <1>1, <2>2 DEF Bound, VoteStep
  <2> QED BY <2>2, <2>3 DEF Bound
<1>2. ASSUME NEW t \in Sentinel, NEW c \in Sentinel, NEW e \in Epochs(env) \ forgot', Voted(Sentinel, st', rep', t, c, e)
      PROVE  Bound(Sentinel, st', rep', t, c, e)
  <2>0. e \in Epochs(env) \ forgot
    BY DEF VoteStep
  <2>1. CASE Voted(Sentinel, st, rep, t, c, e)
    BY <1>1, <2>0, <2>1 DEF VoteInv
  <2>2. CASE st[t].leaderEpoch < e /\ e = st'[t].leaderEpoch /\ c = st'[t].leader
    <3>1. e <= st'[t].leaderEpoch /\ ~(e <= st[t].leaderEpoch)
      BY <2>2, <1>e
    <3>2. ASSUME NEW d \in Sentinel, Voted(Sentinel, st', rep', t, d, e) PROVE c = d
      <4>1. ~Voted(Sentinel, st, rep, t, d, e)
        BY <2>0, <3>1 DEF VoteInv, Bound
      <4> QED BY <2>2, <3>2, <4>1 DEF VoteStep
    <3> QED BY <3>1, <3>2 DEF Bound
  <2> QED BY <1>2, <2>1, <2>2 DEF VoteStep
<1>3. Sentinel' = Sentinel /\ Epochs(env') = Epochs(env)
  BY EnvFacts
<1>4. VoteInv'
  BY <1>2, <1>3 DEF VoteInv
<1> QED BY <1>1, <1>4

\* A Sentinel comes back without its vote, and without the epochs that it forgot.
Forgets(x, y) ==
    y.leader = None /\ \A e \in Epochs(env) \ forgot' : e <= x.leaderEpoch => e <= y.leaderEpoch

LEMMA VotesStep ==
  ASSUME Types, MemoryInv,
         \A t \in Sentinel : st'[t].leaderEpoch \in Nat,
         forgot \subseteq forgot',
         \A t \in Sentinel :
            \/ st'[t].leaderEpoch = st[t].leaderEpoch /\ st'[t].leader \in {st[t].leader, None}
            \/ st[t].leaderEpoch < st'[t].leaderEpoch
            \/ Forgets(st[t], st'[t]),
         \A q, t \in Sentinel :
            \/ st'[q].vote[t] = st[q].vote[t] \/ st'[q].vote[t].leader = None
            \/ \E j \in 1..Len(rep[q][t]) :
                  st'[q].vote[t] = [leader |-> rep[q][t][j].leader, epoch |-> rep[q][t][j].epoch],
         \A q, t \in Sentinel : \A i \in 1..Len(rep'[q][t]) :
            \/ \E j \in 1..Len(rep[q][t]) : rep'[q][t][i] = rep[q][t][j]
            \/ rep'[q][t][i].leader = None
            \/ rep'[q][t][i].leader = st'[t].leader /\ rep'[q][t][i].epoch = st'[t].leaderEpoch
  PROVE  VoteStep
<1>1. \A t \in Sentinel : st[t].leaderEpoch \in Nat
  BY EpochFields DEF Types, MemoryInv, Sound
<1>e. \A e \in Epochs(env) : e \in Nat
  BY InEpochs DEF Types
<1>2. ASSUME NEW t \in Sentinel, NEW e \in Epochs(env) \ forgot', e <= st[t].leaderEpoch
      PROVE  e <= st'[t].leaderEpoch
  <2>1. CASE Forgets(st[t], st'[t])
    BY <1>2, <2>1 DEF Forgets
  <2>2. CASE st'[t].leaderEpoch = st[t].leaderEpoch \/ st[t].leaderEpoch < st'[t].leaderEpoch
    BY <1>1, <1>2, <1>e, <2>2
  <2> QED BY <2>1, <2>2
<1>3. ASSUME NEW t \in Sentinel, NEW c \in Sentinel, NEW e \in Epochs(env) \ forgot', Voted(Sentinel, st', rep', t, c, e)
      PROVE  \/ Voted(Sentinel, st, rep, t, c, e)
             \/ st[t].leaderEpoch < e /\ e = st'[t].leaderEpoch /\ c = st'[t].leader
  <2>0. c # None
    BY SentinelAssumption DEF Types, Sentinel, Environment
  <2>1. CASE \E q \in Sentinel : st'[q].vote[t] = [leader |-> c, epoch |-> e]
    <3>1. PICK q \in Sentinel : st'[q].vote[t] = [leader |-> c, epoch |-> e]
      BY <2>1
    <3>2. st'[q].vote[t].leader = c
      BY <3>1
    <3>3. CASE st'[q].vote[t] = st[q].vote[t]
      BY <3>1, <3>3 DEF Voted
    <3>4. CASE \E j \in 1..Len(rep[q][t]) :
                  st'[q].vote[t] = [leader |-> rep[q][t][j].leader, epoch |-> rep[q][t][j].epoch]
      <4>1. PICK j \in 1..Len(rep[q][t]) :
                  st'[q].vote[t] = [leader |-> rep[q][t][j].leader, epoch |-> rep[q][t][j].epoch]
        BY <3>4
      <4>2. rep[q][t][j].leader = c /\ rep[q][t][j].epoch = e
        BY <3>1, <4>1
      <4> QED BY <4>2 DEF Voted
    <3> QED BY <2>0, <3>2, <3>3, <3>4
  <2>2. CASE st'[t].leader = c /\ st'[t].leaderEpoch = e
    BY <2>0, <2>2 DEF Voted, Forgets
  <2>3. CASE \E q \in Sentinel : \E i \in 1..Len(rep'[q][t]) : rep'[q][t][i].leader = c /\ rep'[q][t][i].epoch = e
    <3>0. PICK q \in Sentinel : \E i \in 1..Len(rep'[q][t]) : rep'[q][t][i].leader = c /\ rep'[q][t][i].epoch = e
      BY <2>3
    <3>1. PICK i \in 1..Len(rep'[q][t]) : rep'[q][t][i].leader = c /\ rep'[q][t][i].epoch = e
      BY <3>0
    <3>2. CASE \E j \in 1..Len(rep[q][t]) : rep'[q][t][i] = rep[q][t][j]
      BY <3>1, <3>2 DEF Voted
    <3>3. CASE rep'[q][t][i].leader = st'[t].leader /\ rep'[q][t][i].epoch = st'[t].leaderEpoch
      BY <2>2, <3>1, <3>3
    <3> QED BY <2>0, <3>1, <3>2, <3>3
  <2> QED BY <1>3, <2>1, <2>2, <2>3 DEF Voted
<1> QED BY <1>2, <1>3 DEF VoteStep

\* One Sentinel takes the memory y, replies are lost at most.
RepliesKept ==
    \A q, t \in Sentinel : rep'[q][t] = rep[q][t] \/ rep'[q][t] = <<>>

LEMMA LocalVotes ==
  ASSUME Types, MemoryInv, NEW s \in Sentinel, NEW y, Sound(env, y),
         st' = [st EXCEPT ![s] = y], RepliesKept, forgot \subseteq forgot',
         \/ y.leaderEpoch = st[s].leaderEpoch /\ y.leader \in {st[s].leader, None}
         \/ st[s].leaderEpoch < y.leaderEpoch
         \/ Forgets(st[s], y),
         \A t \in env.sentinels : y.vote[t] = st[s].vote[t] \/ y.vote[t].leader = None
  PROVE  VoteStep
<1>1. st'[s] = y /\ \A t \in Sentinel : t # s => st'[t] = st[t]
  BY DEF Types
<1>2. \A t \in Sentinel : st'[t].leaderEpoch \in Nat
  BY <1>1, EpochFields DEF Types, MemoryInv, Sound
<1>3. \A t \in Sentinel :
            \/ st'[t].leaderEpoch = st[t].leaderEpoch /\ st'[t].leader \in {st[t].leader, None}
            \/ st[t].leaderEpoch < st'[t].leaderEpoch
            \/ Forgets(st[t], st'[t])
  BY <1>1
<1>4. \A q, t \in Sentinel : st'[q].vote[t] = st[q].vote[t] \/ st'[q].vote[t].leader = None
  BY <1>1 DEF Sentinel
<1>5. \A q, t \in Sentinel : \A i \in 1..Len(rep'[q][t]) :
            \E j \in 1..Len(rep[q][t]) : rep'[q][t][i] = rep[q][t][j]
  <2> SUFFICES ASSUME NEW q \in Sentinel, NEW t \in Sentinel, NEW i \in 1..Len(rep'[q][t])
               PROVE  \E j \in 1..Len(rep[q][t]) : rep'[q][t][i] = rep[q][t][j]
    OBVIOUS
  <2>1. rep'[q][t] # <<>>
    OBVIOUS
  <2> QED BY <2>1 DEF RepliesKept
<1> QED BY <1>2, <1>3, <1>4, <1>5, VotesStep

\* What a step does to the configurations.
ConfigStep ==
    /\ kept => kept'
    /\ forgot \subseteq forgot'
    /\ \A s \in Sentinel : \A e \in Epochs(env) \ forgot' :
          LeftBehind(st[s], disk[s], e) => LeftBehind(st'[s], disk'[s], e)
    /\ \A s \in Sentinel : \A e \in Epochs(env) \ forgot' : \A a \in Instance :
          Holds(st'[s], disk'[s], hello'[s], e, a) =>
             \E t \in Sentinel : Holds(st[t], disk[t], hello[t], e, a)

LEMMA RecallFacts ==
  ASSUME env \in Environment, NEW x \in Memory(env), NEW d, Saved(env, x, d)
  PROVE  Recall(x, d) \in Nat /\ Recall(x, d) <= x.cur /\ d.cur \in Nat
<1>1. x.cur \in Nat /\ d.cur \in Nat /\ d.cur <= x.cur
  BY EpochFields, InEpochs DEF Saved, File
<1> QED BY <1>1 DEF Recall

LEMMA LeftForGood ==
  ASSUME env \in Environment, NEW e \in Epochs(env), NEW x, NEW d, NEW y, NEW f,
         Recall(x, d) \in Nat, Recall(y, f) \in Nat, y.fepoch \in Nat,
         Recall(x, d) <= Recall(y, f),
         y.fstate \in Early => (x.fstate \in Early /\ y.fepoch = x.fepoch) \/ Recall(x, d) < y.fepoch,
         LeftBehind(x, d, e)
  PROVE  LeftBehind(y, f, e)
<1>1. e \in Nat
  BY InEpochs
<1>2. e <= Recall(x, d) /\ (x.fstate \in Early => x.fepoch # e)
  BY DEF LeftBehind
<1>3. e <= Recall(y, f)
  BY <1>1, <1>2
<1>4. y.fstate \in Early => y.fepoch # e
  BY <1>1, <1>2
<1> QED BY <1>3, <1>4 DEF LeftBehind

LEMMA ConfigKept ==
  ASSUME Types, MemoryInv, ConfigInv, ConfigStep, EnvKept, led \subseteq led'
  PROVE  ConfigInv'
<1>1. Sentinel' = Sentinel /\ Epochs(env') = Epochs(env) /\ Instance' = Instance
  BY EnvFacts
<1>2. SUFFICES ASSUME Unique(led'), ~kept' PROVE OneConfig' /\ FromLeader'
  BY DEF ConfigInv
<1>3. Unique(led) /\ ~kept
  BY <1>2 DEF Unique, ConfigStep, Types
<1>4. OneConfig /\ FromLeader
  BY <1>3 DEF ConfigInv
<1>5. \A l \in led : l.by \in Sentinel
  BY DEF Types, Ledger, Sentinel
<1>e. \A e \in Epochs(env) \ forgot' : e \in Epochs(env) \ forgot
  BY DEF ConfigStep
<1>6. OneConfig'
  <2> SUFFICES ASSUME NEW s \in Sentinel, NEW t \in Sentinel, NEW e \in Epochs(env) \ forgot',
                      NEW a \in Instance, NEW b \in Instance,
                      Holds(st'[s], disk'[s], hello'[s], e, a), Holds(st'[t], disk'[t], hello'[t], e, b)
               PROVE  a = b
    BY <1>1 DEF OneConfig
  <2>1. PICK q \in Sentinel : Holds(st[q], disk[q], hello[q], e, a)
    BY DEF ConfigStep
  <2>2. PICK r \in Sentinel : Holds(st[r], disk[r], hello[r], e, b)
    BY DEF ConfigStep
  <2> QED BY <1>4, <1>e, <2>1, <2>2 DEF OneConfig
<1>7. FromLeader'
  <2> SUFFICES ASSUME NEW s \in Sentinel, NEW e \in Epochs(env) \ forgot', NEW a \in Instance,
                      Holds(st'[s], disk'[s], hello'[s], e, a), e # 0
               PROVE  \E l \in led' : l.epoch = e /\ LeftBehind(st'[l.by], disk'[l.by], e)
    BY <1>1 DEF FromLeader
  <2>1. PICK q \in Sentinel : Holds(st[q], disk[q], hello[q], e, a)
    BY DEF ConfigStep
  <2>2. PICK l \in led : l.epoch = e /\ LeftBehind(st[l.by], disk[l.by], e)
    BY <1>4, <1>e, <2>1 DEF FromLeader
  <2>3. LeftBehind(st'[l.by], disk'[l.by], e)
    BY <1>5, <2>2 DEF ConfigStep
  <2> QED BY <2>2, <2>3
<1> QED BY <1>6, <1>7

\* The types of what is on its way, and of what is recorded.
Rest(v, q, p, h, r, c, l, k) ==
    /\ q \in [v.sentinels -> [v.sentinels -> Seq(Asked(v))]]
    /\ p \in [v.sentinels -> [v.sentinels -> Seq(Reply(v))]]
    /\ h \in [v.sentinels -> Hello(v)]
    /\ r \in [v.instances -> v.instances]
    /\ c \subseteq [to : v.instances, of : v.instances]
    /\ l \subseteq Ledger(v)
    /\ k \in BOOLEAN

MemoryStep ==
    \A s \in Sentinel :
        /\ Sound(env, st'[s]) /\ st'[s].fstate # "update_config"
        /\ Saved(env, st'[s], disk'[s])
        /\ hello'[s].cfg <= hello'[s].cur

LEMMA Step ==
  ASSUME IInv, EnvKept, MemoryStep, VoteStep, ConfigStep \/ ConfigInv',
         Rest(env, req', rep', hello', role', cmds', led', kept'),
         st' = [s \in Sentinel |-> st'[s]], disk' = [s \in Sentinel |-> disk'[s]],
         led \subseteq led',
         \A s \in Sentinel : \/ NoneLed(st[s], st'[s])
                             \/ \E l \in led' : l.by = s /\ l.epoch = st'[s].fepoch,
         led' = led \/ (LeaderInv' /\ VotesElectOne')
  PROVE  IInv'
<1>1. /\ Sentinel' = Sentinel /\ Instance' = Instance /\ Epochs(env') = Epochs(env)
      /\ Asked(env') = Asked(env) /\ Reply(env') = Reply(env) /\ Hello(env') = Hello(env)
      /\ Ledger(env') = Ledger(env)
  BY EnvFacts
<1>2. Types'
  BY <1>1 DEF IInv, Types, EnvKept, Rest, Sentinel, Instance
<1>3. MemoryInv'
  BY <1>1, EnvFacts DEF MemoryInv, MemoryStep
<1>i. Types /\ MemoryInv /\ VoteInv /\ LeaderInv /\ VotesElectOne /\ LedInv /\ ConfigInv
  BY DEF IInv
<1>n. /\ \A s \in Sentinel : st[s].leaderEpoch \in Nat /\ st'[s].leaderEpoch \in Nat /\ st'[s].fepoch \in Nat
  BY <1>i, EpochFields DEF Types, MemoryInv, MemoryStep, Sound
<1>4. /\ VoteInv'
      /\ \A t, c \in Sentinel : \A e \in Epochs(env) \ forgot' :
            Bound(Sentinel, st, rep, t, c, e) => Bound(Sentinel, st', rep', t, c, e)
  BY <1>i, <1>n, VotesKept DEF Types
<1>5. ConfigInv'
  BY <1>i, <1>n, ConfigKept
<1>6. LedInv'
  <2> SUFFICES ASSUME NEW s \in Sentinel, st'[s].fstate \in Late
               PROVE  \E l \in led' : l.by = s /\ l.epoch = st'[s].fepoch
    BY <1>1 DEF LedInv
  <2> QED BY <1>i DEF LedInv, NoneLed
<1>7. CASE led' = led
  <2>0. forgot \subseteq forgot'
    BY DEF VoteStep
  <2>1. VotesElectOne'
    BY <1>7, <1>i, <2>0 DEF VotesElectOne, Unique
  <2>2. LeaderInv'
    <3> SUFFICES ASSUME NEW l \in led, l.how = "votes", l.epoch \notin forgot'
                 PROVE  \E Q \in Majorities(Sentinel) : \A t \in Q : Bound(Sentinel, st', rep', t, l.by, l.epoch)
      BY <1>1, <1>7 DEF LeaderInv
    <3>1. PICK Q \in Majorities(Sentinel) : \A t \in Q : Bound(Sentinel, st, rep, t, l.by, l.epoch)
      BY <1>i, <2>0 DEF LeaderInv
    <3>2. l.by \in Sentinel /\ l.epoch \in Epochs(env) /\ Q \subseteq Sentinel
      BY <1>i DEF Types, Ledger, Sentinel, Majorities
    <3> QED BY <1>4, <3>1, <3>2
  <2> QED BY <1>2, <1>3, <1>4, <1>5, <1>6, <2>1, <2>2 DEF IInv
<1>8. CASE LeaderInv' /\ VotesElectOne'
  BY <1>2, <1>3, <1>4, <1>5, <1>6, <1>8 DEF IInv
<1> QED BY <1>7, <1>8

LEMMA RestTypes ==
  ASSUME IInv
  PROVE  /\ Rest(env, req, rep, hello, role, cmds, led, kept)
         /\ st = [s \in Sentinel |-> st[s]] /\ disk = [s \in Sentinel |-> disk[s]]
         /\ env \in Environment
BY DEF IInv, Types, Rest, Sentinel, Instance

\* One Sentinel changes its memory to y, and its file to d.
LEMMA LocalFacts ==
  ASSUME IInv, NEW s \in Sentinel, NEW y, NEW d,
         st' = [st EXCEPT ![s] = y], disk' = [disk EXCEPT ![s] = d],
         rep' = rep, hello' = hello, kept' = kept, forgot' = forgot,
         Sound(env, y), y.fstate # "update_config", Follows(env, st[s], y),
         Saved(env, y, d), Recall(st[s], disk[s]) <= Recall(y, d),
         \/ d.cfg = disk[s].cfg /\ d.addr = disk[s].addr
         \/ d.cfg = y.cfg /\ d.addr = Tells(y)
  PROVE  /\ MemoryStep /\ VoteStep /\ ConfigStep
         /\ st' = [t \in Sentinel |-> st'[t]] /\ disk' = [t \in Sentinel |-> disk'[t]]
<1>i. Types /\ MemoryInv
  BY DEF IInv
<1>1. /\ st'[s] = y /\ \A t \in Sentinel : t # s => st'[t] = st[t]
      /\ disk'[s] = d /\ \A t \in Sentinel : t # s => disk'[t] = disk[t]
      /\ st' = [t \in Sentinel |-> st'[t]] /\ disk' = [t \in Sentinel |-> disk'[t]]
  BY <1>i DEF Types
<1>2. MemoryStep
  BY <1>1, <1>i DEF MemoryStep, MemoryInv
<1>v. /\ \/ y.leaderEpoch = st[s].leaderEpoch /\ y.leader \in {st[s].leader, None}
         \/ st[s].leaderEpoch < y.leaderEpoch
      /\ \A t \in env.sentinels : y.vote[t] = st[s].vote[t] \/ y.vote[t].leader = None
  BY DEF Follows
<1>3. VoteStep
  BY <1>i, <1>v, LocalVotes DEF RepliesKept
<1>m. env \in Environment /\ st[s] \in Memory(env) /\ Saved(env, st[s], disk[s]) /\ y \in Memory(env)
  BY <1>i DEF Types, MemoryInv, Sound
<1>n. /\ Recall(st[s], disk[s]) \in Nat /\ Recall(st[s], disk[s]) <= st[s].cur /\ st[s].cur \in Nat
      /\ y.fepoch \in Nat /\ Recall(y, d) \in Nat
  BY <1>m, RecallFacts, EpochFields
<1>4. y.fstate \in Early =>
         (st[s].fstate \in Early /\ y.fepoch = st[s].fepoch) \/ Recall(st[s], disk[s]) < y.fepoch
  BY <1>n DEF Follows
<1>5. ASSUME NEW t \in Sentinel, NEW e \in Epochs(env), LeftBehind(st[t], disk[t], e)
      PROVE  LeftBehind(st'[t], disk'[t], e)
  <2>1. CASE t = s
    <3>1. LeftBehind(st[s], disk[s], e)
      BY <1>5, <2>1
    <3>2. LeftBehind(y, d, e)
      BY <1>m, <1>n, <1>4, <3>1, LeftForGood
    <3> QED BY <1>1, <2>1, <3>2
  <2>2. CASE t # s
    BY <1>1, <1>5, <2>2
  <2> QED BY <2>1, <2>2
<1>6. ASSUME NEW t \in Sentinel, NEW e \in Epochs(env), NEW a \in Instance,
             Holds(st'[t], disk'[t], hello'[t], e, a)
      PROVE  Holds(st[t], disk[t], hello[t], e, a)
  <2>1. CASE t = s
    BY <1>1, <1>6, <2>1 DEF Holds, Follows
  <2>2. CASE t # s
    BY <1>1, <1>6, <2>2
  <2> QED BY <2>1, <2>2
<1>7. ConfigStep
  BY <1>5, <1>6 DEF ConfigStep
<1> QED BY <1>1, <1>2, <1>3, <1>7

LEMMA LocalStep ==
  ASSUME IInv, EnvKept, NEW s \in Sentinel, NEW y, NEW d,
         st' = [st EXCEPT ![s] = y], disk' = [disk EXCEPT ![s] = d],
         rep' = rep, hello' = hello, kept' = kept, role' = role, led' = led, forgot' = forgot,
         req' \in [env.sentinels -> [env.sentinels -> Seq(Asked(env))]],
         cmds' \subseteq [to : env.instances, of : env.instances],
         Sound(env, y), y.fstate # "update_config", Follows(env, st[s], y), NoneLed(st[s], y),
         Saved(env, y, d), Recall(st[s], disk[s]) <= Recall(y, d),
         \/ d.cfg = disk[s].cfg /\ d.addr = disk[s].addr
         \/ d.cfg = y.cfg /\ d.addr = Tells(y)
  PROVE  IInv'
<1>1. /\ MemoryStep /\ VoteStep /\ ConfigStep
      /\ st' = [t \in Sentinel |-> st'[t]] /\ disk' = [t \in Sentinel |-> disk'[t]]
  BY LocalFacts
<1>2. Rest(env, req', rep', hello', role', cmds', led', kept')
  BY RestTypes DEF Rest
<1>3. st'[s] = y /\ \A t \in Sentinel : t # s => st'[t] = st[t]
  BY RestTypes
<1>4. \A t \in Sentinel : NoneLed(st[t], st'[t])
  BY <1>3 DEF NoneLed
<1> QED BY <1>1, <1>2, <1>4, Step

-----------------------------------------------------------------------------
(* The actions.                                                             *)

LEMMA SameEnv ==
  ASSUME env \in Environment, env' = env
  PROVE  EnvKept
BY DEF EnvKept

LEMMA OfSentinel ==
  ASSUME IInv, NEW s \in Sentinel
  PROVE  /\ env \in Environment
         /\ Sound(env, st[s]) /\ st[s].fstate # "update_config" /\ st[s] \in Memory(env)
         /\ Saved(env, st[s], disk[s]) /\ disk[s].cur \in Nat
         /\ disk = [disk EXCEPT ![s] = disk[s]]
<1>1. env \in Environment /\ Sound(env, st[s]) /\ st[s].fstate # "update_config" /\ Saved(env, st[s], disk[s])
  BY DEF IInv, Types, MemoryInv
<1>2. disk[s].cur \in Nat
  BY <1>1, InEpochs DEF Saved, File
<1>3. disk = [disk EXCEPT ![s] = disk[s]]
  BY DEF IInv, Types
<1> QED BY <1>1, <1>2, <1>3 DEF Sound

\* A file that is left alone.
LEMMA KeepFacts ==
  ASSUME env \in Environment, NEW x \in Memory(env), NEW y \in Memory(env), NEW d, Saved(env, x, d),
         y.leaderEpoch = x.leaderEpoch, x.cur <= y.cur
  PROVE  Saved(env, y, d) /\ Recall(x, d) <= Recall(y, d)
<1>1. x.cur \in Nat /\ y.cur \in Nat /\ d.cur \in Nat
  BY EpochFields, InEpochs DEF Saved, File
<1>2. Saved(env, y, d)
  BY <1>1 DEF Saved
<1>3. Recall(x, d) <= Recall(y, d)
  BY <1>1 DEF Recall
<1> QED BY <1>2, <1>3

\* A step of one Sentinel that leaves its file alone.
LEMMA MemoryOnly ==
  ASSUME IInv, EnvKept, NEW s \in Sentinel, NEW y,
         st' = [st EXCEPT ![s] = y], disk' = disk, req' = req,
         rep' = rep, hello' = hello, kept' = kept, role' = role, led' = led, forgot' = forgot,
         cmds' \subseteq [to : env.instances, of : env.instances],
         Sound(env, y), y.fstate # "update_config", Follows(env, st[s], y), NoneLed(st[s], y),
         y.leaderEpoch = st[s].leaderEpoch
  PROVE  IInv'
<1>1. /\ env \in Environment /\ Saved(env, st[s], disk[s]) /\ disk = [disk EXCEPT ![s] = disk[s]]
      /\ st[s] \in Memory(env) /\ y \in Memory(env)
  BY OfSentinel DEF Sound
<1>2. st[s].cur <= y.cur
  BY DEF Follows
<1>4. Saved(env, y, disk[s]) /\ Recall(st[s], disk[s]) <= Recall(y, disk[s])
  BY <1>1, <1>2, KeepFacts
<1>5. req' \in [env.sentinels -> [env.sentinels -> Seq(Asked(env))]]
  BY RestTypes DEF Rest
<1>6. disk' = [disk EXCEPT ![s] = disk[s]]
  BY <1>1
<1> QED BY <1>1, <1>4, <1>5, <1>6, LocalStep

LEMMA SameCmds ==
  ASSUME IInv, cmds' = cmds
  PROVE  cmds' \subseteq [to : env.instances, of : env.instances]
BY RestTypes DEF Rest

\* As MemoryOnly, when nothing changes that the invariant is about.
LEMMA AlikeStep ==
  ASSUME IInv, NEW s \in Sentinel, NEW y \in Memory(env), Alike(st[s], y),
         y.reconf = st[s].reconf, y.vote = st[s].vote,
         st' = [st EXCEPT ![s] = y], UNCHANGED <<disk, req, rep, hello, role, cmds, led, kept, forgot, env>>
  PROVE  IInv'
<1>1. /\ env \in Environment /\ Sound(env, st[s]) /\ st[s].fstate # "update_config"
      /\ st[s] \in Memory(env)
  BY OfSentinel
<1>2. Sound(env, y) /\ Follows(env, st[s], y) /\ NoneLed(st[s], y)
  BY <1>1, AlikeSound, AlikeFollows
<1>3. y.fstate # "update_config" /\ y.leaderEpoch = st[s].leaderEpoch
  BY <1>1 DEF Alike
<1>4. EnvKept
  BY <1>1, SameEnv
<1> QED BY <1>2, <1>3, <1>4, MemoryOnly, SameCmds

LEMMA TiltIInv == ASSUME NEW s \in Sentinel PROVE IInv /\ sentinelCheckTiltCondition(s) => IInv'
<1> SUFFICES ASSUME IInv, sentinelCheckTiltCondition(s) PROVE IInv'
  OBVIOUS
<1> DEFINE y == [st[s] EXCEPT !.tilt = TRUE]
<1>1. st[s] \in Memory(env)
  BY OfSentinel
<1>2. y \in Memory(env) /\ Alike(st[s], y) /\ y.reconf = st[s].reconf /\ y.vote = st[s].vote
  BY <1>1 DEF Memory, Alike
<1>3. st' = [st EXCEPT ![s] = y]
  BY DEF sentinelCheckTiltCondition
<1> HIDE DEF y
<1> QED BY <1>2, <1>3, AlikeStep DEF sentinelCheckTiltCondition

LEMMA DelayIInv == ASSUME NEW s \in Sentinel PROVE IInv /\ DelayOver(s) => IInv'
<1> SUFFICES ASSUME IInv, DelayOver(s) PROVE IInv'
  OBVIOUS
<1> DEFINE y == [st[s] EXCEPT !.wait = FALSE]
<1>1. st[s] \in Memory(env)
  BY OfSentinel
<1>2. y \in Memory(env) /\ Alike(st[s], y) /\ y.reconf = st[s].reconf /\ y.vote = st[s].vote
  BY <1>1 DEF Memory, Alike
<1>3. st' = [st EXCEPT ![s] = y]
  BY DEF DelayOver
<1> HIDE DEF y
<1> QED BY <1>2, <1>3, AlikeStep DEF DelayOver

LEMMA ReconfTimeoutIInv ==
  ASSUME NEW s \in Sentinel, NEW i \in Instance PROVE IInv /\ ReconfTimeout(s, i) => IInv'
<1> SUFFICES ASSUME IInv, ReconfTimeout(s, i) PROVE IInv'
  OBVIOUS
<1> DEFINE y == [st[s] EXCEPT !.slow = st[s].slow \union {i}]
<1>1. st[s] \in Memory(env)
  BY OfSentinel
<1>2. y \in Memory(env) /\ Alike(st[s], y) /\ y.reconf = st[s].reconf /\ y.vote = st[s].vote
  BY <1>1 DEF Memory, Alike, Instance
<1>3. st' = [st EXCEPT ![s] = y]
  BY DEF ReconfTimeout
<1> HIDE DEF y
<1> QED BY <1>2, <1>3, AlikeStep DEF ReconfTimeout

LEMMA InfoFromMasterIInv == ASSUME NEW s \in Sentinel PROVE IInv /\ InfoFromMaster(s) => IInv'
<1> SUFFICES ASSUME IInv, InfoFromMaster(s) PROVE IInv'
  OBVIOUS
<1> DEFINE b == IF role[st[s].addr] = st[s].addr THEN "master" ELSE "slave"
           y == [st[s] EXCEPT !.mrole = b]
<1>1. st[s] \in Memory(env)
  BY OfSentinel
<1>b. b \in {"master", "slave"}
  OBVIOUS
<1> HIDE DEF b
<1>2. y \in Memory(env) /\ Alike(st[s], y) /\ y.reconf = st[s].reconf /\ y.vote = st[s].vote
  BY <1>1, <1>b DEF Memory, Alike
<1>3. st' = [st EXCEPT ![s] = y]
  BY DEF InfoFromMaster, b
<1> HIDE DEF y
<1> QED BY <1>2, <1>3, AlikeStep DEF InfoFromMaster

LEMMA SentinelFailoverIInv == ASSUME NEW s \in Sentinel PROVE IInv /\ SentinelFailover(s) => IInv'
<1> SUFFICES ASSUME IInv, SentinelFailover(s) PROVE IInv'
  OBVIOUS
<1> DEFINE y == [sentinelStartFailover(st[s]) EXCEPT !.forced = TRUE]
<1>1. env \in Environment /\ Sound(env, st[s]) /\ st[s].fstate = "none" /\ st[s].cur < env.epoch
  BY OfSentinel DEF SentinelFailover
<1>2. /\ Sound(env, y) /\ Follows(env, st[s], y) /\ NoneLed(st[s], y)
      /\ y.fstate = "wait_start" /\ y.leaderEpoch = st[s].leaderEpoch
  BY <1>1, StartFacts
<1>3. st' = [st EXCEPT ![s] = y]
  BY DEF SentinelFailover
<1> HIDE DEF y
<1>4. EnvKept
  BY <1>1, SameEnv DEF SentinelFailover
<1> QED BY <1>2, <1>3, <1>4, MemoryOnly, SameCmds DEF SentinelFailover

LEMMA TellsFacts ==
  ASSUME env \in Environment, NEW x, Sound(env, x), x.fstate # "update_config"
  PROVE  CurrentAddr(x) = Tells(x) /\ Tells(x) \in env.instances
<1>1. CurrentAddr(x) = Tells(x)
  BY DEF CurrentAddr, Tells, Settled
<1>2. x.addr \in env.instances /\ x.promoted \in env.instances \union {None}
  BY DEF Sound, Memory
<1>3. Tells(x) \in env.instances
  BY <1>2 DEF Tells, Settled, Chosen, Sound
<1> QED BY <1>1, <1>3

\* A flush that may fail: what can be recalled after it is all that is known.
LEMMA FlushFacts ==
  ASSUME env \in Environment, NEW x \in Memory(env), NEW d, Saved(env, x, d), NEW s,
         NEW y, Sound(env, y), y.fstate # "update_config", x.cur <= y.cur, NEW f \in Flushes(s, d, y)
  PROVE  /\ Saved(env, y, f) /\ Recall(y, f) = y.cur /\ Recall(x, d) <= Recall(y, f)
         /\ \/ f.cfg = d.cfg /\ f.addr = d.addr
            \/ f.cfg = y.cfg /\ f.addr = Tells(y)
<1>0. y \in Memory(env)
  BY DEF Sound
<1>1. y.cur \in Epochs(env) /\ y.leaderEpoch \in Epochs(env) /\ y.cfg \in Epochs(env)
  BY <1>0 DEF Memory
<1>2. y.cur \in Nat /\ x.cur \in Nat /\ Recall(x, d) \in Nat /\ Recall(x, d) <= x.cur /\ d.cur \in Nat
  BY <1>0, EpochFields, RecallFacts
<1>3. CASE f = sentinelFlushConfig(y)
  <2>1. f = [cur |-> y.cur, leaderEpoch |-> y.leaderEpoch, cfg |-> y.cfg, addr |-> Tells(y), stale |-> FALSE]
    BY <1>3, TellsFacts DEF sentinelFlushConfig
  <2>2. /\ f.cur = y.cur /\ f.leaderEpoch = y.leaderEpoch /\ f.cfg = y.cfg /\ f.addr = Tells(y)
        /\ f.stale = FALSE
    BY <2>1
  <2>3. f \in File(env)
    BY <1>1, <2>1, TellsFacts DEF File
  <2>4. f.cur <= y.cur
    BY <1>2, <2>2
  <2>5. Saved(env, y, f)
    BY <2>2, <2>3, <2>4 DEF Saved, Sound
  <2>6. Recall(y, f) = y.cur
    BY <2>2 DEF Recall
  <2> QED BY <1>2, <2>2, <2>5, <2>6
<1>4. CASE f = [d EXCEPT !.stale = TRUE]
  <2>0. d \in File(env) /\ d.cfg <= d.cur /\ d.leaderEpoch <= d.cur /\ d.cur <= x.cur
    BY DEF Saved
  <2>1. /\ f \in File(env) /\ f.cur = d.cur /\ f.leaderEpoch = d.leaderEpoch /\ f.cfg = d.cfg
        /\ f.addr = d.addr /\ f.stale = TRUE
    BY <1>4, <2>0 DEF File
  <2>2. f.cur <= y.cur
    BY <1>2, <2>0, <2>1
  <2>3. Saved(env, y, f)
    BY <2>0, <2>1, <2>2 DEF Saved
  <2>4. Recall(y, f) = y.cur
    BY <2>1 DEF Recall
  <2> QED BY <1>2, <2>1, <2>3, <2>4
<1> QED BY <1>3, <1>4 DEF Flushes

\* The promoted slave says it is a master: the configuration of the epoch
\* of the failover is born, and nobody had one of that epoch.
Acked(x, y) == y = [x EXCEPT !.cfg = x.fepoch, !.fstate = "reconf"]

LEMMA AckIInv ==
  ASSUME IInv, NEW s \in Sentinel, NEW y, st[s].fstate = "wait_promotion", Acked(st[s], y),
         NEW d \in Flushes(s, disk[s], y),
         st' = [st EXCEPT ![s] = y], disk' = [disk EXCEPT ![s] = d],
         UNCHANGED <<req, rep, hello, role, cmds, led, kept, forgot, env>>
  PROVE  IInv'
<1> DEFINE x == st[s]
           e0 == x.fepoch
<1>1. /\ env \in Environment /\ Sound(env, x) /\ x \in Memory(env)
      /\ Saved(env, x, disk[s])
  BY OfSentinel
<1>2. x.promoted # None /\ e0 # 0 /\ e0 <= x.cur /\ x.leaderEpoch <= x.cur
  BY <1>1 DEF Sound, Chosen
<1>3. x.promoted \in env.instances
  BY <1>1, <1>2 DEF Memory
<1>4. y \in Memory(env)
  BY <1>1 DEF Memory, Settled, Acked
<1>5. /\ y.cfg = e0 /\ y.fstate = "reconf" /\ y.cur = x.cur /\ y.leaderEpoch = x.leaderEpoch
      /\ y.leader = x.leader /\ y.vote = x.vote /\ y.fepoch = e0 /\ y.promoted = x.promoted
      /\ y.addr = x.addr /\ y.reconf = x.reconf
  BY <1>1 DEF Memory, Acked
<1>6. Syncing(env, y) = Syncing(env, x)
  BY <1>5 DEF Syncing
<1>7. Sound(env, y)
  BY <1>1, <1>2, <1>4, <1>5, <1>6 DEF Sound, Settled
<1>8. Tells(y) = x.promoted
  BY <1>5 DEF Tells, Settled
<1>10. x.cur \in Nat /\ e0 \in Nat /\ e0 \in Epochs(env) /\ x.cur <= y.cur
  BY <1>1, <1>5, EpochFields DEF Memory
<1>11. /\ Saved(env, y, d) /\ Recall(y, d) = x.cur
       /\ \/ d.cfg = disk[s].cfg /\ d.addr = disk[s].addr
          \/ d.cfg = e0 /\ d.addr = x.promoted
  <2>1. y.fstate # "update_config"
    BY <1>5
  <2>2. /\ Saved(env, y, d) /\ Recall(y, d) = y.cur
        /\ \/ d.cfg = disk[s].cfg /\ d.addr = disk[s].addr
           \/ d.cfg = y.cfg /\ d.addr = Tells(y)
    <3> DEFINE b == disk[s]
    <3>1. Saved(env, x, b) /\ d \in Flushes(s, b, y)
      BY <1>1
    <3> HIDE DEF b, x
    <3>2. /\ Saved(env, y, d) /\ Recall(y, d) = y.cur
          /\ \/ d.cfg = b.cfg /\ d.addr = b.addr
             \/ d.cfg = y.cfg /\ d.addr = Tells(y)
      <4>1. env \in Environment /\ x \in Memory(env) /\ x.cur <= y.cur
        BY <1>1, <1>10
      <4> HIDE DEF e0
      <4> QED BY <1>7, <2>1, <3>1, <4>1, FlushFacts
    <3> QED BY <3>2 DEF b
  <2>3. y.cur = x.cur /\ y.cfg = e0
    BY <1>5
  <2> QED BY <1>8, <2>2, <2>3
<1>i. Types /\ MemoryInv /\ LedInv /\ ConfigInv
  BY DEF IInv
<1>12. /\ st'[s] = y /\ \A t \in Sentinel : t # s => st'[t] = st[t]
       /\ disk'[s] = d /\ \A t \in Sentinel : t # s => disk'[t] = disk[t]
       /\ st' = [t \in Sentinel |-> st'[t]] /\ disk' = [t \in Sentinel |-> disk'[t]]
  BY <1>i DEF Types
<1>13. MemoryStep
  BY <1>5, <1>7, <1>11, <1>12, <1>i DEF MemoryStep, MemoryInv
<1>14. VoteStep
  BY <1>5, <1>7, <1>i, LocalVotes DEF RepliesKept
<1>15. ConfigInv'
  <2>1. Sentinel' = Sentinel /\ Epochs(env') = Epochs(env) /\ Instance' = Instance
    BY DEF Sentinel, Instance
  <2>2. SUFFICES ASSUME Unique(led), ~kept PROVE OneConfig' /\ FromLeader'
    BY DEF ConfigInv
  <2>3. OneConfig /\ FromLeader
    BY <2>2, <1>i DEF ConfigInv
  <2>4. PICK l0 \in led : l0.by = s /\ l0.epoch = e0
    BY <1>i DEF LedInv, Late
  <2>5. ASSUME NEW t \in Sentinel, NEW a \in Instance, Holds(st[t], disk[t], hello[t], e0, a), e0 \notin forgot
        PROVE  FALSE
    <3>1. PICK l \in led : l.epoch = e0 /\ LeftBehind(st[l.by], disk[l.by], e0)
      BY <1>2, <1>10, <2>3, <2>5 DEF FromLeader
    <3>2. l.by = s
      BY <2>2, <2>4, <3>1 DEF Unique
    <3> QED BY <3>1, <3>2 DEF LeftBehind, Early
  <2>6. ASSUME NEW t \in Sentinel, NEW e, NEW a, Holds(st'[t], disk'[t], hello'[t], e, a)
        PROVE  Holds(st[t], disk[t], hello[t], e, a) \/ (e = e0 /\ a = x.promoted)
    <3>1. CASE t = s
      BY <1>5, <1>8, <1>11, <1>12, <2>6, <3>1 DEF Holds
    <3>2. CASE t # s
      BY <1>12, <2>6, <3>2
    <3> QED BY <3>1, <3>2
  <2>7. OneConfig'
    <3> SUFFICES ASSUME NEW t \in Sentinel, NEW u \in Sentinel, NEW e \in Epochs(env) \ forgot,
                        NEW a \in Instance, NEW b \in Instance,
                        Holds(st'[t], disk'[t], hello'[t], e, a), Holds(st'[u], disk'[u], hello'[u], e, b)
                 PROVE  a = b
      BY <2>1 DEF OneConfig
    <3>1. Holds(st[t], disk[t], hello[t], e, a) \/ (e = e0 /\ a = x.promoted)
      BY <2>6
    <3>2. Holds(st[u], disk[u], hello[u], e, b) \/ (e = e0 /\ b = x.promoted)
      BY <2>6
    <3> QED BY <2>3, <2>5, <3>1, <3>2 DEF OneConfig
  <2>8. \A l \in led : l.by \in Sentinel
    BY <1>i DEF Types, Ledger, Sentinel
  <2>9. FromLeader'
    <3> SUFFICES ASSUME NEW t \in Sentinel, NEW e \in Epochs(env) \ forgot, NEW a \in Instance,
                        Holds(st'[t], disk'[t], hello'[t], e, a), e # 0
                 PROVE  \E l \in led : l.epoch = e /\ LeftBehind(st'[l.by], disk'[l.by], e)
      BY <2>1 DEF FromLeader
    <3>1. CASE e = e0
      <4>1. LeftBehind(st'[s], disk'[s], e0)
        BY <1>2, <1>5, <1>11, <1>12 DEF LeftBehind, Early
      <4> QED BY <2>4, <3>1, <4>1
    <3>2. CASE e # e0
      <4>1. Holds(st[t], disk[t], hello[t], e, a)
        BY <2>6, <3>2
      <4>2. PICK l \in led : l.epoch = e /\ LeftBehind(st[l.by], disk[l.by], e)
        BY <2>3, <4>1 DEF FromLeader
      <4>3. CASE l.by # s
        BY <1>12, <2>8, <4>2, <4>3
      <4>4. CASE l.by = s
        <5>1. e <= Recall(x, disk[s]) /\ e \in Nat
          BY <1>1, <4>2, <4>4, InEpochs DEF LeftBehind
        <5>2. Recall(x, disk[s]) \in Nat /\ Recall(x, disk[s]) <= x.cur
          BY <1>1, RecallFacts
        <5>3. e <= Recall(y, d)
          BY <1>10, <1>11, <5>1, <5>2
        <5>4. LeftBehind(st'[s], disk'[s], e)
          BY <1>5, <1>12, <5>3 DEF LeftBehind, Early
        <5> QED BY <4>2, <4>4, <5>4
      <4> QED BY <4>3, <4>4
    <3> QED BY <3>1, <3>2
  <2> QED BY <2>7, <2>9
<1>16. \A t \in Sentinel : NoneLed(st[t], st'[t])
  BY <1>5, <1>12 DEF NoneLed, Late
<1>17. EnvKept
  BY <1>1, SameEnv
<1>18. Rest(env, req', rep', hello', role', cmds', led', kept')
  BY RestTypes DEF Rest
<1> QED BY <1>12, <1>13, <1>14, <1>15, <1>16, <1>17, <1>18, Step

\* An INFO reply of a slave that moves its reconfiguration on.
Moved(x, i, repointed, linkup) ==
    LET f == Progress(x.reconf[i], repointed, linkup)
    IN  [x EXCEPT !.reconf[i] = f, !.slow = IF "sent" \in f THEN @ ELSE @ \ {i}]

LEMMA ProgressFacts ==
  ASSUME IInv, NEW s \in Sentinel, NEW i \in Instance,
         NEW rp \in BOOLEAN, NEW linkup \in BOOLEAN, NEW y,
         y = Moved(st[s], i, rp, linkup)
  PROVE  /\ Sound(env, y) /\ Follows(env, st[s], y) /\ NoneLed(st[s], y)
         /\ y.fstate = st[s].fstate /\ y.leaderEpoch = st[s].leaderEpoch
<1> DEFINE x == st[s]
           f == Progress(x.reconf[i], rp, linkup)
           r == [x.reconf EXCEPT ![i] = f]
           w == IF "sent" \in f THEN x.slow ELSE x.slow \ {i}
<1>1. env \in Environment /\ Sound(env, x) /\ x \in Memory(env)
  BY OfSentinel
<1>2. x.reconf \in [env.instances -> SUBSET Flags] /\ i \in env.instances /\ x.slow \in SUBSET env.instances
  BY <1>1 DEF Memory, Instance
<1>3. /\ f \in SUBSET Flags
      /\ f \intersect {"sent", "inprog"} # {} => x.reconf[i] \intersect {"sent", "inprog"} # {}
      /\ x.reconf[i] = {} => f = {}
  BY <1>2 DEF Progress, Flags
<1>y. y = [x EXCEPT !.reconf = r, !.slow = w]
  BY <1>1, <1>2 DEF Memory, Moved
<1> HIDE DEF f
<1>4. /\ r \in [env.instances -> SUBSET Flags] /\ r[i] = f
      /\ \A j \in env.instances : j # i => r[j] = x.reconf[j]
  BY <1>2, <1>3
<1>5. w \in SUBSET env.instances
  BY <1>2
<1> HIDE DEF r, w
<1>6. y \in Memory(env)
  BY <1>1, <1>4, <1>5, <1>y DEF Memory
<1>7. Alike(x, y) /\ y.reconf = r /\ y.vote = x.vote
  BY <1>1, <1>y DEF Memory, Alike
<1>8. Follows(env, x, y) /\ NoneLed(x, y)
  BY <1>1, <1>6, <1>7, AlikeFollows
<1>9. Sound(env, y)
  <2>1. CASE x.fstate \in Settled
    <3>1. Syncing(env, y) \subseteq Syncing(env, x)
      BY <1>3, <1>4, <1>7 DEF Syncing, Alike
    <3>2. Cardinality(Syncing(env, y)) <= Cardinality(Syncing(env, x)) /\ Cardinality(Syncing(env, y)) \in Nat
      BY <1>1, <3>1, FiniteSyncing, FS_Subset
    <3>3. Cardinality(Syncing(env, x)) <= env.parallel /\ Cardinality(Syncing(env, x)) \in Nat /\ env.parallel \in Nat
      BY <1>1, FiniteSyncing DEF Sound, Environment
    <3>4. Cardinality(Syncing(env, y)) <= env.parallel
      BY <3>2, <3>3
    <3> QED BY <1>1, <1>6, <1>7, <2>1, <3>4, AlikeSound
  <2>2. CASE x.fstate \notin Settled
    <3>1. \A j \in env.instances : x.reconf[j] = {}
      BY <1>1, <2>2 DEF Sound
    <3>a. \A j \in env.instances : r[j] = x.reconf[j]
      BY <1>2, <1>3, <1>4, <3>1
    <3>2. r = x.reconf
      BY <1>2, <1>4, <3>a
    <3> QED BY <1>1, <1>6, <1>7, <3>2, AlikeSound
  <2> QED BY <2>1, <2>2
<1> QED BY <1>7, <1>8, <1>9 DEF Alike

LEMMA InfoFromSlaveIInv ==
  ASSUME NEW s \in Sentinel, NEW i \in Instance PROVE IInv /\ InfoFromSlave(s, i) => IInv'
<1> SUFFICES ASSUME IInv, InfoFromSlave(s, i) PROVE IInv'
  OBVIOUS
<1> DEFINE x == st[s]
           isMaster == role[i] = i
           acked == isMaster /\ AckPromotion(x, i)
           wrong == IF isMaster THEN ~acked /\ x.promoted # i ELSE role[i] # x.addr
           Fix(fix) == IF fix /\ wrong /\ sentinelMasterLooksSane(x) /\ env.fix > 0
                       THEN /\ cmds' = cmds \union Tell({i}, x.addr)
                            /\ env' = [env EXCEPT !.fix = @ - 1]
                       ELSE UNCHANGED <<cmds, env>>
<1>1. PICK fix \in BOOLEAN, linkup \in BOOLEAN :
        /\ st' = [st EXCEPT ![s] = IF acked THEN [x EXCEPT !.cfg = x.fepoch, !.fstate = "reconf"]
                                   ELSE IF isMaster THEN x ELSE Moved(x, i, role[i] = x.promoted, linkup)]
        /\ IF acked THEN \E d \in Flushes(s, disk[s], [x EXCEPT !.cfg = x.fepoch, !.fstate = "reconf"]) :
                            disk' = [disk EXCEPT ![s] = d]
                    ELSE disk' = disk
        /\ Fix(fix)
  BY DEF InfoFromSlave, Moved
<1>2. UNCHANGED <<req, rep, hello, role, led, kept, forgot>>
  BY DEF InfoFromSlave
<1>3. /\ env \in Environment /\ Sound(env, x) /\ x.fstate # "update_config" /\ x \in Memory(env)
  BY OfSentinel
<1>4. CASE acked
  <2>1. x.fstate = "wait_promotion"
    BY <1>4 DEF AckPromotion
  <2>2. UNCHANGED <<cmds, env>>
    BY <1>1, <1>4
  <2>3. /\ st' = [st EXCEPT ![s] = [x EXCEPT !.cfg = x.fepoch, !.fstate = "reconf"]]
        /\ \E d \in Flushes(s, disk[s], [x EXCEPT !.cfg = x.fepoch, !.fstate = "reconf"]) :
              disk' = [disk EXCEPT ![s] = d]
    BY <1>1, <1>4
  <2> DEFINE y == [x EXCEPT !.cfg = x.fepoch, !.fstate = "reconf"]
  <2>4. Acked(st[s], y)
    BY DEF Acked
  <2>5. PICK d \in Flushes(s, disk[s], y) : disk' = [disk EXCEPT ![s] = d]
    BY <2>3
  <2>6. st' = [st EXCEPT ![s] = y] /\ st[s].fstate = "wait_promotion"
    BY <2>1, <2>3
  <2> HIDE DEF acked, y, x
  <2> QED BY <1>2, <2>2, <2>4, <2>5, <2>6, AckIInv
<1>5. CASE ~acked
  <2>1. EnvKept /\ cmds' \subseteq [to : env.instances, of : env.instances]
    <3>0. cmds \subseteq [to : env.instances, of : env.instances]
      BY RestTypes DEF Rest
    <3>1. CASE UNCHANGED <<cmds, env>>
      BY <1>3, <3>0, <3>1, SameEnv
    <3>2. CASE /\ cmds' = cmds \union Tell({i}, x.addr) /\ env.fix > 0
               /\ env' = [env EXCEPT !.fix = @ - 1]
      <4>1. x.addr \in env.instances /\ i \in env.instances
        BY <1>3 DEF Memory, Instance
      <4>2. env.fix - 1 \in Nat
        BY <1>3, <3>2 DEF Environment
      <4>3. EnvKept
        BY <1>3, <3>2, <4>2 DEF EnvKept, Environment
      <4> QED BY <3>0, <3>2, <4>1, <4>3 DEF Tell
    <3> QED BY <1>1, <3>1, <3>2
  <2>2. PICK y : /\ st' = [st EXCEPT ![s] = y]
                 /\ Sound(env, y) /\ Follows(env, x, y) /\ NoneLed(x, y)
                 /\ y.fstate = x.fstate /\ y.leaderEpoch = x.leaderEpoch
    <3>1. CASE isMaster
      <4>1. st' = [st EXCEPT ![s] = x]
        BY <1>1, <1>5, <3>1
      <4>2. Follows(env, x, x) /\ NoneLed(x, x)
        BY <1>3, AlikeFollows DEF Alike
      <4> QED BY <1>3, <4>1, <4>2
    <3>2. CASE ~isMaster
      <4> DEFINE y == Moved(x, i, role[i] = x.promoted, linkup)
      <4>1. st' = [st EXCEPT ![s] = y]
        BY <1>1, <1>5, <3>2
      <4>y. PICK b \in BOOLEAN : y = Moved(x, i, b, linkup)
        <5>1. CASE role[i] = x.promoted
          <6>1. y = Moved(x, i, TRUE, linkup)
            BY <5>1 DEF Moved, Progress
          <6> QED BY <6>1
        <5>2. CASE role[i] # x.promoted
          <6>1. y = Moved(x, i, FALSE, linkup)
            BY <5>2 DEF Moved, Progress
          <6> QED BY <6>1
        <5> QED BY <5>1, <5>2
      <4> HIDE DEF y
      <4>3. /\ Sound(env, y) /\ Follows(env, x, y) /\ NoneLed(x, y)
            /\ y.fstate = x.fstate /\ y.leaderEpoch = x.leaderEpoch
        BY <4>y, ProgressFacts
      <4> QED BY <4>1, <4>3
    <3> QED BY <3>1, <3>2
  <2>3. disk' = disk
    BY <1>1, <1>5
  <2> QED BY <1>2, <1>3, <2>1, <2>2, <2>3, MemoryOnly
<1> QED BY <1>4, <1>5

-----------------------------------------------------------------------------
(* Links, commands and hello messages.                                      *)

\* Nothing happens in the Sentinels, replies are lost at most.
LEMMA MailStep ==
  ASSUME IInv, EnvKept, UNCHANGED <<st, disk, hello, led, kept, forgot>>, RepliesKept,
         Rest(env, req', rep', hello', role', cmds', led', kept')
  PROVE  IInv'
<1>i. Types /\ MemoryInv
  BY DEF IInv
<1>1. MemoryStep
  BY <1>i DEF MemoryStep, MemoryInv
<1>2. VoteStep
  <2>1. \A t \in Sentinel : st[t].leaderEpoch \in Nat
    BY <1>i, EpochFields DEF Types, MemoryInv, Sound
  <2>2. \A q, t \in Sentinel : \A i \in 1..Len(rep'[q][t]) :
              \E j \in 1..Len(rep[q][t]) : rep'[q][t][i] = rep[q][t][j]
    <3> SUFFICES ASSUME NEW q \in Sentinel, NEW t \in Sentinel, NEW i \in 1..Len(rep'[q][t])
                 PROVE  \E j \in 1..Len(rep[q][t]) : rep'[q][t][i] = rep[q][t][j]
      OBVIOUS
    <3>1. rep'[q][t] # <<>>
      OBVIOUS
    <3> QED BY <3>1 DEF RepliesKept
  <2> QED BY <1>i, <2>1, <2>2, VotesStep
<1>3. ConfigStep
  BY DEF ConfigStep
<1>4. \A s \in Sentinel : NoneLed(st[s], st'[s])
  BY DEF NoneLed
<1>5. st' = [s \in Sentinel |-> st'[s]] /\ disk' = [s \in Sentinel |-> disk'[s]]
  BY <1>i DEF Types
<1> QED BY <1>1, <1>2, <1>3, <1>4, <1>5, Step

LEMMA LossCounted ==
  ASSUME env \in Environment, env.loss > 0, env' = [env EXCEPT !.loss = @ - 1]
  PROVE  EnvKept
<1>1. env.loss - 1 \in Nat
  BY DEF Environment
<1> QED BY <1>1 DEF EnvKept, Environment

LEMMA LoseLinkIInv ==
  ASSUME NEW s \in Sentinel, NEW t \in Others(s) PROVE IInv /\ LoseLink(s, t) => IInv'
<1> SUFFICES ASSUME IInv, LoseLink(s, t) PROVE IInv'
  OBVIOUS
<1>1. EnvKept
  BY RestTypes, LossCounted DEF LoseLink
<1>t. t \in Sentinel
  BY DEF Others
<1>2. Rest(env, req', rep', hello', role', cmds', led', kept')
  <2>1. /\ req' \in [env.sentinels -> [env.sentinels -> Seq(Asked(env))]]
        /\ rep' \in [env.sentinels -> [env.sentinels -> Seq(Reply(env))]]
    BY <1>t, RestTypes DEF Rest, LoseLink, Sentinel
  <2> QED BY <2>1, RestTypes DEF Rest, LoseLink
<1>3. RepliesKept
  BY <1>t, RestTypes DEF Rest, LoseLink, Sentinel, RepliesKept
<1> QED BY <1>1, <1>2, <1>3, MailStep DEF LoseLink

LEMMA CommandIInv ==
  ASSUME NEW c \in cmds PROVE IInv /\ (Slaveof(c) \/ LoseCommand(c)) => IInv'
<1> SUFFICES ASSUME IInv, Slaveof(c) \/ LoseCommand(c) PROVE IInv'
  OBVIOUS
<1>0. RepliesKept /\ UNCHANGED <<st, disk, req, rep, hello, led, kept, forgot>>
  BY DEF Slaveof, LoseCommand, RepliesKept
<1>1. EnvKept
  BY RestTypes, LossCounted, SameEnv DEF Slaveof, LoseCommand
<1>2. c.to \in env.instances /\ c.of \in env.instances
  BY RestTypes DEF Rest
<1>3. role' \in [env.instances -> env.instances] /\ cmds' \subseteq [to : env.instances, of : env.instances]
  BY <1>2, RestTypes DEF Slaveof, LoseCommand, Rest
<1>4. Rest(env, req', rep', hello', role', cmds', led', kept')
  BY <1>0, <1>3, RestTypes DEF Rest
<1> QED BY <1>0, <1>1, <1>4, MailStep

LEMMA LinkUpIInv == ASSUME NEW i \in Instance PROVE IInv /\ LinkUp(i) => IInv'
<1> SUFFICES ASSUME IInv, LinkUp(i) PROVE IInv'
  OBVIOUS
<1>0. RepliesKept /\ UNCHANGED <<st, disk, req, rep, hello, role, cmds, led, kept, forgot, env>>
  BY DEF LinkUp, RepliesKept
<1>1. EnvKept
  BY <1>0, RestTypes, SameEnv
<1>2. Rest(env, req', rep', hello', role', cmds', led', kept')
  BY <1>0, RestTypes DEF Rest
<1> QED BY <1>0, <1>1, <1>2, MailStep

LEMMA SendHelloIInv == ASSUME NEW s \in Sentinel PROVE IInv /\ sentinelSendHello(s) => IInv'
<1> SUFFICES ASSUME IInv, sentinelSendHello(s) PROVE IInv'
  OBVIOUS
<1> DEFINE h == Says(st[s])
<1>i. Types /\ MemoryInv
  BY DEF IInv
<1>1. /\ env \in Environment /\ Sound(env, st[s]) /\ st[s].fstate # "update_config"
      /\ st[s] \in Memory(env)
  BY OfSentinel
<1>2. h = [cur |-> st[s].cur, addr |-> Tells(st[s]), cfg |-> st[s].cfg]
  BY <1>1, TellsFacts DEF Says
<1>3. hello' = [hello EXCEPT ![s] = h] /\ UNCHANGED <<st, disk, req, rep, role, cmds, led, kept, forgot>>
  BY DEF sentinelSendHello
<1> HIDE DEF h
<1>4. h \in Hello(env) /\ h.cfg <= h.cur /\ h.cfg = st[s].cfg /\ h.addr = Tells(st[s])
  BY <1>1, <1>2, TellsFacts DEF Hello, Memory, Sound
<1>5. EnvKept
  <2>1. env.hello - 1 \in Nat
    BY <1>1 DEF Environment, sentinelSendHello
  <2> QED BY <1>1, <2>1 DEF EnvKept, Environment, sentinelSendHello
<1>6. hello \in [Sentinel -> Hello(env)]
  BY RestTypes DEF Rest, Sentinel
<1>7. /\ hello'[s] = h /\ \A t \in Sentinel : t # s => hello'[t] = hello[t]
      /\ hello' \in [Sentinel -> Hello(env)]
  BY <1>3, <1>4, <1>6
<1>8. Rest(env, req', rep', hello', role', cmds', led', kept')
  BY <1>3, <1>7, RestTypes DEF Rest, Sentinel
<1>9. MemoryStep
  BY <1>3, <1>4, <1>7, <1>i DEF MemoryStep, MemoryInv
<1>10. VoteStep
  <2>1. \A t \in Sentinel : st[t].leaderEpoch \in Nat
    BY <1>i, EpochFields DEF Types, MemoryInv, Sound
  <2> QED BY <1>3, <1>i, <2>1, VotesStep
<1>11. ConfigStep
  <2>2. ASSUME NEW t \in Sentinel, NEW e, NEW a, Holds(st'[t], disk'[t], hello'[t], e, a)
        PROVE  Holds(st[t], disk[t], hello[t], e, a)
    BY <1>3, <1>4, <1>7, <2>2 DEF Holds
  <2> QED BY <1>3, <2>2 DEF ConfigStep
<1>12. \A t \in Sentinel : NoneLed(st[t], st'[t])
  BY <1>3 DEF NoneLed
<1>13. st' = [t \in Sentinel |-> st'[t]] /\ disk' = [t \in Sentinel |-> disk'[t]]
  BY <1>3, <1>i DEF Types
<1> QED BY <1>3, <1>5, <1>8, <1>9, <1>10, <1>11, <1>12, <1>13, Step

\* One Sentinel takes a configuration that somebody has.
LEMMA TakeConfig ==
  ASSUME IInv, EnvKept, NEW s \in Sentinel, NEW y, NEW d,
         st' = [st EXCEPT ![s] = y], disk' = [disk EXCEPT ![s] = d],
         hello' = hello, led' = led, kept => kept', VoteStep,
         Rest(env, req', rep', hello', role', cmds', led', kept'),
         Sound(env, y), y.fstate # "update_config", Saved(env, y, d), forgot \subseteq forgot',
         \/ Recall(st[s], disk[s]) <= Recall(y, d)
         \/ \A e \in Epochs(env) \ forgot' : e <= Recall(st[s], disk[s]) => e <= Recall(y, d),
         y.fstate = "none" \/ (y.fstate = st[s].fstate /\ y.fepoch = st[s].fepoch),
         kept' \/ \A e, a : Holds(y, d, hello[s], e, a) =>
                     \E t \in Sentinel : Holds(st[t], disk[t], hello[t], e, a)
  PROVE  IInv'
<1>i. Types /\ MemoryInv
  BY DEF IInv
<1>1. /\ st'[s] = y /\ \A t \in Sentinel : t # s => st'[t] = st[t]
      /\ disk'[s] = d /\ \A t \in Sentinel : t # s => disk'[t] = disk[t]
      /\ st' = [t \in Sentinel |-> st'[t]] /\ disk' = [t \in Sentinel |-> disk'[t]]
  BY <1>i DEF Types
<1>2. MemoryStep
  BY <1>1, <1>i DEF MemoryStep, MemoryInv
<1>4. \A t \in Sentinel : NoneLed(st[t], st'[t])
  BY <1>1 DEF NoneLed, Late
<1>5. ConfigStep \/ ConfigInv'
  <2>1. CASE kept'
    BY <2>1 DEF ConfigInv
  <2>2. CASE ~kept'
    <3>1. ASSUME NEW t \in Sentinel, NEW e \in Epochs(env) \ forgot', LeftBehind(st[t], disk[t], e)
          PROVE  LeftBehind(st'[t], disk'[t], e)
      <4>1. CASE t # s
        BY <1>1, <3>1, <4>1
      <4>2. CASE t = s
        <5>1. e <= Recall(st[s], disk[s]) /\ (st[s].fstate \in Early => st[s].fepoch # e)
          BY <3>1, <4>2 DEF LeftBehind
        <5>2. /\ Recall(st[s], disk[s]) \in Nat /\ Recall(y, d) \in Nat /\ e \in Nat
          BY OfSentinel, RecallFacts, InEpochs DEF Sound
        <5>3. e <= Recall(y, d)
          BY <5>1, <5>2
        <5>4. y.fstate \in Early => y.fepoch # e
          BY <5>1 DEF Early
        <5> QED BY <1>1, <4>2, <5>3, <5>4 DEF LeftBehind
      <4> QED BY <4>1, <4>2
    <3>3. \A t \in Sentinel : \A e \in Epochs(env) \ forgot' : \A a \in Instance :
             Holds(st'[t], disk'[t], hello'[t], e, a) =>
               \E u \in Sentinel : Holds(st[u], disk[u], hello[u], e, a)
      BY <1>1, <2>2
    <3> QED BY <3>1, <3>3 DEF ConfigStep
  <2> QED BY <2>1, <2>2
<1> QED BY <1>1, <1>2, <1>4, <1>5, Step

\* A newer configuration m is taken, or the memory is left as it is.
LEMMA UpdateFacts ==
  ASSUME env \in Environment, NEW x, Sound(env, x), x.fstate # "update_config",
         NEW m \in Hello(env), m.cfg <= m.cur, m.cur <= x.cur
  PROVE  LET y == UpdateConfig(x, m)
         IN  /\ Sound(env, y) /\ y.fstate # "update_config"
             /\ y.leaderEpoch = x.leaderEpoch /\ y.leader \in {x.leader, None} /\ y.vote = x.vote
             /\ y.cur = x.cur
             /\ y.fstate = "none" \/ (y.fstate = x.fstate /\ y.fepoch = x.fepoch)
             /\ \/ y.cfg = x.cfg /\ Tells(y) = Tells(x)
                \/ y.cfg = m.cfg /\ Tells(y) = m.addr
                \/ y.cfg # x.cfg /\ y.fstate = "reconf"
<1> DEFINE y == UpdateConfig(x, m)
           z == [x EXCEPT !.cfg = m.cfg]
<1>1. CASE ~(m.cfg > x.cfg)
  BY <1>1 DEF UpdateConfig
<1>2. CASE m.cfg > x.cfg
  <2>0. x \in Memory(env) /\ m.cfg \in Epochs(env) /\ m.addr \in env.instances /\ m.cur \in Epochs(env)
    BY DEF Sound, Hello
  <2>1. m.cfg \in Nat /\ m.cur \in Nat /\ x.cur \in Nat /\ x.cfg \in Nat
    BY <2>0, InEpochs, EpochFields
  <2>2. m.cfg <= x.cur /\ m.cfg # x.cfg
    BY <1>2, <2>1
  <2>3. z \in Memory(env)
    BY <2>0 DEF Memory
  <2>4. /\ z.cfg = m.cfg /\ z.cur = x.cur /\ z.leaderEpoch = x.leaderEpoch /\ z.leader = x.leader
        /\ z.vote = x.vote /\ z.fstate = x.fstate /\ z.fepoch = x.fepoch /\ z.addr = x.addr
        /\ z.promoted = x.promoted /\ z.reconf = x.reconf
    BY <2>0 DEF Memory
  <2> HIDE DEF z
  <2>5. Sound(env, z)
    BY <2>2, <2>3, <2>4, SameSync DEF Sound
  <2>6. CASE m.addr # x.addr
    <3>1. y = sentinelResetMasterAndChangeAddress(z, m.addr)
      BY <1>2, <2>6 DEF UpdateConfig, z
    <3> HIDE DEF y
    <3>2. /\ Sound(env, y) /\ y.fstate = "none" /\ y.addr = m.addr /\ y.cur = z.cur
          /\ y.leaderEpoch = z.leaderEpoch /\ y.leader = None /\ y.cfg = z.cfg
          /\ y.vote = z.vote
      BY <2>0, <2>5, <3>1, ResetFacts
    <3>3. Tells(y) = m.addr
      BY <3>2 DEF Tells, Settled
    <3> QED BY <2>4, <3>2, <3>3 DEF y
  <2>7. CASE m.addr = x.addr
    <3>1. y = z
      BY <1>2, <2>7 DEF UpdateConfig, z
    <3> HIDE DEF y
    <3>2. x.fstate # "reconf" => Tells(z) = m.addr
      BY <2>4, <2>7 DEF Tells, Settled
    <3> QED BY <2>2, <2>4, <2>5, <3>1, <3>2 DEF y
  <2> QED BY <2>6, <2>7
<1> QED BY <1>1, <1>2

LEMMA ProcessHelloIInv ==
  ASSUME NEW s \in Sentinel, NEW t \in Others(s)
  PROVE  IInv /\ sentinelProcessHelloMessage(s, hello[t]) => IInv'
<1> SUFFICES ASSUME IInv, sentinelProcessHelloMessage(s, hello[t]) PROVE IInv'
  OBVIOUS
<1> DEFINE m == hello[t]
           newer == m.cur > st[s].cur
           x == IF newer THEN [st[s] EXCEPT !.cur = m.cur] ELSE st[s]
           y == UpdateConfig(x, m)
           first == IF newer THEN Flushes(s, disk[s], x) ELSE {disk[s]}
<1>i. Types /\ MemoryInv
  BY DEF IInv
<1>1. /\ env \in Environment /\ Sound(env, st[s]) /\ st[s].fstate # "update_config" /\ st[s] \in Memory(env)
      /\ Saved(env, st[s], disk[s])
      /\ disk = [disk EXCEPT ![s] = disk[s]]
  BY OfSentinel
<1>2. t \in Sentinel /\ m \in Hello(env) /\ m.cfg <= m.cur
  BY <1>i DEF Others, Types, MemoryInv
<1>3. m.cur \in Nat /\ m.cur \in Epochs(env) /\ st[s].cur \in Nat /\ st[s].cfg \in Nat
      /\ st[s].leaderEpoch \in Nat /\ st[s].fepoch \in Nat
  BY <1>1, <1>2, InEpochs, EpochFields DEF Hello
<1>4. /\ Sound(env, x) /\ x.fstate = st[s].fstate /\ x.fepoch = st[s].fepoch /\ x.cfg = st[s].cfg
      /\ x.leader = st[s].leader /\ x.leaderEpoch = st[s].leaderEpoch /\ x.vote = st[s].vote
      /\ Tells(x) = Tells(st[s]) /\ m.cur <= x.cur /\ st[s].cur <= x.cur /\ x.cur \in Nat
  <2>1. CASE ~newer
    BY <1>1, <1>3, <2>1
  <2>2. CASE newer
    <3>1. x = [st[s] EXCEPT !.cur = m.cur]
      BY <2>2
    <3> HIDE DEF x
    <3>2. x \in Memory(env)
      BY <1>1, <1>3, <3>1 DEF Memory
    <3>3. /\ x.cur = m.cur /\ x.fstate = st[s].fstate /\ x.fepoch = st[s].fepoch /\ x.cfg = st[s].cfg
          /\ x.leader = st[s].leader /\ x.leaderEpoch = st[s].leaderEpoch /\ x.vote = st[s].vote
          /\ x.promoted = st[s].promoted /\ x.addr = st[s].addr /\ x.reconf = st[s].reconf
      BY <1>1, <3>1 DEF Memory
    <3>4. /\ st[s].cfg <= st[s].cur /\ st[s].leaderEpoch <= st[s].cur /\ st[s].fepoch <= st[s].cur
      BY <1>1 DEF Sound
    <3>5. x.cfg <= x.cur /\ x.leaderEpoch <= x.cur /\ x.fepoch <= x.cur /\ st[s].cur <= x.cur /\ m.cur <= x.cur
      BY <1>3, <2>2, <3>3, <3>4
    <3>6. Sound(env, x)
      BY <1>1, <3>2, <3>3, <3>5, SameSync DEF Sound
    <3>7. Tells(x) = Tells(st[s])
      BY <3>3 DEF Tells
    <3> QED BY <1>3, <3>3, <3>5, <3>6, <3>7
  <2> QED BY <2>1, <2>2
<1>5. /\ ~newer => x = st[s]
      /\ st' = [st EXCEPT ![s] = y]
      /\ \E g \in first : IF y.addr # x.addr
                         THEN \E f \in Flushes(s, g, y) : disk' = [disk EXCEPT ![s] = f]
                         ELSE disk' = [disk EXCEPT ![s] = g]
      /\ newer => first = Flushes(s, disk[s], x)
      /\ ~newer => first = {disk[s]}
      /\ kept' = (kept \/ (y.cfg # x.cfg /\ y.fstate = "reconf"))
      /\ UNCHANGED <<req, rep, hello, role, cmds, led, forgot, env>>
  BY DEF sentinelProcessHelloMessage
<1> HIDE DEF x
<1>6. /\ Sound(env, y) /\ y.fstate # "update_config"
      /\ y.leaderEpoch = x.leaderEpoch /\ y.leader \in {x.leader, None} /\ y.vote = x.vote
      /\ y.cur = x.cur
      /\ y.fstate = "none" \/ (y.fstate = x.fstate /\ y.fepoch = x.fepoch)
      /\ \/ y.cfg = x.cfg /\ Tells(y) = Tells(x)
         \/ y.cfg = m.cfg /\ Tells(y) = m.addr
         \/ y.cfg # x.cfg /\ y.fstate = "reconf"
  BY <1>1, <1>2, <1>4, UpdateFacts
<1> HIDE DEF y
<1> HIDE DEF first, newer
<1>m. x \in Memory(env) /\ y \in Memory(env)
  BY <1>4, <1>6 DEF Sound
<1>a. PICK g \in first : IF y.addr # x.addr
                         THEN \E f \in Flushes(s, g, y) : disk' = [disk EXCEPT ![s] = f]
                         ELSE disk' = [disk EXCEPT ![s] = g]
  BY <1>5
<1>b. /\ Saved(env, x, g) /\ Recall(st[s], disk[s]) <= Recall(x, g)
      /\ \/ g.cfg = disk[s].cfg /\ g.addr = disk[s].addr
         \/ g.cfg = st[s].cfg /\ g.addr = Tells(st[s])
  <2>1. CASE newer
    <3>1. g \in Flushes(s, disk[s], x) /\ x.fstate # "update_config"
      BY <1>1, <1>4, <1>5, <2>1
    <3>2. /\ Saved(env, x, g) /\ Recall(st[s], disk[s]) <= Recall(x, g)
          /\ \/ g.cfg = disk[s].cfg /\ g.addr = disk[s].addr
             \/ g.cfg = x.cfg /\ g.addr = Tells(x)
      BY <1>1, <1>4, <3>1, FlushFacts
    <3> QED BY <1>4, <3>2
  <2>2. CASE ~newer
    <3>1. g = disk[s]
      BY <1>5, <2>2
    <3>2. Saved(env, x, disk[s]) /\ Recall(st[s], disk[s]) <= Recall(x, disk[s])
      BY <1>1, <1>4, <1>m, KeepFacts
    <3> QED BY <3>1, <3>2
  <2> QED BY <2>1, <2>2
<1>c. x.cur <= y.cur
  BY <1>4, <1>6
<1>n. Recall(st[s], disk[s]) \in Nat /\ Recall(x, g) \in Nat
  BY <1>1, <1>b, <1>m, RecallFacts
<1>d. PICK d : /\ disk' = [disk EXCEPT ![s] = d]
               /\ Saved(env, y, d) /\ Recall(x, g) <= Recall(y, d) /\ Recall(y, d) \in Nat
               /\ \/ d.cfg = g.cfg /\ d.addr = g.addr
                  \/ d.cfg = y.cfg /\ d.addr = Tells(y)
  <2>1. CASE y.addr # x.addr
    <3>1. PICK f \in Flushes(s, g, y) : disk' = [disk EXCEPT ![s] = f]
      BY <1>a, <2>1
    <3>2. /\ Saved(env, y, f) /\ Recall(x, g) <= Recall(y, f)
          /\ \/ f.cfg = g.cfg /\ f.addr = g.addr
             \/ f.cfg = y.cfg /\ f.addr = Tells(y)
      BY <1>1, <1>6, <1>b, <1>c, <1>m, FlushFacts
    <3>3. Recall(y, f) \in Nat
      BY <1>1, <1>m, <3>2, RecallFacts
    <3> QED BY <3>1, <3>2, <3>3
  <2>2. CASE y.addr = x.addr
    <3>1. disk' = [disk EXCEPT ![s] = g]
      BY <1>a, <2>2
    <3>2. Saved(env, y, g) /\ Recall(x, g) <= Recall(y, g)
      BY <1>1, <1>6, <1>b, <1>c, <1>m, KeepFacts
    <3>3. Recall(y, g) \in Nat
      BY <1>1, <1>m, <3>2, RecallFacts
    <3> QED BY <3>1, <3>2, <3>3
  <2> QED BY <2>1, <2>2
<1>7. disk' = [disk EXCEPT ![s] = d] /\ Saved(env, y, d)
  BY <1>d
<1>8. /\ Recall(st[s], disk[s]) <= Recall(y, d)
      /\ \/ d.cfg = disk[s].cfg /\ d.addr = disk[s].addr
         \/ d.cfg = st[s].cfg /\ d.addr = Tells(st[s])
         \/ d.cfg = y.cfg /\ d.addr = Tells(y)
  BY <1>b, <1>d, <1>n
<1>9. kept' \in BOOLEAN /\ (kept => kept') /\ (y.cfg # x.cfg /\ y.fstate = "reconf" => kept')
  BY <1>5, <1>i DEF Types
<1>10. kept' \/ \A e, a : Holds(y, d, hello[s], e, a) =>
                  \E u \in Sentinel : Holds(st[u], disk[u], hello[u], e, a)
  <2>1. SUFFICES ASSUME ~kept', NEW e, NEW a, Holds(y, d, hello[s], e, a)
                 PROVE  \E u \in Sentinel : Holds(st[u], disk[u], hello[u], e, a)
    OBVIOUS
  <2>2. \/ y.cfg = st[s].cfg /\ Tells(y) = Tells(st[s])
        \/ y.cfg = m.cfg /\ Tells(y) = m.addr
    BY <1>4, <1>6, <1>9, <2>1
  <2>3. Holds(st[s], disk[s], hello[s], e, a) \/ Holds(st[t], disk[t], hello[t], e, a)
    BY <1>8, <2>1, <2>2 DEF Holds
  <2> QED BY <1>2, <2>3
<1>11. EnvKept /\ RepliesKept
  BY <1>1, <1>5, SameEnv DEF RepliesKept
<1>12. Rest(env, req', rep', hello', role', cmds', led', kept')
  BY <1>5, <1>9, RestTypes DEF Rest
<1>13. hello' = hello /\ led' = led /\ forgot' = forgot
  BY <1>5
<1>14. /\ y.leaderEpoch = st[s].leaderEpoch /\ y.leader \in {st[s].leader, None}
       /\ y.fstate = "none" \/ (y.fstate = st[s].fstate /\ y.fepoch = st[s].fepoch)
       /\ \A q \in env.sentinels : y.vote[q] = st[s].vote[q]
  BY <1>4, <1>6
<1>15. st' = [st EXCEPT ![s] = y]
  BY <1>5
<1>16. VoteStep
  BY <1>i, <1>6, <1>11, <1>13, <1>14, <1>15, LocalVotes
<1> QED BY <1>6, <1>7, <1>8, <1>9, <1>10, <1>11, <1>12, <1>13, <1>14, <1>15, <1>16, TakeConfig

LEMMA CrashIInv == ASSUME NEW s \in Sentinel PROVE IInv /\ Crash(s) => IInv'
<1> SUFFICES ASSUME IInv, Crash(s) PROVE IInv'
  OBVIOUS
<1> DEFINE d == [disk[s] EXCEPT !.stale = FALSE]
           f == disk[s]
           y == Fresh(d)
           w == [t \in Sentinel |-> NoVote]
           r == [i \in Instance |-> {}]
<1>1. /\ env \in Environment /\ Saved(env, st[s], f) /\ st[s] \in Memory(env)
  BY OfSentinel
<1>a. f \in File(env) /\ (f.stale \/ f.leaderEpoch = st[s].leaderEpoch) /\ f.cfg <= f.cur /\ f.leaderEpoch <= f.cur
  BY <1>1 DEF Saved
<1>b. /\ d \in File(env) /\ d.cur = f.cur /\ d.leaderEpoch = f.leaderEpoch /\ d.cfg = f.cfg /\ d.addr = f.addr
      /\ d.stale = FALSE
  BY <1>a DEF File
<1>c. d.cur \in Nat /\ d.leaderEpoch \in Nat /\ st[s].leaderEpoch \in Nat /\ st[s].cur \in Nat /\ d.cur <= d.cur
  BY <1>1, <1>b, EpochFields, InEpochs DEF File
<1>2. d \in File(env) /\ d.cfg <= d.cur /\ d.leaderEpoch <= d.cur
  BY <1>a, <1>b
<1>3. 0 \in Epochs(env) /\ 0 <= d.cur
  BY <1>1, <1>c, InEpochs DEF Environment
<1>4. w \in [env.sentinels -> [leader : Voices(env), epoch : Epochs(env)]]
      /\ \A t \in env.sentinels : w[t].leader = None
  BY <1>3 DEF Sentinel, Voices, NoVote
<1>5. r \in [env.instances -> SUBSET Flags] /\ \A i \in env.instances : r[i] = {}
  BY DEF Instance
<1> DEFINE zero == 0
<1>z. zero \in Epochs(env) /\ zero <= d.cur
  BY <1>3
<1> HIDE DEF zero
<1>y. y = [cur |-> d.cur, leader |-> None, leaderEpoch |-> d.leaderEpoch, vote |-> w,
           mdown |-> {}, sdown |-> FALSE, odown |-> FALSE, mrole |-> "master",
           fstate |-> "none", fepoch |-> zero, forced |-> FALSE, wait |-> FALSE, promoted |-> None,
           reconf |-> r, slow |-> {}, tilt |-> FALSE, addr |-> d.addr, cfg |-> d.cfg]
  BY <1>b DEF Fresh, zero
<1> HIDE DEF w, r, y, d, f
<1>6. y \in Memory(env)
  BY <1>2, <1>4, <1>5, <1>z, <1>y DEF Memory, File, Voices
<1>7. /\ y.cur = d.cur /\ y.leader = None /\ y.leaderEpoch = d.leaderEpoch /\ y.vote = w
      /\ y.fstate = "none" /\ y.fepoch = zero /\ y.reconf = r /\ y.addr = d.addr /\ y.cfg = d.cfg
  BY <1>y
<1>8. Syncing(env, y) = {}
  BY <1>5, <1>7 DEF Syncing
<1>9. Cardinality(Syncing(env, y)) <= env.parallel
  BY <1>1, <1>8, FS_EmptySet DEF Environment
<1>10. Sound(env, y)
  BY <1>2, <1>5, <1>6, <1>7, <1>9, <1>z DEF Sound, Chosen, Settled
<1>11. Saved(env, y, d)
  BY <1>2, <1>7, <1>c DEF Saved
<1>12. Tells(y) = d.addr
  BY <1>7 DEF Tells, Settled
<1>13. \A e, a : Holds(y, d, hello[s], e, a) => \E t \in Sentinel : Holds(st[t], disk[t], hello[t], e, a)
  <2>1. \A e, a : Holds(y, d, hello[s], e, a) => Holds(st[s], d, hello[s], e, a)
    BY <1>7, <1>12 DEF Holds
  <2>2. \A e, a : Holds(y, d, hello[s], e, a) => Holds(st[s], f, hello[s], e, a)
    BY <1>b, <2>1 DEF Holds
  <2> QED BY <2>2 DEF f
<1>14. EnvKept
  <2>1. env.crash - 1 \in Nat
    BY <1>1 DEF Environment, Crash
  <2> QED BY <1>1, <2>1 DEF EnvKept, Environment, Crash
<1>15. /\ RepliesKept
       /\ req' \in [env.sentinels -> [env.sentinels -> Seq(Asked(env))]]
       /\ rep' \in [env.sentinels -> [env.sentinels -> Seq(Reply(env))]]
  BY RestTypes DEF Rest, Crash, RepliesKept, Sentinel
<1>16. Rest(env, req', rep', hello', role', cmds', led', kept')
  BY <1>15, RestTypes DEF Rest, Crash
<1>17. st' = [st EXCEPT ![s] = y] /\ hello' = hello /\ led' = led /\ kept' = kept /\ disk' = [disk EXCEPT ![s] = d]
  BY <1>b DEF Crash, y, d, f, Fresh
<1>o. /\ forgot \subseteq forgot'
      /\ f.stale => /\ (f.leaderEpoch + 1)..st[s].leaderEpoch \subseteq forgot'
                    /\ (f.cur + 1)..st[s].cur \subseteq forgot'
  BY DEF Crash, f
<1>18. Forgets(st[s], y)
  <2> SUFFICES ASSUME NEW e \in Epochs(env) \ forgot', e <= st[s].leaderEpoch PROVE e <= d.leaderEpoch
    BY <1>7 DEF Forgets
  <2>1. e \in Nat
    BY <1>1, InEpochs
  <2>2. CASE f.leaderEpoch = st[s].leaderEpoch
    BY <1>b, <2>2
  <2>3. CASE f.stale
    BY <1>b, <1>c, <1>o, <2>1, <2>3
  <2> QED BY <1>a, <2>2, <2>3
<1>r. ASSUME NEW e \in Epochs(env) \ forgot', e <= Recall(st[s], f) PROVE e <= Recall(y, d)
  <2>1. e \in Nat /\ Recall(y, d) = d.cur
    BY <1>1, <1>b, InEpochs DEF Recall
  <2>2. CASE f.stale
    <3>1. e <= st[s].cur
      BY <1>r, <2>2 DEF Recall
    <3> QED BY <1>b, <1>c, <1>o, <2>1, <2>2, <3>1
  <2>3. CASE ~f.stale
    BY <1>b, <1>r, <2>1, <2>3 DEF Recall
  <2> QED BY <2>2, <2>3
<1>s. \A e \in Epochs(env) \ forgot' : e <= Recall(st[s], disk[s]) => e <= Recall(y, d)
  BY <1>r DEF f
<1>19. \A t \in env.sentinels : y.vote[t].leader = None
  BY <1>4, <1>7
<1>20. Types /\ MemoryInv
  BY DEF IInv
<1>21. VoteStep
  BY <1>7, <1>10, <1>15, <1>17, <1>18, <1>19, <1>20, <1>o, LocalVotes
<1> QED BY <1>7, <1>10, <1>11, <1>13, <1>14, <1>16, <1>17, <1>21, <1>o, <1>s, TakeConfig

-----------------------------------------------------------------------------
(* Requests and replies.                                                    *)

LEMMA IsMasterDownIInv ==
  ASSUME NEW s \in Sentinel, NEW t \in Others(s) PROVE IInv /\ IsMasterDownByAddr(s, t) => IInv'
<1> SUFFICES ASSUME IInv, IsMasterDownByAddr(s, t) PROVE IInv'
  OBVIOUS
<1> DEFINE q == Head(req[s][t])
           x == st[t]
           known == q.addr = x.addr
           votes == known /\ q.runid # None
           y == IF votes THEN sentinelVoteLeader(x, t, q.epoch, q.runid) ELSE x
           b == known /\ ~x.tilt /\ x.sdown
           l == IF votes THEN y.leader ELSE None
           e == IF votes THEN y.leaderEpoch ELSE 0
           r == [down |-> b, leader |-> l, epoch |-> e]
<1>i. Types /\ MemoryInv
  BY DEF IInv
<1>t. t \in Sentinel
  BY DEF Others
<1>1. /\ env \in Environment /\ Sound(env, x) /\ x.fstate # "update_config" /\ x \in Memory(env)
      /\ Saved(env, x, disk[t])
      /\ disk = [disk EXCEPT ![t] = disk[t]]
  BY <1>t, OfSentinel
<1>2. /\ st' = [st EXCEPT ![t] = y]
      /\ IF y = x THEN disk' = disk
         ELSE \E d \in Flushes(t, disk[t], y) : disk' = [disk EXCEPT ![t] = d]
      /\ rep' = [rep EXCEPT ![s][t] = Append(@, r)]
      /\ req' = [req EXCEPT ![s][t] = Tail(@)] /\ req[s][t] # <<>>
      /\ UNCHANGED <<hello, role, cmds, led, kept, forgot, env>>
  BY DEF IsMasterDownByAddr
<1>3. req[s][t] \in Seq(Asked(env)) /\ rep[s][t] \in Seq(Reply(env))
  BY <1>t, RestTypes DEF Rest, Sentinel
<1>4. q \in Asked(env)
  BY <1>2, <1>3
<1>5. q.epoch \in Epochs(env) /\ q.runid \in Voices(env)
  BY <1>4 DEF Asked
<1>6. /\ Sound(env, y) /\ Follows(env, x, y) /\ y.fstate = x.fstate /\ y.fepoch = x.fepoch
      /\ y.vote = x.vote
  <2>1. CASE votes
    <3> DEFINE z == sentinelVoteLeader(x, t, q.epoch, q.runid)
    <3>1. /\ Sound(env, z) /\ Follows(env, x, z) /\ z.fstate = x.fstate /\ z.fepoch = x.fepoch
          /\ z.vote = x.vote
      BY <1>1, <1>5, VoteFacts
    <3>2. y = z
      BY <2>1
    <3> QED BY <3>1, <3>2
  <2>2. CASE ~votes
    <3>1. y = x
      BY <2>2
    <3>2. Follows(env, x, x)
      BY <1>1, AlikeFollows DEF Alike
    <3> QED BY <1>1, <3>1, <3>2
  <2> QED BY <2>1, <2>2
<1> HIDE DEF y
<1>7. y \in Memory(env)
  BY <1>6 DEF Sound
<1>8. l \in Voices(env) /\ e \in Epochs(env) /\ b \in BOOLEAN
      /\ (l = None \/ (l = y.leader /\ e = y.leaderEpoch))
  <2>1. l \in Voices(env) /\ (l = None \/ (l = y.leader /\ e = y.leaderEpoch))
    BY <1>7 DEF Memory, Voices
  <2>2. e \in Epochs(env)
    <3>1. 0 \in Epochs(env)
      BY <1>1, InEpochs DEF Environment
    <3> QED BY <1>7, <3>1 DEF Memory
  <2>3. b \in BOOLEAN
    BY Zenon
  <2> QED BY <2>1, <2>2, <2>3
<1> HIDE DEF l, e, b
<1>9. r \in Reply(env) /\ r.leader = l /\ r.epoch = e
  BY <1>8 DEF Reply
<1> HIDE DEF r
<1>10. y.fstate # "update_config"
  BY <1>1, <1>6
<1>11. y.cur \in Nat /\ x.cur \in Nat /\ x.cur <= y.cur /\ x.cfg = y.cfg /\ Tells(x) = Tells(y)
  BY <1>1, <1>6, <1>7, EpochFields DEF Follows
<1>12. PICK d : /\ disk' = [disk EXCEPT ![t] = d]
                /\ Saved(env, y, d) /\ Recall(x, disk[t]) <= Recall(y, d)
                /\ \/ d.cfg = disk[t].cfg /\ d.addr = disk[t].addr
                   \/ d.cfg = y.cfg /\ d.addr = Tells(y)
  <2>1. CASE y = x
    <3>1. disk' = [disk EXCEPT ![t] = disk[t]]
      BY <1>1, <1>2, <2>1
    <3>2. Recall(x, disk[t]) <= Recall(y, disk[t])
      BY <1>1, <2>1, <1>11, KeepFacts
    <3> QED BY <1>1, <2>1, <3>1, <3>2
  <2>2. CASE y # x
    <3>1. PICK f \in Flushes(t, disk[t], y) : disk' = [disk EXCEPT ![t] = f]
      BY <1>2, <2>2
    <3>2. /\ Saved(env, y, f) /\ Recall(x, disk[t]) <= Recall(y, f)
          /\ \/ f.cfg = disk[t].cfg /\ f.addr = disk[t].addr
             \/ f.cfg = y.cfg /\ f.addr = Tells(y)
      BY <1>1, <1>6, <1>10, <1>11, FlushFacts
    <3> QED BY <3>1, <3>2
  <2> QED BY <2>1, <2>2
<1>14. /\ rep'[s][t] = Append(rep[s][t], r)
       /\ \A a, c \in Sentinel : a # s \/ c # t => rep'[a][c] = rep[a][c]
  BY <1>2, <1>t, RestTypes DEF Rest, Sentinel
<1>15. st'[t] = y /\ \A u \in Sentinel : u # t => st'[u] = st[u]
  BY <1>2, <1>t, <1>i DEF Types
<1>16. VoteStep
  <2>1. \A u \in Sentinel : st'[u].leaderEpoch \in Nat
    BY <1>1, <1>7, <1>15, <1>i, EpochFields DEF MemoryInv, Sound
  <2>2. \A u \in Sentinel :
            \/ st'[u].leaderEpoch = st[u].leaderEpoch /\ st'[u].leader \in {st[u].leader, None}
            \/ st[u].leaderEpoch < st'[u].leaderEpoch
    BY <1>6, <1>15 DEF Follows
  <2>3. \A a, u \in Sentinel : st'[a].vote[u] = st[a].vote[u]
    BY <1>6, <1>15
  <2>4. ASSUME NEW a \in Sentinel, NEW u \in Sentinel, NEW i \in 1..Len(rep'[a][u])
        PROVE  \/ \E j \in 1..Len(rep[a][u]) : rep'[a][u][i] = rep[a][u][j]
               \/ rep'[a][u][i].leader = None
               \/ rep'[a][u][i].leader = st'[u].leader /\ rep'[a][u][i].epoch = st'[u].leaderEpoch
    <3>1. CASE a = s /\ u = t
      <4>1. CASE i \in 1..Len(rep[s][t])
        <5>1. rep'[s][t][i] = rep[s][t][i]
          BY <1>3, <1>14, <4>1
        <5> QED BY <3>1, <4>1, <5>1
      <4>2. CASE i \notin 1..Len(rep[s][t])
        <5>1. rep'[s][t][i] = r
          BY <1>3, <1>9, <1>14, <2>4, <3>1, <4>2
        <5> QED BY <1>8, <1>9, <1>15, <3>1, <5>1
      <4> QED BY <4>1, <4>2
    <3>2. CASE a # s \/ u # t
      <4>1. rep'[a][u] = rep[a][u]
        BY <1>14, <3>2
      <4> QED BY <2>4, <4>1
    <3> QED BY <3>1, <3>2
  <2>5. forgot \subseteq forgot'
    BY <1>2
  <2> QED BY <1>i, <2>1, <2>2, <2>3, <2>4, <2>5, VotesStep
<1>17. /\ rep' \in [env.sentinels -> [env.sentinels -> Seq(Reply(env))]]
       /\ req' \in [env.sentinels -> [env.sentinels -> Seq(Asked(env))]]
  <2>1. Append(rep[s][t], r) \in Seq(Reply(env)) /\ Tail(req[s][t]) \in Seq(Asked(env))
    BY <1>2, <1>3, <1>9
  <2> QED BY <1>2, <1>t, <2>1, RestTypes DEF Rest, Sentinel
<1>18. Rest(env, req', rep', hello', role', cmds', led', kept')
  BY <1>2, <1>17, RestTypes DEF Rest
<1>19. \A k, a : Holds(y, d, hello[t], k, a) => \E u \in Sentinel : Holds(st[u], disk[u], hello[u], k, a)
  <2>1. \A k, a : Holds(y, d, hello[t], k, a) => Holds(x, disk[t], hello[t], k, a)
    BY <1>11, <1>12 DEF Holds
  <2> QED BY <1>t, <2>1
<1>20. EnvKept
  BY <1>1, <1>2, SameEnv
<1>21. st' = [st EXCEPT ![t] = y] /\ hello' = hello /\ led' = led /\ kept' = kept /\ forgot' = forgot
  BY <1>2
<1> QED BY <1>t, <1>6, <1>10, <1>12, <1>16, <1>18, <1>19, <1>20, <1>21, TakeConfig

LEMMA ReplyIInv ==
  ASSUME NEW s \in Sentinel, NEW t \in Others(s)
  PROVE  IInv /\ sentinelReceiveIsMasterDownReply(s, t) => IInv'
<1> SUFFICES ASSUME IInv, sentinelReceiveIsMasterDownReply(s, t) PROVE IInv'
  OBVIOUS
<1> DEFINE r == Head(rep[s][t])
           x == st[s]
           md == IF r.down THEN x.mdown \union {t} ELSE x.mdown \ {t}
           v == IF r.leader = None THEN x.vote[t] ELSE [leader |-> r.leader, epoch |-> r.epoch]
           w == [x.vote EXCEPT ![t] = v]
           y == [x EXCEPT !.mdown = md, !.vote = w]
<1>i. Types /\ MemoryInv
  BY DEF IInv
<1>t. t \in Sentinel /\ t \in env.sentinels
  BY DEF Others, Sentinel
<1>1. /\ env \in Environment /\ Sound(env, x) /\ x.fstate # "update_config" /\ x \in Memory(env)
      /\ Saved(env, x, disk[s])
      /\ disk = [disk EXCEPT ![s] = disk[s]]
  BY OfSentinel
<1>2. /\ rep[s][t] # <<>> /\ rep' = [rep EXCEPT ![s][t] = Tail(@)]
      /\ UNCHANGED <<disk, req, hello, role, cmds, led, kept, forgot, env>>
  BY DEF sentinelReceiveIsMasterDownReply
<1>3. st' = [st EXCEPT ![s] = y]
  <2>1. st' = [st EXCEPT ![s].mdown = md, ![s].vote[t] = v]
    BY DEF sentinelReceiveIsMasterDownReply
  <2> HIDE DEF md, v
  <2> QED BY <1>1, <2>1 DEF Memory
<1>4. rep[s][t] \in Seq(Reply(env))
  BY <1>t, RestTypes DEF Rest, Sentinel
<1>5. r \in Reply(env)
  BY <1>2, <1>4
<1>6. x.vote \in [env.sentinels -> [leader : Voices(env), epoch : Epochs(env)]] /\ x.mdown \in SUBSET env.sentinels
  BY <1>1 DEF Memory
<1>7. v \in [leader : Voices(env), epoch : Epochs(env)] /\ md \in SUBSET env.sentinels
  BY <1>5, <1>6, <1>t DEF Reply
<1>8. v = x.vote[t] \/ v = [leader |-> r.leader, epoch |-> r.epoch]
  OBVIOUS
<1> HIDE DEF md, v
<1>9. /\ w \in [env.sentinels -> [leader : Voices(env), epoch : Epochs(env)]]
      /\ w[t] = v /\ \A u \in env.sentinels : u # t => w[u] = x.vote[u]
  BY <1>6, <1>7, <1>t
<1> HIDE DEF w
<1>10. y \in Memory(env)
  BY <1>1, <1>7, <1>9 DEF Memory
<1>11. Alike(x, y) /\ y.reconf = x.reconf /\ y.vote = w
  BY <1>1 DEF Memory, Alike
<1> HIDE DEF y
<1>12. Sound(env, y) /\ y.fstate = x.fstate /\ y.fepoch = x.fepoch /\ y.cur = x.cur /\ y.cfg = x.cfg
       /\ y.leaderEpoch = x.leaderEpoch /\ y.leader = x.leader
  BY <1>1, <1>10, <1>11, AlikeSound DEF Alike
<1>13. Tells(y) = Tells(x)
  BY <1>11 DEF Alike, Tells
<1>14. Saved(env, y, disk[s]) /\ Recall(x, disk[s]) <= Recall(y, disk[s])
  <2>1. x.cur <= y.cur
    BY <1>1, <1>12, EpochFields
  <2> QED BY <1>1, <1>10, <1>12, <2>1, KeepFacts
<1>15. st'[s] = y /\ \A u \in Sentinel : u # s => st'[u] = st[u]
  BY <1>3, <1>i DEF Types
<1>16. /\ rep'[s][t] = Tail(rep[s][t])
       /\ \A a, c \in Sentinel : a # s \/ c # t => rep'[a][c] = rep[a][c]
  BY <1>2, <1>t, RestTypes DEF Rest, Sentinel
<1>17. VoteStep
  <2>1. \A u \in Sentinel : st'[u].leaderEpoch \in Nat /\ st'[u].leaderEpoch = st[u].leaderEpoch
                            /\ st'[u].leader = st[u].leader
    BY <1>1, <1>12, <1>15, <1>i, EpochFields DEF MemoryInv, Sound
  <2>2. ASSUME NEW a \in Sentinel, NEW u \in Sentinel
        PROVE  \/ st'[a].vote[u] = st[a].vote[u]
               \/ \E j \in 1..Len(rep[a][u]) :
                    st'[a].vote[u] = [leader |-> rep[a][u][j].leader, epoch |-> rep[a][u][j].epoch]
    <3>1. CASE a = s /\ u = t
      <4>1. 1 \in 1..Len(rep[s][t]) /\ rep[s][t][1] = r
        BY <1>2, <1>4
      <4>2. st'[s].vote[t] = v
        BY <1>9, <1>11, <1>15
      <4> QED BY <1>8, <3>1, <4>1, <4>2
    <3>2. CASE a # s \/ u # t
      BY <1>9, <1>11, <1>15, <3>2 DEF Sentinel
    <3> QED BY <3>1, <3>2
  <2>3. ASSUME NEW a \in Sentinel, NEW u \in Sentinel, NEW i \in 1..Len(rep'[a][u])
        PROVE  \E j \in 1..Len(rep[a][u]) : rep'[a][u][i] = rep[a][u][j]
    <3>1. CASE a = s /\ u = t
      <4>1. i \in 1..Len(Tail(rep[s][t]))
        BY <1>16, <2>3, <3>1
      <4>2. i + 1 \in 1..Len(rep[s][t]) /\ Tail(rep[s][t])[i] = rep[s][t][i + 1]
        BY <1>2, <1>4, <4>1
      <4> QED BY <1>16, <3>1, <4>2
    <3>2. CASE a # s \/ u # t
      <4>1. rep'[a][u] = rep[a][u]
        BY <1>16, <3>2
      <4> QED BY <2>3, <4>1
    <3> QED BY <3>1, <3>2
  <2>4. forgot \subseteq forgot'
    BY <1>2
  <2> QED BY <1>i, <2>1, <2>2, <2>3, <2>4, VotesStep
<1>18. Rest(env, req', rep', hello', role', cmds', led', kept')
  <2>1. Tail(rep[s][t]) \in Seq(Reply(env))
    BY <1>2, <1>4
  <2>2. rep' \in [env.sentinels -> [env.sentinels -> Seq(Reply(env))]]
    BY <1>2, <1>t, <2>1, RestTypes DEF Rest, Sentinel
  <2> QED BY <1>2, <2>2, RestTypes DEF Rest
<1>19. \A k, a : Holds(y, disk[s], hello[s], k, a) => \E u \in Sentinel : Holds(st[u], disk[u], hello[u], k, a)
  <2>1. \A k, a : Holds(y, disk[s], hello[s], k, a) => Holds(x, disk[s], hello[s], k, a)
    BY <1>12, <1>13 DEF Holds
  <2> QED BY <2>1
<1>20. EnvKept /\ disk' = [disk EXCEPT ![s] = disk[s]] /\ hello' = hello /\ led' = led /\ kept' = kept
       /\ forgot' = forgot
  BY <1>1, <1>2, SameEnv
<1>21. y.fstate # "update_config"
  BY <1>1, <1>12
<1> QED BY <1>1, <1>3, <1>12, <1>14, <1>17, <1>18, <1>19, <1>20, <1>21, TakeConfig

-----------------------------------------------------------------------------
(* The timer, and elections.                                                *)

LEMMA MajoritiesMeet ==
  ASSUME env \in Environment, NEW Q \in Majorities(Sentinel), NEW R \in Majorities(Sentinel)
  PROVE  \E t \in Q : t \in R
<1>0. IsFiniteSet(Sentinel)
  BY SentinelAssumption, FS_Subset DEF Environment, Sentinel
<1>1. Q \subseteq Sentinel /\ R \subseteq Sentinel
  BY DEF Majorities
<1>2. IsFiniteSet(Q) /\ IsFiniteSet(R)
  BY <1>0, <1>1, FS_Subset
<1>3. Cardinality(Q \cup R) = Cardinality(Q) + Cardinality(R) - Cardinality(Q \cap R)
  BY <1>2, FS_Union
<1>4. Cardinality(Q \cup R) <= Cardinality(Sentinel)
  BY <1>0, <1>1, FS_Subset
<1>5. /\ Cardinality(Sentinel) \in Nat /\ Cardinality(Q) \in Nat
      /\ Cardinality(R) \in Nat /\ Cardinality(Q \cup R) \in Nat
  BY <1>0, <1>2, FS_CardinalityType, FS_Union
<1>6. /\ Cardinality(Q) >= Cardinality(Sentinel) \div 2 + 1
      /\ Cardinality(R) >= Cardinality(Sentinel) \div 2 + 1
  BY DEF Majorities
<1>7. Q \cap R # {}
  <2> SUFFICES ASSUME Q \cap R = {} PROVE FALSE
    OBVIOUS
  <2>1. Cardinality(Q \cap R) = 0
    BY FS_EmptySet
  <2> QED BY <1>3, <1>4, <1>5, <1>6, <2>1
<1> QED BY <1>7

\* A majority whose votes are known, before or after the step, elects s, and
\* nobody else for the epoch.
LEMMA ElectionStep ==
  ASSUME IInv, EnvKept, VoteStep, \A t \in Sentinel : st'[t].leaderEpoch \in Nat,
         NEW s \in Sentinel, NEW e \in Epochs(env), NEW h, forgot' = forgot,
         led' = led \union {[by |-> s, epoch |-> e, how |-> h]},
         h = "votes" => \E Q \in Majorities(Sentinel) : \A t \in Q :
            Voted(Sentinel, st, rep, t, s, e) \/ Voted(Sentinel, st', rep', t, s, e)
  PROVE  LeaderInv' /\ VotesElectOne'
<1>i. Types /\ MemoryInv /\ VoteInv /\ LeaderInv /\ VotesElectOne
  BY DEF IInv
<1>n. env \in Environment /\ \A t \in Sentinel : st[t].leaderEpoch \in Nat
  BY <1>i, EpochFields DEF Types, MemoryInv, Sound
<1>1. /\ VoteInv'
      /\ \A t, c \in Sentinel : \A k \in Epochs(env) \ forgot :
            Bound(Sentinel, st, rep, t, c, k) => Bound(Sentinel, st', rep', t, c, k)
  BY <1>i, <1>n, VotesKept
<1>2. Sentinel' = Sentinel /\ Epochs(env') = Epochs(env)
  BY EnvFacts
<1>3. e \notin forgot => \A t \in Sentinel : Voted(Sentinel, st', rep', t, s, e) => Bound(Sentinel, st', rep', t, s, e)
  BY <1>1, <1>2 DEF VoteInv
<1>4. e \notin forgot => \A t \in Sentinel : Voted(Sentinel, st, rep, t, s, e) => Bound(Sentinel, st', rep', t, s, e)
  BY <1>1, <1>i DEF VoteInv
<1>5. ASSUME NEW l \in led, l.how = "votes", l.epoch \notin forgot
      PROVE  \E Q \in Majorities(Sentinel) : \A t \in Q : Bound(Sentinel, st', rep', t, l.by, l.epoch)
                                                        /\ Bound(Sentinel, st, rep, t, l.by, l.epoch)
  <2>1. PICK Q \in Majorities(Sentinel) : \A t \in Q : Bound(Sentinel, st, rep, t, l.by, l.epoch)
    BY <1>5, <1>i DEF LeaderInv
  <2>2. l.by \in Sentinel /\ l.epoch \in Epochs(env) /\ Q \subseteq Sentinel
    BY <1>i DEF Types, Ledger, Sentinel, Majorities
  <2>3. ASSUME NEW t \in Q PROVE Bound(Sentinel, st', rep', t, l.by, l.epoch)
    <3>1. t \in Sentinel /\ l.epoch \in Epochs(env) \ forgot /\ Bound(Sentinel, st, rep, t, l.by, l.epoch)
      BY <1>5, <2>1, <2>2, <2>3
    <3> QED BY <1>1, <2>2, <3>1
  <2> QED BY <2>1, <2>3
<1> DEFINE n == [by |-> s, epoch |-> e, how |-> h]
<1>6. n.by = s /\ n.epoch = e /\ n.how = h
  OBVIOUS
<1>7. LeaderInv'
  <2> SUFFICES ASSUME NEW l \in led', l.how = "votes", l.epoch \notin forgot
               PROVE  \E Q \in Majorities(Sentinel) : \A t \in Q : Bound(Sentinel, st', rep', t, l.by, l.epoch)
    BY <1>2 DEF LeaderInv
  <2>1. CASE l \in led
    BY <1>5, <2>1
  <2>2. CASE l = n
    <3>1. PICK Q \in Majorities(Sentinel) : \A t \in Q :
            Voted(Sentinel, st, rep, t, s, e) \/ Voted(Sentinel, st', rep', t, s, e)
      BY <2>2
    <3>2. Q \subseteq Sentinel
      BY DEF Majorities
    <3> HIDE DEF n
    <3> QED BY <1>3, <1>4, <1>6, <2>2, <3>1, <3>2
  <2> QED BY <2>1, <2>2
<1>8. ASSUME NEW l \in led, l.how = "votes", h = "votes", l.epoch = e, e \notin forgot PROVE l.by = s
  <2>1. PICK Q \in Majorities(Sentinel) : \A t \in Q :
          Voted(Sentinel, st, rep, t, s, e) \/ Voted(Sentinel, st', rep', t, s, e)
    BY <1>8
  <2>2. PICK R \in Majorities(Sentinel) : \A t \in R : Bound(Sentinel, st', rep', t, l.by, l.epoch)
                                                     /\ Bound(Sentinel, st, rep, t, l.by, l.epoch)
    BY <1>5, <1>8
  <2>3. PICK t \in Q : t \in R
    BY <1>n, MajoritiesMeet
  <2> QED BY <1>8, <2>1, <2>2, <2>3 DEF Bound
<1>9. VotesElectOne'
  <2> SUFFICES ASSUME NEW k \in led', NEW l \in led', k.how = "votes", l.how = "votes", k.epoch = l.epoch,
                      k.epoch \notin forgot
               PROVE  k.by = l.by
    BY DEF VotesElectOne, Unique
  <2>1. CASE k \in led /\ l \in led
    BY <1>i, <2>1 DEF VotesElectOne, Unique
  <2>2. CASE k \in led /\ l = n
    <3>1. h = "votes" /\ k.epoch = e /\ l.by = s
      BY <2>2
    <3> QED BY <1>8, <2>2, <3>1
  <2>3. CASE k = n /\ l \in led
    <3>1. h = "votes" /\ l.epoch = e /\ k.by = s
      BY <2>3
    <3> QED BY <1>8, <2>3, <3>1
  <2>4. CASE k = n /\ l = n
    BY <2>4
  <2> QED BY <2>1, <2>2, <2>3, <2>4
<1> QED BY <1>7, <1>9

\* The votes that make s a winner: those of a majority.
LEMMA WinnerQuorum ==
  ASSUME env \in Environment, NEW s \in Sentinel, NEW z, s \in Winners(z, s), z.cur = z.fepoch
  PROVE  \E Q \in Majorities(Sentinel) : \A t \in Q :
            \/ t \in Others(s) /\ z.vote[t] = [leader |-> s, epoch |-> z.fepoch]
            \/ t = s /\ z.leader = s /\ z.leaderEpoch = z.fepoch
<1> DEFINE A == {t \in Others(s) : z.vote[t] = [leader |-> s, epoch |-> z.cur]}
<1>0. IsFiniteSet(Sentinel)
  BY SentinelAssumption, FS_Subset DEF Environment, Sentinel
<1>1. A \subseteq Sentinel /\ s \notin A
  BY DEF Others
<1>2. IsFiniteSet(A) /\ Cardinality(A) \in Nat /\ Cardinality(Sentinel) \in Nat
  BY <1>0, <1>1, FS_Subset, FS_CardinalityType
<1>3. Cardinality(A) + OwnVote(z, z.fepoch, s) >= Cardinality(Sentinel) \div 2 + 1
  BY DEF Winners, OtherVotes
<1>4. CASE z.leader = s /\ z.leaderEpoch = z.fepoch
  <2>1. Cardinality(A \union {s}) = Cardinality(A) + 1
    BY <1>1, <1>2, FS_AddElement
  <2>2. A \union {s} \in Majorities(Sentinel)
    <3>1. OwnVote(z, z.fepoch, s) = 1
      BY <1>4 DEF OwnVote
    <3>2. Cardinality(A \union {s}) >= Cardinality(Sentinel) \div 2 + 1
      BY <1>3, <2>1, <3>1
    <3> QED BY <1>1, <3>2 DEF Majorities
  <2> QED BY <1>4, <2>2
<1>5. CASE ~(z.leader = s /\ z.leaderEpoch = z.fepoch)
  <2>1. OwnVote(z, z.fepoch, s) = 0
    BY <1>5 DEF OwnVote
  <2>2. Cardinality(A) >= Cardinality(Sentinel) \div 2 + 1
    BY <1>2, <1>3, <2>1
  <2>3. A \in Majorities(Sentinel)
    BY <1>1, <2>2 DEF Majorities
  <2> QED BY <2>3
<1> QED BY <1>4, <1>5

LEMMA AskType ==
  ASSUME env \in Environment, NEW x, Sound(env, x), NEW s \in Sentinel, NEW T,
         NEW q \in [env.sentinels -> Seq(Asked(env))]
  PROVE  Ask(q, x, s, T) \in [env.sentinels -> Seq(Asked(env))]
<1>1. x.addr \in env.instances /\ x.cur \in Epochs(env)
  BY DEF Sound, Memory
<1>2. Question(x, s) \in Asked(env)
  BY <1>1 DEF Question, Asked, Voices, Sentinel
<1>3. \A t \in env.sentinels : q[t] \in Seq(Asked(env)) /\ Append(q[t], Question(x, s)) \in Seq(Asked(env))
  BY <1>2
<1> QED BY <1>3 DEF Ask, Sentinel

LEMMA StartForgets ==
  ASSUME env \in Environment, NEW x, Sound(env, x), x.fstate = "none", x.cur < env.epoch, NEW old
  PROVE  LET y == Forget(sentinelStartFailover(x), old)
         IN  /\ Sound(env, y) /\ Follows(env, x, y) /\ NoneLed(x, y)
             /\ y.fstate = "wait_start" /\ y.leaderEpoch = x.leaderEpoch /\ y.addr = x.addr
<1> DEFINE z == sentinelStartFailover(x)
           y == Forget(z, old)
<1>0. x \in Memory(env) /\ x.forced \in BOOLEAN
  BY DEF Sound, Memory
<1>1. z = [sentinelStartFailover(x) EXCEPT !.forced = x.forced]
  BY <1>0 DEF sentinelStartFailover, Memory
<1> HIDE DEF z
<1>2. /\ Sound(env, z) /\ Follows(env, x, z) /\ NoneLed(x, z) /\ z.fstate = "wait_start"
      /\ z.leaderEpoch = x.leaderEpoch /\ z.addr = x.addr
  BY <1>0, <1>1, StartFacts
<1>3. Sound(env, y) /\ Follows(env, z, y) /\ NoneLed(z, y) /\ Alike(z, y)
  BY <1>2, ForgetFacts
<1> HIDE DEF y
<1>4. Follows(env, x, y)
  BY <1>0, <1>2, <1>3, FollowsTrans DEF Sound
<1>5. NoneLed(x, y) /\ y.fstate = "wait_start" /\ y.leaderEpoch = x.leaderEpoch /\ y.addr = x.addr
  BY <1>2, <1>3 DEF NoneLed, Alike
<1> QED BY <1>3, <1>4, <1>5 DEF y, z

\* After the state machine: votes are forgotten, and a failover that is done
\* ends in the switch to the promoted slave.
LEMMA TimerEnd ==
  ASSUME env \in Environment, NEW x2, Sound(env, x2), NEW o, Outcome(env, x2, o), NEW old
  PROVE  LET x3 == Forget(o.x, old)
             x4 == sentinelFailoverSwitchToPromotedSlave(x3)
         IN  /\ Sound(env, x3) /\ Sound(env, x4) /\ x4.fstate # "update_config" /\ Follows(env, x2, x4)
             /\ IF x2.fstate = "wait_start" /\ o.x.fstate = "select"
                THEN /\ x4.fepoch = x2.fepoch
                     /\ x4.leader = o.x.leader /\ x4.leaderEpoch = o.x.leaderEpoch
                ELSE NoneLed(x2, x4)
<1> DEFINE x3 == Forget(o.x, old)
           x4 == sentinelFailoverSwitchToPromotedSlave(x3)
<1>1. Sound(env, o.x) /\ Follows(env, x2, o.x)
  BY DEF Outcome
<1>2. Sound(env, x3) /\ Follows(env, o.x, x3) /\ NoneLed(o.x, x3) /\ Alike(o.x, x3)
  BY <1>1, ForgetFacts
<1> HIDE DEF x3
<1>3. /\ Sound(env, x4) /\ x4.fstate # "update_config" /\ Follows(env, x3, x4) /\ NoneLed(x3, x4)
      /\ x3.fstate # "update_config" => x4 = x3
      /\ x4.leaderEpoch = x3.leaderEpoch
  BY <1>2, SwitchFacts
<1> HIDE DEF x4
<1>4. Follows(env, x2, x3)
  BY <1>1, <1>2, FollowsTrans DEF Sound
<1>5. Follows(env, x2, x4)
  BY <1>2, <1>3, <1>4, FollowsTrans DEF Sound
<1>6. CASE ~(x2.fstate = "wait_start" /\ o.x.fstate = "select")
  <2>0. NoneLed(x2, o.x)
    BY <1>6 DEF Outcome
  <2>1. NoneLed(x2, x4)
    BY <1>2, <1>3, <2>0 DEF NoneLed
  <2> QED BY <1>2, <1>3, <1>5, <1>6, <2>1 DEF x3, x4
<1>7. CASE x2.fstate = "wait_start" /\ o.x.fstate = "select"
  <2>0. o.x.fepoch = x2.fepoch
    BY <1>7 DEF Outcome
  <2>1. x4 = x3
    BY <1>2, <1>3, <1>7 DEF Alike
  <2>2. x4.fepoch = x2.fepoch /\ x4.leader = o.x.leader /\ x4.leaderEpoch = o.x.leaderEpoch
    BY <1>2, <2>0, <2>1 DEF Alike
  <2> QED BY <1>2, <1>3, <1>5, <1>7, <2>2 DEF x3, x4
<1> QED BY <1>6, <1>7

\* A run of the timer that finds the master down or not, asks the Sentinels
\* in conn and forgets the answers of those in old.
TimerRun(s, pdown, late, down, conn, old) ==
    /\ env.loss = 0 => old = {}
    /\ down => s \in env.seers
    /\ Cardinality(conn) <= env.ask /\ (~down => conn = {})
    /\ st[s].sdown /\ ~down => env.flap > 0
    /\ LET x == CheckDown([st[s] EXCEPT !.tilt = FALSE], down)
           starts == sentinelStartFailoverIfNeeded(x)
           x2 == IF starts THEN Forget(sentinelStartFailover(x), old) ELSE x
           q2 == IF starts THEN Ask(req[s], x2, s, conn) ELSE req[s]
       IN  \E o \in sentinelFailoverStateMachine(x2, s, pdown, late) :
             LET x3 == Forget(o.x, old)
                 x4 == sentinelFailoverSwitchToPromotedSlave(x3)
                 leads == x2.fstate = "wait_start" /\ o.x.fstate = "select"
                 how == IF s \notin Winners(o.x, s) THEN "forced"
                        ELSE IF x2.cur = x2.fepoch THEN "votes" ELSE "mixed"
             IN  /\ st' = [st EXCEPT ![s] = x4]
                 /\ req' = [req EXCEPT ![s] = Ask(q2, x3, s, conn)]
                 /\ IF starts \/ x4.leaderEpoch # st[s].leaderEpoch \/ x4.addr # st[s].addr
                    THEN \E d \in Flushes(s, disk[s], x4) : disk' = [disk EXCEPT ![s] = d]
                    ELSE disk' = disk
                 /\ cmds' = cmds \union o.cmds
                 /\ led' = IF leads
                           THEN led \union {[by |-> s, epoch |-> x2.fepoch, how |-> how]}
                           ELSE led
                 /\ env' = [env EXCEPT !.ask = @ - Cardinality(conn),
                                       !.flap = IF st[s].sdown /\ ~down THEN @ - 1 ELSE @]
                 /\ told' = [told EXCEPT ![s] =
                               IF x4.fstate # "reconf" THEN {}
                               ELSE (@ \ (x2.slow \ x4.slow)) \union MustSync(o.cmds)]
                 /\ UNCHANGED <<rep, hello, role, synced, kept, forgot>>

LEMMA TimerRuns ==
  ASSUME NEW s, NEW pdown, NEW late, sentinelTimer(s, pdown, late)
  PROVE  \E down \in BOOLEAN, conn \in SUBSET Idle(s), old \in SUBSET Answered(st[s], s) :
            TimerRun(s, pdown, late, down, conn, old)
BY DEF sentinelTimer, TimerRun

LEMMA TimerIInv ==
  ASSUME NEW s \in Sentinel, NEW pdown \in BOOLEAN, NEW late \in BOOLEAN
  PROVE  IInv /\ sentinelTimer(s, pdown, late) => IInv'
<1> SUFFICES ASSUME IInv, sentinelTimer(s, pdown, late) PROVE IInv'
  OBVIOUS
<1>0. PICK down \in BOOLEAN, conn \in SUBSET Idle(s), old \in SUBSET Answered(st[s], s) :
         TimerRun(s, pdown, late, down, conn, old)
  BY TimerRuns
<1>1. Cardinality(conn) <= env.ask /\ (st[s].sdown /\ ~down => env.flap > 0)
  BY <1>0 DEF TimerRun
<1> DEFINE x == CheckDown([st[s] EXCEPT !.tilt = FALSE], down)
           starts == sentinelStartFailoverIfNeeded(x)
           x2 == IF starts THEN Forget(sentinelStartFailover(x), old) ELSE x
           q2 == IF starts THEN Ask(req[s], x2, s, conn) ELSE req[s]
<1>2. PICK o \in sentinelFailoverStateMachine(x2, s, pdown, late) :
         LET x3 == Forget(o.x, old)
             x4 == sentinelFailoverSwitchToPromotedSlave(x3)
             leads == x2.fstate = "wait_start" /\ o.x.fstate = "select"
             how == IF s \notin Winners(o.x, s) THEN "forced"
                    ELSE IF x2.cur = x2.fepoch THEN "votes" ELSE "mixed"
         IN  /\ st' = [st EXCEPT ![s] = x4]
             /\ req' = [req EXCEPT ![s] = Ask(q2, x3, s, conn)]
             /\ IF starts \/ x4.leaderEpoch # st[s].leaderEpoch \/ x4.addr # st[s].addr
                THEN \E d \in Flushes(s, disk[s], x4) : disk' = [disk EXCEPT ![s] = d]
                ELSE disk' = disk
             /\ cmds' = cmds \union o.cmds
             /\ led' = IF leads
                       THEN led \union {[by |-> s, epoch |-> x2.fepoch, how |-> how]}
                       ELSE led
             /\ env' = [env EXCEPT !.ask = @ - Cardinality(conn),
                                   !.flap = IF st[s].sdown /\ ~down THEN @ - 1 ELSE @]
             /\ UNCHANGED <<rep, hello, role, kept, forgot>>
  BY <1>0 DEF TimerRun
<1> DEFINE z == o.x
           x3 == Forget(o.x, old)
           x4 == sentinelFailoverSwitchToPromotedSlave(x3)
           leads == x2.fstate = "wait_start" /\ z.fstate = "select"
           how == IF s \notin Winners(z, s) THEN "forced"
                  ELSE IF x2.cur = x2.fepoch THEN "votes" ELSE "mixed"
           flush == starts \/ x4.leaderEpoch # st[s].leaderEpoch \/ x4.addr # st[s].addr
<1>i. Types /\ MemoryInv
  BY DEF IInv
<1>3. /\ env \in Environment /\ Sound(env, st[s]) /\ st[s].fstate # "update_config" /\ st[s] \in Memory(env)
      /\ Saved(env, st[s], disk[s])
      /\ disk = [disk EXCEPT ![s] = disk[s]]
  BY OfSentinel
<1>4. Sound(env, x) /\ Follows(env, st[s], x) /\ NoneLed(st[s], x) /\ x.fstate = st[s].fstate
  BY <1>3, CheckDownFacts
<1>5. Sound(env, x2) /\ Follows(env, st[s], x2) /\ NoneLed(st[s], x2) /\ x2.fstate # "update_config"
  <2>1. CASE starts
    <3> DEFINE y == Forget(sentinelStartFailover(x), old)
    <3>1. x2 = y
      BY <2>1
    <3>2. x.fstate = "none" /\ x.cur < env.epoch
      BY <2>1 DEF sentinelStartFailoverIfNeeded
    <3> HIDE DEF x, x2
    <3>3. /\ Sound(env, y) /\ Follows(env, x, y) /\ NoneLed(x, y) /\ y.fstate = "wait_start"
      BY <1>3, <1>4, <3>2, StartForgets
    <3> HIDE DEF y
    <3>4. Follows(env, st[s], y)
      BY <1>3, <1>4, <3>3, FollowsTrans DEF Sound
    <3> QED BY <1>4, <3>1, <3>3, <3>4 DEF NoneLed
  <2>2. CASE ~starts
    <3>1. x2 = x
      BY <2>2
    <3> QED BY <1>3, <1>4, <3>1
  <2> QED BY <2>1, <2>2
<1> HIDE DEF starts
<1>6. Outcome(env, x2, o)
  <2> HIDE DEF x2
  <2> QED BY <1>3, <1>5, MachineOutcome
<1>7. /\ st' = [st EXCEPT ![s] = x4]
      /\ req' = [req EXCEPT ![s] = Ask(q2, x3, s, conn)]
      /\ IF flush THEN \E d \in Flushes(s, disk[s], x4) : disk' = [disk EXCEPT ![s] = d] ELSE disk' = disk
      /\ cmds' = cmds \union o.cmds
      /\ led' = IF leads THEN led \union {[by |-> s, epoch |-> x2.fepoch, how |-> how]} ELSE led
      /\ env' = [env EXCEPT !.ask = @ - Cardinality(conn),
                            !.flap = IF st[s].sdown /\ ~down THEN @ - 1 ELSE @]
      /\ UNCHANGED <<rep, hello, role, kept, forgot>>
  BY <1>2, <1>3
<1>q. q2 = Ask(req[s], x2, s, conn) \/ q2 = req[s]
  OBVIOUS
<1> HIDE DEF x2, q2
<1>8. /\ Sound(env, x3) /\ Sound(env, x4) /\ x4.fstate # "update_config" /\ Follows(env, x2, x4)
      /\ leads => /\ x4.fepoch = x2.fepoch
                   /\ x4.leader = z.leader /\ x4.leaderEpoch = z.leaderEpoch
      /\ ~leads => NoneLed(x2, x4)
  BY <1>3, <1>5, <1>6, TimerEnd
<1>h. how \in {"votes", "mixed", "forced"} /\ (how = "votes" => s \in Winners(z, s) /\ x2.cur = x2.fepoch)
  OBVIOUS
<1>f. ~flush => x4.leaderEpoch = st[s].leaderEpoch
  OBVIOUS
<1> HIDE DEF x, x3, x4, how, flush
<1>9. Follows(env, st[s], x4)
  BY <1>3, <1>5, <1>8, FollowsTrans DEF Sound
<1>10. PICK d : /\ disk' = [disk EXCEPT ![s] = d]
                /\ Saved(env, x4, d) /\ Recall(st[s], disk[s]) <= Recall(x4, d)
                /\ \/ d.cfg = disk[s].cfg /\ d.addr = disk[s].addr
                   \/ d.cfg = x4.cfg /\ d.addr = Tells(x4)
  <2>1. st[s].cur <= x4.cur /\ x4 \in Memory(env)
    BY <1>8, <1>9 DEF Sound, Follows
  <2>3. CASE flush
    <3>1. PICK f \in Flushes(s, disk[s], x4) : disk' = [disk EXCEPT ![s] = f]
      BY <1>7, <2>3
    <3>2. /\ Saved(env, x4, f) /\ Recall(st[s], disk[s]) <= Recall(x4, f)
          /\ \/ f.cfg = disk[s].cfg /\ f.addr = disk[s].addr
             \/ f.cfg = x4.cfg /\ f.addr = Tells(x4)
      BY <1>3, <1>8, <2>1, FlushFacts
    <3> QED BY <3>1, <3>2
  <2>4. CASE ~flush
    <3>1. disk' = [disk EXCEPT ![s] = disk[s]] /\ x4.leaderEpoch = st[s].leaderEpoch
      BY <1>3, <1>7, <1>f, <2>4
    <3>2. Saved(env, x4, disk[s]) /\ Recall(st[s], disk[s]) <= Recall(x4, disk[s])
      BY <1>3, <2>1, <3>1, KeepFacts
    <3> QED BY <3>1, <3>2
  <2> QED BY <2>3, <2>4
<1>11. /\ MemoryStep /\ VoteStep /\ ConfigStep
       /\ st' = [t \in Sentinel |-> st'[t]] /\ disk' = [t \in Sentinel |-> disk'[t]]
  BY <1>7, <1>8, <1>9, <1>10, LocalFacts
<1>12. EnvKept
  <2>1. Cardinality(conn) \in Nat
    <3>1. conn \subseteq Sentinels
      BY <1>3 DEF Idle, Others, Sentinel, Environment
    <3> QED BY <3>1, SentinelAssumption, FS_Subset, FS_CardinalityType
  <2> DEFINE a == env.ask - Cardinality(conn)
             f == IF st[s].sdown /\ ~down THEN env.flap - 1 ELSE env.flap
  <2>2. a \in Nat /\ f \in Nat
    BY <1>1, <1>3, <2>1 DEF Environment
  <2>3. env' = [env EXCEPT !.ask = a, !.flap = f]
    BY <1>7
  <2> HIDE DEF a, f
  <2> QED BY <1>3, <2>2, <2>3 DEF EnvKept, Environment
<1>13. req' \in [env.sentinels -> [env.sentinels -> Seq(Asked(env))]]
  <2>1. req \in [env.sentinels -> [env.sentinels -> Seq(Asked(env))]]
    BY RestTypes DEF Rest
  <2>2. req[s] \in [env.sentinels -> Seq(Asked(env))]
    BY <2>1 DEF Sentinel
  <2>3. q2 \in [env.sentinels -> Seq(Asked(env))]
    BY <1>3, <1>5, <1>q, <2>2, AskType
  <2>4. Ask(q2, x3, s, conn) \in [env.sentinels -> Seq(Asked(env))]
    BY <1>3, <1>8, <2>3, AskType
  <2> QED BY <1>7, <2>1, <2>4
<1>14. x2.fepoch \in Epochs(env)
  BY <1>5 DEF Sound, Memory
<1>15. Rest(env, req', rep', hello', role', cmds', led', kept')
  <2>1. cmds' \subseteq [to : env.instances, of : env.instances]
    BY <1>6, <1>7, RestTypes DEF Rest, Outcome
  <2>2. led' \subseteq Ledger(env)
    BY <1>7, <1>14, <1>h, RestTypes DEF Rest, Ledger, Sentinel
  <2> QED BY <1>7, <1>13, <2>1, <2>2, RestTypes DEF Rest
<1>16. st'[s] = x4 /\ \A t \in Sentinel : t # s => st'[t] = st[t]
  BY <1>7, <1>i DEF Types
<1>17. led \subseteq led'
  BY <1>7
<1>18. ASSUME NEW t \in Sentinel
       PROVE  NoneLed(st[t], st'[t]) \/ \E l \in led' : l.by = t /\ l.epoch = st'[t].fepoch
  <2>1. CASE t # s
    BY <1>16, <2>1 DEF NoneLed
  <2>2. CASE t = s /\ NoneLed(x2, x4)
    BY <1>5, <1>16, <2>2 DEF NoneLed
  <2>3. CASE t = s /\ leads /\ x4.fepoch = x2.fepoch
    <3> DEFINE l == [by |-> s, epoch |-> x2.fepoch, how |-> how]
    <3>1. l \in led' /\ l.by = s /\ l.epoch = x2.fepoch
      BY <1>7, <2>3
    <3> HIDE DEF l
    <3> QED BY <1>16, <2>3, <3>1
  <2> QED BY <1>8, <2>1, <2>2, <2>3
<1>19. led' = led \/ (LeaderInv' /\ VotesElectOne')
  <2>1. CASE ~leads
    BY <1>7, <2>1
  <2>2. CASE leads
    <3>1. led' = led \union {[by |-> s, epoch |-> x2.fepoch, how |-> how]}
      BY <1>7, <2>2
    <3>2. \A t \in Sentinel : st'[t].leaderEpoch \in Nat
      BY <1>3, <1>11, EpochFields DEF MemoryStep, Sound
    <3>3. z.vote = x2.vote /\ z.cur = x2.cur /\ z.fepoch = x2.fepoch
      BY <1>6, <2>2 DEF Outcome
    <3>4. ASSUME how = "votes"
          PROVE  \E Q \in Majorities(Sentinel) : \A t \in Q :
                   \/ Voted(Sentinel, st, rep, t, s, x2.fepoch)
                   \/ Voted(Sentinel, st', rep', t, s, x2.fepoch)
      <4>1. s \in Winners(z, s) /\ z.cur = z.fepoch
        BY <1>h, <3>3, <3>4
      <4> HIDE DEF z
      <4>2. PICK Q \in Majorities(Sentinel) : \A t \in Q :
              \/ t \in Others(s) /\ z.vote[t] = [leader |-> s, epoch |-> z.fepoch]
              \/ t = s /\ z.leader = s /\ z.leaderEpoch = z.fepoch
        BY <1>3, <4>1, WinnerQuorum
      <4>3. ASSUME NEW t \in Q
            PROVE  \/ Voted(Sentinel, st, rep, t, s, x2.fepoch)
                   \/ Voted(Sentinel, st', rep', t, s, x2.fepoch)
        <5>1. CASE t \in Others(s) /\ z.vote[t] = [leader |-> s, epoch |-> z.fepoch]
          <6>1. x2.vote[t] = [leader |-> s, epoch |-> x2.fepoch] /\ x2.vote[t].leader = s /\ t \in env.sentinels
            BY <3>3, <5>1 DEF Others, Sentinel
          <6>2. s # None
            BY <1>3, SentinelAssumption DEF Environment, Sentinel
          <6>3. st[s].vote[t] = [leader |-> s, epoch |-> x2.fepoch]
            BY <1>5, <6>1, <6>2 DEF Follows
          <6> QED BY <6>3 DEF Voted
        <5>2. CASE t = s /\ z.leader = s /\ z.leaderEpoch = z.fepoch
          <6>1. x4.leader = s /\ x4.leaderEpoch = x2.fepoch
            <7>1. x4.leader = z.leader /\ x4.leaderEpoch = z.leaderEpoch
              BY <1>8, <2>2
            <7> QED BY <3>3, <5>2, <7>1
          <6> QED BY <1>16, <5>2, <6>1 DEF Voted
        <5> QED BY <4>2, <5>1, <5>2
      <4> QED BY <4>3
    <3>5. forgot' = forgot /\ VoteStep
      BY <1>7, <1>11
    <3> DEFINE e == x2.fepoch
    <3>6. e \in Epochs(env) /\ led' = led \union {[by |-> s, epoch |-> e, how |-> how]}
      BY <1>14, <3>1
    <3>7. how = "votes" => \E Q \in Majorities(Sentinel) : \A t \in Q :
            Voted(Sentinel, st, rep, t, s, e) \/ Voted(Sentinel, st', rep', t, s, e)
      BY <3>4
    <3> HIDE DEF e
    <3> QED BY <1>12, <3>2, <3>5, <3>6, <3>7, ElectionStep
  <2> QED BY <2>1, <2>2
<1> QED BY <1>11, <1>12, <1>15, <1>17, <1>18, <1>19, Step

-----------------------------------------------------------------------------
LEMMA InitIInv == Init => IInv
<1> SUFFICES ASSUME Init PROVE IInv
  OBVIOUS
<1> DEFINE zero == 0
           d == [cur |-> 0, leaderEpoch |-> 0, cfg |-> 0, addr |-> Master0, stale |-> FALSE]
           y == Fresh(d)
           h == [cur |-> 0, addr |-> Master0, cfg |-> 0]
           w == [t \in Sentinel |-> NoVote]
           r == [i \in Instance |-> {}]
<1>1. env \in Environment /\ Master0 \in env.instances
  BY SentinelAssumption DEF Init
<1>2. 0 \in Epochs(env)
  BY <1>1, InEpochs DEF Environment
<1>3. /\ w \in [env.sentinels -> [leader : Voices(env), epoch : Epochs(env)]]
      /\ \A t \in Sentinel : w[t].leader = None
  BY <1>2 DEF Sentinel, Voices, NoVote
<1>4. r \in [env.instances -> SUBSET Flags] /\ \A i \in env.instances : r[i] = {}
  BY DEF Instance
<1>5. /\ st = [s \in Sentinel |-> y] /\ disk = [s \in Sentinel |-> d]
      /\ hello = [s \in Sentinel |-> h] /\ cmds = {} /\ led = {} /\ kept = FALSE
      /\ req = [s \in Sentinel |-> [t \in Sentinel |-> <<>>]]
      /\ rep = [s \in Sentinel |-> [t \in Sentinel |-> <<>>]]
      /\ role = [i \in Instance |-> Master0]
  BY DEF Init
<1>6. zero \in Epochs(env) /\ zero <= zero /\ zero = 0
  BY <1>2
<1>7. /\ d = [cur |-> zero, leaderEpoch |-> zero, cfg |-> zero, addr |-> Master0, stale |-> FALSE]
      /\ h = [cur |-> zero, addr |-> Master0, cfg |-> zero]
  OBVIOUS
<1>y. y = [cur |-> zero, leader |-> None, leaderEpoch |-> zero, vote |-> w,
           mdown |-> {}, sdown |-> FALSE, odown |-> FALSE, mrole |-> "master",
           fstate |-> "none", fepoch |-> zero, forced |-> FALSE, wait |-> FALSE, promoted |-> None,
           reconf |-> r, slow |-> {}, tilt |-> FALSE, addr |-> Master0, cfg |-> zero]
  BY DEF Fresh
<1> HIDE DEF zero, d, y, h, w, r
<1>8. /\ d \in File(env) /\ h \in Hello(env)
      /\ d.cur = zero /\ d.leaderEpoch = zero /\ d.cfg = zero /\ d.addr = Master0
      /\ h.cur = zero /\ h.cfg = zero /\ h.addr = Master0
  BY <1>1, <1>6, <1>7 DEF File, Hello
<1>9. y \in Memory(env)
  BY <1>1, <1>3, <1>4, <1>6, <1>y DEF Memory, Voices
<1>10. /\ y.cur = zero /\ y.leader = None /\ y.leaderEpoch = zero /\ y.vote = w
       /\ y.fstate = "none" /\ y.fepoch = zero /\ y.reconf = r /\ y.addr = Master0 /\ y.cfg = zero
  BY <1>y
<1>11. Syncing(env, y) = {}
  BY <1>4, <1>10 DEF Syncing
<1>12. Cardinality(Syncing(env, y)) <= env.parallel
  BY <1>1, <1>11, FS_EmptySet DEF Environment
<1>13. Sound(env, y) /\ Saved(env, y, d) /\ Tells(y) = Master0
  BY <1>4, <1>6, <1>8, <1>9, <1>10, <1>12 DEF Sound, Chosen, Settled, Saved, Tells
<1>14. Types
  <2>1. req \in [Sentinel -> [Sentinel -> Seq(Asked(env))]] /\ rep \in [Sentinel -> [Sentinel -> Seq(Reply(env))]]
    BY <1>5
  <2>2. role \in [Instance -> Instance] /\ hello \in [Sentinel -> Hello(env)] /\ Master0 \in Instance
    BY <1>1, <1>5, <1>8 DEF Instance
  <2> QED BY <1>1, <1>5, <2>1, <2>2 DEF Types
<1>15. MemoryInv
  BY <1>5, <1>6, <1>8, <1>10, <1>13 DEF MemoryInv
<1>16. VoteInv
  <2> SUFFICES ASSUME NEW t \in Sentinel, NEW c \in Sentinel, NEW e \in Epochs(env),
                      Voted(Sentinel, st, rep, t, c, e)
               PROVE  FALSE
    BY DEF VoteInv
  <2>0. c # None
    BY <1>1, SentinelAssumption DEF Environment, Sentinel
  <2>1. \A s \in Sentinel : st[s].vote[t].leader = None /\ st[s].leader = None
    BY <1>3, <1>5, <1>10
  <2>2. \A s \in Sentinel : rep[s][t] = <<>>
    BY <1>5
  <2>3. \A s \in Sentinel : st[s].vote[t] # [leader |-> c, epoch |-> e]
    BY <2>0, <2>1
  <2> QED BY <2>0, <2>1, <2>2, <2>3 DEF Voted
<1>17. LeaderInv /\ VotesElectOne
  BY <1>5 DEF LeaderInv, VotesElectOne, Unique
<1>18. LedInv
  BY <1>5, <1>10 DEF LedInv, Late
<1>19. ConfigInv
  <2>1. \A s \in Sentinel : \A e, a : Holds(st[s], disk[s], hello[s], e, a) => e = 0 /\ a = Master0
    BY <1>5, <1>6, <1>8, <1>10, <1>13 DEF Holds
  <2> QED BY <2>1 DEF ConfigInv, OneConfig, FromLeader
<1> QED BY <1>14, <1>15, <1>16, <1>17, <1>18, <1>19 DEF IInv

LEMMA StutterIInv == IInv /\ UNCHANGED vars => IInv'
<1> SUFFICES ASSUME IInv, UNCHANGED vars PROVE IInv'
  OBVIOUS
<1>1. RepliesKept /\ UNCHANGED <<st, disk, hello, led, kept, forgot, req, rep, role, cmds, env>>
  BY DEF vars, RepliesKept
<1>2. EnvKept
  BY <1>1, RestTypes, SameEnv
<1>3. Rest(env, req', rep', hello', role', cmds', led', kept')
  BY <1>1, RestTypes
<1> QED BY <1>1, <1>2, <1>3, MailStep

LEMMA NextIInv == IInv /\ [Next]_vars => IInv'
<1> SUFFICES ASSUME IInv, [Next]_vars PROVE IInv'
  OBVIOUS
<1>1. CASE UNCHANGED vars
  BY <1>1, StutterIInv
<1>2. ASSUME NEW s \in Sentinel, NEW pdown \in BOOLEAN, NEW late \in BOOLEAN, sentinelTimer(s, pdown, late)
      PROVE  IInv'
  BY <1>2, TimerIInv
<1>3. ASSUME NEW s \in Sentinel,
             \/ sentinelCheckTiltCondition(s) \/ DelayOver(s) \/ InfoFromMaster(s)
             \/ SentinelFailover(s) \/ sentinelSendHello(s) \/ Crash(s)
      PROVE  IInv'
  BY <1>3, TiltIInv, DelayIInv, InfoFromMasterIInv, SentinelFailoverIInv, SendHelloIInv, CrashIInv
<1>4. ASSUME NEW s \in Sentinel, NEW i \in Instance, ReconfTimeout(s, i) \/ InfoFromSlave(s, i)
      PROVE  IInv'
  BY <1>4, ReconfTimeoutIInv, InfoFromSlaveIInv
<1>5. ASSUME NEW s \in Sentinel, NEW t \in Others(s),
             \/ IsMasterDownByAddr(s, t) \/ sentinelReceiveIsMasterDownReply(s, t)
             \/ LoseLink(s, t) \/ sentinelProcessHelloMessage(s, hello[t])
      PROVE  IInv'
  BY <1>5, IsMasterDownIInv, ReplyIInv, LoseLinkIInv, ProcessHelloIInv
<1>6. ASSUME NEW c \in cmds, Slaveof(c) \/ LoseCommand(c)
      PROVE  IInv'
  BY <1>6, CommandIInv
<1>7. ASSUME NEW i \in Instance, LinkUp(i)
      PROVE  IInv'
  BY <1>7, LinkUpIInv
<1> QED BY <1>1, <1>2, <1>3, <1>4, <1>5, <1>6, <1>7 DEF Next

LEMMA Invariance == Spec => []IInv
BY InitIInv, NextIInv, PTL DEF Spec

LEMMA TypedMemory ==
  ASSUME IInv
  PROVE  TypeOK
<1>1. \A s \in Sentinel : st[s] \in Memory(env) /\ st[s].fstate # "update_config"
  BY OfSentinel
<1> DEFINE M == [cur : 0..env.epoch, leader : Sentinel \union {None}, leaderEpoch : 0..env.epoch,
           vote : [Sentinel -> [leader : Sentinel \union {None}, epoch : 0..env.epoch]],
           mdown : SUBSET Sentinel, sdown : BOOLEAN, odown : BOOLEAN, mrole : {"master", "slave"},
           fstate : {"none", "wait_start", "select", "send_noone", "wait_promotion", "reconf"},
           fepoch : 0..env.epoch, forced : BOOLEAN, wait : BOOLEAN,
           promoted : Instance \union {None},
           reconf : [Instance -> SUBSET {"sent", "inprog", "done"}],
           slow : SUBSET Instance, tilt : BOOLEAN,
           addr : Instance, cfg : 0..env.epoch]
<1>2. ASSUME NEW x \in Memory(env), x.fstate # "update_config" PROVE x \in M
  <2>1. x.fstate \in {"none", "wait_start", "select", "send_noone", "wait_promotion", "reconf"}
    BY <1>2 DEF Memory, Early, Settled
  <2> QED BY <2>1 DEF Memory, Epochs, Voices, Flags, Sentinel, Instance
<1>3. st \in [Sentinel -> M]
  <2> HIDE DEF M
  <2> QED BY <1>1, <1>2, RestTypes
<1>4. role \in [Instance -> Instance]
  BY RestTypes DEF Rest, Instance
<1> QED BY <1>3, <1>4 DEF TypeOK

\* Elections by votes are safe for any number of Sentinels, epochs, crashes
\* and lost links (sentinelVoteLeader, sentinelGetLeader): a vote is on disk
\* before it is told, so that no epoch has two leaders by votes, and no epoch
\* is taken back by a crash, but for the epochs that a Sentinel which could not
\* write its file forgot in a crash.
THEOREM ElectionsSafe == Spec => []ElectionsHold
<1>1. IInv => ElectionsHold
  <2> SUFFICES ASSUME IInv PROVE ElectionsHold
    OBVIOUS
  <2>1. VotesElectOne
    BY DEF IInv
  <2>2. EpochsHold
    BY DEF EpochsHold, IInv, MemoryInv, Sound, Saved
  <2> QED BY <2>1, <2>2, TypedMemory DEF ElectionsHold
<1> QED BY <1>1, Invariance, PTL

\* The configuration epoch names the master: as long as no two Sentinels led
\* failovers of one epoch, two Sentinels or hello messages with one
\* config_epoch tell the same address (sentinelProcessHelloMessage), unless
\* the epoch was forgotten by a Sentinel that could not write its file.
THEOREM ConfigSafe == Spec => []EpochNamesMaster
<1>1. IInv => EpochNamesMaster
  <2> SUFFICES ASSUME IInv, Unique(led), ~kept, NEW m \in Advertised, NEW k \in Advertised, m.cfg = k.cfg,
                      m.cfg \notin forgot
               PROVE  m.addr = k.addr
    BY DEF EpochNamesMaster, OneAddress
  <2>0. OneConfig
    BY DEF IInv, ConfigInv
  <2>1. ASSUME NEW n \in Advertised
        PROVE  /\ n.cfg \in Epochs(env) /\ n.addr \in Instance
               /\ \E s \in Sentinel : Holds(st[s], disk[s], hello[s], n.cfg, n.addr)
    <3>1. ASSUME NEW s \in Sentinel, n = Says(st[s])
          PROVE  /\ n.cfg \in Epochs(env) /\ n.addr \in Instance
                 /\ Holds(st[s], disk[s], hello[s], n.cfg, n.addr)
      <4>1. env \in Environment /\ Sound(env, st[s]) /\ st[s].fstate # "update_config" /\ st[s] \in Memory(env)
        BY OfSentinel
      <4>2. n.cfg = st[s].cfg /\ n.addr = Tells(st[s]) /\ n.addr \in env.instances
        BY <3>1, <4>1, TellsFacts DEF Says
      <4>3. n.cfg \in Epochs(env)
        BY <4>1, <4>2 DEF Memory
      <4> QED BY <4>2, <4>3 DEF Holds, Instance
    <3>2. ASSUME NEW s \in Sentinel, n = hello[s]
          PROVE  /\ n.cfg \in Epochs(env) /\ n.addr \in Instance
                 /\ Holds(st[s], disk[s], hello[s], n.cfg, n.addr)
      <4>1. hello[s] \in Hello(env)
        BY RestTypes DEF Rest, Sentinel
      <4> QED BY <3>2, <4>1 DEF Holds, Hello, Instance
    <3> QED BY <3>1, <3>2 DEF Advertised
  <2>2. PICK s \in Sentinel : Holds(st[s], disk[s], hello[s], m.cfg, m.addr)
    BY <2>1
  <2>3. PICK t \in Sentinel : Holds(st[t], disk[t], hello[t], k.cfg, k.addr)
    BY <2>1
  <2>4. m.cfg \in Epochs(env) /\ m.addr \in Instance /\ k.addr \in Instance
    BY <2>1
  <2> QED BY <2>0, <2>2, <2>3, <2>4 DEF OneConfig
<1> QED BY <1>1, Invariance, PTL

-----------------------------------------------------------------------------
(* Slaves that synchronise.                                                  *)

\* A slave that was sent SLAVEOF has not been seen to obey, and only such a
\* one is slow.
Apart(v, x) ==
    \A i \in v.instances :
        /\ ~("sent" \in x.reconf[i] /\ "inprog" \in x.reconf[i])
        /\ i \in x.slow => "sent" \in x.reconf[i]

\* The slaves T that must still synchronise hold one of the slots of x.  One
\* whose link is up (in U, with masters m) has not obeyed yet.
Counted(v, x, T, U, m) ==
    /\ T \subseteq Syncing(v, x)
    /\ \A i \in T : i \in U => m[i] # x.promoted /\ "inprog" \notin x.reconf[i]

SyncInv ==
    /\ told = [s \in Sentinel |-> told[s]]
    /\ \A s \in Sentinel : Apart(env, st[s]) /\ Counted(env, st[s], told[s], synced, role)

EnvSame == env'.sentinels = env.sentinels /\ env'.instances = env.instances

\* Memories with the same failover.
Same(x, y) ==
    y.reconf = x.reconf /\ y.slow = x.slow /\ y.promoted = x.promoted /\ y.addr = x.addr

LEMMA SyncStep ==
  ASSUME EnvSame, told' = [t \in Sentinel |-> told'[t]],
         \A t \in Sentinel : Apart(env, st'[t]) /\ Counted(env, st'[t], told'[t], synced', role')
  PROVE  SyncInv'
<1>1. Sentinel' = Sentinel
  BY DEF EnvSame, Sentinel
<1>2. ASSUME NEW t \in Sentinel
      PROVE  Apart(env', st'[t]) /\ Counted(env', st'[t], told'[t], synced', role')
  <2>1. Apart(env, st'[t]) /\ Counted(env, st'[t], told'[t], synced', role')
    OBVIOUS
  <2>2. Apart(env', st'[t])
    BY <2>1 DEF Apart, EnvSame
  <2>3. Syncing(env', st'[t]) = Syncing(env, st'[t])
    BY DEF Syncing, EnvSame
  <2>4. Counted(env', st'[t], told'[t], synced', role')
    BY <2>1, <2>3 DEF Counted
  <2> QED BY <2>2, <2>4
<1> QED BY <1>1, <1>2 DEF SyncInv

LEMMA SyncLocal ==
  ASSUME IInv, SyncInv, EnvSame, NEW s \in Sentinel, NEW y, NEW T, Apart(env, y),
         Counted(env, y, T, synced, role), st' = [st EXCEPT ![s] = y],
         told' = [told EXCEPT ![s] = T], synced' = synced, role' = role
  PROVE  SyncInv'
<1>1. st = [t \in Sentinel |-> st[t]] /\ told = [t \in Sentinel |-> told[t]]
  BY DEF IInv, Types, SyncInv
<1>2. /\ st'[s] = y /\ told'[s] = T /\ told' = [t \in Sentinel |-> told'[t]]
      /\ \A t \in Sentinel : t # s => st'[t] = st[t] /\ told'[t] = told[t]
  BY <1>1
<1>3. ASSUME NEW t \in Sentinel
      PROVE  Apart(env, st'[t]) /\ Counted(env, st'[t], told'[t], synced', role')
  BY <1>2 DEF SyncInv
<1> QED BY <1>2, <1>3, SyncStep

LEMMA SameCounted ==
  ASSUME NEW v, NEW x, NEW y, Same(x, y), NEW T, NEW U, NEW m, Apart(v, x), Counted(v, x, T, U, m)
  PROVE  Apart(v, y) /\ Counted(v, y, T, U, m)
<1>1. Syncing(v, y) = Syncing(v, x)
  BY DEF Same, Syncing
<1> QED BY <1>1 DEF Same, Apart, Counted

LEMMA SyncSame ==
  ASSUME IInv, SyncInv, EnvSame, NEW s \in Sentinel, NEW y, Same(st[s], y),
         st' = [st EXCEPT ![s] = y], UNCHANGED <<told, synced, role>>
  PROVE  SyncInv'
<1>1. Apart(env, y) /\ Counted(env, y, told[s], synced, role)
  BY SameCounted DEF SyncInv
<1>2. told' = [told EXCEPT ![s] = told[s]]
  BY DEF SyncInv
<1> QED BY <1>1, <1>2, SyncLocal

\* Outside of the reconfiguration nobody is counted.
LEMMA NotCounted ==
  ASSUME NEW v, NEW x, \A i \in v.instances : x.reconf[i] = {}, x.slow = {}, NEW U, NEW m
  PROVE  Apart(v, x) /\ Counted(v, x, {}, U, m)
BY DEF Apart, Counted

LEMMA NotSlow ==
  ASSUME NEW x, Sound(env, x), Apart(env, x), x.fstate \notin Settled
  PROVE  x.slow = {} /\ \A i \in env.instances : x.reconf[i] = {}
<1>1. x.slow \subseteq env.instances /\ \A i \in env.instances : x.reconf[i] = {}
  BY DEF Sound, Memory
<1> QED BY <1>1 DEF Apart

LEMMA TiltSync == ASSUME NEW s \in Sentinel PROVE IInv /\ SyncInv /\ sentinelCheckTiltCondition(s) => SyncInv'
<1> SUFFICES ASSUME IInv, SyncInv, sentinelCheckTiltCondition(s) PROVE SyncInv'
  OBVIOUS
<1> DEFINE y == [st[s] EXCEPT !.tilt = TRUE]
<1>1. st[s] \in Memory(env)
  BY OfSentinel
<1>2. Same(st[s], y)
  BY <1>1 DEF Same, Memory
<1>3. st' = [st EXCEPT ![s] = y] /\ UNCHANGED <<told, synced, role>> /\ EnvSame
  BY DEF sentinelCheckTiltCondition, syncs, EnvSame
<1> HIDE DEF y
<1> QED BY <1>2, <1>3, SyncSame

LEMMA DelaySync == ASSUME NEW s \in Sentinel PROVE IInv /\ SyncInv /\ DelayOver(s) => SyncInv'
<1> SUFFICES ASSUME IInv, SyncInv, DelayOver(s) PROVE SyncInv'
  OBVIOUS
<1> DEFINE y == [st[s] EXCEPT !.wait = FALSE]
<1>1. st[s] \in Memory(env)
  BY OfSentinel
<1>2. Same(st[s], y)
  BY <1>1 DEF Same, Memory
<1>3. st' = [st EXCEPT ![s] = y] /\ UNCHANGED <<told, synced, role>> /\ EnvSame
  BY DEF DelayOver, syncs, EnvSame
<1> HIDE DEF y
<1> QED BY <1>2, <1>3, SyncSame

LEMMA InfoFromMasterSync == ASSUME NEW s \in Sentinel PROVE IInv /\ SyncInv /\ InfoFromMaster(s) => SyncInv'
<1> SUFFICES ASSUME IInv, SyncInv, InfoFromMaster(s) PROVE SyncInv'
  OBVIOUS
<1> DEFINE y == [st[s] EXCEPT !.mrole = IF role[st[s].addr] = st[s].addr THEN "master" ELSE "slave"]
<1>1. st[s] \in Memory(env)
  BY OfSentinel
<1>2. Same(st[s], y)
  BY <1>1 DEF Same, Memory
<1>3. st' = [st EXCEPT ![s] = y] /\ UNCHANGED <<told, synced, role>> /\ EnvSame
  BY DEF InfoFromMaster, syncs, EnvSame
<1> HIDE DEF y
<1> QED BY <1>2, <1>3, SyncSame

LEMMA SentinelFailoverSync == ASSUME NEW s \in Sentinel PROVE IInv /\ SyncInv /\ SentinelFailover(s) => SyncInv'
<1> SUFFICES ASSUME IInv, SyncInv, SentinelFailover(s) PROVE SyncInv'
  OBVIOUS
<1> DEFINE y == [sentinelStartFailover(st[s]) EXCEPT !.forced = TRUE]
<1>1. st[s] \in Memory(env)
  BY OfSentinel
<1>2. Same(st[s], y)
  BY <1>1 DEF Same, Memory, sentinelStartFailover
<1>3. st' = [st EXCEPT ![s] = y] /\ UNCHANGED <<told, synced, role>> /\ EnvSame
  BY DEF SentinelFailover, syncs, EnvSame
<1> HIDE DEF y
<1> QED BY <1>2, <1>3, SyncSame

LEMMA ReconfTimeoutSync ==
  ASSUME NEW s \in Sentinel, NEW i \in Instance PROVE IInv /\ SyncInv /\ ReconfTimeout(s, i) => SyncInv'
<1> SUFFICES ASSUME IInv, SyncInv, ReconfTimeout(s, i) PROVE SyncInv'
  OBVIOUS
<1> DEFINE x == st[s]
           y == [st[s] EXCEPT !.slow = st[s].slow \union {i}]
<1>1. x \in Memory(env) /\ Apart(env, x) /\ Counted(env, x, told[s], synced, role)
  BY OfSentinel DEF SyncInv
<1>2. y.reconf = x.reconf /\ y.slow = x.slow \union {i} /\ y.promoted = x.promoted /\ y.addr = x.addr
  BY <1>1 DEF Memory
<1>3. "sent" \in x.reconf[i]
  BY DEF ReconfTimeout
<1>4. /\ st' = [st EXCEPT ![s] = y] /\ told' = [told EXCEPT ![s] = told[s]]
      /\ synced' = synced /\ role' = role /\ EnvSame
  BY DEF ReconfTimeout, syncs, EnvSame, SyncInv
<1> HIDE DEF x, y
<1>5. Apart(env, y)
  BY <1>1, <1>2, <1>3 DEF Apart
<1>6. Syncing(env, y) = Syncing(env, x)
  BY <1>2 DEF Syncing
<1>7. Counted(env, y, told[s], synced, role)
  BY <1>1, <1>2, <1>6 DEF Counted
<1> QED BY <1>4, <1>5, <1>7, SyncLocal

\* A step that leaves the failovers and the slaves alone.
LEMMA SyncQuiet ==
  ASSUME IInv, SyncInv, EnvSame, UNCHANGED <<st, told, synced, role>>
  PROVE  SyncInv'
<1>1. told' = [t \in Sentinel |-> told'[t]]
  BY DEF SyncInv
<1>2. \A t \in Sentinel : Apart(env, st'[t]) /\ Counted(env, st'[t], told'[t], synced', role')
  BY DEF SyncInv
<1> QED BY <1>1, <1>2, SyncStep

LEMMA MailSync ==
  ASSUME NEW s \in Sentinel, NEW t \in Sentinel
  PROVE  IInv /\ SyncInv /\ (LoseLink(s, t) \/ sentinelSendHello(s)) => SyncInv'
<1> SUFFICES ASSUME IInv, SyncInv, LoseLink(s, t) \/ sentinelSendHello(s) PROVE SyncInv'
  OBVIOUS
<1>1. env \in Environment
  BY DEF IInv, Types
<1>2. EnvSame
  BY <1>1 DEF LoseLink, sentinelSendHello, EnvSame, Environment
<1>3. UNCHANGED <<st, told, synced, role>>
  BY DEF LoseLink, sentinelSendHello, syncs
<1> QED BY <1>2, <1>3, SyncQuiet

LEMMA LoseCommandSync ==
  ASSUME NEW c \in cmds PROVE IInv /\ SyncInv /\ LoseCommand(c) => SyncInv'
<1> SUFFICES ASSUME IInv, SyncInv, LoseCommand(c) PROVE SyncInv'
  OBVIOUS
<1>1. env \in Environment
  BY DEF IInv, Types
<1>2. EnvSame
  BY <1>1 DEF LoseCommand, EnvSame, Environment
<1>3. UNCHANGED <<st, told, synced, role>>
  BY DEF LoseCommand, syncs
<1> QED BY <1>2, <1>3, SyncQuiet

LEMMA SlaveofSync == ASSUME NEW c \in cmds PROVE IInv /\ SyncInv /\ Slaveof(c) => SyncInv'
<1> SUFFICES ASSUME IInv, SyncInv, Slaveof(c) PROVE SyncInv'
  OBVIOUS
<1>1. role \in [Instance -> Instance] /\ c.to \in Instance
  BY DEF IInv, Types
<1>2. EnvSame /\ st' = st /\ told' = told /\ told' = [t \in Sentinel |-> told'[t]]
  BY DEF Slaveof, EnvSame, SyncInv
<1>3. \A i \in Instance : i \in synced' => i \in synced /\ role'[i] = role[i]
  BY <1>1 DEF Slaveof
<1>4. ASSUME NEW t \in Sentinel
      PROVE  Apart(env, st'[t]) /\ Counted(env, st'[t], told'[t], synced', role')
  <2>1. Apart(env, st[t]) /\ Counted(env, st[t], told[t], synced, role)
    BY DEF SyncInv
  <2>2. told[t] \subseteq Instance
    BY <2>1 DEF Counted, Syncing, Instance
  <2>3. Counted(env, st[t], told[t], synced', role')
    BY <1>3, <2>1, <2>2 DEF Counted
  <2> QED BY <1>2, <2>1, <2>3
<1> QED BY <1>2, <1>4, SyncStep

LEMMA LinkUpSync == ASSUME NEW i \in Instance PROVE IInv /\ SyncInv /\ LinkUp(i) => SyncInv'
<1> SUFFICES ASSUME IInv, SyncInv, LinkUp(i) PROVE SyncInv'
  OBVIOUS
<1>1. /\ EnvSame /\ st' = st /\ role' = role /\ synced' = synced \union {i}
      /\ told' = [t \in Sentinel |-> told[t] \ {i}]
  BY DEF LinkUp, EnvSame
<1>2. told' = [t \in Sentinel |-> told'[t]] /\ \A t \in Sentinel : told'[t] = told[t] \ {i}
  BY <1>1
<1>3. ASSUME NEW t \in Sentinel
      PROVE  Apart(env, st'[t]) /\ Counted(env, st'[t], told'[t], synced', role')
  <2>1. Apart(env, st[t]) /\ Counted(env, st[t], told[t], synced, role)
    BY DEF SyncInv
  <2>2. Counted(env, st[t], told[t] \ {i}, synced \union {i}, role)
    BY <2>1 DEF Counted
  <2> QED BY <1>1, <1>2, <2>1, <2>2
<1> QED BY <1>1, <1>2, <1>3, SyncStep

LEMMA CrashSync == ASSUME NEW s \in Sentinel PROVE IInv /\ SyncInv /\ Crash(s) => SyncInv'
<1> SUFFICES ASSUME IInv, SyncInv, Crash(s) PROVE SyncInv'
  OBVIOUS
<1> DEFINE y == Fresh(disk[s])
<1>1. env \in Environment
  BY DEF IInv, Types
<1>2. EnvSame
  BY <1>1 DEF Crash, EnvSame, Environment
<1>3. y.slow = {} /\ y.reconf = [i \in Instance |-> {}]
  BY DEF Fresh
<1>4. /\ st' = [st EXCEPT ![s] = y] /\ told' = [told EXCEPT ![s] = {}]
      /\ synced' = synced /\ role' = role
  BY DEF Crash
<1> HIDE DEF y
<1>5. \A i \in env.instances : y.reconf[i] = {}
  BY <1>3 DEF Instance
<1>6. Apart(env, y) /\ Counted(env, y, {}, synced, role)
  BY <1>3, <1>5, NotCounted
<1> QED BY <1>2, <1>4, <1>6, SyncLocal

LEMMA SameVote ==
  ASSUME NEW x \in Memory(env), NEW me, NEW e, NEW c
  PROVE  Same(x, sentinelVoteLeader(x, me, e, c))
<1> DEFINE y == IF e > x.cur THEN [x EXCEPT !.cur = e] ELSE x
           z == IF y.leaderEpoch < e /\ y.cur <= e
                THEN [y EXCEPT !.leader = c, !.leaderEpoch = y.cur, !.wait = @ \/ c # me]
                ELSE y
<1>1. Same(x, y) /\ DOMAIN y = DOMAIN x
  BY DEF Same, Memory
<1>2. "reconf" \in DOMAIN y /\ "slow" \in DOMAIN y /\ "promoted" \in DOMAIN y /\ "addr" \in DOMAIN y
  BY <1>1 DEF Memory
<1>3. z = sentinelVoteLeader(x, me, e, c)
  BY DEF sentinelVoteLeader
<1> HIDE DEF y
<1>4. Same(y, z)
  BY <1>2 DEF Same
<1> QED BY <1>1, <1>3, <1>4 DEF Same

LEMMA IsMasterDownSync ==
  ASSUME NEW s \in Sentinel, NEW t \in Sentinel
  PROVE  IInv /\ SyncInv /\ IsMasterDownByAddr(s, t) => SyncInv'
<1> SUFFICES ASSUME IInv, SyncInv, IsMasterDownByAddr(s, t) PROVE SyncInv'
  OBVIOUS
<1>1. st[t] \in Memory(env)
  BY OfSentinel
<1> DEFINE q == Head(req[s][t])
           known == q.addr = st[t].addr
           votes == known /\ q.runid # None
           y == IF votes THEN sentinelVoteLeader(st[t], t, q.epoch, q.runid) ELSE st[t]
<1>2. st' = [st EXCEPT ![t] = y] /\ UNCHANGED <<told, synced, role>> /\ EnvSame
  BY DEF IsMasterDownByAddr, syncs, EnvSame
<1>3. Same(st[t], y)
  <2> HIDE DEF q, votes
  <2>1. Same(st[t], sentinelVoteLeader(st[t], t, q.epoch, q.runid))
    BY <1>1, SameVote
  <2>2. Same(st[t], st[t])
    BY DEF Same
  <2> QED BY <2>1, <2>2
<1> HIDE DEF y
<1> QED BY <1>2, <1>3, SyncSame

LEMMA ReplySync ==
  ASSUME NEW s \in Sentinel, NEW t \in Sentinel
  PROVE  IInv /\ SyncInv /\ sentinelReceiveIsMasterDownReply(s, t) => SyncInv'
<1> SUFFICES ASSUME IInv, SyncInv, sentinelReceiveIsMasterDownReply(s, t) PROVE SyncInv'
  OBVIOUS
<1>1. st[s] \in Memory(env) /\ st = [u \in Sentinel |-> st[u]]
  BY OfSentinel DEF IInv, Types
<1>2. UNCHANGED <<told, synced, role>> /\ EnvSame
  BY DEF sentinelReceiveIsMasterDownReply, syncs, EnvSame
<1> DEFINE y == st'[s]
<1>3. st' = [st EXCEPT ![s] = y]
  BY <1>1 DEF sentinelReceiveIsMasterDownReply
<1>4. Same(st[s], y)
  BY <1>1 DEF Same, Memory, sentinelReceiveIsMasterDownReply
<1> HIDE DEF y
<1> QED BY <1>2, <1>3, <1>4, SyncSame

LEMMA ProcessHelloSync ==
  ASSUME NEW s \in Sentinel, NEW m
  PROVE  IInv /\ SyncInv /\ sentinelProcessHelloMessage(s, m) => SyncInv'
<1> SUFFICES ASSUME IInv, SyncInv, sentinelProcessHelloMessage(s, m) PROVE SyncInv'
  OBVIOUS
<1>1. st[s] \in Memory(env) /\ Apart(env, st[s]) /\ Counted(env, st[s], told[s], synced, role)
  BY OfSentinel DEF SyncInv
<1> DEFINE x == IF m.cur > st[s].cur THEN [st[s] EXCEPT !.cur = m.cur] ELSE st[s]
           w == [x EXCEPT !.cfg = m.cfg]
           y == UpdateConfig(x, m)
           T == IF y.fstate = "reconf" THEN told[s] ELSE {}
<1>2. /\ st' = [st EXCEPT ![s] = y] /\ told' = [told EXCEPT ![s] = T]
      /\ synced' = synced /\ role' = role /\ EnvSame
  BY DEF sentinelProcessHelloMessage, EnvSame
<1>3. Same(st[s], x) /\ DOMAIN x = DOMAIN st[s]
  BY <1>1 DEF Same, Memory
<1>4. "reconf" \in DOMAIN x /\ "slow" \in DOMAIN x /\ "promoted" \in DOMAIN x /\ "addr" \in DOMAIN x
  BY <1>1, <1>3 DEF Memory
<1>5. Same(x, w)
  <2> HIDE DEF x
  <2> QED BY <1>4 DEF Same
<1>6. Same(st[s], w)
  BY <1>3, <1>5 DEF Same
<1>7. y = x \/ y = w \/ y = sentinelResetMasterAndChangeAddress(w, m.addr)
  BY DEF UpdateConfig
<1>8. CASE y = x \/ y = w
  <2>1. Same(st[s], y)
    BY <1>3, <1>6, <1>8
  <2> HIDE DEF y
  <2>2. Apart(env, y) /\ Counted(env, y, told[s], synced, role)
    BY <1>1, <2>1, SameCounted
  <2>3. Counted(env, y, T, synced, role)
    BY <2>2 DEF Counted
  <2> HIDE DEF T
  <2> QED BY <1>2, <2>2, <2>3, SyncLocal
<1>9. CASE y = sentinelResetMasterAndChangeAddress(w, m.addr)
  <2> DEFINE r == [i \in Instance |-> {}]
  <2>1. /\ y = [w EXCEPT !.sdown = FALSE, !.odown = FALSE, !.mrole = "master", !.leader = None,
                    !.fstate = "none", !.forced = FALSE, !.wait = FALSE, !.promoted = None,
                    !.reconf = r, !.slow = {}, !.addr = m.addr]
    BY <1>9 DEF sentinelResetMasterAndChangeAddress
  <2>2. \A i \in env.instances : r[i] = {}
    BY DEF Instance
  <2>3. "reconf" \in DOMAIN w /\ "slow" \in DOMAIN w /\ "fstate" \in DOMAIN w
    BY <1>1, <1>3 DEF Memory
  <2> HIDE DEF r, y, w
  <2>4. y.fstate = "none" /\ y.slow = {} /\ y.reconf = r
    BY <2>1, <2>3
  <2>5. T = {}
    BY <2>4
  <2>6. Apart(env, y) /\ Counted(env, y, {}, synced, role)
    BY <2>2, <2>4, NotCounted
  <2> HIDE DEF T
  <2> QED BY <1>2, <2>5, <2>6, SyncLocal
<1> QED BY <1>7, <1>8, <1>9

\* The slave obeyed, or its link is up: it keeps its slot until the link is up.
LEMMA InfoFromSlaveSync ==
  ASSUME NEW s \in Sentinel, NEW i \in Instance PROVE IInv /\ SyncInv /\ InfoFromSlave(s, i) => SyncInv'
<1> SUFFICES ASSUME IInv, SyncInv, InfoFromSlave(s, i) PROVE SyncInv'
  OBVIOUS
<1> DEFINE x == st[s]
           isMaster == role[i] = i
           acked == isMaster /\ AckPromotion(x, i)
           wrong == IF isMaster THEN ~acked /\ x.promoted # i ELSE role[i] # x.addr
           F(linkup) == Progress(x.reconf[i], role[i] = x.promoted, linkup)
           M(linkup) == [x EXCEPT !.reconf[i] = F(linkup),
                                  !.slow = IF "sent" \in F(linkup) THEN @ ELSE @ \ {i}]
<1>0. env \in Environment /\ x \in Memory(env) /\ i \in env.instances
  BY OfSentinel DEF Instance
<1>1. PICK fix \in BOOLEAN, linkup \in BOOLEAN :
        /\ linkup => i \in synced
        /\ st' = [st EXCEPT ![s] = IF acked THEN [x EXCEPT !.cfg = x.fepoch, !.fstate = "reconf"]
                                   ELSE IF isMaster THEN x ELSE M(linkup)]
        /\ IF fix /\ wrong /\ sentinelMasterLooksSane(x) /\ env.fix > 0
           THEN /\ cmds' = cmds \union Tell({i}, x.addr)
                /\ env' = [env EXCEPT !.fix = @ - 1]
           ELSE UNCHANGED <<cmds, env>>
  BY DEF InfoFromSlave
<1>2. EnvSame
  BY <1>0, <1>1 DEF EnvSame, Environment
<1>3. UNCHANGED <<told, synced, role>>
  BY DEF InfoFromSlave, syncs
<1>4. CASE acked
  <2> DEFINE y == [x EXCEPT !.cfg = x.fepoch, !.fstate = "reconf"]
  <2>1. Same(x, y)
    BY <1>0 DEF Same, Memory
  <2>2. st' = [st EXCEPT ![s] = y]
    BY <1>1, <1>4
  <2> HIDE DEF y
  <2> QED BY <1>2, <1>3, <2>1, <2>2, SyncSame
<1>5. CASE ~acked /\ isMaster
  <2>1. st' = [st EXCEPT ![s] = x] /\ Same(x, x)
    BY <1>1, <1>5 DEF Same
  <2> QED BY <1>2, <1>3, <2>1, SyncSame
<1>6. CASE ~acked /\ ~isMaster
  <2> DEFINE f == F(linkup)
             y == M(linkup)
  <2>1. st' = [st EXCEPT ![s] = y] /\ told' = [told EXCEPT ![s] = told[s]] /\ synced' = synced /\ role' = role
    BY <1>1, <1>3, <1>6 DEF SyncInv
  <2>2. /\ x.reconf \in [env.instances -> SUBSET Flags] /\ x.slow \subseteq env.instances
        /\ Apart(env, x) /\ Counted(env, x, told[s], synced, role)
    BY <1>0 DEF Memory, SyncInv
  <2>3. /\ y.reconf = [x.reconf EXCEPT ![i] = f]
        /\ y.slow = IF "sent" \in f THEN x.slow ELSE x.slow \ {i}
        /\ y.promoted = x.promoted /\ y.addr = x.addr
    BY <1>0 DEF Memory
  <2> HIDE DEF y
  <2>4. /\ y.reconf[i] = f /\ \A j \in env.instances : j # i => y.reconf[j] = x.reconf[j]
    BY <1>0, <2>2, <2>3
  <2>5. x.reconf[i] \subseteq Flags /\ ~("sent" \in x.reconf[i] /\ "inprog" \in x.reconf[i])
    BY <1>0, <2>2 DEF Apart
  <2>6. ~("sent" \in f /\ "inprog" \in f) /\ ("sent" \in f => "sent" \in x.reconf[i])
    BY <2>5 DEF Progress
  <2>7. Apart(env, y)
    <3> SUFFICES ASSUME NEW j \in env.instances
                 PROVE  /\ ~("sent" \in y.reconf[j] /\ "inprog" \in y.reconf[j])
                        /\ j \in y.slow => "sent" \in y.reconf[j]
      BY DEF Apart
    <3> HIDE DEF f, x
    <3>1. CASE j = i
      BY <2>3, <2>4, <2>6, <3>1
    <3>2. CASE j # i
      <4>1. j \in y.slow => j \in x.slow
        BY <2>3
      <4> QED BY <2>2, <2>4, <3>2, <4>1 DEF Apart
    <3> QED BY <3>1, <3>2
  <2>8. ASSUME i \in told[s]
        PROVE  f \intersect {"sent", "inprog"} # {} /\ (i \in synced => "inprog" \notin f /\ f = x.reconf[i])
    <3>1. x.reconf[i] \intersect {"sent", "inprog"} # {}
      BY <2>2, <2>8 DEF Counted, Syncing
    <3>2. i \in synced => role[i] # x.promoted /\ "inprog" \notin x.reconf[i]
      BY <2>2, <2>8 DEF Counted
    <3>3. linkup => i \in synced
      BY <1>1
    <3> QED BY <3>1, <3>2, <3>3 DEF Progress
  <2>9. Counted(env, y, told[s], synced, role)
    <3>1. told[s] \subseteq Syncing(env, y)
      <4> SUFFICES ASSUME NEW j \in told[s] PROVE j \in Syncing(env, y)
        OBVIOUS
      <4>1. j \in env.instances /\ j # x.addr /\ x.reconf[j] \intersect {"sent", "inprog"} # {}
        BY <2>2 DEF Counted, Syncing
      <4> HIDE DEF f, x
      <4>2. y.reconf[j] \intersect {"sent", "inprog"} # {}
        BY <2>4, <2>8, <4>1
      <4> QED BY <2>3, <4>1, <4>2 DEF Syncing
    <3>2. ASSUME NEW j \in told[s], j \in synced PROVE role[j] # y.promoted /\ "inprog" \notin y.reconf[j]
      <4>1. j \in env.instances /\ role[j] # x.promoted /\ "inprog" \notin x.reconf[j]
        BY <2>2, <3>2 DEF Counted, Syncing
      <4> HIDE DEF f, x
      <4> QED BY <2>3, <2>4, <2>8, <3>2, <4>1
    <3> QED BY <3>1, <3>2 DEF Counted
  <2> QED BY <1>2, <2>1, <2>7, <2>9, SyncLocal
<1> QED BY <1>4, <1>5, <1>6

\* Before the reconfiguration the state machine points no slave anywhere.
LEMMA MachineEarly ==
  ASSUME NEW x \in Memory(env), x.fstate \notin Settled, NEW me \in Sentinel,
         NEW pdown \in BOOLEAN, NEW late \in BOOLEAN,
         NEW o \in sentinelFailoverStateMachine(x, me, pdown, late)
  PROVE  o.x.slow = x.slow /\ o.x.fstate \notin Settled
<1>0. x.fstate \in {"none", "wait_start", "select", "send_noone", "wait_promotion"}
  BY DEF Memory, Early, Settled
<1>a. sentinelAbortFailover(x).slow = x.slow /\ sentinelAbortFailover(x).fstate = "none"
  BY DEF sentinelAbortFailover, Memory
<1>q. \A y : Quiet(y).x = y
  BY DEF Quiet
<1>1. CASE x.fstate = "none"
  <2>1. o = Quiet(x)
    BY <1>1 DEF sentinelFailoverStateMachine
  <2> QED BY <1>1, <1>q, <2>1 DEF Settled
<1>2. CASE x.fstate = "wait_start"
  <2>1. o \in sentinelFailoverWaitStart(x, me, late)
    BY <1>2 DEF sentinelFailoverStateMachine
  <2> DEFINE V(w) == sentinelVoteLeader(x, me, x.fepoch, w)
             S(y) == [y EXCEPT !.fstate = "select"]
             R(y) == IF me \in Winners(y, me) \/ x.forced THEN S(y)
                     ELSE IF late THEN sentinelAbortFailover(y) ELSE y
  <2>a. PICK w \in MostVoted(x, me) : o = Quiet(R(V(w)))
    BY <2>1 DEF sentinelFailoverWaitStart
  <2>2. o.x \in {S(V(w)), sentinelAbortFailover(V(w)), V(w)}
    <3> HIDE DEF V, S
    <3>1. o.x = R(V(w))
      BY <1>q, <2>a
    <3> QED BY <3>1
  <2>3. V(w).slow = x.slow /\ V(w).fstate = x.fstate /\ DOMAIN V(w) = DOMAIN x
    <3> DEFINE y == IF x.fepoch > x.cur THEN [x EXCEPT !.cur = x.fepoch] ELSE x
    <3>1. y.slow = x.slow /\ y.fstate = x.fstate /\ DOMAIN y = DOMAIN x
      BY DEF Memory
    <3>2. "slow" \in DOMAIN y /\ "fstate" \in DOMAIN y
      BY <3>1 DEF Memory
    <3> DEFINE z == IF y.leaderEpoch < x.fepoch /\ y.cur <= x.fepoch
                    THEN [y EXCEPT !.leader = w, !.leaderEpoch = y.cur, !.wait = @ \/ w # me]
                    ELSE y
    <3>3. V(w) = z
      BY DEF sentinelVoteLeader
    <3> HIDE DEF y
    <3>4. z.slow = y.slow /\ z.fstate = y.fstate /\ DOMAIN z = DOMAIN y
      BY <3>2
    <3> HIDE DEF z
    <3> QED BY <3>1, <3>3, <3>4
  <2>4. "slow" \in DOMAIN V(w) /\ "fstate" \in DOMAIN V(w)
    BY <2>3 DEF Memory
  <2> HIDE DEF V
  <2>5. S(V(w)).slow = V(w).slow /\ S(V(w)).fstate = "select"
    BY <2>4
  <2>6. sentinelAbortFailover(V(w)).slow = V(w).slow /\ sentinelAbortFailover(V(w)).fstate = "none"
    BY <2>4 DEF sentinelAbortFailover
  <2> HIDE DEF S
  <2> QED BY <1>2, <2>2, <2>3, <2>5, <2>6 DEF Settled
<1>3. CASE x.fstate = "select"
  <2>1. o \in sentinelFailoverSelectSlave(x)
    BY <1>3 DEF sentinelFailoverStateMachine
  <2>2. CASE o = Quiet(sentinelAbortFailover(x))
    BY <1>a, <1>q, <2>2 DEF Settled
  <2>3. ASSUME NEW i, o = Quiet([x EXCEPT !.promoted = i, !.fstate = "send_noone"])
        PROVE  o.x.slow = x.slow /\ o.x.fstate \notin Settled
    <3> DEFINE y == [x EXCEPT !.promoted = i, !.fstate = "send_noone"]
    <3>1. y.slow = x.slow /\ y.fstate = "send_noone"
      BY DEF Memory
    <3>2. o.x = y
      BY <1>q, <2>3
    <3> HIDE DEF y
    <3> QED BY <3>1, <3>2 DEF Settled
  <2> QED BY <2>1, <2>2, <2>3 DEF sentinelFailoverSelectSlave
<1>4. CASE x.fstate = "send_noone"
  <2>1. o \in sentinelFailoverSendSlaveOfNoOne(x, late)
    BY <1>4 DEF sentinelFailoverStateMachine
  <2>2. o.x = x \/ o.x = sentinelAbortFailover(x) \/ o.x = [x EXCEPT !.fstate = "wait_promotion"]
    BY <1>q, <2>1 DEF sentinelFailoverSendSlaveOfNoOne
  <2>3. [x EXCEPT !.fstate = "wait_promotion"].slow = x.slow
        /\ [x EXCEPT !.fstate = "wait_promotion"].fstate = "wait_promotion"
    BY DEF Memory
  <2> QED BY <1>4, <1>a, <2>2, <2>3 DEF Settled
<1>5. CASE x.fstate = "wait_promotion"
  <2>1. o \in sentinelFailoverWaitPromotion(x, late)
    BY <1>5 DEF sentinelFailoverStateMachine
  <2>2. o.x = x \/ o.x = sentinelAbortFailover(x)
    BY <1>q, <2>1 DEF sentinelFailoverWaitPromotion
  <2> QED BY <1>5, <1>a, <2>2 DEF Settled
<1> QED BY <1>0, <1>1, <1>2, <1>3, <1>4, <1>5

\* A pass that does not end the failover, from the memory x to y: the slaves
\* it sends SLAVEOF, and only those, are counted as well.
LEMMA PassCounted ==
  ASSUME env \in Environment, NEW x \in Memory(env), Apart(env, x), NEW T,
         Counted(env, x, T, synced, role), NEW p \in Passes(x)
  PROVE  LET y == Reconfigure(x, p)
             U == (T \ (x.slow \ y.slow)) \union MustSync(Tell(p.to, x.promoted))
         IN  Apart(env, y) /\ Counted(env, y, U, synced, role)
<1> DEFINE y == Reconfigure(x, p)
           U == (T \ (x.slow \ y.slow)) \union MustSync(Tell(p.to, x.promoted))
           r == [i \in Instance |->
                  (IF i \in p.seen THEN (x.reconf[i] \ {"sent"}) \union {"done"} ELSE x.reconf[i])
                  \union (IF i \in p.to THEN {"sent"} ELSE {})]
<1>1. x.reconf \in [env.instances -> SUBSET Flags] /\ x.slow \in SUBSET env.instances
  BY DEF Memory
<1>2. /\ p.seen \subseteq x.slow
      /\ \A i \in p.to : /\ i \in env.instances /\ i # x.addr
                         /\ i \in Busy(x) => i \in x.slow
  <2>1. CASE p = [to |-> {}, seen |-> {}]
    BY <2>1
  <2>2. CASE /\ p.seen \subseteq x.slow
             /\ p.to \subseteq {i \in Slaves(x) \ {x.promoted} : "done" \notin x.reconf[i]
                                                  /\ (i \in Busy(x) => i \in x.slow)}
    BY <2>2 DEF Slaves, Instance
  <2> QED BY <2>1, <2>2 DEF Passes
<1>3. \A i \in p.to : "inprog" \notin x.reconf[i]
  <2> SUFFICES ASSUME NEW i \in p.to, "inprog" \in x.reconf[i] PROVE FALSE
    OBVIOUS
  <2>1. i \in Busy(x)
    BY <1>2 DEF Busy, Slaves, Instance
  <2>2. "sent" \in x.reconf[i]
    BY <1>2, <2>1 DEF Apart
  <2> QED BY <1>2, <2>2 DEF Apart
<1>4. \A i \in env.instances :
         r[i] = (IF i \in p.seen THEN (x.reconf[i] \ {"sent"}) \union {"done"} ELSE x.reconf[i])
                \union (IF i \in p.to THEN {"sent"} ELSE {})
  BY DEF Instance
<1>5. y = [x EXCEPT !.reconf = r, !.slow = x.slow \ p.seen]
  BY DEF Reconfigure, Memory
<1> HIDE DEF r, y
<1>6. y.reconf = r /\ y.slow = x.slow \ p.seen /\ y.promoted = x.promoted /\ y.addr = x.addr
  BY <1>5 DEF Memory
<1>7. \A i \in env.instances :
         /\ "sent" \in r[i] <=> (i \in p.to \/ (i \notin p.seen /\ "sent" \in x.reconf[i]))
         /\ "inprog" \in r[i] <=> "inprog" \in x.reconf[i]
  BY <1>1, <1>4
<1>8. Apart(env, y)
  BY <1>3, <1>6, <1>7 DEF Apart
<1>9. MustSync(Tell(p.to, x.promoted)) \subseteq p.to
      /\ \A i \in MustSync(Tell(p.to, x.promoted)) : i \in synced => role[i] # x.promoted
  <2> SUFFICES ASSUME NEW i \in MustSync(Tell(p.to, x.promoted))
               PROVE  i \in p.to /\ (i \in synced => role[i] # x.promoted)
    OBVIOUS
  <2>1. PICK c \in Tell(p.to, x.promoted) : i = c.to /\ (role[c.to] # c.of \/ c.to \notin synced)
    BY DEF MustSync
  <2>2. PICK j \in p.to : c = [to |-> j, of |-> x.promoted]
    BY DEF Tell
  <2>3. c.to = j /\ c.of = x.promoted
    BY <2>2
  <2> QED BY <2>1, <2>3
<1> DEFINE D == MustSync(Tell(p.to, x.promoted))
<1> HIDE DEF D
<1>10. D \subseteq p.to /\ \A i \in D : i \in synced => role[i] # x.promoted
  BY <1>9 DEF D
<1>11. U \subseteq Syncing(env, y)
  <2> SUFFICES ASSUME NEW i \in U PROVE i \in Syncing(env, y)
    OBVIOUS
  <2>1. CASE i \in D
    <3>1. i \in p.to /\ i \in env.instances /\ i # x.addr
      BY <1>2, <1>10, <2>1
    <3>2. "sent" \in y.reconf[i]
      BY <1>6, <1>7, <3>1
    <3> QED BY <1>6, <3>1, <3>2 DEF Syncing
  <2>2. CASE i \in T /\ i \notin x.slow \ y.slow
    <3>1. i \in env.instances /\ i # x.addr /\ ("sent" \in x.reconf[i] \/ "inprog" \in x.reconf[i])
      BY <2>2 DEF Counted, Syncing
    <3>2. i \notin p.seen
      BY <1>2, <1>6, <2>2
    <3>3. "sent" \in y.reconf[i] \/ "inprog" \in y.reconf[i]
      BY <1>6, <1>7, <3>1, <3>2
    <3> QED BY <1>6, <3>1, <3>3 DEF Syncing
  <2> QED BY <2>1, <2>2 DEF D
<1>12. ASSUME NEW i \in U, i \in synced PROVE role[i] # y.promoted /\ "inprog" \notin y.reconf[i]
  <2>1. CASE i \in D
    <3>1. i \in p.to /\ i \in env.instances /\ role[i] # x.promoted
      BY <1>2, <1>10, <1>12, <2>1
    <3> QED BY <1>3, <1>6, <1>7, <3>1
  <2>2. CASE i \in T
    <3>1. i \in env.instances /\ role[i] # x.promoted /\ "inprog" \notin x.reconf[i]
      BY <1>12, <2>2 DEF Counted, Syncing
    <3> QED BY <1>6, <1>7, <3>1
  <2> QED BY <2>1, <2>2, <1>12 DEF D
<1>13. Apart(env, y) /\ Counted(env, y, U, synced, role)
  BY <1>8, <1>11, <1>12 DEF Counted
<1> QED BY <1>13 DEF y

\* One run of the state machine while slaves are reconfigured.
LEMMA ReconfCounted ==
  ASSUME env \in Environment, NEW x \in Memory(env), x.fstate = "reconf", Apart(env, x), NEW T,
         Counted(env, x, T, synced, role), NEW pdown \in BOOLEAN, NEW late \in BOOLEAN,
         NEW o \in sentinelFailoverReconfNextSlave(x, pdown, late)
  PROVE  /\ DOMAIN o.x = DOMAIN x
         /\ \/ o.x.fstate = "update_config"
            \/ /\ o.x.fstate = "reconf" /\ Apart(env, o.x)
               /\ Counted(env, o.x, (T \ (x.slow \ o.x.slow)) \union MustSync(o.cmds), synced, role)
<1> DEFINE Left(y) == IF ~pdown /\ late
                      THEN {i \in Slaves(y) \ {y.promoted} :
                               y.reconf[i] \intersect {"done", "sent"} = {}}
                      ELSE {}
           Result(p, down) ==
               LET y == Reconfigure(x, p)
               IN  [x |-> IF Ends(y, down, pdown, late) THEN [y EXCEPT !.fstate = "update_config"] ELSE y,
                    cmds |-> Tell(p.to \union Left(y), x.promoted)]
<1>a. o \in {Result(p, down) : p \in Passes(x), down \in SUBSET (Slaves(x) \ {x.promoted})}
  BY DEF sentinelFailoverReconfNextSlave
<1> HIDE DEF Result
<1>1. PICK p \in Passes(x), down \in SUBSET (Slaves(x) \ {x.promoted}) : o = Result(p, down)
  BY <1>a
<1> DEFINE y == Reconfigure(x, p)
<1>2. DOMAIN y = DOMAIN x /\ "fstate" \in DOMAIN y /\ y.fstate = "reconf"
  BY DEF Reconfigure, Memory
<1>3. Apart(env, y) /\ Counted(env, y, (T \ (x.slow \ y.slow)) \union MustSync(Tell(p.to, x.promoted)), synced, role)
  BY PassCounted
<1>4. /\ o.x = IF Ends(y, down, pdown, late) THEN [y EXCEPT !.fstate = "update_config"] ELSE y
      /\ o.cmds = Tell(p.to \union Left(y), x.promoted)
  BY <1>1 DEF Result
<1>5. CASE Ends(y, down, pdown, late)
  <2> HIDE DEF y
  <2>1. o.x = [y EXCEPT !.fstate = "update_config"]
    BY <1>4, <1>5
  <2>2. o.x.fstate = "update_config" /\ DOMAIN o.x = DOMAIN y
    BY <1>2, <2>1
  <2> QED BY <1>2, <2>2
<1>6. CASE ~Ends(y, down, pdown, late)
  <2>1. ~(~pdown /\ late)
    BY <1>6 DEF Ends
  <2>2. o.x = y /\ o.cmds = Tell(p.to, x.promoted)
    BY <1>4, <1>6, <2>1
  <2> HIDE DEF y, Left
  <2> QED BY <1>2, <1>3, <2>2
<1> QED BY <1>5, <1>6

LEMMA ForgetSame ==
  ASSUME NEW x, {"reconf", "slow", "promoted", "addr", "fstate"} \subseteq DOMAIN x, NEW old
  PROVE  Same(x, Forget(x, old)) /\ Forget(x, old).fstate = x.fstate /\ DOMAIN Forget(x, old) = DOMAIN x
<1> DEFINE w == [t \in Sentinel |-> IF t \in old THEN [x.vote[t] EXCEPT !.leader = None] ELSE x.vote[t]]
           d == x.mdown \ old
           y == [x EXCEPT !.mdown = d, !.vote = w]
<1>1. Forget(x, old) = y
  BY DEF Forget
<1> HIDE DEF w, d
<1>2. Same(x, y) /\ y.fstate = x.fstate /\ DOMAIN y = DOMAIN x
  BY DEF Same
<1> QED BY <1>1, <1>2

LEMMA TimerSync ==
  ASSUME NEW s \in Sentinel, NEW pdown \in BOOLEAN, NEW late \in BOOLEAN
  PROVE  IInv /\ SyncInv /\ sentinelTimer(s, pdown, late) => SyncInv'
<1> SUFFICES ASSUME IInv, SyncInv, sentinelTimer(s, pdown, late) PROVE SyncInv'
  OBVIOUS
<1> DEFINE X(down) == CheckDown([st[s] EXCEPT !.tilt = FALSE], down)
           X2(down, old) == IF sentinelStartFailoverIfNeeded(X(down))
                            THEN Forget(sentinelStartFailover(X(down)), old) ELSE X(down)
           X3(o, old) == Forget(o.x, old)
           X4(o, old) == sentinelFailoverSwitchToPromotedSlave(X3(o, old))
           Told(x2, x4, o) == IF x4.fstate # "reconf" THEN {}
                              ELSE (told[s] \ (x2.slow \ x4.slow)) \union MustSync(o.cmds)
<1>0. PICK down \in BOOLEAN, conn \in SUBSET Idle(s), old \in SUBSET Answered(st[s], s) :
         TimerRun(s, pdown, late, down, conn, old)
  BY TimerRuns
<1>1.   \E o \in sentinelFailoverStateMachine(X2(down, old), s, pdown, late) :
           /\ st' = [st EXCEPT ![s] = X4(o, old)]
           /\ told' = [told EXCEPT ![s] = Told(X2(down, old), X4(o, old), o)]
  BY <1>0 DEF TimerRun, SyncInv
<1>2. synced' = synced /\ role' = role
  BY DEF sentinelTimer
<1>3. env \in Environment /\ Sound(env, st[s]) /\ st[s] \in Memory(env) /\ st[s].fstate # "update_config"
  BY OfSentinel
<1>4. EnvSame
  BY <1>3 DEF sentinelTimer, EnvSame, Environment
<1>5. Apart(env, st[s]) /\ Counted(env, st[s], told[s], synced, role)
  BY DEF SyncInv
<1> DEFINE x == X(down)
           x2 == X2(down, old)
<1>6. x \in Memory(env) /\ Sound(env, x) /\ x.fstate = st[s].fstate
  BY <1>3, CheckDownFacts DEF Sound
<1>7. Same(st[s], x)
  BY <1>3 DEF CheckDown, Same, Memory
<1>8. PICK o \in sentinelFailoverStateMachine(x2, s, pdown, late) :
           /\ st' = [st EXCEPT ![s] = X4(o, old)]
           /\ told' = [told EXCEPT ![s] = Told(x2, X4(o, old), o)]
  BY <1>1
<1> DEFINE x3 == X3(o, old)
           x4 == X4(o, old)
<1>9. Apart(env, x) /\ Counted(env, x, told[s], synced, role)
  <2> HIDE DEF x
  <2> QED BY <1>5, <1>7, SameCounted
<1> SUFFICES Apart(env, x4) /\ Counted(env, x4, Told(x2, x4, o), synced, role)
  <2> DEFINE T == Told(x2, x4, o)
  <2>1. st' = [st EXCEPT ![s] = x4] /\ told' = [told EXCEPT ![s] = T]
    BY <1>8
  <2>2. Apart(env, x4) /\ Counted(env, x4, T, synced, role)
    OBVIOUS
  <2> HIDE DEF x4, T
  <2> QED BY <1>2, <1>4, <2>1, <2>2, SyncLocal
<1> DEFINE needed == {"reconf", "slow", "promoted", "addr", "fstate"}
<1>10. CASE x.fstate = "reconf"
  <2>1. x2 = x
    BY <1>10 DEF sentinelStartFailoverIfNeeded
  <2>2. o \in sentinelFailoverReconfNextSlave(x, pdown, late)
    BY <1>10, <2>1 DEF sentinelFailoverStateMachine
  <2> HIDE DEF x, x2
  <2>3. /\ DOMAIN o.x = DOMAIN x
        /\ \/ o.x.fstate = "update_config"
           \/ /\ o.x.fstate = "reconf" /\ Apart(env, o.x)
              /\ Counted(env, o.x, (told[s] \ (x.slow \ o.x.slow)) \union MustSync(o.cmds), synced, role)
    BY <1>3, <1>6, <1>9, <1>10, <2>2, ReconfCounted
  <2>4. needed \subseteq DOMAIN o.x
    BY <1>6, <2>3 DEF Memory
  <2>5. Same(o.x, x3) /\ x3.fstate = o.x.fstate /\ DOMAIN x3 = DOMAIN x
    BY <2>3, <2>4, ForgetSame
  <2>6. CASE o.x.fstate = "update_config"
    <3> DEFINE r == [i \in Instance |-> {}]
    <3>1. x4 = [x3 EXCEPT !.sdown = FALSE, !.odown = FALSE, !.mrole = "master", !.leader = None,
                    !.fstate = "none", !.forced = FALSE, !.wait = FALSE, !.promoted = None,
                    !.reconf = r, !.slow = {}, !.addr = x3.promoted]
      BY <2>5, <2>6 DEF sentinelFailoverSwitchToPromotedSlave, sentinelResetMasterAndChangeAddress
    <3>2. \A i \in env.instances : r[i] = {}
      BY DEF Instance
    <3>3. "reconf" \in DOMAIN x3 /\ "slow" \in DOMAIN x3 /\ "fstate" \in DOMAIN x3
      BY <1>6, <2>5 DEF Memory
    <3> HIDE DEF r, x3, x4
    <3>4. x4.fstate = "none" /\ x4.slow = {} /\ x4.reconf = r
      BY <3>1, <3>3
    <3>5. Told(x2, x4, o) = {}
      BY <3>4
    <3>6. Apart(env, x4) /\ Counted(env, x4, {}, synced, role)
      BY <3>2, <3>4, NotCounted
    <3> HIDE DEF Told
    <3> QED BY <3>5, <3>6
  <2>7. CASE o.x.fstate = "reconf"
    <3>1. x4 = x3
      BY <2>5, <2>7 DEF sentinelFailoverSwitchToPromotedSlave
    <3>2. Told(x2, x4, o) = (told[s] \ (x.slow \ o.x.slow)) \union MustSync(o.cmds)
      <4> HIDE DEF x3, x4
      <4>1. x4.fstate = "reconf" /\ x4.slow = o.x.slow
        BY <2>5, <2>7, <3>1 DEF Same
      <4> QED BY <2>1, <4>1
    <3>3. Apart(env, o.x) /\ Counted(env, o.x, Told(x2, x4, o), synced, role)
      BY <2>3, <2>7, <3>2
    <3> HIDE DEF Told, x3, x4
    <3> QED BY <2>5, <3>1, <3>3, SameCounted
  <2> QED BY <2>3, <2>6, <2>7
<1>11. CASE x.fstate # "reconf"
  <2>1. x.slow = {} /\ x.fstate \notin Settled
    <3> HIDE DEF x
    <3>1. x.fstate \notin Settled
      BY <1>3, <1>6, <1>11 DEF Settled
    <3> QED BY <1>6, <1>9, <3>1, NotSlow
  <2>2. x2.slow = {} /\ x2.fstate \notin Settled /\ Sound(env, x2)
    <3>1. CASE ~sentinelStartFailoverIfNeeded(x)
      BY <1>6, <2>1, <3>1
    <3>2. CASE sentinelStartFailoverIfNeeded(x)
      <4> DEFINE b == sentinelStartFailover(x)
      <4>0. x2 = Forget(b, old)
        BY <3>2
      <4>1. x.fstate = "none" /\ x.cur < env.epoch
        BY <3>2 DEF sentinelStartFailoverIfNeeded
      <4> HIDE DEF x, x2
      <4>2. b.slow = x.slow /\ needed \subseteq DOMAIN b
        BY <1>6 DEF sentinelStartFailover, Memory
      <4>3. Sound(env, Forget(b, old)) /\ Forget(b, old).fstate = "wait_start"
        BY <1>3, <1>6, <4>1, StartForgets
      <4>4. Same(b, Forget(b, old))
        <5> HIDE DEF b
        <5> QED BY <4>2, ForgetSame
      <4> HIDE DEF b
      <4> QED BY <2>1, <4>0, <4>2, <4>3, <4>4 DEF Same, Settled
    <3> QED BY <3>1, <3>2
  <2> HIDE DEF x, x2
  <2>3. o.x.slow = {} /\ o.x.fstate \notin Settled
    BY <2>2, MachineEarly DEF Sound
  <2>4. Sound(env, o.x)
    <3>1. x2.fstate # "update_config"
      BY <2>2 DEF Settled
    <3> QED BY <1>3, <2>2, <3>1, MachineOutcome DEF Outcome
  <2>5. needed \subseteq DOMAIN o.x
    BY <2>4 DEF Sound, Memory
  <2>6. x3.slow = {} /\ x3.fstate \notin Settled /\ Sound(env, x3)
    <3>1. Same(o.x, x3) /\ x3.fstate = o.x.fstate
      BY <2>5, ForgetSame
    <3>2. Sound(env, x3)
      BY <1>3, <2>4, ForgetFacts
    <3> HIDE DEF x3
    <3> QED BY <2>3, <3>1, <3>2 DEF Same
  <2>7. x4 = x3
    BY <2>6 DEF sentinelFailoverSwitchToPromotedSlave, Settled
  <2> HIDE DEF x3, x4
  <2>8. Told(x2, x4, o) = {}
    BY <2>6, <2>7 DEF Settled
  <2>9. \A i \in env.instances : x3.reconf[i] = {}
    BY <2>6 DEF Sound
  <2>10. Apart(env, x4) /\ Counted(env, x4, {}, synced, role)
    BY <2>6, <2>7, <2>9, NotCounted
  <2> HIDE DEF Told
  <2> QED BY <2>8, <2>10
<1> QED BY <1>10, <1>11

LEMMA InitSync == Init => SyncInv
<1> SUFFICES ASSUME Init PROVE SyncInv
  OBVIOUS
<1> DEFINE d == [cur |-> 0, leaderEpoch |-> 0, cfg |-> 0, addr |-> Master0, stale |-> FALSE]
           y == Fresh(d)
<1>1. st = [s \in Sentinel |-> y] /\ told = [s \in Sentinel |-> {}]
  BY DEF Init
<1>2. y.slow = {} /\ y.reconf = [i \in Instance |-> {}]
  BY DEF Fresh
<1> HIDE DEF y
<1>3. \A i \in env.instances : y.reconf[i] = {}
  BY <1>2 DEF Instance
<1>4. Apart(env, y) /\ Counted(env, y, {}, synced, role)
  BY <1>2, <1>3, NotCounted
<1> QED BY <1>1, <1>4 DEF SyncInv

LEMMA NextSync == IInv /\ SyncInv /\ [Next]_vars => SyncInv'
<1> SUFFICES ASSUME IInv, SyncInv, [Next]_vars PROVE SyncInv'
  OBVIOUS
<1>1. CASE UNCHANGED vars
  <2>1. EnvSame /\ UNCHANGED <<st, told, synced, role>>
    BY <1>1 DEF vars, EnvSame
  <2> QED BY <2>1, SyncQuiet
<1>2. ASSUME NEW s \in Sentinel, NEW pdown \in BOOLEAN, NEW late \in BOOLEAN, sentinelTimer(s, pdown, late)
      PROVE  SyncInv'
  BY <1>2, TimerSync
<1>3. ASSUME NEW s \in Sentinel,
             \/ sentinelCheckTiltCondition(s) \/ DelayOver(s) \/ InfoFromMaster(s)
             \/ SentinelFailover(s) \/ sentinelSendHello(s) \/ Crash(s)
      PROVE  SyncInv'
  BY <1>3, TiltSync, DelaySync, InfoFromMasterSync, SentinelFailoverSync, MailSync, CrashSync
<1>4. ASSUME NEW s \in Sentinel, NEW i \in Instance, ReconfTimeout(s, i) \/ InfoFromSlave(s, i)
      PROVE  SyncInv'
  BY <1>4, ReconfTimeoutSync, InfoFromSlaveSync
<1>5. ASSUME NEW s \in Sentinel, NEW t \in Others(s),
             \/ IsMasterDownByAddr(s, t) \/ sentinelReceiveIsMasterDownReply(s, t)
             \/ LoseLink(s, t) \/ sentinelProcessHelloMessage(s, hello[t])
      PROVE  SyncInv'
  <2>1. t \in Sentinel
    BY DEF Others
  <2> QED BY <1>5, <2>1, IsMasterDownSync, ReplySync, MailSync, ProcessHelloSync
<1>6. ASSUME NEW c \in cmds, Slaveof(c) \/ LoseCommand(c)
      PROVE  SyncInv'
  BY <1>6, SlaveofSync, LoseCommandSync
<1>7. ASSUME NEW i \in Instance, LinkUp(i)
      PROVE  SyncInv'
  BY <1>7, LinkUpSync
<1> QED BY <1>1, <1>2, <1>3, <1>4, <1>5, <1>6, <1>7 DEF Next

\* At most parallel_syncs slaves have been told of the new master and have
\* still to synchronise with it, until the failover itself times out
\* (sentinelFailoverReconfNextSlave): a slave holds its slot until its link
\* is up, or until it is given up after SENTINEL_SLAVE_RECONF_TIMEOUT.
THEOREM SyncsSafe == Spec => []SyncsBounded
<1>1. IInv /\ SyncInv => SyncsBounded
  <2> SUFFICES ASSUME IInv, SyncInv, NEW s \in Sentinel
               PROVE  Cardinality(told[s]) <= env.parallel
    BY DEF SyncsBounded
  <2>1. env \in Environment /\ Cardinality(Syncing(env, st[s])) <= env.parallel
    BY OfSentinel DEF Sound
  <2>2. told[s] \subseteq Syncing(env, st[s])
    BY DEF SyncInv, Counted
  <2>3. IsFiniteSet(Syncing(env, st[s])) /\ Cardinality(Syncing(env, st[s])) \in Nat
    BY <2>1, FiniteSyncing
  <2>4. IsFiniteSet(told[s]) /\ Cardinality(told[s]) <= Cardinality(Syncing(env, st[s]))
    BY <2>2, <2>3, FS_Subset
  <2>5. Cardinality(told[s]) \in Nat /\ env.parallel \in Nat
    BY <2>1, <2>4, FS_CardinalityType DEF Environment
  <2> QED BY <2>1, <2>3, <2>4, <2>5
<1> QED BY <1>1, InitSync, NextSync, Invariance, PTL DEF Spec
=============================================================================
