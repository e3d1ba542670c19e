------------------------------ MODULE Sentinel ------------------------------
(***************************************************************************)
(* Sentinel (sentinel.c): the processes that watch one master, agree that  *)
(* it is down, elect one of themselves for an epoch, and let it promote a   *)
(* replica and reconfigure the others.  The new configuration spreads in    *)
(* hello messages, the one with the greater config_epoch winning.           *)
(*                                                                         *)
(* Time is nondeterminism: an instance may be found down or up by any run   *)
(* of the timer, and a timeout has or has not passed.  A link is a TCP      *)
(* connection: requests and replies are in order until the link is lost.    *)
(*                                                                         *)
(* Mutants, each a wrong version of the definition that follows it and used *)
(* by nothing else: VotesAgain, OldAddr, SendsToAll, WaitsForever.         *)
(***************************************************************************)
EXTENDS Naturals, Sequences, FiniteSets

CONSTANTS
    Sentinels, Instances, None,
    Master0,            \* the master all Sentinels monitor at the start
    Quorum,             \* master->quorum
    MaxPending,         \* bound of the model: requests and replies on a link
    Environments        \* the settings the model is run in, see Environment

(* sentinels, instances: those of this run; fair: is fairness assumed?;        *)
(* parallel: parallel_syncs; seers may find the master down, forcers get       *)
(* SENTINEL FAILOVER, tilters' clocks may jump, faulty ones may fail to write  *)
(* their configuration file.  epoch, and the counts that follow it, bound the  *)
(* model: what is left of the crashes, lost links, SLAVEOF fix-ups, masters    *)
(* that come back, questions to other Sentinels, and hello messages.           *)
Environment ==
    [sentinels : SUBSET Sentinels, instances : SUBSET Instances, fair : BOOLEAN,
     parallel : Nat, seers : SUBSET Sentinels, forcers : SUBSET Sentinels, tilters : SUBSET Sentinels,
     faulty : SUBSET Sentinels, epoch : Nat, crash : Nat, loss : Nat, fix : Nat, flap : Nat, ask : Nat, hello : Nat]

ASSUME SentinelAssumption ==
    /\ None \notin Sentinels \union Instances
    /\ IsFiniteSet(Sentinels) /\ IsFiniteSet(Instances)
    /\ Quorum \in Nat /\ MaxPending \in Nat
    /\ \A e \in Environments :
          /\ e \in Environment /\ Master0 \in e.instances
          /\ e.seers \union e.forcers \union e.tilters \union e.faulty \subseteq e.sentinels

VARIABLES
    st,       \* st[s]: what Sentinel s holds in memory (see Fresh)
    disk,     \* disk[s]: what its configuration file holds, and in stale
              \* whether the last attempt to write it failed
    req,      \* req[s][t]: is-master-down-by-addr requests of s on its link to t
    rep,      \* rep[s][t]: the replies to them
    hello,    \* hello[s]: the last hello message s published
    role,     \* role[i]: the instance i replicates from; i itself for a master
    synced,   \* the instances whose link to their master is up, after a synchronisation
    cmds,     \* SLAVEOF commands on their way
    told,     \* history, told[s]: the slaves s has sent SLAVEOF in the failover it is
              \* in, that had a synchronisation to do and have not had their link up
              \* since, without those s has given up after SENTINEL_SLAVE_RECONF_TIMEOUT
    led,      \* [by, epoch, how]: the failovers that were not stopped by an election,
              \* how: by "votes" of the epoch, by "mixed" votes, or "forced"
    kept,     \* a newer configuration was taken without ending a failover
    forgot,   \* history: the epochs a Sentinel had voted in or come to, and knew
              \* nothing of when it was restarted, because it had failed to save them
    env       \* where the run takes place, and what is left of its bounds

vars == <<st, disk, req, rep, hello, role, synced, cmds, told, led, kept, forgot, env>>
syncs == <<synced, told>>

Sentinel == env.sentinels
Instance == env.instances
Others(s) == Sentinel \ {s}
NoVote == [leader |-> None, epoch |-> 0]

(* A Sentinel that has just loaded its configuration file d.                *)
Fresh(d) ==
    [cur |-> d.cur, leader |-> None, leaderEpoch |-> d.leaderEpoch,
     vote |-> [t \in Sentinel |-> NoVote],   \* the other Sentinels' last votes
     mdown |-> {},                           \* those flagged SRI_MASTER_DOWN
     sdown |-> FALSE, odown |-> FALSE, mrole |-> "master",
     fstate |-> "none", fepoch |-> 0, forced |-> FALSE,
     wait |-> FALSE,                         \* failover_start_time is recent
     promoted |-> None,
     reconf |-> [i \in Instance |-> {}],     \* SRI_RECONF_SENT, _INPROG, _DONE
     slow |-> {},                            \* sent for more than the timeout
     tilt |-> FALSE, addr |-> d.addr, cfg |-> d.cfg]

(* sentinelGetCurrentMasterAddress *)
OldAddr(x) == x.addr
CurrentAddr(x) == IF x.fstate = "reconf" THEN x.promoted ELSE x.addr

sentinelFlushConfig(x) ==
    [cur |-> x.cur, leaderEpoch |-> x.leaderEpoch, cfg |-> x.cfg, addr |-> CurrentAddr(x),
     stale |-> FALSE]

(* What the file d of s may hold after a flush.  One that fails is logged,   *)
(* and the Sentinel goes on as if it had not.                                *)
Flushes(s, d, x) ==
    {sentinelFlushConfig(x)} \union
    (IF s \in env.faulty THEN {[d EXCEPT !.stale = TRUE]} ELSE {})

Init ==
    LET d == [cur |-> 0, leaderEpoch |-> 0, cfg |-> 0, addr |-> Master0, stale |-> FALSE]
    IN  /\ env \in Environments
        /\ st = [s \in Sentinel |-> Fresh(d)]
        /\ disk = [s \in Sentinel |-> d]
        /\ req = [s \in Sentinel |-> [t \in Sentinel |-> <<>>]]
        /\ rep = [s \in Sentinel |-> [t \in Sentinel |-> <<>>]]
        /\ hello = [s \in Sentinel |-> [cur |-> 0, addr |-> Master0, cfg |-> 0]]
        /\ cmds = {} /\ told = [s \in Sentinel |-> {}]
        /\ led = {} /\ kept = FALSE /\ forgot = {}
        /\ role = [i \in Instance |-> Master0] /\ synced = Instance

-----------------------------------------------------------------------------
(* Voting.                                                                  *)
VotesAgain(x, me, e, cand) ==
    LET y == IF e > x.cur THEN [x EXCEPT !.cur = e] ELSE x
    IN  IF y.leaderEpoch <= e /\ y.cur <= e
        THEN [y EXCEPT !.leader = cand, !.leaderEpoch = y.cur, !.wait = @ \/ cand # me]
        ELSE y
sentinelVoteLeader(x, me, e, cand) ==
    LET y == IF e > x.cur THEN [x EXCEPT !.cur = e] ELSE x
    IN  IF y.leaderEpoch < e /\ y.cur <= e
        THEN [y EXCEPT !.leader = cand, !.leaderEpoch = y.cur, !.wait = @ \/ cand # me]
        ELSE y

(* The others' votes are those of current_epoch, the own vote is the one    *)
(* for the epoch of the failover.                                           *)
OtherVotes(x, me, c) ==
    Cardinality({t \in Others(me) : x.vote[t] = [leader |-> c, epoch |-> x.cur]})

MostVoted(x, me) ==
    LET V == {c \in Sentinel : OtherVotes(x, me, c) > 0}
    IN  IF V = {} THEN {me}
        ELSE {c \in V : \A d \in V : OtherVotes(x, me, d) <= OtherVotes(x, me, c)}

OwnVote(y, e, c) == IF y.leader = c /\ y.leaderEpoch = e THEN 1 ELSE 0

Winners(y, me) ==
    {c \in Sentinel : LET v == OtherVotes(y, me, c) + OwnVote(y, y.fepoch, c)
                      IN  v >= Cardinality(Sentinel) \div 2 + 1 /\ v >= Quorum}

-----------------------------------------------------------------------------
(* The failover state machine: each step gives the set of its outcomes, a   *)
(* state of the Sentinel and the SLAVEOF commands it sends.                  *)
Quiet(x) == [x |-> x, cmds |-> {}]

sentinelAbortFailover(x) ==
    [x EXCEPT !.fstate = "none", !.forced = FALSE, !.promoted = None]

sentinelStartFailover(x) ==
    [x EXCEPT !.fstate = "wait_start", !.cur = @ + 1, !.fepoch = x.cur + 1, !.wait = TRUE]

sentinelFailoverWaitStart(x, me, late) ==
    {Quiet(LET y == sentinelVoteLeader(x, me, x.fepoch, w)
           IN  IF me \in Winners(y, me) \/ x.forced THEN [y EXCEPT !.fstate = "select"]
               ELSE IF late THEN sentinelAbortFailover(y) ELSE y) : w \in MostVoted(x, me)}

sentinelFailoverSelectSlave(x) ==
    {Quiet(sentinelAbortFailover(x))} \union
    {Quiet([x EXCEPT !.promoted = i, !.fstate = "send_noone"]) : i \in Instance \ {x.addr}}

sentinelFailoverSendSlaveOfNoOne(x, late) ==
    {Quiet(IF late THEN sentinelAbortFailover(x) ELSE x),
     [x |-> [x EXCEPT !.fstate = "wait_promotion"],
      cmds |-> {[to |-> x.promoted, of |-> x.promoted]}]}

WaitsForever(x, late) == {Quiet(x)}
sentinelFailoverWaitPromotion(x, late) ==
    {Quiet(IF late THEN sentinelAbortFailover(x) ELSE x)}

Slaves(x) == Instance \ {x.addr}
Busy(x) == {i \in Slaves(x) : x.reconf[i] \intersect {"sent", "inprog"} # {}}

(* One pass over the slaves, which ends when all slots are taken: those seen *)
(* that are slow count as reconfigured, those connected are sent the new     *)
(* master; a slow one has not given its slot back.                           *)
SendsToAll(x) ==
    {[to |-> T, seen |-> {}] : T \in SUBSET (Slaves(x) \ {x.promoted})}
Passes(x) ==
    LET free == {i \in Slaves(x) \ {x.promoted} : "done" \notin x.reconf[i]
                                                  /\ (i \in Busy(x) => i \in x.slow)}
        taken(T) == Cardinality(T) + Cardinality(Busy(x))
    IN  IF Cardinality(Busy(x)) >= env.parallel THEN {[to |-> {}, seen |-> {}]}
        ELSE {p \in [to : SUBSET free, seen : SUBSET x.slow] :
                /\ p.to \intersect x.slow \subseteq p.seen
                /\ \/ taken(p.to) = env.parallel
                   \/ taken(p.to) < env.parallel /\ p.seen = x.slow}

Reconfigure(x, p) ==
    [x EXCEPT !.reconf = [i \in Instance |->
                  (IF i \in p.seen THEN (@[i] \ {"sent"}) \union {"done"} ELSE @[i])
                  \union (IF i \in p.to THEN {"sent"} ELSE {})],
              !.slow = @ \ p.seen]

Tell(T, a) == {[to |-> i, of |-> a] : i \in T}

(* sentinelFailoverDetectEnd: over when all reachable slaves are done, or by *)
(* timeout, but not while the promoted slave is down (pdown).                *)
Ends(x, down, pdown, late) ==
    ~pdown /\ (late \/ \A i \in Slaves(x) \ {x.promoted} : "done" \in x.reconf[i] \/ i \in down)

sentinelFailoverReconfNextSlave(x, pdown, late) ==
    {LET y == Reconfigure(x, p)
         be == IF ~pdown /\ late
               THEN {i \in Slaves(y) \ {y.promoted} :
                        y.reconf[i] \intersect {"done", "sent"} = {}}
               ELSE {}
     IN  [x |-> IF Ends(y, down, pdown, late) THEN [y EXCEPT !.fstate = "update_config"] ELSE y,
          cmds |-> Tell(p.to \union be, x.promoted)] :
     p \in Passes(x), down \in SUBSET (Slaves(x) \ {x.promoted})}

sentinelFailoverStateMachine(x, me, pdown, late) ==
    CASE x.fstate = "none" -> {Quiet(x)}
      [] x.fstate = "wait_start" -> sentinelFailoverWaitStart(x, me, late)
      [] x.fstate = "select" -> sentinelFailoverSelectSlave(x)
      [] x.fstate = "send_noone" -> sentinelFailoverSendSlaveOfNoOne(x, late)
      [] x.fstate = "wait_promotion" -> sentinelFailoverWaitPromotion(x, late)
      [] x.fstate = "reconf" -> sentinelFailoverReconfNextSlave(x, pdown, late)

sentinelResetMasterAndChangeAddress(x, a) ==
    [x EXCEPT !.sdown = FALSE, !.odown = FALSE, !.mrole = "master", !.leader = None,
              !.fstate = "none", !.forced = FALSE, !.wait = FALSE, !.promoted = None,
              !.reconf = [i \in Instance |-> {}], !.slow = {}, !.addr = a]

sentinelFailoverSwitchToPromotedSlave(x) ==
    IF x.fstate = "update_config"
    THEN sentinelResetMasterAndChangeAddress(x, x.promoted) ELSE x

-----------------------------------------------------------------------------
(* The timer on the master: sentinelHandleRedisInstance.                    *)
CheckDown(x, down) ==
    [x EXCEPT !.sdown = down, !.odown = down /\ Cardinality(x.mdown) + 1 >= Quorum]

sentinelStartFailoverIfNeeded(x) ==
    x.odown /\ x.fstate = "none" /\ ~x.wait /\ x.cur < env.epoch

(* What sentinelAskMasterStateToOtherSentinels forgets when it is too old,   *)
(* and what it asks.                                                         *)
Answered(x, s) == {t \in Others(s) : t \in x.mdown \/ x.vote[t].leader # None}
Forget(x, old) ==
    [x EXCEPT !.mdown = @ \ old,
              !.vote = [t \in Sentinel |-> IF t \in old THEN [@[t] EXCEPT !.leader = None] ELSE @[t]]]

Question(x, me) ==
    [addr |-> x.addr, epoch |-> x.cur, runid |-> IF x.fstate = "none" THEN None ELSE me]

Idle(s) == {t \in Others(s) : Len(req[s][t]) + Len(rep[s][t]) < MaxPending}

Ask(q, x, me, T) ==
    [t \in Sentinel |->
        IF t \in T /\ x.sdown /\ Len(q[t]) + Len(rep[me][t]) < MaxPending
        THEN Append(q[t], Question(x, me)) ELSE q[t]]

(* The slaves that the commands C make synchronise: SLAVEOF is ignored by one *)
(* that has this master.                                                     *)
MustSync(C) == {c.to : c \in {d \in C : role[d.to] # d.of \/ d.to \notin synced}}

sentinelTimer(s, pdown, late) ==
    /\ ~pdown \/ st[s].fstate = "reconf"
    /\ ~late \/ st[s].fstate # "none"
    /\ \E down \in BOOLEAN, conn \in SUBSET Idle(s), old \in SUBSET Answered(st[s], s) :
      /\ env.loss = 0 => old = {}   \* no reply is missing
      /\ down => s \in env.seers
      /\ Cardinality(conn) <= env.ask /\ (~down => conn = {})
      /\ st[s].sdown /\ ~down => env.flap > 0
      /\ LET x == CheckDown([st[s] EXCEPT !.tilt = FALSE], down)
             starts == sentinelStartFailoverIfNeeded(x)
             x2 == IF starts THEN Forget(sentinelStartFailover(x), old) ELSE x
             q2 == IF starts THEN Ask(req[s], x2, s, conn) ELSE req[s]
         IN  \E o \in sentinelFailoverStateMachine(x2, s, pdown, late) :
               LET x3 == Forget(o.x, old)
                   x4 == sentinelFailoverSwitchToPromotedSlave(x3)
                   leads == x2.fstate = "wait_start" /\ o.x.fstate = "select"
                   how == IF s \notin Winners(o.x, s) THEN "forced"
                          ELSE IF x2.cur = x2.fepoch THEN "votes" ELSE "mixed"
               IN  /\ st' = [st EXCEPT ![s] = x4]
                   /\ req' = [req EXCEPT ![s] = Ask(q2, x3, s, conn)]
                   /\ IF starts \/ x4.leaderEpoch # st[s].leaderEpoch \/ x4.addr # st[s].addr
                      THEN \E d \in Flushes(s, disk[s], x4) : disk' = [disk EXCEPT ![s] = d]
                      ELSE disk' = disk
                   /\ cmds' = cmds \union o.cmds
                   /\ led' = IF leads
                             THEN led \union {[by |-> s, epoch |-> x2.fepoch, how |-> how]}
                             ELSE led
                   /\ env' = [env EXCEPT !.ask = @ - Cardinality(conn),
                                               !.flap = IF st[s].sdown /\ ~down THEN @ - 1 ELSE @]
                   /\ told' = [told EXCEPT ![s] =
                                 IF x4.fstate # "reconf" THEN {}
                                 ELSE (@ \ (x2.slow \ x4.slow)) \union MustSync(o.cmds)]
                   /\ UNCHANGED <<rep, hello, role, synced, kept, forgot>>

(* A jump of the clock is seen before the timer acts; the other half of the *)
(* timer is not run while in tilt mode.                                      *)
sentinelCheckTiltCondition(s) ==
    /\ s \in env.tilters /\ ~st[s].tilt
    /\ st' = [st EXCEPT ![s].tilt = TRUE]
    /\ UNCHANGED <<disk, req, rep, hello, role, cmds, led, kept, forgot, env, syncs>>

(* failover_timeout * 2 after failover_start_time.                           *)
DelayOver(s) ==
    /\ st[s].wait /\ st[s].fstate = "none"
    /\ st' = [st EXCEPT ![s].wait = FALSE]
    /\ UNCHANGED <<disk, req, rep, hello, role, cmds, led, kept, forgot, env, syncs>>

(* SENTINEL_SLAVE_RECONF_TIMEOUT after slave_reconf_sent_time.              *)
ReconfTimeout(s, i) ==
    /\ "sent" \in st[s].reconf[i] /\ "done" \notin st[s].reconf[i] /\ i \notin st[s].slow
    /\ st' = [st EXCEPT ![s].slow = @ \union {i}]
    /\ UNCHANGED <<disk, req, rep, hello, role, cmds, led, kept, forgot, env, syncs>>

(* SENTINEL FAILOVER: a failover that does not need the other Sentinels.    *)
SentinelFailover(s) ==
    /\ s \in env.forcers /\ st[s].fstate = "none" /\ st[s].cur < env.epoch
    /\ st' = [st EXCEPT ![s] = [sentinelStartFailover(@) EXCEPT !.forced = TRUE]]
    /\ UNCHANGED <<disk, req, rep, hello, role, cmds, led, kept, forgot, env, syncs>>

-----------------------------------------------------------------------------
(* Requests and replies between Sentinels.                                  *)
IsMasterDownByAddr(s, t) ==
    /\ req[s][t] # <<>>
    /\ LET q == Head(req[s][t])
           x == st[t]
           known == q.addr = x.addr
           votes == known /\ q.runid # None
           y == IF votes THEN sentinelVoteLeader(x, t, q.epoch, q.runid) ELSE x
           r == [down |-> known /\ ~x.tilt /\ x.sdown,
                 leader |-> IF votes THEN y.leader ELSE None,
                 epoch |-> IF votes THEN y.leaderEpoch ELSE 0]
       IN  /\ st' = [st EXCEPT ![t] = y]
           /\ IF y = x THEN disk' = disk
              ELSE \E d \in Flushes(t, disk[t], y) : disk' = [disk EXCEPT ![t] = d]
           /\ rep' = [rep EXCEPT ![s][t] = Append(@, r)]
    /\ req' = [req EXCEPT ![s][t] = Tail(@)]
    /\ UNCHANGED <<hello, role, cmds, led, kept, forgot, env, syncs>>

sentinelReceiveIsMasterDownReply(s, t) ==
    /\ rep[s][t] # <<>>
    /\ LET r == Head(rep[s][t])
       IN  st' = [st EXCEPT
             ![s].mdown = IF r.down THEN @ \union {t} ELSE @ \ {t},
             ![s].vote[t] = IF r.leader = None THEN @
                            ELSE [leader |-> r.leader, epoch |-> r.epoch]]
    /\ rep' = [rep EXCEPT ![s][t] = Tail(@)]
    /\ UNCHANGED <<disk, req, hello, role, cmds, led, kept, forgot, env, syncs>>

LoseLink(s, t) ==
    /\ env.loss > 0 /\ (req[s][t] # <<>> \/ rep[s][t] # <<>>)
    /\ req' = [req EXCEPT ![s][t] = <<>>] /\ rep' = [rep EXCEPT ![s][t] = <<>>]
    /\ env' = [env EXCEPT !.loss = @ - 1]
    /\ UNCHANGED <<st, disk, hello, role, cmds, led, kept, forgot, syncs>>

(* Hello messages.  They go through all instances and to every Sentinel, so  *)
(* that one may be late and may come several times; one that was overtaken   *)
(* by a later one of its sender has nothing new to say and is left out.      *)
Says(x) == [cur |-> x.cur, addr |-> CurrentAddr(x), cfg |-> x.cfg]

sentinelSendHello(s) ==
    /\ hello[s] # Says(st[s]) /\ env.hello > 0
    /\ hello' = [hello EXCEPT ![s] = Says(st[s])]
    /\ env' = [env EXCEPT !.hello = @ - 1]
    /\ UNCHANGED <<st, disk, req, rep, role, cmds, led, kept, forgot, syncs>>

UpdateConfig(x, m) ==
    IF m.cfg > x.cfg THEN IF m.addr # x.addr
         THEN sentinelResetMasterAndChangeAddress([x EXCEPT !.cfg = m.cfg], m.addr)
         ELSE [x EXCEPT !.cfg = m.cfg]
    ELSE x

sentinelProcessHelloMessage(s, m) ==
    LET newer == m.cur > st[s].cur
        x == IF newer THEN [st[s] EXCEPT !.cur = m.cur] ELSE st[s]
        y == UpdateConfig(x, m)
        first == IF newer THEN Flushes(s, disk[s], x) ELSE {disk[s]}
    IN  /\ y # st[s]
        /\ st' = [st EXCEPT ![s] = y]
        /\ \E d \in first :
             IF y.addr # x.addr
             THEN \E e \in Flushes(s, d, y) : disk' = [disk EXCEPT ![s] = e]
             ELSE disk' = [disk EXCEPT ![s] = d]
        /\ told' = [told EXCEPT ![s] = IF y.fstate = "reconf" THEN @ ELSE {}]
        /\ kept' = (kept \/ (y.cfg # x.cfg /\ y.fstate = "reconf"))
        /\ UNCHANGED <<req, rep, hello, role, synced, cmds, led, forgot, env>>

-----------------------------------------------------------------------------
(* Instances: SLAVEOF and INFO.                                             *)
Slaveof(c) ==
    /\ cmds' = cmds \ {c}
    /\ role' = [role EXCEPT ![c.to] = c.of]
    /\ synced' = IF role[c.to] = c.of THEN synced ELSE synced \ {c.to}
    /\ UNCHANGED <<st, disk, req, rep, hello, told, led, kept, forgot, env>>

(* An instance has synchronised with its master.                            *)
LinkUp(i) ==
    /\ i \notin synced
    /\ synced' = synced \union {i}
    /\ told' = [s \in Sentinel |-> told[s] \ {i}]
    /\ UNCHANGED <<st, disk, req, rep, hello, role, cmds, led, kept, forgot, env>>

LoseCommand(c) ==
    /\ env.loss > 0
    /\ cmds' = cmds \ {c} /\ env' = [env EXCEPT !.loss = @ - 1]
    /\ UNCHANGED <<st, disk, req, rep, hello, role, led, kept, forgot, syncs>>

sentinelMasterLooksSane(x) == x.mrole = "master" /\ ~x.sdown /\ ~x.odown

InfoFromMaster(s) ==
    /\ LET a == st[s].addr
       IN  st' = [st EXCEPT ![s].mrole = IF role[a] = a THEN "master" ELSE "slave"]
    /\ UNCHANGED <<disk, req, rep, hello, role, cmds, led, kept, forgot, env, syncs>>

AckPromotion(x, i) == x.promoted = i /\ x.fstate = "wait_promotion"

(* RECONF_SENT -> RECONF_INPROG -> RECONF_DONE                               *)
Progress(flags, repointed, linkup) ==
    LET f == IF "sent" \in flags /\ repointed THEN (flags \ {"sent"}) \union {"inprog"} ELSE flags
    IN  IF "inprog" \in f /\ linkup THEN (f \ {"inprog"}) \union {"done"} ELSE f

InfoFromSlave(s, i) ==
    /\ i # st[s].addr /\ ~st[s].tilt
    /\ \E fix, linkup \in BOOLEAN :
         /\ linkup => i \in synced
         /\ LET x == st[s]
                isMaster == role[i] = i
                acked == isMaster /\ AckPromotion(x, i)
                wrong == IF isMaster THEN ~acked /\ x.promoted # i ELSE role[i] # x.addr
                y == IF acked THEN [x EXCEPT !.cfg = x.fepoch, !.fstate = "reconf"]
                     ELSE IF isMaster THEN x
                     ELSE LET f == Progress(x.reconf[i], role[i] = x.promoted, linkup)
                          IN  [x EXCEPT !.reconf[i] = f,
                                        !.slow = IF "sent" \in f THEN @ ELSE @ \ {i}]
            IN  /\ st' = [st EXCEPT ![s] = y]
                /\ IF acked THEN \E d \in Flushes(s, disk[s], y) : disk' = [disk EXCEPT ![s] = d]
                   ELSE disk' = disk
                /\ IF fix /\ wrong /\ sentinelMasterLooksSane(x) /\ env.fix > 0
                   THEN /\ cmds' = cmds \union Tell({i}, x.addr)
                        /\ env' = [env EXCEPT !.fix = @ - 1]
                   ELSE UNCHANGED <<cmds, env>>
    /\ UNCHANGED <<req, rep, hello, role, led, kept, forgot, syncs>>

-----------------------------------------------------------------------------
Crash(s) ==
    /\ env.crash > 0
    /\ st' = [st EXCEPT ![s] = Fresh(disk[s])]
    /\ req' = [q \in Sentinel |-> [t \in Sentinel |-> IF s \in {q, t} THEN <<>> ELSE req[q][t]]]
    /\ rep' = [q \in Sentinel |-> [t \in Sentinel |-> IF s \in {q, t} THEN <<>> ELSE rep[q][t]]]
    /\ env' = [env EXCEPT !.crash = @ - 1]
    /\ disk' = [disk EXCEPT ![s].stale = FALSE]
    /\ forgot' = IF disk[s].stale
                 THEN forgot \union ((disk[s].leaderEpoch + 1)..st[s].leaderEpoch)
                             \union ((disk[s].cur + 1)..st[s].cur)
                 ELSE forgot
    /\ told' = [told EXCEPT ![s] = {}]
    /\ UNCHANGED <<hello, role, synced, cmds, led, kept>>

Next ==
    \/ \E s \in Sentinel :
         \/ \E pdown, late \in BOOLEAN : sentinelTimer(s, pdown, late)
         \/ sentinelCheckTiltCondition(s)
         \/ DelayOver(s)
         \/ \E i \in Instance : ReconfTimeout(s, i) \/ InfoFromSlave(s, i)
         \/ InfoFromMaster(s)
         \/ SentinelFailover(s)
         \/ \E t \in Others(s) : \/ IsMasterDownByAddr(s, t)
                                \/ sentinelReceiveIsMasterDownReply(s, t)
                                \/ LoseLink(s, t)
         \/ sentinelSendHello(s)
         \/ \E t \in Others(s) : sentinelProcessHelloMessage(s, hello[t])
         \/ Crash(s)
    \/ \E c \in cmds : Slaveof(c) \/ LoseCommand(c)
    \/ \E i \in Instance : LinkUp(i)

Spec == Init /\ [][Next]_vars

(* In the environments said to be fair, timers run, timeouts pass, and hello messages are published and arrive.  *)
(* A promoted slave that is down is reachable again at some run of the timer.*)
Fairness ==
    \A s \in Sentinels :
        /\ WF_vars(env.fair /\ s \in Sentinel /\ sentinelTimer(s, FALSE, TRUE))
        /\ WF_vars(env.fair /\ s \in Sentinel /\ sentinelSendHello(s))
        /\ WF_vars(env.fair /\ s \in Sentinel /\ \E t \in Others(s) : sentinelProcessHelloMessage(s, hello[t]))

LiveSpec == Spec /\ Fairness

-----------------------------------------------------------------------------
(* Properties.                                                              *)

(* The timer leaves a Sentinel in a state it can go on from: the failover is   *)
(* never left in UPDATE_CONFIG, and epochs and flags are of their types.       *)
TypeOK ==
    /\ st \in [Sentinel ->
          [cur : 0..env.epoch, leader : Sentinel \union {None}, leaderEpoch : 0..env.epoch,
           vote : [Sentinel -> [leader : Sentinel \union {None}, epoch : 0..env.epoch]],
           mdown : SUBSET Sentinel, sdown : BOOLEAN, odown : BOOLEAN, mrole : {"master", "slave"},
           fstate : {"none", "wait_start", "select", "send_noone", "wait_promotion", "reconf"},
           fepoch : 0..env.epoch, forced : BOOLEAN, wait : BOOLEAN,
           promoted : Instance \union {None},
           reconf : [Instance -> SUBSET {"sent", "inprog", "done"}],
           slow : SUBSET Instance, tilt : BOOLEAN,
           addr : Instance, cfg : 0..env.epoch]]
    /\ role \in [Instance -> Instance]

Unique(L) == \A e, f \in L : e.epoch = f.epoch => e.by = f.by

(* Votes of an epoch elect at most one Sentinel for it, over crashes, lost   *)
(* links and forced failovers: a vote is on disk before it is told, unless   *)
(* the file could not be written and the Sentinel forgot the vote in a crash. *)
(* Elections won with "mixed" votes are not among these: a Sentinel that has  *)
(* come to a newer epoch meanwhile adds the others' votes of that epoch to    *)
(* its own of the epoch of its failover, and leads the older epoch.           *)
VotesElectOne == Unique({e \in led : e.how = "votes" /\ e.epoch \notin forgot})

Advertised == {Says(st[s]) : s \in Sentinel} \union {hello[s] : s \in Sentinel}
OneAddress ==
    \A m, k \in Advertised : m.cfg = k.cfg /\ m.cfg \notin forgot => m.addr = k.addr

(* The configuration epoch names the master: as long as no two Sentinels led *)
(* failovers of one epoch, two Sentinels or hello messages with one          *)
(* config_epoch tell clients the same address.  A Sentinel that forgot an     *)
(* epoch, as its file could not be written, may lead that epoch again.        *)
EpochNamesMaster == Unique(led) /\ ~kept => OneAddress

(* No Sentinel forgets a vote, or takes an older configuration for a newer   *)
(* one, whatever is lost in a crash, unless it last failed to write its file. *)
EpochsHold ==
    \A s \in Sentinel :
        /\ disk[s].stale \/ disk[s].leaderEpoch = st[s].leaderEpoch
        /\ st[s].cfg <= st[s].cur /\ st[s].leaderEpoch <= st[s].cur
        /\ hello[s].cfg <= hello[s].cur

(* At most parallel_syncs slaves have been told of the new master and not yet *)
(* synchronised with it, until the failover's own timeout, when all that are  *)
(* left are told at once.  A slave that takes longer than the 10 seconds of   *)
(* SENTINEL_SLAVE_RECONF_TIMEOUT is given up and not counted.                 *)
SyncsBounded == \A s \in Sentinel : Cardinality(told[s]) <= env.parallel

(* Every failover comes to an end: promoted, aborted or overtaken. With no   *)
(* epochs left for another one, none is running in the end.                  *)
FailoverEnds ==
    (env.fair /\ \E s \in Sentinel : st[s].fstate # "none")
      ~> \A s \in Sentinel : st[s].fstate = "none"

(* All Sentinels come to tell the same master, for good.                     *)
SentinelsAgree ==
    [](env.fair /\ Unique(led) /\ ~kept) => <>[](\A s, t \in Sentinel : CurrentAddr(st[s]) = CurrentAddr(st[t]))
(* Elections by votes are safe in every well typed state: one leader for an  *)
(* epoch, and neither votes nor epochs that a crash takes back.              *)
ElectionsHold == TypeOK /\ VotesElectOne /\ EpochsHold

(* Failovers come to an end and leave all Sentinels with one master.         *)
FailoversSettle == FailoverEnds /\ SentinelsAgree
=============================================================================
