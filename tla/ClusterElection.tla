--------------------------- MODULE ClusterElection ---------------------------
(***************************************************************************)
(* The replica election of Redis Cluster (cluster.c).  The replicas of a   *)
(* failed master schedule an attempt, ask every node for its vote in a new *)
(* epoch, count the votes, and the one with a majority takes over the      *)
(* slots.  Masters vote at most once per epoch and must remember it across *)
(* a crash: the vote is saved and fsynced by clusterBeforeSleep, and the   *)
(* acknowledgement waits in the send buffer of the link until the write    *)
(* handler runs: in the next iteration of the event loop, or still in this *)
(* one if the link was already polled writable for an earlier packet.      *)
(*                                                                         *)
(* The timers are abstracted: an attempt may be rescheduled at any moment  *)
(* (auth_age > auth_retry_time), and the two-node-timeouts window after a  *)
(* vote may end at any moment.  Requests and ACKs are delayed and          *)
(* reordered at will; one that is never received is a lost one.  A replica *)
(* queues its packets in clusterCron or clusterBeforeSleep, so that they   *)
(* are always saved before they are written: queueing, saving and writing  *)
(* are one step for a replica, and three for a voter.                      *)
(***************************************************************************)
EXTENDS Integers, FiniteSets

CONSTANTS
  Masters,     \* masters serving slots: cluster->size is their number
  Failed,      \* the masters flagged FAIL; they take no step
  Replicas,    \* the nodes that can be promoted
  MasterOf,    \* myself->slaveof of each replica
  Limits       \* bounds on currentEpoch, on crashes and on writes before the
               \* save: one record per instance

ASSUME ElectionAssumption ==
  /\ IsFiniteSet(Masters)
  /\ Failed \subseteq Masters
  /\ Replicas \cap Masters = {}
  /\ MasterOf \in [Replicas -> Masters]
  /\ Limits \subseteq [epoch : Nat, crashes : Nat, early : Nat]

VARIABLES
  currentEpoch,    \* server.cluster->currentEpoch of each node
  lastVoteEpoch,   \* server.cluster->lastVoteEpoch
  diskEpoch,       \* currentEpoch in the nodes.conf on disk
  diskVote,        \* lastVoteEpoch in the nodes.conf on disk
  diskSlots,       \* slotEpoch of the voters in the nodes.conf on disk
  todoSave,        \* a voter has CLUSTER_TODO_SAVE_CONFIG|FSYNC_CONFIG set
  sndbuf,          \* ACKs in the send buffers of a voter's links
  net,             \* requests and ACKs written and not yet read
  recentVote,      \* masters with a voted_time less than two timeouts ago
  slotEpoch,       \* [node][master]: configEpoch of the owner of its slots
  isMaster,        \* has the replica been promoted?
  authSent,        \* failover_auth_sent
  authEpoch,       \* failover_auth_epoch
  authCount,       \* failover_auth_count
  counted,         \* history: the masters authCount counts
  late,            \* history: does authCount count an ACK that came between
                   \* two attempts?
  granted,         \* history: <<master, epoch, replica>> ACKs written
  early,           \* history: <<master, epoch>> votes whose ACK was written
                   \* and that are not saved yet
  forgot,          \* history: <<master, epoch>> such votes lost in a crash
  wins,            \* history: <<replica, epoch, late>> elections won
  limit            \* the bound on epochs, the crashes and early writes left

persist == <<diskEpoch, diskVote, diskSlots, todoSave>>
epochs  == <<currentEpoch, lastVoteEpoch>>
links   == <<sndbuf, net, granted>>
losses  == <<early, forgot>>
auth    == <<authSent, authEpoch, authCount, counted, late>>
config  == <<slotEpoch, isMaster, wins>>
vars    == <<persist, epochs, links, losses, auth, config, recentVote, limit>>

Voters == Masters \ Failed
Node   == Voters \cup Replicas

Request == [type : {"req"}, from : Replicas, to : Voters, epoch : Nat, cfg : Nat]
ACK     == [type : {"ack"}, from : Voters, to : Replicas, epoch : Nat]

TypeOK ==
  /\ currentEpoch \in [Node -> Nat]
  /\ lastVoteEpoch \in [Node -> Nat]
  /\ diskEpoch \in [Node -> Nat]
  /\ diskVote \in [Node -> Nat]
  /\ diskSlots \in [Voters -> [Masters -> Nat]]
  /\ todoSave \in [Voters -> BOOLEAN]
  /\ sndbuf \in [Voters -> SUBSET ACK]
  /\ net \in SUBSET (Request \cup ACK)
  /\ recentVote \in [Voters -> SUBSET Masters]
  /\ slotEpoch \in [Node -> [Masters -> Nat]]
  /\ isMaster \in [Replicas -> BOOLEAN]
  /\ authSent \in [Replicas -> BOOLEAN]
  /\ authEpoch \in [Replicas -> Nat]
  /\ authCount \in [Replicas -> Nat]
  /\ counted \in [Replicas -> SUBSET Voters]
  /\ late \in [Replicas -> BOOLEAN]
  /\ granted \in SUBSET (Voters \X Nat \X Replicas)
  /\ early \in SUBSET (Voters \X Nat)
  /\ forgot \in SUBSET (Voters \X Nat)
  /\ wins \in SUBSET (Replicas \X Nat \X BOOLEAN)
  /\ limit \in [epoch : Nat, crashes : Nat, early : Nat]

\* Every node loaded the same configuration, in which epoch 0 is the newest,
\* and has seen the FAIL of the failed masters.
Init ==
  /\ currentEpoch = [n \in Node |-> 0]
  /\ lastVoteEpoch = [n \in Node |-> 0]
  /\ diskEpoch = [n \in Node |-> 0]
  /\ diskVote = [n \in Node |-> 0]
  /\ diskSlots = [v \in Voters |-> [m \in Masters |-> 0]]
  /\ todoSave = [v \in Voters |-> FALSE]
  /\ sndbuf = [v \in Voters |-> {}]
  /\ net = {}
  /\ recentVote = [v \in Voters |-> {}]
  /\ slotEpoch = [n \in Node |-> [m \in Masters |-> 0]]
  /\ isMaster = [r \in Replicas |-> FALSE]
  /\ authSent = [r \in Replicas |-> FALSE]
  /\ authEpoch = [r \in Replicas |-> 0]
  /\ authCount = [r \in Replicas |-> 0]
  /\ counted = [r \in Replicas |-> {}]
  /\ late = [r \in Replicas |-> FALSE]
  /\ granted = {}
  /\ early = {}
  /\ forgot = {}
  /\ wins = {}
  /\ limit \in Limits

-----------------------------------------------------------------------------
(* The replica: clusterHandleSlaveFailover.                                 *)

\* Mutant of Quorum: half of the masters is enough.
HalfQuorum == Cardinality(Masters) \div 2

\* needed_quorum
Quorum == Cardinality(Masters) \div 2 + 1

\* The preconditions: a replica whose master is FAIL and still owns slots.
CanFailover(r) ==
  /\ ~isMaster[r]
  /\ MasterOf[r] \in Failed
  /\ slotEpoch[r][MasterOf[r]] = 0

\* auth_age > auth_retry_time: set up a new attempt and return.  The epoch of
\* the previous attempt is left in place.
ScheduleElection(r) ==
  /\ CanFailover(r)
  /\ authCount' = [authCount EXCEPT ![r] = 0]
  /\ counted' = [counted EXCEPT ![r] = {}]
  /\ late' = [late EXCEPT ![r] = FALSE]
  /\ authSent' = [authSent EXCEPT ![r] = FALSE]
  /\ UNCHANGED <<persist, epochs, links, losses, config, recentVote, authEpoch, limit>>

\* The header of clusterBuildMessageHdr, broadcast to the masters.
Requests(r, e) ==
  { [type |-> "req", from |-> r, to |-> v, epoch |-> e,
     cfg |-> slotEpoch[r][MasterOf[r]]] : v \in Voters }

\* The delay has passed and no request was sent: start the election of the
\* next epoch.  The votes counted since ScheduleElection are kept.
clusterRequestFailoverAuth(r) ==
  /\ CanFailover(r)
  /\ ~authSent[r]
  /\ currentEpoch[r] < limit.epoch
  /\ currentEpoch' = [currentEpoch EXCEPT ![r] = @ + 1]
  /\ diskEpoch' = [diskEpoch EXCEPT ![r] = currentEpoch[r] + 1]
  /\ authEpoch' = [authEpoch EXCEPT ![r] = currentEpoch[r] + 1]
  /\ authSent' = [authSent EXCEPT ![r] = TRUE]
  /\ net' = net \cup Requests(r, currentEpoch[r] + 1)
  /\ UNCHANGED <<lastVoteEpoch, diskVote, diskSlots, todoSave, sndbuf, granted, losses,
                 authCount, counted, late, config, recentVote, limit>>

\* The quorum is reached before the attempt expires: take the epoch of the
\* election, become a master, claim the slots and save with fsync.  The PONG
\* sent to every node, like every later packet, is ReceiveClaim.
clusterFailoverReplaceYourMaster(r) ==
  /\ CanFailover(r)
  /\ authSent[r]
  /\ authCount[r] >= Quorum
  /\ isMaster' = [isMaster EXCEPT ![r] = TRUE]
  /\ slotEpoch' = [slotEpoch EXCEPT ![r][MasterOf[r]] = authEpoch[r]]
  /\ wins' = wins \cup {<<r, authEpoch[r], late[r]>>}
  /\ diskEpoch' = [diskEpoch EXCEPT ![r] = currentEpoch[r]]
  /\ UNCHANGED <<epochs, diskVote, diskSlots, todoSave, links, losses, auth, recentVote, limit>>

-----------------------------------------------------------------------------
(* Packets received: clusterProcessPacket.                                  *)

\* The header of any packet advances the receiver's currentEpoch.
SeeEpoch(n, e) ==
  currentEpoch' = [currentEpoch EXCEPT ![n] = IF e > @ THEN e ELSE @]

\* Mutant of MayVote: the epoch of the last vote is not looked at.
MayVoteAgain(v, m) ==
  /\ m.epoch >= currentEpoch[v]
  /\ MasterOf[m.from] \in Failed
  /\ MasterOf[m.from] \notin recentVote[v]
  /\ slotEpoch[v][MasterOf[m.from]] <= m.cfg

\* The checks of clusterSendFailoverAuthIfNeeded on request m, in a master
\* that serves slots; its currentEpoch is m.epoch when the first one holds.
MayVote(v, m) ==
  /\ m.epoch >= currentEpoch[v]
  /\ lastVoteEpoch[v] # m.epoch
  /\ MasterOf[m.from] \in Failed
  /\ MasterOf[m.from] \notin recentVote[v]
  /\ slotEpoch[v][MasterOf[m.from]] <= m.cfg

\* clusterDoBeforeSleep(CLUSTER_TODO_SAVE_CONFIG|CLUSTER_TODO_FSYNC_CONFIG)
SaveBeforeSleep(v) == TRUE

\* A voter grants its vote: remember it, have it saved before the next sleep,
\* and queue the ACK on the link to the replica (clusterSendFailoverAuth).
GrantVote(v, m) ==
  /\ m.type = "req" /\ m.to = v
  /\ MayVote(v, m)
  /\ SeeEpoch(v, m.epoch)
  /\ lastVoteEpoch' = [lastVoteEpoch EXCEPT ![v] = m.epoch]
  /\ recentVote' = [recentVote EXCEPT ![v] = @ \cup {MasterOf[m.from]}]
  /\ todoSave' = [todoSave EXCEPT ![v] = SaveBeforeSleep(v)]
  /\ sndbuf' = [sndbuf EXCEPT ![v] = @ \cup
       {[type |-> "ack", from |-> v, to |-> m.from, epoch |-> m.epoch]}]
  /\ net' = net \ {m}
  /\ UNCHANGED <<diskEpoch, diskVote, diskSlots, granted, losses, auth, config, limit>>

\* A voter that denies its vote only sees the epoch.
DenyVote(v, m) ==
  /\ m.type = "req" /\ m.to = v
  /\ ~MayVote(v, m)
  /\ SeeEpoch(v, m.epoch)
  /\ net' = net \ {m}
  /\ UNCHANGED <<lastVoteEpoch, persist, sndbuf, granted, losses, auth, config,
                 recentVote, limit>>

\* The ACK of a master with slots counts when its epoch is not older than the
\* one of the last request.
AckCounts(r, m) == m.epoch >= authEpoch[r]

\* An ACK that comes after its attempt was given up and before the next request
\* counts in the next attempt.
ReceiveAck(r, m) ==
  /\ m.type = "ack" /\ m.to = r
  /\ SeeEpoch(r, m.epoch)
  /\ IF AckCounts(r, m)
     THEN /\ authCount' = [authCount EXCEPT ![r] = @ + 1]
          /\ counted' = [counted EXCEPT ![r] = @ \cup {m.from}]
          /\ late' = [late EXCEPT ![r] = @ \/ ~authSent[r]]
     ELSE UNCHANGED <<authCount, counted, late>>
  /\ net' = net \ {m}
  /\ UNCHANGED <<lastVoteEpoch, persist, sndbuf, granted, losses, authSent,
                 authEpoch, config, recentVote, limit>>

\* Node n reads a PING or PONG of k: it sees k's epoch.
ReceivePing(n, k) ==
  /\ currentEpoch[k] > currentEpoch[n]
  /\ SeeEpoch(n, currentEpoch[k])
  /\ UNCHANGED <<lastVoteEpoch, persist, links, losses, auth, config, recentVote, limit>>

\* Node n reads a PING or PONG of the promoted replica k, whose configEpoch is
\* greater than the one of the owner of its slots: n rebinds them to k and
\* saves before it sleeps, at once if it is a replica.
ReceiveClaim(n, k) ==
  LET m == MasterOf[k] IN
  /\ isMaster[k]
  /\ slotEpoch[k][m] > slotEpoch[n][m]
  /\ SeeEpoch(n, currentEpoch[k])
  /\ slotEpoch' = [slotEpoch EXCEPT ![n][m] = slotEpoch[k][m]]
  /\ todoSave' = [v \in Voters |-> v = n \/ todoSave[v]]
  /\ diskEpoch' = IF n \in Replicas THEN [diskEpoch EXCEPT ![n] = currentEpoch'[n]]
                  ELSE diskEpoch
  /\ UNCHANGED <<lastVoteEpoch, diskVote, diskSlots, links, losses, auth, isMaster, wins,
                 recentVote, limit>>

-----------------------------------------------------------------------------
(* The event loop of a voter, and crashes.                                  *)

\* The end of an iteration of the event loop: clusterBeforeSleep saves the
\* configuration with fsync.
clusterBeforeSleep(v) ==
  /\ todoSave[v]
  /\ diskEpoch' = [diskEpoch EXCEPT ![v] = currentEpoch[v]]
  /\ diskVote' = [diskVote EXCEPT ![v] = lastVoteEpoch[v]]
  /\ diskSlots' = [diskSlots EXCEPT ![v] = slotEpoch[v]]
  /\ todoSave' = [todoSave EXCEPT ![v] = FALSE]
  /\ early' = {p \in early : p[1] # v}
  /\ UNCHANGED <<epochs, links, forgot, auth, config, recentVote, limit>>

\* clusterWriteHandler of the link to r sends the whole buffer.  The handler
\* clusterSendMessage installs runs in a later iteration, after
\* clusterBeforeSleep; one that was installed for an earlier packet, say a
\* PING, may run in this iteration, before it.
clusterWriteHandler(v, r) ==
  LET sent == {m \in sndbuf[v] : m.to = r} IN
  /\ sent # {}
  /\ IF todoSave[v]
     THEN /\ limit.early > 0
          /\ limit' = [limit EXCEPT !.early = @ - 1]
          /\ early' = early \cup {<<v, m.epoch>> : m \in sent}
     ELSE UNCHANGED <<early, limit>>
  /\ sndbuf' = [sndbuf EXCEPT ![v] = @ \ sent]
  /\ net' = net \cup sent
  /\ granted' = granted \cup {<<v, m.epoch, r>> : m \in sent}
  /\ UNCHANGED <<epochs, persist, forgot, auth, config, recentVote>>

\* mstime() - voted_time reaches two node timeouts.
VoteWindowEnds(v) ==
  /\ recentVote[v] # {}
  /\ recentVote' = [recentVote EXCEPT ![v] = {}]
  /\ UNCHANGED <<persist, epochs, links, losses, auth, config, limit>>

\* A voter dies and restarts from nodes.conf (clusterLoadConfig); what was in
\* its send buffers and in memory is gone.
CrashVoter(v) ==
  /\ limit.crashes > 0
  /\ limit' = [limit EXCEPT !.crashes = @ - 1]
  /\ currentEpoch' = [currentEpoch EXCEPT ![v] = diskEpoch[v]]
  /\ lastVoteEpoch' = [lastVoteEpoch EXCEPT ![v] = diskVote[v]]
  /\ todoSave' = [todoSave EXCEPT ![v] = FALSE]
  /\ sndbuf' = [sndbuf EXCEPT ![v] = {}]
  /\ recentVote' = [recentVote EXCEPT ![v] = {}]
  /\ slotEpoch' = [slotEpoch EXCEPT ![v] = diskSlots[v]]
  /\ early' = {p \in early : p[1] # v}
  /\ forgot' = forgot \cup {p \in early : p[1] = v}
  /\ UNCHANGED <<diskEpoch, diskVote, diskSlots, net, granted, auth, isMaster, wins>>

\* A replica dies and restarts; clusterInit zeroes the state of its election.
CrashReplica(r) ==
  /\ limit.crashes > 0
  /\ limit' = [limit EXCEPT !.crashes = @ - 1]
  /\ currentEpoch' = [currentEpoch EXCEPT ![r] = diskEpoch[r]]
  /\ authSent' = [authSent EXCEPT ![r] = FALSE]
  /\ authEpoch' = [authEpoch EXCEPT ![r] = 0]
  /\ authCount' = [authCount EXCEPT ![r] = 0]
  /\ counted' = [counted EXCEPT ![r] = {}]
  /\ late' = [late EXCEPT ![r] = FALSE]
  /\ UNCHANGED <<lastVoteEpoch, persist, links, losses, config, recentVote>>

Next ==
  \/ \E r \in Replicas :
       \/ ScheduleElection(r)
       \/ clusterRequestFailoverAuth(r)
       \/ clusterFailoverReplaceYourMaster(r)
       \/ CrashReplica(r)
       \/ \E m \in net : ReceiveAck(r, m)
  \/ \E v \in Voters :
       \/ \E m \in net : GrantVote(v, m) \/ DenyVote(v, m)
       \/ clusterBeforeSleep(v)
       \/ \E r \in Replicas : clusterWriteHandler(v, r)
       \/ VoteWindowEnds(v)
       \/ CrashVoter(v)
  \/ \E n \in Node :
       \/ \E k \in Node : ReceivePing(n, k)
       \/ \E k \in Replicas : ReceiveClaim(n, k)

Spec == Init /\ [][Next]_vars

-----------------------------------------------------------------------------
(* Properties.                                                              *)

\* A master does not give its vote of one epoch to two replicas, whatever
\* crashes between the vote, the save and the write of the ACK, unless it
\* crashed with the vote unsaved after the ACK had left on a link that was
\* polled writable before the vote (the write barrier of cluster.c:2345 orders
\* the handlers of one connection, and the request came in on another one).
OneVotePerEpoch ==
  \A g, h \in granted :
    g[1] = h[1] /\ g[2] = h[2] => g[3] = h[3] \/ <<g[1], g[2]>> \in forgot

\* At most one replica wins the election of an epoch: "It is not possible
\* that different slaves get the same config epoch during a failover
\* election, because the slaves need to get voted by a majority"
\* (cluster.c:1109).  It is possible in two cases, which are excepted: one of
\* the winners counted an ACK that came between two attempts, as cluster.c:3158
\* zeroes the count and leaves the epoch, or a master forgot a vote of the
\* epoch in the way OneVotePerEpoch excepts.
ElectionSafety ==
  \A w, x \in wins :
    w[2] = x[2] => \/ w[1] = x[1]
                   \/ w[3] \/ x[3]
                   \/ \E v \in Voters : <<v, w[2]>> \in forgot

-----------------------------------------------------------------------------
(* The inductive invariant behind them.                                     *)

\* A voter's memory and disk: no vote is newer than the epoch, and a vote
\* that is not on disk is about to be saved.
MemoryInv ==
  \A v \in Voters :
    /\ lastVoteEpoch[v] <= currentEpoch[v]
    /\ diskVote[v] <= diskEpoch[v]
    /\ diskVote[v] <= lastVoteEpoch[v]
    /\ ~todoSave[v] => diskVote[v] = lastVoteEpoch[v]

\* A vote whose ACK was written is remembered, on disk too unless its ACK was
\* early; or it was lost in a crash.
RememberedInv ==
  \A g \in granted :
    \/ <<g[1], g[2]>> \in forgot
    \/ /\ g[2] <= lastVoteEpoch[g[1]]
       /\ <<g[1], g[2]>> \in early \/ g[2] <= diskVote[g[1]]

\* The ACKs in the send buffer of v.
QueuedInv ==
  \A v \in Voters : \A m \in sndbuf[v] :
    /\ m.from = v
    /\ m.epoch <= lastVoteEpoch[v]
    /\ \A g \in granted : g[1] = v /\ g[2] = m.epoch => <<v, m.epoch>> \in forgot
    /\ \A k \in sndbuf[v] : k.epoch = m.epoch => k = m

\* An ACK in flight was granted.
FlightInv ==
  \A m \in net : m.type = "ack" => <<m.from, m.epoch, m.to>> \in granted

\* The requests, queued ACKs and grants of a replica carry epochs it has
\* already saved, none of them newer than the election in progress.
RequestInv ==
  /\ \A r \in Replicas : diskEpoch[r] <= currentEpoch[r]
  /\ \A m \in net : m.type = "req" =>
       /\ m.epoch <= diskEpoch[m.from]
       /\ authSent[m.from] => m.epoch <= authEpoch[m.from]
  /\ \A v \in Voters : \A m \in sndbuf[v] :
       /\ m.epoch <= diskEpoch[m.to]
       /\ authSent[m.to] => m.epoch <= authEpoch[m.to]
  /\ \A g \in granted :
       /\ g[2] <= diskEpoch[g[3]]
       /\ authSent[g[3]] => g[2] <= authEpoch[g[3]]

\* A request is sent with the configEpoch the failed master had at the start,
\* and answered once: no ACK is queued or written while it is still in flight,
\* and none is queued once it is written.
OnceInv ==
  /\ \A m \in net : m.type = "req" =>
       /\ m.cfg = 0
       /\ <<m.to, m.epoch, m.from>> \notin granted
       /\ \A k \in sndbuf[m.to] : k.to = m.from => k.epoch # m.epoch
  /\ \A v \in Voters : \A m \in sndbuf[v] : <<v, m.epoch, m.to>> \notin granted

\* failover_auth_count, unless it counts a late ACK, is the number of masters
\* that voted for the replica in the election in progress, and none of their
\* ACKs is still to come.
CountInv ==
  \A r \in Replicas : ~late[r] =>
    /\ authCount[r] = Cardinality(counted[r])
    /\ ~authSent[r] => counted[r] = {}
    /\ \A v \in counted[r] : <<v, authEpoch[r], r>> \in granted
    /\ \A m \in net : m.type = "ack" /\ m.to = r /\ m.from \in counted[r]
                        => m.epoch # authEpoch[r]

\* A winner that counted no late ACK had the votes of a majority.
WinInv ==
  \A w \in wins : ~w[3] => \E Q \in SUBSET Voters :
    /\ Cardinality(Q) >= Quorum
    /\ \A v \in Q : <<v, w[2], w[1]>> \in granted

VoteIInv == TypeOK /\ MemoryInv /\ RememberedInv /\ QueuedInv /\ OneVotePerEpoch
ElectionIInv == VoteIInv /\ FlightInv /\ RequestInv /\ OnceInv /\ CountInv /\ WinInv
=============================================================================
