# TLA+ models of Redis

TLA+ specifications of the parts of Redis whose correctness depends on the order in which things
happen: background jobs, I/O threads, the hash table, the keyspace with its blocked clients,
transactions and client side caches, Redis Cluster and the migration of its slots, replication, the
append only file and Sentinel. The reference is the source of Redis 6.0.9 in `src/redis-6.0.9/src` (the 3.0.7 tree beside it is an older
release, kept for comparison). TLC checks each specification on small instances; TLAPS proves some of
the results for every value of the constants. `PROJECT.json` lists components, runs, mutants, the map
from definitions to source lines, hazards and theorems.

Contents: 1 the system; 2 plan; 3 the modules; 4 runs; 5 bounds; 6 fairness; 7 proofs;
8 disagreements with the source's own statements; 9 what is not modelled.

To check a run: `tlc -config Psync.cfg MCPsync`. To check proofs: `tlapm AofProofs.tla`.

## 1. The system

A Redis server is one process with one event loop (`ae.c`). Each iteration calls `beforeSleep`, polls,
fires read and write handlers, and runs timers (`serverCron`, `clusterCron`, `replicationCron`,
`sentinelTimer`). Handlers run to completion, so concurrency is between *processes* (other servers,
forked children), between the loop and a few *threads* (`bio.c`, I/O threads), and between
*callbacks*: what one handler leaves half done is seen by the next, whichever that is.

| component | state | operations | talks to | what is hard | correct when |
|---|---|---|---|---|---|
| background jobs (`bio.c`) | a list, a counter, a mutex and two conditions per type | create a job, ask for the pending number, wait for one step, the worker loop | AOF (fsync), lazy freeing | lost wake-ups; a job is executed outside the lock | each job runs once and in order; counter 0 means all work is done |
| cluster: election (`cluster.c`) | epochs and votes in memory and in nodes.conf, attempt of each replica | schedule, request, vote, count, promote, save, crash | failure detection, slot configuration | votes against crashes, delayed ACKs, retries | one winner per epoch |
| cluster: slot configuration | each node's table of owners, roles, epochs | PING/PONG, UPDATE, takeover, collision | election | stale packets, partitions, equal epochs | tables move forward only and converge |
| cluster: failure detection | PFAIL/FAIL flags, failure reports | ping, gossip, FAIL packet, clearing | election | reports of different times, lost packets | FAIL only by a recent majority; all learn it; it goes away |
| replication: PSYNC (`replication.c`) | two replication IDs, offset, backlog, cached master | PSYNC, role changes, load, restart | full sync, RDB | IDs and offsets that no longer describe the data | continuing a stream never mixes two histories |
| replication: full sync on the master | replica states and buffers, RDB child, pipe, dump.rdb | SYNC, fork, pipe handlers, cron, free | RDB, AOF child, clients | children shared, killed or replaced; clients freed meanwhile | a replica gets a snapshot and exactly the writes after it |
| append only file (`aof.c`) | aof_buf, file, fsync offset, rewrite child, diff blocks, pipe | feed, flush, fsync, rewrite, switch, load | bio, server loop, RDB child | crash, short writes, postponed flushes, rewrite | the file is the history; an acknowledged command survives |
| Sentinel (`sentinel.c`) | down flags, epochs and votes, failover state, configuration | timer, vote, hello, INFO, SENTINEL FAILOVER | monitored instances, other Sentinels | votes and epochs that move on, timeouts, restarts | one leader per epoch; an epoch names one master; failovers end |
| cluster: migration of slots | owner, migrating and importing of a slot at each node, the connection of MIGRATE | SETSLOT, MIGRATE, RESTORE, ASK/MOVED, gossip; redis-cli as mover | clients, slot configuration | both ends, the mover and gossip change the slot independently; half a MIGRATE | a command sees the last write; no key is lost; the move is final |
| hash table (`dict.c`) | two tables, rehash index, iterators | add, delete, find, rehash step, scan, iterate, resize | everything | a cursor or iterator over tables that change | it is a set; a scan returns what was there all the time |
| clients, I/O threads (`networking.c`) | buffers, flags, pending reads and writes, close list, lists and mutexes of the threads | read, parse, execute, write, free, start and stop threads | event loop | threads, and clients freed by others | a freed client is touched by nobody; every command is answered |
| blocked clients (`blocked.c`) | blocked keys, ready keys | block, signal, serve, time out | data types, transactions | serving makes other keys ready | first come, first served; none is forgotten |
| MULTI/WATCH (`multi.c`) | watched keys, dirty flags, queue | WATCH, EXEC, touch | database, expiry | changes that are not commands | EXEC runs only if no watched key changed |
| expiry (`expire.c`, `db.c`) | expires | lazy, active | replication | replicas must not decide | replica = master |
| client side caching (`tracking.c`) | tracking table, keys to broadcast | remember, invalidate, evict, flush | clients | the table is bounded, modes are switched | a copy is current or its invalidation is on its way |
| Pub/Sub, streams, ACL | tables with two directions | subscribe, invalidate, claim | clients | both directions must agree | no dangling or missing entry |

The remaining components (data types, encodings, Lua, modules, TLS, tools, support code) are in
`PROJECT.json` with the reason why they are left out; section 9 summarises it.

## 2. Plan

The order is by what a failure costs (lost data, two masters) and how far it is out of the reach of
unit tests.

1. `Bio`: smallest shared-memory component; its service is used by the AOF. *Done, proved.*
2. `ClusterElection`, `ClusterConfig`, `ClusterFailDetect`: the three protocols of the cluster bus.
   *Done; the first two proved.*
3. `Psync`, `FullSync`: replication, from the point of view of the stream and of the master's
   callbacks. *Done; the first proved.*
4. `Aof`. *Done, proved.*
5. `Sentinel`. *Done, apart from what section 9 lists; proved.*
6. `Dict` with `KeySet`, the set it implements: rehashing, iterators, `dictScan`. *Done; all but the scans proved.*
7. `Keyspace` with `Tracking`: blocked clients, transactions, expiry, client side caching and what is
   sent to the replicas, composed in one module because each of them reacts to the changes of the others. *Done.*
8. `ClusterMigration`: SETSLOT, MIGRATE, redirections, gossip and the mover of redis-cli. *Done, apart from what
   section 9 lists.*
9. `IOThreads`: clients, event loop and I/O threads. *Done, apart from what section 9 lists; proved.*
10. Proofs about `FullSync` and `ClusterFailDetect`. *Done.* Proofs about `ClusterMigration`: open, see section 7.
11. Manual failover on top of the election; min-replicas-to-write; the two-way tables of Pub/Sub and of
    streams; eviction; the PSYNC of 3.0.7.

Compositions: `Aof` uses the promise of `Bio` (fsync jobs run in order, the counter is zero only when
they are done) as its list of jobs; `ClusterElection` starts where `ClusterFailDetect` ends (`Failed`),
and its winners are the promotions of `ClusterConfig`; `ClusterMigration` has the slot configuration rules of
`ClusterConfig` for one slot, together with commands and keys; `Keyspace` extends `Tracking`. An abstract
specification is stated for the hash table (`KeySet`, the property `ImplementsSet` of `Dict`). The
theorem left to add is about `ClusterMigration`, under hypotheses that name what section 8 found to be necessary.

## 3. The modules

One action is one callback, one critical section or one packet handler, named after the function it
models where it models one. Mutants (wrong versions of a definition, named in a comment or in the
head of their module) stand before the definition they alter and are used by no action; they are what each property is
tried against.

**Bio** (`bio.c`). Main thread and one worker per type, each with a program counter; lock, wait, signal
and unlock of the source are separate steps. `jobs`, `pending` and `mutex` are the C variables;
`created` and `processed` are history. Waiting on a condition is a program counter that a signal moves
to "woken"; spurious wake-ups are covered by the loop that tests again.

**ClusterElection** (`cluster.c`: clusterHandleSlaveFailover, clusterRequestFailoverAuth,
clusterSendFailoverAuthIfNeeded, FAILOVER_AUTH_ACK, clusterBeforeSleep, clusterSaveConfig,
clusterWriteHandler, loading of nodes.conf). For a voter, voting, saving with fsync and writing the ACK
are three steps and a crash may come between them. Messages are sets: delayed and reordered at will, a
message never read is a lost one. Two constants select the environment: `LateAcks` (may an ACK arrive after
its attempt was given up?) and `QuietLinks` (is an ACK never queued on a link that has been polled
writable in this iteration?). What the harder values bring about is in section 8.

**ClusterConfig** (`cluster.c`: header processing, clusterUpdateSlotsConfigWith,
clusterHandleConfigEpochCollision, UPDATE packets, takeover, promotion). `view[n]` is the table of one
node; a link holds one PING/PONG and one UPDATE, possibly stale; partitions are links that do not work (`links`).
Nodes are numbers ordered like node names, which is what the collision rule compares.

**ClusterFailDetect** (`cluster.c`: clusterCron, gossip section, failure reports, markNodeAsFailingIfNeeded,
clearNodeFailureIfNeeded, FAIL packet), about one suspect. Time is a tick; ages saturate above the limit
they are compared with, so nothing is cut off by a bound on time.

**Psync** (`replication.c`, with the part of `rdb.c` that saves and restores IDs). `srv[n]` holds role, IDs,
offset, backlog, cached master and dataset of an instance; `conn[r]` the connection of a replica with
the answer to PSYNC and the bytes on it. One write is one byte; the dataset is the sequence of the bytes that were executed, so a stream
that is continued wrongly is visible as a dataset that is not what it should be. The handshake
before PSYNC is one step. WAIT is part of it: `cl[c]` is a client with its write and the offset it
remembers (c->woff), `acks[n]` the list of blocked clients and the flag that makes `beforeSleep` put a
REPLCONF GETACK into the stream, where it takes up a byte (recorded in the dataset, too, as the byte it is) without being a write; `conn[r].ack` is the offset a
replica has acknowledged. An ACK is received when it is sent: the master only ever knows an older offset than
the replica has, which an ACK sent earlier gives too. The loop of processClientsWaitingReplicas is stated by its result: `S` are the places
of the list at which it counts acknowledgements and finds enough, and each other client that is served gets the number of the last of them before it
(`LastCounted`); the equation for `S` has one solution, which the loop computes from the front.

**FullSync** (`replication.c`, `rdb.c`, part of `networking.c`, `server.c`). Replica states of
`server.slaves`, the RDB child with a disk or socket target, the pipe and its handlers, dump.rdb,
RDBGeneratedByReplication, and what interferes: writes, FLUSHALL, SAVE, BGSAVE, an AOF or module
child, CONFIG SET repl-diskless-sync, lost connections, asynchronous closing, the removal of the file.
Snapshots and buffers are sequences of positions in the log.

**Aof** (`aof.c`, with the calls in `server.c` that flush, rewrite and collect). A command is two bytes, so
that a short write can leave half of one. The file has contents and a synced prefix: a crash of the
process keeps the contents, a power failure may cut it at any place after that prefix. The handler that installs
the rewritten file is two steps (rename, then the switch of descriptors), and a crash may come between them.

**Sentinel** (`sentinel.c`), for one monitored master. `sentinelTimer` is one action: the down checks, the
failover state machine and the questions to other Sentinels in the order of the code. Time is
nondeterminism: an instance may be found down or up by any run of the timer, and a timeout has
passed or not; what the code's constants guarantee is kept (an attempt lasts at most
failover_timeout and the next one waits twice that long). Links are FIFO until they are lost. `hello[s]` is
the last message s published, read any number of times. An INFO reply is read when it is taken.
Any reachable replica may be selected, as priorities and offsets are data. A SLAVEOF
command is on its way until the instance executes it, which may be after the failover was aborted.

**Dict** (`dict.c`, with databasesCron, tryResizeHashTables and updateDictResizePolicy of `server.c`). `d` is the
dictionary: two tables of buckets, the rehash index and the count of safe iterators. Every call is one action that
ends as the code does, the rehash step most calls begin with included. A scan is a client that comes back
with its cursor, and in between anything happens; an iterator is opened, advanced and closed, and keys are added,
found and deleted between its steps. `scan.missing` and `iter.missing` are the keys that were there all the time and have not been
returned yet. How far a rehash step goes is the number of empty buckets it may pass and whether it meets one that is not empty: `Visited(e, n)`
is the set of buckets from the rehash index on that have been passed, counted with `Cardinality`, which needs no recursion. **KeySet** is the abstract specification: a set with the answers of each call; `ImplementsSet` maps its
`keys` to the union of both tables.

**Keyspace** (`db.c`, `expire.c`, `t_list.c`, `blocked.c`, `multi.c`, `server.c`) and **Tracking** (`tracking.c`). The server
runs a command to its end, so an action is a whole command with handleClientsBlockedOnKeys after it; each
function of the code is an operator from states to states. Lists, strings and times to live; BLPOP, BRPOPLPUSH, pushes,
SET, DEL, RENAME, EXPIRE, FLUSHALL, SWAPDB; MULTI, EXEC, DISCARD, WATCH; CLIENT TRACKING in its default and BCAST
modes, with NOLOOP. What is propagated is executed at once by a replica (`s.rep`), which queues what comes between MULTI
and EXEC. Elements are numbers no two writes share, so that loss and duplication are visible.

**ClusterMigration** (`cluster.c`: getNodeByQuery, clusterRedirectBlockedClientIfNeeded, SETSLOT, MIGRATE, RESTORE, gossip about
the slot; `redis-cli.c`: clusterManagerMoveSlot). One slot, its keys at each node, and the node's view of owner,
migrating and importing. A client sends a command to the node it believes in and follows MOVED and ASK. MIGRATE blocks its node only: the
RESTOREs on the connection, the replies and a socket error are steps of their own, and a RESTORE on a connection that was given up
may still be executed (`late`). `last` is the value of the last write that was answered; `wrong` collects the keys of which a
command saw another one.

**IOThreads** (`networking.c`, with the calls in `ae.c` and `server.c`). The main thread has a program counter and a stack of return
points, because stopping the threads handles pending reads in the middle of the cron or of the writes. A query buffer is a number of
commands, an output buffer a number of replies; what a command does (answer, send to another client, overflow that client's buffer, kill it,
quit) is chosen when it is executed. The threads spin, lock, unlock and serve one client a step. A
queue from which some clients are taken is described by ranks (`Nth`, `Pick`) instead of by a recursion along it. The
order of the readable and the writable handler of a descriptor is left open.

**Scenarios.** Where one question has to be asked in several settings (a partition or a dead master, two or
three instances, one fsync policy or the other, two hash functions), the settings are records, the module takes a set of them
as a constant (`Limits`, `Worlds`, `Networks`, `Bounds`, `Environments`), and `Init` chooses one and keeps it in a
variable, together with what is left of the bounds it sets. The `MC` module of a specification names its
settings, so that one run covers all of them; a `.cfg` picks the set. `ClusterElectionProofs`,
`ClusterConfigProofs`, `AofProofs`, `SentinelProofs`, `DictProofs`, `IOThreadsProofs`, `PsyncProofs` and `FullSyncProofs` hold inductive invariants, lemmas and theorems only.

## 4. Runs

Passing runs. "States" are distinct states of TLC, rounded.

| run | module, configuration | states | what it shows |
|---|---|---|---|
| `bio` | `Bio`, `Bio.cfg` | 4 900 | Over every interleaving of the lock, wait and signal of two workers and the main thread, jobs run once and in order (`ProcessedInOrder`), a counter of 0 means the work is done (`PendingZeroMeansDone`), and no wakeup is lost (`NoWakeupLost`: every job runs and a waiter is woken). All invariants and the supporting ones (`BioTypeOK`, `MutexInv`, `QueueInv`) are proved. |
| `cluster_election` | `MCClusterElection`, `ClusterElection.cfg` | 1 310 000 | On quiet links a master votes once per epoch, crashes included (`OneVotePerEpoch`); if no ACK outlives its attempt an epoch has one winner (`ElectionSafety`). That no ACK leaves before the vote is on disk (`AckImpliesPersisted`) is part of the theorem about votes. |
| `cluster_config` | `MCClusterConfig`, `ClusterConfig.cfg` | 40 000 | A step moves a slot only to a greater epoch and never leaves it with a replica, as an assertion of the code demands (`SlotsMoveForward`), no epoch is ahead of currentEpoch (`EpochDominates`); all nodes that can speak come to agree, also across a partition with a third node, and epochs become distinct (`Settles`: `Converges` and `EpochsBecomeUnique`). |
| `cluster_fail` | `MCClusterFailDetect`, `ClusterFailDetect.cfg` | 767 000 | FAIL is set only on a majority of masters that was recent (`MarkNeedsRecentMajority`), a dead node is FAIL for everybody in the end although FAIL packets are lost (`FailSpreads`), and one that is back for nobody (`FailClears`). |
| `psync` | `MCPsync`, `Psync.cfg` | 827 000 | `ReplicationSound`: a partial resynchronisation never joins two histories, over role swaps, freed backlogs, restarts from RDB files of any age, chains and rings (`StreamConsistent`); the backlog is the end of the stream (`BacklogIsTail`), within its size (`TypeOK`), and is there when a replica is attached (`SlavesNeedBacklog`); WAIT never reports more copies of a write than there are, also after its instance changed roles and when it reuses another waiter's number (`WaitCountsCopies`), and only masters have blocked clients (`WaitersAtMasters`). When commands and failures stop every replica has its master's dataset and no WAIT goes on that the attached replicas could answer (`ReplicasCatchUp`). |
| `fullsync` | `MCFullSync`, `FullSync.cfg` | 357 000 | `SyncIsExact`: each replica gets a snapshot and exactly the writes since it, from disk, from a file that may be removed and from the pipe (`SnapshotPlusDiff`), the offset it was told fits them (`OffsetMatchesBuffer`), no replica waits for a child there is not (`WaitersHaveChild`). Every synchronisation ends (`SyncEnds`). |
| `aof` | `MCAof`, `Aof.cfg` | 308 000 | `HistoryKept`: file and buffer are the whole history over rewrites, short writes, crashes and `CONFIG SET appendonly` (`FileIsHistory`), and so are the child's file, the pipe and the blocks (`RewriteIsHistory`); the size a short write is truncated to is the file's (`SizeIsLength`). Under `always` what was acknowledged is synced (`AckedIsSynced`). `DurableInTheEnd`: the buffer is synced in the end (`EventuallySynced`) and an AOF turned on gets its rewrite (`EventuallyOn`). |
| `sentinel` | `MCSentinel`, `Sentinel.cfg` | 325 000 | `ElectionsHold`: votes of one epoch elect one leader (`VotesElectOne`), votes and epochs survive crashes (`EpochsHold`), and the state machine stays in its states (`TypeOK`). A config epoch names one master (`EpochNamesMaster`, with the exception of section 8) and parallel-syncs is kept (`SyncsBounded`). In the setting `Live`, the only one with fairness, every failover ends and all Sentinels come to advertise one master for good (`FailoversSettle`: `FailoverEnds` and `SentinelsAgree`). |
| `dict` | `MCDict`, `Dict.cfg` | 98 000 | The two tables answer as one set in every state of rehashing (`ImplementsSet`), no key is out of reach (`KeysInReach`: keys are in one place and counters right, and a safe iterator returns each key once), a scan misses no key that stayed and always advances (`ScansSound`), and a rehashing ends although nobody uses the dictionary (`RehashEnds`). |
| `keyspace` | `MCKeyspace`, `Keyspace.cfg` | 408 000 | No client waits for a list that is there (`NoWaiterForgotten`), waiters are served in order (`ServedInOrder`), no element is lost or doubled (`ElementsConserved`), the replicas get the same data (`ReplicaAgrees`), EXEC notices every change of a watched key (`WatchSound`) and cached copies are current or being invalidated (`CacheFresh`). |
| `migration` | `MCClusterMigration`, `ClusterMigration.cfg` | 125 000 | While a slot moves, a command sees the last write wherever it is executed (`ServedFresh`), no key is lost to a socket error or an old claim (`NothingLost`), one node answers for a key (`OneAuthority`), redirections end and waiting clients follow (`ClientsGetThrough`) and the move is final (`MoveIsFinal`). |
| `iothreads` | `MCIOThreads`, `IOThreads.cfg` | 327 000 | `ClientsTracked`: no queue, list or loop refers to a freed client (`NoDangling`), flags agree with queues as the assertions of the code demand (`FlagsMatch`), and no reply is stranded (`ReplyScheduled`). A client has one thread at a time and the main thread executes commands only while the others are idle (`OneThreadPerClient`); every command is answered or its client freed (`Answered`). |

A property that is a conjunction is listed with the names of its parts, each of which is defined and explained in the module.
Each property has a mutant in `PROJECT.json`: a plausible mistake in one mapped
definition (a dropped guard, a missing reset, a swapped order) that makes that property fail under the same
configuration.

## 5. Bounds

Bounds limit how often the environment does something, never what a handler does when it is called. They
are constants named `Max...` or fields of a setting that count down.

* Bio: two types and `MaxJobs` 2. The third job type differs in nothing; two jobs of a type are what it
  takes to have one being processed and one in the list.
* Election: three masters (one failed) and two replicas of the failed one: a majority of two
  means one common voter. `mcRetryOrCrash` allows two epochs, which is what a retry needs, or one epoch with
  two crashes, as persistence is about voting twice in the same epoch. Voters and replicas are symmetric.
* Config: three nodes, so that there is a third one to send UPDATE. `Partition`: a replica is promoted while
  it cannot talk to its old master; `DeadMaster`: both replicas of a node that cannot speak may be promoted and
  collide, and one of them has the greatest configEpoch, which a takeover keeps; `Fresh`: a new cluster. `MaxEpoch` 6 is not reached with two promotions and their collisions.
* Failure detection: two voting masters and a replica with a cluster size of three, quorum two; the
  timeouts keep the ratios of the code (validity and undo time are twice the node timeout). Two flips
  of reachability give down, and up again. Either everybody hears everybody, or only the replica hears the masters
  and one of these channels loses gossip; `FailSpreads` is about the first network.
* Psync: a backlog of one byte makes the distinction between "inside" and "outside" at every write. `Swap`: four role
  changes, two writes, a lost link and a freed backlog; `Reboot`: a restart in between; `Chain`: three instances
  form and leave chains and a cycle of two, with four role changes, and `Ring`: a cycle of three. `WaitSwap`: a client writes, its
  instance is demoted, promoted and followed again, and it WAITs at any time; `WaitDrop`: a lost link and a restart in
  between; `WaitStar`: two clients WAIT for one or two of two replicas, so that one number serves both.
* FullSync: two replicas (the second shares, misses or waits for the child of the first) and three SYNCs, so that
  one comes back; `Diskless` has two pipe chunks, so that one can be in flight while another is unread;
  `DelFile` is an instance without persistence that removes dump.rdb.
* Aof: `Always` with three commands (before the fork, during the rewrite, after the switch), `Everysec` with
  two, both with one I/O error, two rewrites and one crash; `Toggle` turns the AOF off and on up to three times.
* Sentinel: `Elections` have three Sentinels (a majority is two), a lost link and a repeated request, or a crash and a lost
  link; `Configs` two, two epochs and a forced failover, with two published configurations or a crash; `Reconf` and `Syncs` one Sentinel that reconfigures its replicas, with every fault
  once, and with parallel-syncs 2. `ask` and `hello` bound retransmissions, `MaxPending` the requests on a link.

* Dict: the thresholds are constants, so that tables of 2, 4 and 8 buckets do what larger ones do in the code:
  InitialSize 2 (4 in the code), ForceRatio 1 (5), MinFill 30 percent (10), EmptyVisits 2 and CronSteps 2 (10 and 100), and
  cursors of 3 bits (64). `Scanned` has three keys and a child process that holds back resizing; `Iterated` four keys that
  share buckets at every size.
* Keyspace: three clients and two keys; three or four elements written; transactions of one to three commands; a tracking table of
  one key, so that the second one evicts it. `Blocking`, `WrongType` and `Swapping` are about waiters, `Watching` about
  transactions, `Caching` about tracking. The worlds keep SWAPDB apart from WATCH and tracking, see section 8.
* ClusterMigration: two ends and a bystander, two keys. `Busy`: two clients with all commands and no faults; `Faulty`: one socket error at any point of
  a MIGRATE of two keys, one repeated move, one write; `Gossip`: old claims of both ends; `Collision`: the bystander takes a new
  epoch, as the target does. `MaxEpoch` 7 is not reached. More faults than these break the move, see section 8.
* IOThreads: two clients and one thread besides the main one; threads are used from two pending writes on (`PerThread` 1, the code has 2), so that
  they are started and stopped; three commands, one full socket and one kill or overflow, which is what it takes to start the threads, have both
  clients in the queue of pending reads, and let one free the other. Either client may disconnect at any time.

Deadlock is checked in Bio, ClusterConfig, ClusterFailDetect, FullSync, Aof, Dict and IOThreads. In the other runs the
system does stop: messages are all read, all clients are blocked, or the bounds of the environment are used up.

## 6. Fairness

Only liveness runs assume fairness, and only of what the program itself schedules; writes, commands,
failures and crashes are never fair.

* Bio (`FairSpec`): weak fairness of every step of a thread that runs; strong fairness where a thread
  acquires a mutex (`WorkerLock`, `WorkerDone`, `StepReturn`), because another thread may take it in between
  for ever under weak fairness. pthread mutexes on Linux do not starve a waiter in
  practice, and POSIX leaves this to the scheduler, so it is an assumption about the platform.
* ClusterConfig: weak fairness of sending and reading on every working link: clusterCron pings
  every node at least every half node timeout.
* ClusterFailDetect: weak fairness of the tick, the cron, and the reading of PONG, gossip and FAIL
  packets. Loss of a FAIL packet stays possible at any time.
* Psync: weak fairness of the next protocol step of each replica (`Progress`): replicationCron retries
  every second and readable sockets are handled. The same weak fairness holds for `beforeSleep`, which every turn of the
  event loop calls; no WAIT need time out.
* FullSync: weak fairness of the child, the pipe handlers, the crons and each replica's step.
  `SyncEnds` is about settings without `promptExit`: a killed child is collected by a later tick; the
  other case is in section 8.
* Aof: weak fairness of beforeSleep, the cron, time, the fsync thread, the child and the handlers of
  its pipes.
* Sentinel, in the setting `Live` (its field `fair`): weak fairness of the timer with its timeouts elapsed and the promoted replica reachable, of
  publishing and of processing hello messages.

* Dict: strong fairness of the cron and of the end of a child, which commands that iterate hold up but cannot prevent; weak fairness of an
  iterator's steps.
* ClusterMigration: weak fairness of the mover and of what it waits for, of each client's next step (clientsCron included, which looks
  at blocked clients) and of each working link. Socket errors and commands are not fair.
* IOThreads: weak fairness of each thread; strong fairness of the main thread's steps, needed at one of them, the mutex
  of a thread that locks and unlocks it in turn.

## 7. Proofs

TLAPS (SMT, Zenon and LS4 backends). Every theorem holds for arbitrary values of the constants
under the `ASSUME` of the module; bounds and settings are arbitrary too.

* **JobsInOrder**, **BioSafety** (`AofProofs`, which extends `Bio` too): `BioSpec => [](MutexInv /\ ProcessedInOrder)` and `BioSpec => []PendingZeroMeansDone`. The inductive
  invariant (`BioTypeOK`, `MutexInv`, `QueueInv`, `ProcessedInOrder`) ties the counter to the list and the program counter
  (`QueueInv`: the list is exactly the created jobs that were not removed, in order, the first of them
  already in `processed` when the worker is between execution and its second lock). It is needed because the
  counter goes down only after the second lock: `PendingZeroMeansDone` by itself says nothing about the
  state in which a job is done and still counted. One lemma per action that touches the list, one
  frame lemma for the rest.
* **TypeCorrect**, **VoteSafety** (`ClusterElectionProofs`): with `QuietLinks`, a master votes once per epoch
  and no ACK leaves it before the vote is on disk, with any number of crashes. The strengthening
  (`VoteIInv`) says what is in memory but not on disk is covered by `todoSave` (`MemoryInv`), and what a queued ACK
  promises is at most the last vote (`QueuedInv`).
* **ElectionSafe**: if moreover `~LateAcks`, an epoch has at most one winner. `ElectionIInv` adds: an ACK in
  flight was granted (`FlightInv`), a request's epoch is one its sender has asked for (`RequestInv`),
  the votes counted are distinct masters that granted exactly this epoch (`CountInv`), and each win has a
  majority behind it (`WinInv`). `MajoritiesMeet` gives the common voter, `OneVotePerEpoch` the
  contradiction. The second hypothesis is necessary: TLC violates the result without it (section 8).
* **EpochSafety** (`ClusterConfigProofs`): a node's currentEpoch dominates every configEpoch in its table or in
  its packets, for any cluster, topology and initial table. Lemmas show that each part of
  packet processing keeps a view "good"; the invariant also covers packets on links, as a view learns from
  stale ones.
* **SlotsForward** (`ClusterConfigProofs`): `Spec => SlotsMoveForward`, an action property. A packet moves a slot forward because it is rebound only
  to a greater configEpoch, which the claimant's entry then has. A takeover is harder: CLUSTER FAILOVER TAKEOVER keeps the replica's own
  configEpoch if that is the greatest it knows, and its slots would go to an equal one if its master had the same. So `RolesInv` says
  what a replica in this position (`Poised`) can rely on: in every table and every packet, nobody else has its configEpoch, follows it, or names it as owner
  of a slot (`Alone`). Nobody gets into this position later: a master that loses its last slots has a smaller
  configEpoch than the claim that took them, and a promoted node is no replica. That it is so at the start is `RolesAssumption`, which
  TLC evaluates for the settings of the run; in `DeadMaster` one replica is in this position.
* **MajoritySuspects** (`ClusterConfigProofs`, which extends `ClusterFailDetect` too): `DetectSpec => MarkNeedsRecentMajority`, an action property: whoever
  marks a node FAIL does so with a majority of masters that suspected it recently, for any cluster and any delay of messages. The flags of the reporters are
  not shared state, so `DetectInv` follows a suspicion on its way: a PFAIL flag, a gossip entry in a packet and a report in the list of a
  receiver each have a suspicion behind them that is as old; a report is at most `MaxDelay` younger than what it reports; and nobody
  reports to itself, so that the node's own opinion is counted once.
* **HistorySafe**, **CrashSafe**, **AckedSafe** (`AofProofs`): for any policy and any number of commands, errors, rewrites, toggles and
  crashes, `HistoryKept` holds (file and buffer are the whole history, and so is what a rewrite is building) and a crash leaves a file that
  loads (`CrashLoadable`). `HistoryKept` is not inductive: the handler that installs the new file relies on the child having read all it was sent. `ChildInv` says so (and
  that nothing is kept for a child there is not), `FileInv` bounds the synced prefix and `OffInv` says what is left over while appendonly is off. `AckedSafe` is `Spec => [](Strict => AckedIsSynced)`:
  `Strict` says that the policy is `always`, `no-appendfsync-on-rewrite` is off and there is no crash inside the handler that installs the rewritten
  file. Each is necessary: with the second on, the code skips the fsync on purpose, and what a power failure does between rename
  and fsync is in section 8. `SyncInv` adds what is
  needed for induction: when the buffer is empty, the replies that wait to be sent are of synced commands too.
* **ElectionsSafe**, **ConfigSafe**, **SyncsSafe** (`SentinelProofs`): `Spec => []ElectionsHold`, `[]EpochNamesMaster`, `[]SyncsBounded`, for
  any finite sets of Sentinels and instances. `MemoryInv` says that the epoch of the last vote is in the file before anybody can be told of it (`Saved`), and
  that failover state, epochs, flags and promoted replica fit each other (`Sound`, from which `SyncsBounded` follows). `VoteInv`: if anybody
  remembers or is being told of a vote of t for c in an epoch, then t cannot vote in it again, and nobody
  knows of another vote (`Bound`). So a leader by votes has a majority that is bound to it (`LeaderInv`), and two majorities meet. `ConfigInv`: every
  configuration of an epoch other than 0 comes from a failover its leader was recorded for (`FromLeader`), and there is one address for an
  epoch (`OneConfig`). `EpochNamesMaster` has the hypotheses `Unique(led)` (no epoch with two leaders, which votes guarantee and forced or mixed elections do
  not) and `~kept`; both are in the property that the run checks, and section 8 says why.
* **TablesSafe**, **DictIsSet**, **EveryKeyDrawn**, **IterationsExact** (`DictProofs`): `Spec => []TablesConsistent`, `Spec => ImplementsSet`,
  `Spec => [](Candidates(d) = Keys)` and `Spec => KeysInReach`, for any keys, hashes and thresholds. The invariant (`WellFormed`) says that every key is in the bucket of its hash, in one
  table, `used` counts them, the buckets before the rehash index are empty, and there is a second table exactly while rehashing. The
  lemmas about `Visited` show that what a rehash step passes is an interval of buckets, all of which it leaves empty. The refinement is a step simulation: calls are the steps of `KeySet`, and resizing, iterating, scanning and
  rehashing are stuttering. For safe iterators `IterInv` adds that what is left of the chain is still in the iterator's bucket, that every key not returned yet is in this chain or in a
  bucket still to come, in the order of tables and buckets (`Later`), and that no key already returned is. A rehashing that a call starts in the middle of an iteration only adds an empty second table behind everything else, and no bucket moves while an iterator is
  counted, so the calls leave the other keys where they are (`Same`), and the key deleted is the one returned last, which is not in the chain any more.
* **NoClientLost**, **ThreadsExclusive** (`IOThreadsProofs`): `Spec => []ClientsTracked` and `Spec => []OneThreadPerClient`, for any number of
  clients, threads and commands. Flags and queues agree in one of two modes (`Sound`): when the threads write, the flags of the pending writes are
  cleared while the queue is still needed, so that the agreement `FlagsMatch` states is suspended until the main thread is done. Each operation on the state (free,
  free asynchronously, unlink, reply, execute) keeps it in both. `ControlInv` says which return points may be on the stack and which client is being
  executed; `ListInv` that the lists of the threads are empty, or share out clients of the queue so that none is in two of them; `WorkInv` that a thread
  works only between being given work and setting its counter to 0. The lemmas about `Pick` and ranks replace an induction over the queues.
* **ReplicationSafe** (`PsyncProofs`): `Spec => []ReplicationSound`, for any instances, clients, size of the backlog and schedule of writes, role
  changes, lost links, failed loads, freed backlogs, saved files and restarts. `StreamConsistent` speaks of a replica and its master, but whether it holds after the
  next PSYNC depends on instances, files and connections that have nothing to do with each other now and share an ID from the past. The invariant is therefore
  about *points*: an ID, an offset and the dataset that the history of this ID has there. An instance claims one for its ID if a file saved now would carry it, one for its second ID if it has a backlog,
  its RDB file claims one, and so does each connection, for what the replica will have when it has read everything (`Claims`). `Good` says that any two points with one ID lie on one history (`Agree`: one is
  a prefix of the other, and their offsets differ by as much as their lengths); that an attached replica ends where its master is (`Attached`); that nobody
  is ahead of a master on the history it extends, and no two masters extend one (`Leads`); and that an ID under which writes went uncounted is known to nobody else (`Secret`), which is what
  changing the ID with the backlog is for. The offset test of PSYNC then finds a point below the master's own, and the bytes of the backlog are those that are missing (`Overlap`, `Missing`).
  A step of one instance keeps the agreement if what it claims afterwards is below what was claimed before, or under an ID nobody had (`Evolves`, one lemma per action), and a write moves the
  master and the ends of all connections it feeds by the same byte (`MasterFeed`).
  For WAIT, `Whole` says that whoever has the write of a client has it at the remembered offset or before. So an acknowledgement of that offset is one of the write (`AckedHas`), also for a client
  that gets the number of another one, whose offset is higher (`NumberCounts`).
* **SyncExact** (`FullSyncProofs`): `Spec /\ NoStaleCopy => []SyncIsExact`: a replica that is online has, or will have when it has read what is
  buffered and sent to it, the dataset its master has, for any number of replicas, children, commands, errors and disconnects. `NoStaleCopy` says
  that if clients are closed asynchronously, then all children are diskless and all replicas understand EOF; it is necessary
  because of `replication.c:802`, where a closing replica's output buffer may be copied (section 8). `SyncInv` says that a client is idle, waits for
  a child that runs or is to be started, or is fed; that what a file or the pipe contains is the dataset of an offset of the log
  (`Exact`: what the first commands up to it leave, unless a FLUSHALL follows, after which it does not matter); that the buffer is exactly the span of the
  log from this offset on; and that what a replica got through the pipe is what the child wrote and the parent
  read (`Streamed`). The dataset after some commands is given in closed form (`ApplyAll`: the commands after the last FLUSHALL), as a fold along the log could not be
  reasoned about; `ApplyAllNone` and `ApplyAllOne` prove that it is what executing the commands one by one gives. `LeastNat`, from
  the well-foundedness of the natural numbers, gives the last FLUSHALL.

Only model-checked:

* all liveness properties: fairness and ENABLED are beyond the prover;
* the other action properties, among them `ScansSound` of Dict: that a
  reverse binary cursor misses nothing is an argument by induction over the bits of the cursor;
* Keyspace, which serves clients until nobody is left to serve, by recursive operators, which are out of the prover's reach;
* ClusterMigration. The invariants of ClusterMigration hold in the settings
  of its run and not in all (section 8), so a theorem would have to assume what makes them so.

The proof modules use no recursive operators; sequences are described by their
indices instead of by induction.

## 8. Disagreements with the source's own statements

The models show these by other values of their constants, by a setting that the runs leave out, or in the form a property
has; where a property excludes one, it says so.

* *A late ACK counts in the next attempt.* When an attempt is given up, `failover_auth_count` is zeroed (cluster.c:3158), but
  `failover_auth_epoch` keeps the old epoch until the next request is sent, and sending it (cluster.c:3219) does not
  zero the count. An ACK of the old epoch that arrives in between passes the epoch test and is counted for the new
  one. With `LateAcks = TRUE` and two epochs TLC finds two winners of an epoch; the run and the proof of
  `ElectionSafety` assume `LateAcks = FALSE`.
* *A replica joins one that is on its way out.* `syncCommand` attaches a replica to the child of the first one in
  WAIT_BGSAVE_END (replication.c:802), also if that one is flagged CLIENT_CLOSE_ASAP and gets no more data: what is
  written before it is freed is missing in the copied buffer. `SnapshotPlusDiff` fails in a setting with a disk child,
  asynchronous closing and three writes.
* *Votes of two epochs are added up.* `sentinelGetLeader` counts the others' votes for `current_epoch` and its own for
  `failover_epoch` (sentinel.c:3925, 3952); once the former has moved on, they make a majority that no epoch has,
  against the comment at sentinel.c:3903. `led` marks such an election "mixed", and `VotesElectOne` leaves it out.
* *The write barrier* (cluster.c:2345) orders the handlers of one connection, while the request comes in on one link
  and the ACK goes out on another. With `QuietLinks = FALSE` an ACK may leave before the vote is saved, and
  `AckImpliesPersisted` fails.
* *A pipe that nobody reads*: when the last replica of a diskless transfer is freed and its child has already
  exited (`promptExit`), the cleanup opens the pipe of the next child, and the caller then deletes that pipe's read handler
  (replication.c:1206). `SyncEnds` is restricted to settings without it.
* *A power failure between rename and fsync* of a rewritten AOF (aof.c:1787 to 1809) loses commands that were synced
  in the old file; `crashInHandler` is off in `Always` for this reason.
* *A postponed flush*: under `everysec` a reply may be sent before its command is written (aof.c:367), which is why
  `AckedIsSynced` is about `always`. After a restart, loaded data that was not synced is synced by the next
  write only; `EventuallySynced` is about what is in the buffer.
* *A newer configuration during an own failover* (sentinel.c:2550): one that names the old address raises
  `config_epoch` and leaves the failover alone, so that one epoch is advertised with two addresses. `kept`
  records it, and `EpochNamesMaster` and `SentinelsAgree` exclude it.
* *A slow replica keeps its slot* (sentinel.c:4375): with parallel-syncs 1 the pass that would time it out does
  not begin while it holds the only slot; the failover ends by its own timeout.

* *A write handler without barrier.* With `appendfsync always` a descriptor is not to be read and written in the same iteration
  (comment at networking.c:1465), and handleClientsWithPendingWrites asks for a barrier. handleClientsWithPendingWritesUsingThreads installs the
  handler without it (networking.c:3214), so that a reply can leave before its command is synced. IOThreads leaves the order of handlers open and
  says nothing of the AOF.
* *A list that arrives by overwriting.* SORT ... STORE over a string replaces the value without signalKeyAsReady, and a client blocked on
  that key goes on waiting, although blocked.c:455 says that all keys that received an element are accumulated. SORT is not a command of Keyspace.
* *Who changed a key to broadcast.* The comment at tracking.c:275 speaks of the client that did the last change, but raxTryInsert keeps
  the first one: a BCAST client with NOLOOP that changes a key first never hears of another client's change in the
  same iteration. `CacheFresh` leaves these clients out.
* *SWAPDB* neither touches the keys watched in the two databases nor invalidates the copies of tracking clients.
* *Serving a blocked client changes the key without signalModifiedKey*: a client that in one transaction pushes to a key somebody waits for and
  reads it keeps a stale copy.
* *After a socket error MIGRATE is not sure that nothing was processed* (comment at cluster.c:5439): the target may have executed the
  RESTORE whose reply was not read. With one such error and DEL, or a read of several keys, a client sent to the target can see the stale copy; with two
  errors and REPLACE, a late RESTORE can overwrite a newer value. The settings have one error and neither of these commands.
* *A new configEpoch of the source during the move*, unknown to the target when it takes its own, lets a late claim of the source win the
  slot back, and the target deletes the keys. In `Collision` it is the bystander that takes an epoch.
* *WAIT at offset 0.* Before its first replica a master does not count its writes, so the client remembers offset 0, and
  a replica that has been sent its file but has acknowledged nothing (`repl_ack_off` 0) passes the test at replication.c:3021: WAIT counts a
  replica that may still be loading, although the comment at replication.c:2986 speaks of replicas that processed the query. `WaitCountsCopies`
  leaves offset 0 out, and writes that the client's own instance has lost since.
* *WAIT after BLPOP.* Only processCommand sets `c->woff` (server.c:3791). A client served while it was blocked still has the offset of the moment
  it blocked, so its WAIT does not wait for the pop, against the comment at replication.c:2992. The clients of Psync do not block on keys.
* *redis-cli -c does not follow ASK*: redis-cli.c:1229 compares the whole reply with "ASK", so neither the redirection nor the ASKING the
  comment announces takes place. The clients of the model are ones that follow both.

Most of them are rare: they need a message delayed beyond the retry time, an epoch that moves in the middle of
an election, or a child that exits at the moment its last replica is freed.

## 9. What is not modelled

* In the modelled components: bioKillThreads (used while crashing); the election delay and rank, which only
  order attempts; data age; choice of gossip entries; the replication handshake before PSYNC and PINGs in the stream; min-replicas-to-write; master timeouts (any connection may be
  lost at any time instead); RDB preambles and their encoding; appendfsync no; Sentinel with several
  masters, discovery of instances and Sentinels, scripts, authentication, SENTINEL SET/RESET/REMOVE; unsafe iterators and sampling of dictionaries; sorted sets, streams and
  modules as things to wait for, eviction, and scripts, in Keyspace; redirected tracking, prefixes, OPTIN and OPTOUT; SETSLOT STABLE,
  reads from replicas, MIGRATE COPY, times to live of moved keys, and the fix, rebalance and create commands of redis-cli; protected and paused clients,
  the nested event loop of processEventsWhileBlocked, replicas among the clients, and timers, in IOThreads.
* Next in the plan: section 2, items 10 and 11.
* Sequential code: values, data type commands, encodings, sorting, bit operations, geo, HyperLogLog,
  configuration text. A model adds little to a unit test; intset upgrades and ziplist cascades, which have
  boundary cases a small model reaches, are planned.
* Byte formats (RDB, RESP), floating point and memory (defragmentation, allocators): out of TLC's reach.
* Foreign code behind an interface: Lua, modules, OpenSSL, linenoise, hiredis, jemalloc.
* `redis-cli` apart from moving a slot, `redis-benchmark`, `redis-check-*`: clients and offline tools.
* `src/redis-3.0.7`: an older release; PSYNC without secondary IDs is planned as a variant of `Psync`.
