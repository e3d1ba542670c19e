------------------------------ MODULE FullSync ------------------------------
(***************************************************************************)
(* The master's side of a full resynchronisation (replication.c, rdb.c):   *)
(* a replica that asks for SYNC waits for an RDB child that saves to disk   *)
(* or streams through a pipe, may share the child of another replica by    *)
(* copying its output buffer, receives the snapshot and then the writes    *)
(* accumulated since the fork.  In between the master executes writes,     *)
(* FLUSHALL, BGSAVE and AOF rewrites, children fail or are killed, and     *)
(* connections break.                                                      *)
(*                                                                         *)
(* log is the replication stream (master_repl_offset = Len(log)); a        *)
(* dataset is the sequence of the writes since the last FLUSHALL.  One     *)
(* action is one callback of the event loop.                               *)
(*                                                                         *)
(* Mutants, each a wrong version of the definition that follows it and used *)
(* by nothing else: NoCopy, PipeNotResumed.                                *)
(***************************************************************************)
EXTENDS Naturals, Sequences, FiniteSets, SequencesExt

CONSTANTS
    Replicas,
    Environments     \* the configurations and budgets to check, see env

ASSUME FullSyncAssumption ==
    Environments \subseteq
      [eof : SUBSET Replicas, modes : {{TRUE}, {FALSE}, {TRUE, FALSE}},
       saveParams : BOOLEAN, delSyncFiles : BOOLEAN, asyncClose : BOOLEAN,
       chunks : Nat \ {0},
       writes : Nat, syncs : Nat, drops : Nat, others : Nat]

VARIABLES
    log,       \* the commands of the replication stream, "set" or "flush"
    slaves,    \* server.slaves, in list order
    rep,       \* the client structure of each replica
    child,     \* the RDB child, none when rdb_child_pid is -1
    pipe,      \* the pipe of a diskless child, none when rdb_pipe_conns is NULL
    file,      \* dump.rdb: a set of at most one snapshot
    gen,       \* RDBGeneratedByReplication
    other,     \* an AOF rewrite or module child is active
    diskless,  \* server.repl_diskless_sync
    env        \* one of Environments:
               \*   eof           the replicas that announced "capa eof"
               \*   modes         values CONFIG SET repl-diskless-sync may give
               \*   saveParams    server.saveparamslen > 0
               \*   delSyncFiles  rdb-del-sync-files, with AOF disabled
               \*   asyncClose    an output buffer may reach its limit, or a
               \*                 +FULLRESYNC may fail
               \*   chunks        reads it takes the master to drain the pipe of an RDB
               \*   writes        bound on the commands in the log
               \*   syncs, drops, others
               \*                 SYNCs, broken connections, other children left

vars == <<log, slaves, rep, child, pipe, file, gen, other, diskless, env>>

(* asap is CLIENT_CLOSE_ASAP.  Two fields are history: missed, a write went   *)
(* by without being added to this output buffer or to the one it is a copy   *)
(* of; deleted, the pipe lost its read handler to its predecessor.            *)
NoClient == [st |-> "none", off |-> 0, buf |-> <<>>, fd |-> {}, got |-> 0,
             ack |-> FALSE, data |-> {}, asap |-> FALSE, missed |-> FALSE]
NoChild == [type |-> "none", snap |-> <<>>, st |-> "none", wrote |-> 0]
NoPipe  == [open |-> FALSE, conns |-> {}, writing |-> {}, reader |-> FALSE, read |-> 0,
            deleted |-> FALSE]

Apply(d, i) == IF log[i] = "flush" THEN <<>> ELSE Append(d, i)

(* What d becomes when the commands b are executed in their order: Apply for  *)
(* each of them, of which only those after the last FLUSHALL leave a trace.   *)
Flushes(b) == {k \in 1..Len(b) : log[b[k]] = "flush"}
ApplyAll(d, b) ==
    IF Flushes(b) = {} THEN d \o b ELSE SubSeq(b, Max(Flushes(b)) + 1, Len(b))
Dataset == ApplyAll(<<>>, [i \in 1..Len(log) |-> i])

hasActiveChildProcess == child.type # "none" \/ other
InState(R, states) == {r \in Replicas : R[r].st \in states}

Init ==
    /\ log = <<>> /\ slaves = <<>> /\ file = {} /\ gen = FALSE /\ other = FALSE
    /\ rep = [r \in Replicas |-> NoClient]
    /\ child = NoChild /\ pipe = NoPipe
    /\ env \in Environments /\ diskless \in env.modes

-----------------------------------------------------------------------------
(* freeClient of the replicas in D, given the client states R: the list of   *)
(* slaves, and the transfer and write handlers of the pipe.  The last write  *)
(* handler to go lets the pipe be read again.                                *)
Freed(R, D) == [r \in Replicas |-> IF r \in D THEN NoClient ELSE R[r]]
Listed(L, D) == SelectSeq(L, LAMBDA r : r \notin D)
PipeNotResumed(D) ==
    [pipe EXCEPT !.conns = @ \ D, !.writing = @ \ D]
PipeWithout(D) ==
    LET out == D \intersect InState(rep, {"end"})
    IN  [pipe EXCEPT !.conns = @ \ out, !.writing = @ \ out,
                     !.reader = @ \/ (pipe.writing # {} /\ pipe.writing \subseteq out)]

(* replicationSetupSlaveForFullResync sends +FULLRESYNC at once.  When that   *)
(* write fails the client is only scheduled to be closed.                    *)
MayClose(S) == IF env.asyncClose THEN SUBSET S ELSE {{}}
SetupSlaveForFullResync(c, offset, failed) ==
    [c EXCEPT !.st = "end", !.off = offset, !.asap = failed]

(* startBgsaveForReplication, for the client states R and the list L that    *)
(* the caller has got to; P is the pipe, and reader says whether the read     *)
(* handler of a new pipe outlives the caller.  A failure drops the replicas   *)
(* that wait.                                                                *)
startBgsaveForReplication(R, L, P, reader) ==
    LET W == InState(R, {"start"})
        sock == diskless /\ W \subseteq env.eof
    IN  \/ /\ ~other /\ ~(sock /\ P.open)
           /\ \E F \in MayClose(W) :
                rep' = [r \in Replicas |->
                          IF r \in W THEN SetupSlaveForFullResync(R[r], Len(log), r \in F)
                          ELSE R[r]]
           /\ slaves' = L
           /\ child' = [type |-> IF sock THEN "socket" ELSE "disk", snap |-> Dataset,
                        st |-> "running", wrote |-> 0]
           /\ pipe' = IF sock THEN [open |-> TRUE, conns |-> W, writing |-> {},
                                    reader |-> reader, read |-> 0, deleted |-> ~reader]
                      ELSE P
        \/ /\ other \/ (sock /\ P.open) \/ env.drops > 0
           /\ rep' = Freed(R, W) /\ slaves' = Listed(L, W)
           /\ child' = NoChild /\ pipe' = P

GeneratedByReplication ==
    gen \/ (env.delSyncFiles /\ child.type # "disk" /\ child'.type = "disk")

(* The full resynchronisation of syncCommand.  The first replica of the list  *)
(* that waits for the end of the current child is the one to share it with.   *)
FirstWaiting(s) ==
    \E i \in DOMAIN slaves :
        /\ slaves[i] = s /\ rep[s].st = "end"
        /\ \A j \in 1..(i - 1) : rep[slaves[j]].st # "end"
CanAttach(r, s) ==
    /\ child.type = "disk" /\ FirstWaiting(s)
    /\ s \in env.eof => r \in env.eof
InitialOffset(s) == rep[s].off
NoCopy(c, s) == c
CopyClientOutputBuffer(c, s) == [c EXCEPT !.buf = rep[s].buf, !.missed = rep[s].missed]

syncCommand(r) ==
    LET new == [NoClient EXCEPT !.st = "start"]
        R == [rep EXCEPT ![r] = new]
        L == Append(slaves, r)
        now == child.type = "none" /\ ~(diskless /\ r \in env.eof) /\ ~other
    IN  /\ rep[r].st = "none" /\ env.syncs > 0
        /\ env' = [env EXCEPT !.syncs = @ - 1]
        /\ \/ /\ \E s \in Replicas, F \in MayClose({r}) :
                   /\ CanAttach(r, s)
                   /\ rep' = [R EXCEPT ![r] = SetupSlaveForFullResync(
                                CopyClientOutputBuffer(new, s), InitialOffset(s), r \in F)]
              /\ slaves' = L
              /\ UNCHANGED <<child, pipe, gen>>
           \/ /\ ~now /\ \A s \in Replicas : ~CanAttach(r, s)
              /\ rep' = R /\ slaves' = L
              /\ UNCHANGED <<child, pipe, gen>>
           \/ /\ now
              /\ startBgsaveForReplication(R, L, pipe, TRUE)
              /\ gen' = GeneratedByReplication
        /\ UNCHANGED <<log, file, other, diskless>>

-----------------------------------------------------------------------------
(* Writes reach the output buffer of every replica past WAIT_BGSAVE_START    *)
(* (replicationFeedSlaves, prepareClientToWrite); one that exceeds its limit  *)
(* is scheduled to be closed and takes no more data.                         *)
Registering == {r \in Replicas : rep[r].st \notin {"none", "start"} /\ ~rep[r].asap}
Closing == {r \in Replicas : rep[r].asap}

replicationFeedSlaves(op) ==
    /\ Len(log) < env.writes
    /\ log' = Append(log, op)
    /\ \E F \in MayClose(Registering) :
         rep' = [r \in Replicas |->
                   IF r \in Registering
                   THEN [rep[r] EXCEPT !.buf = Append(@, Len(log) + 1), !.asap = r \in F]
                   ELSE [rep[r] EXCEPT !.missed = @ \/ r \in Closing]]

Write ==
    /\ replicationFeedSlaves("set")
    /\ UNCHANGED <<slaves, child, pipe, file, gen, other, diskless, env>>

(* SIGUSR1 does nothing to a child that has exited and is not collected yet.  *)
killRDBChild == [child EXCEPT !.st = IF @ = "running" THEN "killed" ELSE @]

(* flushAllDataAndResetRDB kills the child and saves the empty dataset.       *)
FlushAll ==
    /\ replicationFeedSlaves("flush")
    /\ child' = killRDBChild
    /\ file' = IF env.saveParams THEN {<<>>} ELSE file
    /\ UNCHANGED <<slaves, pipe, gen, other, diskless, env>>

(* BGSAVE by a user or a save point: nobody registers differences for it.     *)
Bgsave ==
    /\ ~hasActiveChildProcess
    /\ child' = [type |-> "disk", snap |-> Dataset, st |-> "running", wrote |-> 0]
    /\ UNCHANGED <<log, slaves, rep, pipe, file, gen, other, diskless, env>>

saveCommand ==
    /\ child.type = "none"
    /\ file' = {Dataset}
    /\ UNCHANGED <<log, slaves, rep, child, pipe, gen, other, diskless, env>>

(* An AOF rewrite or a fork of a module excludes an RDB child.                *)
OtherFork ==
    /\ ~hasActiveChildProcess /\ env.others > 0
    /\ other' = TRUE /\ env' = [env EXCEPT !.others = @ - 1]
    /\ UNCHANGED <<log, slaves, rep, child, pipe, file, gen, diskless>>

OtherDone ==
    /\ other /\ other' = FALSE
    /\ UNCHANGED <<log, slaves, rep, child, pipe, file, gen, diskless, env>>

ConfigSetDiskless ==
    /\ diskless' \in env.modes \ {diskless}
    /\ UNCHANGED <<log, slaves, rep, child, pipe, file, gen, other, env>>

-----------------------------------------------------------------------------
(* The child: rdbSave renames a temporary file over dump.rdb; the diskless    *)
(* child fills the pipe and closes it.                                       *)
ChildWrites ==
    /\ child.type = "socket" /\ child.st = "running" /\ child.wrote < env.chunks
    /\ child' = [child EXCEPT !.wrote = @ + 1]
    /\ UNCHANGED <<log, slaves, rep, pipe, file, gen, other, diskless, env>>

ChildEnds ==
    /\ child.st = "running" /\ (child.type = "socket" => child.wrote = env.chunks)
    /\ child' = [child EXCEPT !.st = "ok"]
    /\ file' = IF child.type = "disk" THEN {child.snap} ELSE file
    /\ UNCHANGED <<log, slaves, rep, pipe, gen, other, diskless, env>>

ChildFails ==
    /\ child.st = "running" /\ env.drops > 0
    /\ child' = [child EXCEPT !.st = "err"]
    /\ env' = [env EXCEPT !.drops = @ - 1]
    /\ UNCHANGED <<log, slaves, rep, pipe, file, gen, other, diskless>>

(* updateSlavesWaitingBgsave, for the child C that ended: its replicas open   *)
(* dump.rdb, or are online once they acknowledge the streamed RDB, or are     *)
(* dropped; those that could not share it get the next child.                 *)
Served(c, C) ==
    IF C.type = "socket" THEN [c EXCEPT !.st = "online", !.ack = TRUE]
    ELSE [c EXCEPT !.st = "bulk", !.fd = file]

updateSlavesWaitingBgsave(R0, L0, C, reader) ==
    LET E == InState(R0, {"end"})
        lost == IF C.st = "ok" /\ (C.type = "disk" => file # {}) THEN {} ELSE E
        R == [r \in Replicas |-> IF r \in E \ lost THEN Served(R0[r], C)
                                 ELSE Freed(R0, lost)[r]]
        L == Listed(L0, lost)
    IN  \/ /\ InState(R, {"start"}) # {}
           /\ startBgsaveForReplication(R, L, NoPipe, reader)
        \/ /\ InState(R, {"start"}) = {}
           /\ rep' = R /\ slaves' = L /\ child' = NoChild /\ pipe' = NoPipe

(* checkChildrenDone, from serverCron or at the end of RdbPipeCleanup: not    *)
(* before the pipe is drained.                                               *)
checkChildrenDone ==
    /\ child.type # "none" /\ child.st # "running" /\ ~pipe.open
    /\ updateSlavesWaitingBgsave(rep, slaves, child, TRUE)
    /\ gen' = (gen \/ (env.delSyncFiles /\ child'.type = "disk"))
    /\ UNCHANGED <<log, file, other, diskless, env>>

-----------------------------------------------------------------------------
(* The pipe of a diskless child.  A chunk goes to every replica of the        *)
(* transfer: D of them turn out to be gone, and B would block and get a write  *)
(* handler, in which case the pipe is not read until they are done.           *)
Deliver(R, S) ==
    [r \in Replicas |->
       IF r \in S
       THEN [R[r] EXCEPT !.got = @ + 1,
                         !.data = IF R[r].got + 1 = env.chunks THEN {child.snap} ELSE {}]
       ELSE R[r]]

(* The handler of the pipe is removed while a write handler is set.           *)
ReadsOn(B) == B = {}

CanReadPipe == pipe.open /\ pipe.reader /\ pipe.read < child.wrote

rdbPipeReadHandler ==
    /\ CanReadPipe
    /\ \E D \in SUBSET pipe.conns : \E B \in SUBSET (pipe.conns \ D) :
         /\ D # pipe.conns
         /\ Cardinality(D) <= env.drops
         /\ env' = [env EXCEPT !.drops = @ - Cardinality(D)]
         /\ rep' = Deliver(Freed(rep, D), pipe.conns \ (D \union B))
         /\ slaves' = Listed(slaves, D)
         /\ pipe' = [pipe EXCEPT !.conns = @ \ D, !.writing = B,
                                 !.reader = ReadsOn(B), !.read = @ + 1]
    /\ UNCHANGED <<log, child, file, gen, other, diskless>>

(* rdbPipeReadHandler when no replica is left: the child is killed, and       *)
(* RdbPipeCleanup collects it if it has exited by then (it may have ended     *)
(* before), which may open the next pipe; the read handler that is deleted    *)
(* last is that of the pipe that is open by then.                             *)
LastReplicaGone ==
    LET D == pipe.conns IN
    /\ CanReadPipe
    /\ Cardinality(D) <= env.drops
    /\ env' = [env EXCEPT !.drops = @ - Cardinality(D)]
    /\ \/ /\ rep' = Freed(rep, D) /\ slaves' = Listed(slaves, D)
          /\ child' = killRDBChild
          /\ pipe' = NoPipe /\ gen' = gen
       \/ /\ updateSlavesWaitingBgsave(Freed(rep, D), Listed(slaves, D), killRDBChild, FALSE)
          /\ gen' = GeneratedByReplication
    /\ UNCHANGED <<log, file, other, diskless>>

(* rdbPipeReadHandler when the read fails: its replicas are freed and the     *)
(* child is killed; the pipe stays, to be read until its end.                 *)
PipeReadError ==
    /\ pipe.open /\ pipe.reader /\ env.drops > 0
    /\ env' = [env EXCEPT !.drops = @ - 1]
    /\ rep' = Freed(rep, pipe.conns) /\ slaves' = Listed(slaves, pipe.conns)
    /\ pipe' = [pipe EXCEPT !.conns = {}]
    /\ child' = killRDBChild
    /\ UNCHANGED <<log, file, gen, other, diskless>>

(* rdbPipeReadHandler at the end of the pipe.                                 *)
RdbPipeCleanup ==
    /\ pipe.open /\ pipe.reader /\ pipe.read = child.wrote /\ child.st # "running"
    /\ pipe' = NoPipe
    /\ UNCHANGED <<log, slaves, rep, child, file, gen, other, diskless, env>>

rdbPipeWriteHandler(r) ==
    /\ r \in pipe.writing
    /\ rep' = Deliver(rep, {r})
    /\ pipe' = [pipe EXCEPT !.writing = @ \ {r}, !.reader = (pipe.writing = {r})]
    /\ UNCHANGED <<log, slaves, child, file, gen, other, diskless, env>>

-----------------------------------------------------------------------------
(* Towards one replica: the file that was opened, then its output buffer.     *)
sendBulkToSlave(r) ==
    /\ rep[r].st = "bulk"
    /\ rep' = [rep EXCEPT ![r].st = "online", ![r].data = rep[r].fd, ![r].fd = {}]
    /\ UNCHANGED <<log, slaves, child, pipe, file, gen, other, diskless, env>>

(* The first REPLCONF ACK after a streamed RDB, sent once it is loaded.       *)
replconfAck(r) ==
    /\ rep[r].st = "online" /\ rep[r].ack /\ rep[r].data # {}
    /\ rep' = [rep EXCEPT ![r].ack = FALSE]
    /\ UNCHANGED <<log, slaves, child, pipe, file, gen, other, diskless, env>>

writeToClient(r) ==
    /\ rep[r].st = "online" /\ ~rep[r].ack /\ rep[r].buf # <<>>
    /\ rep' = [rep EXCEPT ![r].data = {Apply(d, Head(rep[r].buf)) : d \in rep[r].data},
                          ![r].buf = Tail(@), ![r].off = @ + 1]
    /\ UNCHANGED <<log, slaves, child, pipe, file, gen, other, diskless, env>>

(* A connection breaks, or an online replica times out.                      *)
DropReplica(r) ==
    /\ rep[r].st # "none" /\ env.drops > 0
    /\ rep' = Freed(rep, {r}) /\ slaves' = Listed(slaves, {r})
    /\ pipe' = PipeWithout({r})
    /\ env' = [env EXCEPT !.drops = @ - 1]
    /\ UNCHANGED <<log, child, file, gen, other, diskless>>

(* freeClientsInAsyncFreeQueue, once per iteration of the event loop.         *)
beforeSleep ==
    LET D == Closing IN
    /\ D # {}
    /\ rep' = Freed(rep, D) /\ slaves' = Listed(slaves, D) /\ pipe' = PipeWithout(D)
    /\ UNCHANGED <<log, child, file, gen, other, diskless, env>>

(* The end of replicationCron: start a child for the replicas that wait (a    *)
(* diskless one only after a delay), then remove an RDB file that nothing     *)
(* but replication needed (removeRDBUsedToSyncReplicas).                      *)
CronRemovesFile(g) ==
    /\ env.delSyncFiles /\ ~env.saveParams /\ g /\ file # {}
    /\ InState(rep', {"start", "end", "bulk"}) = {}

replicationCron ==
    /\ \/ /\ ~hasActiveChildProcess /\ InState(rep, {"start"}) # {}
          /\ startBgsaveForReplication(rep, slaves, pipe, TRUE)
       \/ /\ hasActiveChildProcess \/ InState(rep, {"start"}) = {} \/ diskless
          /\ UNCHANGED <<rep, slaves, child, pipe>>
    /\ LET g == GeneratedByReplication IN
         /\ file' = IF CronRemovesFile(g) THEN {} ELSE file
         /\ gen' = (g /\ ~CronRemovesFile(g))
    /\ UNCHANGED <<log, other, diskless, env>>

-----------------------------------------------------------------------------
ReplicaStep(r) ==
    \/ rdbPipeWriteHandler(r) \/ sendBulkToSlave(r)
    \/ replconfAck(r) \/ writeToClient(r)

Next ==
    \/ Write \/ FlushAll \/ Bgsave \/ saveCommand
    \/ OtherFork \/ OtherDone \/ ConfigSetDiskless
    \/ ChildWrites \/ ChildEnds \/ ChildFails \/ checkChildrenDone
    \/ rdbPipeReadHandler \/ LastReplicaGone \/ PipeReadError \/ RdbPipeCleanup
    \/ beforeSleep \/ replicationCron
    \/ \E r \in Replicas : syncCommand(r) \/ DropReplica(r) \/ ReplicaStep(r)

Spec == Init /\ [][Next]_vars

(* The event loop serves every handler that stays ready, children make        *)
(* progress, and a replica reads what it is sent.  A diskless child is        *)
(* started by some tick of replicationCron, after its delay.                  *)
Fairness ==
    /\ WF_vars(ChildWrites \/ ChildEnds \/ ChildFails) /\ WF_vars(checkChildrenDone)
    /\ WF_vars(rdbPipeReadHandler \/ LastReplicaGone) /\ WF_vars(RdbPipeCleanup)
    /\ WF_vars(OtherDone) /\ WF_vars(beforeSleep) /\ WF_vars(replicationCron)
    /\ \A r \in Replicas : WF_vars(ReplicaStep(r))
LiveSpec == Spec /\ Fairness

-----------------------------------------------------------------------------
(* PROPERTIES                                                                *)

(* The snapshot a replica is going to load: that of the running child, or     *)
(* whatever dump.rdb holds when the child is collected, or the file it has    *)
(* opened, or what it has been given.                                         *)
Snapshot(r) ==
    CASE rep[r].st = "end"  -> IF child.type = "disk" /\ child.st = "ok" THEN file
                               ELSE {child.snap}
      [] rep[r].st = "bulk" -> rep[r].fd
      [] OTHER              -> rep[r].data

Syncing == {r \in Replicas : rep[r].st \in {"end", "bulk", "online"} /\ ~rep[r].missed}

(* A snapshot and the differences registered for the replica make up the      *)
(* dataset of the master, whoever else wrote dump.rdb (FLUSHALL, SAVE,        *)
(* BGSAVE), shared the child, or removed the file meanwhile.  The code breaks  *)
(* this in one case: syncCommand attaches a replica to one that is about to    *)
(* be closed and has missed a write, although the comment there says that      *)
(* "the server is already registering differences" for it.                    *)
SnapshotPlusDiff ==
    \A r \in Syncing : \E d \in Snapshot(r) : ApplyAll(d, rep[r].buf) = Dataset

(* The offset a replica was told in +FULLRESYNC, advanced by what it has      *)
(* been sent, is the one its output buffer continues at: a later PSYNC with   *)
(* that offset resumes at the right command.                                  *)
OffsetMatchesBuffer ==
    \A r \in Syncing :
        rep[r].buf = [i \in 1..(Len(log) - rep[r].off) |-> rep[r].off + i]

(* A replica in WAIT_BGSAVE_END has an RDB child that will be collected: no   *)
(* other event moves it on.                                                   *)
WaitersHaveChild ==
    \A r \in Replicas : rep[r].st = "end" => child.type # "none"

(* A replica that asked for a full resynchronisation ends up online with      *)
(* nothing to wait for, or is disconnected and may ask again.  The code breaks *)
(* this in one case: the last replica of a transfer goes, its child is         *)
(* collected at once, and the read handler that is deleted is that of the      *)
(* pipe of the next child, which nobody reads then.                            *)
SyncEnds ==
    \A r \in Replicas :
        (rep[r].st # "none") ~>
            (\/ rep[r].st = "none"
             \/ rep[r].st = "online" /\ ~rep[r].ack /\ rep[r].buf = <<>>
             \/ pipe.deleted)

(* A replica in any state of its synchronisation will hold exactly the        *)
(* dataset and the offset of its master, and somebody will move it on; except  *)
(* one that shares the output buffer of a replica that missed a write.         *)
SyncIsExact == SnapshotPlusDiff /\ OffsetMatchesBuffer /\ WaitersHaveChild
=============================================================================
