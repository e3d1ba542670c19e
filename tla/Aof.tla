-------------------------------- MODULE Aof --------------------------------
(***************************************************************************)
(* The append only file (aof.c): commands are appended to aof_buf, written *)
(* before the event loop sleeps, synced by the main thread ("always") or    *)
(* by a background thread ("everysec"), and compacted by a child to which   *)
(* the parent streams the differences through a pipe until the child asks   *)
(* it to stop.  The process may be killed, the machine may lose power,      *)
(* writes may be short, fsync may fail and nobody looks, a reply may leave  *)
(* through a write handler, and CONFIG SET turns the AOF off and on.        *)
(*                                                                         *)
(* Command i is the two bytes 2i-1 and 2i, so that a file may end in the    *)
(* middle of a command; a rewritten file starts with the bytes its          *)
(* snapshot stands for.                                                     *)
(*                                                                         *)
(* Mutants, each a wrong version of the definition that follows it and used *)
(* by nothing else: KeepsBuffer, NoSyncAfterRewrite, FsyncOnlyWithData.    *)
(***************************************************************************)
EXTENDS Naturals, Sequences, FiniteSets

CONSTANTS
    Environments   \* the configurations and budgets to check, see env

ASSUME AofAssumption ==
    Environments \subseteq
      [policy : {"always", "everysec"}, noFsyncOnRewrite : BOOLEAN, threads : BOOLEAN,
       cmds : Nat, err : Nat, full : Nat, rewrite : Nat, toggle : Nat, crash : Nat]

VARIABLES
    n,        \* commands executed
    owed,     \* commands whose reply is in an output buffer
    acked,    \* commands whose reply has been sent
    handler,  \* the client's write handler: "none", "barrier" (AE_BARRIER) or "plain"
    st,       \* server.aof_state: "on", "off", "wait"
    a,        \* the write path: buffer, file, fsync bookkeeping (see Init)
    child,    \* the rewrite child
    rw,       \* aof_rewrite_buf_blocks
    dpipe,    \* the data pipe to the child
    sched,    \* aof_rewrite_scheduled
    other,    \* an RDB child is active
    phase,    \* "run", "renamed" (inside the done handler) or "dead"
    env       \* one of Environments:
              \*   policy            appendfsync
              \*   noFsyncOnRewrite  no-appendfsync-on-rewrite
              \*   threads           replies are written by I/O threads
              \*   cmds              bound on the commands executed
              \*   err               bound on the I/O errors
              \*   full, rewrite, toggle, crash
              \*                     full sockets, rewrites, changes of appendonly and
              \*                     crashes left

vars == <<n, owed, acked, handler, st, a, child, rw, dpipe, sched, other, phase, env>>

Bytes(k) == [i \in 1..k |-> i]
NoChild == [ph |-> "none", base |-> 0, diff |-> <<>>, stop |-> FALSE]
AofChild == child.ph # "none"
hasActiveChildProcess == AofChild \/ other

Init ==
    /\ n = 0 /\ owed = {} /\ acked = {} /\ handler = "none" /\ st = "on" /\ phase = "run"
    /\ env \in Environments
    /\ a = [buf |-> <<>>,
            file |-> [data |-> <<>>, synced |-> 0],  \* the file named appendonly.aof
            size |-> 0,          \* aof_current_size
            fsoff |-> 0,         \* aof_fsync_offset
            ok |-> TRUE,         \* aof_last_write_status = C_OK
            postponed |-> 0,     \* 0, or 1 and 2: flush postponed for <2s, >=2s
            sec |-> FALSE,       \* unixtime > aof_last_fsync
            jobs |-> <<>>,       \* BIO_AOF_FSYNC jobs, on the "cur"rent or an "old" file
            exit |-> FALSE,      \* exit(1)
            err |-> env.err,     \* I/O errors left
            excused |-> {}]      \* history: commands of whose sync the code does not make sure
    /\ child = NoChild /\ rw = <<>> /\ dpipe = <<>> /\ sched = FALSE /\ other = FALSE

-----------------------------------------------------------------------------
(* fsync(2) of the file, as the set of its outcomes: it may fail, and none   *)
(* of its callers looks.  What was not synced then may never be, because the *)
(* kernel may drop the pages it could not write.                             *)
SyncFile(f) == [f EXCEPT !.synced = Len(f.data)]
Unsynced(x, cmds) == {i \in cmds : 2 * i > x.file.synced}
Excuse(x, cmds) == [x EXCEPT !.excused = @ \union Unsynced(x, cmds)]
FailedFsync(x) == [Excuse(x, 1..n) EXCEPT !.err = @ - 1]

redis_fsync(x) ==
    {[x EXCEPT !.file = SyncFile(@)]} \union (IF x.err > 0 THEN {FailedFsync(x)} ELSE {})

(* flushAppendOnlyFile, as the set of its outcomes.                         *)
aofFsyncInProgress == a.jobs # <<>>

FsyncTried(x) == [x EXCEPT !.fsoff = x.size, !.sec = FALSE]

TryFsync(x, inprogress) ==
    IF env.noFsyncOnRewrite /\ hasActiveChildProcess
    THEN {IF env.policy = "always" THEN Excuse(x, 1..n) ELSE x}
    ELSE IF env.policy = "always" THEN redis_fsync(FsyncTried(x))
    ELSE IF ~x.sec THEN {x}
    ELSE IF inprogress THEN {[x EXCEPT !.sec = FALSE]}
    ELSE {[FsyncTried(x) EXCEPT !.jobs = Append(@, "cur")]}

(* aof_buf is empty: what was written may still have to be synced.          *)
FsyncOnlyWithData == FALSE
FsyncOnly == env.policy = "everysec" /\ a.fsoff # a.size /\ a.sec /\ ~aofFsyncInProgress

Postpone(force) ==
    ~force /\ env.policy = "everysec" /\ aofFsyncInProgress /\ a.postponed < 2

Written ==
    [a EXCEPT !.file.data = @ \o a.buf, !.size = @ + Len(a.buf), !.buf = <<>>,
              !.ok = TRUE, !.postponed = 0]

(* A short write of k bytes; the part that ftruncate cannot undo stays in    *)
(* the file and leaves the buffer.  "always" cannot recover.                 *)
ShortWrite(k, undone) ==
    LET kept == IF undone THEN 0 ELSE k
    IN  [a EXCEPT !.file.data = @ \o SubSeq(a.buf, 1, kept),
                  !.size = IF env.policy = "always" THEN @ ELSE @ + kept,
                  !.buf = IF env.policy = "always" THEN @ ELSE SubSeq(a.buf, kept + 1, Len(a.buf)),
                  !.ok = FALSE, !.postponed = 0, !.exit = (env.policy = "always"),
                  !.err = IF st = "off" THEN @ ELSE @ - 1]

WriteErrors ==
    IF st = "off" THEN {ShortWrite(0, TRUE)}
    ELSE IF a.err = 0 THEN {}
    ELSE {ShortWrite(k, u) : k \in 0..(Len(a.buf) - 1), u \in BOOLEAN}

flushAppendOnlyFile(force) ==
    IF a.buf = <<>> THEN (IF FsyncOnly THEN TryFsync(a, FALSE) ELSE {a})
    ELSE IF Postpone(force) THEN {[a EXCEPT !.postponed = IF @ = 0 THEN 1 ELSE @]}
    ELSE WriteErrors \union
         (IF st = "off" THEN {} ELSE TryFsync(Written, aofFsyncInProgress))

PhaseOf(x) == IF x.exit THEN "dead" ELSE "run"

(* The replies, all to one connection.  beforeSleep flushes and then sends   *)
(* them; if the socket is full it installs the write handler, and while      *)
(* there is one leaves the replies to it.  Only the main thread asks for the *)
(* barrier that keeps a read and a write of a connection out of the same     *)
(* iteration of the event loop.                                              *)
Replied(x) == IF x.exit \/ handler # "none" THEN {} ELSE owed
WriteHandlers ==
    {IF env.policy = "always" /\ st = "on" THEN "barrier" ELSE "plain"} \union
    (IF env.threads THEN {"plain"} ELSE {})

beforeSleep ==
    /\ phase = "run"
    /\ \E x \in flushAppendOnlyFile(FALSE) :
         /\ a' = x /\ phase' = PhaseOf(x)
         /\ \/ /\ acked' = acked \union Replied(x) /\ owed' = owed \ Replied(x)
               /\ UNCHANGED <<handler, env>>
            \/ /\ Replied(x) # {} /\ env.full > 0 /\ handler' \in WriteHandlers
               /\ env' = [env EXCEPT !.full = @ - 1]
               /\ UNCHANGED <<acked, owed>>
    /\ UNCHANGED <<n, st, child, rw, dpipe, sched, other>>

(* With the barrier nothing of this connection has been read, and so nothing  *)
(* executed for it, since the flush.                                         *)
sendReplyToClient ==
    /\ phase = "run" /\ handler # "none"
    /\ handler = "barrier" => a.buf = <<>>
    /\ acked' = acked \union owed /\ owed' = {} /\ handler' = "none"
    /\ a' = IF handler = "plain" THEN Excuse(a, owed) ELSE a
    /\ UNCHANGED <<n, st, child, rw, dpipe, sched, other, phase, env>>

(* serverCron retries a postponed or failed flush.                           *)
CronFlush ==
    /\ phase = "run" /\ (a.postponed # 0 \/ ~a.ok)
    /\ \E x \in flushAppendOnlyFile(FALSE) : a' = x /\ phase' = PhaseOf(x)
    /\ UNCHANGED <<n, owed, acked, handler, st, child, rw, dpipe, sched, other, env>>

(* A second passes.                                                          *)
Tick ==
    /\ phase = "run"
    /\ a' = [a EXCEPT !.sec = TRUE, !.postponed = IF @ = 1 THEN 2 ELSE @]
    /\ UNCHANGED <<n, owed, acked, handler, st, child, rw, dpipe, sched, other, phase, env>>

(* The background thread: fsync of the descriptor it was given.              *)
BioFsync ==
    /\ phase = "run" /\ a.jobs # <<>>
    /\ \E x \in IF Head(a.jobs) = "cur" THEN redis_fsync(a) ELSE {a} :
         a' = [x EXCEPT !.jobs = Tail(@)]
    /\ UNCHANGED <<n, owed, acked, handler, st, child, rw, dpipe, sched, other, phase, env>>

-----------------------------------------------------------------------------
(* A write command: call, propagate, feedAppendOnlyFile.                     *)
DeniedByDiskError == st # "off" /\ ~a.ok

aofRewriteBufferAppend(cmd) == rw \o cmd

feedAppendOnlyFile ==
    LET cmd == <<2 * n + 1, 2 * n + 2>>
    IN  /\ phase = "run" /\ n < env.cmds /\ ~DeniedByDiskError
        /\ n' = n + 1 /\ owed' = owed \union {n + 1}
        /\ a' = IF st = "on" THEN [a EXCEPT !.buf = @ \o cmd] ELSE a
        /\ rw' = IF st # "off" /\ AofChild THEN aofRewriteBufferAppend(cmd) ELSE rw
        /\ UNCHANGED <<acked, handler, st, child, dpipe, sched, other, phase, env>>

-----------------------------------------------------------------------------
(* The rewrite: fork, differences, the "!" handshake, the result.            *)
rewriteAppendOnlyFileBackground ==
    /\ child' = [ph |-> "dump", base |-> 2 * n, diff |-> <<>>, stop |-> FALSE]
    /\ dpipe' = <<>> /\ sched' = FALSE

(* BGREWRITEAOF, the growth of the file, or a scheduled rewrite.             *)
bgrewriteaofCommand ==
    /\ phase = "run" /\ ~AofChild /\ env.rewrite > 0
    /\ env' = [env EXCEPT !.rewrite = @ - 1]
    /\ IF other THEN sched' = TRUE /\ UNCHANGED <<child, dpipe>>
       ELSE rewriteAppendOnlyFileBackground
    /\ UNCHANGED <<n, owed, acked, handler, st, a, rw, other, phase>>

CronRewrite ==
    /\ phase = "run" /\ ~hasActiveChildProcess /\ sched
    /\ rewriteAppendOnlyFileBackground
    /\ UNCHANGED <<n, owed, acked, handler, st, a, rw, other, phase, env>>

aofChildWriteDiffData ==
    /\ phase = "run" /\ AofChild /\ rw # <<>> /\ ~child.stop
    /\ dpipe' = Append(dpipe, Head(rw)) /\ rw' = Tail(rw)
    /\ UNCHANGED <<n, owed, acked, handler, st, a, child, sched, other, phase, env>>

aofReadDiffFromParent ==
    /\ phase # "dead" /\ child.ph = "dump" /\ dpipe # <<>>
    /\ child' = [child EXCEPT !.diff = @ \o dpipe] /\ dpipe' = <<>>
    /\ UNCHANGED <<n, owed, acked, handler, st, a, rw, sched, other, phase, env>>

ChildAsksToStop ==
    /\ phase # "dead" /\ child.ph = "dump"
    /\ child' = [child EXCEPT !.ph = "asked"]
    /\ UNCHANGED <<n, owed, acked, handler, st, a, rw, dpipe, sched, other, phase, env>>

aofChildPipeReadable ==
    /\ phase = "run" /\ child.ph = "asked" /\ ~child.stop
    /\ child' = [child EXCEPT !.stop = TRUE]
    /\ UNCHANGED <<n, owed, acked, handler, st, a, rw, dpipe, sched, other, phase, env>>

(* The child got the acknowledgement, reads the final difference, writes it   *)
(* and syncs its file.                                                       *)
ChildFinishes ==
    /\ phase # "dead" /\ child.ph = "asked" /\ child.stop
    /\ child' = [child EXCEPT !.ph = "ok", !.diff = @ \o dpipe] /\ dpipe' = <<>>
    /\ UNCHANGED <<n, owed, acked, handler, st, a, rw, sched, other, phase, env>>

(* A write error, or no acknowledgement in time.                             *)
ChildFails ==
    /\ phase # "dead" /\ child.ph \in {"dump", "asked"} /\ a.err > 0
    /\ child' = [child EXCEPT !.ph = "err"]
    /\ a' = [a EXCEPT !.err = @ - 1]
    /\ UNCHANGED <<n, owed, acked, handler, st, rw, dpipe, sched, other, phase, env>>

Cleanup(state) ==
    /\ child' = NoChild /\ rw' = <<>> /\ dpipe' = <<>>
    /\ sched' = (sched \/ state = "wait")

(* backgroundRewriteDoneHandler, up to the rename.                           *)
Rewritten ==
    [data |-> Bytes(child.base) \o child.diff \o rw,
     synced |-> child.base + Len(child.diff)]

RewriteRename ==
    /\ phase = "run" /\ child.ph = "ok"
    /\ a' = [a EXCEPT !.file = Rewritten]
    /\ IF st = "off"
       THEN Cleanup(st) /\ UNCHANGED phase
       ELSE phase' = "renamed" /\ UNCHANGED <<child, rw, dpipe, sched>>
    /\ UNCHANGED <<n, owed, acked, handler, st, other, env>>

(* ... and after it: sync the new file, forget the buffer it contains.       *)
Switched(x, jobs) ==
    [x EXCEPT !.jobs = [i \in 1..Len(@) |-> "old"] \o jobs, !.excused = {},
              !.size = Len(x.file.data), !.fsoff = Len(x.file.data), !.buf = <<>>]
KeepsBuffer(x) ==
    {[y EXCEPT !.buf = x.buf] : y \in redis_fsync(Switched(x, <<>>))}
NoSyncAfterRewrite(x) == {Switched(x, <<>>)}
AfterRewrite(x) ==
    IF env.policy = "always" THEN redis_fsync(Switched(x, <<>>))
    ELSE {Switched(x, <<"cur">>)}

RewriteSwitch ==
    /\ phase = "renamed" /\ phase' = "run"
    /\ a' \in AfterRewrite(a)
    /\ st' = "on"
    /\ Cleanup("on")
    /\ UNCHANGED <<n, owed, acked, handler, other, env>>

(* The child failed, or its file cannot be opened, extended or renamed.       *)
RewriteFailed ==
    /\ phase = "run" /\ (child.ph = "err" \/ (child.ph = "ok" /\ a.err > 0))
    /\ a' = [a EXCEPT !.err = IF child.ph = "ok" THEN @ - 1 ELSE @]
    /\ Cleanup(st)
    /\ UNCHANGED <<n, owed, acked, handler, st, other, phase, env>>

-----------------------------------------------------------------------------
(* CONFIG SET appendonly no / yes.                                           *)
killAppendOnlyChild == child' = NoChild /\ rw' = <<>> /\ dpipe' = <<>>

stopAppendOnly ==
    /\ phase = "run" /\ st # "off" /\ env.toggle > 0
    /\ \E x \in flushAppendOnlyFile(TRUE) :
         /\ phase' = PhaseOf(x)
         /\ env' = [env EXCEPT !.toggle = @ - 1]
         /\ \/ x.exit /\ a' = x /\ UNCHANGED <<st, child, rw, dpipe, sched>>
            \/ /\ ~x.exit /\ a' \in redis_fsync(x)
               /\ st' = "off" /\ sched' = FALSE
               /\ killAppendOnlyChild
    /\ UNCHANGED <<n, owed, acked, handler, other>>

(* A rewrite in progress is of no use: nobody accumulated for it.  It is      *)
(* killed, also when the fork of the next one fails and the AOF stays off.    *)
startAppendOnly ==
    /\ phase = "run" /\ st = "off" /\ env.toggle > 0
    /\ env' = [env EXCEPT !.toggle = @ - 1]
    /\ st' = "wait" /\ a' = [a EXCEPT !.sec = FALSE]
    /\ IF other /\ ~AofChild THEN sched' = TRUE /\ UNCHANGED <<child, rw, dpipe>>
       ELSE rw' = <<>> /\ rewriteAppendOnlyFileBackground
    /\ UNCHANGED <<n, owed, acked, handler, other, phase>>

startAppendOnlyFails ==
    /\ phase = "run" /\ st = "off" /\ ~other /\ env.toggle > 0 /\ a.err > 0
    /\ env' = [env EXCEPT !.toggle = @ - 1] /\ a' = [a EXCEPT !.err = @ - 1]
    /\ killAppendOnlyChild
    /\ UNCHANGED <<n, owed, acked, handler, st, sched, other, phase>>

OtherFork ==
    /\ phase = "run" /\ ~hasActiveChildProcess /\ env.rewrite > 0
    /\ other' = TRUE /\ env' = [env EXCEPT !.rewrite = @ - 1]
    /\ UNCHANGED <<n, owed, acked, handler, st, a, child, rw, dpipe, sched, phase>>

OtherDone ==
    /\ phase = "run" /\ other /\ other' = FALSE
    /\ UNCHANGED <<n, owed, acked, handler, st, a, child, rw, dpipe, sched, phase, env>>

-----------------------------------------------------------------------------
(* The process is killed: the file stays as it was written.  A power failure  *)
(* also takes any part of what was not synced, which between the rename and   *)
(* the fsync of a rewritten file is more than the file had lost before.  Only *)
(* a server whose AOF is on is expected to recover from it.                   *)
Crash ==
    /\ phase \in {"run", "renamed"}
    /\ st = "on" /\ env.crash > 0
    /\ env' = [env EXCEPT !.crash = @ - 1]
    /\ phase' = "dead"
    /\ \E k \in a.file.synced..Len(a.file.data) :
         a' = [a EXCEPT !.file.data = SubSeq(@, 1, k), !.exit = TRUE,
                        !.excused = IF phase = "renamed" THEN Unsynced(a, 1..n) ELSE @]
    /\ UNCHANGED <<n, owed, acked, handler, st, child, rw, dpipe, sched, other>>

(* loadAppendOnlyFile: a last command that is cut short is truncated; a file   *)
(* that is wrong before its end is refused.                                  *)
Loadable == a.file.data = Bytes(Len(a.file.data))

loadAppendOnlyFile ==
    LET cmds == Len(a.file.data) \div 2
        size == 2 * cmds
    IN  /\ phase = "dead" /\ Loadable
        /\ phase' = "run" /\ n' = cmds /\ owed' = {} /\ acked' = acked \intersect 1..cmds
        /\ handler' = "none"
        /\ a' = [buf |-> <<>>,
                 file |-> [data |-> Bytes(size),
                           synced |-> IF a.file.synced < size THEN a.file.synced ELSE size],
                 size |-> size, fsoff |-> size, ok |-> TRUE, postponed |-> 0,
                 sec |-> FALSE, jobs |-> <<>>, exit |-> FALSE,
                 err |-> a.err, excused |-> a.excused \intersect 1..cmds]
        /\ child' = NoChild /\ rw' = <<>> /\ dpipe' = <<>> /\ sched' = FALSE /\ other' = FALSE
        /\ UNCHANGED <<st, env>>

-----------------------------------------------------------------------------
ChildStep == aofReadDiffFromParent \/ ChildAsksToStop \/ ChildFinishes \/ ChildFails

Next ==
    \/ beforeSleep \/ sendReplyToClient \/ CronFlush \/ Tick \/ BioFsync \/ feedAppendOnlyFile
    \/ bgrewriteaofCommand \/ CronRewrite \/ aofChildWriteDiffData \/ ChildStep
    \/ aofChildPipeReadable \/ RewriteRename \/ RewriteSwitch \/ RewriteFailed
    \/ stopAppendOnly \/ startAppendOnly \/ startAppendOnlyFails \/ OtherFork \/ OtherDone
    \/ Crash \/ loadAppendOnlyFile

Spec == Init /\ [][Next]_vars

(* The event loop, its timer, the child and the background thread go on.      *)
Fairness ==
    /\ WF_vars(beforeSleep) /\ WF_vars(CronFlush) /\ WF_vars(Tick) /\ WF_vars(BioFsync)
    /\ WF_vars(CronRewrite) /\ WF_vars(ChildAsksToStop) /\ WF_vars(ChildFinishes)
    /\ WF_vars(aofChildPipeReadable)
    /\ WF_vars(RewriteRename \/ RewriteFailed) /\ WF_vars(RewriteSwitch)
    /\ WF_vars(OtherDone) /\ WF_vars(loadAppendOnlyFile)
LiveSpec == Spec /\ Fairness

-----------------------------------------------------------------------------
(* PROPERTIES                                                                *)

(* While the AOF is on, the file followed by the buffer is the whole history:  *)
(* no rewrite, short write, toggle or restart loses or repeats a command.     *)
FileIsHistory ==
    (st = "on" /\ phase = "run") => a.file.data \o a.buf = Bytes(2 * n)

(* What the child has, what is in the pipe and what the parent keeps is the    *)
(* whole history too, as long as the result will become the AOF.              *)
RewriteIsHistory ==
    (st # "off" /\ phase = "run" /\ child.ph \in {"dump", "asked", "ok"}) =>
        Bytes(child.base) \o child.diff \o dpipe \o rw = Bytes(2 * n)

(* aof_current_size, to which a short write is truncated, is the length of     *)
(* the file the server appends to.                                            *)
SizeIsLength == (st = "on" /\ phase = "run") => a.size = Len(a.file.data)

(* With appendfsync always "on acknowledged write data is synced on disk"    *)
(* (the comment at aof.c:458): what a client was told is synced, and a crash   *)
(* leaves it in the file.  The commands the code lets go are exactly: those    *)
(* an fsync failed to sync, in the main thread or after a rewrite, where the   *)
(* result is ignored; those written while no-appendfsync-on-rewrite skipped    *)
(* the fsync; those answered by a write handler that an I/O thread's client    *)
(* got without the barrier, or that was installed before the AOF was on; and   *)
(* those lost by a crash between the rename and the fsync of a rewritten file. *)
AckedIsSynced ==
    (env.policy = "always" /\ st = "on" /\ phase # "renamed") =>
        \A i \in acked \ a.excused : 2 * i <= a.file.synced

(* What is in the buffer is eventually synced, also when no command follows    *)
(* to trigger it, unless the AOF is turned off, the process dies or the fsync  *)
(* itself failed, which the background thread does not report.                 *)
EventuallySynced ==
    \A k \in UNION {1..e.cmds : e \in Environments} :
        (st = "on" /\ phase = "run" /\ n >= k /\ a.buf # <<>>)
            ~> (a.file.synced >= 2 * k \/ k \in a.excused \/ st # "on" \/ phase = "dead")

(* An AOF that was turned on does not wait for its first rewrite forever.      *)
EventuallyOn == st = "wait" ~> st # "wait"
(* Neither the AOF nor the file a rewrite is building ever misses, repeats or  *)
(* tears a command, and the size a short write is cut back to is right.       *)
HistoryKept == FileIsHistory /\ RewriteIsHistory /\ SizeIsLength

(* The disk catches up with the server: what was written is synced and an AOF  *)
(* that was turned on becomes the real one.                                   *)
DurableInTheEnd == EventuallySynced /\ EventuallyOn
=============================================================================
