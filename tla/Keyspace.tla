------------------------------ MODULE Keyspace ------------------------------
(***************************************************************************)
(* The keyspace of a master as its clients see it: commands on keys with a  *)
(* time to live (db.c, expire.c, t_list.c), clients blocked on lists        *)
(* (blocked.c), transactions and WATCH (multi.c), client side caching (the  *)
(* module Tracking), and the stream of commands sent to the replicas.       *)
(*                                                                         *)
(* The server is one thread: a command runs to its end, clients blocked on  *)
(* the keys it made ready included, before anything else happens. What      *)
(* interleaves are the commands of several clients, timeouts, closed        *)
(* connections, expiring keys and the broadcast before the event loop       *)
(* sleeps.                                                                  *)
(*                                                                         *)
(* A value is a sequence of elements, a string having one; elements are     *)
(* numbers no two writes share. A key is named by its slot <<database, key>>. *)
(* The state is one record, s, and every function of the code an operator   *)
(* from states to states.                                                   *)
(*                                                                         *)
(* Mutants, each a wrong version of the definition that follows it and used *)
(* by nothing else: ServesOnePass, ServesLast, DropsFailedPush,            *)
(* ServedUnseen, FlushTouchesNothing (and EvictsSilently in Tracking).      *)
(***************************************************************************)
EXTENDS Integers, Sequences, SequencesExt, Tracking

CONSTANTS
    Databases,   \* server.dbnum databases, 0 among them
    Worlds       \* the clients and data sets to check, see world

ASSUME KeyspaceAssumption ==
    /\ None \notin Client \cup Key
    /\ 0 \in Databases /\ Databases \subseteq Nat
    /\ MaxTracked \in Nat \ {0}

VARIABLES
    s,      \* the state of the server and its clients
    world   \* one of Worlds: data (the first data set), db (the database each client
            \* selected), commands (of each client), writes and depth (bounds on the
            \* elements written and the commands queued), faults (what may happen besides)

vars == <<s, world>>

Slot == Databases \X Key

-----------------------------------------------------------------------------
(* Values.                                                                  *)

Absent == [t |-> "none", v |-> <<>>, exp |-> "no"]
String(e) == [t |-> "string", v |-> <<e>>, exp |-> "no"]
List(v) == [t |-> "list", v |-> v, exp |-> "no"]

\* What a replica holds of a value: its clock is its own.
Stored(val) == [t |-> val.t, v |-> val.v, volatile |-> val.exp # "no"]
Answer(val) == [t |-> val.t, v |-> val.v]

IsList(st, x) == st.db[x].t = "list"
Exists(st, x) == st.db[x].t # "none"

-----------------------------------------------------------------------------
(* A replica that executes the stream, queueing what comes between MULTI    *)
(* and EXEC.                                                                *)

Apply(db, cmd) ==
    LET Src == db[cmd.x]
        Popped(val, v) == IF v = <<>> THEN Stored(Absent) ELSE [val EXCEPT !.v = v]
        Pushed(val, v) == IF val.t = "none" THEN Stored(List(v)) ELSE [val EXCEPT !.v = v]
    IN  CASE cmd.op = "flushall" -> [x \in Slot |-> Stored(Absent)]
          [] cmd.op = "swapdb" ->
               [x \in Slot |-> IF x[1] \in {0, 1} THEN db[<<1 - x[1], x[2]>>] ELSE db[x]]
          [] cmd.op = "set" -> [db EXCEPT ![cmd.x] = Stored(String(cmd.e))]
          [] cmd.op = "del" -> [db EXCEPT ![cmd.x] = Stored(Absent)]
          [] cmd.op = "expire" /\ Src.t # "none" -> [db EXCEPT ![cmd.x].volatile = TRUE]
          [] cmd.op = "rename" /\ Src.t # "none" /\ cmd.x # cmd.y ->
               [db EXCEPT ![cmd.y] = Src, ![cmd.x] = Stored(Absent)]
          [] cmd.op = "rpush" /\ Src.t # "string" ->
               [db EXCEPT ![cmd.x] = Pushed(Src, Src.v \o cmd.v)]
          [] cmd.op = "lpop" /\ Src.t = "list" ->
               [db EXCEPT ![cmd.x] = Popped(Src, Tail(Src.v))]
          [] cmd.op = "rpoplpush" /\ Src.t = "list" /\ db[cmd.y].t # "string" ->
               IF cmd.x = cmd.y THEN [db EXCEPT ![cmd.x].v = <<Last(Src.v)>> \o Front(Src.v)]
               ELSE [db EXCEPT ![cmd.x] = Popped(Src, Front(Src.v)),
                               ![cmd.y] = Pushed(@, <<Last(Src.v)>> \o @.v)]
          [] OTHER -> db

Replay(rep, cmd) ==
    CASE cmd.op = "multi" -> [rep EXCEPT !.open = TRUE]
      [] cmd.op # "exec" /\ rep.open -> [rep EXCEPT !.queue = Append(@, cmd)]
      [] OTHER -> [db |-> FoldLeft(Apply, rep.db, IF cmd.op = "exec" THEN rep.queue ELSE <<cmd>>),
                   open |-> FALSE, queue |-> <<>>]

propagate(st, cmd) == [st EXCEPT !.rep = Replay(@, cmd)]

-----------------------------------------------------------------------------
(* Keys.                                                                    *)

touchWatchedKey(st, x) ==
    [st EXCEPT !.cl = [c \in Client |->
        IF x \in @[c].watched THEN [@[c] EXCEPT !.cas = TRUE] ELSE @[c]]]

signalModifiedKey(st, c, x) ==
    trackingInvalidateKeyRaw(touchWatchedKey(st, x), c, x[2], TRUE)

signalKeyAsReady(st, x) ==
    IF st.bk[x] = <<>> \/ x \in st.rset THEN st
    ELSE [st EXCEPT !.ready = Append(@, x), !.rset = @ \cup {x}]

\* The elements v leave the data set, delivered to a client or deleted (history).
Left(st, v) ==
    [st EXCEPT !.out = @ \cup ToSet(v), !.again = @ \cup (st.out \cap ToSet(v))]

dbDelete(st, x) == [Left(st, st.db[x].v) EXCEPT !.db[x] = Absent]

dbAdd(st, x, val) ==
    LET t == [st EXCEPT !.db[x] = val] IN IF val.t = "list" THEN signalKeyAsReady(t, x) ELSE t

\* expireIfNeeded, before every lookup, and activeExpireCycleTryExpire.
expireIfNeeded(st, x) ==
    IF st.db[x].exp # "due" THEN st
    ELSE signalModifiedKey(dbDelete(propagate(st, [op |-> "del", x |-> x]), x), None, x)

listTypePush(st, x, v) ==
    IF Exists(st, x) THEN [st EXCEPT !.db[x].v = v] ELSE dbAdd(st, x, List(v))

\* A list that was emptied is deleted.
DeletedIfEmpty(st, x) == IF st.db[x].v = <<>> THEN dbDelete(st, x) ELSE st

-----------------------------------------------------------------------------
(* Blocking.                                                                *)

NotBlocked == [ks |-> <<>>, dst |-> None]
IsBlocked(st, c) == st.cl[c].blk # NotBlocked

\* dictAdd into bpop.keys ignores a key named twice.
blockForKeys(st, c, ks, dst) ==
    [st EXCEPT !.cl[c].blk = [ks |-> ks, dst |-> dst],
               !.bk = [x \in Slot |-> IF x \in ToSet(ks) THEN Append(@[x], c) ELSE @[x]]]

unblockClient(st, c) ==
    [st EXCEPT !.cl[c].blk = NotBlocked,
               !.bk = [x \in Slot |-> SelectSeq(@[x], LAMBDA r : r # c)]]

\* The push half of RPOPLPUSH, on behalf of client c.
rpoplpushHandlePush(st, c, y, e) ==
    signalModifiedKey(listTypePush(st, y, <<e>> \o st.db[y].v), c, y)

\* BUG: the element whose push failed is not put back.
DropsFailedPush(st, c, x, y, e) ==
    IF st.db[y].t = "string" THEN st
    ELSE propagate(rpoplpushHandlePush(st, c, y, e), [op |-> "rpoplpush", x |-> x, y |-> y])
\* Element e was popped from x for a BRPOPLPUSH to y: it is pushed if the destination
\* has the right type; if not, the pop is undone.
PushOrUndo(st, c, x, y, e) ==
    IF st.db[y].t = "string" THEN [st EXCEPT !.db[x].v = Append(@, e)]
    ELSE propagate(rpoplpushHandlePush(st, c, y, e), [op |-> "rpoplpush", x |-> x, y |-> y])

\* A client blocked in BRPOPLPUSH is unblocked, then served.
serveMove(st, c, x) ==
    LET y == st.cl[c].blk.dst
    IN  PushOrUndo(expireIfNeeded(unblockClient([st EXCEPT !.db[x].v = Front(@)], c), y),
                   c, x, y, Last(st.db[x].v))

\* BUG: the pop on behalf of a blocked client is not propagated.
ServedUnseen(st, c, x) ==
    Left(unblockClient([st EXCEPT !.db[x].v = Tail(@)], c), <<Head(st.db[x].v)>>)
\* A client blocked in BLPOP gets the head of the list.
servePop(st, c, x) ==
    propagate(Left(unblockClient([st EXCEPT !.db[x].v = Tail(@)], c), <<Head(st.db[x].v)>>),
              [op |-> "lpop", x |-> x])

serveClientBlockedOnList(st, c, x) ==
    [(IF st.cl[c].blk.dst = None THEN servePop(st, c, x) ELSE serveMove(st, c, x))
        EXCEPT !.served = @ \cup {<<c, x>>}]

\* BUG: the client that blocked last is served first.
ServesLast(st, x, n) ==
    LET Serve(t, i) ==
            IF t.db[x].v = <<>> THEN t ELSE serveClientBlockedOnList(t, Last(t.bk[x]), x)
    IN  DeletedIfEmpty(FoldLeft(Serve, st, [i \in 1 .. n |-> i]), x)
\* The clients that wait for the list at x, at most the n that waited when it began,
\* are served in the order they blocked; the keys of other clients may become ready.
serveClientsBlockedOnListKey(st, x, n) ==
    LET Serve(t, i) ==
            IF t.db[x].v = <<>> THEN t ELSE serveClientBlockedOnList(t, Head(t.bk[x]), x)
    IN  DeletedIfEmpty(FoldLeft(Serve, st, [i \in 1 .. n |-> i]), x)

ServeIfList(st, x) ==
    IF IsList(st, x) THEN serveClientsBlockedOnListKey(st, x, Len(st.bk[x])) ELSE st

ServeKey(st, x) == ServeIfList(expireIfNeeded([st EXCEPT !.rset = @ \ {x}], x), x)

\* BUG: the keys that serving made ready are dropped with the list.
ServesOnePass(st) ==
    [FoldLeft(ServeKey, [st EXCEPT !.ready = <<>>], st.ready) EXCEPT !.ready = <<>>, !.rset = {}]
\* The loop over server.ready_keys, until serving makes no other key ready.
RECURSIVE handleClientsBlockedOnKeys(_)
handleClientsBlockedOnKeys(st) ==
    IF st.ready = <<>> THEN st
    ELSE handleClientsBlockedOnKeys(
             FoldLeft(ServeKey, [st EXCEPT !.ready = <<>>], st.ready))

-----------------------------------------------------------------------------
(* Commands, on a state in which the keys they look up have been expired if  *)
(* needed. Each leads to a state and to what call propagates: the command,    *)
(* perhaps rewritten, or nothing when the data set was not changed.           *)

Done(st) == [st |-> st, as |-> <<>>]
Wrote(st, cmd) == [st |-> st, as |-> <<cmd>>]

\* RPUSH k with cmd.m new elements.
pushGenericCommand(st, c, x, cmd) ==
    LET v == [i \in 1 .. cmd.m |-> st.n + i]
    IN  IF st.db[x].t = "string" THEN Done(st)
        ELSE Wrote([signalModifiedKey(listTypePush(st, x, st.db[x].v \o v), c, x)
                       EXCEPT !.n = @ + cmd.m],
                   [op |-> "rpush", x |-> x, v |-> v])

popGenericCommand(st, c, x) ==
    IF ~IsList(st, x) THEN Done(st)
    ELSE Wrote(signalModifiedKey(
                   Left(DeletedIfEmpty([st EXCEPT !.db[x].v = Tail(@)], x), <<Head(st.db[x].v)>>),
                   c, x),
               [op |-> "lpop", x |-> x])

\* BLPOP pops from the first key of ks that exists, found at the places in live.
PopOrBlock(st, c, ks, live) ==
    IF live # {} THEN popGenericCommand(st, c, ks[Min(live)])
    ELSE IF st.cl[c].multi THEN Done(st)
    ELSE Done(blockForKeys(st, c, ks, None))

\* BLPOP over the slots ks, looked up in turn: the first that exists decides.
blockingPopGenericCommand(st, c, ks) ==
    LET live == {i \in DOMAIN ks : Exists(st, ks[i]) /\ st.db[ks[i]].exp # "due"}
    IN  PopOrBlock(FoldLeft(expireIfNeeded, st, IF live = {} THEN ks ELSE SubSeq(ks, 1, Min(live))),
                   c, ks, live)

rpoplpushCommand(st, c, x, y) ==
    IF st.db[y].t = "string" THEN Done(st)
    ELSE Wrote(signalModifiedKey(
                   DeletedIfEmpty(
                       rpoplpushHandlePush([st EXCEPT !.db[x].v = Front(@)], c, y, Last(st.db[x].v)),
                       x),
                   c, x),
               [op |-> "rpoplpush", x |-> x, y |-> y])

brpoplpushCommand(st, c, x, y) ==
    IF IsList(st, x) THEN rpoplpushCommand(expireIfNeeded(st, y), c, x, y)
    ELSE IF Exists(st, x) \/ st.cl[c].multi THEN Done(st)
    ELSE Done(blockForKeys(st, c, <<x>>, y))

\* SET: genericSetKey adds or overwrites and drops the time to live.
setCommand(st, c, x) ==
    Wrote(signalModifiedKey([dbDelete(st, x) EXCEPT !.db[x] = String(st.n + 1), !.n = @ + 1], c, x),
          [op |-> "set", x |-> x, e |-> st.n + 1])

delGenericCommand(st, c, x) ==
    IF ~Exists(st, x) THEN Done(st)
    ELSE Wrote(signalModifiedKey(dbDelete(st, x), c, x), [op |-> "del", x |-> x])

\* EXPIRE with a time in the future (one that has passed deletes the key as DEL does).
expireGenericCommand(st, c, x) ==
    IF ~Exists(st, x) THEN Done(st)
    ELSE Wrote(signalModifiedKey([st EXCEPT !.db[x].exp = "set"], c, x), [op |-> "expire", x |-> x])

\* The new key is added, so that clients blocked on it notice.
Renamed(st, c, x, y) ==
    signalModifiedKey(signalModifiedKey(
        [dbAdd(dbDelete(st, y), y, st.db[x]) EXCEPT !.db[x] = Absent], c, x), c, y)

renameGenericCommand(st, c, x, y) ==
    IF ~Exists(st, x) \/ x = y THEN Done(st)
    ELSE Wrote(Renamed(expireIfNeeded(st, y), c, x, y), [op |-> "rename", x |-> x, y |-> y])

\* BUG: the clients that watch a key about to be flushed are not told.
FlushTouchesNothing(st) == st
touchWatchedKeysOnFlush(st) ==
    [st EXCEPT !.cl = [c \in Client |->
        IF \E x \in @[c].watched : Exists(st, x) THEN [@[c] EXCEPT !.cas = TRUE] ELSE @[c]]]

flushallCommand(st) ==
    LET told == trackingInvalidateKeysOnFlush(touchWatchedKeysOnFlush(st))
        Delete(x, t) == dbDelete(t, x)
    IN  Wrote(FoldSet(Delete, told, Slot), [op |-> "flushall", x |-> None])

\* The clients stay in their database and watch and wait for its new content: only
\* those blocked are looked after.
swapdbCommand(st) ==
    LET swapped == [st EXCEPT !.db = [x \in Slot |->
                       IF x[1] \in {0, 1} THEN @[<<1 - x[1], x[2]>>] ELSE @[x]]]
        Scan(x, t) == IF IsList(t, x) THEN signalKeyAsReady(t, x) ELSE t
    IN  Wrote(FoldSet(Scan, swapped, Slot), [op |-> "swapdb", x |-> None])

\* GET, or LRANGE of a whole list.
readCommand(st, c, x) == Done(Cached(st, c, x[2], Answer(st.db[x])))

-----------------------------------------------------------------------------
(* Transactions.                                                            *)

unwatchAllKeys(st, c) == [st EXCEPT !.cl[c].watched = {}]

discardTransaction(st, c) ==
    unwatchAllKeys([st EXCEPT !.cl[c].multi = FALSE, !.cl[c].cas = FALSE,
                              !.cl[c].bad = FALSE, !.cl[c].queue = <<>>], c)

flagTransaction(st, c) == IF st.cl[c].multi THEN [st EXCEPT !.cl[c].bad = TRUE] ELSE st

queueMultiCommand(st, c, cmd) ==
    IF st.cl[c].bad THEN st ELSE [st EXCEPT !.cl[c].queue = Append(@, cmd)]

multiCommand(st, c) == Done([st EXCEPT !.cl[c].multi = TRUE])

discardCommand(st, c) == Done(IF st.cl[c].multi THEN discardTransaction(st, c) ELSE st)

watchCommand(st, c, x) ==
    Done(IF st.cl[c].multi THEN st ELSE [st EXCEPT !.cl[c].watched = @ \cup {x}])

unwatchCommand(st, c) == Done(unwatchAllKeys([st EXCEPT !.cl[c].cas = FALSE], c))

ReadOnly(cmd) == cmd.op = "read"
Connection(cmd) == cmd.op \in {"multi", "exec", "discard", "watch"}

\* The keys a command may change.
WriteKeys(cmd) ==
    CASE cmd.op \in {"rpush", "lpop", "set", "del", "expire"} -> {cmd.k}
      [] cmd.op \in {"brpoplpush", "rename"} -> {cmd.k, cmd.to}
      [] cmd.op = "blpop" -> ToSet(cmd.ks)
      [] OTHER -> {}

\* A client drops its own copies of the keys it is about to change, which NOLOOP
\* leaves to it.
Forget(st, c, cmd) == sendTrackingMessage(st, {c}, WriteKeys(cmd))

\* Command cmd of client c, other than EXEC, in the client's database.
Proc(st, c, cmd) ==
    LET x == <<world.db[c], cmd.k>>
        y == <<world.db[c], cmd.to>>
        Looked == expireIfNeeded(st, x)
    IN  CASE cmd.op = "rpush" -> pushGenericCommand(Looked, c, x, cmd)
          [] cmd.op = "lpop" -> popGenericCommand(Looked, c, x)
          [] cmd.op = "blpop" -> blockingPopGenericCommand(st, c,
                                     [i \in DOMAIN cmd.ks |-> <<world.db[c], cmd.ks[i]>>])
          [] cmd.op = "brpoplpush" -> brpoplpushCommand(Looked, c, x, y)
          [] cmd.op = "set" -> setCommand(Looked, c, x)
          [] cmd.op = "del" -> delGenericCommand(Looked, c, x)
          [] cmd.op = "expire" -> expireGenericCommand(Looked, c, x)
          [] cmd.op = "rename" -> renameGenericCommand(Looked, c, x, y)
          [] cmd.op = "flushall" -> flushallCommand(st)
          [] cmd.op = "swapdb" -> swapdbCommand(st)
          [] cmd.op = "read" -> readCommand(Looked, c, x)
          [] cmd.op = "watch" -> watchCommand(st, c, x)
          [] cmd.op = "unwatch" -> unwatchCommand(st, c)
          [] cmd.op = "multi" -> multiCommand(st, c)
          [] cmd.op = "discard" -> discardCommand(st, c)
          [] cmd.op = "track" -> Done(enableTracking(st, c, cmd.mode, cmd.noloop))
          [] cmd.op = "untrack" -> Done(disableTracking(st, c))

\* The end of call: the propagation, and the keys a tracking client has read.
Propagated(r) == FoldLeft(propagate, r.st, r.as)
Remembered(st, c, cmd) == IF ReadOnly(cmd) THEN trackingRememberKeys(st, c, cmd.k) ELSE st

call(st, c, cmd) == Remembered(Propagated(Proc(Forget(st, c, cmd), c, cmd)), c, cmd)

\* The queued commands: MULTI is propagated before the first that is not read-only.
ExecStep(c, st, cmd) ==
    call(IF ReadOnly(cmd) \/ st.rep.open THEN st ELSE propagate(st, [op |-> "multi"]), c, cmd)

\* The end of a transaction that ran: EXEC is propagated if MULTI was.
Committed(st, c) ==
    [(IF st.rep.open THEN propagate(st, [op |-> "exec"]) ELSE st) EXCEPT !.ran = {c}]

execCommand(st, c) ==
    LET Step(t, cmd) == ExecStep(c, t, cmd)
    IN  IF ~st.cl[c].multi THEN st
        ELSE IF st.cl[c].cas \/ st.cl[c].bad THEN discardTransaction(st, c)
        ELSE Committed(discardTransaction(FoldLeft(Step, unwatchAllKeys(st, c), st.cl[c].queue), c), c)

\* An accepted command is queued or called, and then blocked clients are served.
Executed(st, c, cmd) ==
    IF st.cl[c].multi /\ ~Connection(cmd) THEN queueMultiCommand(st, c, cmd)
    ELSE handleClientsBlockedOnKeys(IF cmd.op = "exec" THEN execCommand(st, c) ELSE call(st, c, cmd))

-----------------------------------------------------------------------------
(* The server.                                                              *)

\* History, kept for the properties: whether a key a client watches was changed
\* since it was watched.
Changed(old, new) ==
    {c \in Client : /\ new.cl[c].watched # {}
                    /\ \/ c \in old.changed
                       \/ \E x \in old.cl[c].watched : Stored(old.db[x]) # Stored(new.db[x])}

Fresh == [s EXCEPT !.served = {}, !.ran = {}]
Became(st) == /\ s' = [st EXCEPT !.changed = Changed(s, st)]
              /\ UNCHANGED world

\* The elements a command writes, for the bound on them.
Cost(c, cmd) ==
    CASE cmd.op = "rpush" -> cmd.m
      [] cmd.op = "set" -> 1
      [] cmd.op = "exec" -> FoldLeft(LAMBDA n, q : n + (IF q.op = "rpush" THEN q.m
                                                        ELSE IF q.op = "set" THEN 1 ELSE 0),
                                     0, s.cl[c].queue)
      [] OTHER -> 0

\* A blocked client sends nothing that is read.
processCommand(c, cmd) ==
    /\ s.cl[c].alive /\ ~IsBlocked(s, c)
    /\ s.n + Cost(c, cmd) <= world.writes
    /\ s.cl[c].multi /\ ~Connection(cmd) => Len(s.cl[c].queue) < world.depth
    /\ \E st \in IF \E r \in Client : Tracks(s, r) THEN trackingLimitUsedSlots(Fresh) ELSE {Fresh} :
          Became(Executed(st, c, cmd))

\* A command that does not exist, has a wrong number of arguments or is not allowed; a
\* rejected EXEC ends the transaction.
rejectCommand(c) ==
    /\ "reject" \in world.faults
    /\ s.cl[c].alive /\ ~IsBlocked(s, c) /\ s.cl[c].multi
    /\ Became(flagTransaction(Fresh, c)) \/ Became(discardTransaction(Fresh, c))

\* handleBlockedClientsTimeout, and CLIENT UNBLOCK.
Timeout(c) ==
    /\ IsBlocked(s, c)
    /\ Became(unblockClient(Fresh, c))

\* freeClient.
freeClient(c) ==
    /\ "close" \in world.faults /\ s.cl[c].alive
    /\ LET st == disableTracking(discardTransaction(unblockClient(Fresh, c), c), c)
       IN  Became([st EXCEPT !.cl[c].alive = FALSE])

\* The clock reaches the time a key was given.
TimePasses(x) ==
    /\ s.db[x].exp = "set"
    /\ Became([Fresh EXCEPT !.db[x].exp = "due"])

activeExpireCycleTryExpire(x) ==
    /\ s.db[x].exp = "due"
    /\ Became(expireIfNeeded(Fresh, x))

\* The broadcast of beforeSleep.
beforeSleep ==
    /\ \E k \in Key : s.bc[k] # {}
    /\ Became(trackingBroadcastInvalidationMessages(Fresh))

\* The limit on the tracking table, in serverCron.
serverCron ==
    /\ Cardinality(TrackedKeys(s)) > MaxTracked
    /\ \E r \in Client : Tracks(s, r)
    /\ \E st \in trackingLimitUsedSlots(Fresh) : Became(st)

Idle == [alive |-> TRUE, multi |-> FALSE, cas |-> FALSE, bad |-> FALSE, queue |-> <<>>,
         watched |-> {}, blk |-> NotBlocked, mode |-> "off", noloop |-> FALSE]

Init ==
    /\ world \in Worlds
    /\ s = [db |-> world.data, n |-> world.n, cl |-> [c \in Client |-> Idle],
            bk |-> [x \in Slot |-> <<>>], ready |-> <<>>, rset |-> {},
            rep |-> [db |-> [x \in Slot |-> Stored(world.data[x])], open |-> FALSE, queue |-> <<>>],
            tt |-> [k \in Key |-> {}], bc |-> [k \in Key |-> {}],
            cache |-> [c \in Client |-> [k \in Key |-> None]],
            out |-> {}, again |-> {},
            served |-> {}, ran |-> {}, changed |-> {}]

Next ==
    \/ \E c \in Client, cmd \in UNION {world.commands[r] : r \in Client} :
          cmd \in world.commands[c] /\ processCommand(c, cmd)
    \/ \E c \in Client : rejectCommand(c) \/ Timeout(c) \/ freeClient(c)
    \/ \E x \in Slot : TimePasses(x) \/ activeExpireCycleTryExpire(x)
    \/ beforeSleep
    \/ serverCron

Spec == Init /\ [][Next]_vars

-----------------------------------------------------------------------------
(* Properties.                                                              *)

\* No client waits for a list that is there: once a command, a transaction or the
\* service of other clients is over, no slot holds a list and has clients blocked on
\* it, and no key is left to be served (handleClientsBlockedOnKeys, dbAdd, SWAPDB).
NoWaiterForgotten ==
    /\ s.ready = <<>> /\ s.rset = {}
    /\ \A x \in Slot : IsList(s, x) => s.bk[x] = <<>>

\* Clients are served in the order they blocked: one is served from a key only
\* together with all those that waited for that key before it
\* (serveClientsBlockedOnListKey).
ServedInOrder ==
    [][\A c \in Client, x \in Slot :
          <<c, x>> \in s'.served =>
              \A i, j \in DOMAIN s.bk[x] :
                  s.bk[x][j] = c /\ i < j => ~IsBlocked(s', s.bk[x][i])]_vars

\* No element is lost or duplicated on its way through lists, transactions and
\* blocked clients: one that was written is at one place of one value, or left the
\* data set once, delivered to a client or deleted with its key (t_list.c, blocked.c).
ElementsConserved ==
    /\ s.again = {}
    /\ \A e \in 1 .. s.n :
          Cardinality({p \in Slot \X (1 .. world.writes) :
              p[2] \in DOMAIN s.db[p[1]].v /\ s.db[p[1]].v[p[2]] = e})
            = IF e \in s.out THEN 0 ELSE 1

\* The stream reproduces the data set: after every command, with what it expired and
\* whom it served, a replica that executed what was propagated holds what the
\* master holds, and no transaction is left open in the stream (propagate,
\* propagateExpire, execCommand, serveClientBlockedOnList).
ReplicaAgrees ==
    /\ ~s.rep.open
    /\ \A x \in Slot : s.rep.db[x] = Stored(s.db[x])

\* EXEC runs a transaction only if none of the keys its client watched was changed
\* since, by a command, by FLUSHALL or by expiring (touchWatchedKey).
WatchSound == [][s'.ran \cap s.changed = {}]_vars

\* A copy kept by a client with tracking on is what the server would answer, or its
\* invalidation is on its way: sent already or to be broadcast before the event loop
\* sleeps (tracking.c). A client with both BCAST and NOLOOP is left out: see
\* trackingRememberKeyToBroadcast.
CacheFresh ==
    \A c \in Client, k \in Key :
        /\ Tracks(s, c) /\ s.cache[c][k] # None
        /\ s.cache[c][k] # Answer(s.db[<<world.db[c], k>>])
        => /\ s.cl[c].mode = "bcast"
           /\ s.cl[c].noloop \/ s.bc[k] # {}

=============================================================================
