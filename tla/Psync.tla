-------------------------------- MODULE Psync --------------------------------
(***************************************************************************)
(* Replication with partial resynchronisation, PSYNC version 2             *)
(* (replication.c).  Every instance names its history by a replication ID  *)
(* and an offset; an instance that is promoted keeps the ID it inherited   *)
(* as a secondary one, valid up to the offset of the promotion, and keeps  *)
(* a backlog of the last bytes of the stream.  A replica that reconnects,  *)
(* to its master or to another instance, sends the ID and offset of its    *)
(* cached master and goes on from there if the other side has that history *)
(* in its backlog.                                                         *)
(*                                                                         *)
(* One write is one byte of the stream, and so is a request for            *)
(* acknowledgements.  The dataset of an instance is the sequence of the     *)
(* bytes it has applied, the requests included, which change nothing.  IDs *)
(* are taken from a counter.  The RDB file of a full resynchronisation is  *)
(* the dataset at the moment the request is handled.                       *)
(*                                                                         *)
(* A client that has written may ask with WAIT how many replicas have      *)
(* acknowledged the offset of its write, and block until enough have.      *)
(***************************************************************************)
EXTENDS Integers, Sequences, FiniteSets, SequencesExt

CONSTANTS
  Nodes,          \* the instances, 1..N
  BacklogSize,    \* repl_backlog_size
  Clients,        \* the clients that write and WAIT, numbers: one each for the first writes
  Bounds          \* the nodes that take part, those that REPLICAOF may name, those
                  \* that clients write to, the clients that WAIT, once each, and how
                  \* often each event may happen

None == 0

ASSUME PsyncAssumption ==
  /\ Nodes \subseteq Nat \ {None} /\ \E m \in Nodes : \A n \in Nodes : n <= m
  /\ BacklogSize \in Nat \ {0}
  /\ Clients \subseteq Nat \ {None}
  /\ Bounds \subseteq [nodes : SUBSET Nodes, hosts : SUBSET Nodes, writers : SUBSET Nodes,
                       clients : SUBSET Clients, write : Nat, role : Nat,
                       drop : Nat, free : Nat, restart : Nat]

VARIABLES
  srv,    \* [node]: its replication state and its dataset
  conn,   \* [replica]: its connection with its master, or NoConn: the answer to
          \* PSYNC and the bytes that are on their way
  disk,   \* [node]: its last RDB file
  cl,     \* [client]: where it is connected, its write and the offset it would WAIT for
          \* (c->woff), and its WAIT; what it was told, as far as the properties go
  acks,   \* clients_waiting_acks and get_ack_from_slaves of each node
  count   \* how often each kind of event has happened, and how often it may

wvars == <<cl, acks>>
vars == <<srv, conn, disk, cl, acks, count>>

NoCache == [id |-> None, off |-> -1]
NoReply == [type |-> "none", id |-> None, off |-> -1, data |-> <<>>]
NoConn == [to |-> None, phase |-> "none", open |-> FALSE, id |-> None, off |-> 0, ack |-> 0,
           reply |-> NoReply, q |-> <<>>]
Client == [st |-> "idle", at |-> None, w |-> None, woff |-> 0, need |-> 0]

\* The byte of the stream that is REPLCONF GETACK; the writes are counted from 1.
GetAck == 0

Init ==
  /\ srv = [n \in Nodes |->
       [host |-> None, state |-> "none", id |-> n, id2 |-> None, off2 |-> -1,
        off |-> 0, backlog |-> FALSE, buf |-> <<>>, cached |-> NoCache, data |-> <<>>]]
  /\ conn = [n \in Nodes |-> NoConn]
  /\ disk = [n \in Nodes |-> [data |-> <<>>, id |-> None, off |-> -1]]
  /\ cl = [c \in Clients |-> Client]
  /\ acks = [n \in Nodes |-> [waiting |-> <<>>, get |-> FALSE]]
  /\ \E b \in Bounds :
       count = [write |-> 0, role |-> 0, drop |-> 0, free |-> 0, restart |-> 0, ids |-> 0,
                max |-> b]

-----------------------------------------------------------------------------
(* Operations on the state s of one instance.                               *)

\* The next random replication ID.
NewId == 1 + count.ids + CHOOSE m \in Nodes : \A n \in Nodes : n <= m

TookId == [count EXCEPT !.ids = @ + 1]

clearReplicationId2(s) == [s EXCEPT !.id2 = None, !.off2 = -1]

shiftReplicationId(s, new) ==
  [s EXCEPT !.id2 = s.id, !.off2 = s.off + 1, !.id = new]

createReplicationBacklog(s) ==
  IF s.backlog THEN s ELSE [s EXCEPT !.backlog = TRUE, !.buf = <<>>]

freeReplicationBacklog(s) == [s EXCEPT !.backlog = FALSE, !.buf = <<>>]

\* The byte w is executed.
Applied(s, w) == [s EXCEPT !.data = Append(@, w)]

\* feedReplicationBacklog: the circular buffer keeps the last bytes.
feedReplicationBacklog(s, w) ==
  LET b == Append(s.buf, w) IN
  [s EXCEPT !.off = @ + 1,
            !.buf = IF Len(b) > BacklogSize THEN Tail(b) ELSE b]

\* repl_backlog_off
BacklogOff(s) == s.off - Len(s.buf) + 1

\* replicationCacheMaster and replicationCacheMasterUsingMyself: the ID and
\* the offset to continue from.
CacheMaster(s) == [s EXCEPT !.cached = [id |-> s.id, off |-> s.off]]

\* freeClient(server.master), when there is a master client.
FreeMaster(s) == IF s.state = "connected" THEN CacheMaster(s) ELSE s

\* masterTryPartialResynchronization: does s have the history that id and
\* off name?
MayContinue(s, id, off) ==
  /\ id = s.id \/ (id = s.id2 /\ off <= s.off2)
  /\ s.backlog
  /\ off >= BacklogOff(s) /\ off <= BacklogOff(s) + Len(s.buf)

-----------------------------------------------------------------------------
(* Connections.                                                             *)

\* Is r in server.slaves of m?
IsSlave(r, m) == conn[r].to = m /\ m # None /\ conn[r].phase = "slave" /\ conn[r].open

\* server.slaves of m.
Slaves(m) == {r \in Nodes : IsSlave(r, m)}

\* disconnectSlaves by m, whose own connection becomes c.
disconnectSlaves(m, c) ==
  [k \in Nodes |-> IF k = m THEN c
                   ELSE IF IsSlave(k, m) THEN [conn[k] EXCEPT !.open = FALSE]
                   ELSE conn[k]]

\* The byte w is fed to the slaves of m.
Fed(cs, m, w) ==
  [k \in Nodes |-> IF IsSlave(k, m) THEN [cs[k] EXCEPT !.q = Append(@, w)] ELSE cs[k]]

-----------------------------------------------------------------------------
(* Actions.                                                                 *)

\* replicationFeedSlaves: without backlog and slaves nothing is counted.
Feeds(m) == srv[m].backlog \/ Slaves(m) # {}

\* A client writes to a master, the w-th one that WAITs for the w-th write.
\* processCommand remembers the offset for WAIT.
Write(m) ==
  LET w == count.write + 1
      a == Applied(srv[m], w)
      s == IF Feeds(m) THEN feedReplicationBacklog(a, w) ELSE a
  IN
  /\ count.write < count.max.write /\ m \in count.max.writers
  /\ srv[m].host = None
  /\ srv' = [srv EXCEPT ![m] = s]
  /\ conn' = Fed(conn, m, w)
  /\ cl' = [c \in Clients |->
       IF c = w /\ c \in count.max.clients
       THEN [cl[c] EXCEPT !.at = m, !.w = w, !.woff = s.off] ELSE cl[c]]
  /\ count' = [count EXCEPT !.write = @ + 1]
  /\ UNCHANGED <<disk, acks>>

\* The clients in gone are disconnected from n, and no longer wait.
Dropped(gone) == [c \in Clients |-> IF c \in gone THEN [Client EXCEPT !.st = "done"] ELSE cl[c]]

NoneWaits(n) == [acks EXCEPT ![n].waiting = <<>>]

\* REPLICAOF m: replicationSetMaster.  Blocked clients are disconnected
\* (disconnectAllBlockedClients).
replicaof(n, m) ==
  LET s == FreeMaster(srv[n])
      t == IF s.host = None THEN CacheMaster(s) ELSE s
  IN
  /\ count.role < count.max.role
  /\ m # n /\ srv[n].host # m
  /\ srv' = [srv EXCEPT ![n] = [t EXCEPT !.host = m, !.state = "connect"]]
  /\ conn' = disconnectSlaves(n, NoConn)
  /\ count' = [count EXCEPT !.role = @ + 1]
  /\ cl' = Dropped(ToSet(acks[n].waiting))
  /\ acks' = NoneWaits(n)
  /\ UNCHANGED disk

\* REPLICAOF NO ONE: replicationUnsetMaster.
replicationUnsetMaster(n) ==
  /\ count.role < count.max.role
  /\ srv[n].host # None
  /\ srv' = [srv EXCEPT ![n] =
       [shiftReplicationId(srv[n], NewId) EXCEPT
          !.host = None, !.state = "none", !.cached = NoCache]]
  /\ conn' = disconnectSlaves(n, NoConn)
  /\ count' = [TookId EXCEPT !.role = @ + 1]
  /\ UNCHANGED <<disk, wvars>>

\* The replica connects and sends PSYNC (slaveTryPartialResynchronization,
\* writing half).
SendPsync(r) ==
  /\ srv[r].state = "connect"
  /\ srv' = [srv EXCEPT ![r].state = "psync"]
  /\ conn' = [conn EXCEPT ![r] =
       [to |-> srv[r].host, phase |-> "asked", open |-> TRUE,
        id |-> srv[r].cached.id, off |-> srv[r].cached.off + 1, ack |-> 0,
        reply |-> NoReply, q |-> <<>>]]
  /\ UNCHANGED <<disk, wvars, count>>

\* syncCommand, refused: the instance has lost its own master.
RefusePsync(r) ==
  LET c == conn[r] IN
  /\ c.to # None /\ c.phase = "asked" /\ c.open
  /\ srv[c.to].host # None /\ srv[c.to].state # "connected"
  /\ conn' = [conn EXCEPT ![r].open = FALSE]
  /\ UNCHANGED <<srv, disk, wvars, count>>

AcceptsSync(c) ==
  /\ c.to # None /\ c.phase = "asked" /\ c.open
  /\ srv[c.to].host = None \/ srv[c.to].state = "connected"

\* syncCommand, partial: +CONTINUE with the current ID, then the backlog from
\* the offset on.
PartialResync(r) ==
  LET c == conn[r]
      m == srv[c.to]
      from == c.off - BacklogOff(m) + 1
  IN
  /\ AcceptsSync(c)
  /\ MayContinue(m, c.id, c.off)
  /\ conn' = [conn EXCEPT ![r] =
       [c EXCEPT !.phase = "slave",
                 !.reply = [NoReply EXCEPT !.type = "continue", !.id = m.id],
                 !.q = SubSeq(m.buf, from, Len(m.buf))]]
  /\ UNCHANGED <<srv, disk, wvars, count>>

\* syncCommand, full: the backlog is created, with a new ID, if there is none.
FullResync(r) ==
  LET c == conn[r]
      s == srv[c.to]
      fresh == Slaves(c.to) = {} /\ ~s.backlog
      m == IF fresh
           THEN createReplicationBacklog(clearReplicationId2([s EXCEPT !.id = NewId]))
           ELSE s
  IN
  /\ AcceptsSync(c)
  /\ ~MayContinue(s, c.id, c.off)
  /\ srv' = [srv EXCEPT ![c.to] = m]
  /\ conn' = [conn EXCEPT ![r] =
       [c EXCEPT !.phase = "slave",
                 !.reply = [type |-> "full", id |-> m.id, off |-> m.off, data |-> m.data]]]
  /\ count' = IF fresh THEN TookId ELSE count
  /\ UNCHANGED <<disk, wvars>>

\* Does the replica read this type of answer next?
Reads(r, state, type) == srv[r].state = state /\ conn[r].reply.type = type

\* The answer has been read.
Answered(r) == [conn[r] EXCEPT !.reply = NoReply]

\* +CONTINUE is read: a new ID makes the old one the second, and the slaves
\* must hear of it; the cached master is resurrected.
ReceiveContinue(r) ==
  LET new == conn[r].reply.id
      s   == srv[r]
      moved == new # s.cached.id
      t   == IF moved
             THEN [s EXCEPT !.id2 = s.cached.id, !.off2 = s.off + 1, !.id = new]
             ELSE s
  IN
  /\ Reads(r, "psync", "continue")
  /\ srv' = [srv EXCEPT ![r] =
       createReplicationBacklog([t EXCEPT !.state = "connected", !.cached = NoCache])]
  /\ conn' = IF moved THEN disconnectSlaves(r, Answered(r)) ELSE [conn EXCEPT ![r] = Answered(r)]
  /\ UNCHANGED <<disk, wvars, count>>

\* +FULLRESYNC is read (syncWithMaster): the cached master, the slaves and the
\* backlog go, the transfer begins.
ReceiveFullresync(r) ==
  /\ Reads(r, "psync", "full")
  /\ srv' = [srv EXCEPT ![r] =
       [freeReplicationBacklog(@) EXCEPT !.state = "transfer", !.cached = NoCache]]
  /\ conn' = disconnectSlaves(r, conn[r])
  /\ UNCHANGED <<disk, wvars, count>>

\* The received file becomes the RDB file of the replica before it is loaded.
Renamed(r) ==
  LET m == conn[r].reply IN
  [disk EXCEPT ![r] = [data |-> m.data, id |-> m.id, off |-> m.off]]

\* readSyncBulkPayload has the whole file and loads it.
readSyncBulkPayload(r) ==
  LET m == conn[r].reply IN
  /\ Reads(r, "transfer", "full")
  /\ srv' = [srv EXCEPT ![r] =
       createReplicationBacklog(clearReplicationId2(
         [@ EXCEPT !.data = m.data, !.id = m.id, !.off = m.off, !.state = "connected"]))]
  /\ conn' = [conn EXCEPT ![r] = Answered(r)]
  /\ disk' = Renamed(r)
  /\ UNCHANGED <<wvars, count>>

\* The load fails after the old dataset was flushed.
LoadFails(r) ==
  /\ count.drop < count.max.drop
  /\ Reads(r, "transfer", "full")
  /\ srv' = [srv EXCEPT ![r].data = <<>>, ![r].state = "connect"]
  /\ conn' = [conn EXCEPT ![r] = NoConn]
  /\ disk' = Renamed(r)
  /\ count' = [count EXCEPT !.drop = @ + 1]
  /\ UNCHANGED wvars

\* REPLCONF ACK of the offset off, at the other end of the connection c.
Acked(c, off) ==
  IF c.open /\ off > c.ack /\ count.max.clients # {} THEN [c EXCEPT !.ack = off] ELSE c

\* A byte of the stream is applied, and proxied to the backlog and the slaves
\* (commandProcessed, replicationFeedSlavesFromMasterStream).  REPLCONF GETACK is
\* answered before it is counted itself.
ReceiveByte(r) ==
  LET w == Head(conn[r].q)
      c == [conn[r] EXCEPT !.q = Tail(@)]
  IN
  /\ Reads(r, "connected", "none") /\ conn[r].q # <<>>
  /\ srv' = [srv EXCEPT ![r] = feedReplicationBacklog(Applied(@, w), w)]
  /\ conn' = [Fed(conn, r, w) EXCEPT ![r] = IF w = GetAck THEN Acked(c, srv[r].off) ELSE c]
  /\ UNCHANGED <<disk, wvars, count>>

\* replicationCron of the replica: replicationSendAck, once a second.
replicationSendAck(r) ==
  /\ srv[r].state = "connected" /\ conn[r].to # None
  /\ Acked(conn[r], srv[r].off) # conn[r]
  /\ conn' = [conn EXCEPT ![r] = Acked(@, srv[r].off)]
  /\ UNCHANGED <<srv, disk, wvars, count>>

\* Mutant of Unlinked: the state is not reset, and nobody connects again.
UnlinkedStuck(s) == FreeMaster(s)

\* The replica's state after its connection is gone.
Unlinked(s) == [FreeMaster(s) EXCEPT !.state = "connect"]

\* The replica sees that the other side has closed.
SeeClose(r) ==
  /\ conn[r].to # None /\ ~conn[r].open /\ conn[r].reply = NoReply /\ conn[r].q = <<>>
  /\ srv' = [srv EXCEPT ![r] = Unlinked(@)]
  /\ conn' = [conn EXCEPT ![r] = NoConn]
  /\ UNCHANGED <<disk, wvars, count>>

\* The connection breaks; what was on its way is lost.
LinkDown(r) ==
  /\ count.drop < count.max.drop
  /\ conn[r].to # None
  /\ srv' = [srv EXCEPT ![r] = Unlinked(@)]
  /\ conn' = [conn EXCEPT ![r] = NoConn]
  /\ count' = [count EXCEPT !.drop = @ + 1]
  /\ UNCHANGED <<disk, wvars>>

\* Mutant of FreedBacklog: the ID is kept.
FreedKeepsId(s, new) == freeReplicationBacklog(s)

\* replicationCron frees the backlog of a master without slaves: the offset
\* will no longer count the writes, so the ID must change.
FreedBacklog(s, new) ==
  freeReplicationBacklog(clearReplicationId2([s EXCEPT !.id = new]))

replicationCron(m) ==
  /\ count.free < count.max.free
  /\ srv[m].host = None /\ srv[m].backlog /\ Slaves(m) = {}
  /\ srv' = [srv EXCEPT ![m] = FreedBacklog(@, NewId)]
  /\ count' = [TookId EXCEPT !.free = @ + 1]
  /\ UNCHANGED <<conn, disk, wvars>>

\* rdbPopulateSaveInfo: do the ID and the offset describe the dataset?
rdbPopulateSaveInfo(s) ==
  \/ s.host = None /\ s.backlog
  \/ s.state = "connected"
  \/ s.cached # NoCache

\* An RDB file is saved, with the ID and the offset if they mean something.
SaveRdb(n) ==
  LET s == srv[n] IN
  /\ count.restart < count.max.restart
  /\ disk' = [disk EXCEPT ![n] =
       IF rdbPopulateSaveInfo(s) THEN [data |-> s.data, id |-> s.id, off |-> s.off]
       ELSE [data |-> s.data, id |-> None, off |-> -1]]
  /\ disk' # disk
  /\ UNCHANGED <<srv, conn, wvars, count>>

\* The instance restarts from its RDB file (loadDataFromDisk): a replica takes
\* up the saved ID and offset, any other starts a new history.
Restart(n) ==
  LET d == disk[n]
      h == srv[n].host
      keep == h # None /\ d.id # None
      s == [host |-> h, state |-> IF h = None THEN "none" ELSE "connect",
            id |-> IF keep THEN d.id ELSE NewId, id2 |-> None, off2 |-> -1,
            off |-> IF keep THEN d.off ELSE 0,
            backlog |-> FALSE, buf |-> <<>>, cached |-> NoCache, data |-> d.data]
  IN
  /\ count.restart < count.max.restart
  /\ srv' = [srv EXCEPT ![n] = IF keep THEN CacheMaster(s) ELSE s]
  /\ conn' = [k \in Nodes |->
       CASE k = n -> NoConn
         [] k # n /\ conn[k].to = n  -> [conn[k] EXCEPT !.open = FALSE]
         [] k # n /\ conn[k].to # n  -> conn[k]]
  /\ count' = [TookId EXCEPT !.restart = @ + 1]
  /\ cl' = Dropped({c \in Clients : cl[c].at = n})
  /\ acks' = [NoneWaits(n) EXCEPT ![n].get = FALSE]
  /\ UNCHANGED disk

-----------------------------------------------------------------------------
(* WAIT.                                                                    *)

\* The file of a full resynchronisation is sent in one step, so that every slave is in
\* SLAVE_STATE_ONLINE, loaded or not.
replicationCountAcksByOffset(m, off) == Cardinality({r \in Slaves(m) : conn[r].ack >= off})

\* Do n instances other than its own have the write of client k, if its own has it?
\* An offset of 0 is not looked at: a slave that has acknowledged nothing has it too.
CountsCopies(k, n) ==
  LET had == {m \in Nodes : k.w \in ToSet(srv[m].data)} IN
  k.woff > 0 /\ k.at \in had => n <= Cardinality(had \ {k.at})

\* Client k gets the number n.  That is all it does; whether n was right is history.
Replied(k, n) == [Client EXCEPT !.st = IF CountsCopies(k, n) THEN "done" ELSE "misled"]

\* WAIT of a client that has written: the number is there at once, in a transaction
\* even if it is small.
WaitReplies(c) ==
  LET m == cl[c].at IN
  /\ cl[c].st = "idle" /\ m # None
  /\ srv[m].host = None
  /\ cl' = [cl EXCEPT ![c] = Replied(@, replicationCountAcksByOffset(m, @.woff))]
  /\ UNCHANGED <<srv, conn, disk, acks, count>>

\* WAIT, when need is more than the number.
WaitBlocks(c, need) ==
  LET m == cl[c].at IN
  /\ cl[c].st = "idle" /\ m # None
  /\ srv[m].host = None
  /\ replicationCountAcksByOffset(m, cl[c].woff) < need
  /\ cl' = [cl EXCEPT ![c].st = "blocked", ![c].need = need]
  /\ acks' = [acks EXCEPT ![m] = [waiting |-> Append(@.waiting, c), get |-> TRUE]]
  /\ UNCHANGED <<srv, conn, disk, count>>

\* What client c gets when it is counted for, and whether it is enough for it.
Own(c) == replicationCountAcksByOffset(cl[c].at, cl[c].woff)
Enough(c) == Own(c) >= cl[c].need

\* A client that asks for less than client l, just served, gets the same number.
Covers(l, c) == l # None /\ cl[l].woff > cl[c].woff /\ Own(l) > cl[c].need

\* The members of ws at the places I, in order.
Nth(I, n) == CHOOSE i \in I : Cardinality({x \in I : x < i}) = n - 1
Pick(ws, I) == [n \in 1 .. Cardinality(I) |-> ws[Nth(I, n)]]

\* The last client before place i of ws that was counted for, if those at the places S were.
LastCounted(ws, S, i) ==
  IF \E j \in S : j < i THEN ws[CHOOSE j \in S : j < i /\ \A k \in S : k < i => k <= j] ELSE None

\* processClientsWaitingReplicas of the list ws, when the clients at the places S are
\* served with a number of their own, all others that are served with that of the last one.
processClientsWaitingReplicas(ws, S) ==
  S = {i \in DOMAIN ws : ~Covers(LastCounted(ws, S, i), ws[i]) /\ Enough(ws[i])}

\* The number that the client at place i gets.
Number(ws, S, i) == IF i \in S THEN Own(ws[i]) ELSE Own(LastCounted(ws, S, i))

\* The places of the clients that are unblocked.
Unblocked(ws, S) == S \cup {i \in DOMAIN ws : Covers(LastCounted(ws, S, i), ws[i])}

\* beforeSleep: the clients in late have timed out (replyToBlockedClientTimedOut), those
\* that enough slaves have answered are unblocked, and REPLCONF GETACK goes to the
\* slaves, through the stream, if a client has blocked.
beforeSleep(m, late) ==
  LET ask == acks[m].get /\ srv[m].host = None
      all == acks[m].waiting
      ws  == Pick(all, {i \in DOMAIN all : all[i] \notin late})
  IN
  /\ all # <<>> \/ acks[m].get
  /\ \E S \in SUBSET DOMAIN ws :
       LET U == Unblocked(ws, S)
           at(c) == CHOOSE i \in U : ws[i] = c
       IN
       /\ processClientsWaitingReplicas(ws, S)
       /\ cl' = [c \in Clients |->
            CASE c \in late -> Replied(cl[c], Own(c))
              [] c \in {ws[i] : i \in U} -> Replied(cl[c], Number(ws, S, at(c)))
              [] OTHER -> cl[c]]
       /\ acks' = [acks EXCEPT ![m] = [waiting |-> Pick(ws, DOMAIN ws \ U), get |-> FALSE]]
  /\ srv' = IF ask /\ Feeds(m)
            THEN [srv EXCEPT ![m] = feedReplicationBacklog(Applied(@, GetAck), GetAck)] ELSE srv
  /\ conn' = IF ask THEN Fed(conn, m, GetAck) ELSE conn
  /\ UNCHANGED <<disk, count>>

-----------------------------------------------------------------------------
(* The specification.                                                       *)

\* What the network and the replication code do by themselves.
Progress(r) ==
  \/ SendPsync(r) \/ RefusePsync(r) \/ PartialResync(r) \/ FullResync(r)
  \/ ReceiveContinue(r) \/ ReceiveFullresync(r) \/ readSyncBulkPayload(r)
  \/ ReceiveByte(r) \/ SeeClose(r) \/ replicationSendAck(r)

Next ==
  \E n \in count.max.nodes :
    \/ Progress(n)
    \/ Write(n) \/ replicationUnsetMaster(n) \/ replicationCron(n)
    \/ \E m \in count.max.hosts : replicaof(n, m)
    \/ LoadFails(n) \/ LinkDown(n) \/ SaveRdb(n) \/ Restart(n)
    \/ \E late \in SUBSET ToSet(acks[n].waiting) : beforeSleep(n, late)
    \/ \E c \in count.max.clients :
         /\ cl[c].at = n
         /\ WaitReplies(c) \/ \E need \in 1 .. Cardinality(count.max.nodes) - 1 : WaitBlocks(c, need)

\* A replica retries once a second and sockets are read when they have data.
\* beforeSleep runs in every turn of the event loop.  No client need time out.
Fairness == \A r \in Nodes : WF_vars(Progress(r) \/ beforeSleep(r, {}))

Spec == Init /\ [][Next]_vars
FairSpec == Spec /\ Fairness

-----------------------------------------------------------------------------
(* Properties.                                                              *)

\* States, offsets and links are of their types, and the backlog keeps to
\* repl_backlog_size.
TypeOK ==
  /\ \A n \in Nodes :
       /\ srv[n].host \in Nodes \cup {None}
       /\ srv[n].state \in {"none", "connect", "psync", "transfer", "connected"}
       /\ srv[n].off \in Nat /\ srv[n].off2 \in Nat \cup {-1}
       /\ Len(srv[n].buf) <= BacklogSize
  /\ \A r \in Nodes : conn[r].to \in Nodes \cup {None}
  /\ \A n \in Nodes : ToSet(acks[n].waiting) \subseteq Clients

\* A replica never continues from a history its master does not share: what
\* it has, or will have loaded, and what is on its way make up exactly the
\* dataset of its master.
StreamConsistent ==
  \A r \in Nodes :
    LET c == conn[r] IN
    c.to # None /\ c.open /\ c.phase = "slave" =>
      srv[c.to].data = (IF c.reply.type = "full" THEN c.reply.data ELSE srv[r].data) \o c.q

\* serverAssert(!(listLength(slaves) != 0 && server.repl_backlog == NULL)) of
\* replicationFeedSlaves: an instance with slaves has a backlog.
SlavesNeedBacklog == \A m \in Nodes : Slaves(m) # {} => srv[m].backlog

\* The backlog is the end of the dataset, so that the bytes it sends are the
\* ones the replica misses.
BacklogIsTail ==
  \A m \in Nodes :
    LET s == srv[m]
        k == Len(s.data) - Len(s.buf)
    IN  s.backlog => k >= 0 /\ s.buf = SubSeq(s.data, k + 1, Len(s.data))

\* A number that WAIT returns is never more than the number of other instances that
\* have the write at that moment, whatever roles the instances had in between and
\* also when it was another client's number.  Not if the instance has lost the write
\* itself, and not for an offset of 0, which a slave that has acknowledged nothing
\* has reached too.
WaitCountsCopies == \A c \in Clients : cl[c].st # "misled"

\* Clients that are blocked in WAIT are blocked in a master, in one list.
WaitersAtMasters ==
  \A n \in Nodes :
    LET ws == acks[n].waiting IN
    /\ ws # <<>> => srv[n].host = None
    /\ ToSet(ws) = {c \in Clients : cl[c].st = "blocked" /\ cl[c].at = n}
    /\ IsInjective(ws)

\* The replicas of a master have its dataset.
CaughtUp ==
  \A r \in Nodes :
    LET m == srv[r].host IN
    m # None => (srv[m].host = None => srv[r].data = srv[m].data)

\* A client blocked in WAIT waits for more slaves than there are, or for an offset its
\* instance has lost since.
WaitersServed ==
  \A c \in Clients :
    LET m == cl[c].at IN
    cl[c].st = "blocked" => cl[c].need > Cardinality(Slaves(m)) \/ cl[c].woff > srv[m].off

\* When the reconfigurations are over, the replicas of a master have its dataset in
\* the end, and no client waits in vain for their acknowledgements.
ReplicasCatchUp == <>[](CaughtUp /\ WaitersServed)

\* What a partial resynchronisation and WAIT rely on, at every instant and in every
\* order of promotions, demotions, lost links, failed loads and restarts.
ReplicationSound ==
  /\ TypeOK /\ StreamConsistent /\ BacklogIsTail /\ SlavesNeedBacklog
  /\ WaitCountsCopies /\ WaitersAtMasters
=============================================================================
