--------------------------- MODULE ClusterMigration ---------------------------
(***************************************************************************)
(* A hash slot moves from one master to another while clients use it       *)
(* (cluster.c; the mover is clusterManagerMoveSlot of redis-cli.c).  The   *)
(* slot is opened with SETSLOT IMPORTING at the target and SETSLOT         *)
(* MIGRATING at the source, MIGRATE moves its keys a batch at a time, and  *)
(* SETSLOT NODE closes it, node by node.  Meanwhile every node answers     *)
(* clients from its own table, with the value or with a redirection, and   *)
(* the tables change by gossip too.                                        *)
(*                                                                         *)
(* The module follows one slot.  All nodes are masters and keep other      *)
(* slots, so none is ever demoted, and the cluster is up.  MIGRATE blocks  *)
(* its node, not the target: its RESTOREs, their replies and the socket    *)
(* errors are steps of their own.                                          *)
(***************************************************************************)
EXTENDS Integers, Sequences, FiniteSets, SequencesExt

CONSTANTS
  Nodes,          \* the nodes, as positive integers ordered like their names
  Keys,           \* the keys of the slot
  Clients,
  Source, Target, \* the two ends of the move
  Worlds,         \* the situations to start from
  MaxEpoch        \* bound on currentEpoch

None == 0
Absent == 0

Links == {l \in Nodes \X Nodes : l[1] # l[2]}

\* What clients may ask: read or write one key, delete it, read several keys,
\* or take a value from a key and wait for it if need be (BLPOP).
Ops == {"READ", "WRITE", "DEL", "READALL", "POP"}

\* A situation: the clients, the links that work, the configEpochs, the keys the source
\* holds, what clients do, and how many writes, socket errors, further
\* attempts at the move and new configEpochs of a bystander may happen.
World == [clients : SUBSET Clients, links : SUBSET Links, epoch : [Nodes -> Nat], keys : SUBSET Keys,
          ops : SUBSET Ops, writes : Nat, faults : Nat, retries : Nat, bumps : Nat]

ASSUME MigrationAssumption ==
  /\ Nodes \subseteq Nat \ {None}
  /\ Source \in Nodes /\ Target \in Nodes \ {Source}
  /\ Worlds \subseteq World
  /\ MaxEpoch \in Nat

VARIABLES
  node,     \* [node]: currentEpoch, configEpoch of every node, and of the slot
            \* the owner, migrating_slots_to and importing_slots_from
  db,       \* [node][key]: the value stored, or Absent
  msg,      \* [link]: the PING/PONG on its way
  upd,      \* [link]: the UPDATE on its way
  mover,    \* the redis-cli that moves the slot
  mig,      \* the MIGRATE being executed at the source
  conn,     \* its connection: RESTOREs not executed and replies not read
  late,     \* RESTOREs on connections the source gave up
  client,   \* [client]: its command and where it is
  last,     \* [key]: the value of the last write that was answered
  wrong,    \* <<node, key>>: a command executed there saw another value than
            \* the last one
  odd,      \* what the network or an operator did to the move: see Odd
  left      \* what the world still allows

vars == <<node, db, msg, upd, mover, mig, conn, late, client, last, wrong, odd, left>>

NoMig == [keys |-> <<>>, replace |-> FALSE, err |-> "none", any |-> FALSE, retry |-> FALSE]
NoConn == [cmds |-> <<>>, replies |-> <<>>]
NoMsg == [empty |-> TRUE]
Idle == [mode |-> "idle"]

\* Events the promises below have to except:
\*   copied       keys whose RESTORE was executed with a reply MIGRATE did not
\*                read, so that the copy at the source stays,
\*   overwritten  keys whose value at the target such a RESTORE replaced,
\*   rival        the source has a greater configEpoch than the target when
\*                the target takes the slot, or takes one afterwards while a
\*                table or a message still names the source as the owner.
NothingOdd == [copied |-> {}, overwritten |-> {}, rival |-> FALSE]

Init ==
  \E w \in Worlds :
    LET top == CHOOSE e \in {w.epoch[n] : n \in Nodes} : \A n \in Nodes : w.epoch[n] <= e
        val == [k \in Keys |-> IF k \in w.keys THEN 1 ELSE Absent]
    IN
    /\ node = [n \in Nodes |-> [cur |-> top, cfg |-> w.epoch, owner |-> Source,
                                migrating |-> None, importing |-> None]]
    /\ db = [n \in Nodes |-> IF n = Source THEN val ELSE [k \in Keys |-> Absent]]
    /\ msg = [l \in Links |-> NoMsg]
    /\ upd = [l \in Links |-> NoMsg]
    /\ mover = [pc |-> "importing", keys |-> {}, replace |-> FALSE,
                rest |-> {}, digest |-> <<>>]
    /\ mig = NoMig /\ conn = NoConn /\ late = {}
    /\ client = [c \in Clients |-> Idle]
    /\ last = val /\ wrong = {} /\ odd = NothingOdd
    /\ left = [clients |-> w.clients, links |-> w.links, ops |-> w.ops, writes |-> w.writes,
               faults |-> w.faults, retries |-> w.retries, bumps |-> w.bumps]

-----------------------------------------------------------------------------
(* Answering a command.                                                     *)

\* Mutant of getNodeByQuery: no TRYAGAIN.
NeverTryAgain(n, ks, asking) ==
  LET v         == node[n]
      migrating == v.owner = n /\ v.migrating # None
      missing   == {k \in ks : db[n][k] = Absent}
  IN  IF migrating /\ missing # {} THEN [as |-> "ASK", to |-> v.migrating]
      ELSE IF v.owner = n \/ (v.importing # None /\ asking) THEN [as |-> "SERVE", to |-> n]
      ELSE [as |-> "MOVED", to |-> v.owner]

\* Mutant of getNodeByQuery: a migrating node answers for the keys it misses.
NeverAsks(n, ks, asking) ==
  LET v == node[n] IN
  IF (v.importing # None /\ asking) \/ v.owner = n THEN [as |-> "SERVE", to |-> n]
  ELSE [as |-> "MOVED", to |-> v.owner]

\* getNodeByQuery at n for the keys ks, and the error the client gets
\* (clusterRedirectClient) if n is not to serve them.
getNodeByQuery(n, ks, asking) ==
  LET v         == node[n]
      migrating == v.owner = n /\ v.migrating # None
      importing == ~migrating /\ v.importing # None
      missing   == {k \in ks : db[n][k] = Absent}
  IN  IF v.owner = None THEN [as |-> "CLUSTERDOWN", to |-> None]
      ELSE IF migrating /\ missing # {} THEN [as |-> "ASK", to |-> v.migrating]
      ELSE IF importing /\ asking
      THEN IF Cardinality(ks) > 1 /\ missing # {}
           THEN [as |-> "TRYAGAIN", to |-> None]
           ELSE [as |-> "SERVE", to |-> n]
      ELSE [as |-> IF v.owner = n THEN "SERVE" ELSE "MOVED", to |-> v.owner]

\* A node that executes MIGRATE executes nothing else.
Free(n) == n = Source => mig = NoMig

\* Clients blocked at n on key k.
Waiting(n, k) ==
  {c \in Clients : client[c].mode = "blocked" /\ client[c].at = n /\ k \in client[c].keys}

\* The keys of ks of which node n has another value than the last one.
Stale(n, ks) == {<<n, k>> : k \in {key \in ks : db[n][key] # last[key]}}

\* Key k of node n gets a value, v, and the clients cls are done with their
\* commands.  If a client waits for the key it takes the value at once
\* (handleClientsBlockedOnKeys).
Put(n, k, v, cls, answered) ==
  IF Waiting(n, k) = {}
  THEN /\ db' = [db EXCEPT ![n][k] = v]
       /\ client' = [c \in Clients |-> IF c \in cls THEN Idle ELSE client[c]]
       /\ last' = IF answered THEN [last EXCEPT ![k] = v] ELSE last
       /\ UNCHANGED wrong
  ELSE \E w \in Waiting(n, k) :
       /\ db' = [db EXCEPT ![n][k] = Absent]
       /\ client' = [c \in Clients |-> IF c \in cls \cup {w} THEN Idle ELSE client[c]]
       /\ last' = [last EXCEPT ![k] = Absent]
       /\ wrong' = IF answered \/ v = last[k] THEN wrong ELSE wrong \cup {<<n, k>>}

-----------------------------------------------------------------------------
(* Clients.                                                                 *)

\* A client sends a command to some node.
Send(c) ==
  /\ client[c] = Idle /\ c \in left.clients
  /\ \E op \in left.ops, n \in Nodes, ks \in {{k} : k \in Keys} \cup {Keys} :
       /\ op = "READALL" <=> ks = Keys
       /\ op = "WRITE" => left.writes > 0
       /\ client' = [client EXCEPT ![c] =
            [mode |-> "sent", op |-> op, keys |-> ks, at |-> n, asking |-> FALSE,
             value |-> IF op = "WRITE" THEN left.writes + 1 ELSE Absent]]
       /\ left' = IF op = "WRITE" THEN [left EXCEPT !.writes = @ - 1] ELSE left
  /\ UNCHANGED <<node, db, msg, upd, mover, mig, conn, late, last, wrong, odd>>

\* The node executes the command: call() after processCommand.
Execute(c) ==
  LET m == client[c]
      n == m.at
      k == CHOOSE key \in m.keys : TRUE
  IN
  /\ m.mode = "sent" /\ Free(n)
  /\ getNodeByQuery(n, m.keys, m.asking).as = "SERVE"
  /\ \/ /\ m.op \in {"READ", "READALL"}
        /\ wrong' = wrong \cup Stale(n, m.keys)
        /\ client' = [client EXCEPT ![c] = Idle]
        /\ UNCHANGED <<db, last>>
     \/ /\ m.op = "WRITE"
        /\ Put(n, k, m.value, {c}, TRUE)
     \/ /\ m.op = "DEL" \/ (m.op = "POP" /\ db[n][k] # Absent)
        /\ wrong' = wrong \cup Stale(n, {k})
        /\ db' = [db EXCEPT ![n][k] = Absent]
        /\ last' = [last EXCEPT ![k] = Absent]
        /\ client' = [client EXCEPT ![c] = Idle]
     \/ /\ m.op = "POP" /\ db[n][k] = Absent
        /\ client' = [client EXCEPT ![c].mode = "blocked", ![c].asking = FALSE]
        /\ UNCHANGED <<db, last, wrong>>
  /\ UNCHANGED <<node, msg, upd, mover, mig, conn, late, odd, left>>

\* What a client library does with a redirection: it follows MOVED, follows
\* ASK with ASKING in front of the command, and reports any other error.
Follow(m, r) ==
  IF r.as \in {"MOVED", "ASK"}
  THEN [m EXCEPT !.mode = "sent", !.at = r.to, !.asking = (r.as = "ASK")]
  ELSE Idle

\* processCommand redirects the client instead.
Redirect(c) ==
  LET m == client[c] IN
  /\ m.mode = "sent" /\ Free(m.at)
  /\ LET r == getNodeByQuery(m.at, m.keys, m.asking) IN
       /\ r.as # "SERVE"
       /\ client' = [client EXCEPT ![c] = Follow(m, r)]
  /\ UNCHANGED <<node, db, msg, upd, mover, mig, conn, late, last, wrong, odd, left>>

\* Mutant of MayWait: blocked clients stay where they are.
WaitsForever(n) == TRUE

\* clusterRedirectBlockedClientIfNeeded: may clients go on waiting at n?
MayWait(n) == node[n].owner = n \/ node[n].importing # None

\* clientsCron looks at a blocked client.
clientsCronHandleTimeout(c) ==
  LET m == client[c] IN
  /\ m.mode = "blocked" /\ Free(m.at)
  /\ ~MayWait(m.at)
  /\ client' = [client EXCEPT ![c] =
       Follow(m, IF node[m.at].owner = None THEN [as |-> "CLUSTERDOWN", to |-> None]
                 ELSE [as |-> "MOVED", to |-> node[m.at].owner])]
  /\ UNCHANGED <<node, db, msg, upd, mover, mig, conn, late, last, wrong, odd, left>>

-----------------------------------------------------------------------------
(* MIGRATE and RESTORE.                                                     *)

\* Mutant of Acknowledged: any reply will do.
AnyReply(r) == TRUE

\* migrateCommand deletes the key after this reply to its RESTORE.
Acknowledged(r) == r = "OK"

\* The RESTORE-ASKING commands for the keys ks of the source.
Restores(ks, replace) ==
  [i \in 1..Len(ks) |-> [key |-> ks[i], value |-> db[Source][ks[i]], replace |-> replace]]

\* The mover goes on with step r; what it knew of the last batch is of no use
\* when it asks for another one or gives up.
Replied(r) ==
  mover' = IF r \in {"getkeys", "failed"}
           THEN [mover EXCEPT !.pc = r, !.keys = {}, !.replace = FALSE, !.digest = <<>>]
           ELSE [mover EXCEPT !.pc = r]

\* getNodeByQuery lets MIGRATE through at the source: the slot is the
\* source's, or open there.
MayMigrate ==
  LET v == node[Source] IN
  v.owner # None /\ (v.owner = Source \/ v.importing # None)

\* migrateCommand, up to the transfer of the commands: the keys that exist are
\* sent on a new or cached connection; with none, the reply is NOKEY.
migrateCommand ==
  LET ks == {k \in mover.keys : db[Source][k] # Absent} IN
  /\ mover.pc = "migrate"
  /\ IF ~MayMigrate
     THEN Replied("MOVED") /\ UNCHANGED <<mig, conn>>
     ELSE IF ks = {}
     THEN Replied("getkeys") /\ UNCHANGED <<mig, conn>>
     ELSE \E s \in SetToSeqs(ks) :
          /\ mig' = [keys |-> s, replace |-> mover.replace, err |-> "none",
                     any |-> FALSE, retry |-> TRUE]
          /\ conn' = [cmds |-> Restores(s, mover.replace), replies |-> <<>>]
          /\ mover' = [mover EXCEPT !.pc = "wait"]
  /\ UNCHANGED <<node, db, msg, upd, late, client, last, wrong, odd, left>>

\* restoreCommand's reply at the target.  RESTORE-ASKING needs no ASKING.
RestoreReply(cmd) ==
  IF getNodeByQuery(Target, {cmd.key}, TRUE).as # "SERVE" THEN "MOVED"
  ELSE IF ~cmd.replace /\ db[Target][cmd.key] # Absent THEN "BUSYKEY"
  ELSE "OK"

\* The state after restoreCommand.
Restored(cmd) ==
  IF RestoreReply(cmd) = "OK" THEN Put(Target, cmd.key, cmd.value, {}, FALSE)
  ELSE UNCHANGED <<db, client, last, wrong>>

\* The target executes the next RESTORE of the connection.
restoreCommand ==
  /\ conn.cmds # <<>>
  /\ Restored(Head(conn.cmds))
  /\ conn' = [cmds |-> Tail(conn.cmds),
              replies |-> Append(conn.replies, RestoreReply(Head(conn.cmds)))]
  /\ UNCHANGED <<node, msg, upd, mover, mig, late, odd, left>>

\* It executes one that came on a connection the source has given up, whose
\* reply nobody reads; or that connection is lost with what was left on it.
LateRestore(x) ==
  LET cmd == Head(x.cmds)
      ok  == RestoreReply(cmd) = "OK"
  IN
  /\ x \in late
  /\ \/ /\ Restored(cmd)
        /\ odd' = [odd EXCEPT
             !.copied = IF ok THEN @ \cup {cmd.key} ELSE @,
             !.overwritten = IF ok /\ db[Target][cmd.key] \notin {Absent, cmd.value}
                             THEN @ \cup {cmd.key} ELSE @]
        /\ late' = (late \ {x}) \cup
             IF Len(x.cmds) > 1 THEN {[x EXCEPT !.cmds = Tail(@)]} ELSE {}
     \/ /\ late' = late \ {x}
        /\ UNCHANGED <<db, client, last, wrong, odd>>
  /\ UNCHANGED <<node, msg, upd, mover, mig, conn, left>>

\* migrateCommand reads the reply of the next key: it deletes the key, or
\* remembers the first error and goes on.
MigrateReadReply ==
  LET r == Head(conn.replies)
      k == Head(mig.keys)
      e == IF mig.err = "none" /\ r # "OK" THEN r ELSE mig.err
  IN
  /\ conn.replies # <<>>
  /\ db' = IF Acknowledged(r) THEN [db EXCEPT ![Source][k] = Absent] ELSE db
  /\ IF Len(mig.keys) = 1
     THEN /\ mig' = NoMig /\ conn' = NoConn
          /\ Replied(IF e = "none" THEN "getkeys" ELSE e)
     ELSE /\ mig' = [mig EXCEPT !.keys = Tail(@), !.err = e, !.any = TRUE]
          /\ conn' = [conn EXCEPT !.replies = Tail(@)]
          /\ UNCHANGED mover
  /\ UNCHANGED <<node, msg, upd, late, client, last, wrong, odd, left>>

\* Writing or reading fails.  MIGRATE starts again on a new connection, once,
\* if the error is no timeout and no reply was read; otherwise it ends, with
\* the keys that were not acknowledged still here.
MigrateSocketError(timeout) ==
  /\ mig # NoMig /\ left.faults > 0
  /\ left' = [left EXCEPT !.faults = @ - 1]
  /\ late' = late \cup IF conn.cmds = <<>> THEN {}
                       ELSE {[id |-> left.faults, cmds |-> conn.cmds]}
  /\ odd' = [odd EXCEPT !.copied = @ \cup
                {mig.keys[i] : i \in {j \in DOMAIN conn.replies : conn.replies[j] = "OK"}}]
  /\ IF ~timeout /\ mig.retry /\ ~mig.any
     THEN /\ mig' = [mig EXCEPT !.retry = FALSE]
          /\ conn' = [cmds |-> Restores(mig.keys, mig.replace), replies |-> <<>>]
          /\ UNCHANGED mover
     ELSE /\ mig' = NoMig /\ conn' = NoConn
          /\ Replied(IF mig.err = "none" THEN "IOERR" ELSE mig.err)
  /\ UNCHANGED <<node, db, msg, upd, client, last, wrong>>

-----------------------------------------------------------------------------
(* CLUSTER SETSLOT and the epochs.                                          *)

\* Some node, or a message on its way, still names the source as the owner.
SourceNamed ==
  \/ \E n \in Nodes : node[n].owner = Source
  \/ \E l \in Links : msg[l] # NoMsg /\ l[1] = Source /\ msg[l].has
  \/ \E l \in Links : upd[l] # NoMsg /\ upd[l].about = Source

\* A step that changes the tables: does it make the source a rival?
NoteRival ==
  odd' = [odd EXCEPT !.rival =
    \/ @
    \/ /\ node'[Target].owner = Target
       /\ node'[Source].cfg[Source] > node'[Target].cfg[Target]
       /\ node[Target].owner # Target \/ SourceNamed]

HasKeys(n) == \E k \in Keys : db[n][k] # Absent

\* clusterBumpConfigEpochWithoutConsensus at n, whose view is v.
Bumped(v, n) ==
  LET top == v.cur <= v.cfg[n] /\ \A k \in Nodes : v.cfg[k] <= v.cfg[n] IN
  IF v.cfg[n] = 0 \/ ~top
  THEN [v EXCEPT !.cur = @ + 1, !.cfg[n] = v.cur + 1]
  ELSE v

\* Mutant of AssignSlot: only a node where the slot is open takes the owner.
AssignsIfOpen(n, t) ==
  LET v == node[n] IN
  IF v.migrating = None /\ v.importing = None THEN v
  ELSE [(IF n = t THEN Bumped(v, n) ELSE v)
          EXCEPT !.migrating = None, !.importing = None, !.owner = t]

\* SETSLOT <slot> NODE t at n, when it is not refused.
AssignSlot(n, t) ==
  LET v     == node[n]
      moved == IF ~HasKeys(n) THEN [v EXCEPT !.migrating = None] ELSE v
      mine  == IF n = t /\ v.importing # None
               THEN [Bumped(moved, n) EXCEPT !.importing = None] ELSE moved
  IN  [mine EXCEPT !.owner = t]

-----------------------------------------------------------------------------
(* The mover: clusterManagerMoveSlot and clusterManagerMigrateKeysInSlot.   *)
(* Each step is one command and its reply; an error ends the move.          *)

\* CLUSTER SETSLOT <slot> IMPORTING at the target.
SetSlotImporting ==
  /\ mover.pc = "importing"
  /\ IF node[Target].owner = Target
     THEN Replied("failed") /\ UNCHANGED node
     ELSE /\ node' = [node EXCEPT ![Target].importing = Source]
          /\ Replied("migrating")
  /\ UNCHANGED <<db, msg, upd, mig, conn, late, client, last, wrong, odd, left>>

\* CLUSTER SETSLOT <slot> MIGRATING at the source.
SetSlotMigrating ==
  /\ mover.pc = "migrating"
  /\ IF node[Source].owner # Source
     THEN Replied("failed") /\ UNCHANGED node
     ELSE /\ node' = [node EXCEPT ![Source].migrating = Target]
          /\ Replied("getkeys")
  /\ UNCHANGED <<db, msg, upd, mig, conn, late, client, last, wrong, odd, left>>

\* CLUSTER GETKEYSINSLOT: some keys of the slot, or none when all have moved.
getKeysInSlot ==
  LET here == {k \in Keys : db[Source][k] # Absent} IN
  /\ mover.pc = "getkeys"
  /\ \/ /\ here = {}
        /\ mover' = [mover EXCEPT !.pc = "node", !.rest = Nodes]
     \/ \E ks \in SUBSET here :
          /\ ks # {}
          /\ mover' = [mover EXCEPT !.pc = "migrate", !.keys = ks, !.replace = FALSE]
  /\ UNCHANGED <<node, db, msg, upd, mig, conn, late, client, last, wrong, odd, left>>

\* MIGRATE failed.  Only BUSYKEY is handled, and once: the values of the keys
\* are compared before the keys are replaced, or not (--cluster-replace).
MigrateFailed ==
  /\ \/ /\ mover.pc = "BUSYKEY" /\ ~mover.replace
        /\ \/ Replied("digest")
           \/ mover' = [mover EXCEPT !.pc = "migrate", !.replace = TRUE]
     \/ /\ mover.pc \in {"IOERR", "MOVED"} \/ (mover.pc = "BUSYKEY" /\ mover.replace)
        /\ Replied("failed")
  /\ UNCHANGED <<node, db, msg, upd, mig, conn, late, client, last, wrong, odd, left>>

\* clusterManagerCompareKeysValues: DEBUG DIGEST-VALUE at the source and then
\* at the target.  Keys that one of them misses are ignored.
CompareKeysValues ==
  /\ \/ /\ mover.pc = "digest"
        /\ mover' = [mover EXCEPT !.pc = "compare", !.digest = db[Source]]
     \/ /\ mover.pc = "compare"
        /\ LET differ == {k \in mover.keys :
                 /\ mover.digest[k] # Absent /\ db[Target][k] # Absent
                 /\ mover.digest[k] # db[Target][k]}
           IN  IF differ # {} THEN Replied("failed")
               ELSE mover' = [mover EXCEPT !.pc = "migrate", !.replace = TRUE,
                                           !.digest = <<>>]
  /\ UNCHANGED <<node, db, msg, upd, mig, conn, late, client, last, wrong, odd, left>>

\* CLUSTER SETSLOT <slot> NODE <target> at n, in any order of the nodes.
SetSlotNode(n) ==
  /\ mover.pc = "node" /\ n \in mover.rest
  /\ IF node[n].owner = n /\ n # Target /\ HasKeys(n)
     THEN Replied("failed") /\ UNCHANGED node
     ELSE /\ node' = [node EXCEPT ![n] = AssignSlot(n, Target)]
          /\ mover' = [mover EXCEPT !.rest = @ \ {n},
                                    !.pc = IF mover.rest = {n} THEN "done" ELSE @]
  /\ NoteRival
  /\ UNCHANGED <<db, msg, upd, mig, conn, late, client, last, wrong, left>>

\* The move is started again.
MoveAgain ==
  /\ mover.pc = "failed" /\ left.retries > 0
  /\ Replied("importing")
  /\ left' = [left EXCEPT !.retries = @ - 1]
  /\ UNCHANGED <<node, db, msg, upd, mig, conn, late, client, last, wrong, odd>>

-----------------------------------------------------------------------------
(* Gossip about the slot, as in ClusterConfig.                              *)

Greater(a, b) == IF a > b THEN a ELSE b

\* Headers: currentEpoch and the sender's configEpoch.
SeeHeader(v, k, cur, cfg) ==
  [v EXCEPT !.cur = Greater(@, cur), !.cfg[k] = Greater(@, cfg)]

\* Is the slot rebound to k, which claims it with configEpoch cfg?
Rebinds(v, k, cfg) ==
  /\ v.owner # k /\ v.importing = None
  /\ v.owner = None \/ v.cfg[v.owner] < cfg

\* clusterUpdateSlotsConfigWith(k, cfg, the slot) at a node with view v.
UpdateSlots(v, k, cfg) ==
  IF Rebinds(v, k, cfg) THEN [v EXCEPT !.owner = k] ELSE v

\* Its other effect at n: the keys of a slot that is lost are deleted
\* (delKeysInSlot).
DeleteDirty(n, v, k, cfg) ==
  IF Rebinds(v, k, cfg) /\ v.owner = n
  THEN [db EXCEPT ![n] = [key \in Keys |-> Absent]] ELSE db

\* clusterHandleConfigEpochCollision at n.
HandleCollision(v, n, k, cfg) ==
  IF cfg = v.cfg[n] /\ v.cfg[k] = v.cfg[n] /\ k > n
  THEN [v EXCEPT !.cur = @ + 1, !.cfg[n] = v.cur + 1]
  ELSE v

\* clusterSendPing.
clusterSendPing(l) ==
  LET v == node[l[1]] IN
  /\ l \in left.links /\ msg[l] = NoMsg /\ Free(l[1])
  /\ msg' = [msg EXCEPT ![l] =
       [cur |-> v.cur, cfg |-> v.cfg[l[1]], has |-> v.owner = l[1]]]
  /\ UNCHANGED <<node, db, upd, mover, mig, conn, late, client, last, wrong, odd, left>>

\* A PING or PONG is read: header, slot, UPDATE in return to an outdated
\* claim, collision.
ReceivePing(l) ==
  LET k    == l[1]
      n    == l[2]
      m    == msg[l]
      seen == SeeHeader(node[n], k, m.cur, m.cfg)
      new  == IF m.has THEN UpdateSlots(seen, k, m.cfg) ELSE seen
      old  == m.has /\ new.owner \notin {k, None} /\ new.cfg[new.owner] > m.cfg
  IN
  /\ m # NoMsg /\ Free(n)
  /\ new.cur < MaxEpoch
  /\ node' = [node EXCEPT ![n] = HandleCollision(new, n, k, m.cfg)]
  /\ db' = IF m.has THEN DeleteDirty(n, seen, k, m.cfg) ELSE db
  /\ upd' = IF old
            THEN [upd EXCEPT ![<<n, k>>] =
                   [cur |-> new.cur, hdr |-> new.cfg[n], about |-> new.owner,
                    cfg |-> new.cfg[new.owner]]]
            ELSE upd
  /\ msg' = [msg EXCEPT ![l] = NoMsg]
  /\ NoteRival
  /\ UNCHANGED <<mover, mig, conn, late, client, last, wrong, left>>

\* An UPDATE is read, about a node that had the slot when it was sent.
ReceiveUpdate(l) ==
  LET n    == l[2]
      m    == upd[l]
      seen == SeeHeader(node[n], l[1], m.cur, m.hdr)
      told == [seen EXCEPT !.cfg[m.about] = m.cfg]
      news == seen.cfg[m.about] < m.cfg /\ m.about # n
  IN
  /\ m # NoMsg /\ Free(n)
  /\ node' = [node EXCEPT ![n] = IF news THEN UpdateSlots(told, m.about, m.cfg) ELSE seen]
  /\ db' = IF news THEN DeleteDirty(n, told, m.about, m.cfg) ELSE db
  /\ upd' = [upd EXCEPT ![l] = NoMsg]
  /\ NoteRival
  /\ UNCHANGED <<msg, mover, mig, conn, late, client, last, wrong, left>>

\* Any node gets a new configEpoch (CLUSTER BUMPEPOCH, or another slot it has
\* imported).
BumpEpoch(n) ==
  /\ left.bumps > 0 /\ Free(n)
  /\ node' = [node EXCEPT ![n] = Bumped(@, n)]
  /\ left' = [left EXCEPT !.bumps = @ - 1]
  /\ NoteRival
  /\ UNCHANGED <<db, msg, upd, mover, mig, conn, late, client, last, wrong>>

-----------------------------------------------------------------------------
\* The commands the mover sends, and what it does with a failed one.
Move ==
  \/ SetSlotImporting \/ SetSlotMigrating \/ getKeysInSlot \/ migrateCommand
  \/ MigrateFailed \/ CompareKeysValues
  \/ \E n \in Nodes : SetSlotNode(n)

Next ==
  \/ \E c \in Clients : Send(c) \/ Execute(c) \/ Redirect(c) \/ clientsCronHandleTimeout(c)
  \/ Move \/ MoveAgain
  \/ restoreCommand \/ MigrateReadReply
  \/ \E timeout \in BOOLEAN : MigrateSocketError(timeout)
  \/ \E x \in late : LateRestore(x)
  \/ \E l \in Links : clusterSendPing(l) \/ ReceivePing(l) \/ ReceiveUpdate(l)
  \/ \E n \in Nodes : BumpEpoch(n)

Spec == Init /\ [][Next]_vars

\* The mover goes on until it is done or fails; nodes read their sockets, ping
\* each other and run clientsCron again and again.
Fairness ==
  /\ WF_vars(Move \/ restoreCommand \/ MigrateReadReply)
  /\ \A c \in Clients : WF_vars(Execute(c) \/ Redirect(c) \/ clientsCronHandleTimeout(c))
  /\ \A l \in Links : WF_vars(clusterSendPing(l) \/ ReceivePing(l))

FairSpec == Spec /\ Fairness

-----------------------------------------------------------------------------
(* Properties.                                                              *)

\* Whatever node executes a command, on its own account or for a client sent
\* over with ASK, it has the value of the last write that was answered: the
\* half moved slot shows no old value, no absent key and no lost write.  The
\* exceptions: the target may show an old copy of a key whose RESTORE it
\* executed on a connection that broke before MIGRATE read the reply
\* (cluster.c:5439 is not "sure nothing was processed"), and after a rival
\* claim of the source anything goes.
ServedFresh ==
  odd.rival \/ wrong \subseteq {Target} \X odd.copied

\* The last value of every key is stored somewhere: MIGRATE deletes no key
\* the target does not have, however its connection fails, and no stale claim
\* of the slot deletes the keys that have moved.  The exceptions: a key whose
\* newer value a RESTORE REPLACE overwrote after its connection was given up,
\* and a rival source: SETSLOT NODE takes the next epoch the target knows of,
\* no more (cluster.c:4526), and a node that still takes the source for the
\* owner sends the target an UPDATE with the source's newest configEpoch.
NothingLost ==
  \A k \in Keys :
    last[k] # Absent
      => \/ \E n \in Nodes : db[n][k] = last[k]
         \/ k \in odd.overwritten \/ odd.rival

\* No two nodes answer for the same key without ASKING, although two nodes
\* own the slot for a while.
OneAuthority ==
  \A k \in Keys : \A n, p \in Nodes :
    /\ getNodeByQuery(n, {k}, FALSE).as = "SERVE"
    /\ getNodeByQuery(p, {k}, FALSE).as = "SERVE"
    => n = p

\* A client that follows redirections gets an answer, even if it is sent back
\* and forth while the slot is being closed.
RedirectionsEnd == \A c \in Clients : (client[c].mode = "sent") ~> (client[c].mode # "sent")

\* Once the move is done all nodes come to know the target as the owner for
\* good, whatever claims and configEpochs are still on their way, unless the
\* source is a rival.
MoveIsFinal ==
  (mover.pc = "done") ~> [](odd.rival \/ \A n \in Nodes : node[n].owner = Target)

\* After the move nobody waits any more at a node that gave the slot away.
WaitersFollow ==
  \A c \in Clients :
    (mover.pc = "done" /\ client[c].mode = "blocked")
      ~> (client[c].mode = "blocked" => client[c].at = Target)
\* A client is not lost on the way: it is answered in the end and waits for a
\* key only where the key can still appear.
ClientsGetThrough == RedirectionsEnd /\ WaitersFollow
=============================================================================
