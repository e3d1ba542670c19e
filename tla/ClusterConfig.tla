---------------------------- MODULE ClusterConfig ----------------------------
(***************************************************************************)
(* How the nodes of a cluster come to agree on who serves which slot       *)
(* (cluster.c).  Each node keeps its own view of the cluster and sends it, *)
(* one claim at a time, in the header of its PINGs and PONGs: its          *)
(* currentEpoch, and the configEpoch and slots of itself or of its master. *)
(* The receiver rebinds a slot to a claim with a greater configEpoch,      *)
(* answers an outdated claim with an UPDATE packet, and moves to a new     *)
(* configEpoch of its own when it collides with the sender's.              *)
(*                                                                         *)
(* Nodes are natural numbers, ordered like the node names.  A link holds   *)
(* at most one PING/PONG and one UPDATE, which may be stale when they are  *)
(* read.                                                                   *)
(***************************************************************************)
EXTENDS Integers

CONSTANTS
  Nodes,          \* the nodes, as positive integers
  Slots,          \* the hash slots, as integers
  Worlds,         \* the situations to start from
  MaxEpoch        \* bound on currentEpoch

None == 0

Links == {l \in Nodes \X Nodes : l[1] # l[2]}

\* A situation: the links that work, the table all nodes have, and how many
\* elections and takeovers, and how many restarts, may follow.
World == [links : SUBSET Links, cur : Nat, epoch : [Nodes -> Nat],
          master : [Nodes -> Nodes \cup {None}], owner : [Slots -> Nodes],
          promotions : Nat, restarts : Nat]

ASSUME ConfigAssumption ==
  /\ Nodes \subseteq Nat \ {None}
  /\ Slots \subseteq Nat
  /\ Worlds \subseteq World
  /\ \A w \in Worlds, n \in Nodes : w.epoch[n] <= w.cur
  /\ MaxEpoch \in Nat

\* A replica owns no slots: the assertion of clusterSetMaster.
ASSUME RolesAssumption ==
  \A w \in Worlds, s \in Slots : w.master[w.owner[s]] = None

VARIABLES
  view,       \* [node]: its currentEpoch, and its configEpoch, slaveof and
              \* slots of every node
  ping,       \* [link]: the PING or PONG on its way
  update,     \* [link]: the UPDATE on its way
  auth,       \* [node]: failover_auth_epoch of the election it stands in, or 0
  links,      \* the links that work; the others are partitioned
  left,       \* how many elections and takeovers (promotions) and restarts remain
  behind      \* history: <<replica, its master>> for each promotion to a configEpoch
              \* that is not greater than the one the replica knows of its master

vars == <<view, ping, update, auth, links, left, behind>>

Views == [cur : Nat, cfg : [Nodes -> Nat], master : [Nodes -> Nodes \cup {None}],
          owner : [Slots -> Nodes \cup {None}]]

Claims == [cur : Nat, cfg : Nat, slaveof : Nodes \cup {None}, slots : SUBSET Slots]

Updates == [cur : Nat, hdr : Nat, about : Nodes, cfg : Nat, slots : SUBSET Slots]

Empty == [empty |-> TRUE]

TypeOK ==
  /\ view \in [Nodes -> Views]
  /\ ping \in [Links -> Claims \cup {Empty}]
  /\ update \in [Links -> Updates \cup {Empty}]
  /\ auth \in [Nodes -> Nat]
  /\ links \subseteq Links
  /\ left \in [promotions : Nat, restarts : Nat]
  /\ behind \subseteq Nodes \X Nodes

Init ==
  \E w \in Worlds :
    /\ view = [n \in Nodes |->
         [cur |-> w.cur, cfg |-> w.epoch, master |-> w.master, owner |-> w.owner]]
    /\ ping = [l \in Links |-> Empty]
    /\ update = [l \in Links |-> Empty]
    /\ auth = [n \in Nodes |-> 0]
    /\ links = w.links
    /\ left = [promotions |-> w.promotions, restarts |-> w.restarts]
    /\ behind = {}

-----------------------------------------------------------------------------
(* What a packet does to a view: the parts of clusterProcessPacket.  In all *)
(* of them, me is the node that owns the view v.                            *)

SlotsOf(v, k) == {s \in Slots : v.owner[s] = k}

IsMaster(v, k) == v.master[k] = None

Greater(a, b) == IF a > b THEN a ELSE b

\* Mutant of SeeHeader: the sender's currentEpoch is not taken over.
SeeHeaderNoEpoch(v, k, cur, cfg) ==
  [v EXCEPT !.cfg[k] = Greater(@, cfg)]

\* The header: currentEpoch and the sender's configEpoch only grow.
SeeHeader(v, k, cur, cfg) ==
  [v EXCEPT !.cur = Greater(@, cur), !.cfg[k] = Greater(@, cfg)]

\* The role switch: a master that is now a slave loses its slots.
SeeRole(v, k, slaveof) ==
  [v EXCEPT !.master[k] = slaveof,
            !.owner = [s \in Slots |->
              IF slaveof # None /\ IsMaster(v, k) /\ @[s] = k THEN None ELSE @[s]]]

\* Mutant of Rebinds: a claim with the same configEpoch wins too.
RebindsEqual(v, s, k, cfg) ==
  /\ v.owner[s] # k
  /\ v.owner[s] = None \/ v.cfg[v.owner[s]] <= cfg

\* Is slot s rebound to k, which claims it with configEpoch cfg?
Rebinds(v, s, k, cfg) ==
  /\ v.owner[s] # k
  /\ v.owner[s] = None \/ v.cfg[v.owner[s]] < cfg

\* clusterUpdateSlotsConfigWith(k, cfg, slots), clusterSetMaster included: me
\* follows k when k took the last slots of me or of its master.
clusterUpdateSlotsConfigWith(me, v, k, cfg, slots) ==
  LET curmaster == IF IsMaster(v, me) THEN me ELSE v.master[me]
      taken     == {s \in slots : Rebinds(v, s, k, cfg)}
      owner     == [s \in Slots |-> IF s \in taken THEN k ELSE v.owner[s]]
      demoted   == /\ \E s \in taken : v.owner[s] = curmaster
                   /\ \A s \in Slots : owner[s] # curmaster
  IN  IF k = me THEN v
      ELSE [v EXCEPT !.owner = owner,
                     !.master[me] = IF demoted THEN k ELSE @]

\* Mutant of CollisionLoser: neither node moves.
NobodyMoves(me, k) == FALSE

\* Of two masters with the same configEpoch the one with the smaller name
\* moves.
CollisionLoser(me, k) == k > me

\* clusterHandleConfigEpochCollision(k), after a claim with configEpoch cfg.
clusterHandleConfigEpochCollision(me, v, k, cfg) ==
  IF /\ IsMaster(v, me) /\ IsMaster(v, k)
     /\ cfg = v.cfg[me] /\ v.cfg[k] = v.cfg[me]
     /\ CollisionLoser(me, k)
  THEN [v EXCEPT !.cur = @ + 1, !.cfg[me] = v.cur + 1]
  ELSE v

\* The claim that node k sends: its own, or the one of its master.
ClaimOf(v, k) ==
  LET m == IF IsMaster(v, k) THEN k ELSE v.master[k] IN
  [cur |-> v.cur, cfg |-> v.cfg[m], slaveof |-> v.master[k], slots |-> SlotsOf(v, m)]

-----------------------------------------------------------------------------
(* Actions.                                                                 *)

\* clusterSendPing, by clusterCron, in answer to a PING or by a broadcast.
clusterSendPing(l) ==
  /\ l \in links
  /\ ping[l] = Empty
  /\ ping' = [ping EXCEPT ![l] = ClaimOf(view[l[1]], l[1])]
  /\ UNCHANGED <<view, update, auth, links, left, behind>>

\* The owners, in view v, of slots that k claims with a smaller configEpoch:
\* k is told about one of them, the owner of the first such slot.
Outdated(v, k, m) ==
  {o \in Nodes \ {k} : v.cfg[o] > m.cfg /\ SlotsOf(v, o) \cap m.slots # {}}

\* clusterSendUpdate(link, o) by me.
UpdateAbout(v, me, o) ==
  [cur |-> v.cur, hdr |-> ClaimOf(v, me).cfg, about |-> o, cfg |-> v.cfg[o],
   slots |-> SlotsOf(v, o)]

\* A PING or PONG is read: header, role switch, slots, UPDATE in return, and
\* collision, in this order.
ReceivePing(l) ==
  LET k     == l[1]
      n     == l[2]
      m     == ping[l]
      back  == <<n, k>>
      seen  == SeeRole(SeeHeader(view[n], k, m.cur, m.cfg), k, m.slaveof)
      km    == IF IsMaster(seen, k) THEN k ELSE seen.master[k]
      dirty == SlotsOf(seen, km) # m.slots
      upd   == IF IsMaster(seen, k) /\ dirty
               THEN clusterUpdateSlotsConfigWith(n, seen, k, m.cfg, m.slots)
               ELSE seen
  IN
  /\ m # Empty
  /\ upd.cur < MaxEpoch
  /\ view' = [view EXCEPT ![n] = clusterHandleConfigEpochCollision(n, upd, k, m.cfg)]
  /\ IF dirty /\ Outdated(upd, k, m) # {} /\ back \in links
     THEN \E o \in Outdated(upd, k, m) :
            update' = [update EXCEPT ![back] = UpdateAbout(upd, n, o)]
     ELSE UNCHANGED update
  /\ ping' = [ping EXCEPT ![l] = Empty]
  /\ UNCHANGED <<auth, links, left, behind>>

\* An UPDATE is read: nothing happens if the receiver knows better; otherwise
\* the reported node is a master with those slots.
ReceiveUpdate(l) ==
  LET n    == l[2]
      m    == update[l]
      seen == SeeHeader(view[n], l[1], m.cur, m.hdr)
      told == [seen EXCEPT !.master[m.about] = None, !.cfg[m.about] = m.cfg]
  IN
  /\ m # Empty
  /\ view' = [view EXCEPT ![n] =
       IF seen.cfg[m.about] >= m.cfg THEN seen
       ELSE clusterUpdateSlotsConfigWith(n, told, m.about, m.cfg, m.slots)]
  /\ update' = [update EXCEPT ![l] = Empty]
  /\ UNCHANGED <<ping, auth, links, left, behind>>

\* clusterFailoverReplaceYourMaster: r becomes a master with configEpoch e and
\* takes the slots of its master.
ReplaceYourMaster(r, v, cur, e) ==
  [v EXCEPT !.cur = cur, !.cfg[r] = e, !.master[r] = None,
            !.owner = [s \in Slots |-> IF @[s] = v.master[r] THEN r ELSE @[s]]]

\* r becomes a master with configEpoch e; behind records whether that is news.
Promote(r, cur, e) ==
  LET o == view[r].master[r] IN
  /\ view' = [view EXCEPT ![r] = ReplaceYourMaster(r, view[r], cur, e)]
  /\ auth' = [auth EXCEPT ![r] = 0]
  /\ behind' = IF e > view[r].cfg[o] THEN behind ELSE behind \cup {<<r, o>>}

\* A replica whose master serves slots asks for the votes of its next epoch; some
\* of the nodes it can speak to read the request and know the epoch from then on.
RequestFailoverAuth(r) ==
  LET e == view[r].cur + 1 IN
  /\ left.promotions > 0 /\ e < MaxEpoch
  /\ ~IsMaster(view[r], r)
  /\ SlotsOf(view[r], view[r].master[r]) # {}
  /\ \E asked \in SUBSET {l[2] : l \in {l \in links : l[1] = r}} :
       view' = [n \in Nodes |-> [view[n] EXCEPT !.cur =
         IF n \in asked \cup {r} THEN Greater(@, e) ELSE @]]
  /\ auth' = [auth EXCEPT ![r] = e]
  /\ left' = [left EXCEPT !.promotions = @ - 1]
  /\ UNCHANGED <<ping, update, links, behind>>

\* The votes are in (ClusterElection; the voters are masters of other slots).  Nothing
\* looks again at the epoch of the master, which may have moved since the request.
WinElection(r) ==
  /\ auth[r] # 0
  /\ ~IsMaster(view[r], r)
  /\ SlotsOf(view[r], view[r].master[r]) # {}
  /\ Promote(r, view[r].cur, Greater(view[r].cfg[r], auth[r]))
  /\ UNCHANGED <<ping, update, links, left>>

\* Is configEpoch e the greatest one known (clusterGetMaxEpoch)?
IsMaxEpoch(v, e) == v.cur <= e /\ \A k \in Nodes : v.cfg[k] <= e

\* CLUSTER FAILOVER TAKEOVER: clusterBumpConfigEpochWithoutConsensus and
\* clusterFailoverReplaceYourMaster.
Takeover(r) ==
  LET v    == view[r]
      bump == v.cfg[r] = 0 \/ ~IsMaxEpoch(v, v.cfg[r])
      cur  == IF bump THEN v.cur + 1 ELSE v.cur
      e    == IF bump THEN cur ELSE v.cfg[r]
  IN
  /\ left.promotions > 0 /\ cur < MaxEpoch
  /\ ~IsMaster(v, r)
  /\ Promote(r, cur, e)
  /\ left' = [left EXCEPT !.promotions = @ - 1]
  /\ UNCHANGED <<ping, update, links>>

\* What nodes.conf says of view v: a replica is written with the configEpoch of its
\* master, and a currentEpoch that came in a packet is only saved with the next change.
Loaded(v, cur) ==
  [v EXCEPT !.cur = cur,
            !.cfg = [k \in Nodes |-> IF IsMaster(v, k) THEN @[k] ELSE @[v.master[k]]]]

\* A node stops and starts again; its connections are closed.
Restart(n) ==
  /\ left.restarts > 0
  /\ \E cur \in 0..view[n].cur :
       /\ \A k \in Nodes : Loaded(view[n], cur).cfg[k] <= cur
       /\ view' = [view EXCEPT ![n] = Loaded(view[n], cur)]
  /\ ping' = [l \in Links |-> IF l[2] = n THEN Empty ELSE ping[l]]
  /\ update' = [l \in Links |-> IF l[2] = n THEN Empty ELSE update[l]]
  /\ auth' = [auth EXCEPT ![n] = 0]
  /\ left' = [left EXCEPT !.restarts = @ - 1]
  /\ UNCHANGED <<links, behind>>

Next ==
  \/ \E l \in Links : clusterSendPing(l) \/ ReceivePing(l) \/ ReceiveUpdate(l)
  \/ \E r \in Nodes : RequestFailoverAuth(r) \/ WinElection(r) \/ Takeover(r) \/ Restart(r)

\* clusterCron pings every node with a link again and again, and the event
\* loop reads what arrives.
Fairness ==
  \A l \in Links : /\ WF_vars(clusterSendPing(l))
                   /\ WF_vars(ReceivePing(l))
                   /\ WF_vars(ReceiveUpdate(l))

Spec == Init /\ [][Next]_vars
FairSpec == Spec /\ Fairness

-----------------------------------------------------------------------------
(* Properties.                                                              *)

\* A node's currentEpoch is never behind a configEpoch it knows, in its table
\* or in a packet: an election always runs for an epoch above every
\* configuration the replica has seen.
EpochDominates ==
  /\ \A n, k \in Nodes : view[n].cfg[k] <= view[n].cur
  /\ \A l \in Links : ping[l] # Empty => ping[l].cfg <= ping[l].cur
  /\ \A l \in Links : update[l] # Empty =>
       update[l].cfg <= update[l].cur /\ update[l].hdr <= update[l].cur

\* serverAssert(myself->numslots == 0) of clusterSetMaster: a node that says
\* it is a replica owns no slot in its own table.
ReplicaOwnsNothing ==
  \A n \in Nodes : ~IsMaster(view[n], n) => SlotsOf(view[n], n) = {}

\* May r, promoted without news, take a slot from its master o?  Only when a TAKEOVER
\* finds its own configEpoch, which it shares with o, already the greatest one known
\* and keeps it, and when o has moved since r asked for the votes it has now won.
TakesUnrenewed(r, o) ==
  /\ ~IsMaster(view[r], r) /\ o = view[r].master[r]
  /\ \/ view[r].cfg[r] = view[r].cfg[o] /\ IsMaxEpoch(view[r], view[r].cfg[o])
     \/ auth[r] # 0 /\ auth[r] <= view[r].cfg[o]

\* A slot never goes back to a claim its node knows to be older: when a node rebinds
\* a slot from another master, the configEpoch of the owner grows.  The exception is
\* TakesUnrenewed, at the promoted node itself: no packet ever carries a slot back.
SlotEpochGrows ==
  \A n \in Nodes, s \in Slots :
    LET o == view[n].owner[s]
        p == view'[n].owner[s]
    IN  o # p /\ o # None /\ p # None =>
          \/ view'[n].cfg[p] > view[n].cfg[o]
          \/ p = n /\ TakesUnrenewed(n, o)

\* No packet, restart, election or takeover moves a slot backwards (but for
\* TakesUnrenewed) or leaves it with a node that has become a replica.
SlotsMoveForward == [][SlotEpochGrows /\ ReplicaOwnsNothing']_vars

\* The nodes that can speak agree on the owner of every slot.
Agreement ==
  \A n, k \in {l[1] : l \in links}, s \in Slots :
    /\ view[n].owner[s] = view[k].owner[s]
    /\ view[n].owner[s] \in Nodes

\* Two masters that never speak hold the same slots with the same configEpoch, and
\* no third node sends an UPDATE about a claim that is not older.
Stuck == \E b \in behind : b \notin links \/ <<b[2], b[1]>> \notin links

\* After the last failover the nodes come to agree on the slots, even when the old
\* master can only be told by an UPDATE of a third node; unless the new master was
\* promoted behind that old master, and the two cannot speak.
Converges == <>[](Agreement \/ Stuck)

\* No two masters end up with the same configEpoch: "we want a system that
\* eventually always ends with different masters having different
\* configuration epochs whatever happened".  Masters that cannot speak are out.
EpochsBecomeUnique ==
  <>[](Stuck \/ \A n, k \in Nodes :
         n # k /\ IsMaster(view[n], n) /\ IsMaster(view[k], k)
           => view[n].cfg[n] # view[k].cfg[k])

\* When the promotions are over the cluster settles: one owner for every slot
\* and one configEpoch for every master.
Settles == Converges /\ EpochsBecomeUnique
=============================================================================
