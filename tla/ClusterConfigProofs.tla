------------------------- MODULE ClusterConfigProofs -------------------------
(* EpochDominates and SlotsMoveForward for every cluster, every set of      *)
(* links and every initial configuration that the assumptions allow.  The   *)
(* inductive invariant of the first is TypeOK /\ EpochDominates: a           *)
(* currentEpoch travels in the same packet as every configEpoch and is      *)
(* merged first.  The second adds ReplicaOwnsNothing.  At the end, the      *)
(* agreement on a failed node (ClusterFailDetect), which shares nothing     *)
(* with the above.                                                          *)
EXTENDS ClusterConfig, ClusterFailDetect, FiniteSetTheorems, TLAPS

Dominated(v) == \A k \in Nodes : v.cfg[k] <= v.cur

Good(v) == v \in Views /\ Dominated(v)

Raise(v, k, cur, cfg) == [v EXCEPT !.cur = cur, !.cfg[k] = cfg]

\* The one way an epoch is written: a node's configEpoch together with a
\* currentEpoch that is not below it.
LEMMA RaiseGood ==
  ASSUME NEW v, Good(v), NEW k \in Nodes, NEW cur \in Nat, NEW cfg \in Nat,
         cfg <= cur, v.cur <= cur
  PROVE  Good(Raise(v, k, cur, cfg))
<1> DEFINE w == Raise(v, k, cur, cfg)
<1>1. w \in Views
  BY DEF Good, Views, Raise
<1>2. w.cur = cur /\ w.cfg = [v.cfg EXCEPT ![k] = cfg]
  BY DEF Good, Views, Raise
<1>3. v.cfg \in [Nodes -> Nat] /\ v.cur \in Nat /\ \A j \in Nodes : v.cfg[j] <= v.cur
  BY DEF Good, Dominated, Views
<1> HIDE DEF w
<1>4. ASSUME NEW j \in Nodes PROVE w.cfg[j] <= w.cur
  <2>1. CASE j = k
    BY <1>2, <1>3, <2>1
  <2>2. CASE j # k
    <3>1. w.cfg[j] = v.cfg[j] /\ v.cfg[j] \in Nat /\ v.cfg[j] <= v.cur
      BY <1>2, <1>3, <2>2
    <3>2. v.cur \in Nat /\ v.cur <= cur /\ w.cur = cur
      BY <1>2, <1>3
    <3> QED BY <3>1, <3>2
  <2> QED BY <2>1, <2>2
<1> QED BY <1>1, <1>4 DEF Good, Dominated, w

LEMMA HeaderGood ==
  ASSUME NEW v, Good(v), NEW k \in Nodes, NEW cur \in Nat, NEW cfg \in Nat, cfg <= cur
  PROVE  Good(SeeHeader(v, k, cur, cfg)) /\ SeeHeader(v, k, cur, cfg).cur >= v.cur
<1> DEFINE c == Greater(v.cur, cur)
           d == Greater(v.cfg[k], cfg)
           w == SeeHeader(v, k, cur, cfg)
<1>1. v.cur \in Nat /\ v.cfg[k] \in Nat /\ v.cfg[k] <= v.cur
  BY DEF Good, Dominated, Views
<1>2. c \in Nat /\ d \in Nat /\ c >= v.cur /\ d <= c
  BY <1>1 DEF Greater
<1>3. w = Raise(v, k, c, d)
  BY DEF SeeHeader, Raise
<1> HIDE DEF c, d
<1>4. Good(Raise(v, k, c, d))
  BY <1>1, <1>2, RaiseGood
<1>5. Raise(v, k, c, d).cur = c
  BY DEF Raise, Good, Views
<1> QED BY <1>2, <1>3, <1>4, <1>5

LEMMA RoleGood ==
  ASSUME NEW v, Good(v), NEW k \in Nodes, NEW o \in Nodes \cup {None}
  PROVE  Good(SeeRole(v, k, o)) /\ SeeRole(v, k, o).cur = v.cur
<1>1. SeeRole(v, k, o) \in Views
  BY DEF Good, Views, SeeRole
<1>2. SeeRole(v, k, o).cfg = v.cfg /\ SeeRole(v, k, o).cur = v.cur
  BY DEF Good, Views, SeeRole
<1> QED BY <1>1, <1>2 DEF Good, Dominated

LEMMA SlotsGood ==
  ASSUME NEW me \in Nodes, NEW v, Good(v), NEW k \in Nodes, NEW cfg \in Nat,
         NEW S \in SUBSET Slots
  PROVE  /\ Good(clusterUpdateSlotsConfigWith(me, v, k, cfg, S))
         /\ clusterUpdateSlotsConfigWith(me, v, k, cfg, S).cur = v.cur
<1>1. clusterUpdateSlotsConfigWith(me, v, k, cfg, S) \in Views
  BY DEF Good, Views, clusterUpdateSlotsConfigWith
<1>2. /\ clusterUpdateSlotsConfigWith(me, v, k, cfg, S).cfg = v.cfg
      /\ clusterUpdateSlotsConfigWith(me, v, k, cfg, S).cur = v.cur
  BY DEF Good, Views, clusterUpdateSlotsConfigWith
<1> QED BY <1>1, <1>2 DEF Good, Dominated

LEMMA CollisionGood ==
  ASSUME NEW me \in Nodes, NEW v, Good(v), NEW k \in Nodes, NEW cfg \in Nat
  PROVE  /\ Good(clusterHandleConfigEpochCollision(me, v, k, cfg))
         /\ clusterHandleConfigEpochCollision(me, v, k, cfg).cur >= v.cur
<1>1. CASE clusterHandleConfigEpochCollision(me, v, k, cfg) = v
  BY <1>1 DEF Good, Views
<1>2. CASE clusterHandleConfigEpochCollision(me, v, k, cfg)
             = [v EXCEPT !.cur = @ + 1, !.cfg[me] = v.cur + 1]
  <2>1. v.cur \in Nat /\ v.cur + 1 \in Nat /\ v.cur <= v.cur + 1
    BY DEF Good, Views
  <2>2. Good(Raise(v, me, v.cur + 1, v.cur + 1))
    BY <2>1, RaiseGood
  <2>3. [v EXCEPT !.cur = @ + 1, !.cfg[me] = v.cur + 1].cur = v.cur + 1
    BY DEF Good, Views
  <2> QED BY <1>2, <2>1, <2>2, <2>3 DEF Raise
<1> QED BY <1>1, <1>2 DEF clusterHandleConfigEpochCollision

LEMMA ReplaceGood ==
  ASSUME NEW r \in Nodes, NEW v, Good(v), NEW cur \in Nat, cur >= v.cur,
         NEW e \in Nat, e <= cur
  PROVE  Good(ReplaceYourMaster(r, v, cur, e))
<1> DEFINE x == Raise(v, r, cur, e)
           w == ReplaceYourMaster(r, v, cur, e)
<1>1. Good(x)
  BY RaiseGood DEF Good, Views
<1>2. w.cfg = x.cfg /\ w.cur = x.cur
  BY DEF Good, Views, ReplaceYourMaster, Raise
<1>3. w \in Views
  BY DEF Good, Views, ReplaceYourMaster
<1> QED BY <1>1, <1>2, <1>3 DEF Good, Dominated

LEMMA ClaimGood ==
  ASSUME NEW v, Good(v), NEW k \in Nodes
  PROVE  ClaimOf(v, k) \in Claims /\ ClaimOf(v, k).cfg <= ClaimOf(v, k).cur
<1> DEFINE m == IF IsMaster(v, k) THEN k ELSE v.master[k]
<1>1. m \in Nodes /\ v.master[k] \in Nodes \cup {None} /\ v.cur \in Nat
  BY DEF Good, Views, IsMaster
<1>2. v.cfg[m] \in Nat /\ v.cfg[m] <= v.cur
  BY <1>1 DEF Good, Dominated, Views
<1>3. SlotsOf(v, m) \in SUBSET Slots
  BY DEF SlotsOf
<1> QED BY <1>1, <1>2, <1>3 DEF ClaimOf, Claims

\* The inductive invariant, one conjunct per place an epoch is kept.
IInv ==
  /\ TypeOK
  /\ \A n \in Nodes : Good(view[n]) /\ auth[n] <= view[n].cur
  /\ \A l \in Links : ping[l] # Empty => ping[l].cfg <= ping[l].cur
  /\ \A l \in Links : update[l] # Empty =>
       update[l].cfg <= update[l].cur /\ update[l].hdr <= update[l].cur

LEMMA LinkEnds ==
  ASSUME NEW l \in Links
  PROVE  l[1] \in Nodes /\ l[2] \in Nodes
BY DEF Links

LEMMA InitIInv == Init => IInv
<1> SUFFICES ASSUME Init PROVE IInv
  OBVIOUS
<1>1. PICK w \in Worlds :
        /\ view = [n \in Nodes |->
             [cur |-> w.cur, cfg |-> w.epoch, master |-> w.master, owner |-> w.owner]]
        /\ ping = [l \in Links |-> Empty] /\ update = [l \in Links |-> Empty]
        /\ auth = [n \in Nodes |-> 0] /\ links = w.links /\ behind = {}
        /\ left = [promotions |-> w.promotions, restarts |-> w.restarts]
  BY DEF Init
<1>2. w \in World /\ \A k \in Nodes : w.epoch[k] <= w.cur
  BY ConfigAssumption
<1>3. /\ w.cur \in Nat /\ w.epoch \in [Nodes -> Nat]
      /\ w.promotions \in Nat /\ w.restarts \in Nat
      /\ w.master \in [Nodes -> Nodes \cup {None}] /\ w.owner \in [Slots -> Nodes]
      /\ w.links \subseteq Links
  BY <1>2 DEF World
<1>4. ASSUME NEW n \in Nodes PROVE Good(view[n])
  <2>1. view[n] = [cur |-> w.cur, cfg |-> w.epoch, master |-> w.master, owner |-> w.owner]
    BY <1>1
  <2>2. w.owner \in [Slots -> Nodes \cup {None}]
    BY <1>3
  <2> QED BY <1>2, <1>3, <2>1, <2>2 DEF Good, Dominated, Views
<1>5. view \in [Nodes -> Views]
  BY <1>1, <1>4 DEF Good
<1>6. TypeOK
  BY <1>1, <1>3, <1>5 DEF TypeOK
<1>7. \A n \in Nodes : auth[n] = 0 /\ view[n].cur = w.cur
  BY <1>1
<1> QED BY <1>1, <1>3, <1>4, <1>6, <1>7 DEF IInv

LEMMA ViewStep ==
  ASSUME IInv, NEW n \in Nodes, NEW w, Good(w), view' = [view EXCEPT ![n] = w]
  PROVE  view' \in [Nodes -> Views] /\ \A k \in Nodes : Good(view'[k])
BY DEF IInv, TypeOK, Good

LEMMA AuthStep ==
  ASSUME IInv, NEW n \in Nodes, NEW w, Good(w), view' = [view EXCEPT ![n] = w],
         w.cur >= view[n].cur, auth' = auth
  PROVE  \A k \in Nodes : auth'[k] <= view'[k].cur
<1>1. auth[n] \in Nat /\ auth[n] <= view[n].cur /\ view[n].cur \in Nat /\ w.cur \in Nat
  BY DEF IInv, TypeOK, Good, Views
<1>2. auth[n] <= w.cur
  BY <1>1
<1> QED BY <1>2 DEF IInv, TypeOK

LEMMA SendInv ==
  ASSUME IInv, NEW l \in Links, clusterSendPing(l)
  PROVE  IInv'
<1>1. ClaimOf(view[l[1]], l[1]) \in Claims
      /\ ClaimOf(view[l[1]], l[1]).cfg <= ClaimOf(view[l[1]], l[1]).cur
  BY LinkEnds, ClaimGood DEF IInv
<1> DEFINE c == ClaimOf(view[l[1]], l[1])
<1>2. ping' = [ping EXCEPT ![l] = c] /\ UNCHANGED <<view, update, auth, links, left, behind>>
  BY DEF clusterSendPing
<1>3. c \in Claims /\ c.cfg <= c.cur
  BY <1>1
<1> HIDE DEF c
<1>4. TypeOK'
  BY <1>2, <1>3 DEF IInv, TypeOK
<1>5. \A k \in Links : ping'[k] # Empty => ping'[k].cfg <= ping'[k].cur
  BY <1>2, <1>3 DEF IInv, TypeOK
<1> QED BY <1>2, <1>4, <1>5 DEF IInv

LEMMA UpdateInv ==
  ASSUME IInv, NEW l \in Links, ReceiveUpdate(l)
  PROVE  IInv'
<1> DEFINE n == l[2]
           m == update[l]
           seen == SeeHeader(view[n], l[1], m.cur, m.hdr)
           told == [seen EXCEPT !.master[m.about] = None, !.cfg[m.about] = m.cfg]
           w == IF seen.cfg[m.about] >= m.cfg THEN seen
                ELSE clusterUpdateSlotsConfigWith(n, told, m.about, m.cfg, m.slots)
<1>1. /\ m # Empty /\ view' = [view EXCEPT ![n] = w]
      /\ update' = [update EXCEPT ![l] = Empty] /\ UNCHANGED <<ping, auth, links, left, behind>>
  BY DEF ReceiveUpdate
<1>2. m \in Updates /\ m.cfg <= m.cur /\ m.hdr <= m.cur
  BY <1>1 DEF IInv, TypeOK
<1>3. /\ m.cur \in Nat /\ m.cfg \in Nat /\ m.hdr \in Nat
      /\ m.about \in Nodes /\ m.slots \in SUBSET Slots
  BY <1>2 DEF Updates
<1>4. n \in Nodes /\ l[1] \in Nodes /\ Good(view[n])
  BY LinkEnds DEF IInv
<1>5. Good(seen)
  BY <1>2, <1>3, <1>4, HeaderGood
<1>6. seen.cur >= m.cur
  BY <1>3, <1>4 DEF SeeHeader, Greater, Good, Views
<1> HIDE DEF seen, m, n
<1>7. Good(told)
  <2> DEFINE x == Raise(seen, m.about, seen.cur, m.cfg)
  <2>1. seen.cur \in Nat /\ m.cfg <= seen.cur
    BY <1>2, <1>3, <1>5, <1>6 DEF Good, Views
  <2>2. Good(x)
    BY <1>3, <1>5, <2>1, RaiseGood
  <2>3. told.cfg = x.cfg /\ told.cur = x.cur
    BY <1>3, <1>5 DEF Good, Views, Raise
  <2>4. told \in Views
    BY <1>3, <1>5 DEF Good, Views
  <2> QED BY <2>2, <2>3, <2>4 DEF Good, Dominated
<1> HIDE DEF told
<1>8. Good(w)
  BY <1>3, <1>4, <1>5, <1>7, SlotsGood
<1>12. w.cur >= view[n].cur
  <2>1. seen.cur >= view[n].cur
    BY <1>2, <1>3, <1>4, HeaderGood DEF seen
  <2>2. told.cur = seen.cur
    BY <1>3, <1>5 DEF Good, Views, told
  <2> QED BY <1>3, <1>4, <1>7, <2>1, <2>2, SlotsGood
<1> HIDE DEF w
<1>9. view' \in [Nodes -> Views] /\ \A k \in Nodes : Good(view'[k]) /\ auth'[k] <= view'[k].cur
  BY <1>1, <1>4, <1>8, <1>12, ViewStep, AuthStep
<1>10. TypeOK'
  BY <1>1, <1>9 DEF IInv, TypeOK
<1>11. \A k \in Links : update'[k] # Empty =>
         update'[k].cfg <= update'[k].cur /\ update'[k].hdr <= update'[k].cur
  BY <1>1 DEF IInv, TypeOK
<1> QED BY <1>1, <1>9, <1>10, <1>11 DEF IInv

LEMMA PingInv ==
  ASSUME IInv, NEW l \in Links, ReceivePing(l)
  PROVE  IInv'
<1> DEFINE k == l[1]
           n == l[2]
           m == ping[l]
           back == <<n, k>>
           hd   == SeeHeader(view[n], k, m.cur, m.cfg)
           seen == SeeRole(hd, k, m.slaveof)
           dirty == SlotsOf(seen, IF IsMaster(seen, k) THEN k ELSE seen.master[k]) # m.slots
           upd  == IF IsMaster(seen, k) /\ dirty
                   THEN clusterUpdateSlotsConfigWith(n, seen, k, m.cfg, m.slots)
                   ELSE seen
           w    == clusterHandleConfigEpochCollision(n, upd, k, m.cfg)
<1>1. /\ m # Empty /\ view' = [view EXCEPT ![n] = w]
      /\ ping' = [ping EXCEPT ![l] = Empty] /\ UNCHANGED <<auth, links, left, behind>>
      /\ \/ UNCHANGED update
         \/ /\ back \in links
            /\ \E o \in Outdated(upd, k, m) :
                 update' = [update EXCEPT ![back] = UpdateAbout(upd, n, o)]
  BY DEF ReceivePing
<1>2. m \in Claims /\ m.cfg <= m.cur
  BY <1>1 DEF IInv, TypeOK
<1>3. /\ m.cur \in Nat /\ m.cfg \in Nat /\ m.slaveof \in Nodes \cup {None}
      /\ m.slots \in SUBSET Slots
  BY <1>2 DEF Claims
<1>4. n \in Nodes /\ k \in Nodes /\ Good(view[n])
  BY LinkEnds DEF IInv
<1>5. Good(hd)
  BY <1>2, <1>3, <1>4, HeaderGood
<1> HIDE DEF hd, m, n, k
<1>6. Good(seen)
  BY <1>3, <1>4, <1>5, RoleGood
<1> HIDE DEF seen, dirty
<1>7. Good(upd)
  BY <1>3, <1>4, <1>6, SlotsGood
<1> HIDE DEF upd
<1>8. Good(w)
  BY <1>3, <1>4, <1>7, CollisionGood
<1>13. w.cur >= view[n].cur
  <2>1. hd.cur >= view[n].cur
    BY <1>2, <1>3, <1>4, HeaderGood DEF hd
  <2>2. seen.cur = hd.cur
    BY <1>3, <1>4, <1>5, RoleGood DEF seen
  <2>3. upd.cur = seen.cur
    BY <1>3, <1>4, <1>6, SlotsGood DEF upd
  <2>4. w.cur >= upd.cur
    BY <1>3, <1>4, <1>7, CollisionGood
  <2>5. w.cur \in Nat /\ hd.cur \in Nat /\ view[n].cur \in Nat
    BY <1>4, <1>5, <1>8 DEF Good, Views
  <2> QED BY <2>1, <2>2, <2>3, <2>4, <2>5
<1> HIDE DEF w
<1>9. view' \in [Nodes -> Views] /\ \A j \in Nodes : Good(view'[j]) /\ auth'[j] <= view'[j].cur
  BY <1>1, <1>4, <1>8, <1>13, ViewStep, AuthStep
<1>10. /\ update' \in [Links -> Updates \cup {Empty}]
       /\ \A j \in Links : update'[j] # Empty =>
            update'[j].cfg <= update'[j].cur /\ update'[j].hdr <= update'[j].cur
  <2>1. CASE UNCHANGED update
    BY <2>1 DEF IInv, TypeOK
  <2>2. ASSUME back \in links, NEW o \in Outdated(upd, k, m),
               update' = [update EXCEPT ![back] = UpdateAbout(upd, n, o)]
        PROVE  /\ update' \in [Links -> Updates \cup {Empty}]
               /\ \A j \in Links : update'[j] # Empty =>
                    update'[j].cfg <= update'[j].cur /\ update'[j].hdr <= update'[j].cur
    <3>1. o \in Nodes
      BY DEF Outdated
    <3>2. /\ upd.cur \in Nat /\ upd.cfg[o] \in Nat /\ upd.cfg[o] <= upd.cur
          /\ SlotsOf(upd, o) \in SUBSET Slots
      BY <1>7, <3>1 DEF Good, Dominated, Views, SlotsOf
    <3>3. /\ ClaimOf(upd, n).cfg \in Nat /\ ClaimOf(upd, n).cfg <= upd.cur
      <4>1. ClaimOf(upd, n) \in Claims /\ ClaimOf(upd, n).cfg <= ClaimOf(upd, n).cur
        BY <1>4, <1>7, ClaimGood
      <4>2. ClaimOf(upd, n).cur = upd.cur
        BY DEF ClaimOf
      <4> QED BY <4>1, <4>2 DEF Claims
    <3> DEFINE u == UpdateAbout(upd, n, o)
    <3>4. u \in Updates /\ u.cfg <= u.cur /\ u.hdr <= u.cur
      BY <3>1, <3>2, <3>3 DEF UpdateAbout, Updates
    <3>5. update' = [update EXCEPT ![back] = u]
      BY <2>2
    <3>6. back \in Links
      BY <2>2 DEF IInv, TypeOK
    <3> HIDE DEF u, back
    <3> QED BY <3>4, <3>5, <3>6 DEF IInv, TypeOK
  <2> QED BY <1>1, <2>1, <2>2
<1>11. TypeOK'
  BY <1>1, <1>9, <1>10 DEF IInv, TypeOK
<1>12. \A j \in Links : ping'[j] # Empty => ping'[j].cfg <= ping'[j].cur
  BY <1>1 DEF IInv, TypeOK
<1> QED BY <1>9, <1>10, <1>11, <1>12 DEF IInv

LEMMA RequestInv ==
  ASSUME IInv, NEW r \in Nodes, RequestFailoverAuth(r)
  PROVE  IInv'
<1> DEFINE e == view[r].cur + 1
<1>1. PICK asked : view' = [n \in Nodes |-> [view[n] EXCEPT !.cur =
         IF n \in asked \cup {r} THEN Greater(@, e) ELSE @]]
  BY DEF RequestFailoverAuth
<1>2. /\ auth' = [auth EXCEPT ![r] = e] /\ left.promotions > 0
      /\ left' = [left EXCEPT !.promotions = @ - 1]
      /\ UNCHANGED <<ping, update, links, behind>>
  BY DEF RequestFailoverAuth
<1>3. \A n \in Nodes : Good(view[n])
  BY DEF IInv
<1>4. e \in Nat
  BY <1>3 DEF Good, Views
<1> HIDE DEF e
<1>5. ASSUME NEW n \in Nodes PROVE Good(view'[n])
  <2>1. Good(view[n]) /\ view[n].cur \in Nat
    BY <1>3 DEF Good, Views
  <2>2. PICK c \in {view[n].cur, Greater(view[n].cur, e)} : view'[n] = [view[n] EXCEPT !.cur = c]
    BY <1>1
  <2>3. c \in Nat /\ view[n].cur <= c
    BY <1>4, <2>1, <2>2 DEF Greater
  <2> QED BY <2>1, <2>2, <2>3 DEF Good, Dominated, Views
<1>9. ASSUME NEW n \in Nodes PROVE auth'[n] <= view'[n].cur
  <2>1. view[n] \in Views /\ auth[n] \in Nat /\ auth[n] <= view[n].cur
    BY DEF IInv, TypeOK
  <2>2. view'[n].cur = (IF n \in asked \cup {r} THEN Greater(view[n].cur, e) ELSE view[n].cur)
    BY <1>1, <2>1 DEF Views
  <2>3. auth'[n] = IF n = r THEN e ELSE auth[n]
    BY <1>2 DEF IInv, TypeOK
  <2> QED BY <1>4, <2>1, <2>2, <2>3 DEF Greater, Views
<1>6. view' \in [Nodes -> Views]
  <2>1. \A n \in Nodes : view'[n] \in Views
    BY <1>5 DEF Good
  <2>2. view' = [n \in Nodes |-> view'[n]]
    BY <1>1
  <2> QED BY <2>1, <2>2
<1>7. left' \in [promotions : Nat, restarts : Nat] /\ auth' \in [Nodes -> Nat]
  BY <1>2, <1>4 DEF IInv, TypeOK
<1>8. TypeOK'
  BY <1>2, <1>6, <1>7 DEF IInv, TypeOK
<1> QED BY <1>2, <1>5, <1>8, <1>9 DEF IInv

LEMMA PromoteInv ==
  ASSUME IInv, NEW r \in Nodes, NEW cur \in Nat, NEW e \in Nat, e <= cur, cur >= view[r].cur,
         Promote(r, cur, e), ~IsMaster(view[r], r)
  PROVE  /\ view' \in [Nodes -> Views] /\ \A k \in Nodes : Good(view'[k])
         /\ auth' \in [Nodes -> Nat] /\ behind' \subseteq Nodes \X Nodes
         /\ \A k \in Nodes : auth'[k] <= view'[k].cur
<1> DEFINE w == ReplaceYourMaster(r, view[r], cur, e)
           o == view[r].master[r]
<1>1. /\ view' = [view EXCEPT ![r] = w] /\ auth' = [auth EXCEPT ![r] = 0]
      /\ behind' = behind \/ behind' = behind \cup {<<r, o>>}
  BY DEF Promote
<1>2. Good(view[r])
  BY DEF IInv
<1>3. Good(w)
  BY <1>2, ReplaceGood
<1>4. o \in Nodes
  BY <1>2 DEF Good, Views, IsMaster
<1> HIDE DEF w, o
<1>5. view' \in [Nodes -> Views] /\ \A k \in Nodes : Good(view'[k])
  BY <1>1, <1>3, ViewStep
<1>6. w.cur \in Nat
  BY <1>3 DEF Good, Views
<1>7. \A k \in Nodes : auth'[k] <= view'[k].cur
  BY <1>1, <1>6 DEF IInv, TypeOK
<1> QED BY <1>1, <1>4, <1>5, <1>7 DEF IInv, TypeOK

LEMMA WinInv ==
  ASSUME IInv, NEW r \in Nodes, WinElection(r)
  PROVE  IInv'
<1> DEFINE cur == view[r].cur
           e == Greater(view[r].cfg[r], auth[r])
<1>1. Promote(r, cur, e) /\ ~IsMaster(view[r], r) /\ UNCHANGED <<ping, update, links, left>>
  BY DEF WinElection
<1>2. Good(view[r]) /\ auth[r] \in Nat /\ auth[r] <= view[r].cur
  BY DEF IInv, TypeOK
<1>3. cur \in Nat /\ e \in Nat /\ e <= cur /\ cur >= view[r].cur
  BY <1>2 DEF Greater, Good, Dominated, Views
<1> HIDE DEF cur, e
<1>4. /\ view' \in [Nodes -> Views] /\ \A k \in Nodes : Good(view'[k])
      /\ auth' \in [Nodes -> Nat] /\ behind' \subseteq Nodes \X Nodes
      /\ \A k \in Nodes : auth'[k] <= view'[k].cur
  BY <1>1, <1>3, PromoteInv
<1> QED BY <1>1, <1>4 DEF IInv, TypeOK

LEMMA TakeoverEpochs ==
  ASSUME NEW r \in Nodes, NEW v, Good(v), NEW cur, NEW e,
         \/ cur = v.cur + 1 /\ e = cur
         \/ cur = v.cur /\ e = v.cfg[r]
  PROVE  cur \in Nat /\ e \in Nat /\ cur >= v.cur /\ e <= cur
BY DEF Good, Dominated, Views

LEMMA TakeoverInv ==
  ASSUME IInv, NEW r \in Nodes, Takeover(r)
  PROVE  IInv'
<1> DEFINE v == view[r]
           bump == v.cfg[r] = 0 \/ ~IsMaxEpoch(v, v.cfg[r])
           cur == IF bump THEN v.cur + 1 ELSE v.cur
           e == IF bump THEN cur ELSE v.cfg[r]
<1>1. /\ Promote(r, cur, e) /\ ~IsMaster(view[r], r) /\ left.promotions > 0
      /\ left' = [left EXCEPT !.promotions = @ - 1] /\ UNCHANGED <<ping, update, links>>
  BY DEF Takeover
<1>2. Good(v) /\ v = view[r]
  BY DEF IInv
<1> HIDE DEF v, bump
<1>3. cur \in Nat /\ e \in Nat /\ cur >= v.cur /\ e <= cur
  BY <1>2, TakeoverEpochs
<1> HIDE DEF cur, e
<1>4. /\ view' \in [Nodes -> Views] /\ \A k \in Nodes : Good(view'[k])
      /\ auth' \in [Nodes -> Nat] /\ behind' \subseteq Nodes \X Nodes
      /\ \A k \in Nodes : auth'[k] <= view'[k].cur
  BY <1>1, <1>2, <1>3, PromoteInv
<1>5. left' \in [promotions : Nat, restarts : Nat]
  BY <1>1 DEF IInv, TypeOK
<1> QED BY <1>1, <1>4, <1>5 DEF IInv, TypeOK

LEMMA LoadedFields ==
  ASSUME NEW v, v \in Views, NEW cur \in Nat, NEW w, w = Loaded(v, cur)
  PROVE  w \in Views /\ w.cur = cur /\ w.owner = v.owner /\ w.master = v.master
<1> DEFINE f == [k \in Nodes |-> IF IsMaster(v, k) THEN v.cfg[k] ELSE v.cfg[v.master[k]]]
<1>1. f \in [Nodes -> Nat]
  BY DEF Views, IsMaster
<1>2. w = [v EXCEPT !.cur = cur, !.cfg = f]
  BY DEF Loaded
<1> HIDE DEF f
<1> QED BY <1>1, <1>2 DEF Views

LEMMA RestartInv ==
  ASSUME IInv, NEW n \in Nodes, Restart(n)
  PROVE  IInv'
<1>1. PICK cur \in 0..view[n].cur :
        /\ \A k \in Nodes : Loaded(view[n], cur).cfg[k] <= cur
        /\ view' = [view EXCEPT ![n] = Loaded(view[n], cur)]
  BY DEF Restart
<1>2. /\ left.restarts > 0 /\ left' = [left EXCEPT !.restarts = @ - 1]
      /\ auth' = [auth EXCEPT ![n] = 0] /\ UNCHANGED <<links, behind>>
      /\ ping' = [l \in Links |-> IF l[2] = n THEN Empty ELSE ping[l]]
      /\ update' = [l \in Links |-> IF l[2] = n THEN Empty ELSE update[l]]
  BY DEF Restart
<1> DEFINE w == Loaded(view[n], cur)
<1>3. view[n] \in Views /\ cur \in Nat
  BY <1>1 DEF IInv, TypeOK, Views
<1>4. w \in Views /\ w.cur = cur
  BY <1>3, LoadedFields
<1>5. Good(w)
  BY <1>1, <1>4 DEF Good, Dominated
<1>6. view' = [view EXCEPT ![n] = w]
  BY <1>1
<1> HIDE DEF w
<1>7. view' \in [Nodes -> Views] /\ \A k \in Nodes : Good(view'[k])
  BY <1>5, <1>6, ViewStep
<1>8. \A k \in Nodes : auth'[k] <= view'[k].cur
  BY <1>2, <1>3, <1>4, <1>6 DEF IInv, TypeOK
<1>9. left' \in [promotions : Nat, restarts : Nat]
  BY <1>2 DEF IInv, TypeOK
<1>10. TypeOK'
  BY <1>2, <1>7, <1>9 DEF IInv, TypeOK
<1>11. /\ \A l \in Links : ping'[l] # Empty => ping'[l].cfg <= ping'[l].cur
       /\ \A l \in Links : update'[l] # Empty =>
            update'[l].cfg <= update'[l].cur /\ update'[l].hdr <= update'[l].cur
  BY <1>2 DEF IInv
<1> QED BY <1>7, <1>8, <1>10, <1>11 DEF IInv

LEMMA StepIInv == IInv /\ [Next]_vars => IInv'
<1> SUFFICES ASSUME IInv, [Next]_vars PROVE IInv'
  OBVIOUS
<1>1. CASE UNCHANGED vars
  BY <1>1 DEF IInv, TypeOK, vars
<1>2. CASE Next
  BY <1>2, SendInv, PingInv, UpdateInv, RequestInv, WinInv, TakeoverInv, RestartInv DEF Next
<1> QED BY <1>1, <1>2

\* A node's currentEpoch dominates every configEpoch it knows or sends,
\* whatever claims are lost, delayed or partitioned, and however many
\* failovers, takeovers and collisions happen.
THEOREM EpochSafety == Spec => []EpochDominates
<1>1. IInv => EpochDominates
  BY DEF IInv, EpochDominates, Good, Dominated
<1> QED BY InitIInv, StepIInv, <1>1, PTL DEF Spec

-----------------------------------------------------------------------------
(* Slots only move forward.  A node's own view goes through the stages of    *)
(* clusterProcessPacket; no stage lowers the configEpoch of a master, and     *)
(* only the slots of a greater claim change hands.                            *)

\* No slot moves back.
Forward(v, w) ==
  \A s \in Slots :
    LET o == v.owner[s]
        p == w.owner[s]
    IN  o # p /\ o # None /\ p # None => w.cfg[p] > v.cfg[o]

\* A replica has no slots in its own view.
Bare(me, v) == v.master[me] # None => \A s \in Slots : v.owner[s] # me

LEMMA BareEverywhere == ReplicaOwnsNothing <=> \A n \in Nodes : Bare(n, view[n])
BY DEF ReplicaOwnsNothing, Bare, IsMaster, SlotsOf

LEMMA HeaderStep ==
  ASSUME NEW v, v \in Views, NEW k \in Nodes, NEW cur \in Nat, NEW cfg \in Nat,
         NEW w, w = SeeHeader(v, k, cur, cfg)
  PROVE  /\ w \in Views /\ w.master = v.master /\ w.owner = v.owner /\ w.cfg[k] >= cfg
         /\ \A j \in Nodes : j # k => w.cfg[j] = v.cfg[j]
<1> DEFINE c == Greater(v.cur, cur)
           d == Greater(v.cfg[k], cfg)
           f == [v.cfg EXCEPT ![k] = d]
<1>1. c \in Nat /\ d \in Nat /\ d >= cfg
  BY DEF Greater, Views
<1>2. w = [v EXCEPT !.cur = c, !.cfg = f]
  BY DEF SeeHeader
<1> HIDE DEF c, d
<1>3. f \in [Nodes -> Nat] /\ f[k] = d /\ \A j \in Nodes : j # k => f[j] = v.cfg[j]
  BY <1>1 DEF Views
<1> HIDE DEF f
<1>4. w \in Views /\ w.master = v.master /\ w.owner = v.owner /\ w.cfg = f
  BY <1>1, <1>2, <1>3 DEF Views
<1> QED BY <1>1, <1>3, <1>4

\* Only the role of k may change.
OtherRoles(k, v, w) == \A j \in Nodes : j # k => w.master[j] = v.master[j]

LEMMA RoleStep ==
  ASSUME NEW v, v \in Views, NEW k \in Nodes, NEW o, o \in Nodes \/ o = None,
         NEW w, w = SeeRole(v, k, o)
  PROVE  /\ w \in Views /\ w.cfg = v.cfg /\ w.master[k] = o
         /\ OtherRoles(k, v, w)
         /\ \A s \in Slots : w.owner[s] = v.owner[s] \/ (w.owner[s] = None /\ o # None)
<1> DEFINE f == [v.master EXCEPT ![k] = o]
           g == [s \in Slots |->
                  IF o # None /\ IsMaster(v, k) /\ v.owner[s] = k THEN None ELSE v.owner[s]]
<1>1. f \in [Nodes -> Nodes \cup {None}] /\ g \in [Slots -> Nodes \cup {None}]
  BY DEF Views
<1>2. w = [v EXCEPT !.master = f, !.owner = g]
  BY DEF SeeRole
<1>3. \A s \in Slots : g[s] = v.owner[s] \/ (g[s] = None /\ o # None)
  OBVIOUS
<1>4. f[k] = o /\ \A j \in Nodes : j # k => f[j] = v.master[j]
  BY DEF Views
<1> HIDE DEF f, g
<1>5. w \in Views /\ w.cfg = v.cfg /\ w.master = f /\ w.owner = g
  BY <1>1, <1>2 DEF Views
<1> QED BY <1>3, <1>4, <1>5 DEF OtherRoles

\* clusterUpdateSlotsConfigWith moves only slots of smaller claims, and leaves
\* the node a master, or without slots.
LEMMA SlotsStep ==
  ASSUME NEW me \in Nodes, NEW v, v \in Views, NEW k \in Nodes, NEW cfg \in Nat,
         NEW S \in SUBSET Slots, Bare(me, v),
         NEW w, w = clusterUpdateSlotsConfigWith(me, v, k, cfg, S)
  PROVE  /\ w \in Views /\ w.cfg = v.cfg /\ Bare(me, w)
         /\ \A s \in Slots : w.owner[s] = v.owner[s] \/ (w.owner[s] = k /\ Rebinds(v, s, k, cfg))
<1> DEFINE m == IF IsMaster(v, me) THEN me ELSE v.master[me]
           taken == {s \in S : Rebinds(v, s, k, cfg)}
           g == [s \in Slots |-> IF s \in taken THEN k ELSE v.owner[s]]
           demoted == (\E s \in taken : v.owner[s] = m) /\ (\A s \in Slots : g[s] # m)
           f == [v.master EXCEPT ![me] = IF demoted THEN k ELSE @]
<1>0. CASE k = me
  <2>1. w = v
    BY <1>0 DEF clusterUpdateSlotsConfigWith
  <2> QED BY <2>1
<1>1. CASE k # me
  <2>1. w = [v EXCEPT !.owner = g, !.master = f]
    BY <1>1 DEF clusterUpdateSlotsConfigWith
  <2>2. \A s \in Slots : g[s] = v.owner[s] \/ (g[s] = k /\ Rebinds(v, s, k, cfg))
    OBVIOUS
  <2>3. v.master \in [Nodes -> Nodes \cup {None}] /\ v.owner \in [Slots -> Nodes \cup {None}]
    BY DEF Views
  <2>4. g \in [Slots -> Nodes \cup {None}]
    BY <2>3
  <2>5. IsMaster(v, me) => m = me
    OBVIOUS
  <2> HIDE DEF g, m, taken
  <2>6. demoted => \A s \in Slots : g[s] # m
    OBVIOUS
  <2> HIDE DEF demoted
  <2>7. f \in [Nodes -> Nodes \cup {None}] /\ f[me] = IF demoted THEN k ELSE v.master[me]
    BY <2>3
  <2> HIDE DEF f
  <2>8. w \in Views /\ w.cfg = v.cfg /\ w.master = f /\ w.owner = g
    BY <2>1, <2>4, <2>7 DEF Views
  <2>9. Bare(me, w)
    BY <1>1, <2>2, <2>5, <2>6, <2>7, <2>8 DEF Bare, IsMaster
  <2> QED BY <2>2, <2>8, <2>9
<1> QED BY <1>0, <1>1

LEMMA CollisionStep ==
  ASSUME NEW me \in Nodes, NEW v, Good(v), NEW k \in Nodes, NEW cfg \in Nat,
         NEW w, w = clusterHandleConfigEpochCollision(me, v, k, cfg)
  PROVE  /\ w.owner = v.owner /\ w.master = v.master
         /\ \A j \in Nodes : w.cfg[j] >= v.cfg[j]
<1>1. v \in Views /\ v.cur \in Nat /\ v.cfg \in [Nodes -> Nat]
  BY DEF Good, Views
<1>2. CASE w = v
  BY <1>1, <1>2
<1>3. CASE w = [v EXCEPT !.cur = @ + 1, !.cfg[me] = v.cur + 1]
  <2> DEFINE c == v.cur + 1
             f == [v.cfg EXCEPT ![me] = c]
  <2>1. w = [v EXCEPT !.cur = c, !.cfg = f]
    BY <1>1, <1>3
  <2>2. c \in Nat /\ c > v.cur
    BY <1>1
  <2>3. \A j \in Nodes : f[j] = IF j = me THEN c ELSE v.cfg[j]
    BY <1>1
  <2> HIDE DEF c, f
  <2>4. w.cfg = f /\ w.owner = v.owner /\ w.master = v.master
    BY <1>1, <2>1 DEF Views
  <2>5. ASSUME NEW j \in Nodes PROVE w.cfg[j] >= v.cfg[j]
    <3>1. v.cfg[j] \in Nat /\ v.cfg[j] <= v.cur
      BY <1>1 DEF Good, Dominated
    <3> QED BY <1>1, <2>2, <2>3, <2>4, <3>1
  <2> QED BY <2>4, <2>5
<1> QED BY <1>2, <1>3 DEF clusterHandleConfigEpochCollision

\* A step of one node that reads a packet.
LEMMA OneNodeStep ==
  ASSUME IInv, ReplicaOwnsNothing, NEW n \in Nodes, NEW w, view' = [view EXCEPT ![n] = w],
         Forward(view[n], w), Bare(n, w)
  PROVE  SlotEpochGrows /\ ReplicaOwnsNothing'
<1>1. view'[n] = w /\ \A k \in Nodes : k # n => view'[k] = view[k]
  BY DEF IInv, TypeOK
<1>2. SlotEpochGrows
  BY <1>1 DEF SlotEpochGrows, Forward
<1>3. \A k \in Nodes : Bare(k, view'[k])
  BY <1>1, BareEverywhere
<1>4. ReplicaOwnsNothing'
  BY <1>3 DEF ReplicaOwnsNothing, Bare, IsMaster, SlotsOf
<1> QED BY <1>2, <1>4

LEMMA PingStep ==
  ASSUME IInv, ReplicaOwnsNothing, NEW l \in Links, ReceivePing(l)
  PROVE  SlotEpochGrows /\ ReplicaOwnsNothing'
<1> DEFINE k == l[1]
           n == l[2]
           m == ping[l]
           v == view[n]
           hd   == SeeHeader(v, k, m.cur, m.cfg)
           seen == SeeRole(hd, k, m.slaveof)
           dirty == SlotsOf(seen, IF IsMaster(seen, k) THEN k ELSE seen.master[k]) # m.slots
           upd  == IF IsMaster(seen, k) /\ dirty
                   THEN clusterUpdateSlotsConfigWith(n, seen, k, m.cfg, m.slots)
                   ELSE seen
           w    == clusterHandleConfigEpochCollision(n, upd, k, m.cfg)
<1>1. m # Empty /\ view' = [view EXCEPT ![n] = w]
  BY DEF ReceivePing
<1>2. m \in Claims /\ m.cfg <= m.cur
  BY <1>1 DEF IInv, TypeOK
<1>3. /\ m.cur \in Nat /\ m.cfg \in Nat /\ m.slots \in SUBSET Slots
      /\ m.slaveof \in Nodes \/ m.slaveof = None
  BY <1>2 DEF Claims
<1>4. n \in Nodes /\ k \in Nodes /\ n # k /\ Good(v) /\ v \in Views /\ v = view[n]
  BY LinkEnds DEF IInv, Links, Good
<1>5. Bare(n, v)
  BY <1>4, BareEverywhere
<1> HIDE DEF m, n, k, v
<1>6. Good(hd)
  BY <1>2, <1>3, <1>4, HeaderGood
<1>7. /\ hd \in Views /\ hd.master = v.master /\ hd.owner = v.owner /\ hd.cfg[k] >= m.cfg
      /\ \A j \in Nodes : j # k => hd.cfg[j] = v.cfg[j]
  <2> DEFINE c == m.cur
             d == m.cfg
  <2>1. hd = SeeHeader(v, k, c, d) /\ c \in Nat /\ d \in Nat
    BY <1>3
  <2> HIDE DEF hd, c, d
  <2>2. hd \in Views /\ hd.master = v.master /\ hd.owner = v.owner
    BY <1>4, <2>1, HeaderStep, Z3T(30)
  <2>3. hd.cfg[k] >= d
    BY <1>4, <2>1, HeaderStep, Z3T(30)
  <2>4. \A j \in Nodes : j # k => hd.cfg[j] = v.cfg[j]
    BY <1>4, <2>1, HeaderStep, Z3T(30)
  <2> QED BY <2>2, <2>3, <2>4 DEF d
<1> HIDE DEF hd
<1>8. Good(seen)
  BY <1>3, <1>4, <1>6, RoleGood
<1>9. /\ seen \in Views /\ seen.cfg = hd.cfg /\ seen.master[k] = m.slaveof
      /\ OtherRoles(k, hd, seen)
      /\ \A s \in Slots : seen.owner[s] = hd.owner[s] \/ (seen.owner[s] = None /\ m.slaveof # None)
  <2> DEFINE x == m.slaveof
  <2>1. seen = SeeRole(hd, k, x) /\ (x \in Nodes \/ x = None)
    BY <1>3
  <2> HIDE DEF seen, x
  <2>2. seen \in Views /\ seen.cfg = hd.cfg /\ seen.master[k] = x
    BY <1>4, <1>7, <2>1, RoleStep, Z3T(30)
  <2>3. OtherRoles(k, hd, seen)
    <3>1. hd \in Views /\ k \in Nodes
      BY <1>4, <1>7
    <3> QED BY <3>1, <2>1, RoleStep
  <2>4. ASSUME NEW s \in Slots PROVE seen.owner[s] = hd.owner[s] \/ (seen.owner[s] = None /\ x # None)
    BY <1>4, <1>7, <2>1, RoleStep, Z3T(30)
  <2> QED BY <2>2, <2>3, <2>4 DEF x
<1> HIDE DEF seen
<1>10. Bare(n, seen)
  <2>1. n # None
    BY <1>4, ConfigAssumption DEF None
  <2> QED BY <1>4, <1>5, <1>7, <1>9, <2>1 DEF Bare, OtherRoles
<1> HIDE DEF dirty
<1>11. Good(upd)
  BY <1>3, <1>4, <1>8, SlotsGood
<1>12. /\ upd.cfg = seen.cfg /\ Bare(n, upd)
       /\ \A s \in Slots :
            \/ upd.owner[s] = seen.owner[s]
            \/ upd.owner[s] = k /\ Rebinds(seen, s, k, m.cfg) /\ m.slaveof = None
  <2>1. CASE ~(IsMaster(seen, k) /\ dirty)
    <3>1. upd = seen
      BY <2>1
    <3> QED BY <1>10, <3>1
  <2>2. CASE IsMaster(seen, k) /\ dirty
    <3>1. upd = clusterUpdateSlotsConfigWith(n, seen, k, m.cfg, m.slots)
      BY <2>2
    <3>2. m.slaveof = None
      BY <1>9, <2>2 DEF IsMaster
    <3> HIDE DEF upd
    <3> QED BY <1>3, <1>4, <1>9, <1>10, <3>1, <3>2, SlotsStep
  <2> QED BY <2>1, <2>2
<1> HIDE DEF upd
<1>13. /\ w.owner = upd.owner /\ w.master = upd.master
       /\ \A j \in Nodes : w.cfg[j] >= upd.cfg[j]
  BY <1>3, <1>4, <1>11, CollisionStep
<1>14. Good(w)
  BY <1>3, <1>4, <1>11, CollisionGood
<1> HIDE DEF w
<1>15. Bare(n, w)
  BY <1>12, <1>13 DEF Bare
<1>16. Forward(v, w)
  <2> SUFFICES ASSUME NEW s \in Slots, v.owner[s] # w.owner[s], v.owner[s] # None,
                      w.owner[s] # None
               PROVE  w.cfg[w.owner[s]] > v.cfg[v.owner[s]]
    BY DEF Forward
  <2> DEFINE o == v.owner[s]
  <2>1. o \in Nodes /\ v.cfg[o] \in Nat /\ w.cfg[k] \in Nat /\ upd.cfg[k] \in Nat
    BY <1>4, <1>11, <1>14 DEF Good, Views
  <2>2. w.owner[s] = k /\ Rebinds(seen, s, k, m.cfg) /\ seen.owner[s] = o
    BY <1>7, <1>9, <1>12, <1>13
  <2>3. seen.cfg[o] < m.cfg /\ o # k
    BY <2>2 DEF Rebinds
  <2>4. v.cfg[o] < m.cfg
    BY <1>7, <1>9, <2>1, <2>3
  <2>5. w.cfg[k] >= upd.cfg[k] /\ upd.cfg[k] >= m.cfg
    BY <1>4, <1>7, <1>9, <1>12, <1>13
  <2> HIDE DEF o
  <2>6. w.cfg[k] > v.cfg[o]
    BY <1>3, <2>1, <2>4, <2>5
  <2> QED BY <2>2, <2>6 DEF o
<1> QED BY <1>1, <1>4, <1>15, <1>16, OneNodeStep

\* The view that believes an UPDATE about another node, or about itself.
Told(v, a, cfg) == [v EXCEPT !.master[a] = None, !.cfg[a] = cfg]

LEMMA ToldStep ==
  ASSUME NEW v, v \in Views, NEW a \in Nodes, NEW cfg \in Nat, NEW w, w = Told(v, a, cfg)
  PROVE  /\ w \in Views /\ w.owner = v.owner
         /\ w.cfg[a] = cfg /\ \A j \in Nodes : j # a => w.cfg[j] = v.cfg[j]
         /\ \A j \in Nodes : w.master[j] = v.master[j] \/ w.master[j] = None
<1> DEFINE f == [v.master EXCEPT ![a] = None]
           g == [v.cfg EXCEPT ![a] = cfg]
<1>1. w = [v EXCEPT !.master = f, !.cfg = g]
  BY DEF Told
<1>2. /\ f \in [Nodes -> Nodes \cup {None}] /\ g \in [Nodes -> Nat]
      /\ \A j \in Nodes : f[j] = (IF j = a THEN None ELSE v.master[j])
                       /\ g[j] = (IF j = a THEN cfg ELSE v.cfg[j])
  BY DEF Views
<1> HIDE DEF f, g
<1>3. w \in Views /\ w.owner = v.owner /\ w.master = f /\ w.cfg = g
  BY <1>1, <1>2 DEF Views
<1> QED BY <1>2, <1>3

LEMMA UpdateStep ==
  ASSUME IInv, ReplicaOwnsNothing, NEW l \in Links, ReceiveUpdate(l)
  PROVE  SlotEpochGrows /\ ReplicaOwnsNothing'
<1> DEFINE n == l[2]
           k == l[1]
           m == update[l]
           a == m.about
           v == view[n]
           seen == SeeHeader(v, k, m.cur, m.hdr)
           told == Told(seen, a, m.cfg)
           w == IF seen.cfg[a] >= m.cfg THEN seen
                ELSE clusterUpdateSlotsConfigWith(n, told, a, m.cfg, m.slots)
<1>1. m # Empty /\ view' = [view EXCEPT ![n] = w]
  BY DEF ReceiveUpdate, Told
<1>2. m \in Updates /\ m.cfg <= m.cur /\ m.hdr <= m.cur
  BY <1>1 DEF IInv, TypeOK
<1>3. /\ m.cur \in Nat /\ m.cfg \in Nat /\ m.hdr \in Nat
      /\ a \in Nodes /\ m.slots \in SUBSET Slots
  BY <1>2 DEF Updates
<1>4. n \in Nodes /\ k \in Nodes /\ v \in Views /\ v = view[n]
  BY LinkEnds DEF IInv, TypeOK
<1>5. Bare(n, v)
  BY <1>4, BareEverywhere
<1> HIDE DEF m, n, k, v, a
<1>6. /\ seen \in Views /\ seen.master = v.master /\ seen.owner = v.owner
      /\ seen.cfg[k] >= m.hdr /\ \A j \in Nodes : j # k => seen.cfg[j] = v.cfg[j]
  <2> DEFINE c == m.cur
             d == m.hdr
  <2>1. seen = SeeHeader(v, k, c, d) /\ c \in Nat /\ d \in Nat
    BY <1>3
  <2> HIDE DEF seen, c, d
  <2>2. seen \in Views /\ seen.master = v.master /\ seen.owner = v.owner
    BY <1>4, <2>1, HeaderStep, Z3T(30)
  <2>3. seen.cfg[k] >= d
    BY <1>4, <2>1, HeaderStep, Z3T(30)
  <2>4. \A j \in Nodes : j # k => seen.cfg[j] = v.cfg[j]
    BY <1>4, <2>1, HeaderStep, Z3T(30)
  <2> QED BY <2>2, <2>3, <2>4 DEF d
<1>7. seen.cfg[k] >= v.cfg[k]
  BY <1>3, <1>4 DEF SeeHeader, Greater, Views
<1> HIDE DEF seen
<1>8. Bare(n, seen)
  BY <1>5, <1>6 DEF Bare
<1>9. CASE seen.cfg[a] >= m.cfg
  <2>1. w = seen
    BY <1>9
  <2>2. Forward(v, w)
    BY <1>6, <2>1 DEF Forward
  <2> HIDE DEF w
  <2> QED BY <1>1, <1>4, <1>8, <2>1, <2>2, OneNodeStep
<1>10. CASE ~(seen.cfg[a] >= m.cfg)
  <2>1. w = clusterUpdateSlotsConfigWith(n, told, a, m.cfg, m.slots)
    BY <1>10
  <2>2. /\ told \in Views /\ told.owner = seen.owner
        /\ told.cfg[a] = m.cfg /\ \A j \in Nodes : j # a => told.cfg[j] = seen.cfg[j]
        /\ \A j \in Nodes : told.master[j] = seen.master[j] \/ told.master[j] = None
    <3> DEFINE d == m.cfg
    <3>1. told = Told(seen, a, d) /\ d \in Nat
      BY <1>3
    <3> HIDE DEF told, d
    <3>2. told \in Views /\ told.owner = seen.owner /\ told.cfg[a] = d
      BY <1>3, <1>6, <3>1, ToldStep, Z3T(30)
    <3>3. \A j \in Nodes : j # a => told.cfg[j] = seen.cfg[j]
      BY <1>3, <1>6, <3>1, ToldStep, Z3T(30)
    <3>4. \A j \in Nodes : told.master[j] = seen.master[j] \/ told.master[j] = None
      <4>1. seen \in Views /\ a \in Nodes
        BY <1>3, <1>6
      <4> QED BY <4>1, <3>1, ToldStep
    <3> QED BY <3>2, <3>3, <3>4 DEF d
  <2> HIDE DEF told, w
  <2>3. Bare(n, told)
    BY <1>4, <1>8, <2>2 DEF Bare
  <2>4. /\ w \in Views /\ w.cfg = told.cfg /\ Bare(n, w)
        /\ \A s \in Slots :
             w.owner[s] = told.owner[s] \/ (w.owner[s] = a /\ Rebinds(told, s, a, m.cfg))
    BY <1>3, <1>4, <2>1, <2>2, <2>3, SlotsStep
  <2>5. Forward(v, w)
    <3> SUFFICES ASSUME NEW s \in Slots, v.owner[s] # w.owner[s], v.owner[s] # None
                 PROVE  w.cfg[w.owner[s]] > v.cfg[v.owner[s]]
      BY DEF Forward
    <3> DEFINE o == v.owner[s]
    <3>1. o \in Nodes /\ v.cfg[o] \in Nat /\ seen.cfg[o] \in Nat
      BY <1>4, <1>6 DEF Views
    <3>2. w.owner[s] = a /\ Rebinds(told, s, a, m.cfg) /\ told.owner[s] = o
      BY <1>6, <2>2, <2>4
    <3>3. told.cfg[o] < m.cfg /\ o # a
      BY <3>2 DEF Rebinds
    <3>4. seen.cfg[o] < m.cfg
      BY <2>2, <3>1, <3>3
    <3>5. v.cfg[o] <= seen.cfg[o]
      BY <1>4, <1>6, <1>7, <3>1
    <3>6. w.cfg[a] = m.cfg
      BY <2>2, <2>4
    <3> HIDE DEF o
    <3>7. w.cfg[a] > v.cfg[o]
      BY <1>3, <3>1, <3>4, <3>5, <3>6
    <3> QED BY <3>2, <3>7 DEF o
  <2> QED BY <1>1, <1>4, <2>4, <2>5, OneNodeStep
<1> QED BY <1>9, <1>10

LEMMA ReplaceStep ==
  ASSUME NEW r \in Nodes, NEW v, v \in Views, NEW cur \in Nat, NEW e \in Nat,
         NEW w, w = ReplaceYourMaster(r, v, cur, e)
  PROVE  /\ w.cfg[r] = e /\ w.master[r] = None
         /\ \A s \in Slots : w.owner[s] = IF v.owner[s] = v.master[r] THEN r ELSE v.owner[s]
<1> DEFINE f == [v.cfg EXCEPT ![r] = e]
           g == [v.master EXCEPT ![r] = None]
           h == [s \in Slots |-> IF v.owner[s] = v.master[r] THEN r ELSE v.owner[s]]
           x == [v EXCEPT !.cur = cur, !.cfg = f]
<1>1. /\ v.master \in [Nodes -> Nodes \cup {None}] /\ v.cfg \in [Nodes -> Nat]
  BY DEF Views
<1>2. /\ f[r] = e /\ g[r] = None
      /\ \A s \in Slots : h[s] = IF v.owner[s] = v.master[r] THEN r ELSE v.owner[s]
  BY <1>1
<1>3. w = [x EXCEPT !.master = g, !.owner = h]
  BY DEF ReplaceYourMaster, Views
<1> HIDE DEF f, g, h
<1>4. w.cfg = f /\ w.master = g /\ w.owner = h
  BY <1>3 DEF Views
<1> QED BY <1>2, <1>4

\* A promotion takes the slots of the master, and with a greater configEpoch
\* unless the guard of TakesUnrenewed holds.
LEMMA PromoteStep ==
  ASSUME IInv, ReplicaOwnsNothing, NEW r \in Nodes, NEW cur \in Nat, NEW e \in Nat,
         Promote(r, cur, e), ~IsMaster(view[r], r),
         e > view[r].cfg[view[r].master[r]] \/ TakesUnrenewed(r, view[r].master[r])
  PROVE  SlotEpochGrows /\ ReplicaOwnsNothing'
<1> DEFINE v == view[r]
           w == ReplaceYourMaster(r, v, cur, e)
           o == v.master[r]
<1>1. view' = [view EXCEPT ![r] = w] /\ v \in Views
  BY DEF Promote, IInv, TypeOK
<1>2. /\ w.cfg[r] = e /\ w.master[r] = None
      /\ \A s \in Slots : w.owner[s] = IF v.owner[s] = v.master[r] THEN r ELSE v.owner[s]
  BY <1>1, ReplaceStep
<1> HIDE DEF w
<1>3. view'[r] = w /\ \A k \in Nodes : k # r => view'[k] = view[k]
  BY <1>1 DEF IInv, TypeOK
<1>4. ASSUME NEW n \in Nodes, NEW s \in Slots, view[n].owner[s] # view'[n].owner[s]
      PROVE  \/ view'[n].cfg[view'[n].owner[s]] > view[n].cfg[view[n].owner[s]]
             \/ view'[n].owner[s] = n /\ TakesUnrenewed(n, view[n].owner[s])
  <2>1. n = r /\ w.owner[s] = r /\ v.owner[s] = o
    BY <1>2, <1>3, <1>4
  <2> QED BY <1>2, <1>3, <2>1
<1>5. SlotEpochGrows
  BY <1>4 DEF SlotEpochGrows
<1>6. \A k \in Nodes : Bare(k, view'[k])
  BY <1>2, <1>3, BareEverywhere DEF Bare
<1>7. ReplicaOwnsNothing'
  BY <1>6 DEF ReplicaOwnsNothing, Bare, IsMaster, SlotsOf
<1> QED BY <1>5, <1>7

LEMMA WinStep ==
  ASSUME IInv, ReplicaOwnsNothing, NEW r \in Nodes, WinElection(r)
  PROVE  SlotEpochGrows /\ ReplicaOwnsNothing'
<1> DEFINE v == view[r]
           o == v.master[r]
           e == Greater(v.cfg[r], auth[r])
<1>1. Promote(r, v.cur, e) /\ ~IsMaster(view[r], r) /\ auth[r] # 0 /\ auth[r] \in Nat
  BY DEF WinElection, IInv, TypeOK
<1>2. v \in Views /\ o \in Nodes
  BY <1>1 DEF IInv, TypeOK, Views, IsMaster
<1>3. v.cur \in Nat /\ v.cfg[r] \in Nat /\ v.cfg[o] \in Nat
  BY <1>2 DEF Views
<1>4. e \in Nat /\ e >= auth[r]
  BY <1>1, <1>3 DEF Greater
<1>5. e > v.cfg[o] \/ auth[r] <= v.cfg[o]
  BY <1>1, <1>3, <1>4
<1> HIDE DEF e
<1>6. e > view[r].cfg[view[r].master[r]] \/ TakesUnrenewed(r, view[r].master[r])
  BY <1>1, <1>5 DEF TakesUnrenewed
<1> QED BY <1>1, <1>3, <1>4, <1>6, PromoteStep

LEMMA TakeoverStep ==
  ASSUME IInv, ReplicaOwnsNothing, NEW r \in Nodes, Takeover(r)
  PROVE  SlotEpochGrows /\ ReplicaOwnsNothing'
<1> DEFINE v == view[r]
           o == v.master[r]
           bump == v.cfg[r] = 0 \/ ~IsMaxEpoch(v, v.cfg[r])
           cur == IF bump THEN v.cur + 1 ELSE v.cur
           e == IF bump THEN cur ELSE v.cfg[r]
<1>1. Promote(r, cur, e) /\ ~IsMaster(view[r], r)
  BY DEF Takeover
<1>2. v \in Views /\ o \in Nodes /\ Good(v)
  BY <1>1 DEF IInv, TypeOK, Views, IsMaster
<1>3. v.cur \in Nat /\ v.cfg[r] \in Nat /\ v.cfg[o] \in Nat /\ v.cfg[o] <= v.cur
  BY <1>2 DEF Good, Views, Dominated
<1>4. cur \in Nat /\ e \in Nat
  BY <1>3
<1>5. CASE bump
  <2>1. e > v.cfg[o]
    BY <1>3, <1>5
  <2> QED BY <1>1, <1>4, <2>1, PromoteStep
<1>6. CASE ~bump
  <2>1. e = v.cfg[r] /\ IsMaxEpoch(v, v.cfg[r])
    BY <1>6
  <2>2. v.cfg[o] <= v.cfg[r]
    BY <1>2, <2>1 DEF IsMaxEpoch
  <2>3. v.cfg[r] > v.cfg[o] \/ v.cfg[r] = v.cfg[o]
    BY <1>3, <2>2
  <2>4. e > view[r].cfg[view[r].master[r]] \/ TakesUnrenewed(r, view[r].master[r])
    BY <1>1, <2>1, <2>3 DEF TakesUnrenewed
  <2> HIDE DEF e, cur, bump
  <2> QED BY <1>1, <1>4, <2>4, PromoteStep
<1> QED BY <1>5, <1>6

\* What leaves owners and roles alone.
LEMMA SameOwnersStep ==
  ASSUME ReplicaOwnsNothing,
         \A n \in Nodes : view'[n].owner = view[n].owner /\ view'[n].master = view[n].master
  PROVE  SlotEpochGrows /\ ReplicaOwnsNothing'
<1>1. SlotEpochGrows
  BY DEF SlotEpochGrows
<1>2. ReplicaOwnsNothing'
  BY DEF ReplicaOwnsNothing, IsMaster, SlotsOf
<1> QED BY <1>1, <1>2

LEMMA QuietStep ==
  ASSUME IInv, ReplicaOwnsNothing, NEW r \in Nodes, RequestFailoverAuth(r) \/ Restart(r)
  PROVE  SlotEpochGrows /\ ReplicaOwnsNothing'
<1>1. CASE RequestFailoverAuth(r)
  <2>1. PICK asked : view' = [n \in Nodes |-> [view[n] EXCEPT !.cur =
          IF n \in asked \cup {r} THEN Greater(@, view[r].cur + 1) ELSE @]]
    BY <1>1 DEF RequestFailoverAuth
  <2>2. \A n \in Nodes : view'[n].owner = view[n].owner /\ view'[n].master = view[n].master
    BY <2>1 DEF IInv, TypeOK, Views
  <2> QED BY <2>2, SameOwnersStep
<1>2. CASE Restart(r)
  <2>1. PICK cur \in 0..view[r].cur : view' = [view EXCEPT ![r] = Loaded(view[r], cur)]
    BY <1>2 DEF Restart
  <2>2. view[r] \in Views /\ cur \in Nat
    BY <2>1 DEF IInv, TypeOK, Views
  <2> DEFINE w == Loaded(view[r], cur)
  <2>3. w.owner = view[r].owner /\ w.master = view[r].master
    BY <2>2, LoadedFields
  <2>4. view' = [view EXCEPT ![r] = w]
    BY <2>1
  <2> HIDE DEF w
  <2>5. \A n \in Nodes : view'[n].owner = view[n].owner /\ view'[n].master = view[n].master
    BY <2>3, <2>4 DEF IInv, TypeOK
  <2> QED BY <2>5, SameOwnersStep
<1> QED BY <1>1, <1>2

LEMMA SendStep ==
  ASSUME ReplicaOwnsNothing, NEW l \in Links, clusterSendPing(l)
  PROVE  SlotEpochGrows /\ ReplicaOwnsNothing'
<1>1. view' = view
  BY DEF clusterSendPing
<1> QED BY <1>1, SameOwnersStep

LEMMA InitRoles == Init => ReplicaOwnsNothing
<1> SUFFICES ASSUME Init PROVE ReplicaOwnsNothing
  OBVIOUS
<1>1. PICK w \in Worlds : view = [n \in Nodes |->
        [cur |-> w.cur, cfg |-> w.epoch, master |-> w.master, owner |-> w.owner]]
  BY DEF Init
<1>2. \A s \in Slots : w.master[w.owner[s]] = None
  BY RolesAssumption
<1>3. \A n \in Nodes : view[n].master = w.master /\ view[n].owner = w.owner
  BY <1>1
<1> QED BY <1>2, <1>3 DEF ReplicaOwnsNothing, IsMaster, SlotsOf

\* In every view a slot passes from one master to another only with a greater
\* configEpoch, but for a replica that is promoted behind its own master as
\* TakesUnrenewed says, and a node that becomes a replica has no slot left (the
\* assertion of clusterSetMaster), whatever claims and UPDATEs are stale,
\* whoever collides, restarts, fails over or takes over.
THEOREM SlotsForward == Spec => SlotsMoveForward
<1>1. IInv /\ ReplicaOwnsNothing /\ [Next]_vars
        => ReplicaOwnsNothing' /\ [SlotEpochGrows /\ ReplicaOwnsNothing']_vars
  <2> SUFFICES ASSUME IInv, ReplicaOwnsNothing, [Next]_vars
               PROVE  ReplicaOwnsNothing' /\ [SlotEpochGrows /\ ReplicaOwnsNothing']_vars
    OBVIOUS
  <2>1. CASE UNCHANGED vars
    <3>1. ReplicaOwnsNothing'
      BY <2>1 DEF vars, ReplicaOwnsNothing
    <3> QED BY <2>1, <3>1
  <2>2. CASE Next
    <3>1. SlotEpochGrows /\ ReplicaOwnsNothing'
      BY <2>2, SendStep, PingStep, UpdateStep, WinStep, TakeoverStep, QuietStep DEF Next
    <3> QED BY <3>1
  <2> QED BY <2>1, <2>2
<1> QED BY InitIInv, InitRoles, StepIInv, <1>1, PTL DEF Spec, SlotsMoveForward

-----------------------------------------------------------------------------
(* Failure detection.  MarkNeedsRecentMajority rests on what the pieces of    *)
(* state know of the history: a flag, a gossip packet and a report are each   *)
(* as old as the suspicion they stand for, or at most MaxDelay younger.       *)

\* An age, or none.
Age == Nat \cup {NoAge}

DetectTypes ==
  /\ flag \in [Watchers -> {"ok", "pfail", "fail"}]
  /\ report \in [Watchers -> [Masters -> Age]]
  /\ gossip \in [Channels -> {"none", "ok", "bad"}]
  /\ suspected \in [Masters -> Int]
  /\ \A m \in Masters : suspected[m] <= Validity + MaxDelay + 1

\* A master that holds the suspect PFAIL or FAIL suspects it now.
FlaggedNow(m) == flag[m] # "ok" => suspected[m] = 0

\* A gossip packet on its way was sent in this tick.
GossipNow(c) == gossip[c] = "bad" => suspected[c[1]] = 0

\* A report is at most MaxDelay younger than the suspicion it tells of, and
\* no node keeps one of its own.
ReportTrue(n, m) ==
  /\ report[n][m] # NoAge => suspected[m] <= report[n][m] + MaxDelay
  /\ report[n][m] # NoAge => n # m

DetectInv ==
  /\ DetectTypes
  /\ \A m \in Masters : FlaggedNow(m)
  /\ \A c \in Channels : GossipNow(c)
  /\ \A n \in Watchers, m \in Masters : ReportTrue(n, m)

LEMMA DetectInitInv == ASSUME Validity \in Nat PROVE DetectInit => DetectInv
BY DEF DetectInit, DetectInv, Age, DetectTypes, FlaggedNow, GossipNow, ReportTrue, NoAge, MaxDelay, Watchers, Channels

LEMMA ChannelEnds ==
  ASSUME NEW c \in Channels
  PROVE  c[1] \in Masters /\ c[1] \in Watchers /\ c[2] \in Watchers /\ c[1] # c[2]
BY DEF Channels, Watchers

\* A step that keeps the reports and the gossip, or forgets some of it, and
\* at most turns suspicions into new ones.
LEMMA QuietDetect ==
  ASSUME DetectInv, Validity \in Nat,
         flag' \in [Watchers -> {"ok", "pfail", "fail"}],
         suspected' \in [Masters -> Int],
         \A m \in Masters : suspected'[m] = suspected[m] \/ (suspected'[m] = 0 /\ flag'[m] # "ok"),
         \A m \in Masters : flag'[m] # "ok" => (suspected'[m] = 0 \/ flag'[m] = flag[m]),
         report' \in [Watchers -> [Masters -> Age]],
         \A n \in Watchers, m \in Masters :
            report'[n][m] = report[n][m] \/ report'[n][m] = NoAge
              \/ (report'[n][m] = 0 /\ suspected[m] = 0 /\ n # m),
         gossip' \in [Channels -> {"none", "ok", "bad"}],
         \A c \in Channels : gossip'[c] = gossip[c] \/ gossip'[c] = "none"
  PROVE  DetectInv'
<1>0. suspected \in [Masters -> Int] /\ flag \in [Watchers -> {"ok", "pfail", "fail"}]
      /\ report \in [Watchers -> [Masters -> Age]]
  BY DEF DetectInv, DetectTypes
<1>1. DetectTypes'
  <2>1. ASSUME NEW m \in Masters PROVE suspected'[m] <= Validity + MaxDelay + 1
    BY <2>1, <1>0 DEF DetectInv, DetectTypes, MaxDelay
  <2> QED BY <2>1 DEF DetectTypes, MaxDelay
<1>2. ASSUME NEW m \in Masters PROVE FlaggedNow(m)'
  BY <1>0 DEF DetectInv, FlaggedNow, Watchers
<1>3. ASSUME NEW c \in Channels PROVE GossipNow(c)'
  BY <1>0, ChannelEnds DEF DetectInv, GossipNow
<1>4. ASSUME NEW n \in Watchers, NEW m \in Masters PROVE ReportTrue(n, m)'
  <2> DEFINE v == report[n][m]
             w == report'[n][m]
             s == suspected[m]
             t == suspected'[m]
  <2>1. v \in Age /\ w \in Age /\ s \in Int /\ t \in Int
    BY <1>0
  <2>2. /\ v # NoAge => s <= v + MaxDelay /\ n # m
        /\ w = v \/ w = NoAge \/ (w = 0 /\ s = 0 /\ n # m)
        /\ t = s \/ t = 0
    BY DEF DetectInv, ReportTrue
  <2> HIDE DEF v, w, s, t
  <2>3. (w # NoAge => t <= w + MaxDelay) /\ (w # NoAge => n # m)
    BY <2>1, <2>2 DEF Age, NoAge, MaxDelay
  <2> QED BY <2>3 DEF ReportTrue, w, t, NoAge, MaxDelay
<1> QED BY <1>1, <1>2, <1>3, <1>4 DEF DetectInv

\* What the handlers leave alone is unchanged.
LEMMA SetFlagQuiet ==
  ASSUME DetectInv, NEW n \in Watchers, NEW f \in {"ok", "pfail", "fail"}, SetFlag(n, f)
  PROVE  /\ flag' \in [Watchers -> {"ok", "pfail", "fail"}]
         /\ suspected' \in [Masters -> Int]
         /\ \A m \in Masters :
              /\ suspected'[m] = suspected[m] \/ (suspected'[m] = 0 /\ flag'[m] # "ok")
              /\ flag'[m] # "ok" => (suspected'[m] = 0 \/ flag'[m] = flag[m])
<1> USE DEF DetectInv, DetectTypes, SetFlag, Watchers
<1>1. flag' \in [Watchers -> {"ok", "pfail", "fail"}]
  OBVIOUS
<1>2. suspected' \in [Masters -> Int]
  OBVIOUS
<1>3. ASSUME NEW m \in Masters
      PROVE  /\ suspected'[m] = suspected[m] \/ (suspected'[m] = 0 /\ flag'[m] # "ok")
             /\ flag'[m] # "ok" => (suspected'[m] = 0 \/ flag'[m] = flag[m])
  <2>1. CASE m = n /\ f # "ok"
    BY <2>1
  <2>2. CASE m = n /\ f = "ok"
    BY <2>2
  <2>3. CASE m # n
    BY <2>3
  <2> QED BY <2>1, <2>2, <2>3
<1> QED BY <1>1, <1>2, <1>3

\* The reports of a node after it has read a gossip packet.
LEMMA GossipReports ==
  ASSUME DetectInv, NEW c \in Channels, ReceiveGossip(c)
  PROVE  /\ report' \in [Watchers -> [Masters -> Age]]
         /\ \A n \in Watchers, m \in Masters :
              report'[n][m] = report[n][m] \/ report'[n][m] = NoAge
                \/ (report'[n][m] = 0 /\ suspected[m] = 0 /\ n # m)
         /\ gossip' \in [Channels -> {"none", "ok", "bad"}]
         /\ \A d \in Channels : gossip'[d] = gossip[d] \/ gossip'[d] = "none"
<1> DEFINE n == c[2]
           a == c[1]
           added == [report[n] EXCEPT ![a] = 0]
           gone == [report[n] EXCEPT ![a] = NoAge]
           bad == gossip[c] = "bad"
<1>1. n \in Watchers /\ a \in Masters /\ a # n
  BY ChannelEnds
<1>2. report[n] \in [Masters -> Age] /\ report \in [Watchers -> [Masters -> Age]]
  BY <1>1 DEF DetectInv, DetectTypes
<1>3. bad => suspected[a] = 0
  BY DEF DetectInv, GossipNow
<1>4. PICK rep : /\ report' = [report EXCEPT ![n] = rep]
                 /\ \/ bad /\ rep = clusterNodeCleanupFailureReports(added)
                    \/ bad /\ rep = added
                    \/ rep = clusterNodeCleanupFailureReports(gone)
                    \/ rep = report[n]
  BY DEF ReceiveGossip
<1>5. added \in [Masters -> Age] /\ gone \in [Masters -> Age]
  BY <1>2 DEF Age
<1>6. ASSUME NEW f \in [Masters -> Age]
      PROVE  /\ clusterNodeCleanupFailureReports(f) \in [Masters -> Age]
             /\ \A m \in Masters : clusterNodeCleanupFailureReports(f)[m] \in {NoAge, f[m]}
  BY DEF clusterNodeCleanupFailureReports, Age
<1>7. /\ \A m \in Masters : added[m] = IF m = a THEN 0 ELSE report[n][m]
      /\ \A m \in Masters : gone[m] = IF m = a THEN NoAge ELSE report[n][m]
  BY <1>2
<1>8. rep \in [Masters -> Age]
  BY <1>2, <1>4, <1>5, <1>6
<1>9. \A m \in Masters : rep[m] = report[n][m] \/ rep[m] = NoAge
                            \/ (rep[m] = 0 /\ m = a /\ bad)
  <2> HIDE DEF added, gone, bad
  <2>1. CASE bad /\ rep = clusterNodeCleanupFailureReports(added)
    BY <2>1, <1>5, <1>6, <1>7
  <2>2. CASE bad /\ rep = added
    BY <2>2, <1>7
  <2>3. CASE rep = clusterNodeCleanupFailureReports(gone)
    BY <2>3, <1>5, <1>6, <1>7
  <2>4. CASE rep = report[n]
    BY <2>4
  <2> QED BY <1>4, <2>1, <2>2, <2>3, <2>4
<1>10. report' \in [Watchers -> [Masters -> Age]]
  BY <1>1, <1>2, <1>4, <1>8
<1>11. ASSUME NEW k \in Watchers, NEW m \in Masters
       PROVE  report'[k][m] = report[k][m] \/ report'[k][m] = NoAge
                \/ (report'[k][m] = 0 /\ suspected[m] = 0 /\ k # m)
  <2> HIDE DEF n, a, bad
  <2>1. CASE k = n
    <3>1. report'[k] = rep
      BY <2>1, <1>2, <1>4
    <3> QED BY <2>1, <3>1, <1>1, <1>3, <1>9
  <2>2. CASE k # n
    BY <2>2, <1>2, <1>4
  <2> QED BY <2>1, <2>2
<1>12. /\ gossip' \in [Channels -> {"none", "ok", "bad"}]
       /\ \A d \in Channels : gossip'[d] = gossip[d] \/ gossip'[d] = "none"
  BY DEF ReceiveGossip, DetectInv, DetectTypes
<1> QED BY <1>10, <1>11, <1>12


\* The steps of a node or of a channel.
LEMMA DetectSteps ==
  ASSUME DetectInv, DetectNext, ~Tick, Validity \in Nat
  PROVE  DetectInv'
<1> USE DEF DetectTypes
<1>1. ASSUME NEW n \in Watchers, ReceivePong(n) PROVE DetectInv'
  <2>1. UNCHANGED <<report, gossip>>
    BY <1>1 DEF ReceivePong
  <2>2. SetFlag(n, "ok") \/ UNCHANGED <<flag, suspected>>
    BY <1>1 DEF ReceivePong
  <2>3. CASE SetFlag(n, "ok")
    BY <2>1, <2>3, SetFlagQuiet, QuietDetect DEF DetectInv
  <2>4. CASE UNCHANGED <<flag, suspected>>
    BY <2>1, <2>4, QuietDetect DEF DetectInv
  <2> QED BY <2>2, <2>3, <2>4
<1>2. ASSUME NEW n \in Watchers, clusterCron(n) PROVE DetectInv'
  BY <1>2, SetFlagQuiet, QuietDetect DEF DetectInv, clusterCron
<1>3. ASSUME NEW n \in Watchers, ReceiveFail(n) PROVE DetectInv'
  <2>1. UNCHANGED <<report, gossip>>
    BY <1>3 DEF ReceiveFail
  <2>2. SetFlag(n, "fail") \/ UNCHANGED <<flag, suspected>>
    BY <1>3 DEF ReceiveFail
  <2>3. CASE SetFlag(n, "fail")
    BY <2>1, <2>3, SetFlagQuiet, QuietDetect DEF DetectInv
  <2>4. CASE UNCHANGED <<flag, suspected>>
    BY <2>1, <2>4, QuietDetect DEF DetectInv
  <2> QED BY <2>2, <2>3, <2>4
<1>4. ASSUME NEW n \in Watchers, LoseFail(n) PROVE DetectInv'
  BY <1>4, QuietDetect DEF DetectInv, LoseFail
<1>5. ASSUME NEW c \in Channels, ReceiveGossip(c) PROVE DetectInv'
  <2>1. c[2] \in Watchers
    BY ChannelEnds
  <2>2. SetFlag(c[2], "fail") \/ UNCHANGED <<flag, suspected>>
    BY <1>5 DEF ReceiveGossip
  <2>3. CASE SetFlag(c[2], "fail")
    BY <1>5, <2>1, <2>3, SetFlagQuiet, GossipReports, QuietDetect
  <2>4. CASE UNCHANGED <<flag, suspected>>
    BY <1>5, <2>4, GossipReports, QuietDetect DEF DetectInv
  <2> QED BY <2>2, <2>3, <2>4
<1>6. ASSUME NEW c \in Channels, LoseGossip(c) PROVE DetectInv'
  BY <1>6, QuietDetect DEF DetectInv, LoseGossip
<1>7. CASE FailedOver
  BY <1>7, QuietDetect DEF DetectInv, FailedOver
<1>8. ASSUME NEW S, Flip(S) PROVE DetectInv'
  BY <1>8, QuietDetect DEF DetectInv, Flip
<1> QED
  BY <1>1, <1>2, <1>3, <1>4, <1>5, <1>6, <1>7, <1>8 DEF DetectNext

\* Time passes: what is not renewed gets older, and what is sent is new.
LEMMA DetectTick ==
  ASSUME DetectInv, Tick, Validity \in Nat
  PROVE  DetectInv'
<1>0. /\ suspected \in [Masters -> Int] /\ flag \in [Watchers -> {"ok", "pfail", "fail"}]
      /\ report \in [Watchers -> [Masters -> Age]] /\ flag' = flag
  BY DEF DetectInv, DetectTypes, Tick
<1>1. ASSUME NEW m \in Masters
      PROVE  /\ suspected'[m] = IF flag[m] # "ok" THEN 0
                                ELSE Older(suspected[m], Validity + MaxDelay)
             /\ suspected'[m] \in Int /\ suspected[m] \in Int
             /\ suspected[m] <= Validity + MaxDelay + 1
             /\ suspected'[m] <= Validity + MaxDelay + 1
             /\ suspected'[m] <= suspected[m] + 1 \/ suspected'[m] = 0
  <2>1. suspected'[m] = IF flag[m] # "ok" THEN 0 ELSE Older(suspected[m], Validity + MaxDelay)
    BY DEF Tick
  <2>2. suspected[m] <= Validity + MaxDelay + 1 /\ suspected[m] \in Int
    BY <1>0 DEF DetectInv, DetectTypes
  <2> QED BY <2>1, <2>2 DEF Older, MaxDelay, NoAge
<1>2. ASSUME NEW n \in Watchers, NEW m \in Masters
      PROVE  report'[n][m] = Older(report[n][m], Validity) /\ report'[n][m] \in Age
  <2>1. report'[n][m] = Older(report[n][m], Validity)
    BY DEF Tick
  <2>2. report[n][m] \in Age
    BY <1>0
  <2> QED BY <2>1, <2>2 DEF Older, Age, NoAge
<1>3. ASSUME NEW c \in Channels
      PROVE  /\ gossip'[c] \in {"none", "ok", "bad"}
             /\ gossip'[c] = "bad" => flag[c[1]] # "ok"
  BY DEF Tick
<1>4. DetectTypes'
  <2>1. suspected' = [m \in Masters |-> suspected'[m]]
    BY DEF Tick
  <2>2. suspected' \in [Masters -> Int]
    BY <2>1, <1>1
  <2>3. \A n \in Watchers : report'[n] = [m \in Masters |-> report'[n][m]]
    BY DEF Tick
  <2>4. report' = [n \in Watchers |-> report'[n]]
    BY DEF Tick
  <2>5. \A n \in Watchers : report'[n] \in [Masters -> Age]
    BY <2>3, <1>2
  <2>6. report' \in [Watchers -> [Masters -> Age]]
    BY <2>4, <2>5
  <2>7. gossip' = [c \in Channels |-> gossip'[c]]
    BY DEF Tick
  <2>8. gossip' \in [Channels -> {"none", "ok", "bad"}]
    BY <2>7, <1>3
  <2> QED BY <1>0, <1>1, <2>2, <2>6, <2>8 DEF DetectTypes, MaxDelay
<1>5. ASSUME NEW m \in Masters PROVE FlaggedNow(m)'
  BY <1>0, <1>1 DEF FlaggedNow
<1>6. ASSUME NEW c \in Channels PROVE GossipNow(c)'
  BY <1>1, <1>3, ChannelEnds DEF GossipNow
<1>7. ASSUME NEW n \in Watchers, NEW m \in Masters PROVE ReportTrue(n, m)'
  <2> DEFINE v == report[n][m]
             w == report'[n][m]
             s == suspected[m]
             t == suspected'[m]
  <2>1. v \in Age /\ w \in Age /\ s \in Int /\ t \in Int
    BY <1>0, <1>1, <1>2
  <2>2. /\ v # NoAge => s <= v + MaxDelay /\ n # m
        /\ w = Older(v, Validity)
        /\ t <= s + 1 \/ t = 0
        /\ t <= Validity + MaxDelay + 1
    BY <1>1, <1>2 DEF DetectInv, ReportTrue
  <2> HIDE DEF v, w, s, t
  <2>3. (w # NoAge => t <= w + MaxDelay) /\ (w # NoAge => n # m)
    BY <2>1, <2>2 DEF Age, NoAge, MaxDelay, Older
  <2> QED BY <2>3 DEF ReportTrue, w, t, NoAge, MaxDelay
<1> QED BY <1>4, <1>5, <1>6, <1>7 DEF DetectInv

LEMMA DetectStep ==
  ASSUME DetectInv, [DetectNext]_detectVars, Validity \in Nat PROVE DetectInv'
<1>1. CASE UNCHANGED detectVars
  BY <1>1 DEF detectVars, DetectInv, DetectTypes, FlaggedNow, GossipNow, ReportTrue
<1> QED BY <1>1, DetectSteps, DetectTick

\* The masters counted by markNodeAsFailingIfNeeded, the node itself included.
LEMMA CountedAreRecent ==
  ASSUME DetectInv, NEW c \in Channels, ReceiveGossip(c),
         flag[c[2]] = "pfail", flag'[c[2]] = "fail"
  PROVE  Cardinality({m \in Masters : suspected[m] <= Validity + MaxDelay}) >= Quorum
<1> DEFINE n == c[2]
           rep == clusterNodeCleanupFailureReports([report[n] EXCEPT ![c[1]] = 0])
           Reporters == {m \in Masters : rep[m] # NoAge}
           Self == IF n \in Masters THEN {n} ELSE {}
           Recent == {m \in Masters : suspected[m] <= Validity + MaxDelay}
<1>1. n \in Watchers /\ c[1] \in Masters /\ c[1] # n
  BY ChannelEnds
<1>2. flag \in [Watchers -> {"ok", "pfail", "fail"}] /\ report[n] \in [Masters -> Age]
      /\ suspected \in [Masters -> Int]
  BY <1>1 DEF DetectInv, DetectTypes
<1>3. gossip[c] = "bad" /\ MarksFailing(n, rep)
  BY <1>1, <1>2 DEF ReceiveGossip
<1>4. ASSUME NEW m \in Reporters PROVE m \in Recent /\ m # n
  <2>1. rep[m] = IF m = c[1] THEN 0 ELSE report[n][m]
    BY <1>2, <1>4 DEF clusterNodeCleanupFailureReports
  <2>2. rep[m] <= Validity
    BY <1>2, <1>4, <2>1, DetectAssumption DEF clusterNodeCleanupFailureReports, Age, NoAge
  <2>3. CASE m = c[1]
    BY <1>1, <1>3, <2>3, DetectAssumption DEF DetectInv, GossipNow, MaxDelay
  <2>4. CASE m # c[1]
    <3>1. report[n][m] # NoAge /\ report[n][m] <= Validity /\ report[n][m] \in Age
      BY <1>2, <1>4, <2>1, <2>2, <2>4
    <3>2. suspected[m] <= report[n][m] + MaxDelay /\ m # n
      BY <1>1, <1>4, <3>1 DEF DetectInv, ReportTrue
    <3> QED
      BY <1>2, <1>4, <3>1, <3>2, DetectAssumption DEF Age, NoAge, MaxDelay
  <2> QED BY <2>3, <2>4
<1>5. ASSUME n \in Masters PROVE n \in Recent
  BY <1>5, DetectAssumption DEF DetectInv, FlaggedNow, MaxDelay
<1>6. IsFiniteSet(Masters)
  BY DetectAssumption
<1>7. IsFiniteSet(Reporters) /\ IsFiniteSet(Recent)
  BY <1>6, FS_Subset
<1>8. Cardinality(Reporters) + (IF n \in Masters THEN 1 ELSE 0) >= Quorum
  BY <1>3 DEF MarksFailing, ReportsCount
<1>9. Size \in Nat /\ Quorum \in Int
  BY DetectAssumption DEF Quorum
<1>10. Cardinality(Reporters) \in Nat /\ Cardinality(Recent) \in Nat
  BY <1>7, FS_CardinalityType
<1> HIDE DEF Reporters, Recent
<1>11. CASE n \in Masters
  <2>1. n \notin Reporters
    BY <1>4
  <2>2. Cardinality(Reporters \cup {n}) = Cardinality(Reporters) + 1
    BY <1>7, <2>1, FS_AddElement
  <2>3. Reporters \cup {n} \subseteq Recent
    BY <1>4, <1>5, <1>11
  <2>4. Cardinality(Reporters \cup {n}) <= Cardinality(Recent)
    BY <1>7, <2>3, FS_Subset
  <2>5. Cardinality(Recent) >= Quorum
    BY <1>8, <1>9, <1>10, <1>11, <2>2, <2>4
  <2> QED BY <2>5 DEF Recent
<1>12. CASE n \notin Masters
  <2>1. Reporters \subseteq Recent
    BY <1>4
  <2>2. Cardinality(Reporters) <= Cardinality(Recent)
    BY <1>7, <2>1, FS_Subset
  <2>3. Cardinality(Recent) >= Quorum
    BY <1>8, <1>9, <1>10, <1>12, <2>2
  <2> QED BY <2>3 DEF Recent
<1> QED BY <1>11, <1>12

LEMMA MarkStep ==
  ASSUME DetectInv, [DetectNext]_detectVars, NEW n \in Watchers,
         flag[n] = "pfail", flag'[n] = "fail", n \notin failPkt
  PROVE  Cardinality({m \in Masters : suspected[m] <= Validity + MaxDelay}) >= Quorum
<1>0. flag \in [Watchers -> {"ok", "pfail", "fail"}]
  BY DEF DetectInv, DetectTypes
<1>1. flag' # flag
  BY <1>0
<1>2. ASSUME NEW k \in Watchers, ReceivePong(k) \/ clusterCron(k) \/ ReceiveFail(k) \/ LoseFail(k)
      PROVE  FALSE
  BY <1>0, <1>1, <1>2 DEF ReceivePong, clusterCron, ReceiveFail, LoseFail, SetFlag
<1>3. \E c \in Channels : ReceiveGossip(c)
  BY <1>1, <1>2 DEF DetectNext, FailedOver, Flip, Tick, LoseGossip, detectVars
<1>4. PICK c \in Channels : ReceiveGossip(c)
  BY <1>3
<1>5. c[2] = n
  BY <1>0, <1>4, ChannelEnds DEF ReceiveGossip, SetFlag
<1> QED BY <1>4, <1>5, CountedAreRecent

\* A node turns PFAIL into FAIL by itself only if a majority of the masters
\* suspected the same node recently, for any masters, network and timeouts:
\* markNodeAsFailingIfNeeded adds up no report older than its validity.
THEOREM MajoritySuspects == DetectSpec => MarkNeedsRecentMajority
<1>1. Validity \in Nat
  BY DetectAssumption
<1>2. DetectInit => DetectInv
  BY <1>1, DetectInitInv
<1>3. DetectInv /\ [DetectNext]_detectVars => DetectInv'
  BY <1>1, DetectStep
<1>4. DetectInv /\ [DetectNext]_detectVars
        => [\A n \in Watchers : flag[n] = "pfail" /\ flag'[n] = "fail" /\ n \notin failPkt =>
              Cardinality({m \in Masters : suspected[m] <= Validity + MaxDelay}) >= Quorum]_detectVars
  BY MarkStep
<1> QED
  BY <1>2, <1>3, <1>4, PTL DEF DetectSpec, MarkNeedsRecentMajority
=============================================================================
