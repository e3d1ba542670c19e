------------------------ MODULE ClusterElectionProofs ------------------------
(***************************************************************************)
(* Proofs about ClusterElection for any number of masters, replicas,       *)
(* epochs and crashes: type correctness, that a master votes twice in an   *)
(* epoch only if it crashed after an ACK had overtaken the save of its     *)
(* vote, and that an election has two winners only after such a crash or   *)
(* if one of them counted an ACK that came between two attempts.           *)
(***************************************************************************)
EXTENDS ClusterElection, FiniteSetTheorems, TLAPS

\* A crash uses up one of the crashes that are left, an early write one of
\* the early writes.
LEMMA LimitStep ==
  ASSUME limit \in [epoch : Nat, crashes : Nat, early : Nat],
         \/ limit.crashes > 0 /\ limit' = [limit EXCEPT !.crashes = @ - 1]
         \/ limit.early > 0 /\ limit' = [limit EXCEPT !.early = @ - 1]
  PROVE  limit' \in [epoch : Nat, crashes : Nat, early : Nat]
OBVIOUS

\* Type correctness is preserved by every step.
LEMMA TypeStep == TypeOK /\ [Next]_vars => TypeOK'
<1> SUFFICES ASSUME TypeOK, [Next]_vars PROVE TypeOK'
  OBVIOUS
<1> USE ElectionAssumption DEF TypeOK, Voters, Node, Request, ACK,
      persist, epochs, links, losses, auth, config, vars
<1>1. ASSUME NEW r \in Replicas, ScheduleElection(r) PROVE TypeOK'
  BY <1>1 DEF ScheduleElection
<1>2. ASSUME NEW r \in Replicas, clusterRequestFailoverAuth(r) PROVE TypeOK'
  BY <1>2 DEF clusterRequestFailoverAuth, Requests
<1>3. ASSUME NEW r \in Replicas, clusterFailoverReplaceYourMaster(r) PROVE TypeOK'
  BY <1>3 DEF clusterFailoverReplaceYourMaster
<1>4. ASSUME NEW r \in Replicas, CrashReplica(r) PROVE TypeOK'
  <2>1. limit' \in [epoch : Nat, crashes : Nat, early : Nat]
    BY <1>4, LimitStep DEF CrashReplica
  <2>2. /\ authSent' \in [Replicas -> BOOLEAN] /\ authEpoch' \in [Replicas -> Nat]
        /\ authCount' \in [Replicas -> Nat] /\ counted' \in [Replicas -> SUBSET Voters]
        /\ currentEpoch' \in [Node -> Nat] /\ late' \in [Replicas -> BOOLEAN]
    BY <1>4 DEF CrashReplica
  <2> QED BY <1>4, <2>1, <2>2 DEF CrashReplica
<1>5. ASSUME NEW r \in Replicas, NEW m \in net, ReceiveAck(r, m) PROVE TypeOK'
  <2>1. m \in ACK /\ m.from \in Voters /\ m.epoch \in Nat /\ r \in Node
    BY <1>5 DEF ReceiveAck
  <2>2. /\ authCount' \in [Replicas -> Nat] /\ counted' \in [Replicas -> SUBSET Voters]
        /\ late' \in [Replicas -> BOOLEAN]
    <3>1. CASE AckCounts(r, m)
      <4>1. /\ authCount' = [authCount EXCEPT ![r] = @ + 1]
            /\ counted' = [counted EXCEPT ![r] = @ \cup {m.from}]
            /\ late' = [late EXCEPT ![r] = @ \/ ~authSent[r]]
        BY <3>1, <1>5 DEF ReceiveAck
      <4>2. authCount[r] \in Nat /\ counted[r] \cup {m.from} \subseteq Voters
        BY <2>1
      <4> HIDE DEF TypeOK
      <4> QED BY <4>1, <4>2 DEF TypeOK
    <3>2. CASE ~AckCounts(r, m)
      BY <3>2, <1>5 DEF ReceiveAck
    <3> QED BY <3>1, <3>2
  <2>3. currentEpoch' \in [Node -> Nat] /\ net' \in SUBSET (Request \cup ACK)
    BY <1>5, <2>1 DEF ReceiveAck, SeeEpoch
  <2> QED
    BY <1>5, <2>2, <2>3 DEF ReceiveAck
<1>6. ASSUME NEW v \in Voters, NEW m \in net, GrantVote(v, m) PROVE TypeOK'
  BY <1>6 DEF GrantVote, SeeEpoch, SaveBeforeSleep
<1>7. ASSUME NEW v \in Voters, NEW m \in net, DenyVote(v, m) PROVE TypeOK'
  BY <1>7 DEF DenyVote, SeeEpoch
<1>8. ASSUME NEW v \in Voters, clusterBeforeSleep(v) PROVE TypeOK'
  BY <1>8 DEF clusterBeforeSleep
<1>9. ASSUME NEW v \in Voters, NEW r \in Replicas, clusterWriteHandler(v, r)
      PROVE TypeOK'
  <2>1. limit' \in [epoch : Nat, crashes : Nat, early : Nat]
    BY <1>9, LimitStep DEF clusterWriteHandler
  <2>2. early' \in SUBSET (Voters \X Nat) /\ granted' \in SUBSET (Voters \X Nat \X Replicas)
    BY <1>9 DEF clusterWriteHandler
  <2>3. net' \in SUBSET (Request \cup ACK) /\ sndbuf' \in [Voters -> SUBSET ACK]
    BY <1>9 DEF clusterWriteHandler
  <2> QED BY <1>9, <2>1, <2>2, <2>3 DEF clusterWriteHandler
<1>10. ASSUME NEW v \in Voters, VoteWindowEnds(v) PROVE TypeOK'
  BY <1>10 DEF VoteWindowEnds
<1>11. ASSUME NEW v \in Voters, CrashVoter(v) PROVE TypeOK'
  <2>1. limit' \in [epoch : Nat, crashes : Nat, early : Nat]
    BY <1>11, LimitStep DEF CrashVoter
  <2> QED BY <1>11, <2>1 DEF CrashVoter
<1>12. ASSUME NEW n \in Node, NEW k \in Node, ReceivePing(n, k) PROVE TypeOK'
  BY <1>12 DEF ReceivePing, SeeEpoch
<1>13. ASSUME NEW n \in Node, NEW k \in Replicas, ReceiveClaim(n, k) PROVE TypeOK'
  BY <1>13 DEF ReceiveClaim, SeeEpoch
<1>14. CASE UNCHANGED vars
  BY <1>14
<1> QED
  BY <1>1, <1>2, <1>3, <1>4, <1>5, <1>6, <1>7, <1>8, <1>9, <1>10, <1>11,
     <1>12, <1>13, <1>14 DEF Next

\* Every reachable state is well typed.
THEOREM TypeCorrect == Spec => []TypeOK
<1>1. Init => TypeOK
  BY ElectionAssumption DEF Init, TypeOK, Voters, Node
<1> QED
  BY <1>1, TypeStep, PTL DEF Spec

-----------------------------------------------------------------------------
(* One vote per epoch.                                                      *)

\* The variables the vote invariants are about.
voteVars == <<currentEpoch, lastVoteEpoch, diskEpoch, diskVote, todoSave, sndbuf,
              granted, early, forgot>>

\* A step that changes none of them keeps the vote invariants.
LEMMA VoteFrame ==
  ASSUME VoteIInv, TypeOK', UNCHANGED voteVars PROVE VoteIInv'
BY DEF VoteIInv, MemoryInv, RememberedInv, QueuedInv, OneVotePerEpoch, voteVars

\* A step that at most raises the epochs of nodes, and marks voters to be
\* saved, keeps them too.
LEMMA EpochFrame ==
  ASSUME VoteIInv, TypeOK',
         \A n \in Node : currentEpoch'[n] >= currentEpoch[n],
         \A v \in Voters : todoSave[v] => todoSave'[v],
         \A v \in Voters : diskEpoch'[v] = diskEpoch[v],
         UNCHANGED <<lastVoteEpoch, diskVote, sndbuf, granted, early, forgot>>
  PROVE  VoteIInv'
<1>1. TypeOK /\ MemoryInv /\ RememberedInv /\ QueuedInv /\ OneVotePerEpoch
  BY DEF VoteIInv
<1>2. MemoryInv'
  BY <1>1 DEF MemoryInv, TypeOK, Voters, Node
<1>3. QueuedInv' /\ RememberedInv' /\ OneVotePerEpoch'
  BY <1>1 DEF QueuedInv, RememberedInv, OneVotePerEpoch
<1> QED
  BY <1>2, <1>3 DEF VoteIInv

\* Granting a vote.
LEMMA GrantVoteSafe ==
  ASSUME VoteIInv, TypeOK', NEW v \in Voters, NEW m \in net, GrantVote(v, m)
  PROVE  VoteIInv'
<1>1. TypeOK /\ MemoryInv /\ RememberedInv /\ QueuedInv /\ OneVotePerEpoch
  BY DEF VoteIInv
<1> DEFINE a == [type |-> "ack", from |-> v, to |-> m.from, epoch |-> m.epoch]
<1>2. /\ m.epoch \in Nat
      /\ v \in Node
      /\ lastVoteEpoch[v] < m.epoch
      /\ currentEpoch[v] <= m.epoch
      /\ lastVoteEpoch[v] \in Nat
  <2>1. m \in Request /\ m.epoch \in Nat /\ v \in Node
    BY <1>1 DEF GrantVote, TypeOK, Request, ACK, Node
  <2>2. lastVoteEpoch[v] \in Nat /\ currentEpoch[v] \in Nat
    BY <1>1, <2>1 DEF TypeOK
  <2>3. m.epoch >= currentEpoch[v] /\ lastVoteEpoch[v] # m.epoch
    BY DEF GrantVote, MayVote
  <2>4. lastVoteEpoch[v] <= currentEpoch[v]
    BY <1>1 DEF MemoryInv
  <2> QED BY <2>1, <2>2, <2>3, <2>4
<1>3. /\ sndbuf' = [sndbuf EXCEPT ![v] = @ \cup {a}]
      /\ lastVoteEpoch' = [lastVoteEpoch EXCEPT ![v] = m.epoch]
      /\ currentEpoch' = [currentEpoch EXCEPT ![v] = IF m.epoch > @ THEN m.epoch ELSE @]
      /\ todoSave' = [todoSave EXCEPT ![v] = TRUE]
      /\ UNCHANGED <<diskEpoch, diskVote, granted, early, forgot>>
  BY DEF GrantVote, SeeEpoch, SaveBeforeSleep, losses
<1>4. MemoryInv'
  BY <1>1, <1>2, <1>3 DEF MemoryInv, TypeOK, Voters, Node
<1>5. QueuedInv'
  <2> SUFFICES ASSUME NEW u \in Voters, NEW k \in sndbuf'[u]
               PROVE  /\ k.from = u
                      /\ k.epoch <= lastVoteEpoch'[u]
                      /\ \A g \in granted : g[1] = u /\ g[2] = k.epoch => <<u, k.epoch>> \in forgot
                      /\ \A l \in sndbuf'[u] : l.epoch = k.epoch => l = k
    BY <1>3 DEF QueuedInv
  <2>1. CASE u # v
    BY <2>1, <1>1, <1>3 DEF QueuedInv, TypeOK, Voters, Node
  <2>2. CASE u = v
    <3>1. sndbuf'[v] = sndbuf[v] \cup {a} /\ lastVoteEpoch'[v] = m.epoch
      BY <1>1, <1>2, <1>3 DEF TypeOK
    <3>2. \A l \in sndbuf[v] : l.epoch \in Nat /\ l.from = v /\ l.epoch < m.epoch
      <4>1. \A l \in sndbuf[v] : l.from = v /\ l.epoch <= lastVoteEpoch[v]
        BY <1>1 DEF QueuedInv
      <4>2. \A l \in sndbuf[v] : l.epoch \in Nat
        BY <1>1 DEF TypeOK, ACK
      <4> QED BY <4>1, <4>2, <1>2
    <3>3. \A g \in granted : g[1] = v => g[2] \in Nat /\ (g[2] < m.epoch \/ <<v, g[2]>> \in forgot)
      BY <1>1, <1>2 DEF TypeOK, RememberedInv, Node, Voters
    <3> QED
      BY <2>2, <3>1, <3>2, <3>3, <1>1, <1>2 DEF QueuedInv
  <2> QED BY <2>1, <2>2
<1>6. RememberedInv'
  <2> SUFFICES ASSUME NEW g \in granted, <<g[1], g[2]>> \notin forgot
               PROVE  /\ g[2] <= lastVoteEpoch'[g[1]]
                      /\ <<g[1], g[2]>> \in early \/ g[2] <= diskVote[g[1]]
    BY <1>3 DEF RememberedInv
  <2>1. /\ g[2] \in Nat /\ g[1] \in Node /\ g[2] <= lastVoteEpoch[g[1]]
        /\ <<g[1], g[2]>> \in early \/ g[2] <= diskVote[g[1]]
    BY <1>1 DEF RememberedInv, TypeOK, Node
  <2> QED BY <2>1, <1>1, <1>2, <1>3 DEF TypeOK
<1>7. OneVotePerEpoch'
  BY <1>1, <1>3 DEF OneVotePerEpoch
<1> QED
  BY <1>4, <1>5, <1>6, <1>7 DEF VoteIInv

\* Saving the configuration.
LEMMA BeforeSleepSafe ==
  ASSUME VoteIInv, TypeOK', NEW v \in Voters, clusterBeforeSleep(v)
  PROVE  VoteIInv'
<1>1. TypeOK /\ MemoryInv /\ RememberedInv /\ QueuedInv /\ OneVotePerEpoch
  BY DEF VoteIInv
<1>2. MemoryInv'
  BY <1>1 DEF MemoryInv, TypeOK, clusterBeforeSleep, epochs, Voters, Node
<1>3. QueuedInv' /\ OneVotePerEpoch'
  BY <1>1 DEF QueuedInv, OneVotePerEpoch, clusterBeforeSleep, epochs, links
<1>4. RememberedInv'
  <2>1. /\ diskVote' = [diskVote EXCEPT ![v] = lastVoteEpoch[v]]
        /\ early' = {p \in early : p[1] # v}
        /\ UNCHANGED <<lastVoteEpoch, granted, forgot>>
    BY DEF clusterBeforeSleep, links, epochs
  <2> SUFFICES ASSUME NEW g \in granted, <<g[1], g[2]>> \notin forgot
               PROVE  /\ g[2] <= lastVoteEpoch[g[1]]
                      /\ <<g[1], g[2]>> \in early' \/ g[2] <= diskVote'[g[1]]
    BY <2>1 DEF RememberedInv
  <2>2. /\ g[2] \in Nat /\ g[1] \in Node /\ g[2] <= lastVoteEpoch[g[1]]
        /\ <<g[1], g[2]>> \in early \/ g[2] <= diskVote[g[1]]
    BY <1>1 DEF RememberedInv, TypeOK, Node
  <2>3. CASE g[1] = v
    BY <2>1, <2>2, <2>3, <1>1 DEF TypeOK
  <2>4. CASE g[1] # v
    BY <2>1, <2>2, <2>4, <1>1 DEF TypeOK
  <2> QED BY <2>3, <2>4
<1> QED
  BY <1>2, <1>3, <1>4 DEF VoteIInv

\* Writing the ACKs of a link: their votes are on disk, or they are early.
LEMMA WriteHandlerSafe ==
  ASSUME VoteIInv, TypeOK', NEW v \in Voters,
         NEW r \in Replicas, clusterWriteHandler(v, r)
  PROVE  VoteIInv'
<1>1. TypeOK /\ MemoryInv /\ RememberedInv /\ QueuedInv /\ OneVotePerEpoch
  BY DEF VoteIInv
<1> DEFINE sent == {m \in sndbuf[v] : m.to = r}
<1>2. /\ sndbuf' = [sndbuf EXCEPT ![v] = @ \ sent]
      /\ granted' = granted \cup {<<v, m.epoch, r>> : m \in sent}
      /\ IF todoSave[v] THEN early' = early \cup {<<v, m.epoch>> : m \in sent}
                        ELSE early' = early
      /\ UNCHANGED <<currentEpoch, lastVoteEpoch, diskEpoch, diskVote, todoSave, forgot>>
  BY DEF clusterWriteHandler, epochs, persist
<1>3. lastVoteEpoch[v] \in Nat /\ (~todoSave[v] => diskVote[v] = lastVoteEpoch[v])
  BY <1>1, <1>2 DEF MemoryInv, TypeOK, Voters, Node
<1>4. \A g \in granted' : g \in granted \/ \E m \in sent : g = <<v, m.epoch, r>>
  BY <1>2
<1>5. MemoryInv'
  BY <1>1, <1>2 DEF MemoryInv
<1>6. QueuedInv'
  <2> SUFFICES ASSUME NEW u \in Voters, NEW k \in sndbuf'[u]
               PROVE  /\ k.from = u
                      /\ k.epoch <= lastVoteEpoch[u]
                      /\ \A g \in granted' : g[1] = u /\ g[2] = k.epoch => <<u, k.epoch>> \in forgot
                      /\ \A l \in sndbuf'[u] : l.epoch = k.epoch => l = k
    BY <1>2 DEF QueuedInv
  <2>1. k \in sndbuf[u] /\ sndbuf'[u] \subseteq sndbuf[u] /\ (u = v => k \notin sent)
    BY <1>1, <1>2 DEF TypeOK
  <2>2. ASSUME NEW g \in granted', g[1] = u, g[2] = k.epoch PROVE <<u, k.epoch>> \in forgot
    <3>1. CASE g \in granted
      BY <3>1, <2>1, <2>2, <1>1 DEF QueuedInv
    <3>2. CASE \E m \in sent : g = <<v, m.epoch, r>>
      BY <3>2, <2>1, <2>2, <1>1 DEF QueuedInv
    <3> QED BY <3>1, <3>2, <1>4
  <2> QED BY <2>1, <2>2, <1>1 DEF QueuedInv
<1>7. RememberedInv'
  <2> SUFFICES ASSUME NEW g \in granted', <<g[1], g[2]>> \notin forgot
               PROVE  /\ g[2] <= lastVoteEpoch[g[1]]
                      /\ <<g[1], g[2]>> \in early' \/ g[2] <= diskVote[g[1]]
    BY <1>2 DEF RememberedInv
  <2>0. early \subseteq early'
    BY <1>2
  <2>1. CASE g \in granted
    BY <2>0, <2>1, <1>1 DEF RememberedInv
  <2>2. CASE \E m \in sent : g = <<v, m.epoch, r>>
    <3>1. PICK m \in sent : g = <<v, m.epoch, r>>
      BY <2>2
    <3>2. m \in sndbuf[v] /\ m.epoch <= lastVoteEpoch[v]
      BY <1>1 DEF QueuedInv
    <3>3. CASE todoSave[v]
      BY <3>1, <3>2, <3>3, <1>2
    <3>4. CASE ~todoSave[v]
      BY <3>1, <3>2, <3>4, <1>3
    <3> QED BY <3>3, <3>4
  <2> QED BY <2>1, <2>2, <1>4
<1>8. OneVotePerEpoch'
  <2> SUFFICES ASSUME NEW g \in granted', NEW h \in granted', g[1] = h[1], g[2] = h[2]
               PROVE  g[3] = h[3] \/ <<g[1], g[2]>> \in forgot
    BY <1>2 DEF OneVotePerEpoch
  <2>1. CASE g \in granted /\ h \in granted
    BY <2>1, <1>1 DEF OneVotePerEpoch
  <2>2. CASE g \in granted /\ \E m \in sent : h = <<v, m.epoch, r>>
    BY <2>2, <1>1 DEF QueuedInv
  <2>3. CASE h \in granted /\ \E m \in sent : g = <<v, m.epoch, r>>
    BY <2>3, <1>1 DEF QueuedInv
  <2>4. CASE (\E m \in sent : g = <<v, m.epoch, r>>) /\ (\E m \in sent : h = <<v, m.epoch, r>>)
    BY <2>4
  <2> QED BY <2>1, <2>2, <2>3, <2>4, <1>4
<1> QED
  BY <1>5, <1>6, <1>7, <1>8 DEF VoteIInv

\* A crash of a voter: what it forgets was never sent, or was sent early.
LEMMA CrashVoterSafe ==
  ASSUME VoteIInv, TypeOK', NEW v \in Voters, CrashVoter(v)
  PROVE  VoteIInv'
<1>1. TypeOK /\ MemoryInv /\ RememberedInv /\ QueuedInv /\ OneVotePerEpoch
  BY DEF VoteIInv
<1>2. MemoryInv'
  BY <1>1 DEF MemoryInv, TypeOK, CrashVoter, Voters, Node
<1>3. QueuedInv'
  BY <1>1 DEF QueuedInv, TypeOK, CrashVoter, Voters, Node
<1>4. OneVotePerEpoch'
  BY <1>1 DEF OneVotePerEpoch, CrashVoter
<1>5. RememberedInv'
  <2>1. /\ lastVoteEpoch' = [lastVoteEpoch EXCEPT ![v] = diskVote[v]]
        /\ early' = {p \in early : p[1] # v}
        /\ forgot' = forgot \cup {p \in early : p[1] = v}
        /\ UNCHANGED <<granted, diskVote>>
    BY DEF CrashVoter
  <2> SUFFICES ASSUME NEW g \in granted, <<g[1], g[2]>> \notin forgot'
               PROVE  /\ g[2] <= lastVoteEpoch'[g[1]]
                      /\ <<g[1], g[2]>> \in early' \/ g[2] <= diskVote[g[1]]
    BY <2>1 DEF RememberedInv
  <2>2. /\ g[2] \in Nat /\ g[1] \in Node /\ g[2] <= lastVoteEpoch[g[1]]
        /\ <<g[1], g[2]>> \in early \/ g[2] <= diskVote[g[1]]
    BY <1>1, <2>1 DEF RememberedInv, TypeOK, Node
  <2>3. CASE g[1] = v
    BY <2>1, <2>2, <2>3, <1>1 DEF TypeOK
  <2>4. CASE g[1] # v
    BY <2>1, <2>2, <2>4, <1>1 DEF TypeOK
  <2> QED BY <2>3, <2>4
<1> QED
  BY <1>2, <1>3, <1>4, <1>5 DEF VoteIInv

\* The vote invariants are inductive.
LEMMA VoteStep == VoteIInv /\ [Next]_vars => VoteIInv'
<1> SUFFICES ASSUME VoteIInv, [Next]_vars PROVE VoteIInv'
  OBVIOUS
<1>t. TypeOK /\ TypeOK'
  BY TypeStep DEF VoteIInv
<1>1. ASSUME NEW r \in Replicas, ScheduleElection(r) PROVE VoteIInv'
  BY <1>1, <1>t, VoteFrame DEF ScheduleElection, voteVars, persist, epochs, links, losses
<1>2. ASSUME NEW r \in Replicas, clusterRequestFailoverAuth(r) PROVE VoteIInv'
  <2>1. /\ \A n \in Node : currentEpoch'[n] >= currentEpoch[n]
        /\ \A v \in Voters : diskEpoch'[v] = diskEpoch[v]
        /\ UNCHANGED <<lastVoteEpoch, diskVote, sndbuf, granted, todoSave, early, forgot>>
    BY <1>2, <1>t, ElectionAssumption
       DEF clusterRequestFailoverAuth, TypeOK, Voters, Node, losses
  <2> QED BY <2>1, <1>t, EpochFrame
<1>3. ASSUME NEW r \in Replicas, clusterFailoverReplaceYourMaster(r) PROVE VoteIInv'
  <2>1. /\ \A n \in Node : currentEpoch'[n] >= currentEpoch[n]
        /\ \A v \in Voters : diskEpoch'[v] = diskEpoch[v]
        /\ UNCHANGED <<lastVoteEpoch, diskVote, sndbuf, granted, todoSave, early, forgot>>
    BY <1>3, <1>t, ElectionAssumption
       DEF clusterFailoverReplaceYourMaster, TypeOK, Voters, Node, epochs, links, losses
  <2> QED BY <2>1, <1>t, EpochFrame
<1>4. ASSUME NEW r \in Replicas, CrashReplica(r) PROVE VoteIInv'
  <2>1. TypeOK /\ MemoryInv /\ RememberedInv /\ QueuedInv /\ OneVotePerEpoch
    BY DEF VoteIInv
  <2>2. /\ \A v \in Voters : currentEpoch'[v] = currentEpoch[v]
        /\ UNCHANGED <<lastVoteEpoch, diskEpoch, diskVote, sndbuf, granted, todoSave, early, forgot>>
    BY <1>4, <1>t, ElectionAssumption
       DEF CrashReplica, TypeOK, Voters, Node, persist, links, losses
  <2>3. MemoryInv'
    BY <2>1, <2>2 DEF MemoryInv
  <2>4. QueuedInv' /\ RememberedInv' /\ OneVotePerEpoch'
    BY <2>1, <2>2 DEF QueuedInv, RememberedInv, OneVotePerEpoch
  <2> QED BY <2>3, <2>4, <1>t DEF VoteIInv
<1>5. ASSUME NEW r \in Replicas, NEW m \in net, ReceiveAck(r, m) PROVE VoteIInv'
  <2>1. m.epoch \in Nat /\ r \in Node
    BY <1>5, <1>t DEF ReceiveAck, TypeOK, Request, ACK, Node
  <2>2. /\ \A n \in Node : currentEpoch'[n] >= currentEpoch[n]
        /\ UNCHANGED <<lastVoteEpoch, diskEpoch, diskVote, sndbuf, granted, todoSave, early, forgot>>
    BY <1>5, <1>t, <2>1 DEF ReceiveAck, SeeEpoch, TypeOK, persist, losses
  <2> QED BY <2>2, <1>t, EpochFrame
<1>6. ASSUME NEW v \in Voters, NEW m \in net, GrantVote(v, m) PROVE VoteIInv'
  BY <1>6, <1>t, GrantVoteSafe
<1>7. ASSUME NEW v \in Voters, NEW m \in net, DenyVote(v, m) PROVE VoteIInv'
  <2>1. m.epoch \in Nat /\ v \in Node
    BY <1>7, <1>t DEF DenyVote, TypeOK, Request, ACK, Node
  <2>2. /\ \A n \in Node : currentEpoch'[n] >= currentEpoch[n]
        /\ UNCHANGED <<lastVoteEpoch, diskEpoch, diskVote, sndbuf, granted, todoSave, early, forgot>>
    BY <1>7, <1>t, <2>1 DEF DenyVote, SeeEpoch, TypeOK, persist, losses
  <2> QED BY <2>2, <1>t, EpochFrame
<1>8. ASSUME NEW v \in Voters, clusterBeforeSleep(v) PROVE VoteIInv'
  BY <1>8, <1>t, BeforeSleepSafe
<1>9. ASSUME NEW v \in Voters, NEW r \in Replicas, clusterWriteHandler(v, r)
      PROVE VoteIInv'
  BY <1>9, <1>t, WriteHandlerSafe
<1>10. ASSUME NEW v \in Voters, VoteWindowEnds(v) PROVE VoteIInv'
  BY <1>10, <1>t, VoteFrame DEF VoteWindowEnds, voteVars, persist, epochs, links, losses
<1>11. ASSUME NEW v \in Voters, CrashVoter(v) PROVE VoteIInv'
  BY <1>11, <1>t, CrashVoterSafe
<1>12. ASSUME NEW n \in Node, NEW k \in Node, ReceivePing(n, k) PROVE VoteIInv'
  <2>1. /\ \A i \in Node : currentEpoch'[i] >= currentEpoch[i]
        /\ UNCHANGED <<lastVoteEpoch, diskEpoch, diskVote, sndbuf, granted, todoSave, early, forgot>>
    BY <1>12, <1>t DEF ReceivePing, SeeEpoch, TypeOK, persist, links, losses
  <2> QED BY <2>1, <1>t, EpochFrame
<1>13. ASSUME NEW n \in Node, NEW k \in Replicas, ReceiveClaim(n, k) PROVE VoteIInv'
  <2>1. k \in Node
    BY DEF Node
  <2>2. /\ \A i \in Node : currentEpoch'[i] >= currentEpoch[i]
        /\ \A v \in Voters : todoSave[v] => todoSave'[v]
        /\ \A v \in Voters : diskEpoch'[v] = diskEpoch[v]
        /\ UNCHANGED <<lastVoteEpoch, diskVote, sndbuf, granted, early, forgot>>
    BY <1>13, <1>t, <2>1, ElectionAssumption
       DEF ReceiveClaim, SeeEpoch, TypeOK, links, losses, Voters, Node
  <2> QED BY <2>2, <1>t, EpochFrame
<1>14. CASE UNCHANGED vars
  BY <1>14, <1>t, VoteFrame DEF vars, voteVars, persist, epochs, links, losses
<1> QED
  BY <1>1, <1>2, <1>3, <1>4, <1>5, <1>6, <1>7, <1>8, <1>9, <1>10, <1>11,
     <1>12, <1>13, <1>14 DEF Next

LEMMA VoteInit == Init => VoteIInv
BY ElectionAssumption DEF Init, VoteIInv, TypeOK, MemoryInv, QueuedInv, Voters, Node,
     RememberedInv, OneVotePerEpoch

\* A master votes twice in an epoch only if it crashed with the vote unsaved
\* after the ACK had left (OneVotePerEpoch), for any number of crashes and
\* any order of the write handlers and clusterBeforeSleep.
THEOREM VoteSafety == Spec => []OneVotePerEpoch
<1>1. VoteIInv /\ [Next]_vars => VoteIInv'
  BY VoteStep
<1>2. VoteIInv => OneVotePerEpoch
  BY DEF VoteIInv
<1> QED
  BY <1>1, <1>2, VoteInit, PTL DEF Spec

-----------------------------------------------------------------------------
(* One winner per epoch.                                                    *)

\* A packet in flight is a request or an ACK, as its type says.
LEMMA NetTypes ==
  ASSUME TypeOK, NEW m \in net
  PROVE  /\ m.type = "ack" => m \in ACK
         /\ m.type = "req" => m \in Request
         /\ m.type \in {"req", "ack"}
BY DEF TypeOK, Request, ACK

\* Requests with the same fields are the same.
LEMMA SameRequest ==
  ASSUME TypeOK, NEW m \in Request, NEW q \in Request,
         m.from = q.from, m.to = q.to, m.epoch = q.epoch, m.cfg = q.cfg
  PROVE  m = q
BY DEF Request

\* Packets are only consumed, and grants only added.
LEMMA FlightFrame ==
  ASSUME FlightInv, net' \subseteq net, granted \subseteq granted'
  PROVE  FlightInv'
BY DEF FlightInv

\* Replicas' epochs on disk grow and stay below the ones in memory, no
\* election starts, and no request, ACK or grant is added.
LEMMA RequestFrame ==
  ASSUME TypeOK, TypeOK', RequestInv,
         \A r \in Replicas : /\ diskEpoch'[r] >= diskEpoch[r]
                             /\ diskEpoch'[r] <= currentEpoch'[r]
                             /\ authSent'[r] => authSent[r] /\ authEpoch'[r] = authEpoch[r],
         net' \subseteq net,
         \A v \in Voters : sndbuf'[v] \subseteq sndbuf[v],
         granted' = granted
  PROVE  RequestInv'
<1>0. Replicas \subseteq Node
  BY DEF Node
<1>1. ASSUME NEW m \in net', m.type = "req"
      PROVE  /\ m.epoch <= diskEpoch'[m.from]
             /\ authSent'[m.from] => m.epoch <= authEpoch'[m.from]
  <2>1. m \in net /\ m.from \in Replicas /\ m.epoch \in Nat
    BY <1>1, NetTypes DEF Request
  <2>2. m.epoch <= diskEpoch[m.from] /\ (authSent[m.from] => m.epoch <= authEpoch[m.from])
    BY <1>1, <2>1 DEF RequestInv
  <2>3. diskEpoch[m.from] \in Nat /\ diskEpoch'[m.from] \in Nat
    BY <1>0, <2>1 DEF TypeOK
  <2> QED BY <2>1, <2>2, <2>3
<1>2. ASSUME NEW v \in Voters, NEW m \in sndbuf'[v]
      PROVE  /\ m.epoch <= diskEpoch'[m.to]
             /\ authSent'[m.to] => m.epoch <= authEpoch'[m.to]
  <2>1. m \in sndbuf[v] /\ m.to \in Replicas /\ m.epoch \in Nat
    BY <1>2 DEF TypeOK, ACK
  <2>2. m.epoch <= diskEpoch[m.to] /\ (authSent[m.to] => m.epoch <= authEpoch[m.to])
    BY <2>1 DEF RequestInv
  <2>3. diskEpoch[m.to] \in Nat /\ diskEpoch'[m.to] \in Nat
    BY <1>0, <2>1 DEF TypeOK
  <2> QED BY <2>1, <2>2, <2>3
<1>3. ASSUME NEW g \in granted'
      PROVE  /\ g[2] <= diskEpoch'[g[3]]
             /\ authSent'[g[3]] => g[2] <= authEpoch'[g[3]]
  <2>1. g \in granted /\ g[3] \in Replicas /\ g[2] \in Nat
    BY <1>3 DEF TypeOK
  <2>2. g[2] <= diskEpoch[g[3]] /\ (authSent[g[3]] => g[2] <= authEpoch[g[3]])
    BY <2>1 DEF RequestInv
  <2>3. diskEpoch[g[3]] \in Nat /\ diskEpoch'[g[3]] \in Nat
    BY <1>0, <2>1 DEF TypeOK
  <2> QED BY <2>1, <2>2, <2>3
<1> QED
  BY <1>1, <1>2, <1>3 DEF RequestInv

\* The counts are left alone, and no ACK appears.
LEMMA CountFrame ==
  ASSUME CountInv, UNCHANGED auth, net' \subseteq net, granted \subseteq granted'
  PROVE  CountInv'
BY DEF CountInv, auth

\* Nobody wins.
LEMMA WinFrame ==
  ASSUME WinInv, UNCHANGED wins, granted \subseteq granted'
  PROVE  WinInv'
BY DEF WinInv, Quorum

\* The next request of a replica has an epoch above all its earlier ones.
LEMMA RequestStep ==
  ASSUME ElectionIInv, TypeOK', NEW r \in Replicas, clusterRequestFailoverAuth(r)
  PROVE  FlightInv' /\ RequestInv' /\ CountInv' /\ WinInv'
<1>1. TypeOK /\ FlightInv /\ RequestInv /\ CountInv /\ WinInv
  BY DEF ElectionIInv, VoteIInv
<1> DEFINE e == currentEpoch[r] + 1
<1>2. /\ r \in Node
      /\ currentEpoch[r] \in Nat
      /\ net' = net \cup Requests(r, e)
      /\ currentEpoch' = [currentEpoch EXCEPT ![r] = e]
      /\ diskEpoch' = [diskEpoch EXCEPT ![r] = e]
      /\ authEpoch' = [authEpoch EXCEPT ![r] = e]
      /\ authSent' = [authSent EXCEPT ![r] = TRUE]
      /\ ~authSent[r]
      /\ UNCHANGED <<sndbuf, granted, authCount, counted, late, wins>>
  BY <1>1 DEF clusterRequestFailoverAuth, TypeOK, config, Node
<1>3. \A m \in Requests(r, e) : m.type = "req" /\ m.from = r /\ m.epoch = e
  BY DEF Requests
<1>4. FlightInv'
  BY <1>1, <1>2, <1>3 DEF FlightInv
<1>5. CountInv'
  <2> SUFFICES ASSUME NEW q \in Replicas, ~late[q]
               PROVE  /\ authCount[q] = Cardinality(counted[q])
                      /\ ~authSent'[q] => counted[q] = {}
                      /\ \A v \in counted[q] : <<v, authEpoch'[q], q>> \in granted
                      /\ \A m \in net' : m.type = "ack" /\ m.to = q /\ m.from \in counted[q]
                           => m.epoch # authEpoch'[q]
    BY <1>2 DEF CountInv
  <2>1. CASE q = r
    <3>1. counted[q] = {} /\ authCount[q] = Cardinality(counted[q])
      BY <2>1, <1>1, <1>2 DEF CountInv
    <3> QED BY <3>1
  <2>2. CASE q # r
    <3>1. authSent'[q] = authSent[q] /\ authEpoch'[q] = authEpoch[q]
      BY <2>2, <1>1, <1>2 DEF TypeOK
    <3> QED BY <3>1, <1>1, <1>2, <1>3 DEF CountInv
  <2> QED BY <2>1, <2>2
<1>6. WinInv'
  BY <1>1, <1>2, WinFrame
<1>7. RequestInv'
  <2>0. Replicas \subseteq Node
    BY DEF Node
  <2>1. \A q \in Replicas :
          /\ diskEpoch'[q] = IF q = r THEN e ELSE diskEpoch[q]
          /\ currentEpoch'[q] = IF q = r THEN e ELSE currentEpoch[q]
          /\ authEpoch'[q] = IF q = r THEN e ELSE authEpoch[q]
          /\ authSent'[q] = IF q = r THEN TRUE ELSE authSent[q]
          /\ diskEpoch[q] \in Nat /\ currentEpoch[q] \in Nat
          /\ diskEpoch[q] <= currentEpoch[q]
    BY <1>1, <1>2, <2>0 DEF TypeOK, RequestInv
  <2>e. /\ e \in Nat /\ e > currentEpoch[r] /\ e > diskEpoch[r] /\ e <= e
        /\ diskEpoch'[r] = e /\ currentEpoch'[r] = e /\ authEpoch'[r] = e
    <3>1. diskEpoch[r] \in Nat /\ diskEpoch[r] <= currentEpoch[r] /\ currentEpoch[r] \in Nat
      BY <1>1, <1>2 DEF TypeOK, RequestInv
    <3>2. diskEpoch'[r] = e /\ currentEpoch'[r] = e /\ authEpoch'[r] = e
      BY <2>1, Zenon
    <3> QED BY <3>1, <3>2
  <2> HIDE DEF e
  <2>2. ASSUME NEW k \in Nat, NEW q \in Replicas, k <= diskEpoch[q],
               authSent[q] => k <= authEpoch[q]
        PROVE  k <= diskEpoch'[q] /\ (authSent'[q] => k <= authEpoch'[q])
    <3>1. diskEpoch[q] \in Nat
      BY <2>1
    <3>2. CASE q = r
      BY <3>1, <3>2, <2>2, <2>e
    <3>3. CASE q # r
      BY <3>3, <2>1, <2>2
    <3> QED BY <3>2, <3>3
  <2>3. \A q \in Replicas : diskEpoch'[q] <= currentEpoch'[q]
    BY <2>1, <2>e
  <2>4. ASSUME NEW m \in net', m.type = "req"
        PROVE  /\ m.epoch <= diskEpoch'[m.from]
               /\ authSent'[m.from] => m.epoch <= authEpoch'[m.from]
    <3>1. CASE m \in Requests(r, e)
      BY <3>1, <1>3, <2>e
    <3>2. CASE m \in net
      <4>1. m.epoch \in Nat /\ m.from \in Replicas
        BY <3>2, <2>4, <1>1, NetTypes DEF Request
      <4>2. m.epoch <= diskEpoch[m.from] /\ (authSent[m.from] => m.epoch <= authEpoch[m.from])
        BY <3>2, <2>4, <1>1 DEF RequestInv
      <4> QED BY <4>1, <4>2, <2>2
    <3> QED BY <3>1, <3>2, <1>2
  <2>5. ASSUME NEW v \in Voters, NEW m \in sndbuf[v]
        PROVE  /\ m.epoch <= diskEpoch'[m.to]
               /\ authSent'[m.to] => m.epoch <= authEpoch'[m.to]
    <3>1. m.epoch \in Nat /\ m.to \in Replicas
      BY <1>1 DEF TypeOK, ACK
    <3>2. m.epoch <= diskEpoch[m.to] /\ (authSent[m.to] => m.epoch <= authEpoch[m.to])
      BY <1>1 DEF RequestInv
    <3> QED BY <3>1, <3>2, <2>2
  <2>6. ASSUME NEW g \in granted
        PROVE  /\ g[2] <= diskEpoch'[g[3]]
               /\ authSent'[g[3]] => g[2] <= authEpoch'[g[3]]
    <3>1. g[2] \in Nat /\ g[3] \in Replicas
      BY <1>1 DEF TypeOK
    <3>2. g[2] <= diskEpoch[g[3]] /\ (authSent[g[3]] => g[2] <= authEpoch[g[3]])
      BY <1>1 DEF RequestInv
    <3> QED BY <3>1, <3>2, <2>2
  <2> QED BY <2>3, <2>4, <2>5, <2>6, <1>2 DEF RequestInv
<1> QED BY <1>4, <1>5, <1>6, <1>7

\* A queued ACK carries the epoch of the request it answers.
LEMMA GrantStep ==
  ASSUME ElectionIInv, TypeOK', NEW v \in Voters, NEW m \in net, GrantVote(v, m)
  PROVE  FlightInv' /\ RequestInv' /\ CountInv' /\ WinInv'
<1>1. TypeOK /\ FlightInv /\ RequestInv /\ CountInv /\ WinInv
  BY DEF ElectionIInv, VoteIInv
<1> DEFINE a == [type |-> "ack", from |-> v, to |-> m.from, epoch |-> m.epoch]
<1>2. /\ net' = net \ {m}
      /\ sndbuf' = [sndbuf EXCEPT ![v] = @ \cup {a}]
      /\ UNCHANGED <<granted, auth, wins, diskEpoch>>
      /\ m.type = "req"
  BY DEF GrantVote, config
<1>3. FlightInv' /\ CountInv' /\ WinInv'
  BY <1>1, <1>2, FlightFrame, CountFrame, WinFrame
<1>4. m.from \in Replicas /\ m.epoch \in Nat /\ v \in Node
  BY <1>1, <1>2, NetTypes DEF Request, Node
<1>5. \A n \in Node : currentEpoch'[n] >= currentEpoch[n]
  BY <1>1, <1>4 DEF GrantVote, SeeEpoch, TypeOK
<1>6. \A r \in Replicas : diskEpoch'[r] <= currentEpoch'[r]
  BY <1>1, <1>2, <1>5 DEF RequestInv, TypeOK, Node
<1>7. ASSUME NEW u \in Voters, NEW k \in sndbuf'[u]
      PROVE  /\ k.epoch <= diskEpoch[k.to]
             /\ authSent[k.to] => k.epoch <= authEpoch[k.to]
  <2>1. k \in sndbuf[u] \/ k = a
    BY <1>1, <1>2, <1>7 DEF TypeOK
  <2>2. a.epoch = m.epoch /\ a.to = m.from
    OBVIOUS
  <2>3. m.epoch <= diskEpoch[m.from] /\ (authSent[m.from] => m.epoch <= authEpoch[m.from])
    BY <1>1, <1>2 DEF RequestInv
  <2>4. CASE k = a
    BY <2>2, <2>3, <2>4
  <2>5. CASE k \in sndbuf[u]
    BY <2>5, <1>1 DEF RequestInv
  <2> QED BY <2>1, <2>4, <2>5
<1>8. RequestInv'
  BY <1>1, <1>2, <1>6, <1>7 DEF RequestInv, auth
<1> QED BY <1>3, <1>8

\* An ACK that is written becomes a grant; nobody has counted it yet.
LEMMA WriteStep ==
  ASSUME ElectionIInv, TypeOK', NEW v \in Voters, NEW r \in Replicas,
         clusterWriteHandler(v, r)
  PROVE  FlightInv' /\ RequestInv' /\ CountInv' /\ WinInv'
<1>1. TypeOK /\ QueuedInv /\ FlightInv /\ RequestInv /\ OnceInv /\ CountInv /\ WinInv
  BY DEF ElectionIInv, VoteIInv
<1> DEFINE sent == {m \in sndbuf[v] : m.to = r}
<1>2. /\ sndbuf' = [sndbuf EXCEPT ![v] = @ \ sent]
      /\ net' = net \cup sent
      /\ granted' = granted \cup {<<v, m.epoch, r>> : m \in sent}
      /\ UNCHANGED <<currentEpoch, diskEpoch, authSent, authEpoch, authCount, counted, late, wins>>
  BY DEF clusterWriteHandler, epochs, persist, auth, config
<1>3. \A m \in sent : /\ m.type = "ack" /\ m.from = v /\ m.to = r /\ m \in sndbuf[v]
                      /\ <<v, m.epoch, r>> \notin granted
  <2>1. \A m \in sndbuf[v] : m.from = v /\ <<v, m.epoch, m.to>> \notin granted
    BY <1>1 DEF QueuedInv, OnceInv
  <2>2. \A m \in sndbuf[v] : m.type = "ack"
    BY <1>1 DEF TypeOK, ACK
  <2> QED BY <2>1, <2>2
<1>4. FlightInv'
  BY <1>1, <1>2, <1>3 DEF FlightInv
<1>5. WinInv'
  BY <1>1, <1>2, WinFrame
<1>6. RequestInv'
  <2>1. \A g \in granted' : g \in granted \/ \E m \in sent : g = <<v, m.epoch, r>>
    BY <1>2
  <2>2. \A g \in granted' : /\ g[2] <= diskEpoch[g[3]]
                            /\ authSent[g[3]] => g[2] <= authEpoch[g[3]]
    BY <2>1, <1>1, <1>3 DEF RequestInv
  <2>3. \A u \in Voters : sndbuf'[u] \subseteq sndbuf[u]
    BY <1>1, <1>2 DEF TypeOK
  <2> QED BY <2>2, <2>3, <1>1, <1>2, <1>3 DEF RequestInv
<1>7. CountInv'
  <2> SUFFICES ASSUME NEW q \in Replicas, ~late[q], NEW m \in net', m.type = "ack", m.to = q,
                      m.from \in counted[q]
               PROVE  m.epoch # authEpoch[q]
    BY <1>1, <1>2 DEF CountInv
  <2>1. CASE m \in net
    BY <2>1, <1>1 DEF CountInv
  <2>2. CASE m \in sent
    <3>1. <<v, authEpoch[q], q>> \in granted
      BY <2>2, <1>1, <1>3 DEF CountInv
    <3> QED BY <3>1, <2>2, <1>3
  <2> QED BY <2>1, <2>2, <1>2
<1> QED BY <1>4, <1>5, <1>6, <1>7

\* A set of masters is finite.
LEMMA CountedFinite ==
  ASSUME TypeOK, NEW r \in Replicas PROVE IsFiniteSet(counted[r])
BY ElectionAssumption, FS_Subset DEF TypeOK, Voters

\* A counted ACK is late, or of the election in progress and from a new voter.
LEMMA AckStep ==
  ASSUME ElectionIInv, TypeOK', NEW r \in Replicas,
         NEW m \in net, ReceiveAck(r, m)
  PROVE  FlightInv' /\ RequestInv' /\ CountInv' /\ WinInv'
<1>1. TypeOK /\ FlightInv /\ RequestInv /\ CountInv /\ WinInv
  BY DEF ElectionIInv, VoteIInv
<1>2. /\ net' = net \ {m}
      /\ UNCHANGED <<granted, authSent, authEpoch, wins, diskEpoch, sndbuf>>
      /\ m.type = "ack" /\ m.to = r
  BY DEF ReceiveAck, config, persist
<1>3. m \in ACK /\ m.epoch \in Nat /\ m.from \in Voters /\ r \in Node
  BY <1>1, <1>2, NetTypes DEF ACK, Node
<1>4. FlightInv' /\ WinInv'
  BY <1>1, <1>2, FlightFrame, WinFrame
<1>5. RequestInv'
  <2>1. \A n \in Node : currentEpoch'[n] >= currentEpoch[n]
    BY <1>1, <1>3 DEF ReceiveAck, SeeEpoch, TypeOK
  <2>2. \A q \in Replicas : diskEpoch[q] \in Nat /\ diskEpoch[q] <= currentEpoch[q]
                            /\ currentEpoch[q] \in Nat /\ currentEpoch'[q] \in Nat
    BY <1>1 DEF RequestInv, TypeOK, Node
  <2>3. \A q \in Replicas : /\ diskEpoch'[q] >= diskEpoch[q]
                            /\ diskEpoch'[q] <= currentEpoch'[q]
    BY <2>1, <2>2, <1>2 DEF Node
  <2> QED BY <2>3, <1>1, <1>2, RequestFrame
<1>6. CountInv'
  <2>1. CASE ~AckCounts(r, m)
    <3>1. UNCHANGED auth
      BY <2>1, <1>2 DEF ReceiveAck, auth
    <3> QED BY <3>1, <1>1, <1>2, CountFrame
  <2>2. CASE AckCounts(r, m)
    <3>1. m.epoch >= authEpoch[r]
      BY <2>2 DEF AckCounts
    <3>2. <<m.from, m.epoch, r>> \in granted
      BY <1>1, <1>2 DEF FlightInv
    <3>6. /\ authCount' = [authCount EXCEPT ![r] = @ + 1]
          /\ counted' = [counted EXCEPT ![r] = @ \cup {m.from}]
          /\ late' = [late EXCEPT ![r] = @ \/ ~authSent[r]]
      BY <2>2 DEF ReceiveAck
    <3> SUFFICES ASSUME NEW q \in Replicas, ~late'[q]
                 PROVE  /\ authCount'[q] = Cardinality(counted'[q])
                        /\ ~authSent[q] => counted'[q] = {}
                        /\ \A v \in counted'[q] : <<v, authEpoch[q], q>> \in granted
                        /\ \A k \in net' : k.type = "ack" /\ k.to = q /\ k.from \in counted'[q]
                             => k.epoch # authEpoch[q]
      BY <1>2 DEF CountInv
    <3>8. CASE q # r
      <4>1. /\ authCount'[q] = authCount[q] /\ counted'[q] = counted[q]
            /\ late'[q] = late[q]
        BY <3>6, <3>8, <1>1 DEF TypeOK
      <4> QED BY <4>1, <1>1, <1>2 DEF CountInv
    <3>9. CASE q = r
      <4>0. authSent[r] /\ ~late[r]
        BY <3>6, <3>9, <1>1 DEF TypeOK
      <4>1. authCount'[r] = authCount[r] + 1 /\ counted'[r] = counted[r] \cup {m.from}
        BY <3>6, <1>1 DEF TypeOK
      <4>2. authCount[r] = Cardinality(counted[r])
        BY <4>0, <1>1 DEF CountInv
      <4>a. m.epoch <= authEpoch[r] /\ authEpoch[r] \in Nat
        BY <4>0, <3>2, <1>1 DEF RequestInv, TypeOK
      <4>b. m.epoch = authEpoch[r]
        BY <3>1, <4>a, <1>3
      <4>c. m.from \notin counted[r]
        BY <4>0, <4>b, <1>1, <1>2 DEF CountInv
      <4>d. Cardinality(counted[r] \cup {m.from}) = Cardinality(counted[r]) + 1
        BY <4>c, <1>1, CountedFinite, FS_AddElement
      <4>3. ASSUME NEW k \in net', k.type = "ack", k.to = r, k.from = m.from
            PROVE  k.epoch # authEpoch[r]
        <5>1. k \in ACK /\ k # m
          BY <4>3, <1>1, <1>2, NetTypes
        <5> QED BY <5>1, <4>3, <1>2, <1>3, <4>b DEF ACK
      <4>4. \A v \in counted'[r] : <<v, authEpoch[r], r>> \in granted
        BY <4>0, <4>1, <3>2, <4>b, <1>1 DEF CountInv
      <4>5. \A k \in net' : k.type = "ack" /\ k.to = r /\ k.from \in counted'[r]
                             => k.epoch # authEpoch[r]
        BY <4>0, <4>1, <4>3, <1>1, <1>2 DEF CountInv
      <4> QED BY <3>9, <4>0, <4>1, <4>2, <4>4, <4>5, <4>d
    <3> QED BY <3>8, <3>9
  <2> QED BY <2>1, <2>2
<1> QED BY <1>4, <1>5, <1>6

\* A replica that gives an attempt up, by a new schedule or a crash.
LEMMA GiveUpStep ==
  ASSUME ElectionIInv, TypeOK', NEW r \in Replicas,
         ScheduleElection(r) \/ CrashReplica(r)
  PROVE  FlightInv' /\ RequestInv' /\ CountInv' /\ WinInv'
<1>1. TypeOK /\ FlightInv /\ RequestInv /\ CountInv /\ WinInv
  BY DEF ElectionIInv, VoteIInv
<1>2. /\ UNCHANGED <<net, granted, wins, diskEpoch, sndbuf>>
      /\ authCount' = [authCount EXCEPT ![r] = 0]
      /\ counted' = [counted EXCEPT ![r] = {}]
      /\ authSent' = [authSent EXCEPT ![r] = FALSE]
      /\ late' = [late EXCEPT ![r] = FALSE]
      /\ \A q \in Replicas : q # r => authEpoch'[q] = authEpoch[q]
  BY <1>1 DEF ScheduleElection, CrashReplica, TypeOK, links, config, persist
<1>3. \A q \in Replicas :
        currentEpoch'[q] = currentEpoch[q] \/ currentEpoch'[q] = diskEpoch[q]
  BY <1>1 DEF ScheduleElection, CrashReplica, TypeOK, epochs, Node
<1>4. \A q \in Replicas : diskEpoch[q] \in Nat /\ diskEpoch[q] <= currentEpoch[q]
  BY <1>1 DEF TypeOK, RequestInv, Node
<1>5. FlightInv' /\ WinInv'
  BY <1>1, <1>2, FlightFrame, WinFrame
<1>6. RequestInv'
  <2>1. \A q \in Replicas : /\ diskEpoch'[q] >= diskEpoch[q]
                            /\ diskEpoch'[q] <= currentEpoch'[q]
    BY <1>2, <1>3, <1>4
  <2>2. \A q \in Replicas : authSent'[q] => authSent[q] /\ authEpoch'[q] = authEpoch[q]
    BY <1>1, <1>2 DEF TypeOK
  <2> QED BY <2>1, <2>2, <1>1, <1>2, RequestFrame
<1>7. CountInv'
  <2> SUFFICES ASSUME NEW q \in Replicas, ~late'[q]
               PROVE  /\ authCount'[q] = Cardinality(counted'[q])
                      /\ ~authSent'[q] => counted'[q] = {}
                      /\ \A v \in counted'[q] : <<v, authEpoch'[q], q>> \in granted
                      /\ \A k \in net : k.type = "ack" /\ k.to = q /\ k.from \in counted'[q]
                           => k.epoch # authEpoch'[q]
    BY <1>2 DEF CountInv
  <2>1. CASE q = r
    BY <2>1, <1>1, <1>2, FS_EmptySet DEF TypeOK
  <2>2. CASE q # r
    <3>1. /\ authCount'[q] = authCount[q] /\ counted'[q] = counted[q]
          /\ authSent'[q] = authSent[q] /\ authEpoch'[q] = authEpoch[q]
          /\ late'[q] = late[q]
      BY <2>2, <1>1, <1>2 DEF TypeOK
    <3> QED BY <3>1, <1>1 DEF CountInv
  <2> QED BY <2>1, <2>2
<1> QED BY <1>5, <1>6, <1>7

\* The masters counted by the winner are its majority.
LEMMA WinStep ==
  ASSUME ElectionIInv, TypeOK', NEW r \in Replicas,
         clusterFailoverReplaceYourMaster(r)
  PROVE  FlightInv' /\ RequestInv' /\ CountInv' /\ WinInv'
<1>1. TypeOK /\ FlightInv /\ RequestInv /\ CountInv /\ WinInv
  BY DEF ElectionIInv, VoteIInv
<1>2. /\ UNCHANGED <<net, granted, sndbuf, currentEpoch>> /\ UNCHANGED auth
      /\ wins' = wins \cup {<<r, authEpoch[r], late[r]>>}
      /\ diskEpoch' = [diskEpoch EXCEPT ![r] = currentEpoch[r]]
      /\ authCount[r] >= Quorum
  BY DEF clusterFailoverReplaceYourMaster, links, epochs
<1>3. FlightInv' /\ CountInv'
  BY <1>1, <1>2, FlightFrame, CountFrame
<1>4. RequestInv'
  <2>1. \A q \in Replicas : /\ q \in Node
                            /\ diskEpoch[q] \in Nat /\ currentEpoch[q] \in Nat
                            /\ diskEpoch[q] <= currentEpoch[q]
                            /\ diskEpoch'[q] = IF q = r THEN currentEpoch[q] ELSE diskEpoch[q]
    BY <1>1, <1>2 DEF TypeOK, RequestInv, Node
  <2>2. \A q \in Replicas : diskEpoch'[q] >= diskEpoch[q] /\ diskEpoch'[q] <= currentEpoch'[q]
    BY <2>1, <1>2
  <2> QED BY <2>2, <1>1, <1>2, RequestFrame DEF auth
<1>5. WinInv'
  <2> SUFFICES ASSUME NEW w \in wins', ~w[3]
               PROVE  \E Q \in SUBSET Voters :
                        /\ Cardinality(Q) >= Quorum
                        /\ \A v \in Q : <<v, w[2], w[1]>> \in granted
    BY <1>2 DEF WinInv, Quorum
  <2>1. CASE w \in wins
    BY <2>1, <1>1 DEF WinInv
  <2>2. CASE w = <<r, authEpoch[r], late[r]>>
    <3>1. counted[r] \in SUBSET Voters /\ Cardinality(counted[r]) >= Quorum
      BY <2>2, <1>1, <1>2 DEF CountInv, TypeOK
    <3>2. \A v \in counted[r] : <<v, authEpoch[r], r>> \in granted
      BY <2>2, <1>1 DEF CountInv
    <3> QED BY <3>1, <3>2, <2>2
  <2> QED BY <2>1, <2>2, <1>2
<1> QED BY <1>3, <1>4, <1>5

\* The remaining steps touch neither the counts nor the grants.
LEMMA QuietStep ==
  ASSUME ElectionIInv, TypeOK', net' \subseteq net,
         \A v \in Voters : sndbuf'[v] \subseteq sndbuf[v],
         UNCHANGED <<granted, auth, wins>>,
         \A r \in Replicas : /\ \/ diskEpoch'[r] = diskEpoch[r]
                                \/ diskEpoch'[r] = currentEpoch'[r]
                             /\ currentEpoch'[r] >= currentEpoch[r]
  PROVE  FlightInv' /\ RequestInv' /\ CountInv' /\ WinInv'
<1>1. TypeOK /\ FlightInv /\ RequestInv /\ CountInv /\ WinInv
  BY DEF ElectionIInv, VoteIInv
<1>2. FlightInv' /\ CountInv' /\ WinInv'
  BY <1>1, FlightFrame, CountFrame, WinFrame
<1>3. \A r \in Replicas : /\ diskEpoch[r] \in Nat /\ currentEpoch[r] \in Nat
                          /\ currentEpoch'[r] \in Nat /\ diskEpoch[r] <= currentEpoch[r]
  BY <1>1 DEF TypeOK, RequestInv, Node
<1>4. \A r \in Replicas : diskEpoch'[r] >= diskEpoch[r] /\ diskEpoch'[r] <= currentEpoch'[r]
  BY <1>3
<1>5. RequestInv'
  BY <1>1, <1>4, RequestFrame DEF auth
<1> QED BY <1>2, <1>5

\* Each request is answered once.
LEMMA OnceStep ==
  ASSUME ElectionIInv, TypeOK', [Next]_vars
  PROVE  OnceInv'
<1>1. TypeOK /\ QueuedInv /\ RequestInv /\ OnceInv
  BY DEF ElectionIInv, VoteIInv
<1>2. ASSUME net' \subseteq net, \A v \in Voters : sndbuf'[v] \subseteq sndbuf[v],
             granted' = granted
      PROVE  OnceInv'
  <2>1. \A m \in net' : m.type = "req" => m \in net /\ m.to \in Voters
    BY <1>1, <1>2, NetTypes DEF Request
  <2> QED BY <1>1, <1>2, <2>1 DEF OnceInv
<1>3. ASSUME NEW r \in Replicas, clusterRequestFailoverAuth(r) PROVE OnceInv'
  <2> DEFINE e == currentEpoch[r] + 1
  <2>1. /\ net' = net \cup Requests(r, e) /\ UNCHANGED <<sndbuf, granted>>
        /\ slotEpoch[r][MasterOf[r]] = 0
    BY <1>3 DEF clusterRequestFailoverAuth, CanFailover
  <2>2. e \in Nat /\ diskEpoch[r] \in Nat /\ diskEpoch[r] < e
    BY <1>1 DEF TypeOK, RequestInv, Node
  <2>3. \A m \in Requests(r, e) : m.from = r /\ m.epoch = e /\ m.to \in Voters /\ m.cfg = 0
    BY <2>1 DEF Requests
  <2> HIDE DEF e
  <2>4. \A g \in granted : g[3] = r => g[2] # e
    BY <1>1, <2>2 DEF TypeOK, RequestInv
  <2>5. \A v \in Voters : \A k \in sndbuf[v] : k.to = r => k.epoch # e
    BY <1>1, <2>2 DEF TypeOK, RequestInv, ACK
  <2>6. ASSUME NEW m \in net', m.type = "req"
        PROVE  /\ m.cfg = 0
               /\ <<m.to, m.epoch, m.from>> \notin granted
               /\ \A k \in sndbuf[m.to] : k.to = m.from => k.epoch # m.epoch
    <3>1. CASE m \in net
      BY <3>1, <2>6, <1>1 DEF OnceInv
    <3>2. CASE m \in Requests(r, e)
      BY <3>2, <2>3, <2>4, <2>5
    <3> QED BY <2>1, <3>1, <3>2
  <2> QED BY <2>1, <2>6, <1>1 DEF OnceInv
<1>4. ASSUME NEW v \in Voters, NEW m \in net, GrantVote(v, m) PROVE OnceInv'
  <2> DEFINE a == [type |-> "ack", from |-> v, to |-> m.from, epoch |-> m.epoch]
  <2>1. /\ net' = net \ {m} /\ granted' = granted
        /\ sndbuf' = [sndbuf EXCEPT ![v] = @ \cup {a}]
        /\ m.type = "req" /\ m.to = v
    BY <1>4 DEF GrantVote
  <2>2. \A u \in Voters : \A k \in sndbuf'[u] : k \in sndbuf[u] \/ (u = v /\ k = a)
    BY <2>1, <1>1 DEF TypeOK
  <2>3. <<v, m.epoch, m.from>> \notin granted
    BY <2>1, <1>1 DEF OnceInv
  <2>4. ASSUME NEW u \in Voters, NEW k \in sndbuf'[u] PROVE <<u, k.epoch, k.to>> \notin granted
    BY <2>2, <2>3, <1>1 DEF OnceInv
  <2>5. ASSUME NEW q \in net', q.type = "req"
        PROVE  /\ q.cfg = 0
               /\ <<q.to, q.epoch, q.from>> \notin granted
               /\ \A k \in sndbuf'[q.to] : k.to = q.from => k.epoch # q.epoch
    <3>1. q \in net /\ q # m /\ q \in Request /\ m \in Request
      BY <2>1, <2>5, <1>1, NetTypes
    <3>2. <<q.to, q.epoch, q.from>> \notin granted /\ q.cfg = 0 /\ m.cfg = 0
      BY <2>1, <3>1, <2>5, <1>1 DEF OnceInv
    <3>3. ASSUME NEW k \in sndbuf'[q.to], k.to = q.from PROVE k.epoch # q.epoch
      <4>1. CASE k \in sndbuf[q.to]
        BY <4>1, <3>1, <3>3, <2>5, <1>1 DEF OnceInv
      <4>2. CASE q.to = v /\ k = a /\ k.epoch = q.epoch
        <5>1. q.from = m.from /\ q.epoch = m.epoch /\ q.to = m.to
          BY <4>2, <3>3, <2>1
        <5> QED BY <5>1, <3>1, <3>2, <1>1, SameRequest
      <4> QED BY <4>1, <4>2, <3>1, <2>2 DEF Request
    <3> QED BY <3>2, <3>3
  <2> QED BY <2>1, <2>4, <2>5 DEF OnceInv
<1>5. ASSUME NEW v \in Voters, NEW r \in Replicas, clusterWriteHandler(v, r) PROVE OnceInv'
  <2> DEFINE sent == {m \in sndbuf[v] : m.to = r}
  <2>1. /\ sndbuf' = [sndbuf EXCEPT ![v] = @ \ sent]
        /\ net' = net \cup sent
        /\ granted' = granted \cup {<<v, m.epoch, r>> : m \in sent}
    BY <1>5 DEF clusterWriteHandler
  <2>2. \A m \in sent : m \in sndbuf[v] /\ m.to = r /\ m.type = "ack"
    BY <1>1 DEF TypeOK, ACK
  <2>3. \A u \in Voters : sndbuf'[u] \subseteq sndbuf[u] /\ (u = v => \A k \in sndbuf'[u] : k.to # r)
    BY <2>1, <1>1 DEF TypeOK
  <2>4. \A g \in granted' : g \in granted \/ \E m \in sent : g = <<v, m.epoch, r>>
    BY <2>1
  <2> HIDE DEF sent
  <2>5. ASSUME NEW q \in net', q.type = "req"
        PROVE  /\ q.cfg = 0
               /\ <<q.to, q.epoch, q.from>> \notin granted'
               /\ \A k \in sndbuf'[q.to] : k.to = q.from => k.epoch # q.epoch
    <3>1. q \in net /\ q.to \in Voters
      BY <2>1, <2>2, <2>5, <1>1, NetTypes DEF Request
    <3>2. /\ q.cfg = 0
          /\ <<q.to, q.epoch, q.from>> \notin granted
          /\ \A k \in sndbuf[q.to] : k.to = q.from => k.epoch # q.epoch
      BY <3>1, <2>5, <1>1 DEF OnceInv
    <3>3. \A m \in sent : <<q.to, q.epoch, q.from>> # <<v, m.epoch, r>>
      BY <3>2, <2>2
    <3> QED BY <3>1, <3>2, <3>3, <2>3, <2>4
  <2>6. ASSUME NEW u \in Voters, NEW k \in sndbuf'[u] PROVE <<u, k.epoch, k.to>> \notin granted'
    <3>1. k \in sndbuf[u] /\ <<u, k.epoch, k.to>> \notin granted
      BY <2>3, <1>1 DEF OnceInv
    <3>2. \A m \in sent : <<u, k.epoch, k.to>> # <<v, m.epoch, r>>
      BY <2>3
    <3> QED BY <3>1, <3>2, <2>4
  <2> QED BY <2>5, <2>6 DEF OnceInv
<1>6. ASSUME NEW v \in Voters, CrashVoter(v) PROVE OnceInv'
  <2>1. /\ net' = net /\ granted' = granted
        /\ \A u \in Voters : sndbuf'[u] \subseteq sndbuf[u]
    BY <1>6, <1>1 DEF CrashVoter, TypeOK
  <2> QED BY <2>1, <1>2
<1>7. ASSUME NEW r \in Replicas,
             \/ ScheduleElection(r) \/ clusterFailoverReplaceYourMaster(r)
             \/ CrashReplica(r) \/ \E m \in net : ReceiveAck(r, m)
      PROVE  OnceInv'
  BY <1>2, <1>7 DEF ScheduleElection, clusterFailoverReplaceYourMaster, CrashReplica,
                    ReceiveAck, links
<1>8. ASSUME NEW v \in Voters,
             \/ clusterBeforeSleep(v) \/ VoteWindowEnds(v) \/ \E m \in net : DenyVote(v, m)
      PROVE  OnceInv'
  BY <1>2, <1>8 DEF clusterBeforeSleep, VoteWindowEnds, DenyVote, links
<1>9. ASSUME NEW n \in Node,
             \/ \E k \in Node : ReceivePing(n, k)
             \/ \E k \in Replicas : ReceiveClaim(n, k)
      PROVE  OnceInv'
  BY <1>2, <1>9 DEF ReceivePing, ReceiveClaim, links
<1>10. CASE UNCHANGED vars
  BY <1>2, <1>10 DEF vars, links
<1> QED
  BY <1>3, <1>4, <1>5, <1>6, <1>7, <1>8, <1>9, <1>10 DEF Next

\* The whole invariant is inductive.
LEMMA ElectionStep == ElectionIInv /\ [Next]_vars => ElectionIInv'
<1> DEFINE Rest == FlightInv /\ RequestInv /\ CountInv /\ WinInv
<1> SUFFICES ASSUME ElectionIInv, [Next]_vars PROVE ElectionIInv'
  OBVIOUS
<1>v. VoteIInv'
  BY VoteStep DEF ElectionIInv
<1>t. TypeOK /\ TypeOK'
  BY <1>v DEF VoteIInv, ElectionIInv
<1>d. Replicas \subseteq Node /\ \A r \in Replicas : r \notin Voters
  BY ElectionAssumption DEF Node, Voters
<1>o. OnceInv'
  BY <1>t, OnceStep
<1> SUFFICES Rest'
  BY <1>v, <1>o DEF ElectionIInv
<1>1. ASSUME NEW r \in Replicas, ScheduleElection(r) PROVE Rest'
  BY <1>1, <1>t, GiveUpStep
<1>2. ASSUME NEW r \in Replicas, clusterRequestFailoverAuth(r) PROVE Rest'
  BY <1>2, <1>t, RequestStep
<1>3. ASSUME NEW r \in Replicas, clusterFailoverReplaceYourMaster(r) PROVE Rest'
  BY <1>3, <1>t, WinStep
<1>4. ASSUME NEW r \in Replicas, CrashReplica(r) PROVE Rest'
  BY <1>4, <1>t, GiveUpStep
<1>5. ASSUME NEW r \in Replicas, NEW m \in net, ReceiveAck(r, m) PROVE Rest'
  BY <1>5, <1>t, AckStep
<1>6. ASSUME NEW v \in Voters, NEW m \in net, GrantVote(v, m) PROVE Rest'
  BY <1>6, <1>t, GrantStep
<1>7. ASSUME NEW v \in Voters, NEW m \in net, DenyVote(v, m) PROVE Rest'
  <2>1. /\ net' \subseteq net
        /\ UNCHANGED <<granted, auth, wins, sndbuf, diskEpoch>>
        /\ \A r \in Replicas : currentEpoch'[r] = currentEpoch[r]
    BY <1>7, <1>t, <1>d DEF DenyVote, SeeEpoch, persist, config, TypeOK
  <2>2. \A r \in Replicas : currentEpoch[r] \in Nat
    BY <1>t, <1>d DEF TypeOK
  <2> QED BY <2>1, <2>2, <1>t, QuietStep
<1>8. ASSUME NEW v \in Voters, clusterBeforeSleep(v) PROVE Rest'
  <2>1. /\ UNCHANGED <<net, granted, auth, wins, sndbuf, currentEpoch>>
        /\ \A r \in Replicas : diskEpoch'[r] = diskEpoch[r]
    BY <1>8, <1>t, <1>d DEF clusterBeforeSleep, links, config, epochs, TypeOK
  <2>2. \A r \in Replicas : currentEpoch[r] \in Nat
    BY <1>t, <1>d DEF TypeOK
  <2> QED BY <2>1, <2>2, <1>t, QuietStep
<1>9. ASSUME NEW v \in Voters, NEW r \in Replicas, clusterWriteHandler(v, r) PROVE Rest'
  BY <1>9, <1>t, WriteStep
<1>10. ASSUME NEW v \in Voters, VoteWindowEnds(v) PROVE Rest'
  <2>1. UNCHANGED <<net, granted, auth, wins, sndbuf, currentEpoch, diskEpoch>>
    BY <1>10 DEF VoteWindowEnds, links, config, epochs, persist
  <2>2. \A r \in Replicas : currentEpoch[r] \in Nat
    BY <1>t, <1>d DEF TypeOK
  <2> QED BY <2>1, <2>2, <1>t, QuietStep
<1>11. ASSUME NEW v \in Voters, CrashVoter(v) PROVE Rest'
  <2>1. /\ UNCHANGED <<net, granted, auth, wins, diskEpoch>>
        /\ \A u \in Voters : sndbuf'[u] \subseteq sndbuf[u]
        /\ \A r \in Replicas : currentEpoch'[r] = currentEpoch[r]
    BY <1>11, <1>t, <1>d DEF CrashVoter, config, TypeOK
  <2>2. \A r \in Replicas : currentEpoch[r] \in Nat
    BY <1>t, <1>d DEF TypeOK
  <2> QED BY <2>1, <2>2, <1>t, QuietStep
<1>12. ASSUME NEW n \in Node, NEW k \in Node, ReceivePing(n, k) PROVE Rest'
  <2>1. /\ UNCHANGED <<net, granted, auth, wins, sndbuf, diskEpoch>>
        /\ \A r \in Replicas : currentEpoch'[r] >= currentEpoch[r]
    BY <1>12, <1>t, <1>d DEF ReceivePing, SeeEpoch, links, config, persist, TypeOK
  <2> QED BY <2>1, <1>t, QuietStep
<1>13. ASSUME NEW n \in Node, NEW k \in Replicas, ReceiveClaim(n, k) PROVE Rest'
  <2>1. /\ UNCHANGED <<net, granted, auth, wins, sndbuf>>
        /\ \A r \in Replicas : /\ currentEpoch'[r] >= currentEpoch[r]
                               /\ \/ diskEpoch'[r] = diskEpoch[r]
                                  \/ diskEpoch'[r] = currentEpoch'[r]
    BY <1>13, <1>t, <1>d DEF ReceiveClaim, SeeEpoch, links, config, TypeOK
  <2> QED BY <2>1, <1>t, QuietStep
<1>14. CASE UNCHANGED vars
  <2>1. UNCHANGED <<net, granted, auth, wins, sndbuf, currentEpoch, diskEpoch>>
    BY <1>14 DEF vars, links, config, epochs, persist
  <2>2. \A r \in Replicas : currentEpoch[r] \in Nat
    BY <1>t, <1>d DEF TypeOK
  <2> QED BY <2>1, <2>2, <1>t, QuietStep
<1> QED
  BY <1>1, <1>2, <1>3, <1>4, <1>5, <1>6, <1>7, <1>8, <1>9, <1>10, <1>11,
     <1>12, <1>13, <1>14 DEF Next

LEMMA ElectionInit == Init => ElectionIInv
<1> SUFFICES ASSUME Init PROVE ElectionIInv
  OBVIOUS
<1>1. VoteIInv
  BY VoteInit
<1>2. FlightInv /\ WinInv
  BY DEF Init, FlightInv, WinInv
<1>3. RequestInv /\ OnceInv
  BY DEF Init, RequestInv, OnceInv, Node
<1>4. CountInv
  BY FS_EmptySet DEF Init, CountInv
<1> QED BY <1>1, <1>2, <1>3, <1>4 DEF ElectionIInv

\* Two majorities of the masters share a master.
LEMMA MajoritiesMeet ==
  ASSUME NEW Q \in SUBSET Masters, NEW R \in SUBSET Masters,
         Cardinality(Q) >= Quorum, Cardinality(R) >= Quorum
  PROVE  Q \cap R # {}
<1>1. IsFiniteSet(Masters) /\ IsFiniteSet(Q) /\ IsFiniteSet(R)
  BY ElectionAssumption, FS_Subset
<1>2. Cardinality(Q \cup R) = Cardinality(Q) + Cardinality(R) - Cardinality(Q \cap R)
  BY <1>1, FS_Union
<1>3. Cardinality(Q \cup R) <= Cardinality(Masters)
  BY <1>1, FS_Subset
<1>4. /\ Cardinality(Masters) \in Nat /\ Cardinality(Q) \in Nat
      /\ Cardinality(R) \in Nat /\ Cardinality(Q \cup R) \in Nat
  BY <1>1, FS_CardinalityType, FS_Union
<1>5. SUFFICES ASSUME Q \cap R = {} PROVE FALSE
  OBVIOUS
<1>6. Cardinality(Q \cap R) = 0
  BY <1>5, FS_EmptySet
<1> QED
  BY <1>2, <1>3, <1>4, <1>6 DEF Quorum

\* An epoch has at most one winner, for any number of masters and replicas,
\* unless one of them counted an ACK that came between two attempts or a
\* master lost a vote of the epoch whose ACK had overtaken the save.
THEOREM ElectionSafe == Spec => []ElectionSafety
<1>1. ElectionIInv /\ [Next]_vars => ElectionIInv'
  BY ElectionStep
<1>2. ElectionIInv => ElectionSafety
  <2> SUFFICES ASSUME ElectionIInv, NEW w \in wins, NEW x \in wins, w[2] = x[2],
                      ~w[3], ~x[3]
               PROVE  w[1] = x[1] \/ \E v \in Voters : <<v, w[2]>> \in forgot
    BY DEF ElectionSafety
  <2>1. WinInv /\ OneVotePerEpoch
    BY DEF ElectionIInv, VoteIInv
  <2>2. PICK Q \in SUBSET Voters : /\ Cardinality(Q) >= Quorum
                                   /\ \A v \in Q : <<v, w[2], w[1]>> \in granted
    BY <2>1 DEF WinInv
  <2>3. PICK R \in SUBSET Voters : /\ Cardinality(R) >= Quorum
                                   /\ \A v \in R : <<v, x[2], x[1]>> \in granted
    BY <2>1 DEF WinInv
  <2>4. PICK v \in Q : v \in R
    BY <2>2, <2>3, MajoritiesMeet DEF Voters
  <2>5. <<v, w[2], w[1]>> \in granted /\ <<v, x[2], x[1]>> \in granted
    BY <2>2, <2>3, <2>4
  <2> QED BY <2>1, <2>5 DEF OneVotePerEpoch
<1> QED
  BY <1>1, <1>2, ElectionInit, PTL DEF Spec
=============================================================================
