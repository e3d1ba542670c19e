-------------------------- MODULE ClusterFailDetect --------------------------
(***************************************************************************)
(* How the nodes of a cluster agree that one of them, the suspect, is down *)
(* (cluster.c).  A node that gets no answer to its PING flags the suspect  *)
(* PFAIL; masters gossip the flag; a node that holds PFAIL and fresh       *)
(* failure reports of a majority flags it FAIL and broadcasts a FAIL       *)
(* packet.  PFAIL goes away with a PONG, FAIL only under the conditions of *)
(* clearNodeFailureIfNeeded.                                               *)
(*                                                                         *)
(* Time is counted in ticks, the interval in which every node pings every  *)
(* other one; ages saturate just above the limit the code compares them    *)
(* with.  What is sent at a tick arrives, in any order, before the next    *)
(* one, or is lost on a lossy channel; FAIL packets may take longer or be  *)
(* lost.                                                                   *)
(***************************************************************************)
EXTENDS Integers, FiniteSets

CONSTANTS
  Masters, Replicas,  \* the nodes that watch the suspect
  Networks,           \* which channels work, and which of them may lose gossip
  Size,               \* cluster size: masters that serve slots
  NodeTimeout,        \* cluster_node_timeout in ticks
  Validity,           \* ... * CLUSTER_FAIL_REPORT_VALIDITY_MULT
  UndoTime,           \* ... * CLUSTER_FAIL_UNDO_TIME_MULT
  MaxFlips            \* bound on the changes of reachability

Watchers == Masters \cup Replicas
Channels == {c \in Masters \X Watchers : c[1] # c[2]}
MaxDelay == 1
NoAge == -1

ASSUME DetectAssumption ==
  /\ IsFiniteSet(Masters) /\ Masters \cap Replicas = {}
  /\ Networks \subseteq [open : SUBSET Channels, lossy : SUBSET Channels]
  /\ Size \in Nat /\ NodeTimeout \in Nat /\ Validity \in Nat /\ UndoTime \in Nat
  /\ MaxFlips \in Nat

VARIABLES
  net,       \* the network, one of Networks
  up,        \* [node]: can it exchange packets with the suspect?
  serves,    \* does the suspect still serve slots (not failed over)?
  pingAge,      \* [node]: age of its unanswered PING, or NoAge
  flag,      \* [node]: "ok", "pfail" or "fail"
  failAge,   \* [node]: time since fail_time
  report,    \* [node]: [master -> age of its failure report, or NoAge]
  gossip,    \* [channel]: the gossip on its way: the sender's opinion of the
             \* suspect when it was sent, or "none"
  failPkt,   \* nodes with a FAIL packet on its way to them
  suspected, \* [master]: time since it last flagged the suspect (history)
  flips

detectVars == <<net, up, serves, pingAge, flag, failAge, report, gossip, failPkt, suspected, flips>>

DetectInit ==
  /\ net \in Networks
  /\ up = [n \in Watchers |-> TRUE] /\ serves = TRUE
  /\ pingAge = [n \in Watchers |-> NoAge]
  /\ flag = [n \in Watchers |-> "ok"]
  /\ failAge = [n \in Watchers |-> UndoTime + 1]
  /\ report = [n \in Watchers |-> [m \in Masters |-> NoAge]]
  /\ gossip = [c \in Channels |-> "none"]
  /\ failPkt = {}
  /\ suspected = [m \in Masters |-> Validity + MaxDelay + 1]
  /\ flips = 0

-----------------------------------------------------------------------------
Quorum == Size \div 2 + 1

Older(age, limit) == IF age = NoAge \/ age > limit THEN age ELSE age + 1

\* Mutant of clusterNodeCleanupFailureReports: old reports are kept.
KeepReports(rep) == rep

\* clusterNodeCleanupFailureReports: reports past their validity go.
clusterNodeCleanupFailureReports(rep) ==
  [m \in Masters |-> IF rep[m] > Validity THEN NoAge ELSE rep[m]]

\* clusterNodeFailureReportsCount, after the cleanup.
ReportsCount(rep) == Cardinality({m \in Masters : rep[m] # NoAge})

\* Mutant of MarksFailing: a master does not count itself.
MarksWithoutSelf(n, rep) == flag[n] = "pfail" /\ ReportsCount(rep) >= Quorum

\* Does node n, with reports rep, mark the suspect as failing
\* (markNodeAsFailingIfNeeded)?  It counts itself if it is a master.
MarksFailing(n, rep) ==
  /\ flag[n] = "pfail"
  /\ ReportsCount(rep) + (IF n \in Masters THEN 1 ELSE 0) >= Quorum

\* A flag is raised or lowered; a master that flags the suspect is noted.
SetFlag(n, f) ==
  /\ flag' = [flag EXCEPT ![n] = f]
  /\ suspected' = IF n \in Masters /\ f # "ok"
                  THEN [suspected EXCEPT ![n] = 0] ELSE suspected

-----------------------------------------------------------------------------
\* Mutant of MayClearFail: a master with slots is never cleared.
NeverClearsMaster(n) == ~serves

\* clearNodeFailureIfNeeded: at once if nobody depends on the suspect, after
\* some time if it still serves its slots.
MayClearFail(n) == ~serves \/ failAge[n] > UndoTime

\* The PONG of the suspect is read by n.
ReceivePong(n) ==
  /\ up[n] /\ pingAge[n] # NoAge
  /\ pingAge' = [pingAge EXCEPT ![n] = NoAge]
  /\ IF flag[n] = "pfail" \/ (flag[n] = "fail" /\ MayClearFail(n))
     THEN SetFlag(n, "ok")
     ELSE UNCHANGED <<flag, suspected>>
  /\ UNCHANGED <<net, up, serves, failAge, report, gossip, failPkt, flips>>

\* clusterCron: the PING of n has been unanswered for too long.
clusterCron(n) ==
  /\ pingAge[n] > NodeTimeout /\ flag[n] = "ok"
  /\ SetFlag(n, "pfail")
  /\ UNCHANGED <<net, up, serves, pingAge, failAge, report, gossip, failPkt, flips>>

\* clusterProcessGossipSection: the report is added or deleted, and n may
\* mark the suspect as failing and broadcast the news.
ReceiveGossip(c) ==
  LET n     == c[2]
      bad   == gossip[c] = "bad"
      had   == report[n][c[1]] # NoAge
      added == [report[n] EXCEPT ![c[1]] = 0]
      rep   == CASE bad /\ flag[n] = "pfail"  -> clusterNodeCleanupFailureReports(added)
                 [] bad /\ flag[n] # "pfail"  -> added
                 [] ~bad /\ (had \/ pingAge[n] = NoAge) ->
                      clusterNodeCleanupFailureReports([report[n] EXCEPT ![c[1]] = NoAge])
                 [] ~bad /\ ~had /\ pingAge[n] # NoAge -> report[n]
  IN
  /\ gossip[c] # "none"
  /\ gossip' = [gossip EXCEPT ![c] = "none"]
  /\ report' = [report EXCEPT ![n] = rep]
  /\ IF bad /\ MarksFailing(n, rep)
     THEN /\ SetFlag(n, "fail")
          /\ failAge' = [failAge EXCEPT ![n] = 0]
          /\ failPkt' = Watchers \ {n}
     ELSE UNCHANGED <<flag, suspected, failAge, failPkt>>
  /\ UNCHANGED <<net, up, serves, pingAge, flips>>

\* A gossip packet is lost.
LoseGossip(c) ==
  /\ c \in net.lossy /\ gossip[c] # "none"
  /\ gossip' = [gossip EXCEPT ![c] = "none"]
  /\ UNCHANGED <<net, up, serves, pingAge, flag, failAge, report, failPkt, suspected, flips>>

\* The FAIL packet is read.
ReceiveFail(n) ==
  /\ n \in failPkt
  /\ failPkt' = failPkt \ {n}
  /\ IF flag[n] # "fail"
     THEN SetFlag(n, "fail") /\ failAge' = [failAge EXCEPT ![n] = 0]
     ELSE UNCHANGED <<flag, suspected, failAge>>
  /\ UNCHANGED <<net, up, serves, pingAge, report, gossip, flips>>

\* The FAIL packet is lost with its link.
LoseFail(n) ==
  /\ n \in failPkt
  /\ failPkt' = failPkt \ {n}
  /\ UNCHANGED <<net, up, serves, pingAge, flag, failAge, report, gossip, suspected, flips>>

\* A replica of the suspect that holds it FAIL is elected and takes the slots.
FailedOver ==
  /\ serves /\ \E n \in Replicas : flag[n] = "fail"
  /\ serves' = FALSE
  /\ UNCHANGED <<net, up, pingAge, flag, failAge, report, gossip, failPkt, suspected, flips>>

\* The suspect crashes or comes back for all, or its link with n changes.
Flip(S) ==
  /\ flips < MaxFlips
  /\ flips' = flips + 1
  /\ up' = [n \in Watchers |-> IF n \in S THEN ~up[n] ELSE up[n]]
  /\ UNCHANGED <<net, serves, pingAge, flag, failAge, report, gossip, failPkt, suspected>>

\* Time passes, once clusterCron has looked at every PING, and the PONGs and
\* the gossip have arrived.  Every node without an active PING sends one, and every master
\* gossips its opinion (clusterSendPing).
Tick ==
  /\ \A n \in Watchers : ~(pingAge[n] > NodeTimeout /\ flag[n] = "ok")
  /\ \A n \in Watchers : up[n] => pingAge[n] = NoAge
  /\ \A c \in Channels : gossip[c] = "none"
  /\ pingAge' = [n \in Watchers |-> IF pingAge[n] = NoAge THEN 0 ELSE Older(pingAge[n], NodeTimeout)]
  /\ failAge' = [n \in Watchers |-> Older(failAge[n], UndoTime)]
  /\ report' = [n \in Watchers |-> [m \in Masters |-> Older(report[n][m], Validity)]]
  /\ suspected' = [m \in Masters |->
       IF flag[m] # "ok" THEN 0 ELSE Older(suspected[m], Validity + MaxDelay)]
  /\ gossip' = [c \in Channels |-> CASE c \notin net.open      -> "none"
                                    [] flag[c[1]] = "ok"    -> "ok"
                                    [] OTHER                -> "bad"]
  /\ UNCHANGED <<net, up, serves, flag, failPkt, flips>>

DetectNext ==
  \/ \E n \in Watchers : \/ ReceivePong(n) \/ clusterCron(n)
                      \/ ReceiveFail(n) \/ LoseFail(n)
  \/ \E c \in Channels : ReceiveGossip(c) \/ LoseGossip(c)
  \/ FailedOver
  \/ \E S \in {{n} : n \in Watchers} \cup {Watchers} : Flip(S)
  \/ Tick

\* clusterCron runs ten times a second, links are read when they have data,
\* and time passes.
DetectFairness ==
  /\ WF_detectVars(Tick)
  /\ \A n \in Watchers : /\ WF_detectVars(ReceivePong(n))
                      /\ WF_detectVars(clusterCron(n))
                      /\ WF_detectVars(ReceiveFail(n))
  /\ \A c \in Channels : WF_detectVars(ReceiveGossip(c))

DetectSpec == DetectInit /\ [][DetectNext]_detectVars
DetectFairSpec == DetectSpec /\ DetectFairness

-----------------------------------------------------------------------------
(* Properties.                                                              *)

\* "We collect the majority of masters state during some time": a node that
\* turns PFAIL into FAIL by itself (it broadcasts) does so only if a majority
\* of the masters flagged the suspect within the validity of a report and the
\* time it travelled.  Old reports must not be added up with new ones.
MarkNeedsRecentMajority ==
  [][\A n \in Watchers : flag[n] = "pfail" /\ flag'[n] = "fail" /\ n \notin failPkt =>
       Cardinality({m \in Masters : suspected[m] <= Validity + MaxDelay}) >= Quorum]_detectVars

\* "Either we reach the majority and eventually the FAIL state will propagate
\* to all the cluster": when the suspect stays unreachable, every node holds
\* it FAIL for ever, even if FAIL packets are lost, if gossip gets through.
FailSpreads ==
  (net.open = Channels /\ net.lossy = {} /\ <>[](\A n \in Watchers : ~up[n])) => <>[](\A n \in Watchers : flag[n] = "fail")

\* The FAIL state is not a trap: a suspect that is reachable again is flagged
\* by nobody in the end, although the others' gossip still reports it.
FailClears ==
  <>[](\A n \in Watchers : up[n]) => <>[](\A n \in Watchers : flag[n] = "ok")
=============================================================================
