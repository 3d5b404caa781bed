----------------------------- MODULE Ingestion -----------------------------
(***************************************************************************)
(* The whole of authenticated ingestion: publishers in Pods that come and  *)
(* go, a network that delays, repeats and loses, one collector that may    *)
(* restart at any point, and the cluster whose Nodes are deleted and       *)
(* recreated while the collector's inventory lags behind.                  *)
(*                                                                         *)
(* The model's clock is the collector's.  A Node's clock, which stamps     *)
(* capturedAt, runs ClockOffset ahead of it.                               *)
(***************************************************************************)
EXTENDS Coordinator, Publisher

CONSTANTS
  ClockOffset,   \* ClockOffset[u]: the clock of Node u minus the collector's
  Sizes,         \* the container counts that a snapshot may have
  MaxNodeObjects, MaxProbes  \* bounds of the model: Nodes created; Lists and restarts

\* The times that the Node of producer i stamps, and the requests i may send.
Times(i) == {t + ClockOffset[Claims[i].uid] : t \in 0 .. MaxClock}
SentBy(i) ==
  [instance: {i}, epoch: 1 .. MaxEpoch, sequence: 1 .. MaxScans[i], uid: NodeUID,
   scan: 1 .. MaxScans[i], captured: Times(i), size: Sizes]

ASSUME PublishersAssumption ==
  /\ ClockOffset \in [NodeUID -> Int]
  /\ Sizes \subseteq Nat
  /\ MaxScans \in [Instance -> Nat]
  /\ MaxEpoch # 0
  /\ \A i \in Instance : SentBy(i) \subseteq Request

VARIABLES
  cluster,   \* the Node object that exists under each name, external
  born,      \* the Node UIDs that have existed
  listed,    \* the answer of the inventory probe's List, not yet reconciled
  probes,    \* Lists and restarts of the collector so far
  applied,   \* history: the requests whose evidence the Store has taken
  storedAt   \* history: when it last took each of them

clusterVars == <<cluster, born, listed, probes>>
history == <<applied, storedAt>>
vars == <<collectorVars, publisherVars, clusterVars, history>>

IngestionTypeOK ==
  /\ TypeOK /\ PublisherTypeOK
  /\ cluster \in [NodeName -> NodeUID \cup {None}]
  /\ born \subseteq NodeUID
  /\ probes \in Nat
  /\ listed \in Inventory \cup {None}
  /\ applied \subseteq net
  /\ storedAt \in [applied -> Nat]

-----------------------------------------------------------------------------
(* Publishers and the network. *)

TakeSnapshot(i) ==
  /\ \E uid \in {Claims[i].uid, cluster[Claims[i].name]} \ {None}, size \in Sizes :
       Publish(i, uid, clock + ClockOffset[Claims[i].uid], size)
  /\ UNCHANGED <<collectorVars, clusterVars, history>>

AgentStep(i) ==
  /\ GotEpoch(i) \/ GotResult(i) \/ LoseAnswer(i) \/ GiveUp(i)
  /\ UNCHANGED <<collectorVars, clusterVars, history>>

\* A Pod runs on the Node object it was scheduled to; its container may restart.
StartAgent(i) ==
  /\ cluster[Claims[i].name] = Claims[i].uid
  /\ StartContainer(i)
  /\ UNCHANGED <<collectorVars, clusterVars, history>>

StopAgent(i) == StopPod(i) /\ UNCHANGED <<collectorVars, clusterVars, history>>

\* The response to request r reaches its producer if that call still waits.
Respond(r, reason) ==
  answer' = [i \in Instance |->
    IF i = r.instance /\ pc[i] \in {"post", "repost"} /\ current[i] = r
    THEN [reason |-> reason, epoch |-> 0, last |-> 0]
    ELSE answer[i]]

unchangedPublishers == UNCHANGED <<pc, pubEpoch, pubSequence, current, scans, net, acked>>

RefuseRequest(r) ==
  /\ Refuse(r) /\ Respond(r, Screen(r))
  /\ unchangedPublishers /\ UNCHANGED <<clusterVars, history>>

BeginRequest(r) ==
  /\ \E reason \in CapacityResult :
       /\ Begin(r, reason)
       /\ IF reason = "proceed" THEN UNCHANGED answer ELSE Respond(r, reason)
  /\ unchangedPublishers /\ UNCHANGED <<clusterVars, history>>

\* Whether Commit will put the evidence of the accepting request in the Store.
Stores(r) ==
  /\ StoreResult(r) = "accepted"
  /\ Claims[r.instance].role = "cgroup" => ~Unchanged(r)

CommitRequest ==
  LET r == accepting.request IN
  /\ Commit /\ Respond(r, StoreResult(r))
  /\ IF Stores(r)
     THEN /\ applied' = applied \cup {r}
          /\ storedAt' = [q \in applied \cup {r} |-> IF q = r THEN clock ELSE storedAt[q]]
     ELSE UNCHANGED history
  /\ unchangedPublishers /\ UNCHANGED clusterVars

AnswerEpoch(i) ==
  /\ pc[i] \in {"epoch", "refresh"}
  /\ answer[i] = None
  /\ ReadEpoch
  /\ answer' = [answer EXCEPT ![i] =
       [reason |-> "epoch", epoch |-> epoch, last |-> lastSequence(i)]]
  /\ unchangedPublishers /\ UNCHANGED <<clusterVars, history>>

-----------------------------------------------------------------------------
(* The cluster and the inventory probe. *)

DeleteNode(n) ==
  /\ cluster[n] # None
  /\ cluster' = [cluster EXCEPT ![n] = None]
  /\ UNCHANGED <<collectorVars, publisherVars, born, listed, probes, history>>

CreateNode(n, u) ==
  /\ cluster[n] = None
  /\ u \notin born
  /\ Cardinality(born) < MaxNodeObjects
  /\ \A i \in Instance : Claims[i].uid = u => Claims[i].name = n
  /\ cluster' = [cluster EXCEPT ![n] = u]
  /\ born' = born \cup {u}
  /\ UNCHANGED <<collectorVars, publisherVars, listed, probes, history>>

\* The probe lists the selected Nodes, and reconciles what it listed later.
ListNodes ==
  /\ listed = None
  /\ probes < MaxProbes
  /\ probes' = probes + 1
  /\ listed' = cluster
  /\ UNCHANGED <<collectorVars, publisherVars, cluster, born, history>>

ReconcileListed ==
  /\ listed # None
  /\ Reconcile(listed)
  /\ listed' = None
  /\ UNCHANGED <<publisherVars, cluster, born, probes, history>>

\* The List fails, or holds more Nodes than the Store may.
ProbeFails ==
  /\ listed # None
  /\ listed' = None
  /\ UNCHANGED <<collectorVars, publisherVars, cluster, born, probes, history>>

RestartCollector ==
  /\ Restart
  /\ probes < MaxProbes
  /\ probes' = probes + 1
  /\ listed' = None
  /\ UNCHANGED <<publisherVars, cluster, born, history>>

TickClock == Tick /\ UNCHANGED <<publisherVars, clusterVars, history>>

-----------------------------------------------------------------------------

Init ==
  /\ CInit /\ PublisherInit
  /\ cluster = [n \in NodeName |-> None]
  /\ born = {}
  /\ listed = None
  /\ probes = 0
  /\ applied = {}
  /\ storedAt = [r \in {} |-> 0]

Next ==
  \/ \E i \in Instance : \/ TakeSnapshot(i) \/ AgentStep(i)
                         \/ StartAgent(i) \/ StopAgent(i) \/ AnswerEpoch(i)
  \/ \E r \in net : RefuseRequest(r) \/ BeginRequest(r)
  \/ CommitRequest
  \/ \E n \in NodeName : DeleteNode(n) \/ \E u \in NodeUID : CreateNode(n, u)
  \/ ListNodes \/ ReconcileListed \/ ProbeFails
  \/ RestartCollector \/ TickClock

Spec == Init /\ [][Next]_vars

-----------------------------------------------------------------------------

\* An agent whose Publish returned nil is right: the Store took that snapshot,
\* or already held evidence of the same Node from the same instant.  Retries,
\* late copies, a lost answer, a restarted container that reuses a sequence and
\* a restarted collector must not make a success out of a snapshot nobody kept.
AckedWasStored ==
  \A r \in acked :
    \E q \in applied : /\ q.epoch = r.epoch /\ q.captured = r.captured
                       /\ Claims[q.instance].uid = Claims[r.instance].uid

\* A request that was stored stays out for RetiredTTL at least: its sequence is
\* behind its stream's, or its producer is fenced, through hand-overs, pruning,
\* deleted Nodes and copies that arrive late and in any order.
StoredApart ==
  [][\A n \in NodeName, r \in applied :
       (records'[n] = r /\ records[n] # r) \/ (contexts'[n] = r /\ contexts[n] # r)
         => clock >= storedAt[r] + RetiredTTL]_vars

\* What docs/security/authentication-and-authorisation.md:146 and the threat model
\* (TM-015) say of a captured request: the sequences of a Pod only grow, so that no
\* request is stored a second time by one process.
AppliedOnce ==
  [][\A n \in NodeName :
       /\ records'[n] # records[n] => records'[n] \notin applied
       /\ contexts'[n] # contexts[n] => contexts'[n] \notin applied]_vars

\* The comment of pruneInactive: "A fresh inventory can retire them without
\* resetting another live stream."  A producer that is fenced without a
\* successor was one whose Node object is gone.
PruneSparesLiveStreams ==
  [][\A i \in Instance :
       agents[i] # None /\ agents'[i] = None /\ accepting = Free /\ epoch' = epoch
         => cluster[Claims[i].name] # Claims[i].uid]_vars
=============================================================================
