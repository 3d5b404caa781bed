-------------------------- MODULE IngestionProofs --------------------------
(***************************************************************************)
(* Theorems about Ingestion for every value of its constants: any number   *)
(* of Pods and Nodes, snapshots, restarts and copies in the network.       *)
(*                                                                         *)
(* IInv is the invariant of the publishers, the network and the cluster.   *)
(* It needs a bound on the sequences: lastSequence may move p.sequence     *)
(* forward, and what keeps it from running away is that no request in the  *)
(* network is ahead of the snapshots that its Pod has taken (Posted).      *)
(*                                                                         *)
(* On it rest what a step of the collector is (CollectorImplemented), what *)
(* an acknowledgement means (SInv) and what can be stored again (OInv).    *)
(***************************************************************************)
EXTENDS Ingestion, CoordinatorProofs

\* The snapshots of a Pod that may have been posted.
Posted(i) == IF pc[i] = "epoch" THEN scans[i] - 1 ELSE scans[i]

\* A request, or the snapshot of one that has no epoch and sequence yet.
Draft == [instance: Instance, epoch: Nat, sequence: Nat, uid: NodeUID,
          scan: Nat, captured: Int, size: Nat]
Snapshot(i) == [instance: {i}, epoch: {0}, sequence: {0}, uid: NodeUID,
                scan: 1 .. MaxScans[i], captured: Times(i), size: Sizes]

Shapes ==
  /\ pc \in [Instance -> Calling \cup {"idle", "down"}]
  /\ pubEpoch \in [Instance -> Nat]
  /\ pubSequence \in [Instance -> Nat]
  /\ current \in [Instance -> Draft \cup {None}]
  /\ answer \in [Instance -> Answer \cup {None}]
  /\ scans \in [Instance -> Nat]

PublisherFits(i) ==
  /\ scans[i] <= MaxScans[i]
  /\ pc[i] \in Calling => scans[i] >= 1
  /\ pubEpoch[i] <= MaxEpoch
  /\ pubSequence[i] <= Posted(i)
  /\ pc[i] = "epoch" => current[i] \in Snapshot(i)
  /\ pc[i] \in {"post", "refresh", "repost"} => current[i] \in net /\ current[i].instance = i
  /\ answer[i] # None => pc[i] \in Calling
  /\ answer[i] # None /\ pc[i] \in {"epoch", "refresh"}
       => answer[i].epoch \in 1 .. MaxEpoch /\ answer[i].last <= Posted(i)

NetFits ==
  /\ \A r \in net : /\ r.instance \in Instance
                    /\ r \in SentBy(r.instance)
                    /\ r.sequence <= Posted(r.instance)
  /\ acked \subseteq net

CollectorFits ==
  /\ epoch \in 1 .. MaxEpoch
  /\ clock \in 0 .. MaxClock
  /\ \A i \in Instance : agents[i] # None => agents[i] \in net /\ agents[i].instance = i
  /\ accepting.request \in net \cup {None}
  /\ applied \subseteq net
  /\ storedAt \in [applied -> Nat]

ClusterFits ==
  /\ cluster \in Inventory
  /\ listed \in Inventory \cup {None}
  /\ born \subseteq NodeUID
  /\ probes \in Nat

IInv ==
  /\ CInv
  /\ Shapes
  /\ \A i \in Instance : PublisherFits(i)
  /\ NetFits
  /\ CollectorFits
  /\ ClusterFits

-----------------------------------------------------------------------------
(* Helpers. *)

\* What is in the network is a request of a producer.
LEMMA NetType ==
  ASSUME NetFits
  PROVE  /\ net \subseteq Request
         /\ \A r \in net : r.instance \in Instance /\ r \in SentBy(r.instance) /\ r \in Request /\ r # None
  <1>1. \A r \in net : r \in Request
    BY PublishersAssumption DEF NetFits
  <1>2. \A r \in net : r # None
    BY <1>1, ClaimsAssumption
  <1> QED BY <1>1, <1>2 DEF NetFits

\* The invariant implies the type invariant that the run checks.
LEMMA IInvType == IInv => IngestionTypeOK
  <1> SUFFICES ASSUME IInv PROVE IngestionTypeOK
    OBVIOUS
  <1>1. PublisherTypeOK
    <2>1. net \subseteq Request /\ acked \subseteq net
      BY NetType DEF IInv, NetFits
    <2>2. \A i \in Instance : pc[i] \in {"post", "refresh", "repost"} => current[i] \in Request
      BY <2>1 DEF IInv, PublisherFits
    <2> QED BY <2>1, <2>2 DEF IInv, Shapes, PublisherTypeOK
  <1>2. cluster \in [NodeName -> NodeUID \cup {None}]
    BY DEF IInv, ClusterFits, Inventory
  <1> QED BY <1>1, <1>2 DEF IInv, CInv, ClusterFits, CollectorFits, IngestionTypeOK

-----------------------------------------------------------------------------
(* The publishers. *)

\* What a step of the publisher of Pod i may do.
Moves(i) ==
  /\ Shapes'
  /\ \A j \in Instance \ {i} :
       /\ pc'[j] = pc[j] /\ pubEpoch'[j] = pubEpoch[j] /\ pubSequence'[j] = pubSequence[j]
       /\ current'[j] = current[j] /\ answer'[j] = answer[j] /\ scans'[j] = scans[j]
  /\ PublisherFits(i)'
  /\ Posted(i) <= Posted(i)'
  /\ net \subseteq net' /\ acked' \subseteq net'
  /\ \A r \in net' : r \in net \/ (r \in SentBy(i) /\ r.sequence <= Posted(i)')

\* Such a step keeps the invariant.
LEMMA MovesStep ==
  ASSUME IInv, NEW i \in Instance, Moves(i), UNCHANGED <<collectorVars, clusterVars, history>>
  PROVE  IInv'
  <1>0. Posted(i) \in Int /\ Posted(i)' \in Int
    BY DEF IInv, Moves, Shapes, Posted
  <1>1. CInv'
    BY TickStep DEF IInv
  <1>2. ASSUME NEW j \in Instance PROVE PublisherFits(j)'
    <2>1. CASE j # i
      <3>1. PublisherFits(j)
        BY DEF IInv
      <3>2. /\ pc'[j] = pc[j] /\ pubEpoch'[j] = pubEpoch[j] /\ pubSequence'[j] = pubSequence[j]
            /\ current'[j] = current[j] /\ answer'[j] = answer[j] /\ scans'[j] = scans[j]
            /\ net \subseteq net'
        BY <2>1 DEF Moves
      <3> QED BY <3>1, <3>2 DEF PublisherFits, Posted
    <2> QED BY <2>1 DEF Moves
  <1>3. NetFits'
    <2>1. ASSUME NEW r \in net'
          PROVE  r.instance \in Instance /\ r \in SentBy(r.instance) /\ r.sequence <= Posted(r.instance)'
      <3>1. CASE r \in net
        <4>1. r.instance \in Instance /\ r \in SentBy(r.instance) /\ r.sequence <= Posted(r.instance)
          BY <3>1 DEF IInv, NetFits
        <4>2. r.sequence \in Int
          BY <4>1 DEF SentBy
        <4>3. CASE r.instance = i
          BY <1>0, <4>1, <4>2, <4>3 DEF Moves
        <4>4. CASE r.instance # i
          <5>1. Posted(r.instance)' = Posted(r.instance)
            BY <4>1, <4>4 DEF Moves, Posted
          <5> QED BY <4>1, <5>1
        <4> QED BY <4>3, <4>4
      <3>2. CASE r \in SentBy(i) /\ r.sequence <= Posted(i)'
        <4>1. r.instance = i
          BY <3>2 DEF SentBy
        <4> QED BY <3>2, <4>1
      <3> QED BY <3>1, <3>2 DEF Moves
    <2> QED BY <2>1 DEF NetFits, Moves
  <1>4. CollectorFits'
    <2>1. UNCHANGED <<epoch, clock, agents, accepting, applied, storedAt>>
      BY DEF collectorVars, coordinatorVars, history
    <2> QED BY <2>1 DEF IInv, CollectorFits, Moves
  <1>5. ClusterFits'
    BY DEF IInv, ClusterFits, clusterVars
  <1> QED BY <1>1, <1>2, <1>3, <1>4, <1>5 DEF IInv, Moves

\* A Pod takes a natural number of snapshots.
LEMMA MaxScansType ==
  ASSUME NEW j \in Instance
  PROVE  MaxScans[j] \in Nat
  BY PublishersAssumption

\* A record is its seven fields.
LEMMA Fields ==
  ASSUME NEW A, NEW B, NEW C, NEW D, NEW E, NEW F, NEW G,
         NEW r \in [instance: A, epoch: B, sequence: C, uid: D, scan: E, captured: F, size: G]
  PROVE  /\ r.instance \in A /\ r.epoch \in B /\ r.sequence \in C /\ r.uid \in D
         /\ r.scan \in E /\ r.captured \in F /\ r.size \in G
         /\ r = [instance |-> r.instance, epoch |-> r.epoch, sequence |-> r.sequence,
                 uid |-> r.uid, scan |-> r.scan, captured |-> r.captured, size |-> r.size]
  OBVIOUS

\* A snapshot becomes a request of its producer with the sequence after the last.
LEMMA PostFact ==
  ASSUME NEW i \in Instance, NEW snapshot \in Snapshot(i), NEW e \in 1 .. MaxEpoch,
         NEW sequence \in Nat, sequence + 1 <= MaxScans[i], Post(i, snapshot, e, sequence)
  PROVE  /\ pubSequence' = [pubSequence EXCEPT ![i] = sequence + 1]
         /\ pc' = [pc EXCEPT ![i] = "post"]
         /\ \E request \in SentBy(i) : /\ request.sequence = sequence + 1
                                      /\ request.instance = i
                                      /\ current' = [current EXCEPT ![i] = request]
                                      /\ net' = net \cup {request}
  <1> DEFINE request == [snapshot EXCEPT !.epoch = e, !.sequence = sequence + 1]
             posted  == [instance |-> snapshot.instance, epoch |-> e, sequence |-> sequence + 1,
                         uid |-> snapshot.uid, scan |-> snapshot.scan,
                         captured |-> snapshot.captured, size |-> snapshot.size]
  <1>1. sequence + 1 \in 1 .. MaxScans[i]
    BY MaxScansType
  <1>2. /\ snapshot.instance \in {i} /\ snapshot.uid \in NodeUID /\ snapshot.scan \in 1 .. MaxScans[i]
        /\ snapshot.captured \in Times(i) /\ snapshot.size \in Sizes
        /\ snapshot = [instance |-> snapshot.instance, epoch |-> snapshot.epoch,
                       sequence |-> snapshot.sequence, uid |-> snapshot.uid, scan |-> snapshot.scan,
                       captured |-> snapshot.captured, size |-> snapshot.size]
    BY Fields DEF Snapshot
  <1>3. request = posted
    <2> DEFINE draft == [snapshot EXCEPT !.epoch = e]
    <2>1. draft = [instance |-> snapshot.instance, epoch |-> e, sequence |-> snapshot.sequence,
                   uid |-> snapshot.uid, scan |-> snapshot.scan,
                   captured |-> snapshot.captured, size |-> snapshot.size]
      BY <1>2
    <2>2. [draft EXCEPT !.sequence = sequence + 1] = posted
      <3> HIDE DEF draft
      <3> QED BY <2>1
    <2> QED BY <2>2
  <1>4. posted \in SentBy(i) /\ posted.sequence = sequence + 1 /\ posted.instance = i
    BY <1>1, <1>2 DEF SentBy
  <1> QED BY <1>3, <1>4 DEF Post

\* Requests and drafts have their types.
LEMMA DraftType ==
  ASSUME NEW i \in Instance
  PROVE  SentBy(i) \subseteq Draft /\ Snapshot(i) \subseteq Draft /\ SentBy(i) \subseteq Request
  <1>1. /\ 1 .. MaxScans[i] \subseteq Nat /\ 1 .. MaxEpoch \subseteq Nat
        /\ Sizes \subseteq Nat /\ {i} \subseteq Instance /\ {0} \subseteq Nat
    BY PublishersAssumption
  <1>2. Times(i) \subseteq Int
    BY PublishersAssumption, ClaimsType DEF Times
  <1>3. ASSUME NEW r \in SentBy(i) PROVE r \in Draft
    <2>1. /\ r.instance \in {i} /\ r.epoch \in 1 .. MaxEpoch /\ r.sequence \in 1 .. MaxScans[i]
          /\ r.uid \in NodeUID /\ r.scan \in 1 .. MaxScans[i] /\ r.captured \in Times(i) /\ r.size \in Sizes
          /\ r = [instance |-> r.instance, epoch |-> r.epoch, sequence |-> r.sequence,
                  uid |-> r.uid, scan |-> r.scan, captured |-> r.captured, size |-> r.size]
      BY Fields DEF SentBy
    <2> QED BY <1>1, <1>2, <2>1 DEF Draft
  <1>4. ASSUME NEW r \in Snapshot(i) PROVE r \in Draft
    <2>1. /\ r.instance \in {i} /\ r.epoch \in {0} /\ r.sequence \in {0}
          /\ r.uid \in NodeUID /\ r.scan \in 1 .. MaxScans[i] /\ r.captured \in Times(i) /\ r.size \in Sizes
          /\ r = [instance |-> r.instance, epoch |-> r.epoch, sequence |-> r.sequence,
                  uid |-> r.uid, scan |-> r.scan, captured |-> r.captured, size |-> r.size]
      BY Fields DEF Snapshot
    <2> QED BY <1>1, <1>2, <2>1 DEF Draft
  <1>5. SentBy(i) \subseteq Request
    BY PublishersAssumption
  <1> QED BY <1>3, <1>4, <1>5

\* The scan loop: without an epoch the snapshot waits, else it is posted.
LEMMA TakeSnapshotStep ==
  ASSUME IInv, NEW i \in Instance, TakeSnapshot(i)
  PROVE  Moves(i)
  <1> DEFINE n == scans[i] + 1
  <1>1. PICK uid \in {Claims[i].uid, cluster[Claims[i].name]} \ {None}, size \in Sizes :
          Publish(i, uid, clock + ClockOffset[Claims[i].uid], size)
    BY DEF TakeSnapshot
  <1>2. uid \in NodeUID
    BY <1>1, ClaimsType DEF IInv, ClusterFits, Inventory
  <1>3. clock + ClockOffset[Claims[i].uid] \in Times(i)
    BY DEF IInv, CollectorFits, Times
  <1> DEFINE snapshot == [instance |-> i, epoch |-> 0, sequence |-> 0, uid |-> uid,
                          scan |-> n, captured |-> clock + ClockOffset[Claims[i].uid], size |-> size]
  <1>4. /\ pc[i] = "idle" /\ scans[i] < MaxScans[i]
        /\ scans' = [scans EXCEPT ![i] = n]
        /\ UNCHANGED <<pubEpoch, answer, acked>>
        /\ IF pubEpoch[i] = 0
           THEN /\ pc' = [pc EXCEPT ![i] = "epoch"]
                /\ current' = [current EXCEPT ![i] = snapshot]
                /\ UNCHANGED <<pubSequence, net>>
           ELSE Post(i, snapshot, pubEpoch[i], pubSequence[i])
    BY <1>1 DEF Publish, IInv, Shapes
  <1>5. n \in Nat /\ n >= 1 /\ n <= MaxScans[i] /\ scans[i] \in Nat /\ MaxScans[i] \in Nat
    BY <1>4, MaxScansType DEF IInv, Shapes
  <1>6. snapshot \in Snapshot(i)
    BY <1>2, <1>3, <1>5 DEF Snapshot
  <1>7. scans'[i] = n /\ Shapes /\ PublisherFits(i) /\ NetFits
    BY <1>4 DEF IInv, Shapes
  <1> HIDE DEF n, snapshot
  <1>8. Posted(i) = n - 1 /\ pubSequence[i] <= n - 1 /\ answer[i] = None
    BY <1>4, <1>7 DEF Posted, PublisherFits, Calling, n, Shapes
  <1>9. CASE pubEpoch[i] = 0
    <2>1. Shapes'
      BY <1>4, <1>5, <1>6, <1>7, <1>9, DraftType DEF Shapes, Calling
    <2>2. Posted(i)' = n - 1
      BY <1>4, <1>5, <1>7, <1>9 DEF Posted, Shapes
    <2>3. PublisherFits(i)'
      BY <1>4, <1>5, <1>6, <1>7, <1>8, <1>9, <2>2 DEF PublisherFits, Shapes, Calling
    <2>4. /\ \A j \in Instance \ {i} :
               /\ pc'[j] = pc[j] /\ pubEpoch'[j] = pubEpoch[j] /\ pubSequence'[j] = pubSequence[j]
               /\ current'[j] = current[j] /\ answer'[j] = answer[j] /\ scans'[j] = scans[j]
          /\ net' = net /\ acked' = acked
      BY <1>4, <1>7, <1>9 DEF Shapes
    <2>5. Posted(i) <= Posted(i)'
      BY <1>5, <1>8, <2>2
    <2> QED BY <1>7, <2>1, <2>3, <2>4, <2>5 DEF Moves, NetFits
  <1>10. CASE pubEpoch[i] # 0
    <2>0. /\ pubEpoch[i] \in 1 .. MaxEpoch /\ pubSequence[i] \in Nat
          /\ pubSequence[i] + 1 <= n /\ pubSequence[i] + 1 <= MaxScans[i]
      BY <1>5, <1>7, <1>8, <1>10, LimitsAssumption DEF Shapes, PublisherFits
    <2>1. /\ pubSequence' = [pubSequence EXCEPT ![i] = pubSequence[i] + 1]
          /\ pc' = [pc EXCEPT ![i] = "post"]
          /\ \E request \in SentBy(i) : /\ request.sequence = pubSequence[i] + 1
                                       /\ request.instance = i
                                       /\ current' = [current EXCEPT ![i] = request]
                                       /\ net' = net \cup {request}
      BY <1>4, <1>6, <1>10, <2>0, PostFact
    <2>2. PICK request \in SentBy(i) : /\ request.sequence = pubSequence[i] + 1
                                      /\ request.instance = i
                                      /\ current' = [current EXCEPT ![i] = request]
                                      /\ net' = net \cup {request}
      BY <2>1
    <2>3. Shapes'
      BY <1>4, <1>5, <1>7, <2>0, <2>1, <2>2, DraftType DEF Shapes, Calling
    <2>4. Posted(i)' = n
      BY <1>7, <2>1 DEF Posted, Shapes
    <2>5. PublisherFits(i)'
      BY <1>4, <1>5, <1>7, <1>8, <2>0, <2>1, <2>2, <2>4 DEF PublisherFits, Shapes, Calling
    <2>6. \A j \in Instance \ {i} :
               /\ pc'[j] = pc[j] /\ pubEpoch'[j] = pubEpoch[j] /\ pubSequence'[j] = pubSequence[j]
               /\ current'[j] = current[j] /\ answer'[j] = answer[j] /\ scans'[j] = scans[j]
      BY <1>4, <1>7, <2>1, <2>2 DEF Shapes
    <2>7. /\ Posted(i) <= Posted(i)'
          /\ net \subseteq net' /\ acked' \subseteq net'
          /\ \A r \in net' : r \in net \/ (r \in SentBy(i) /\ r.sequence <= Posted(i)')
      BY <1>4, <1>5, <1>7, <1>8, <2>0, <2>2, <2>4 DEF NetFits
    <2> QED BY <2>3, <2>5, <2>6, <2>7 DEF Moves
  <1> QED BY <1>9, <1>10

\* refreshEpoch: what it adopts is behind the snapshots taken, so p.sequence
\* stays behind them too.
LEMMA GotEpochStep ==
  ASSUME IInv, NEW i \in Instance, GotEpoch(i)
  PROVE  Moves(i)
  <1> DEFINE e == answer[i].epoch
             sequence == MaxOf(pubSequence[i], answer[i].last)
  <1>1. Shapes /\ PublisherFits(i) /\ NetFits
    BY DEF IInv
  <1>2. /\ pc[i] \in {"epoch", "refresh"} /\ answer[i] # None
        /\ pubEpoch' = [pubEpoch EXCEPT ![i] = e]
        /\ answer' = [answer EXCEPT ![i] = None]
        /\ UNCHANGED <<scans, acked>>
    BY DEF GotEpoch
  <1>3. /\ e \in 1 .. MaxEpoch /\ e \in Nat /\ e <= MaxEpoch
        /\ answer[i].last \in Nat /\ answer[i].last <= Posted(i)
        /\ pubSequence[i] \in Nat /\ pubSequence[i] <= Posted(i)
        /\ scans[i] \in Nat /\ scans[i] <= MaxScans[i] /\ scans[i] >= 1
    BY <1>1, <1>2, LimitsAssumption DEF Shapes, PublisherFits, Answer, Calling
  <1>4. sequence \in Nat /\ sequence <= Posted(i)
    BY <1>3 DEF MaxOf
  <1>5. \A j \in Instance \ {i} :
          pubEpoch'[j] = pubEpoch[j] /\ answer'[j] = answer[j] /\ scans'[j] = scans[j]
    BY <1>1, <1>2 DEF Shapes
  <1>6. /\ pubEpoch' \in [Instance -> Nat] /\ pubEpoch'[i] = e
        /\ answer' \in [Instance -> Answer \cup {None}] /\ answer'[i] = None
        /\ scans' \in [Instance -> Nat]
    BY <1>1, <1>2, <1>3 DEF Shapes
  <1> HIDE DEF e, sequence
  <1>7. CASE pc[i] = "epoch" /\ Post(i, current[i], e, sequence)
    <2>0. /\ Posted(i) = scans[i] - 1 /\ current[i] \in Snapshot(i)
          /\ sequence + 1 <= scans[i] /\ sequence + 1 <= MaxScans[i]
      BY <1>1, <1>3, <1>4, <1>7, MaxScansType DEF Posted, PublisherFits
    <2>1. /\ pubSequence' = [pubSequence EXCEPT ![i] = sequence + 1]
          /\ pc' = [pc EXCEPT ![i] = "post"]
          /\ \E request \in SentBy(i) : /\ request.sequence = sequence + 1
                                       /\ request.instance = i
                                       /\ current' = [current EXCEPT ![i] = request]
                                       /\ net' = net \cup {request}
      BY <1>3, <1>4, <1>7, <2>0, PostFact
    <2>2. PICK request \in SentBy(i) : /\ request.sequence = sequence + 1
                                      /\ request.instance = i
                                      /\ current' = [current EXCEPT ![i] = request]
                                      /\ net' = net \cup {request}
      BY <2>1
    <2>3. Shapes'
      BY <1>1, <1>4, <1>6, <2>1, <2>2, DraftType DEF Shapes, Calling
    <2>4. Posted(i)' = scans[i]
      BY <1>1, <1>2, <2>1 DEF Posted, Shapes
    <2>5. PublisherFits(i)'
      BY <1>1, <1>2, <1>3, <1>6, <2>0, <2>1, <2>2, <2>4 DEF PublisherFits, Shapes, Calling
    <2>6. \A j \in Instance \ {i} :
            pc'[j] = pc[j] /\ pubSequence'[j] = pubSequence[j] /\ current'[j] = current[j]
      BY <1>1, <2>1, <2>2 DEF Shapes
    <2>7. /\ Posted(i) <= Posted(i)'
          /\ net \subseteq net' /\ acked' \subseteq net'
          /\ \A r \in net' : r \in net \/ (r \in SentBy(i) /\ r.sequence <= Posted(i)')
      BY <1>1, <1>2, <1>3, <2>0, <2>2, <2>4 DEF NetFits
    <2> QED BY <1>5, <2>3, <2>5, <2>6, <2>7 DEF Moves
  <1>8. CASE /\ pc[i] = "refresh"
             /\ pubSequence' = [pubSequence EXCEPT ![i] = sequence]
             /\ current' = [current EXCEPT ![i].epoch = e]
             /\ net' = net \cup {current'[i]}
             /\ pc' = [pc EXCEPT ![i] = "repost"]
    <2> DEFINE request == current'[i]
    <2>0. current[i] \in net /\ current[i].instance = i /\ Posted(i) = scans[i]
      BY <1>1, <1>8 DEF Posted, PublisherFits
    <2>1. current[i] \in SentBy(i) /\ current[i].sequence <= Posted(i)
      BY <1>1, <2>0 DEF NetFits
    <2>2. request = [current[i] EXCEPT !.epoch = e] /\ current' = [current EXCEPT ![i] = request]
      BY <1>1, <1>8 DEF Shapes
    <2>3. request \in SentBy(i) /\ request.instance = i /\ request.sequence = current[i].sequence
      <3>1. /\ current[i].instance \in {i} /\ current[i].sequence \in 1 .. MaxScans[i]
            /\ current[i].uid \in NodeUID /\ current[i].scan \in 1 .. MaxScans[i]
            /\ current[i].captured \in Times(i) /\ current[i].size \in Sizes
            /\ current[i] = [instance |-> current[i].instance, epoch |-> current[i].epoch,
                             sequence |-> current[i].sequence, uid |-> current[i].uid,
                             scan |-> current[i].scan, captured |-> current[i].captured,
                             size |-> current[i].size]
        BY <2>1, Fields DEF SentBy
      <3>2. request = [instance |-> current[i].instance, epoch |-> e,
                       sequence |-> current[i].sequence, uid |-> current[i].uid,
                       scan |-> current[i].scan, captured |-> current[i].captured,
                       size |-> current[i].size]
        BY <2>2, <3>1
      <3> HIDE DEF request
      <3> QED BY <1>3, <3>1, <3>2 DEF SentBy
    <2> HIDE DEF request
    <2>4. Shapes'
      BY <1>1, <1>4, <1>6, <1>8, <2>2, <2>3, DraftType DEF Shapes, Calling
    <2>5. Posted(i)' = scans[i]
      BY <1>1, <1>2, <1>8 DEF Posted, Shapes
    <2>6. net' = net \cup {request} /\ current'[i] = request
      BY <1>8 DEF request
    <2>7. PublisherFits(i)'
      BY <1>1, <1>2, <1>3, <1>4, <1>6, <1>8, <2>0, <2>3, <2>5, <2>6
      DEF PublisherFits, Shapes, Calling
    <2>8. \A j \in Instance \ {i} :
            pc'[j] = pc[j] /\ pubSequence'[j] = pubSequence[j] /\ current'[j] = current[j]
      BY <1>1, <1>8, <2>2 DEF Shapes
    <2>9. /\ Posted(i) <= Posted(i)'
          /\ net \subseteq net' /\ acked' \subseteq net'
          /\ \A r \in net' : r \in net \/ (r \in SentBy(i) /\ r.sequence <= Posted(i)')
      BY <1>1, <1>2, <1>3, <2>0, <2>1, <2>3, <2>5, <2>6 DEF NetFits
    <2> QED BY <1>5, <2>4, <2>7, <2>8, <2>9 DEF Moves
  <1>9. CASE /\ pc[i] = "refresh"
             /\ pubSequence' = [pubSequence EXCEPT ![i] = sequence]
             /\ current' = [current EXCEPT ![i] = None]
             /\ pc' = [pc EXCEPT ![i] = "idle"]
             /\ UNCHANGED net
    <2>1. Posted(i) = scans[i] /\ Posted(i)' = scans[i]
      BY <1>1, <1>2, <1>9 DEF Posted, Shapes
    <2>2. Shapes'
      BY <1>1, <1>4, <1>6, <1>9 DEF Shapes, Calling
    <2>3. PublisherFits(i)'
      BY <1>1, <1>2, <1>3, <1>4, <1>6, <1>9, <2>1 DEF PublisherFits, Shapes, Calling
    <2>4. \A j \in Instance \ {i} :
            pc'[j] = pc[j] /\ pubSequence'[j] = pubSequence[j] /\ current'[j] = current[j]
      BY <1>1, <1>9 DEF Shapes
    <2> QED BY <1>1, <1>2, <1>3, <1>5, <1>9, <2>1, <2>2, <2>3, <2>4 DEF Moves, NetFits
  <1> QED BY <1>7, <1>8, <1>9 DEF GotEpoch, e, sequence

\* The call waits for its answer, ends, or looks for a new epoch.
LEMMA GotResultStep ==
  ASSUME IInv, NEW i \in Instance, GotResult(i)
  PROVE  Moves(i)
  <1>1. Shapes /\ PublisherFits(i) /\ NetFits
    BY DEF IInv
  <1>2. /\ pc[i] \in {"post", "repost"}
        /\ answer' = [answer EXCEPT ![i] = None]
        /\ UNCHANGED <<pubEpoch, pubSequence, scans, net>>
    BY DEF GotResult
  <1>3. current[i] \in net /\ scans[i] >= 1 /\ scans[i] \in Nat
    BY <1>1, <1>2 DEF PublisherFits, Calling, Shapes
  <1>4. acked' \subseteq net
    BY <1>1, <1>3 DEF GotResult, NetFits
  <1>5. \/ pc' = pc /\ current' = current
        \/ pc' = [pc EXCEPT ![i] = "refresh"] /\ current' = current
        \/ pc' = [pc EXCEPT ![i] = "idle"] /\ current' = [current EXCEPT ![i] = None]
    BY DEF GotResult
  <1>6. Shapes'
    BY <1>1, <1>2, <1>5 DEF Shapes, Calling
  <1>7. Posted(i) = scans[i] /\ Posted(i)' = scans[i]
    BY <1>1, <1>2, <1>5 DEF Posted, Shapes
  <1>8. PublisherFits(i)'
    BY <1>1, <1>2, <1>3, <1>5, <1>7 DEF PublisherFits, Shapes, Calling
  <1>9. \A j \in Instance \ {i} :
          pc'[j] = pc[j] /\ current'[j] = current[j] /\ answer'[j] = answer[j]
    BY <1>1, <1>2, <1>5 DEF Shapes
  <1> QED BY <1>1, <1>2, <1>3, <1>4, <1>6, <1>7, <1>8, <1>9 DEF Moves

\* A lost answer leaves the call waiting.
LEMMA LoseAnswerStep ==
  ASSUME IInv, NEW i \in Instance, LoseAnswer(i)
  PROVE  Moves(i)
  <1>1. Shapes /\ PublisherFits(i) /\ NetFits
    BY DEF IInv
  <1>2. /\ answer' = [answer EXCEPT ![i] = None]
        /\ UNCHANGED <<pc, pubEpoch, pubSequence, current, scans, net, acked>>
    BY DEF LoseAnswer
  <1>3. Shapes'
    BY <1>1, <1>2 DEF Shapes
  <1>4. Posted(i)' = Posted(i) /\ Posted(i) \in Int
    BY <1>1, <1>2 DEF Posted, Shapes
  <1>5. PublisherFits(i)'
    BY <1>1, <1>2, <1>4 DEF PublisherFits, Shapes
  <1> QED BY <1>1, <1>2, <1>3, <1>4, <1>5 DEF Moves, NetFits, Shapes

\* The call is over, or the container or the Pod: p's state is kept or forgotten.
LEMMA EndsStep ==
  ASSUME IInv, NEW i \in Instance, GiveUp(i) \/ StartContainer(i) \/ StopPod(i)
  PROVE  Moves(i)
  <1>1. Shapes /\ PublisherFits(i) /\ NetFits
    BY DEF IInv
  <1>2. /\ pc' = [pc EXCEPT ![i] = "idle"] \/ pc' = [pc EXCEPT ![i] = "down"]
        /\ current' = [current EXCEPT ![i] = None]
        /\ answer' = [answer EXCEPT ![i] = None]
        /\ UNCHANGED <<scans, net, acked>>
    BY DEF GiveUp, StartContainer, StopPod
  <1>3. \/ UNCHANGED <<pubEpoch, pubSequence>>
        \/ pubEpoch' = [pubEpoch EXCEPT ![i] = 0] /\ pubSequence' = [pubSequence EXCEPT ![i] = 0]
    BY DEF GiveUp, StartContainer, StopPod
  <1>4. Shapes'
    BY <1>1, <1>2, <1>3 DEF Shapes, Calling
  <1>5. Posted(i)' = scans[i] /\ Posted(i) <= scans[i] /\ scans[i] \in Nat /\ Posted(i) \in Int
    BY <1>1, <1>2 DEF Posted, Shapes
  <1>6. pubSequence'[i] <= scans[i] /\ pubEpoch'[i] <= MaxEpoch
    BY <1>1, <1>3, <1>5, LimitsAssumption DEF PublisherFits, Shapes
  <1>7. PublisherFits(i)'
    BY <1>1, <1>2, <1>5, <1>6 DEF PublisherFits, Shapes, Calling
  <1>8. \A j \in Instance \ {i} :
          /\ pc'[j] = pc[j] /\ pubEpoch'[j] = pubEpoch[j] /\ pubSequence'[j] = pubSequence[j]
          /\ current'[j] = current[j] /\ answer'[j] = answer[j] /\ scans'[j] = scans[j]
    BY <1>1, <1>2, <1>3 DEF Shapes
  <1> QED BY <1>1, <1>2, <1>4, <1>5, <1>7, <1>8 DEF Moves, NetFits

-----------------------------------------------------------------------------
(* The collector and the cluster. *)

\* An answer changes nothing but what the waiting call will read.
LEMMA AnsweredStep ==
  ASSUME IInv, unchangedPublishers, answer' \in [Instance -> Answer \cup {None}],
         \A i \in Instance :
           \/ answer'[i] = answer[i]
           \/ pc[i] \in {"post", "repost"}
           \/ /\ pc[i] \in Calling
              /\ answer'[i].epoch \in 1 .. MaxEpoch
              /\ answer'[i].last <= Posted(i)
  PROVE  Shapes' /\ (\A i \in Instance : PublisherFits(i)') /\ NetFits'
  <1>1. Shapes'
    BY DEF IInv, Shapes, unchangedPublishers
  <1>2. ASSUME NEW i \in Instance PROVE PublisherFits(i)'
    <2>1. PublisherFits(i)
      BY DEF IInv
    <2>2. UNCHANGED <<pc, pubEpoch, pubSequence, current, scans, net>>
      BY DEF unchangedPublishers
    <2>3. Posted(i)' = Posted(i)
      BY <2>2 DEF Posted
    <2>4. CASE answer'[i] = answer[i]
      BY <2>1, <2>2, <2>3, <2>4 DEF PublisherFits
    <2>5. CASE pc[i] \in {"post", "repost"}
      BY <2>1, <2>2, <2>3, <2>5 DEF PublisherFits, Calling
    <2>6. CASE /\ pc[i] \in Calling
               /\ answer'[i].epoch \in 1 .. MaxEpoch
               /\ answer'[i].last <= Posted(i)
      BY <2>1, <2>2, <2>3, <2>6 DEF PublisherFits, Calling
    <2> QED BY <2>4, <2>5, <2>6
  <1>3. NetFits'
    BY DEF IInv, NetFits, Posted, unchangedPublishers
  <1> QED BY <1>1, <1>2, <1>3

\* The response of Accept goes to the call that waits for that very request.
LEMMA RespondStep ==
  ASSUME IInv, NEW r, NEW reason \in Result, Respond(r, reason), unchangedPublishers
  PROVE  Shapes' /\ (\A i \in Instance : PublisherFits(i)') /\ NetFits'
  <1>1. [reason |-> reason, epoch |-> 0, last |-> 0] \in Answer
    BY DEF Answer
  <1>2. answer' \in [Instance -> Answer \cup {None}]
    BY <1>1 DEF Respond, IInv, Shapes
  <1>3. \A i \in Instance : answer'[i] = answer[i] \/ pc[i] \in {"post", "repost"}
    BY DEF Respond
  <1> QED BY <1>2, <1>3, AnsweredStep

\* Every reason is one of the API's.
LEMMA ReasonType ==
  ASSUME NEW r
  PROVE  Screen(r) \in Result /\ StoreResult(r) \in Result /\ CapacityResult \subseteq Result
  <1>1. Screen(r) \in Result
    BY DEF Screen, Result
  <1>2. EvidenceResult(r) \in Result
    BY DEF EvidenceResult, Result
  <1>3. SnapshotResult(r) \in Result
    BY DEF SnapshotResult, Result
  <1>4. StoreResult(r) \in Result
    BY <1>2, <1>3 DEF StoreResult, Result
  <1> QED BY <1>1, <1>4 DEF CapacityResult, Result

\* Accept refuses before it reaches the Store.
LEMMA RefuseRequestStep ==
  ASSUME IInv, NEW r \in net, RefuseRequest(r)
  PROVE  IInv' /\ CNext
  <1>1. Refuse(r) /\ Respond(r, Screen(r)) /\ unchangedPublishers /\ UNCHANGED <<clusterVars, history>>
    BY DEF RefuseRequest
  <1>2. CNext
    BY <1>1, NetType DEF IInv, CNext
  <1>3. CInv'
    BY <1>2, NextCInv DEF IInv
  <1>4. Shapes' /\ (\A i \in Instance : PublisherFits(i)') /\ NetFits'
    BY <1>1, RespondStep, ReasonType
  <1>5. CollectorFits'
    BY <1>1 DEF IInv, CollectorFits, Refuse, unchangedPublishers, history
  <1>6. ClusterFits'
    BY <1>1 DEF IInv, ClusterFits, clusterVars
  <1> QED BY <1>2, <1>3, <1>4, <1>5, <1>6 DEF IInv

\* Accept takes c.mu, or finds no room.
LEMMA BeginRequestStep ==
  ASSUME IInv, NEW r \in net, BeginRequest(r)
  PROVE  IInv' /\ CNext
  <1>1. PICK reason \in CapacityResult :
          /\ Begin(r, reason)
          /\ IF reason = "proceed" THEN UNCHANGED answer ELSE Respond(r, reason)
    BY DEF BeginRequest
  <1>2. unchangedPublishers /\ UNCHANGED <<clusterVars, history>>
    BY DEF BeginRequest
  <1>3. CNext
    BY <1>1, NetType DEF IInv, CNext
  <1>4. CInv'
    BY <1>3, NextCInv DEF IInv
  <1>5. Shapes' /\ (\A i \in Instance : PublisherFits(i)') /\ NetFits'
    <2>1. CASE reason = "proceed"
      <3>1. answer' = answer
        BY <1>1, <2>1
      <3> QED BY <1>2, <3>1, AnsweredStep DEF IInv, Shapes
    <2>2. CASE reason # "proceed"
      <3>1. Respond(r, reason) /\ reason \in Result
        BY <1>1, <2>2, ReasonType
      <3> QED BY <1>2, <3>1, RespondStep
    <2> QED BY <2>1, <2>2
  <1>6. CollectorFits'
    <2>1. \A i \in Instance : agents'[i] \in {agents[i], None}
      BY <1>1 DEF Begin, Retire
    <2>2. accepting'.request \in {r, None}
      BY <1>1 DEF Begin, Free
    <2>3. UNCHANGED <<epoch, clock, net, applied, storedAt>>
      BY <1>1, <1>2 DEF Begin, unchangedPublishers, history
    <2> QED BY <2>1, <2>2, <2>3 DEF IInv, CollectorFits
  <1>7. ClusterFits'
    BY <1>2 DEF IInv, ClusterFits, clusterVars
  <1> QED BY <1>3, <1>4, <1>5, <1>6, <1>7 DEF IInv

\* What Commit does to the stream of the request that holds c.mu.
LEMMA CommitAgents ==
  ASSUME CInv, Commit
  PROVE  LET r == accepting.request IN
         /\ r # None /\ r \in Request /\ r.instance \in Instance
         /\ accepting'.request = None
         /\ \A i \in Instance :
              \/ agents'[i] \in {agents[i], None}
              \/ StoreResult(r) = "accepted" /\ i = r.instance /\ agents'[i] = r
  <1> DEFINE r == accepting.request
  <1>1. r # None /\ r \in Request /\ accepting'.request = None
    BY DEF Commit, CInv, TypeOK, Free
  <1>2. r.instance \in Instance
    BY <1>1, RequestType
  <1>3. ASSUME NEW i \in Instance
        PROVE  \/ agents'[i] \in {agents[i], None}
               \/ StoreResult(r) = "accepted" /\ i = r.instance /\ agents'[i] = r
    <2>1. CASE StoreResult(r) # "accepted"
      BY <2>1 DEF Commit
    <2>2. CASE StoreResult(r) = "accepted"
      BY <1>2, <2>2 DEF Commit, CInv, TypeOK
    <2> QED BY <2>1, <2>2
  <1> QED BY <1>1, <1>2, <1>3

\* Accept ends.
LEMMA CommitRequestStep ==
  ASSUME IInv, CommitRequest
  PROVE  IInv' /\ CNext
  <1> DEFINE r == accepting.request
  <1>1. /\ Commit /\ Respond(r, StoreResult(r)) /\ unchangedPublishers /\ UNCHANGED clusterVars
        /\ applied' = IF Stores(r) THEN applied \cup {r} ELSE applied
        /\ storedAt' = IF Stores(r)
                       THEN [q \in applied \cup {r} |-> IF q = r THEN clock ELSE storedAt[q]]
                       ELSE storedAt
    BY DEF CommitRequest, history
  <1>2. CNext
    BY <1>1 DEF CNext
  <1>3. CInv'
    BY <1>2, NextCInv DEF IInv
  <1>4. Shapes' /\ (\A i \in Instance : PublisherFits(i)') /\ NetFits'
    BY <1>1, RespondStep, ReasonType
  <1>5. CollectorFits'
    <2>1. r # None /\ r \in net
      BY <1>1, CommitAgents DEF IInv, CollectorFits
    <2>2. applied' \subseteq net
      BY <1>1, <2>1 DEF IInv, CollectorFits
    <2>5. storedAt' \in [applied' -> Nat]
      <3>1. clock \in Nat /\ storedAt \in [applied -> Nat]
        BY DEF IInv, CInv, TypeOK, CollectorFits
      <3> QED BY <1>1, <3>1
    <2>3. /\ accepting'.request = None
          /\ \A i \in Instance :
               \/ agents'[i] \in {agents[i], None}
               \/ i = r.instance /\ agents'[i] = r
      BY <1>1, CommitAgents DEF IInv
    <2>4. UNCHANGED <<epoch, clock, net>>
      BY <1>1 DEF Commit, unchangedPublishers
    <2> HIDE DEF r
    <2> QED BY <2>1, <2>2, <2>3, <2>4, <2>5 DEF IInv, CollectorFits
  <1>6. ClusterFits'
    BY <1>1 DEF IInv, ClusterFits, clusterVars
  <1> QED BY <1>2, <1>3, <1>4, <1>5, <1>6 DEF IInv

\* The epoch request: lastSequence is the sequence of a request in the network.
LEMMA AnswerEpochStep ==
  ASSUME IInv, NEW i \in Instance, AnswerEpoch(i)
  PROVE  IInv' /\ CNext
  <1>1. /\ pc[i] \in {"epoch", "refresh"} /\ ReadEpoch
        /\ answer' = [answer EXCEPT ![i] =
             [reason |-> "epoch", epoch |-> epoch, last |-> lastSequence(i)]]
        /\ unchangedPublishers /\ UNCHANGED <<clusterVars, history>>
    BY DEF AnswerEpoch
  <1>2. CNext
    BY <1>1 DEF CNext
  <1>3. CInv'
    BY <1>2, NextCInv DEF IInv
  <1>4. lastSequence(i) \in Nat /\ lastSequence(i) <= Posted(i)
    <2>1. CASE agents[i] = None
      <3>1. Posted(i) >= 0
        BY <1>1 DEF IInv, PublisherFits, Posted, Calling, Shapes
      <3> QED BY <2>1, <3>1 DEF lastSequence
    <2>2. CASE agents[i] # None
      <3>1. agents[i] \in net /\ agents[i].instance = i
        BY <2>2 DEF IInv, CollectorFits
      <3>2. agents[i].sequence <= Posted(i) /\ agents[i] \in Request
        BY <3>1, NetType DEF IInv, NetFits
      <3> QED BY <2>2, <3>2, RequestType DEF lastSequence
    <2> QED BY <2>1, <2>2
  <1>5. epoch \in 1 .. MaxEpoch /\ epoch \in Nat
    BY DEF IInv, CollectorFits
  <1>6. Shapes' /\ (\A j \in Instance : PublisherFits(j)') /\ NetFits'
    <2> DEFINE a == [reason |-> "epoch", epoch |-> epoch, last |-> lastSequence(i)]
    <2>1. a \in Answer /\ a.epoch \in 1 .. MaxEpoch /\ a.last <= Posted(i)
      BY <1>4, <1>5 DEF Answer
    <2> HIDE DEF a
    <2>2. answer' \in [Instance -> Answer \cup {None}]
      BY <1>1, <2>1 DEF IInv, Shapes, a
    <2>3. \A j \in Instance :
            \/ answer'[j] = answer[j]
            \/ j = i /\ answer'[j] = a
      BY <1>1 DEF IInv, Shapes, a
    <2>4. pc[i] \in Calling
      BY <1>1 DEF Calling
    <2> QED BY <1>1, <2>1, <2>2, <2>3, <2>4, AnsweredStep
  <1>7. CollectorFits'
    BY <1>1 DEF IInv, CollectorFits, ReadEpoch, unchangedPublishers, history
  <1>8. ClusterFits'
    BY <1>1 DEF IInv, ClusterFits, clusterVars
  <1> QED BY <1>2, <1>3, <1>6, <1>7, <1>8 DEF IInv

\* The steps of the cluster and the probe that the collector does not see.
LEMMA ClusterStep ==
  ASSUME IInv, UNCHANGED <<collectorVars, publisherVars, history>>, ClusterFits'
  PROVE  IInv'
  <1>1. CInv'
    BY TickStep DEF IInv
  <1>2. Shapes' /\ NetFits' /\ \A i \in Instance : PublisherFits(i)'
    BY DEF IInv, Shapes, NetFits, PublisherFits, Posted, publisherVars
  <1>3. CollectorFits'
    BY DEF IInv, CollectorFits, collectorVars, coordinatorVars, publisherVars, history
  <1> QED BY <1>1, <1>2, <1>3 DEF IInv

\* A Node is deleted, created or listed, or the listing fails.
LEMMA NodesStep ==
  ASSUME IInv,
         \/ \E n \in NodeName : DeleteNode(n) \/ \E u \in NodeUID : CreateNode(n, u)
         \/ ListNodes \/ ProbeFails
  PROVE  IInv' /\ UNCHANGED collectorVars
  <1> USE DEF ClusterFits
  <1>1. ClusterFits
    BY DEF IInv
  <1>2. ASSUME NEW n \in NodeName, DeleteNode(n)
        PROVE  ClusterFits' /\ UNCHANGED <<collectorVars, publisherVars, history>>
    <2>1. cluster' = [cluster EXCEPT ![n] = None] /\ UNCHANGED <<born, listed, probes>>
      BY <1>2 DEF DeleteNode
    <2>2. \A i \in Instance : Claims[i].uid # None
      BY ClaimsAssumption, ClaimsType
    <2>3. cluster' \in Inventory
      BY <1>1, <2>1, <2>2 DEF Inventory
    <2> QED BY <1>1, <1>2, <2>1, <2>3 DEF DeleteNode
  <1>3. ASSUME NEW n \in NodeName, NEW u \in NodeUID, CreateNode(n, u)
        PROVE  ClusterFits' /\ UNCHANGED <<collectorVars, publisherVars, history>>
    <2>1. /\ cluster' = [cluster EXCEPT ![n] = u] /\ born' = born \cup {u}
          /\ UNCHANGED <<listed, probes>>
          /\ \A i \in Instance : Claims[i].uid = u => Claims[i].name = n
      BY <1>3 DEF CreateNode
    <2>2. cluster' \in Inventory
      <3>1. cluster' \in [NodeName -> NodeUID \cup {None}]
        BY <1>1, <2>1 DEF Inventory
      <3>2. ASSUME NEW m \in NodeName, NEW i \in Instance, cluster'[m] = Claims[i].uid
            PROVE  Claims[i].name = m
        BY <1>1, <2>1, <3>2 DEF Inventory
      <3> QED BY <3>1, <3>2 DEF Inventory
    <2> QED BY <1>1, <1>3, <2>1, <2>2 DEF CreateNode
  <1>4. CASE ListNodes
    BY <1>1, <1>4, ClusterStep DEF ListNodes
  <1>5. CASE ProbeFails
    BY <1>1, <1>5, ClusterStep DEF ProbeFails
  <1> QED BY <1>2, <1>3, <1>4, <1>5, ClusterStep

\* The collector's steps that no publisher waits for.
LEMMA BackgroundStep ==
  ASSUME IInv, ReconcileListed \/ RestartCollector \/ TickClock
  PROVE  IInv' /\ CNext
  <1>1. CNext
    <2>1. CASE ReconcileListed
      <3>1. listed \in Inventory /\ Reconcile(listed)
        BY <2>1 DEF ReconcileListed, IInv, ClusterFits
      <3> QED BY <3>1 DEF CNext
    <2> QED BY <2>1 DEF RestartCollector, TickClock, CNext
  <1>2. CInv'
    BY <1>1, NextCInv DEF IInv
  <1>3. UNCHANGED <<publisherVars, history>>
    BY DEF ReconcileListed, RestartCollector, TickClock
  <1>4. Shapes' /\ NetFits' /\ \A i \in Instance : PublisherFits(i)'
    BY <1>3 DEF IInv, Shapes, NetFits, PublisherFits, Posted, publisherVars
  <1>5. ClusterFits'
    BY DEF IInv, ClusterFits, ReconcileListed, RestartCollector, TickClock, clusterVars
  <1>6. CollectorFits'
    <2>1. CASE ReconcileListed
      BY <1>3, <2>1 DEF ReconcileListed, Reconcile, coordinatorVars, IInv, CollectorFits, publisherVars, history
    <2>2. CASE RestartCollector
      <3>1. epoch' \in 1 .. MaxEpoch
        BY <2>2, LimitsAssumption DEF RestartCollector, Restart, IInv, CollectorFits
      <3>2. /\ clock' = clock /\ \A i \in Instance : agents'[i] = None
            /\ accepting'.request = None
        BY <2>2 DEF RestartCollector, Restart, Free
      <3> QED BY <1>3, <3>1, <3>2 DEF IInv, CollectorFits, publisherVars, history
    <2>3. CASE TickClock
      <3>1. clock' \in 0 .. MaxClock
        BY <2>3, LimitsAssumption DEF TickClock, Tick, IInv, CollectorFits
      <3>2. UNCHANGED <<epoch, agents, accepting>>
        BY <2>3 DEF TickClock, Tick, coordinatorVars
      <3> QED BY <1>3, <3>1, <3>2 DEF IInv, CollectorFits, publisherVars, history
    <2> QED BY <2>1, <2>2, <2>3
  <1> QED BY <1>1, <1>2, <1>4, <1>5, <1>6 DEF IInv

-----------------------------------------------------------------------------
(* The types, and what carries over from the Coordinator. *)

\* Nobody has sent anything.
LEMMA InitIInv == Init => IInv
  <1> SUFFICES ASSUME Init PROVE IInv
    OBVIOUS
  <1>1. CInv
    BY InitCInv DEF Init
  <1>2. Shapes /\ NetFits
    BY DEF Init, PublisherInit, Shapes, NetFits
  <1>3. ASSUME NEW j \in Instance PROVE PublisherFits(j)
    <2>1. /\ pc[j] = "down" /\ pubEpoch[j] = 0 /\ pubSequence[j] = 0 /\ scans[j] = 0
          /\ current[j] = None /\ answer[j] = None
      BY DEF Init, PublisherInit
    <2>2. MaxScans[j] \in Nat /\ MaxEpoch \in Nat
      BY MaxScansType, LimitsAssumption
    <2> QED BY <2>1, <2>2 DEF PublisherFits, Posted, Calling
  <1>4. CollectorFits
    <2>1. MaxEpoch # 0
      BY PublishersAssumption, Zenon
    <2>2. /\ epoch = 1 /\ clock = 0 /\ accepting.request = None
          /\ applied = {} /\ storedAt \in [applied -> Nat]
      BY DEF Init, CInit, Free
    <2>3. \A i \in Instance : agents[i] = None
      BY DEF Init, CInit
    <2> QED BY <2>1, <2>2, <2>3, LimitsAssumption DEF CollectorFits
  <1>5. ClusterFits
    <2>1. \A i \in Instance : Claims[i].uid # None
      BY ClaimsAssumption, ClaimsType
    <2> QED BY <2>1 DEF Init, ClusterFits, Inventory
  <1> QED BY <1>1, <1>2, <1>3, <1>4, <1>5 DEF IInv

\* Every step keeps the invariant, and is a step of the collector or none.
LEMMA NextIInv == IInv /\ [Next]_vars => IInv' /\ [CNext]_collectorVars
  <1> SUFFICES ASSUME IInv, [Next]_vars PROVE IInv' /\ [CNext]_collectorVars
    OBVIOUS
  <1>1. ASSUME NEW i \in Instance, TakeSnapshot(i) PROVE IInv' /\ UNCHANGED collectorVars
    <2>1. UNCHANGED <<collectorVars, clusterVars, history>>
      BY <1>1 DEF TakeSnapshot
    <2> QED BY <1>1, <2>1, TakeSnapshotStep, MovesStep
  <1>2. ASSUME NEW i \in Instance, AgentStep(i) \/ StartAgent(i) \/ StopAgent(i)
        PROVE  IInv' /\ UNCHANGED collectorVars
    <2>1. UNCHANGED <<collectorVars, clusterVars, history>>
      BY <1>2 DEF AgentStep, StartAgent, StopAgent
    <2>2. Moves(i)
      BY <1>2, GotEpochStep, GotResultStep, LoseAnswerStep, EndsStep
      DEF AgentStep, StartAgent, StopAgent
    <2> QED BY <2>1, <2>2, MovesStep
  <1>3. ASSUME NEW i \in Instance, AnswerEpoch(i) PROVE IInv' /\ CNext
    BY <1>3, AnswerEpochStep
  <1>4. ASSUME NEW r \in net, RefuseRequest(r) \/ BeginRequest(r) PROVE IInv' /\ CNext
    BY <1>4, RefuseRequestStep, BeginRequestStep
  <1>5. CASE CommitRequest
    BY <1>5, CommitRequestStep
  <1>6. CASE \/ \E n \in NodeName : DeleteNode(n) \/ \E u \in NodeUID : CreateNode(n, u)
             \/ ListNodes \/ ProbeFails
    BY <1>6, NodesStep
  <1>7. CASE ReconcileListed \/ RestartCollector \/ TickClock
    BY <1>7, BackgroundStep
  <1>8. CASE UNCHANGED vars
    <2>1. UNCHANGED <<collectorVars, publisherVars, history>> /\ UNCHANGED clusterVars
      BY <1>8 DEF vars
    <2>2. ClusterFits'
      BY <2>1 DEF IInv, ClusterFits, clusterVars
    <2> QED BY <2>1, <2>2, ClusterStep
  <1> QED BY <1>1, <1>2, <1>3, <1>4, <1>5, <1>6, <1>7, <1>8 DEF Next

\* So it holds in every reachable state.
LEMMA IInvariance == Spec => []IInv
  BY InitIInv, NextIInv, PTL DEF Spec

\* Publishers, network, collector and cluster keep their types together: what a
\* publisher holds and what the collector stores, fences and is accepting are
\* requests that were sent, and an acknowledged one is among them.
THEOREM IngestionTypeCorrect == Spec => []IngestionTypeOK
  BY IInvariance, IInvType, PTL

\* The collector of the whole system behaves as the Coordinator alone, among
\* requests that may arrive at any time: what is proved of CSpec holds here.
THEOREM CollectorImplemented == Spec => CSpec
  <1>1. Init => CInit
    BY DEF Init
  <1> QED BY <1>1, IInvariance, NextIInv, PTL DEF Spec, CSpec
\* In particular: whatever publishers, the network, the probe and the cluster do,
\* every stream of evidence is a fenced single-writer register.
THEOREM SystemImplementsRegister == Spec => ImplementsRegister
  BY CollectorImplemented, RegisterImplemented

-----------------------------------------------------------------------------
(* An acknowledged snapshot was stored. *)

\* Among what was taken is r, or evidence of the same Node from the same instant.
Stored(r, taken) ==
  \E q \in taken : /\ q.epoch = r.epoch /\ q.captured = r.captured
                     /\ Claims[q.instance].uid = Claims[r.instance].uid

\* What a publisher may still read as a success goes back to what was stored:
\* its answer to the request it waits for, and the last request of its stream,
\* whose repetition is answered "duplicate".
SInv ==
  /\ \A n \in NodeName : records[n] # None => records[n] \in applied /\ records[n].epoch = epoch
  /\ \A i \in Instance : agents[i] # None => Stored(agents[i], applied)
  /\ accepting.request # None => accepting.request.epoch = epoch
  /\ \A i \in Instance : answer[i] # None /\ Succeeded(answer[i].reason) => Stored(current[i], applied)
  /\ AckedWasStored

\* A step of a publisher: its answer is consumed, at most into acked.
LEMMA PublisherKeepsStored ==
  ASSUME IInv, SInv, NEW i \in Instance,
         TakeSnapshot(i) \/ AgentStep(i) \/ StartAgent(i) \/ StopAgent(i)
  PROVE  SInv'
  <1>1. UNCHANGED <<collectorVars, applied>>
    BY DEF TakeSnapshot, AgentStep, StartAgent, StopAgent, history
  <1>2. UNCHANGED <<records, agents, accepting, epoch, applied>>
    BY <1>1 DEF collectorVars, coordinatorVars, storeVars
  <1>3. \A j \in Instance : answer'[j] = None \/ (answer'[j] = answer[j] /\ current'[j] = current[j])
    <2>1. Shapes /\ PublisherFits(i)
      BY DEF IInv
    <2>2. CASE TakeSnapshot(i)
      <3>1. PICK uid \in NodeUID \cup {Claims[i].uid, cluster[Claims[i].name]}, size \in Sizes :
              Publish(i, uid, clock + ClockOffset[Claims[i].uid], size)
        BY <2>2 DEF TakeSnapshot
      <3>2. pc[i] = "idle" /\ answer' = answer
        BY <3>1 DEF Publish
      <3>3. answer[i] = None
        BY <2>1, <3>2 DEF PublisherFits, Calling
      <3>4. \A j \in Instance \ {i} : current'[j] = current[j]
        BY <2>1, <3>1 DEF Publish, Post, Shapes
      <3> QED BY <3>2, <3>3, <3>4
    <2>3. CASE GotEpoch(i)
      <3>1. answer' = [answer EXCEPT ![i] = None]
        BY <2>3 DEF GotEpoch
      <3>2. \A j \in Instance \ {i} : current'[j] = current[j]
        BY <2>1, <2>3 DEF GotEpoch, Post, Shapes
      <3> QED BY <2>1, <3>1, <3>2 DEF Shapes
    <2>4. CASE GotResult(i) \/ LoseAnswer(i) \/ GiveUp(i) \/ StartAgent(i) \/ StopAgent(i)
      <3>1. answer' = [answer EXCEPT ![i] = None]
        BY <2>4 DEF GotResult, LoseAnswer, GiveUp, StartAgent, StopAgent, StartContainer, StopPod
      <3>2. \A j \in Instance \ {i} : current'[j] = current[j]
        BY <2>1, <2>4
        DEF GotResult, LoseAnswer, GiveUp, StartAgent, StopAgent, StartContainer, StopPod, Shapes
      <3> QED BY <2>1, <3>1, <3>2 DEF Shapes
    <2> QED BY <2>2, <2>3, <2>4 DEF AgentStep
  <1>4. \A r \in acked' : Stored(r, applied)
    <2>1. CASE GotResult(i)
      <3>1. acked' = acked \/ (acked' = acked \cup {current[i]} /\ Succeeded(answer[i].reason)
                               /\ answer[i] # None)
        BY <2>1 DEF GotResult
      <3> QED BY <3>1 DEF SInv, AckedWasStored, Stored
    <2>2. CASE ~GotResult(i)
      <3>1. acked' = acked
        BY <2>2 DEF TakeSnapshot, Publish, AgentStep, GotEpoch, LoseAnswer, GiveUp,
                    StartAgent, StopAgent, StartContainer, StopPod
      <3> QED BY <3>1 DEF SInv, AckedWasStored, Stored
    <2> QED BY <2>1, <2>2
  <1>5. AckedWasStored'
    BY <1>2, <1>4 DEF AckedWasStored, Stored
  <1>6. \A j \in Instance : answer'[j] # None /\ Succeeded(answer'[j].reason) => Stored(current'[j], applied)
    BY <1>3 DEF SInv
  <1>7. (\A j \in Instance : answer[j] # None /\ Succeeded(answer[j].reason) => Stored(current[j], applied))'
    BY <1>2, <1>6 DEF Stored
  <1>8. (\A j \in Instance : agents[j] # None => Stored(agents[j], applied))'
    BY <1>2 DEF SInv, Stored
  <1> QED BY <1>2, <1>5, <1>7, <1>8 DEF SInv

\* A response is a success only for a request that was stored.
LEMMA RespondKeepsStored ==
  ASSUME IInv, SInv, NEW r, NEW reason, Respond(r, reason), unchangedPublishers,
         applied \subseteq applied', Succeeded(reason) => Stored(r, applied')
  PROVE  /\ (\A i \in Instance : answer[i] # None /\ Succeeded(answer[i].reason)
                                   => Stored(current[i], applied))'
         /\ AckedWasStored'
  <1>1. UNCHANGED <<pc, current, acked>>
    BY DEF unchangedPublishers
  <1>2. ASSUME NEW i \in Instance, answer'[i] # None, Succeeded(answer'[i].reason)
        PROVE  Stored(current'[i], applied')
    <2>1. CASE answer'[i] = answer[i]
      BY <1>1, <1>2, <2>1 DEF SInv, Stored
    <2>2. CASE answer'[i] # answer[i]
      <3>1. current[i] = r /\ answer'[i].reason = reason
        BY <2>2 DEF Respond
      <3> QED BY <1>1, <1>2, <3>1
    <2> QED BY <2>1, <2>2
  <1>3. AckedWasStored'
    BY <1>1 DEF SInv, AckedWasStored
  <1> QED BY <1>2, <1>3

\* Where Accept has not reached the Store, its only success is "duplicate".
LEMMA ScreenKeepsStored ==
  ASSUME IInv, SInv, NEW r \in net, RefuseRequest(r) \/ BeginRequest(r)
  PROVE  SInv'
  <1>1. unchangedPublishers /\ UNCHANGED <<clusterVars, history>>
    BY DEF RefuseRequest, BeginRequest
  <1>2. r.instance \in Instance /\ r # None
    BY NetType DEF IInv
  <1>3. /\ UNCHANGED <<epoch, records>>
        /\ \A i \in Instance : agents'[i] \in {agents[i], None}
        /\ accepting'.request # None => accepting'.request.epoch = epoch
    <2>1. CASE RefuseRequest(r)
      BY <2>1 DEF RefuseRequest, Refuse, storeVars, SInv
    <2>2. CASE BeginRequest(r)
      <3>1. PICK reason \in CapacityResult : Begin(r, reason)
        BY <2>2 DEF BeginRequest
      <3>2. UNCHANGED <<epoch, records>> /\ r.epoch = epoch
        BY <3>1 DEF Begin, storeVars, Screen
      <3>3. \A i \in Instance : agents'[i] \in {agents[i], None}
        BY <3>1 DEF Begin, Retire
      <3>4. accepting'.request \in {r, None}
        BY <3>1 DEF Begin, Free
      <3> QED BY <3>2, <3>3, <3>4
    <2> QED BY <2>1, <2>2
  <1>4. applied' = applied
    BY <1>1 DEF history
  <1>5. Screen(r) = "duplicate" => Stored(r, applied)
    BY <1>2 DEF Screen, SInv
  <1>6. /\ (\A i \in Instance : answer[i] # None /\ Succeeded(answer[i].reason)
                                  => Stored(current[i], applied))'
        /\ AckedWasStored'
    <2>1. CASE answer' = answer
      BY <1>1, <1>4, <2>1 DEF SInv, AckedWasStored, Stored, unchangedPublishers
    <2>2. CASE \E reason : Respond(r, reason) /\ (Succeeded(reason) => Stored(r, applied))
      BY <1>1, <1>4, <2>2, RespondKeepsStored
    <2>3. CASE RefuseRequest(r)
      <3>1. Succeeded(Screen(r)) => Stored(r, applied)
        BY <1>5 DEF Succeeded, Screen
      <3> QED BY <2>2, <2>3, <3>1 DEF RefuseRequest
    <2>4. CASE BeginRequest(r)
      <3>1. PICK reason \in CapacityResult :
              IF reason = "proceed" THEN UNCHANGED answer ELSE Respond(r, reason)
        BY <2>4 DEF BeginRequest
      <3>2. ~Succeeded(reason)
        BY DEF CapacityResult, Succeeded
      <3> QED BY <2>1, <2>2, <3>1, <3>2
    <2> QED BY <2>3, <2>4
  <1>7. (\A i \in Instance : agents[i] # None => Stored(agents[i], applied))'
    BY <1>3, <1>4 DEF SInv, Stored
  <1> QED BY <1>1, <1>3, <1>4, <1>6, <1>7 DEF SInv

\* What Commit writes to the Store is the request that holds c.mu.
LEMMA CommitStores ==
  ASSUME CInv, Commit, NEW m \in NodeName
  PROVE  LET r == accepting.request IN
         /\ records'[m] = records[m] \/ (records'[m] = r /\ Stores(r))
         /\ contexts'[m] = contexts[m] \/ (contexts'[m] = r /\ Stores(r))
  <1> DEFINE r == accepting.request
             n == Claims[r.instance].name
  <1>1. CASE UNCHANGED storeVars
    BY <1>1 DEF storeVars
  <1>2. CASE /\ StoreResult(r) = "accepted" /\ Claims[r.instance].role # "node-context"
             /\ ReplaceAuthenticatedNodeSnapshot(r) /\ ~Unchanged(r)
    <2>1. records' = [records EXCEPT ![n] = r] /\ contexts' = contexts
      BY <1>2 DEF ReplaceAuthenticatedNodeSnapshot
    <2>2. records \in [NodeName -> Request \cup {None}]
      BY DEF CInv, TypeOK
    <2>3. Stores(r)
      BY <1>2 DEF Stores
    <2> QED BY <2>1, <2>2, <2>3
  <1>3. CASE /\ StoreResult(r) = "accepted" /\ Claims[r.instance].role = "node-context"
             /\ ReplaceNodeEvidence(r)
    <2>1. contexts' = [contexts EXCEPT ![n] = r] /\ records' = records
      BY <1>3 DEF ReplaceNodeEvidence
    <2>2. contexts \in [NodeName -> Request \cup {None}]
      BY DEF CInv, TypeOK
    <2>3. Stores(r)
      BY <1>3 DEF Stores
    <2> QED BY <2>1, <2>2, <2>3
  <1>4. \/ UNCHANGED storeVars
        \/ /\ StoreResult(r) = "accepted"
           /\ \/ /\ Claims[r.instance].role # "node-context"
                 /\ ReplaceAuthenticatedNodeSnapshot(r)
              \/ Claims[r.instance].role = "node-context" /\ ReplaceNodeEvidence(r)
    BY DEF Commit
  <1> QED BY <1>1, <1>2, <1>3, <1>4 DEF ReplaceAuthenticatedNodeSnapshot

\* Accept succeeds when its evidence is stored, or was there already.
LEMMA CommitKeepsStored ==
  ASSUME IInv, SInv, CommitRequest
  PROVE  SInv'
  <1> DEFINE r == accepting.request
             n == Claims[r.instance].name
  <1>1. /\ Commit /\ Respond(r, StoreResult(r)) /\ unchangedPublishers
        /\ applied' = IF Stores(r) THEN applied \cup {r} ELSE applied
    BY DEF CommitRequest, history
  <1>2. /\ r # None /\ r \in Request /\ r.instance \in Instance /\ accepting'.request = None
        /\ \A i \in Instance :
             \/ agents'[i] \in {agents[i], None}
             \/ StoreResult(r) = "accepted" /\ i = r.instance /\ agents'[i] = r
    BY <1>1, CommitAgents DEF IInv
  <1>3. n \in NodeName /\ Claims[r.instance].role \in Role /\ r.epoch = epoch
    BY <1>2, ClaimsType DEF SInv
  <1>4. UNCHANGED epoch /\ applied \subseteq applied'
    BY <1>1 DEF Commit
  <1>5. StoreResult(r) = "accepted" => Stored(r, applied')
    <2>1. CASE Stores(r)
      BY <1>1, <2>1 DEF Stored
    <2>2. CASE StoreResult(r) = "accepted" /\ Unchanged(r)
      <3>1. /\ records[n] # None /\ records[n].captured = r.captured
            /\ Claims[records[n].instance].uid = Claims[r.instance].uid
        BY <2>2 DEF Unchanged, SameNode
      <3>2. records[n] \in applied /\ records[n].epoch = r.epoch
        BY <1>3, <3>1 DEF SInv
      <3> QED BY <1>4, <3>1, <3>2 DEF Stored
    <2> QED BY <2>1, <2>2 DEF Stores
  <1>6. \A m \in NodeName : records'[m] = records[m] \/ (records'[m] = r /\ Stores(r))
    BY <1>1, CommitStores DEF IInv
  <1> HIDE DEF r, n
  <1>7. \A m \in NodeName : records'[m] # None => records'[m] \in applied' /\ records'[m].epoch = epoch'
    BY <1>1, <1>3, <1>4, <1>6 DEF SInv
  <1>8. (\A i \in Instance : agents[i] # None => Stored(agents[i], applied))'
    <2>1. ASSUME NEW i \in Instance, agents'[i] # None PROVE Stored(agents'[i], applied')
      <3>1. CASE agents'[i] = agents[i]
        BY <1>4, <2>1, <3>1 DEF SInv, Stored
      <3>2. CASE agents'[i] # agents[i]
        <4>1. StoreResult(r) = "accepted" /\ agents'[i] = r
          BY <1>2, <2>1, <3>2
        <4> QED BY <1>5, <4>1 DEF Stored
      <3> QED BY <3>1, <3>2
    <2> QED BY <2>1
  <1>9. /\ (\A i \in Instance : answer[i] # None /\ Succeeded(answer[i].reason)
                                  => Stored(current[i], applied))'
        /\ AckedWasStored'
    <2>1. StoreResult(r) # "duplicate"
      BY DEF StoreResult, EvidenceResult, SnapshotResult
    <2>2. Succeeded(StoreResult(r)) => Stored(r, applied')
      BY <1>5, <2>1 DEF Succeeded
    <2> QED BY <1>1, <1>4, <2>2, RespondKeepsStored
  <1> QED BY <1>2, <1>7, <1>8, <1>9 DEF SInv

\* Nobody's answer, and no more than the Store and the streams forgotten.
LEMMA OthersKeepStored ==
  ASSUME IInv, SInv,
         \/ \E i \in Instance : AnswerEpoch(i)
         \/ \E n \in NodeName : DeleteNode(n) \/ \E u \in NodeUID : CreateNode(n, u)
         \/ ListNodes \/ ReconcileListed \/ ProbeFails
         \/ RestartCollector \/ TickClock \/ UNCHANGED vars
  PROVE  SInv'
  <1>1. UNCHANGED <<current, acked, applied>>
    BY DEF AnswerEpoch, unchangedPublishers, DeleteNode, CreateNode, ListNodes, ReconcileListed,
           ProbeFails, RestartCollector, TickClock, vars, publisherVars, history
  <1>2. \A i \in Instance : answer'[i] = answer[i] \/ answer'[i].reason = "epoch"
    <2>1. CASE \E i \in Instance : AnswerEpoch(i)
      BY <2>1 DEF AnswerEpoch, IInv, Shapes
    <2>2. CASE ~\E i \in Instance : AnswerEpoch(i)
      BY <2>2 DEF DeleteNode, CreateNode, ListNodes, ReconcileListed,
           ProbeFails, RestartCollector, TickClock, vars, publisherVars
    <2> QED BY <2>1, <2>2
  <1>3. /\ \A n \in NodeName : records'[n] = None \/ (records'[n] = records[n] /\ epoch' = epoch)
        /\ \A i \in Instance : agents'[i] \in {agents[i], None}
        /\ accepting'.request = None \/ (accepting' = accepting /\ epoch' = epoch)
    <2>1. CASE ReconcileListed
      BY <2>1 DEF ReconcileListed, Reconcile, coordinatorVars
    <2>2. CASE RestartCollector
      BY <2>2 DEF RestartCollector, Restart, Free
    <2>3. CASE \E i \in Instance : AnswerEpoch(i)
      BY <2>3 DEF AnswerEpoch, ReadEpoch, storeVars
    <2>4. CASE ~(ReconcileListed \/ RestartCollector \/ \E i \in Instance : AnswerEpoch(i))
      BY <2>4 DEF DeleteNode, CreateNode, ListNodes, ProbeFails, TickClock, Tick,
                  vars, collectorVars, coordinatorVars, storeVars
    <2> QED BY <2>1, <2>2, <2>3, <2>4
  <1>4. \A n \in NodeName : records'[n] # None => records'[n] \in applied' /\ records'[n].epoch = epoch'
    BY <1>1, <1>3 DEF SInv
  <1>5. (\A i \in Instance : agents[i] # None => Stored(agents[i], applied))'
    BY <1>1, <1>3 DEF SInv, Stored
  <1>6. (\A i \in Instance : answer[i] # None /\ Succeeded(answer[i].reason) => Stored(current[i], applied))'
    BY <1>1, <1>2 DEF SInv, Stored, Succeeded
  <1>7. AckedWasStored'
    BY <1>1 DEF SInv, AckedWasStored
  <1> QED BY <1>3, <1>4, <1>5, <1>6, <1>7 DEF SInv

\* Nobody has acknowledged anything, and every step keeps what it acknowledges.
LEMMA InitSInv == Init => SInv
  BY DEF Init, CInit, PublisherInit, Free, SInv, AckedWasStored

LEMMA NextSInv == IInv /\ SInv /\ [Next]_vars => SInv'
  BY PublisherKeepsStored, ScreenKeepsStored, CommitKeepsStored, OthersKeepStored DEF Next

\* An agent whose Publish returned nil is right, for any number of retries, late
\* copies, restarts of its container and of the collector: the Store took that
\* snapshot, or already held evidence of the same Node from the same instant.
THEOREM AckedAlwaysStored == Spec => []AckedWasStored
  <1>1. SInv => AckedWasStored
    BY DEF SInv
  <1> QED BY <1>1, InitSInv, NextSInv, IInvariance, PTL DEF Spec

-----------------------------------------------------------------------------
(* What was stored stays out of the Store for RetiredTTL. *)

\* A request that was stored is kept out by its stream, which has moved on, or
\* by the fence of its producer, unless it was stored RetiredTTL ago.
Spent(r) ==
  \/ agents[r.instance] # None /\ agents[r.instance].sequence >= r.sequence
  \/ retired[r.instance] >= storedAt[r] + RetiredTTL
  \/ clock >= storedAt[r] + RetiredTTL

AppliedFits ==
  \A r \in applied : /\ r.epoch <= epoch
                     /\ storedAt[r] <= clock
                     /\ r.epoch = epoch => Spent(r)

\* The call that holds c.mu is ahead of its stream, until it commits.
AcceptingAhead ==
  accepting.request # None =>
    LET r == accepting.request IN
    agents[r.instance] = None \/ agents[r.instance].sequence < r.sequence

OInv == AppliedFits /\ AcceptingAhead

\* The numbers that the bounds compare.
LEMMA Numbers ==
  ASSUME IInv
  PROVE  /\ clock \in Nat /\ epoch \in Nat /\ RetiredTTL \in Nat \ {0}
         /\ \A i \in Instance : retired[i] \in Nat
         /\ \A r \in applied : r \in net /\ storedAt[r] \in Nat
         /\ \A r \in net : /\ r.instance \in Instance /\ r \in Request
                           /\ r.epoch \in Nat /\ r.sequence \in Nat
  <1>1. /\ clock \in Nat /\ epoch \in Nat
        /\ \A i \in Instance : retired[i] \in Nat
    BY DEF IInv, CInv, TypeOK
  <1>2. RetiredTTL \in Nat \ {0}
    BY LimitsAssumption
  <1>3. \A r \in applied : r \in net /\ storedAt[r] \in Nat
    BY DEF IInv, CollectorFits
  <1>4. ASSUME NEW r \in net
        PROVE  r.instance \in Instance /\ r \in Request /\ r.epoch \in Nat /\ r.sequence \in Nat
    <2>1. r \in Request
      BY NetType DEF IInv
    <2> QED BY <2>1, RequestType, RequestAssumption
  <1> QED BY <1>1, <1>2, <1>3, <1>4

\* What a step may do to producer i within one collector process.
StreamMoves(i) ==
  \/ agents'[i] = agents[i] /\ retired'[i] \in {retired[i], pruneRetired[i]}
  \/ agents'[i] = None /\ retired'[i] = clock + RetiredTTL
  \/ /\ agents'[i] # None
     /\ agents[i] = None \/ agents'[i].sequence >= agents[i].sequence
     /\ agents'[i].sequence \in Nat
     /\ retired'[i] = retired[i]

\* A request that was stored stays out: its stream only moves forward, a fence
\* set now ends RetiredTTL after now, and one that expires has lasted as long.
LEMMA SpentStays ==
  ASSUME IInv, AppliedFits, NEW r \in applied, Spent(r), StreamMoves(r.instance),
         storedAt'[r] = storedAt[r], clock' \in Nat, clock' >= clock
  PROVE  Spent(r)'
  <1> DEFINE i == r.instance
             t == storedAt[r]
  <1>1. t \in Nat /\ t <= clock
    BY Numbers DEF AppliedFits
  <1>2. i \in Instance /\ r.sequence \in Nat
    BY Numbers
  <1>3. clock \in Nat /\ RetiredTTL \in Nat /\ retired[i] \in Nat
    BY <1>2, Numbers
  <1>4. agents[i] # None => agents[i].sequence \in Nat
    <2>1. agents[i] # None => agents[i] \in Request
      BY <1>2 DEF IInv, CInv, TypeOK
    <2> QED BY <2>1, RequestType
  <1>5. \/ agents[i] # None /\ agents[i].sequence >= r.sequence
        \/ retired[i] >= t + RetiredTTL
        \/ clock >= t + RetiredTTL
    BY DEF Spent
  <1>6. \/ agents'[i] # None /\ agents'[i].sequence >= r.sequence
        \/ retired'[i] >= t + RetiredTTL
        \/ clock' >= t + RetiredTTL
    <2> HIDE DEF i, t
    <2>1. CASE agents'[i] = agents[i] /\ retired'[i] \in {retired[i], pruneRetired[i]}
      <3>1. retired'[i] = retired[i] \/ retired[i] <= clock
        BY <1>2, <2>1 DEF pruneRetired
      <3> QED BY <1>1, <1>2, <1>3, <1>5, <2>1, <3>1
    <2>2. CASE agents'[i] = None /\ retired'[i] = clock + RetiredTTL
      BY <1>1, <1>3, <2>2
    <2>3. CASE /\ agents'[i] # None
               /\ agents[i] = None \/ agents'[i].sequence >= agents[i].sequence
               /\ agents'[i].sequence \in Nat
               /\ retired'[i] = retired[i]
      BY <1>1, <1>2, <1>3, <1>4, <1>5, <2>3
    <2> QED BY <2>1, <2>2, <2>3 DEF StreamMoves, i
  <1> QED BY <1>6 DEF Spent

\* A step of the collector within one process keeps what was stored out, and
\* what it stores is out by being the last request of its stream.
LEMMA AppliedStays ==
  ASSUME IInv, AppliedFits,
         \A i \in Instance : StreamMoves(i),
         epoch' = epoch, clock' \in Nat, clock' >= clock,
         \A r \in applied' : \/ r \in applied /\ storedAt'[r] = storedAt[r]
                             \/ /\ r.epoch = epoch /\ storedAt'[r] = clock
                                /\ agents'[r.instance] = r /\ r \in Request
  PROVE  AppliedFits'
  <1> SUFFICES ASSUME NEW r \in applied'
               PROVE  /\ r.epoch <= epoch /\ storedAt'[r] <= clock'
                      /\ r.epoch = epoch => Spent(r)'
    BY DEF AppliedFits
  <1>0. clock \in Nat
    BY Numbers
  <1>1. CASE r \in applied /\ storedAt'[r] = storedAt[r]
    <2>1. storedAt[r] \in Nat /\ r.instance \in Instance
      BY <1>1, Numbers
    <2>2. r.epoch <= epoch /\ storedAt[r] <= clock /\ (r.epoch = epoch => Spent(r))
      BY <1>1 DEF AppliedFits
    <2>3. r.epoch = epoch => Spent(r)'
      BY <1>1, <2>1, <2>2, SpentStays
    <2> QED BY <1>0, <1>1, <2>1, <2>2, <2>3
  <1>2. CASE /\ r.epoch = epoch /\ storedAt'[r] = clock
             /\ agents'[r.instance] = r /\ r \in Request
    <2>1. r # None /\ r.sequence \in Nat /\ epoch \in Nat
      BY <1>2, RequestType, Numbers
    <2>2. Spent(r)'
      BY <1>2, <2>1 DEF Spent
    <2> QED BY <1>0, <1>2, <2>1, <2>2
  <1> QED BY <1>1, <1>2

\* Before the Store: Accept forgets fences that expired and may prune streams,
\* and takes c.mu only for a request that is ahead of its stream.
LEMMA ScreenKeepsSpent ==
  ASSUME IInv, OInv, NEW r \in net, RefuseRequest(r) \/ BeginRequest(r)
  PROVE  OInv'
  <1>1. UNCHANGED <<applied, storedAt, clock, epoch>>
    BY DEF RefuseRequest, BeginRequest, Refuse, Begin, history
  <1>2. clock \in Nat /\ epoch \in Nat /\ r \in Request /\ r.instance \in Instance
    BY Numbers
  <1>3. /\ \A i \in Instance : StreamMoves(i)
        /\ AcceptingAhead'
    <2>1. CASE Refuse(r)
      <3>1. agents' = agents /\ retired' = pruneRetired /\ accepting'.request = None
        BY <2>1 DEF Refuse, Free
      <3> QED BY <3>1 DEF StreamMoves, AcceptingAhead
    <2>2. ASSUME NEW reason \in CapacityResult, Begin(r, reason)
          PROVE  (\A i \in Instance : StreamMoves(i)) /\ AcceptingAhead'
      <3>1. PICK gone \in PruneSets(r.instance) : Retire(gone)
        BY <2>2 DEF Begin
      <3>2. \A i \in Instance : IF i \in gone
                                THEN agents'[i] = None /\ retired'[i] = clock + RetiredTTL
                                ELSE agents'[i] = agents[i] /\ retired'[i] = pruneRetired[i]
        BY <3>1 DEF Retire
      <3>3. \A i \in Instance : StreamMoves(i)
        BY <3>2 DEF StreamMoves
      <3>4. agents[r.instance] = None \/ agents[r.instance].sequence < r.sequence
        <4>1. CASE agents[r.instance] # None
          <5>1. /\ ~(r.sequence = agents[r.instance].sequence)
                /\ ~(r.sequence < agents[r.instance].sequence)
            BY <2>2, <4>1 DEF Begin, Screen
          <5>2. agents[r.instance] \in Request
            BY <1>2, <4>1 DEF IInv, CInv, TypeOK
          <5>3. r.sequence \in Nat /\ agents[r.instance].sequence \in Nat
            BY <1>2, <5>2, RequestType
          <5> QED BY <5>1, <5>3
        <4> QED BY <4>1
      <3>5. accepting'.request \in {r, None}
        BY <2>2 DEF Begin, Free
      <3>6. agents'[r.instance] \in {agents[r.instance], None}
        BY <1>2, <3>2
      <3> QED BY <3>3, <3>4, <3>5, <3>6 DEF AcceptingAhead
    <2> QED BY <2>1, <2>2 DEF RefuseRequest, BeginRequest
  <1>4. AppliedFits'
    BY <1>1, <1>2, <1>3, AppliedStays DEF OInv
  <1> QED BY <1>3, <1>4 DEF OInv

\* What is stored becomes the last request of its stream, and the producer that
\* it displaces is fenced.
LEMMA CommitKeepsSpent ==
  ASSUME IInv, SInv, OInv, CommitRequest
  PROVE  OInv'
  <1> DEFINE r == accepting.request
             i == r.instance
             o == accepting.owner
  <1>1. /\ Commit /\ UNCHANGED <<clock, epoch>>
        /\ IF Stores(r)
           THEN /\ applied' = applied \cup {r}
                /\ storedAt' = [q \in applied \cup {r} |-> IF q = r THEN clock ELSE storedAt[q]]
           ELSE applied' = applied /\ storedAt' = storedAt
    BY DEF CommitRequest, Commit, history
  <1>2. /\ r # None /\ r \in Request /\ i \in Instance /\ accepting'.request = None
        /\ r.epoch = epoch
        /\ agents[i] = None \/ agents[i].sequence < r.sequence
    BY <1>1, CommitAgents DEF IInv, SInv, OInv, AcceptingAhead
  <1>3. clock \in Nat /\ epoch \in Nat /\ r.sequence \in Nat
    BY <1>2, Numbers, RequestType
  <1>4. /\ agents \in [Instance -> Request \cup {None}] /\ retired \in [Instance -> Nat]
        /\ o \in Instance \cup {None}
    BY DEF IInv, CInv, TypeOK
  <1>5. agents[i] # None => agents[i].sequence \in Nat
    BY <1>2, <1>4, RequestType
  <1>6. AcceptingAhead'
    BY <1>2 DEF AcceptingAhead
  <1>7. CASE StoreResult(r) # "accepted"
    <2>1. agents' = agents /\ retired' = retired
      BY <1>1, <1>7 DEF Commit
    <2>2. applied' = applied /\ storedAt' = storedAt
      BY <1>1, <1>7 DEF Stores
    <2>3. \A j \in Instance : StreamMoves(j)
      BY <2>1 DEF StreamMoves
    <2>4. AppliedFits'
      BY <1>1, <1>3, <2>2, <2>3, AppliedStays DEF OInv
    <2> QED BY <1>6, <2>4 DEF OInv
  <1>8. CASE StoreResult(r) = "accepted"
    <2>1. \/ /\ o # None /\ o # i
             /\ agents' = [agents EXCEPT ![o] = None, ![i] = r]
             /\ retired' = [retired EXCEPT ![o] = clock + RetiredTTL]
          \/ /\ agents' = [agents EXCEPT ![i] = r]
             /\ retired' = retired
      BY <1>1, <1>8 DEF Commit, NewOwner
    <2>2. ASSUME NEW q \in applied'
          PROVE  \/ q \in applied /\ storedAt'[q] = storedAt[q]
                 \/ q = r /\ storedAt'[q] = clock
      <3> HIDE DEF r
      <3>1. CASE Stores(r)
        <4>1. q \in applied \cup {r} /\ storedAt'[q] = IF q = r THEN clock ELSE storedAt[q]
          BY <1>1, <2>2, <3>1
        <4> QED BY <4>1
      <3>2. CASE ~Stores(r)
        BY <1>1, <2>2, <3>2
      <3> QED BY <3>1, <3>2
    <2>3. r.instance = i
      BY DEF i
    <2> HIDE DEF r, i, o
    <2>4. agents'[i] = r /\ retired'[i] = retired[i]
      BY <1>2, <1>4, <2>1
    <2>5. StreamMoves(i)
      BY <1>2, <1>3, <1>5, <2>4 DEF StreamMoves
    <2>6. ASSUME NEW j \in Instance, j # i
          PROVE  StreamMoves(j)
      <3>1. \/ j = o /\ agents'[j] = None /\ retired'[j] = clock + RetiredTTL
            \/ agents'[j] = agents[j] /\ retired'[j] = retired[j]
        BY <1>2, <1>4, <2>1, <2>6
      <3> QED BY <3>1 DEF StreamMoves
    <2>7. \A j \in Instance : StreamMoves(j)
      BY <2>5, <2>6
    <2>8. AppliedFits'
      BY <1>1, <1>2, <1>3, <2>2, <2>3, <2>4, <2>7, AppliedStays DEF OInv
    <2> QED BY <1>6, <2>8 DEF OInv
  <1> QED BY <1>7, <1>8

\* A publisher touches nothing that was stored.
LEMMA PublisherKeepsSpent ==
  ASSUME OInv, NEW i \in Instance,
         TakeSnapshot(i) \/ AgentStep(i) \/ StartAgent(i) \/ StopAgent(i)
  PROVE  OInv'
  <1>1. UNCHANGED <<collectorVars, history>>
    BY DEF TakeSnapshot, AgentStep, StartAgent, StopAgent
  <1>2. UNCHANGED <<clock, epoch, agents, retired, accepting, applied, storedAt>>
    BY <1>1 DEF collectorVars, coordinatorVars, history
  <1> QED BY <1>2 DEF OInv, AppliedFits, Spent, AcceptingAhead

\* The rest: time passes, fences expire, and a new process has a new epoch.
LEMMA OthersKeepSpent ==
  ASSUME IInv, OInv,
         \/ \E i \in Instance : AnswerEpoch(i)
         \/ \E n \in NodeName : DeleteNode(n) \/ \E u \in NodeUID : CreateNode(n, u)
         \/ ListNodes \/ ReconcileListed \/ ProbeFails
         \/ RestartCollector \/ TickClock \/ UNCHANGED vars
  PROVE  OInv'
  <1>1. UNCHANGED <<applied, storedAt>>
    BY DEF AnswerEpoch, DeleteNode, CreateNode, ListNodes, ReconcileListed,
           ProbeFails, RestartCollector, TickClock, vars, history
  <1>2. clock \in Nat /\ epoch \in Nat
    BY Numbers
  <1>3. clock' \in Nat /\ clock' >= clock
    <2>1. clock' = clock \/ clock' = clock + 1
      BY DEF AnswerEpoch, ReadEpoch, DeleteNode, CreateNode, ListNodes, ReconcileListed, Reconcile,
             ProbeFails, RestartCollector, Restart, TickClock, Tick, vars, collectorVars
    <2> QED BY <1>2, <2>1
  <1>4. CASE RestartCollector
    <2>1. epoch' = epoch + 1 /\ clock' = clock /\ accepting'.request = None
      BY <1>4 DEF RestartCollector, Restart, Free
    <2>2. ASSUME NEW r \in applied
          PROVE  r.epoch <= epoch' /\ r.epoch # epoch' /\ storedAt[r] <= clock'
      <3>1. r.epoch \in Nat /\ r.epoch <= epoch /\ storedAt[r] <= clock
        BY Numbers DEF OInv, AppliedFits
      <3> QED BY <1>2, <2>1, <3>1
    <2>3. AppliedFits'
      BY <1>1, <2>2 DEF AppliedFits
    <2> QED BY <2>1, <2>3 DEF OInv, AcceptingAhead
  <1>5. CASE ~RestartCollector
    <2>1. epoch' = epoch /\ agents' = agents
      BY <1>5 DEF AnswerEpoch, ReadEpoch, DeleteNode, CreateNode, ListNodes, ReconcileListed,
             Reconcile, ProbeFails, TickClock, Tick, vars, collectorVars, coordinatorVars
    <2>2. retired' \in {retired, pruneRetired}
      BY <1>5 DEF AnswerEpoch, ReadEpoch, DeleteNode, CreateNode, ListNodes, ReconcileListed,
             Reconcile, ProbeFails, TickClock, Tick, vars, collectorVars, coordinatorVars
    <2>3. accepting' = accepting
      BY <1>5 DEF AnswerEpoch, ReadEpoch, DeleteNode, CreateNode, ListNodes, ReconcileListed,
             Reconcile, ProbeFails, TickClock, Tick, vars, collectorVars, coordinatorVars
    <2>4. \A i \in Instance : StreamMoves(i)
      BY <2>1, <2>2 DEF StreamMoves
    <2>5. AppliedFits'
      BY <1>1, <1>3, <2>1, <2>4, AppliedStays DEF OInv
    <2>6. AcceptingAhead'
      BY <2>1, <2>3 DEF OInv, AcceptingAhead
    <2> QED BY <2>5, <2>6 DEF OInv
  <1> QED BY <1>4, <1>5

\* Commit stores what was stored before only when its time is over: the call is
\* ahead of its stream, and its producer is not fenced (OwnerStaysCurrent).
LEMMA SpentNotStored ==
  ASSUME IInv, SInv, OInv, accepting.request \in applied
  PROVE  clock >= storedAt[accepting.request] + RetiredTTL
  <1> DEFINE r == accepting.request
  <1>1. r \in net /\ storedAt[r] \in Nat /\ r.instance \in Instance /\ r.sequence \in Nat
    BY Numbers
  <1>2. r # None /\ r.epoch = epoch
    BY <1>1, NetType DEF IInv, SInv
  <1>3. retired[r.instance] = 0
    BY <1>2 DEF IInv, CInv, OwnerStaysCurrent
  <1>4. agents[r.instance] = None \/ agents[r.instance].sequence < r.sequence
    BY <1>2 DEF OInv, AcceptingAhead
  <1>5. agents[r.instance] # None => agents[r.instance].sequence \in Nat
    <2>1. agents[r.instance] # None => agents[r.instance] \in Request
      BY <1>1 DEF IInv, CInv, TypeOK
    <2> QED BY <2>1, RequestType
  <1>6. Spent(r)
    BY <1>2 DEF OInv, AppliedFits
  <1>7. RetiredTTL \in Nat \ {0} /\ clock \in Nat
    BY Numbers
  <1> HIDE DEF r
  <1>8. clock >= storedAt[r] + RetiredTTL
    BY <1>1, <1>3, <1>4, <1>5, <1>6, <1>7 DEF Spent
  <1> QED BY <1>8 DEF r

\* So a step that changes what a Node name holds brings nothing stored lately.
LEMMA NothingStoredSoonAgain ==
  ASSUME IInv, SInv, OInv, [Next]_vars, NEW n \in NodeName, NEW r \in applied,
         (records'[n] = r /\ records[n] # r) \/ (contexts'[n] = r /\ contexts[n] # r)
  PROVE  clock >= storedAt[r] + RetiredTTL
  <1>1. None \notin applied
    BY NetType DEF IInv, CollectorFits
  <1>2. CASE CommitRequest
    <2>1. Commit
      BY <1>2 DEF CommitRequest
    <2>2. /\ records'[n] = records[n] \/ records'[n] = accepting.request
          /\ contexts'[n] = contexts[n] \/ contexts'[n] = accepting.request
      BY <2>1, CommitStores DEF IInv
    <2>3. accepting.request = r
      BY <2>2
    <2> QED BY <2>3, SpentNotStored
  <1>3. CASE ReconcileListed \/ RestartCollector
    <2>1. records'[n] \in {records[n], None} /\ contexts'[n] \in {contexts[n], None}
      BY <1>3 DEF ReconcileListed, Reconcile, RestartCollector, Restart
    <2> QED BY <1>1, <2>1
  <1>4. CASE ~(CommitRequest \/ ReconcileListed \/ RestartCollector)
    <2>1. records' = records /\ contexts' = contexts
      BY <1>4 DEF Next, TakeSnapshot, AgentStep, StartAgent, StopAgent, AnswerEpoch, ReadEpoch,
             RefuseRequest, Refuse, BeginRequest, Begin, DeleteNode, CreateNode, ListNodes, ProbeFails,
             TickClock, Tick, vars, collectorVars, storeVars
    <2> QED BY <2>1
  <1> QED BY <1>2, <1>3, <1>4

\* A request that the Store took is not stored again by the same process before
\* RetiredTTL has passed, however late and in whatever order its copies arrive,
\* whatever the clocks of the Nodes and the limits are.
THEOREM StoredAlwaysApart == Spec => StoredApart
  <1>1. Init => OInv
    BY DEF Init, CInit, Free, OInv, AppliedFits, AcceptingAhead
  <1>2. IInv /\ SInv /\ OInv /\ [Next]_vars => OInv'
    BY PublisherKeepsSpent, ScreenKeepsSpent, CommitKeepsSpent, OthersKeepSpent DEF Next
  <1>3. IInv /\ SInv /\ OInv /\ [Next]_vars =>
          [\A n \in NodeName, r \in applied :
             (records'[n] = r /\ records[n] # r) \/ (contexts'[n] = r /\ contexts[n] # r)
               => clock >= storedAt[r] + RetiredTTL]_vars
    BY NothingStoredSoonAgain
  <1> QED BY <1>1, <1>2, <1>3, InitSInv, NextSInv, IInvariance, PTL DEF Spec, StoredApart
=============================================================================
