----------------------------- MODULE Publisher -----------------------------
(***************************************************************************)
(* The agent's side of authenticated ingestion: one agent.SnapshotPublisher*)
(* per producer Pod, driven by the scan loop of cmd/memlens-agent.  Publish*)
(* runs under p.mu, so a producer has one call in progress at most:        *)
(*                                                                         *)
(*   "idle"     between two publishes                                      *)
(*   "epoch"    refreshEpoch before the first snapshot                     *)
(*   "post"     postWithRetry of the current request                       *)
(*   "refresh"  refreshEpoch after an epoch_mismatch                       *)
(*   "repost"   postWithRetry of the same sequence under the new epoch     *)
(*   "down"     the Pod does not exist yet, or no longer                   *)
(*                                                                         *)
(* Transport.  A POST handed to the network stays in `net' for good: it    *)
(* may arrive late, again (each of the four attempts is one more arrival)  *)
(* or never.  `answer' is the response that reached the waiting call;      *)
(* losing it is a transport error, after which the call tries again or     *)
(* gives up (attempts exhausted, or the 10 s publish deadline).            *)
(***************************************************************************)
EXTENDS SnapshotApi

CONSTANT MaxScans   \* bound of the model: MaxScans[i] snapshots of Pod i

VARIABLES
  pc,            \* where the producer's Publish is
  pubEpoch,      \* p.epoch, 0 when not known
  pubSequence,   \* p.sequence
  current,       \* the request of the call in progress
  answer,        \* the response that arrived for that call
  scans,         \* snapshots taken so far by the Pod
  net,           \* POSTs handed to the network
  acked          \* requests for which Publish returned nil

publisherVars == <<pc, pubEpoch, pubSequence, current, answer, scans, net, acked>>

Calling == {"epoch", "post", "refresh", "repost"}
Answer  == [reason: Result \cup {"epoch"}, epoch: Nat, last: Nat]

PublisherTypeOK ==
  /\ pc \in [Instance -> Calling \cup {"idle", "down"}]
  /\ pubEpoch \in [Instance -> Nat]
  /\ pubSequence \in [Instance -> Nat]
  /\ \A i \in Instance : pc[i] \in {"post", "refresh", "repost"} => current[i] \in Request
  /\ answer \in [Instance -> Answer \cup {None}]
  /\ net \subseteq Request /\ acked \subseteq net

PublisherInit ==
  /\ pc = [i \in Instance |-> "down"]
  /\ pubEpoch = [i \in Instance |-> 0]
  /\ pubSequence = [i \in Instance |-> 0]
  /\ current = [i \in Instance |-> None]
  /\ answer = [i \in Instance |-> None]
  /\ scans = [i \in Instance |-> 0]
  /\ net = {}
  /\ acked = {}

MaxOf(m, n) == IF m > n THEN m ELSE n

\* Mutation of Post: builds the request before p.sequence++.
PostBeforeIncrement(i, snapshot, e, sequence) ==
  LET request == [snapshot EXCEPT !.epoch = e, !.sequence = sequence]
  IN  /\ pubSequence' = [pubSequence EXCEPT ![i] = sequence + 1]
      /\ current' = [current EXCEPT ![i] = request]
      /\ net' = net \cup {request}
      /\ pc' = [pc EXCEPT ![i] = "post"]

\* p.sequence++ and the first POST of a snapshot.
Post(i, snapshot, e, sequence) ==
  LET request == [snapshot EXCEPT !.epoch = e, !.sequence = sequence + 1]
  IN  /\ pubSequence' = [pubSequence EXCEPT ![i] = sequence + 1]
      /\ current' = [current EXCEPT ![i] = request]
      /\ net' = net \cup {request}
      /\ pc' = [pc EXCEPT ![i] = "post"]

\* The scan loop hands a snapshot to Publish.
Publish(i, uid, captured, size) ==
  LET snapshot == [instance |-> i, epoch |-> 0, sequence |-> 0, uid |-> uid,
                   scan |-> scans[i] + 1, captured |-> captured, size |-> size]
  IN  /\ pc[i] = "idle"
      /\ scans[i] < MaxScans[i]
      /\ scans' = [scans EXCEPT ![i] = @ + 1]
      /\ IF pubEpoch[i] = 0
         THEN /\ pc' = [pc EXCEPT ![i] = "epoch"]
              /\ current' = [current EXCEPT ![i] = snapshot]
              /\ UNCHANGED <<pubSequence, net>>
         ELSE Post(i, snapshot, pubEpoch[i], pubSequence[i])
      /\ UNCHANGED <<pubEpoch, answer, acked>>

\* refreshEpoch returns: adopt the epoch, and lastSequence when it is ahead.
GotEpoch(i) ==
  LET e == answer[i].epoch
      sequence == MaxOf(pubSequence[i], answer[i].last)
  IN  /\ pc[i] \in {"epoch", "refresh"}
      /\ answer[i] # None
      /\ pubEpoch' = [pubEpoch EXCEPT ![i] = e]
      /\ answer' = [answer EXCEPT ![i] = None]
      /\ \/ /\ pc[i] = "epoch"
            /\ Post(i, current[i], e, sequence)
         \/ /\ pc[i] = "refresh" /\ e # pubEpoch[i]
            /\ pubSequence' = [pubSequence EXCEPT ![i] = sequence]
            /\ current' = [current EXCEPT ![i].epoch = e]
            /\ net' = net \cup {current'[i]}
            /\ pc' = [pc EXCEPT ![i] = "repost"]
         \/ /\ pc[i] = "refresh" /\ e = pubEpoch[i]
            /\ pubSequence' = [pubSequence EXCEPT ![i] = sequence]
            /\ current' = [current EXCEPT ![i] = None]
            /\ pc' = [pc EXCEPT ![i] = "idle"]
            /\ UNCHANGED net
      /\ UNCHANGED <<scans, acked>>

\* HTTP 507 is a 5xx: postWithRetry tries the same request again.
Transient(reason) == reason \in {"agent_capacity", "retired_agent_capacity", "store_capacity"}

Succeeded(reason) == reason \in {"accepted", "duplicate"}

GotResult(i) ==
  /\ pc[i] \in {"post", "repost"}
  /\ answer[i] # None
  /\ answer' = [answer EXCEPT ![i] = None]
  /\ LET reason == answer[i].reason IN
     \/ /\ Transient(reason)
        /\ UNCHANGED <<pc, current, acked>>
     \/ /\ pc[i] = "post" /\ reason = "epoch_mismatch"
        /\ pc' = [pc EXCEPT ![i] = "refresh"]
        /\ UNCHANGED <<current, acked>>
     \/ /\ ~Transient(reason)
        /\ ~(pc[i] = "post" /\ reason = "epoch_mismatch")
        /\ pc' = [pc EXCEPT ![i] = "idle"]
        /\ current' = [current EXCEPT ![i] = None]
        /\ acked' = IF Succeeded(reason) THEN acked \cup {current[i]} ELSE acked
  /\ UNCHANGED <<pubEpoch, pubSequence, scans, net>>

\* A transport error on the way back: the call will try again.
LoseAnswer(i) ==
  /\ answer[i] # None
  /\ answer' = [answer EXCEPT ![i] = None]
  /\ UNCHANGED <<pc, pubEpoch, pubSequence, current, scans, net, acked>>

\* Attempts exhausted or the publish context done; the sequence stays consumed.
GiveUp(i) ==
  /\ pc[i] \in Calling
  /\ pc' = [pc EXCEPT ![i] = "idle"]
  /\ current' = [current EXCEPT ![i] = None]
  /\ answer' = [answer EXCEPT ![i] = None]
  /\ UNCHANGED <<pubEpoch, pubSequence, scans, net, acked>>

\* The container (re)starts in the same Pod: a new, empty SnapshotPublisher.
StartContainer(i) ==
  /\ pc' = [pc EXCEPT ![i] = "idle"]
  /\ pubEpoch' = [pubEpoch EXCEPT ![i] = 0]
  /\ pubSequence' = [pubSequence EXCEPT ![i] = 0]
  /\ current' = [current EXCEPT ![i] = None]
  /\ answer' = [answer EXCEPT ![i] = None]
  /\ UNCHANGED <<scans, net, acked>>

StopPod(i) ==
  /\ pc[i] # "down"
  /\ pc' = [pc EXCEPT ![i] = "down"]
  /\ pubEpoch' = [pubEpoch EXCEPT ![i] = 0]
  /\ pubSequence' = [pubSequence EXCEPT ![i] = 0]
  /\ current' = [current EXCEPT ![i] = None]
  /\ answer' = [answer EXCEPT ![i] = None]
  /\ UNCHANGED <<scans, net, acked>>
=============================================================================
