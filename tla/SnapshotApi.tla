---------------------------- MODULE SnapshotApi ----------------------------
(***************************************************************************)
(* What the agents and the collector share: the producers and their        *)
(* authenticated claims, the snapshot requests of api.NodeSnapshotRequest  *)
(* and the reasons with which the collector answers them.                  *)
(*                                                                         *)
(* A request is a record of the sending producer, its collector epoch and  *)
(* sequence, the Node UID the agent believes in, and its snapshot: which   *)
(* scan it is, when it was captured and how many containers it lists.      *)
(***************************************************************************)
EXTENDS Integers

CONSTANTS
  Instance,   \* producer Pods, each the instanceKey of its claims
  NodeName, NodeUID,
  None,       \* the absent map entry, the empty string
  Claims,     \* Claims[i]: role, Node name and Node UID of producer i
  Request     \* the snapshot requests that producers may send

Role == {"cgroup", "node-context"}
StreamOf(i) == <<Claims[i].role, Claims[i].name>>
nodeKey(i)  == <<Claims[i].role, Claims[i].uid>>

ASSUME ClaimsAssumption ==
  /\ Claims \in [Instance -> [role: Role, name: NodeName, uid: NodeUID]]
  /\ None \notin Instance \cup NodeUID \cup Request
  \* A Node UID belongs to one Node object, and so to one name.
  /\ \A i, j \in Instance : Claims[i].uid = Claims[j].uid => Claims[i].name = Claims[j].name

ASSUME RequestAssumption ==
  Request \subseteq [instance: Instance, epoch: Nat, sequence: Nat, uid: NodeUID,
                     scan: Nat, captured: Int, size: Nat]

\* The reasons of Accept's answers, and "proceed" while it has none.
Result == {"accepted", "duplicate", "epoch_mismatch", "node_claim_mismatch",
           "invalid_sequence", "agent_replaced", "sequence_conflict",
           "sequence_replayed", "agent_capacity", "retired_agent_capacity",
           "invalid_snapshot", "node_inventory", "snapshot_out_of_order",
           "store_capacity", "proceed"}
=============================================================================
