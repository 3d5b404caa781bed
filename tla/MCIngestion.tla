---------------------------- MODULE MCIngestion ----------------------------
(* Small instances of Ingestion for TLC. *)
EXTENDS Ingestion

CONSTANTS a, b, n1, n2, u1, u2

Claim(role, name, uid) == [role |-> role, name |-> name, uid |-> uid]

AllRequests ==
  [instance: Instance, epoch: 1 .. MaxEpoch, sequence: 1 .. 5, uid: NodeUID,
   scan: 1 .. 3, captured: 0 .. MaxClock + MaxFutureSkew, size: Sizes]

NoOffset == [u \in NodeUID |-> 0]

\* The Nodes' clocks are ahead by as much as the collector accepts.
Ahead == [u \in NodeUID |-> MaxFutureSkew]

\* A Pod and its replacement on the same Node object.
Pair == {a, b}
PairClaims == [i \in Pair |-> Claim("cgroup", n1, u1)]
PairScans  == [i \in Pair |-> IF i = a THEN 2 ELSE 1]
OneScan    == [i \in Pair |-> 1]

\* A Pod on a Node, and another on the Node recreated under its name.
RecreatedClaims == [i \in Pair |-> Claim("cgroup", n1, IF i = a THEN u1 ELSE u2)]

\* Pods of two Nodes.
TwoNodeClaims ==
  [i \in Pair |-> IF i = a THEN Claim("cgroup", n1, u1) ELSE Claim("cgroup", n2, u2)]
=============================================================================
