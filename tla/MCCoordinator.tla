--------------------------- MODULE MCCoordinator ---------------------------
(* Small instances of Coordinator for TLC: any request of a small set may   *)
(* arrive at any time, which covers every publisher and every network.      *)
EXTENDS Coordinator

CONSTANTS a, b, c, d, e, n1, n2, u1, u2, u3

Claim(role, name, uid) == [role |-> role, name |-> name, uid |-> uid]

\* Pods a and b follow each other on one Node; c runs on the Node recreated
\* under its name; d is the Node-context producer beside a, and e is alone on a
\* second Node.
Pods == {a, b, c, d, e}
Identities ==
  [i \in Pods |-> CASE i = a -> Claim("cgroup", n1, u1)
                    [] i = b -> Claim("cgroup", n1, u1)
                    [] i = c -> Claim("cgroup", n1, u2)
                    [] i = d -> Claim("node-context", n1, u1)
                    [] i = e -> Claim("cgroup", n2, u3)]

Req(i, s, t, size) ==
  [instance |-> i, epoch |-> 1, sequence |-> s, uid |-> Identities[i].uid,
   scan |-> s, captured |-> t, size |-> size]

\* Capture times are free of the sequence: requests arrive in any order, and a
\* restarted container reuses a sequence for other content.  One agent reads a
\* Node UID that is not its own.
SomeRequests ==
  {Req(a, s, t, 1) : s \in 1 .. 2, t \in 0 .. 1}
    \cup {Req(b, 1, t, 1) : t \in 0 .. 1}
    \cup {Req(c, 1, 0, 2)}
    \cup {Req(d, 1, t, 0) : t \in 0 .. 1}
    \cup {Req(e, 1, 1, 1), [Req(e, 1, 1, 1) EXCEPT !.uid = u1]}
=============================================================================
