-------------------------- MODULE MCTraceAdmission --------------------------
(* Small instances of TraceAdmission for TLC.                               *)
EXTENDS TraceAdmission

CONSTANTS s1, s2, s3

\* One owner asks for s1 and s2; s1 and s3 run on one node.
Owners     == [s \in Session |-> IF s = s3 THEN "beth" ELSE "alex"]
Namespaces == [s \in Session |-> "shop"]
Nodes      == [s \in Session |-> IF s = s2 THEN "n2" ELSE "n1"]

\* What clients do once the sessions are admitted.
Served    == {<<"stream", s1>>, <<"get", s3>>}
Cancelled == {"delete", "stream", "hangup"} \X {s1}
=============================================================================
