--------------------------- MODULE BindingPromise ---------------------------
(***************************************************************************)
(* What the controller may rely on when a node runs a trace for it: the    *)
(* engine of a session runs at most once, and once the node has confirmed  *)
(* the cleanup of a session its engine is not running and never will be.   *)
(* This is the contract of traceadmission's Binder and Binding.            *)
(***************************************************************************)
CONSTANT Lease

VARIABLES
  ran,       \* sessions whose engine has been started somewhere
  running,   \* sessions whose engine runs now
  confirmed  \* sessions whose cleanup the controller holds for confirmed

vars == <<ran, running, confirmed>>

Init == ran = {} /\ running = {} /\ confirmed = {}

Start(i) ==
  /\ i \notin ran \cup confirmed
  /\ ran' = ran \cup {i} /\ running' = running \cup {i}
  /\ UNCHANGED confirmed

\* Teardown; a process that dies may end several at once.
End(S) ==
  /\ running' = running \ S
  /\ UNCHANGED <<ran, confirmed>>

\* A confirmation may come with the teardown it waited for.
Confirm(i) ==
  /\ confirmed' = confirmed \cup {i}
  /\ running' = running \ {i}
  /\ UNCHANGED ran

Next == \/ \E i \in Lease : Start(i)
        \/ \E i \in Lease : Confirm(i)
        \/ \E S \in SUBSET Lease : End(S)

Spec == Init /\ [][Next]_vars
=============================================================================
