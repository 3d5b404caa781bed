----------------------------- MODULE TraceQuota -----------------------------
(***************************************************************************)
(* What trace admission promises: every trace session that may have work   *)
(* on a node holds a slot of every quota, and a slot is given back only    *)
(* when that work is gone.                                                 *)
(***************************************************************************)
EXTENDS Naturals, FiniteSets

CONSTANTS Session,
          Quota,      \* pairs <<sessions, limit>>: a principal's, a namespace's, all
          NodeQuota   \* the same for the sessions of each node

VARIABLES held,     \* sessions holding a slot
          working   \* sessions that may have work on their node

Within(S, quotas) == \A q \in quotas : Cardinality(S \cap q[1]) <= q[2]

QInit == held = {} /\ working = {}

Reserve(s) ==
  /\ s \notin held
  /\ held' = held \cup {s}
  /\ Within(held', Quota)
  /\ UNCHANGED working

Start(s) ==
  /\ s \in held \ working
  /\ working' = working \cup {s}
  /\ Within(working', NodeQuota)
  /\ UNCHANGED held

Stop(s) == s \in working /\ working' = working \ {s} /\ UNCHANGED held

Release(s) ==
  /\ s \in held
  /\ held' = held \ {s}
  /\ working' = working \ {s}

QNext == \E s \in Session : Reserve(s) \/ Start(s) \/ Stop(s) \/ Release(s)

QSpec == QInit /\ [][QNext]_<<held, working>>
=============================================================================
