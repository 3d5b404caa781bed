-------------------------- MODULE IncidentTimeline --------------------------
(***************************************************************************)
(* What an incident session promises its operator: a log that is opened    *)
(* once with a fixed end of life, grows by whole groups of entries until   *)
(* it is closed, is never rewritten, and once forgotten never comes back.  *)
(***************************************************************************)
EXTENDS Naturals, Sequences

CONSTANTS Id, Retention

VARIABLES now, log

vars == <<now, log>>

\* What one operation records: the gaps that qualify an action come with it.
Gaps(S) == {[k \in 1..n |-> "gap"] : n \in S}
Group == {<<k>> : k \in {"annotated", "trace-referenced", "captured", "gap"}}
         \cup {<<"marked">> \o g : g \in Gaps(1..3)}
         \cup {<<"compared">> \o g : g \in Gaps(0..2)}

Unused == [at |-> "unused", entries |-> <<>>, expires |-> 0]
Gone == [at |-> "gone", entries |-> <<>>, expires |-> 0]

Alive(i) == log[i].at \in {"open", "closed"}
Writable(i) == log[i].at = "open" /\ now < log[i].expires

Becomes(i, l) == log'[i] = l
Stays(i) == Becomes(i, log[i])
MayGo(i) == Stays(i) \/ (Alive(i) /\ Becomes(i, Gone))
Alone(i) == \A j \in Id \ {i} : Stays(j)

Init == now = 0 /\ log = [i \in Id |-> Unused]

\* What has expired makes room for what opens.
Open(i) ==
  /\ log[i] = Unused
  /\ Becomes(i, [at |-> "open", entries |-> <<"opened">>, expires |-> now + Retention])
  /\ \A j \in Id \ {i} : MayGo(j)

Extend(i) ==
  /\ Writable(i) /\ Alone(i)
  /\ \E g \in Group : Becomes(i, [log[i] EXCEPT !.entries = @ \o g])

Close(i) ==
  /\ Writable(i) /\ Alone(i)
  /\ Becomes(i, [at |-> "closed", entries |-> Append(log[i].entries, "closed"),
                  expires |-> log[i].expires])

Forget == \A i \in Id : MayGo(i)

Pass == now' = now + 1 /\ UNCHANGED log

Next ==
  \/ /\ UNCHANGED now /\ DOMAIN log' = Id
     /\ Forget \/ \E i \in Id : Open(i) \/ Extend(i) \/ Close(i)
  \/ Pass

Spec == Init /\ [][Next]_vars
=============================================================================
