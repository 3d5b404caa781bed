--------------------------- MODULE FencedRegister ---------------------------
(***************************************************************************)
(* What ingestion promises its readers, with no maps, sequences or epochs: *)
(* one register per stream (a role on a Node name), written by one writer  *)
(* at a time.  A writer that is displaced is fenced and stays out until it *)
(* is forgotten, and no write takes the evidence of a Node object back in  *)
(* time.                                                                   *)
(***************************************************************************)
EXTENDS Integers

CONSTANTS Writer, Stream, Time, None,
          StreamOf(_),   \* the stream a writer may write
          NodeOf(_)      \* the Node object a writer observes

VARIABLES writer,  \* writer[s]: who may go on writing stream s, or None
          fenced,  \* writers displaced and not yet forgotten
          value    \* value[s]: [by, at] of the evidence held, or None

vars == <<writer, fenced, value>>

RInit ==
  /\ writer = [s \in Stream |-> None]
  /\ fenced = {}
  /\ value = [s \in Stream |-> None]

\* The evidence v of writer i may follow what stream s holds.
Follows(v, i, s) ==
  value[s] # None /\ NodeOf(value[s].by) = NodeOf(i) => v.at > value[s].at

\* i writes its stream, displacing another writer.  Evidence of the very instant
\* already held leaves the value as it is.
Write(i) ==
  LET s == StreamOf(i) IN
  /\ i \notin fenced
  /\ writer' = [writer EXCEPT ![s] = i]
  /\ fenced' = fenced \cup ({writer[s]} \ {None, i})
  /\ \/ value[s] # None /\ NodeOf(value[s].by) = NodeOf(i) /\ UNCHANGED value
     \/ \E at \in Time :
          LET v == [by |-> i, at |-> at]
          IN  Follows(v, i, s) /\ value' = [value EXCEPT ![s] = v]

\* Fenced writers may be forgotten; writers under capacity pressure are fenced.
Refence ==
  /\ writer' \in [Stream -> Writer \cup {None}]
  /\ \A s \in Stream : writer'[s] \in {writer[s], None}
  /\ LET displaced == {s \in Stream : writer'[s] # writer[s]}
     IN  /\ \A s \in displaced : writer[s] \in fenced'
         /\ fenced' \subseteq fenced \cup {writer[s] : s \in displaced}
  /\ UNCHANGED value

\* The inventory drops evidence of Nodes that are gone.
Erase ==
  /\ DOMAIN value' = Stream
  /\ \A s \in Stream : value'[s] \in {value[s], None}
  /\ UNCHANGED <<writer, fenced>>

Reset ==
  /\ writer' = [s \in Stream |-> None]
  /\ fenced' = {}
  /\ value' = [s \in Stream |-> None]

RNext ==
  \/ Refence
  \/ Erase
  \/ \E i \in Writer : Write(i)
  \/ Reset

RSpec == RInit /\ [][RNext]_vars
=============================================================================
