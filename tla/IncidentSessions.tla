-------------------------- MODULE IncidentSessions --------------------------
(***************************************************************************)
(* The collector's incident sessions: the handler that admits a few        *)
(* requests at a time, and the Store that keeps every session in memory.   *)
(* A call of the store asks for authority without the lock, then looks at  *)
(* the store under it; a capture makes two or three calls, with the        *)
(* acquisition of its evidence between them.                               *)
(*                                                                         *)
(* Each section under s.mu is a step.  It takes effect at its last look at *)
(* the contexts: a stop that comes later is a stop after the section,      *)
(* because the sweeper needs the same lock.  Anything that fails before    *)
(* (authority, decoding, a context that is over) is Abandons.  randomID    *)
(* draws 128 bits: an identifier is not drawn twice.  Of an entry the kind *)
(* is kept, of evidence its digest and schema; size stands for the encoded *)
(* bytes and for the JSON tokens of the whole document, both of which have *)
(* a reserve for closing.  Rate limits and the export's layout are left    *)
(* out.                                                                    *)
(***************************************************************************)
EXTENDS Naturals, Sequences, FiniteSets

CONSTANTS
  Id, Slot, None,
  Principal,
  NamespaceUID,  \* of each principal
  Permitted,     \* the operations that the delegated policy allows each
  Notes,         \* kinds of entry that an operator adds
  Pods, History, \* digests of Pod captures and of history bundles
  Sessions, NamespaceSessions, Entries, SessionBytes, Retention, \* Limits
  MaxEntryBytes, MaxCaptureBytes, MaxCaptures,
  MaxTime        \* a bound of the model: the last moment

Digest == Pods \cup History

Operation == {"create", "inspect", "capture", "compare", "markers", "append", "close", "delete"}

ASSUME PolicyAssumption == Permitted \in [Principal -> SUBSET Operation]

ASSUME LimitsAssumption ==
  /\ Notes \subseteq {"annotated", "trace-referenced"}
  /\ Sessions \in Nat \ {0} /\ NamespaceSessions \in 1..Sessions
  /\ Entries \in Nat /\ Entries >= 2
  /\ MaxEntryBytes \in Nat \ {0} /\ SessionBytes \in Nat /\ SessionBytes >= 2 * MaxEntryBytes
  /\ MaxCaptureBytes \in Nat \ {0}
  /\ Retention \in Nat \ {0} /\ MaxCaptures \in Nat \ {0} /\ MaxTime \in Nat

VARIABLES
  now,
  records,   \* s.records
  issued,    \* history: identifiers that were drawn
  stopping,  \* s.ctx is done
  done,      \* the sweeper has returned, and Shutdown with it
  request    \* the requests that hold the gate, and how far each is

vars == <<now, records, issued, stopping, done, request>>

Kind == {"opened", "annotated", "captured", "compared", "marked", "trace-referenced",
         "gap", "closed"}

Record == [owner : Principal, expires : Nat, closed : BOOLEAN,
           entries : Seq(Kind), size : Nat,
           captures : SUBSET Digest, limitReached : BOOLEAN]

\* authorised: about to enter the section; acquiring: reads the evidence without
\* the lock; recording and reporting: authorised again, with evidence or a gap.
Request == [op : Operation, principal : Principal, id : Id \cup {None},
            at : {"authorised", "acquiring", "recording", "reporting"}]

ASSUME NoneAssumption == None \notin Record /\ None \notin Request /\ None \notin Id

\* A record that can be found has its first entry: summary() reads the last one.
TypeOK ==
  /\ now \in Nat
  /\ records \in [Id -> Record \cup {None}]
  /\ issued \subseteq Id
  /\ stopping \in BOOLEAN /\ done \in BOOLEAN
  /\ request \in [Slot -> Request \cup {None}]
  /\ \A i \in Id : records[i] # None => i \in issued /\ records[i].entries # <<>>

Kept == {i \in Id : records[i] # None}
Expired(i) == now >= records[i].expires

prune == [i \in Id |-> IF i \in Kept /\ Expired(i) THEN None ELSE records[i]]

\* Mutation of available: a section trusts the authority it was given.
availableOnce == TRUE

available == ~stopping

\* find: what has expired is dropped for whoever asks.
Findable(p, i) == i \in Kept /\ ~Expired(i) /\ records[i].owner = p
NotFound(p, i) ==
  /\ ~Findable(p, i)
  /\ records' = IF i \in Kept /\ Expired(i) THEN [records EXCEPT ![i] = None] ELSE records

(***************************************************************************)
(* add, for the entries that an operation commits together.  w: what they  *)
(* add to the document.                                                    *)
(***************************************************************************)
Weights(g) == Len(g)..(Len(g) * MaxEntryBytes)

\* Mutation of Fits: no reserve of bytes.
FitsWithoutReserve(r, g, w) ==
  Len(r.entries) + Len(g) <= Entries - 1 /\ r.size + w <= SessionBytes

\* An entry other than the last leaves room for it.
Fits(r, g, w) ==
  /\ Len(r.entries) + Len(g) <= Entries - 1
  /\ r.size + w <= SessionBytes - MaxEntryBytes

FitsClosed(r, w) == Len(r.entries) + 1 <= Entries /\ r.size + w <= SessionBytes

Added(r, g, w) == [r EXCEPT !.entries = @ \o g, !.size = @ + w]

Put(i, r) == records' = [records EXCEPT ![i] = r]
Full(i) == records' = [records EXCEPT ![i].limitReached = TRUE]

\* Mutation of commit: entry by entry, as far as they fit.
commitEach(i, r, g) ==
  \E n \in 1..Len(g) : \E w \in Weights(SubSeq(g, 1, n)) :
    LET h == SubSeq(g, 1, n) IN IF Fits(r, h, w) THEN Put(i, Added(r, h, w)) ELSE Full(i)

\* All the entries of g, or none of them and a record that says so.
commit(i, r, g) ==
  \E w \in Weights(g) : IF Fits(r, g, w) THEN Put(i, Added(r, g, w)) ELSE Full(i)

\* What is found and open is changed; else only what has expired is dropped.
Mutable(p, i) == Findable(p, i) /\ ~records[i].closed
Refused(p, i) == \/ NotFound(p, i)
                 \/ Findable(p, i) /\ records[i].closed /\ UNCHANGED records

mutate(p, i, kinds) ==
  \/ Refused(p, i)
  \/ Mutable(p, i) /\ \E k \in kinds : commit(i, records[i], <<k>>)

\* The record with the evidence d, which it may have already.
Retaining(r, d) ==
  IF d \in r.captures THEN {r}
  ELSE {[r EXCEPT !.captures = @ \cup {d}, !.size = @ + b] : b \in 1..MaxCaptureBytes}

retainEvidence(p, i, digests, groups) ==
  \/ Refused(p, i)
  \/ /\ Mutable(p, i)
     /\ \E d \in digests :
          IF d \notin records[i].captures /\ Cardinality(records[i].captures) >= MaxCaptures
          THEN Full(i)
          ELSE \E r \in Retaining(records[i], d), g \in groups : commit(i, r, g)

\* n gaps that qualify an action.
Gaps(n) == [k \in 1..n |-> "gap"]

(***************************************************************************)
(* The requests.                                                           *)
(***************************************************************************)
Free(h) == request' = [request EXCEPT ![h] = None]
Goes(h, at) == request' = [request EXCEPT ![h].at = at]

\* A slot of the gate is free, and the first call of the store is authorised.  Of the
\* identifiers, those that were given out: any other is not found.
Enters(h, op, p, i) ==
  /\ request[h] = None /\ available /\ op \in Permitted[p]
  /\ IF op = "create" THEN i = None ELSE i \in issued
  /\ request' = [request EXCEPT ![h] = [op |-> op, principal |-> p, id |-> i, at |-> "authorised"]]
  /\ UNCHANGED <<now, records, issued, stopping, done>>

\* Denied, invalid, out of time or cut by the shutdown.
Abandons(h) ==
  /\ request[h] # None
  /\ Free(h)
  /\ UNCHANGED <<now, records, issued, stopping, done>>

\* The section of an operation, which ends its request.
Section(h, op) ==
  /\ request[h] # None /\ request[h].op = op /\ request[h].at = "authorised" /\ available
  /\ Free(h)
  /\ UNCHANGED <<now, stopping, done>>

New(p) == [owner |-> p, expires |-> now + Retention, closed |-> FALSE, entries |-> <<>>,
           size |-> 0, captures |-> {}, limitReached |-> FALSE]

\* Mutation of opened: the record is there before its first entry.
openedLater(p) == {New(p)}

opened(p) ==
  {Added(New(p), <<"opened">>, w) : w \in {x \in Weights(<<"opened">>) : Fits(New(p), <<"opened">>, x)}}

Crowded(p) ==
  LET kept == {i \in Id : prune[i] # None} IN
  \/ Cardinality(kept) >= Sessions
  \/ Cardinality({i \in kept : NamespaceUID[prune[i].owner] = NamespaceUID[p]}) >= NamespaceSessions

\* A bound of the model: nothing is opened that would outlive it.
InTime == now + Retention <= MaxTime

Start(h) ==
  /\ Section(h, "create")
  /\ LET p == request[h].principal IN
     \/ records' = prune /\ UNCHANGED issued     \* no capacity, or no identifier
     \/ /\ ~Crowded(p) /\ InTime
        /\ \E i \in Id \ issued, r \in opened(p) :
             /\ records' = [prune EXCEPT ![i] = r]
             /\ issued' = issued \cup {i}

\* Append, and RecordTraceReference.
AppendEntry(h) ==
  /\ Section(h, "append")
  /\ mutate(request[h].principal, request[h].id, Notes)
  /\ UNCHANGED issued

Close(h) ==
  /\ Section(h, "close")
  /\ LET i == request[h].id IN
     \/ Refused(request[h].principal, i)
     \/ /\ Mutable(request[h].principal, i)
        /\ \E w \in Weights(<<"closed">>) :
             IF FitsClosed(records[i], w)
             THEN Put(i, [Added(records[i], <<"closed">>, w) EXCEPT !.closed = TRUE])
             ELSE Full(i)
  /\ UNCHANGED issued

\* The two captures are retained and of compatible schemas; what changed between
\* them is recorded with the comparison.
Comparable(r) ==
  \E a, b \in r.captures : {a, b} \subseteq Pods \/ {a, b} \subseteq History

CompareCaptures(h) ==
  /\ Section(h, "compare")
  /\ LET i == request[h].id IN
     \/ Refused(request[h].principal, i)
     \/ Mutable(request[h].principal, i) /\ UNCHANGED records
     \/ /\ Mutable(request[h].principal, i) /\ Comparable(records[i])
        /\ \E n \in 0..2 : commit(i, records[i], <<"compared">> \o Gaps(n))
  /\ UNCHANGED issued

\* Closed sessions too.
Delete(h) ==
  /\ Section(h, "delete")
  /\ LET i == request[h].id IN
     \/ NotFound(request[h].principal, i)
     \/ Findable(request[h].principal, i) /\ records' = [records EXCEPT ![i] = None]
  /\ UNCHANGED issued

\* Inspect, Export and CaptureData only look, but what has expired goes.
Inspect(h) ==
  /\ Section(h, "inspect")
  /\ \/ NotFound(request[h].principal, request[h].id)
     \/ Findable(request[h].principal, request[h].id) /\ UNCHANGED records
  /\ UNCHANGED issued

(***************************************************************************)
(* Captures and markers: a look at the session, the acquisition, and the   *)
(* record of the evidence or of the gap that it left.                      *)
(***************************************************************************)
Acquiring(h, at) ==
  /\ request[h] # None /\ request[h].op \in {"capture", "markers"} /\ request[h].at = at
  /\ available
  /\ UNCHANGED <<now, issued, stopping, done>>

Looks(h) ==
  /\ Acquiring(h, "authorised")
  /\ LET p == request[h].principal
         i == request[h].id
     IN \/ Refused(p, i) /\ Free(h)
        \/ Mutable(p, i) /\ UNCHANGED records /\ Goes(h, "acquiring")

Acquired(h) ==
  /\ Acquiring(h, "acquiring")
  /\ \E at \in {"recording", "reporting"} : Goes(h, at)
  /\ UNCHANGED records

\* The evidence is not what it should be: a gap is recorded instead.
Invalid(h) ==
  /\ Acquiring(h, "recording")
  /\ Goes(h, "reporting")
  /\ UNCHANGED records

RecordEvidence(h) ==
  /\ Acquiring(h, "recording")
  /\ Free(h)
  /\ LET p == request[h].principal
         i == request[h].id
     IN IF request[h].op = "capture"
        THEN retainEvidence(p, i, Pods, {<<"captured">>})
        ELSE retainEvidence(p, i, History, {<<"marked">> \o Gaps(n) : n \in 1..3})

RecordGap(h) ==
  /\ Acquiring(h, "reporting")
  /\ Free(h)
  /\ mutate(request[h].principal, request[h].id, {"gap"})

(***************************************************************************)
(* The sweeper, the shutdown and time.                                     *)
(***************************************************************************)
Sweep ==
  /\ ~done
  /\ records' = prune
  /\ UNCHANGED <<now, issued, stopping, done, request>>

Stop ==
  /\ ~stopping /\ stopping' = TRUE
  /\ UNCHANGED <<now, records, issued, done, request>>

Cleared ==
  /\ stopping /\ ~done
  /\ records' = [i \in Id |-> None] /\ done' = TRUE
  /\ UNCHANGED <<now, issued, stopping, request>>

Tick ==
  /\ now < MaxTime
  /\ now' = now + 1
  /\ UNCHANGED <<records, issued, stopping, done, request>>

Init ==
  /\ now = 0 /\ issued = {} /\ stopping = FALSE /\ done = FALSE
  /\ records = [i \in Id |-> None]
  /\ request = [h \in Slot |-> None]

Handler(h) ==
  \/ \E op \in Operation, p \in Principal, i \in Id \cup {None} : Enters(h, op, p, i)
  \/ Abandons(h) \/ Start(h) \/ AppendEntry(h) \/ Close(h) \/ CompareCaptures(h)
  \/ Delete(h) \/ Inspect(h) \/ Looks(h) \/ Acquired(h) \/ Invalid(h)
  \/ RecordEvidence(h) \/ RecordGap(h)

Next == (\E h \in Slot : Handler(h)) \/ Sweep \/ Stop \/ Cleared \/ Tick

Spec == Init /\ [][Next]_vars

(***************************************************************************)
(* Properties.                                                             *)
(***************************************************************************)
\* No sequence of calls exceeds a limit, and none leaves an open session that could
\* not be closed: the last entry and its bytes stay reserved.
LimitsHold ==
  /\ Cardinality(Kept) <= Sessions
  /\ \A p \in Principal :
       Cardinality({i \in Kept : NamespaceUID[records[i].owner] = NamespaceUID[p]}) <= NamespaceSessions
  /\ \A i \in Kept :
       /\ Cardinality(records[i].captures) <= MaxCaptures
       /\ records[i].size <= SessionBytes /\ Len(records[i].entries) <= Entries
       /\ ~records[i].closed => \A w \in Weights(<<"closed">>) : FitsClosed(records[i], w)

\* What the timeline sees of the records.
Log ==
  [i \in Id |->
     IF i \in Kept
     THEN [at |-> IF records[i].closed THEN "closed" ELSE "open",
           entries |-> records[i].entries, expires |-> records[i].expires]
     ELSE [at |-> IF i \in issued THEN "gone" ELSE "unused",
           entries |-> <<>>, expires |-> 0]]

\* A session is a log that only grows, by whole groups, until it is closed or its
\* first expiry comes, and that does not come back once it is gone.
Timeline == INSTANCE IncidentTimeline WITH log <- Log
ImplementsTimeline == Timeline!Spec

\* A call in flight cannot bring state back: after the shutdown nothing is retained.
ShutdownForgets == done => Kept = {}
=============================================================================
