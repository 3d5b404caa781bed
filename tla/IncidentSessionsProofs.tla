----------------------- MODULE IncidentSessionsProofs -----------------------
(***************************************************************************)
(* Theorems about IncidentSessions for every set of principals, slots and  *)
(* identifiers, every policy and all limits.                               *)
(*                                                                         *)
(* A step does one of three things to the records (Loses, Writes, Opens),  *)
(* which StepSeen finds out once; the limits, the forgetting and the       *)
(* refinement of IncidentTimeline follow from what it did.                 *)
(***************************************************************************)
EXTENDS IncidentSessions, FiniteSetTheorems, SequenceTheorems, TLAPS

\* A record within its limits, and able to take its last entry while it is open.
Well(r) ==
  /\ r \in Record /\ r.entries # <<>>
  /\ IsFiniteSet(r.captures) /\ Cardinality(r.captures) <= MaxCaptures
  /\ r.size <= SessionBytes /\ Len(r.entries) <= Entries
  /\ ~r.closed => Len(r.entries) <= Entries - 1 /\ r.size <= SessionBytes - MaxEntryBytes

RecordsWell == \A i \in Id : records[i] # None => Well(records[i])

Of(p) == {i \in Kept : NamespaceUID[records[i].owner] = NamespaceUID[p]}

Populated ==
  /\ IsFiniteSet(Kept) /\ Cardinality(Kept) <= Sessions
  /\ \A p \in Principal : Cardinality(Of(p)) <= NamespaceSessions

Ended == done => stopping /\ Kept = {}

\* A request that is not a create names the session it is about.
Named == \A h \in Slot : request[h] # None /\ request[h].op # "create" => request[h].id \in Id

IInv == TypeOK /\ RecordsWell /\ Populated /\ Ended /\ Named

-----------------------------------------------------------------------------
(* Records and their entries. *)

LEMMA GapsAreEntries ==
  ASSUME NEW n \in Nat
  PROVE  Gaps(n) \in Seq(Kind)
  BY IsASeq DEF Gaps, Kind

\* What the operations commit are sequences of entries.
LEMMA GroupsAreEntries ==
  ASSUME NEW g \in Timeline!Group
  PROVE  g \in Seq(Kind)
  <1>1. \A k \in Kind : <<k>> \in Seq(Kind)
    OBVIOUS
  <1>2. CASE \E k \in {"annotated", "trace-referenced", "captured", "gap"} : g = <<k>>
    BY <1>1, <1>2 DEF Kind
  <1>3. ASSUME NEW k \in {"marked", "compared"}, NEW n \in 0..3, g = <<k>> \o Gaps(n)
        PROVE  g \in Seq(Kind)
    <2>1. Gaps(n) \in Seq(Kind) /\ <<k>> \in Seq(Kind)
      BY <1>1, GapsAreEntries DEF Kind
    <2> QED BY <1>3, <2>1, ConcatProperties
  <1>4. CASE \/ \E n \in 1..3 : g = <<"marked">> \o Gaps(n)
             \/ \E n \in 0..2 : g = <<"compared">> \o Gaps(n)
    BY <1>3, <1>4
  <1> QED BY <1>2, <1>4 DEF Timeline!Group, Timeline!Gaps, Gaps

LEMMA AddedFields ==
  ASSUME NEW r \in Record, NEW g \in Seq(Kind), NEW w \in Nat
  PROVE  LET a == Added(r, g, w) IN
         /\ a \in Record
         /\ a.entries = r.entries \o g /\ a.size = r.size + w
         /\ a.owner = r.owner /\ a.expires = r.expires /\ a.closed = r.closed
         /\ a.captures = r.captures
  <1> DEFINE e == r.entries \o g
             z == r.size + w
             a == [r EXCEPT !.entries = e, !.size = z]
  <1>1. e \in Seq(Kind) /\ z \in Nat
    BY ConcatProperties DEF Record
  <1>2. Added(r, g, w) = a
    BY DEF Added
  <1> HIDE DEF e, z
  <1>3. a \in Record
    BY <1>1 DEF Record
  <1>4. /\ a.entries = e /\ a.size = z /\ a.owner = r.owner
        /\ a.expires = r.expires /\ a.closed = r.closed /\ a.captures = r.captures
    BY DEF Record
  <1> QED BY <1>2, <1>3, <1>4 DEF e, z

LEMMA WeightsAreNat ==
  ASSUME NEW g \in Seq(Kind), NEW w \in Weights(g)
  PROVE  w \in Nat
  BY LenProperties DEF Weights

\* What a record may become; its owner and its end of life stay.
Succeeds(q, r) ==
  /\ Well(q) /\ q.owner = r.owner /\ q.expires = r.expires
  /\ \/ q.entries = r.entries /\ q.closed = r.closed
     \/ /\ ~r.closed /\ ~q.closed
        /\ \E g \in Timeline!Group : q.entries = r.entries \o g
     \/ ~r.closed /\ q.closed /\ q.entries = r.entries \o <<"closed">>

LEMMA FullSucceeds ==
  ASSUME TypeOK, NEW i \in Kept, Well(records[i]), Full(i)
  PROVE  \E q : Succeeds(q, records[i]) /\ Put(i, q)
  <1> DEFINE r == records[i]
             q == [r EXCEPT !.limitReached = TRUE]
  <1>1. /\ q \in Record /\ q.owner = r.owner /\ q.expires = r.expires
        /\ q.closed = r.closed /\ q.entries = r.entries
        /\ q.size = r.size /\ q.captures = r.captures
    BY DEF Well, Record
  <1>2. Put(i, q)
    BY DEF Full, Put, TypeOK, Kept
  <1>3. Well(q)
    BY <1>1 DEF Well
  <1> QED BY <1>1, <1>2, <1>3 DEF Succeeds

\* All or nothing: commit extends the record, or flags it.
LEMMA CommitSucceeds ==
  ASSUME TypeOK, LimitsAssumption, NEW i \in Kept, Well(records[i]), ~records[i].closed,
         NEW r \in Record, r.entries = records[i].entries, r.owner = records[i].owner,
         r.expires = records[i].expires, ~r.closed,
         IsFiniteSet(r.captures), Cardinality(r.captures) <= MaxCaptures,
         NEW g \in Timeline!Group, commit(i, r, g)
  PROVE  \E q : Succeeds(q, records[i]) /\ Put(i, q)
  <1>1. PICK w \in Weights(g) :
          IF Fits(r, g, w) THEN Put(i, Added(r, g, w)) ELSE Full(i)
    BY DEF commit
  <1>2. CASE ~Fits(r, g, w)
    BY <1>1, <1>2, FullSucceeds
  <1>3. CASE Fits(r, g, w)
    <2> DEFINE q == Added(r, g, w)
    <2>1. g \in Seq(Kind) /\ w \in Nat
      BY GroupsAreEntries, WeightsAreNat
    <2>2. /\ q \in Record
          /\ q.entries = r.entries \o g /\ q.size = r.size + w
          /\ q.owner = r.owner /\ q.expires = r.expires /\ q.closed = r.closed
          /\ q.captures = r.captures
      BY <2>1, AddedFields
    <2>3. Put(i, q)
      BY <1>1, <1>3
    <2>4. r.entries \in Seq(Kind) /\ r.size \in Nat
      BY DEF Record
    <2>5. Len(q.entries) = Len(r.entries) + Len(g) /\ q.entries # <<>>
      BY <2>1, <2>2, <2>4, ConcatProperties, ConcatEqualIffEmpty DEF Well
    <2>6. Len(q.entries) <= Entries - 1 /\ q.size <= SessionBytes - MaxEntryBytes
      BY <1>3, <2>2, <2>5 DEF Fits
    <2>7. Len(q.entries) <= Entries /\ q.size <= SessionBytes
      <3>1. Len(q.entries) \in Nat /\ q.size \in Nat
        BY <2>2, LenProperties DEF Record
      <3> QED BY <2>6, <3>1 DEF LimitsAssumption
    <2> HIDE DEF q
    <2>8. Well(q)
      BY <2>2, <2>5, <2>6, <2>7 DEF Well
    <2> QED BY <2>2, <2>3, <2>8 DEF Succeeds
  <1> QED BY <1>2, <1>3

-----------------------------------------------------------------------------
(* What a step does to the records. *)

\* Records are only dropped.
Loses ==
  /\ records' \in [Id -> Record \cup {None}]
  /\ \A i \in Id : records'[i] = records[i] \/ records'[i] = None
  /\ UNCHANGED issued

\* One open or flagged record, which has not expired, moves on.
Writes ==
  /\ \E i \in Kept, q \in Record : ~Expired(i) /\ Succeeds(q, records[i]) /\ Put(i, q)
  /\ UNCHANGED <<issued, now>>

\* What has expired makes room for a new record.
Opens ==
  /\ \E p \in Principal, i \in Id \ issued, q \in Record :
       /\ ~Crowded(p)
       /\ Well(q) /\ q.owner = p /\ q.entries = <<"opened">>
       /\ q.expires = now + Retention /\ ~q.closed
       /\ records' = [prune EXCEPT ![i] = q] /\ issued' = issued \cup {i}
  /\ UNCHANGED now

LEMMA PruneLoses ==
  ASSUME TypeOK
  PROVE  /\ prune \in [Id -> Record \cup {None}]
         /\ \A i \in Id : prune[i] = records[i] \/ prune[i] = None
  BY DEF TypeOK, prune

LEMMA NotFoundLoses ==
  ASSUME TypeOK, NEW p, NEW i \in Id, NotFound(p, i), UNCHANGED issued
  PROVE  Loses
  <1>1. CASE records' = [records EXCEPT ![i] = None]
    BY <1>1 DEF Loses, TypeOK
  <1>2. CASE records' = records
    BY <1>2 DEF Loses, TypeOK
  <1> QED BY <1>1, <1>2 DEF NotFound

LEMMA RefusedLoses ==
  ASSUME TypeOK, NEW p, NEW i \in Id, Refused(p, i), UNCHANGED issued
  PROVE  Loses
  <1>1. CASE UNCHANGED records
    BY <1>1 DEF Loses, TypeOK
  <1> QED BY <1>1, NotFoundLoses DEF Refused

\* mutate drops what has expired, or adds one entry.
LEMMA MutateSeen ==
  ASSUME TypeOK, RecordsWell, NEW p, NEW i \in Id,
         NEW kinds \in SUBSET {"annotated", "trace-referenced", "captured", "gap"},
         mutate(p, i, kinds), UNCHANGED <<issued, now>>
  PROVE  Loses \/ Writes
  <1> USE LimitsAssumption
  <1>1. CASE Refused(p, i)
    BY <1>1, RefusedLoses
  <1>2. ASSUME Mutable(p, i), NEW k \in kinds, commit(i, records[i], <<k>>)
        PROVE  Writes
    <2>1. i \in Kept /\ ~Expired(i) /\ ~records[i].closed /\ Well(records[i])
      BY <1>2 DEF Mutable, Findable, Kept, RecordsWell
    <2>2. <<k>> \in Timeline!Group
      BY DEF Timeline!Group
    <2>3. \E q : Succeeds(q, records[i]) /\ Put(i, q)
      BY <1>2, <2>1, <2>2, CommitSucceeds DEF Well
    <2> QED BY <2>1, <2>3 DEF Writes, Succeeds, Well
  <1> QED BY <1>1, <1>2 DEF mutate

\* The record that holds one capture more.
LEMMA RetainingFields ==
  ASSUME NEW r, Well(r), NEW d \in Digest,
         d \notin r.captures => Cardinality(r.captures) < MaxCaptures,
         NEW e \in Retaining(r, d)
  PROVE  /\ e \in Record /\ e.entries = r.entries /\ e.owner = r.owner
         /\ e.expires = r.expires /\ e.closed = r.closed
         /\ IsFiniteSet(e.captures) /\ Cardinality(e.captures) <= MaxCaptures
  <1> USE LimitsAssumption
  <1>1. CASE d \in r.captures
    BY <1>1 DEF Retaining, Well
  <1>2. CASE d \notin r.captures
    <2>1. PICK b \in 1..MaxCaptureBytes :
            e = [r EXCEPT !.captures = @ \cup {d}, !.size = @ + b]
      BY <1>2 DEF Retaining
    <2> DEFINE c == r.captures \cup {d}
               z == r.size + b
    <2>2. r \in Record /\ c \in SUBSET Digest /\ z \in Nat
      BY DEF Well, Record
    <2>3. e = [r EXCEPT !.captures = c, !.size = z]
      BY <2>1
    <2>4. IsFiniteSet(c) /\ Cardinality(c) <= MaxCaptures
      <3>1. IsFiniteSet(r.captures) /\ Cardinality(r.captures) \in Nat
        BY FS_CardinalityType DEF Well
      <3>2. IsFiniteSet(c) /\ Cardinality(c) = Cardinality(r.captures) + 1
        BY <1>2, <3>1, FS_AddElement
      <3> QED BY <1>2, <3>1, <3>2
    <2> HIDE DEF c, z
    <2>5. e \in Record /\ e.captures = c
      BY <2>2, <2>3 DEF Record
    <2>6. /\ e.entries = r.entries /\ e.owner = r.owner /\ e.expires = r.expires
          /\ e.closed = r.closed
      BY <2>2, <2>3 DEF Record
    <2> QED BY <2>4, <2>5, <2>6
  <1> QED BY <1>1, <1>2

LEMMA RetainSeen ==
  ASSUME TypeOK, RecordsWell, NEW p, NEW i \in Id, NEW digests \in SUBSET Digest,
         NEW groups \in SUBSET Timeline!Group,
         retainEvidence(p, i, digests, groups), UNCHANGED <<issued, now>>
  PROVE  Loses \/ Writes
  <1> USE LimitsAssumption
  <1>1. CASE Refused(p, i)
    BY <1>1, RefusedLoses
  <1>2. CASE ~Refused(p, i)
    <2>1. PICK d \in digests :
            IF d \notin records[i].captures /\ Cardinality(records[i].captures) >= MaxCaptures
            THEN Full(i)
            ELSE \E r \in Retaining(records[i], d), g \in groups : commit(i, r, g)
      BY <1>2 DEF retainEvidence
    <2>2. i \in Kept /\ ~Expired(i) /\ ~records[i].closed /\ Well(records[i])
      BY <1>2 DEF retainEvidence, Mutable, Findable, Kept, RecordsWell
    <2>3. \E q : Succeeds(q, records[i]) /\ Put(i, q)
      <3>1. CASE Full(i)
        BY <2>2, <3>1, FullSucceeds
      <3>2. ASSUME d \notin records[i].captures => ~(Cardinality(records[i].captures) >= MaxCaptures),
                   NEW r \in Retaining(records[i], d), NEW g \in groups, commit(i, r, g)
            PROVE  \E q : Succeeds(q, records[i]) /\ Put(i, q)
        <4>1. Cardinality(records[i].captures) \in Nat
          BY <2>2, FS_CardinalityType DEF Well
        <4>2. d \notin records[i].captures => Cardinality(records[i].captures) < MaxCaptures
          BY <3>2, <4>1
        <4>3. /\ r \in Record /\ r.entries = records[i].entries
              /\ r.owner = records[i].owner
              /\ r.expires = records[i].expires /\ r.closed = records[i].closed
              /\ IsFiniteSet(r.captures) /\ Cardinality(r.captures) <= MaxCaptures
          BY <2>2, <4>2, RetainingFields
        <4> QED BY <2>2, <3>2, <4>3, CommitSucceeds
      <3> QED BY <2>1, <3>1, <3>2
    <2> QED BY <2>2, <2>3 DEF Writes, Succeeds, Well
  <1> QED BY <1>1, <1>2

\* Close adds the entry that was kept in reserve.
LEMMA CloseSeen ==
  ASSUME IInv, NEW h \in Slot, Close(h)
  PROVE  Loses \/ Writes
  <1> DEFINE p == request[h].principal
             i == request[h].id
             r == records[i]
  <1>1. i \in Id /\ UNCHANGED <<issued, now>> /\ LimitsAssumption
    BY LimitsAssumption DEF IInv, Named, Close, Section
  <1>2. CASE Refused(p, i)
    BY <1>1, <1>2, RefusedLoses DEF IInv
  <1>3. CASE ~Refused(p, i)
    <2>1. /\ Mutable(p, i)
          /\ \E w \in Weights(<<"closed">>) :
               IF FitsClosed(r, w)
               THEN Put(i, [Added(r, <<"closed">>, w) EXCEPT !.closed = TRUE])
               ELSE Full(i)
      BY <1>3 DEF Close
    <2>2. i \in Kept /\ ~Expired(i) /\ ~r.closed /\ Well(r)
      BY <1>1, <2>1 DEF Mutable, Findable, Kept, IInv, RecordsWell
    <2>3. \E q : Succeeds(q, r) /\ Put(i, q)
      <3>1. CASE Full(i)
        BY <2>2, <3>1, FullSucceeds DEF IInv
      <3>2. ASSUME NEW w \in Weights(<<"closed">>), FitsClosed(r, w),
                   Put(i, [Added(r, <<"closed">>, w) EXCEPT !.closed = TRUE])
            PROVE  \E q : Succeeds(q, r) /\ Put(i, q)
        <4> DEFINE a == Added(r, <<"closed">>, w)
                   q == [a EXCEPT !.closed = TRUE]
        <4>1. <<"closed">> \in Seq(Kind) /\ Len(<<"closed">>) = 1
          BY DEF Kind
        <4>2. w \in Nat
          BY <4>1, WeightsAreNat
        <4>3. /\ a \in Record
              /\ a.entries = r.entries \o <<"closed">> /\ a.size = r.size + w
              /\ a.owner = r.owner /\ a.expires = r.expires /\ a.captures = r.captures
          BY <2>2, <4>1, <4>2, AddedFields DEF Well
        <4>4. Put(i, q)
          BY <3>2
        <4> HIDE DEF a
        <4>5. /\ q \in Record /\ q.closed = TRUE /\ q.entries = a.entries /\ q.size = a.size
              /\ q.owner = a.owner /\ q.expires = a.expires /\ q.captures = a.captures
          BY <4>3 DEF Record
        <4> HIDE DEF q
        <4>6. r.entries \in Seq(Kind)
          BY <2>2 DEF Well, Record
        <4>7. Len(q.entries) = Len(r.entries) + 1 /\ q.entries # <<>>
          BY <4>1, <4>3, <4>5, <4>6, ConcatProperties, ConcatEqualIffEmpty
        <4>8. Well(q)
          BY <2>2, <3>2, <4>3, <4>5, <4>7 DEF Well, FitsClosed
        <4>9. Succeeds(q, r)
          BY <2>2, <4>3, <4>5, <4>8 DEF Succeeds
        <4> QED BY <4>4, <4>9
      <3> QED BY <2>1, <3>1, <3>2
    <2> QED BY <1>1, <2>2, <2>3 DEF Writes, Succeeds, Well
  <1> QED BY <1>2, <1>3

LEMMA StartSeen ==
  ASSUME IInv, NEW h \in Slot, Start(h)
  PROVE  Loses \/ Opens
  <1> USE LimitsAssumption
  <1> DEFINE p == request[h].principal
  <1>1. p \in Principal /\ UNCHANGED now
    BY DEF Start, Section, IInv, TypeOK, Request
  <1>2. CASE records' = prune /\ UNCHANGED issued
    BY <1>2, PruneLoses DEF Loses, IInv
  <1>3. ASSUME ~Crowded(p), NEW i \in Id \ issued, NEW q \in opened(p),
               records' = [prune EXCEPT ![i] = q], issued' = issued \cup {i}
        PROVE  Opens
    <2>1. PICK w \in Weights(<<"opened">>) :
            Fits(New(p), <<"opened">>, w) /\ q = Added(New(p), <<"opened">>, w)
      BY DEF opened
    <2>2. <<"opened">> \in Seq(Kind) /\ Len(<<"opened">>) = 1
      BY DEF Kind
    <2>3. w \in Nat
      BY <2>2, WeightsAreNat
    <2> DEFINE n == New(p)
               g == <<"opened">>
    <2>4. /\ n \in Record /\ n.owner = p /\ n.entries = <<>>
          /\ n.size = 0 /\ ~n.closed /\ n.captures = {}
          /\ n.expires = now + Retention
      BY <1>1 DEF New, Record, IInv, TypeOK
    <2>a. q = Added(n, g, w) /\ Fits(n, g, w) /\ g \in Seq(Kind) /\ Len(g) = 1 /\ g = <<"opened">>
      BY <2>1, <2>2
    <2> HIDE DEF n, g, p
    <2>5. /\ q \in Record
          /\ q.entries = <<>> \o g /\ q.size = 0 + w
          /\ q.owner = p /\ q.expires = now + Retention /\ ~q.closed
          /\ q.captures = {}
      <3> DEFINE a == Added(n, g, w)
      <3>1. n \in Record /\ g \in Seq(Kind) /\ w \in Nat
        BY <2>3, <2>4, <2>a
      <3>2. /\ a \in Record
            /\ a.entries = n.entries \o g /\ a.size = n.size + w
            /\ a.owner = n.owner /\ a.expires = n.expires /\ a.closed = n.closed
            /\ a.captures = n.captures
        BY ONLY <3>1, AddedFields
      <3>3. q = a
        BY <2>a
      <3> HIDE DEF a
      <3> QED BY <2>4, <3>2, <3>3
    <2>6. q.entries = <<"opened">>
      BY <2>5, <2>a, ConcatEmptySeq
    <2>7. Len(q.entries) <= Entries - 1 /\ q.size <= SessionBytes - MaxEntryBytes
      <3>1. Len(n.entries) = 0
        BY <2>4, EmptySeq
      <3> QED BY <2>3, <2>4, <2>5, <2>6, <2>a, <3>1 DEF Fits
    <2>8. IsFiniteSet(q.captures) /\ Cardinality(q.captures) <= MaxCaptures
      BY <2>5, FS_EmptySet
    <2>9. q.entries # <<>> /\ Len(q.entries) <= Entries /\ q.size <= SessionBytes
      BY <2>3, <2>5, <2>6, <2>7, <2>a
    <2>10. Well(q)
      BY <2>5, <2>7, <2>8, <2>9 DEF Well
    <2> QED BY <1>1, <1>3, <2>5, <2>6, <2>10 DEF Opens, p
  <1> QED BY <1>2, <1>3 DEF Start

LEMMA StepSeen ==
  ASSUME IInv, [Next]_vars
  PROVE  Loses \/ Writes \/ Opens
  <1> USE LimitsAssumption
  <1>1. TypeOK /\ RecordsWell
    BY DEF IInv
  <1>2. CASE UNCHANGED <<records, issued>>
    BY <1>1, <1>2 DEF Loses, TypeOK
  <1>3. CASE records' = prune /\ UNCHANGED issued
    BY <1>1, <1>3, PruneLoses DEF Loses
  <1>4. CASE Cleared
    BY <1>1, <1>4 DEF Cleared, Loses
  <1>5. ASSUME NEW h \in Slot, Handler(h)
        PROVE  Loses \/ Writes \/ Opens
    <2> DEFINE p == request[h].principal
               i == request[h].id
    <2>1. CASE \/ \E op \in Operation, q \in Principal, j \in Id \cup {None} : Enters(h, op, q, j)
               \/ Abandons(h) \/ Acquired(h) \/ Invalid(h)
      BY <1>2, <2>1 DEF Enters, Abandons, Acquired, Invalid, Acquiring
    <2>2. CASE Start(h)
      BY <2>2, StartSeen
    <2>3. CASE Close(h)
      BY <2>3, CloseSeen
    <2>4. CASE AppendEntry(h)
      <3>1. i \in Id /\ mutate(p, i, Notes) /\ UNCHANGED <<issued, now>>
        BY <2>4 DEF AppendEntry, Section, IInv, Named
      <3>2. Notes \in SUBSET {"annotated", "trace-referenced", "captured", "gap"}
        BY DEF LimitsAssumption
      <3> QED BY <1>1, <3>1, <3>2, MutateSeen
    <2>5. CASE RecordGap(h)
      <3>1. i \in Id /\ mutate(p, i, {"gap"}) /\ UNCHANGED <<issued, now>>
        BY <2>5 DEF RecordGap, Acquiring, IInv, Named
      <3> QED BY <1>1, <3>1, MutateSeen
    <2>6. CASE CompareCaptures(h)
      <3>1. i \in Id /\ UNCHANGED <<issued, now>>
        BY <2>6 DEF CompareCaptures, Section, IInv, Named
      <3>2. CASE Refused(p, i)
        BY <1>1, <3>1, <3>2, RefusedLoses
      <3>3. CASE UNCHANGED records
        BY <1>2, <3>1, <3>3
      <3>4. ASSUME Mutable(p, i), NEW n \in 0..2,
                   commit(i, records[i], <<"compared">> \o Gaps(n))
            PROVE  Writes
        <4>1. i \in Kept /\ ~Expired(i) /\ ~records[i].closed /\ Well(records[i])
          BY <1>1, <3>4 DEF Mutable, Findable, Kept, RecordsWell
        <4>2. <<"compared">> \o Gaps(n) \in Timeline!Group
          BY DEF Timeline!Group, Timeline!Gaps, Gaps
        <4>3. \E q : Succeeds(q, records[i]) /\ Put(i, q)
          BY <1>1, <3>4, <4>1, <4>2, CommitSucceeds DEF Well
        <4> QED BY <3>1, <4>1, <4>3 DEF Writes, Succeeds, Well
      <3> QED BY <2>6, <3>2, <3>3, <3>4 DEF CompareCaptures
    <2>7. CASE Delete(h)
      <3>1. i \in Id /\ UNCHANGED <<issued, now>>
        BY <2>7 DEF Delete, Section, IInv, Named
      <3>2. CASE NotFound(p, i)
        BY <1>1, <3>1, <3>2, NotFoundLoses
      <3>3. CASE records' = [records EXCEPT ![i] = None]
        BY <1>1, <3>1, <3>3 DEF Loses, TypeOK
      <3> QED BY <2>7, <3>2, <3>3 DEF Delete
    <2>8. CASE Inspect(h)
      <3>1. i \in Id /\ UNCHANGED <<issued, now>>
        BY <2>8 DEF Inspect, Section, IInv, Named
      <3>2. CASE NotFound(p, i)
        BY <1>1, <3>1, <3>2, NotFoundLoses
      <3> QED BY <1>2, <2>8, <3>1, <3>2 DEF Inspect
    <2>9. CASE Looks(h)
      <3>1. i \in Id /\ UNCHANGED <<issued, now>>
        BY <2>9 DEF Looks, Acquiring, IInv, Named
      <3>2. CASE Refused(p, i)
        BY <1>1, <3>1, <3>2, RefusedLoses
      <3> QED BY <1>2, <2>9, <3>1, <3>2 DEF Looks
    <2>10. CASE RecordEvidence(h)
      <3>1. i \in Id /\ UNCHANGED <<issued, now>>
        BY <2>10 DEF RecordEvidence, Acquiring, IInv, Named
      <3>2. \/ retainEvidence(p, i, Pods, {<<"captured">>})
            \/ retainEvidence(p, i, History, {<<"marked">> \o Gaps(n) : n \in 1..3})
        BY <2>10 DEF RecordEvidence
      <3>3. Pods \in SUBSET Digest /\ History \in SUBSET Digest
        BY DEF Digest
      <3>4. {<<"captured">>} \in SUBSET Timeline!Group
        BY DEF Timeline!Group
      <3>5. {<<"marked">> \o Gaps(n) : n \in 1..3} \in SUBSET Timeline!Group
        BY DEF Timeline!Group, Timeline!Gaps, Gaps
      <3> QED BY <1>1, <3>1, <3>2, <3>3, <3>4, <3>5, RetainSeen
    <2> QED BY <1>5, <2>1, <2>2, <2>3, <2>4, <2>5, <2>6, <2>7, <2>8, <2>9, <2>10 DEF Handler
  <1>6. CASE Sweep \/ Stop \/ Tick \/ UNCHANGED vars
    BY <1>2, <1>3, <1>6 DEF Sweep, Stop, Tick, vars
  <1> QED BY <1>4, <1>5, <1>6 DEF Next

-----------------------------------------------------------------------------
(* The inductive invariant. *)

\* The clock, the requests and the flags of the shutdown.
LEMMA ControlTyped ==
  ASSUME IInv, [Next]_vars
  PROVE  /\ now' \in Nat /\ stopping' \in BOOLEAN /\ done' \in BOOLEAN
         /\ request' \in [Slot -> Request \cup {None}]
         /\ Named'
  <1> USE NoneAssumption
  <1> DEFINE Typed == /\ now' \in Nat /\ stopping' \in BOOLEAN /\ done' \in BOOLEAN
                      /\ request' \in [Slot -> Request \cup {None}]
                      /\ Named'
  <1>1. /\ now \in Nat /\ stopping \in BOOLEAN /\ done \in BOOLEAN
        /\ request \in [Slot -> Request \cup {None}]
        /\ Named /\ issued \subseteq Id
    BY DEF IInv, TypeOK
  <1>2. ASSUME UNCHANGED request, now' \in Nat, stopping' \in BOOLEAN, done' \in BOOLEAN
        PROVE  Typed
    BY <1>1, <1>2 DEF Named
  <1>3. CASE Sweep \/ Stop \/ Cleared \/ Tick \/ UNCHANGED vars
    <2>1. UNCHANGED request
      BY <1>3 DEF Sweep, Stop, Cleared, Tick, vars
    <2>2. now' \in Nat
      BY <1>1, <1>3 DEF Sweep, Stop, Cleared, Tick, vars
    <2>3. stopping' \in BOOLEAN /\ done' \in BOOLEAN
      BY <1>1, <1>3 DEF Sweep, Stop, Cleared, Tick, vars
    <2> QED BY <1>2, <2>1, <2>2, <2>3
  <1>4. ASSUME NEW h \in Slot, Free(h), UNCHANGED <<now, stopping, done>>
        PROVE  Typed
    BY <1>1, <1>4 DEF Free, Named
  <1>5. ASSUME NEW h \in Slot, NEW at \in {"acquiring", "recording", "reporting"},
               request[h] # None, Goes(h, at), UNCHANGED <<now, stopping, done>>
        PROVE  Typed
    <2> DEFINE m == request[h]
               n == [m EXCEPT !.at = at]
    <2>1. m \in Request /\ request' = [request EXCEPT ![h] = n]
      BY <1>1, <1>5 DEF Goes
    <2>2. n \in Request /\ n.op = m.op /\ n.id = m.id
      BY <2>1 DEF Request
    <2> HIDE DEF n
    <2> QED BY <1>1, <1>5, <2>1, <2>2 DEF Named
  <1>6. ASSUME NEW h \in Slot, NEW op \in Operation, NEW p \in Principal,
               NEW i \in Id \cup {None}, Enters(h, op, p, i)
        PROVE  Typed
    <2> DEFINE n == [op |-> op, principal |-> p, id |-> i, at |-> "authorised"]
    <2>1. n \in Request /\ n.op = op /\ n.id = i
      BY DEF Request
    <2>2. request' = [request EXCEPT ![h] = n] /\ UNCHANGED <<now, stopping, done>>
      BY <1>6 DEF Enters
    <2>3. op # "create" => i \in Id
      BY <1>1, <1>6 DEF Enters
    <2> HIDE DEF n
    <2> QED BY <1>1, <2>1, <2>2, <2>3 DEF Named
  <1>7. ASSUME NEW h \in Slot, Handler(h)
        PROVE  Typed
    <2>1. CASE \E op \in Operation, p \in Principal, i \in Id \cup {None} : Enters(h, op, p, i)
      BY <1>6, <2>1
    <2>2. CASE \/ Abandons(h) \/ Start(h) \/ AppendEntry(h) \/ Close(h) \/ CompareCaptures(h)
               \/ Delete(h) \/ Inspect(h) \/ RecordEvidence(h) \/ RecordGap(h)
      <3>1. Free(h) /\ UNCHANGED <<now, stopping, done>>
        BY <2>2 DEF Abandons, Start, AppendEntry, Close, CompareCaptures, Delete, Inspect,
                    RecordEvidence, RecordGap, Section, Acquiring
      <3> QED BY <1>4, <3>1
    <2>3. CASE Looks(h) \/ Acquired(h) \/ Invalid(h)
      <3>1. /\ request[h] # None /\ UNCHANGED <<now, stopping, done>>
            /\ Free(h) \/ \E at \in {"acquiring", "recording", "reporting"} : Goes(h, at)
        BY <2>3 DEF Looks, Acquired, Invalid, Acquiring
      <3> QED BY <1>4, <1>5, <3>1
    <2> QED BY <1>7, <2>1, <2>2, <2>3 DEF Handler
  <1>8. Typed
    BY <1>3, <1>7 DEF Next
  <1> QED BY <1>8

LEMMA WellStep ==
  ASSUME IInv, [Next]_vars
  PROVE  /\ RecordsWell' /\ issued' \subseteq Id
         /\ records' \in [Id -> Record \cup {None}]
         /\ \A i \in Id : records'[i] # None => i \in issued'
  <1>1. /\ RecordsWell /\ issued \subseteq Id /\ records \in [Id -> Record \cup {None}]
        /\ \A i \in Id : records[i] # None => i \in issued
    BY DEF IInv, TypeOK
  <1>2. CASE Loses
    BY <1>1, <1>2 DEF Loses, RecordsWell
  <1>3. CASE Writes
    <2>1. PICK i \in Kept, q \in Record : Succeeds(q, records[i]) /\ Put(i, q)
      BY <1>3 DEF Writes
    <2>2. Well(q) /\ q \in Record /\ i \in Id /\ records[i] # None /\ issued' = issued
      BY <1>3, <2>1 DEF Succeeds, Well, Kept, Writes
    <2>3. records' = [records EXCEPT ![i] = q]
      BY <2>1 DEF Put
    <2>4. RecordsWell'
      BY <1>1, <2>2, <2>3 DEF RecordsWell
    <2> QED BY <1>1, <2>2, <2>3, <2>4
  <1>4. CASE Opens
    <2>1. PICK i \in Id \ issued, q \in Record :
            /\ Well(q) /\ records' = [prune EXCEPT ![i] = q]
            /\ issued' = issued \cup {i}
      BY <1>4 DEF Opens
    <2>2. q \in Record
      BY <2>1 DEF Well
    <2>3. /\ prune \in [Id -> Record \cup {None}]
          /\ \A j \in Id : prune[j] = records[j] \/ prune[j] = None
      BY PruneLoses DEF IInv
    <2>4. RecordsWell'
      BY <1>1, <2>1, <2>3 DEF RecordsWell
    <2> QED BY <1>1, <2>1, <2>2, <2>3, <2>4
  <1> QED BY <1>2, <1>3, <1>4, StepSeen

\* A set that only loses elements keeps within a limit.
LEMMA Fewer ==
  ASSUME NEW S, NEW T \in SUBSET S, IsFiniteSet(S), NEW limit \in Nat, Cardinality(S) <= limit
  PROVE  IsFiniteSet(T) /\ Cardinality(T) <= limit
  BY FS_Subset, FS_CardinalityType

\* A set below a limit may gain an element.
LEMMA OneMore ==
  ASSUME NEW S, NEW x, NEW T \in SUBSET (S \cup {x}), IsFiniteSet(S),
         NEW limit \in Nat, ~(Cardinality(S) >= limit)
  PROVE  IsFiniteSet(T) /\ Cardinality(T) <= limit
  <1>1. /\ IsFiniteSet(S \cup {x}) /\ Cardinality(S) \in Nat
        /\ Cardinality(S \cup {x}) = IF x \in S THEN Cardinality(S) ELSE Cardinality(S) + 1
    BY FS_AddElement, FS_CardinalityType
  <1>2. Cardinality(S \cup {x}) <= limit
    BY <1>1
  <1> QED BY <1>1, <1>2, Fewer

\* Only Start adds a record, after counting what pruning has left.
LEMMA PopulatedStep ==
  ASSUME IInv, [Next]_vars
  PROVE  Populated'
  <1>1. Populated /\ Sessions \in Nat /\ NamespaceSessions \in Nat
    BY LimitsAssumption DEF IInv
  <1>2. ASSUME Kept' \subseteq Kept,
               \A i \in Kept' : records'[i].owner = records[i].owner
        PROVE  Populated'
    <2>1. IsFiniteSet(Kept') /\ Cardinality(Kept') <= Sessions
      BY <1>1, <1>2, Fewer DEF Populated
    <2>2. ASSUME NEW p \in Principal
          PROVE  Cardinality(Of(p)') <= NamespaceSessions
      <3>1. Of(p)' \in SUBSET Of(p) /\ Of(p) \in SUBSET Kept
        BY <1>2 DEF Of
      <3>2. IsFiniteSet(Of(p)) /\ Cardinality(Of(p)) <= NamespaceSessions
        BY <1>1, <3>1, FS_Subset DEF Populated
      <3> QED BY <1>1, <3>1, <3>2, Fewer
    <2> QED BY <2>1, <2>2 DEF Populated
  <1>3. CASE Loses
    BY <1>2, <1>3 DEF Loses, Kept
  <1>4. CASE Writes
    <2>1. PICK i \in Kept, q \in Record : Succeeds(q, records[i]) /\ Put(i, q)
      BY <1>4 DEF Writes
    <2>2. /\ q.owner = records[i].owner /\ records' = [records EXCEPT ![i] = q]
          /\ records \in [Id -> Record \cup {None}]
      BY <2>1 DEF Succeeds, Put, IInv, TypeOK
    <2> QED BY <1>2, <2>2 DEF Kept
  <1>5. CASE Opens
    <2>1. PICK p \in Principal, i \in Id \ issued, q \in Record :
            ~Crowded(p) /\ q.owner = p /\ records' = [prune EXCEPT ![i] = q]
      BY <1>5 DEF Opens
    <2>2. /\ prune \in [Id -> Record \cup {None}]
          /\ \A j \in Id : prune[j] = records[j] \/ prune[j] = None
      BY PruneLoses DEF IInv
    <2> DEFINE kept == {j \in Id : prune[j] # None}
               There(o) == {j \in kept : NamespaceUID[prune[j].owner] = NamespaceUID[o]}
    <2>3. /\ ~(Cardinality(kept) >= Sessions)
          /\ ~(Cardinality(There(p)) >= NamespaceSessions)
      BY <2>1 DEF Crowded
    <2>4. kept \in SUBSET Kept /\ \A o \in Principal : There(o) \in SUBSET Of(o)
      BY <2>2 DEF Kept, Of
    <2>5. IsFiniteSet(kept) /\ \A o \in Principal : IsFiniteSet(Of(o)) /\ IsFiniteSet(There(o))
      <3>1. \A o \in Principal : Of(o) \in SUBSET Kept
        BY DEF Of
      <3> HIDE DEF kept, There
      <3> QED BY <1>1, <2>4, <3>1, FS_Subset DEF Populated
    <2>6. Kept' \in SUBSET (kept \cup {i})
      BY <2>1, <2>2 DEF Kept
    <2>7. IsFiniteSet(Kept') /\ Cardinality(Kept') <= Sessions
      <3> HIDE DEF kept
      <3> QED BY <1>1, <2>3, <2>5, <2>6, OneMore
    <2>8. ASSUME NEW o \in Principal
          PROVE  Cardinality(Of(o)') <= NamespaceSessions
      <3>1. CASE NamespaceUID[o] = NamespaceUID[p]
        <4>1. There(o) = There(p)
          BY <3>1
        <4>2. Of(o)' \in SUBSET (There(o) \cup {i})
          BY <2>1, <2>2, <2>6 DEF Of
        <4> HIDE DEF There
        <4> QED BY <1>1, <2>3, <2>5, <4>1, <4>2, OneMore
      <3>2. CASE NamespaceUID[o] # NamespaceUID[p]
        <4>1. Of(o)' \in SUBSET Of(o)
          BY <2>1, <2>2, <3>2 DEF Of, Kept
        <4> QED BY <1>1, <2>5, <4>1, Fewer DEF Populated
      <3> QED BY <3>1, <3>2
    <2> QED BY <2>7, <2>8 DEF Populated
  <1> QED BY <1>3, <1>4, <1>5, StepSeen

\* A section that begins after the shutdown finds the store unavailable.
LEMMA EndedStep ==
  ASSUME IInv, [Next]_vars
  PROVE  Ended'
  <1>1. CASE Cleared
    BY <1>1 DEF Cleared, Ended, Kept
  <1>2. CASE ~Cleared /\ ~done
    <2>1. done' = done
      BY <1>2 DEF Next, Handler, Enters, Abandons, Start, AppendEntry, Close, CompareCaptures,
                  Delete, Inspect, RecordEvidence, RecordGap, Section, Acquiring, Looks, Acquired,
                  Invalid, Sweep, Stop, Tick, vars
    <2> QED BY <1>2, <2>1 DEF Ended
  <1>3. CASE ~Cleared /\ done
    <2>1. stopping /\ Kept = {}
      BY <1>3 DEF IInv, Ended
    <2>2. UNCHANGED <<records, stopping>>
      BY <1>3, <2>1 DEF Next, Handler, Enters, Abandons, Start, AppendEntry, Close,
                  CompareCaptures, Delete, Inspect, RecordEvidence, RecordGap, Section, Acquiring,
                  Looks, Acquired, Invalid, Sweep, Stop, Tick, vars, available
    <2> QED BY <2>1, <2>2 DEF Ended, Kept
  <1> QED BY <1>1, <1>2, <1>3

LEMMA IInit == Init => IInv
  <1> SUFFICES ASSUME Init PROVE IInv
    OBVIOUS
  <1>1. Kept = {} /\ \A p \in Principal : Of(p) = {}
    BY DEF Init, Kept, Of
  <1>2. TypeOK /\ RecordsWell /\ Ended /\ Named
    BY <1>1 DEF Init, TypeOK, RecordsWell, Ended, Named
  <1>3. Populated
    BY <1>1, FS_EmptySet, LimitsAssumption DEF Populated
  <1> QED BY <1>2, <1>3 DEF IInv

LEMMA INext == IInv /\ [Next]_vars => IInv'
  <1> SUFFICES ASSUME IInv, [Next]_vars PROVE IInv'
    OBVIOUS
  <1>1. \A i \in Id : records'[i] # None => records'[i].entries # <<>>
    BY WellStep DEF RecordsWell, Well
  <1>2. TypeOK'
    BY <1>1, ControlTyped, WellStep DEF TypeOK
  <1> QED BY <1>2, ControlTyped, WellStep, PopulatedStep, EndedStep DEF IInv

LEMMA IInvariance == Spec => []IInv
  BY IInit, INext, PTL DEF Spec

-----------------------------------------------------------------------------
(* Theorems. *)

\* Every record that can be found has the shape that the handlers rely on, its first
\* entry included, and a request names a session.
THEOREM SessionsTypeCorrect == Spec => []TypeOK
  BY IInvariance, PTL DEF IInv

\* add, start and retainEvidence keep every limit, and an open session can be closed.
THEOREM SessionLimitsHold == Spec => []LimitsHold
  <1>1. IInv => LimitsHold
    <2> SUFFICES ASSUME IInv PROVE LimitsHold
      OBVIOUS
    <2>1. Populated /\ RecordsWell /\ \A i \in Kept : records[i] # None /\ i \in Id
      BY DEF IInv, Kept
    <2>2. ASSUME NEW i \in Kept
          PROVE  /\ Cardinality(records[i].captures) <= MaxCaptures
                 /\ records[i].size <= SessionBytes /\ Len(records[i].entries) <= Entries
                 /\ ~records[i].closed => \A w \in Weights(<<"closed">>) : FitsClosed(records[i], w)
      <3>1. Well(records[i])
        BY <2>1 DEF RecordsWell
      <3>2. ASSUME ~records[i].closed, NEW w \in Weights(<<"closed">>)
            PROVE  FitsClosed(records[i], w)
        <4>1. w \in Nat /\ w <= MaxEntryBytes
          <5>1. Len(<<"closed">>) = 1
            OBVIOUS
          <5> QED BY <5>1, LimitsAssumption DEF Weights
        <4>2. records[i].size \in Nat /\ Len(records[i].entries) \in Nat
          BY <3>1, LenProperties DEF Well, Record
        <4>3. /\ Len(records[i].entries) <= Entries - 1
              /\ records[i].size <= SessionBytes - MaxEntryBytes
          BY <3>1, <3>2 DEF Well
        <4> QED BY <4>1, <4>2, <4>3, LimitsAssumption DEF FitsClosed
      <3> QED BY <3>1, <3>2 DEF Well
    <2> QED BY <2>1, <2>2 DEF LimitsHold, Populated, Of
  <1> QED BY <1>1, IInvariance, PTL

\* No call in flight brings state back after the shutdown.
THEOREM ShutdownAlwaysForgets == Spec => []ShutdownForgets
  <1>1. IInv => ShutdownForgets
    BY DEF IInv, Ended, ShutdownForgets
  <1> QED BY <1>1, IInvariance, PTL

-----------------------------------------------------------------------------
(* The refinement of IncidentTimeline, one identifier at a time. *)

LEMMA LogStays ==
  ASSUME IInv, NEW i \in Id, i \in issued' <=> i \in issued,
         \/ records'[i] = records[i]
         \/ /\ records[i] # None /\ records'[i] # None
            /\ records'[i].entries = records[i].entries
            /\ records'[i].expires = records[i].expires
            /\ records'[i].closed = records[i].closed
  PROVE  Timeline!Stays(i)
  BY DEF Timeline!Stays, Timeline!Becomes, Log, Kept

LEMMA LogMayGo ==
  ASSUME IInv, NEW i \in Id, i \in issued' <=> i \in issued,
         records'[i] = records[i] \/ records'[i] = None
  PROVE  Timeline!MayGo(i)
  <1>1. CASE records'[i] = records[i]
    BY <1>1, LogStays DEF Timeline!MayGo
  <1>2. CASE records'[i] = None /\ records[i] # None
    <2>1. i \in Kept /\ i \in issued /\ i \in issued' /\ i \notin Kept'
      BY <1>2 DEF Kept, IInv, TypeOK
    <2>2. Timeline!Alive(i)
      BY <2>1 DEF Timeline!Alive, Log
    <2>3. Timeline!Becomes(i, Timeline!Gone)
      BY <2>1 DEF Timeline!Becomes, Timeline!Gone, Log
    <2> QED BY <2>2, <2>3 DEF Timeline!MayGo
  <1> QED BY <1>1, <1>2

LEMMA LogDomain == DOMAIN Log' = Id
  BY DEF Log

LEMMA LosesRefines ==
  ASSUME IInv, Loses, UNCHANGED now
  PROVE  Timeline!Next
  <1>1. \A i \in Id : Timeline!MayGo(i)
    BY LogMayGo DEF Loses
  <1>2. Timeline!Forget
    BY <1>1 DEF Timeline!Forget
  <1> QED BY <1>2, LogDomain DEF Timeline!Next

LEMMA WritesRefines ==
  ASSUME IInv, Writes
  PROVE  Timeline!Next
  <1>1. PICK i \in Kept, q \in Record : ~Expired(i) /\ Succeeds(q, records[i]) /\ Put(i, q)
    BY DEF Writes
  <1> DEFINE r == records[i]
  <1>2. /\ i \in Id /\ r \in Record /\ r # None /\ q \in Record /\ q # None
        /\ records' = [records EXCEPT ![i] = q] /\ q.expires = r.expires
        /\ UNCHANGED <<issued, now>> /\ i \in Kept /\ i \in Kept'
        /\ now \in Nat /\ r.expires \in Nat
    <2>1. i \in Id /\ r \in Record /\ r # None /\ q \in Record /\ q # None
      BY <1>1, NoneAssumption DEF Kept, IInv, RecordsWell, Well, Succeeds
    <2>2. /\ records' = [records EXCEPT ![i] = q] /\ q.expires = r.expires
          /\ UNCHANGED <<issued, now>> /\ i \in Kept
      BY <1>1 DEF Writes, Succeeds, Put
    <2>3. i \in Kept'
      BY <2>1, <2>2 DEF Kept, IInv, TypeOK
    <2>4. now \in Nat /\ r.expires \in Nat
      BY <2>1 DEF Record, IInv, TypeOK
    <2> QED BY <2>1, <2>2, <2>3, <2>4
  <1>3. records'[i] = q /\ \A j \in Id \ {i} : records'[j] = records[j]
    BY <1>2 DEF IInv, TypeOK
  <1>4. \A j \in Id \ {i} : Timeline!Stays(j)
    BY <1>2, <1>3, LogStays
  <1>5. now < r.expires
    BY <1>1, <1>2 DEF Expired
  <1>6. CASE q.entries = r.entries /\ q.closed = r.closed
    <2>1. Timeline!Stays(i)
      BY <1>2, <1>3, <1>6, LogStays
    <2>2. Timeline!Forget
      BY <1>4, <2>1 DEF Timeline!Forget, Timeline!MayGo
    <2> QED BY <1>2, <2>2, LogDomain DEF Timeline!Next
  <1>7. CASE /\ ~r.closed /\ ~q.closed
             /\ \E g \in Timeline!Group : q.entries = r.entries \o g
    <2>1. PICK g \in Timeline!Group : q.entries = r.entries \o g
      BY <1>7
    <2>2. Timeline!Writable(i)
      BY <1>2, <1>5, <1>7 DEF Timeline!Writable, Log
    <2>3. Timeline!Alone(i)
      BY <1>4 DEF Timeline!Alone
    <2>4. Timeline!Extend(i)
      <3>1. Log[i] = [at |-> "open", entries |-> r.entries, expires |-> r.expires]
        BY <1>2, <1>7 DEF Log
      <3>2. Log'[i] = [at |-> "open", entries |-> q.entries, expires |-> q.expires]
        BY <1>2, <1>3, <1>7 DEF Log
      <3>3. Log'[i] = [Log[i] EXCEPT !.entries = @ \o g]
        <4> DEFINE e == r.entries
                   x == r.expires
                   f == e \o g
        <4>1. /\ Log[i] = [at |-> "open", entries |-> e, expires |-> x]
              /\ Log'[i] = [at |-> "open", entries |-> f, expires |-> x]
          BY <1>2, <2>1, <3>1, <3>2
        <4>2. Log[i].entries \o g = f
          BY <3>1
        <4> HIDE DEF e, x, f
        <4> QED BY <4>1, <4>2
      <3> QED BY <2>2, <2>3, <3>3 DEF Timeline!Extend, Timeline!Becomes
    <2> QED BY <1>2, <2>4, LogDomain DEF Timeline!Next
  <1>8. CASE ~r.closed /\ q.closed /\ q.entries = r.entries \o <<"closed">>
    <2>1. Timeline!Writable(i)
      BY <1>2, <1>5, <1>8 DEF Timeline!Writable, Log
    <2>2. Timeline!Alone(i)
      BY <1>4 DEF Timeline!Alone
    <2>3. q.entries = Append(r.entries, "closed")
      <3>1. r.entries \in Seq(Kind) /\ "closed" \in Kind
        BY <1>2 DEF Record, Kind
      <3> QED BY <1>8, <3>1, AppendIsConcat
    <2>4. Timeline!Close(i)
      <3>1. Log[i] = [at |-> "open", entries |-> r.entries, expires |-> r.expires]
        BY <1>2, <1>8 DEF Log
      <3>2. Log'[i] = [at |-> "closed", entries |-> q.entries, expires |-> q.expires]
        BY <1>2, <1>3, <1>8 DEF Log
      <3>3. Log'[i] = [at |-> "closed", entries |-> Append(Log[i].entries, "closed"),
                       expires |-> Log[i].expires]
        BY <1>2, <2>3, <3>1, <3>2
      <3> QED BY <2>2, <2>1, <3>3 DEF Timeline!Close, Timeline!Becomes
    <2> QED BY <1>2, <2>4, LogDomain DEF Timeline!Next
  <1> QED BY <1>1, <1>6, <1>7, <1>8 DEF Succeeds

LEMMA OpensRefines ==
  ASSUME IInv, Opens
  PROVE  Timeline!Next
  <1>1. PICK p \in Principal, i \in Id \ issued, q \in Record :
          /\ Well(q) /\ q.entries = <<"opened">>
          /\ q.expires = now + Retention /\ ~q.closed
          /\ records' = [prune EXCEPT ![i] = q] /\ issued' = issued \cup {i}
    BY DEF Opens
  <1>2. /\ prune \in [Id -> Record \cup {None}]
        /\ \A j \in Id : prune[j] = records[j] \/ prune[j] = None
    BY PruneLoses DEF IInv
  <1>3. q # None /\ records'[i] = q /\ records[i] = None
    BY <1>1, <1>2, NoneAssumption DEF Well, IInv, TypeOK
  <1>4. ASSUME NEW j \in Id \ {i}
        PROVE  Timeline!MayGo(j)
    <2>1. /\ j \in issued' <=> j \in issued
          /\ records'[j] = records[j] \/ records'[j] = None
      BY <1>1, <1>2
    <2> QED BY <2>1, LogMayGo
  <1>5. i \notin Kept /\ i \in Kept' /\ i \notin issued
    BY <1>1, <1>3 DEF Kept
  <1>6. Timeline!Open(i)
    BY <1>1, <1>3, <1>4, <1>5 DEF Timeline!Open, Timeline!Becomes, Timeline!Unused, Log
  <1> QED BY <1>1, <1>6, LogDomain DEF Timeline!Next, Opens

\* A session is a log that only grows, by whole groups, until it is closed, expires or
\* is forgotten, and never comes back: every step of the handlers, the sweeper and the
\* shutdown is one of the timeline or none.
THEOREM TimelineImplemented == Spec => ImplementsTimeline
  <1>1. Init => Timeline!Init
    BY DEF Init, Timeline!Init, Timeline!Unused, Log, Kept
  <1>2. IInv /\ [Next]_vars => [Timeline!Next]_Timeline!vars
    <2> SUFFICES ASSUME IInv, [Next]_vars PROVE [Timeline!Next]_Timeline!vars
      OBVIOUS
    <2>1. CASE Tick
      <3>1. now' = now + 1 /\ UNCHANGED <<records, issued>>
        BY <2>1 DEF Tick
      <3>2. Timeline!Pass
        BY <3>1 DEF Timeline!Pass, Log, Kept
      <3> QED BY <3>2 DEF Timeline!Next
    <2>2. CASE ~Tick
      <3>1. UNCHANGED now
        BY <2>2 DEF Next, Handler, Enters, Abandons, Start, AppendEntry, Close, CompareCaptures,
                    Delete, Inspect, RecordEvidence, RecordGap, Section, Acquiring, Looks,
                    Acquired, Invalid, Sweep, Stop, Cleared, vars
      <3> QED BY <3>1, StepSeen, LosesRefines, WritesRefines, OpensRefines
    <2> QED BY <2>1, <2>2
  <1> QED BY <1>1, <1>2, IInvariance, PTL DEF Spec, ImplementsTimeline, Timeline!Spec
=============================================================================
