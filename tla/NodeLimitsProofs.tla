-------------------------- MODULE NodeLimitsProofs --------------------------
(***************************************************************************)
(* The limits of a node's service hold for any leases, any processes of    *)
(* the node and all limits.                                                *)
(*                                                                         *)
(* Handles and leases agree while no release has failed, and after a       *)
(* failed release nothing is bound: therefore Refuses, which counts leases *)
(* and replay records, bounds the leases' handles too; that of a preview   *)
(* it leaves out.  Grows says how a step may add to what a service owns;   *)
(* the limits follow from it alone.                                        *)
(***************************************************************************)
EXTENDS NodeBindingProofs, FiniteSetTheorems

\* The handle and the record of the bind b under way are counted.
BoundedOf(s, b) ==
  /\ IsFiniteSet(s.open) /\ Cardinality(s.open) <= MaxLeases
  /\ IsFiniteSet(Seen(s)) /\ Cardinality(Seen(s)) <= MaxSeen
  /\ b # None => Cardinality(s.open) < MaxLeases

Bounded == \A n \in Instance : BoundedOf(service[n], binder[n])

\* Nothing is added to s.
Slim(s, r) == r.open \subseteq s.open /\ Seen(r) \subseteq Seen(s)

\* A bind of i is let in by s; it will add its record, and later its handle.
Admitted(s, r, i) ==
  /\ s.open = Held(s) /\ ~Refuses(s, i)
  /\ r.open = s.open /\ Seen(r) = Seen(s) \cup {i}

\* The bind of i has come back, with its handle or without.
Returned(s, r, i) == r.open \subseteq s.open \cup {i} /\ Seen(r) \subseteq Seen(s)

Grows(n) ==
  \/ Slim(service[n], service'[n]) /\ binder'[n] \in {binder[n], None}
  \/ \E s \in Service, i \in Lease : Slim(service[n], s) /\ Admitted(s, service'[n], i)
  \/ /\ binder[n] # None /\ binder'[n] = None
     /\ \E i \in Lease : Returned(service[n], service'[n], i)

-----------------------------------------------------------------------------
(* What a step adds to a service. *)

LEMMA ShedsSlim ==
  ASSUME NEW s \in Service, NEW r, Sheds(s, r)
  PROVE  Slim(s, r)
  <1>1. r.open \subseteq Lease
    BY DEF Sheds, Service
  <1>2. r.open \subseteq s.open
    BY <1>1 DEF Sheds
  <1>3. Seen(r) \subseteq Seen(s)
    BY DEF Sheds, Seen
  <1> QED BY <1>2, <1>3 DEF Slim

LEMMA OthersStay ==
  ASSUME NInv, UNCHANGED <<service, binder>>
  PROVE  \A n \in Instance : Grows(n)
  BY DEF Grows, Slim

\* One service is changed, and its binder set or reset.
LEMMA OneGrows ==
  ASSUME NInv, NEW n \in Instance, NEW r, Serve(n, r), Grows(n),
         UNCHANGED binder \/ \E b : binder' = [binder EXCEPT ![n] = b]
  PROVE  \A k \in Instance : Grows(k)
  <1>1. ASSUME NEW k \in Instance, k # n
        PROVE  Grows(k)
    <2>1. service'[k] = service[k] /\ binder'[k] = binder[k]
      BY <1>1 DEF Serve, NInv, TypeOK
    <2> QED BY <2>1 DEF Grows, Slim
  <1> QED BY <1>1

LEMMA SlimGrows ==
  ASSUME NInv, NEW n \in Instance, NEW r, Serve(n, r), Slim(service[n], r),
         UNCHANGED binder \/ binder' = [binder EXCEPT ![n] = None]
  PROVE  \A k \in Instance : Grows(k)
  <1>1. service'[n] = r /\ binder'[n] \in {binder[n], None}
    BY DEF Serve, NInv, TypeOK
  <1>2. Grows(n)
    BY <1>1 DEF Grows
  <1> QED BY <1>2, OneGrows

\* The handlers and the loop release what they find; Release closes what it gives up.
LEMMA ShedsGrow ==
  ASSUME NInv, NEW n \in Instance, NEW r, Serve(n, r), Sheds(service[n], r), UNCHANGED binder
  PROVE  \A k \in Instance : Grows(k)
  <1>1. Slim(service[n], r)
    BY ServiceType, ShedsSlim
  <1> QED BY <1>1, SlimGrows

LEMMA RemovalGrows ==
  ASSUME NInv, NEW n \in Instance, NEW m \in net, Get(n, m) \/ Delete(n, m)
  PROVE  \A k \in Instance : Grows(k)
  <1>1. PICK failed : \E r \in {prune(service[n], failed),
                                stopLease(prune(service[n], failed), {m.id}, failed)} : Serve(n, r)
    BY DEF Get, Delete
  <1>2. \A r \in {prune(service[n], failed), stopLease(prune(service[n], failed), {m.id}, failed)} :
          Sheds(service[n], r)
    BY ServiceType, PruneSheds, StopAfterPrune
  <1>3. UNCHANGED binder
    BY DEF Get, Delete
  <1> QED BY <1>1, <1>2, <1>3, ShedsGrow

\* Sections that look at the state of an engine, of the loop or of a preview.
LEMMA SameFieldsGrow ==
  ASSUME NInv, NEW n \in Instance,
         \/ \E i \in Lease : Disconnects(n, i) \/ Panics(n, i)
         \/ Woken(n) \/ PreviewEnds(n)
  PROVE  \A k \in Instance : Grows(k)
  <1> DEFINE s == service[n]
  <1>1. UNCHANGED binder
    BY DEF Disconnects, Panics, Woken, PreviewEnds
  <1>2. s \in Service
    BY ServiceType
  <1>3. \E r : Serve(n, r) /\ r.open = s.open /\ r.seen = s.seen
    <2>1. ASSUME NEW i \in Lease, Disconnects(n, i)
          PROVE  \E r : Serve(n, r) /\ r.open = s.open /\ r.seen = s.seen
      <3> DEFINE l == [s.leases EXCEPT ![i] = [s.leases[i] EXCEPT !.engine = "cancelled"]]
                 r == [s EXCEPT !.leases = l]
      <3>1. Serve(n, r)
        BY <2>1 DEF Disconnects
      <3> HIDE DEF l
      <3>2. r.open = s.open /\ r.seen = s.seen
        BY <1>2 DEF Service
      <3> QED BY <3>1, <3>2
    <2>2. ASSUME NEW i \in Lease, Panics(n, i)
          PROVE  \E r : Serve(n, r) /\ r.open = s.open /\ r.seen = s.seen
      <3> DEFINE l == [s.leases EXCEPT ![i] = [s.leases[i] EXCEPT !.engine = "lost"]]
                 r == [s EXCEPT !.leases = l, !.poisoned = TRUE]
      <3>1. Serve(n, r)
        BY <2>2 DEF Panics
      <3> HIDE DEF l
      <3>2. r.open = s.open /\ r.seen = s.seen
        BY <1>2 DEF Service
      <3> QED BY <3>1, <3>2
    <2>3. CASE Woken(n)
      <3> DEFINE r == [s EXCEPT !.wake = FALSE]
      <3>1. Serve(n, r)
        BY <2>3 DEF Woken
      <3>2. r.open = s.open /\ r.seen = s.seen
        BY <1>2 DEF Service
      <3> QED BY <3>1, <3>2
    <2>4. CASE PreviewEnds(n)
      <3> DEFINE r == [s EXCEPT !.poisoned = TRUE]
      <3>1. Serve(n, s) \/ Serve(n, r)
        BY <2>4 DEF PreviewEnds, Serve, NInv, TypeOK
      <3>2. r.open = s.open /\ r.seen = s.seen
        BY <1>2 DEF Service
      <3> QED BY <3>1, <3>2
    <2> QED BY <2>1, <2>2, <2>3, <2>4
  <1>4. PICK r : Serve(n, r) /\ r.open = s.open /\ r.seen = s.seen
    BY <1>3
  <1>5. Slim(s, r)
    BY <1>4 DEF Slim, Seen
  <1> QED BY <1>1, <1>4, <1>5, SlimGrows

\* The release that waited for an engine.
LEMMA FinishGrows ==
  ASSUME NInv, NEW n \in Instance, NEW i \in Lease, finish(n, i)
  PROVE  \A k \in Instance : Grows(k)
  <1>1. PICK failed : Serve(n, Release(service[n], {i}, failed))
    BY DEF finish
  <1>2. UNCHANGED binder
    BY DEF finish
  <1> DEFINE S == {i}
             s == service[n]
             r == Release(s, S, failed)
  <1>3. /\ r \in Service
        /\ \A j \in Lease : r.leases[j] = (IF j \in S THEN None ELSE s.leases[j])
        /\ r.open = s.open \ (S \ failed) /\ r.seen = s.seen
        /\ r.poisoned <=> (s.poisoned \/ failed # {})
    <2>1. S \in SUBSET Lease /\ s \in Service
      BY ServiceType
    <2> HIDE DEF S, s
    <2> QED BY ONLY <2>1, ReleaseFields
  <1>4. Serve(n, r)
    BY <1>1
  <1> HIDE DEF r
  <1>5. Slim(s, r)
    BY <1>3 DEF Slim, Seen
  <1> QED BY <1>2, <1>4, <1>5, SlimGrows

\* Shutdown forgets every record; a process that dies forgets everything.
LEMMA EndGrows ==
  ASSUME NInv, NEW n \in Instance, Drains(n) \/ Dies(n)
  PROVE  \A k \in Instance : Grows(k)
  <1>1. CASE Drains(n)
    <2> DEFINE s == service[n]
               none == [i \in Lease |-> None]
    <2>1. PICK failed : Serve(n, [stopLease(s, Lease, failed) EXCEPT !.seen = none])
      BY <1>1 DEF Drains
    <2> DEFINE q == stopLease(s, Lease, failed)
               r == [q EXCEPT !.seen = none]
    <2>2. Sheds(s, q)
      BY ServiceType, StopSheds
    <2>3. Serve(n, r)
      BY <2>1
    <2>4. Slim(s, q)
      BY <2>2, ServiceType, ShedsSlim
    <2>5. \A i \in Lease : none[i] = None
      OBVIOUS
    <2> HIDE DEF q, none
    <2>6. r.open = q.open /\ r.seen = none
      BY <2>2 DEF Sheds, Service
    <2> HIDE DEF r
    <2>7. Slim(s, r)
      BY <2>4, <2>5, <2>6 DEF Slim, Seen
    <2>8. UNCHANGED binder
      BY <1>1 DEF Drains
    <2> QED BY <2>3, <2>7, <2>8, SlimGrows
  <1>2. CASE Dies(n)
    <2>1. Serve(n, Empty) /\ binder' = [binder EXCEPT ![n] = None]
      BY <1>2 DEF Dies
    <2>2. Slim(service[n], Empty)
      BY DEF Slim, Seen, Empty
    <2> QED BY <2>1, <2>2, SlimGrows
  <1> QED BY <1>1, <1>2

\* bind counts the leases while every handle has one.
LEMMA BindBeginsGrows ==
  ASSUME NInv, NEW n \in Instance, NEW m \in net, BindBegins(n, m)
  PROVE  \A k \in Instance : Grows(k)
  <1>1. \/ UNCHANGED <<service, binder>>
        \/ \E failed \in Failures(Due(service[n])) :
             LET s == prune(service[n], failed) IN
             \/ Serve(n, s) /\ UNCHANGED binder
             \/ Admits(n, s, m)
    BY Zenon DEF BindBegins, Admits
  <1>2. ASSUME NEW failed
        PROVE  Sheds(service[n], prune(service[n], failed))
    BY ServiceType, PruneSheds
  <1>3. ASSUME NEW failed, Admits(n, prune(service[n], failed), m)
        PROVE  \A k \in Instance : Grows(k)
    <2> DEFINE s == prune(service[n], failed)
               e == [s.seen EXCEPT ![m.id] = m.until]
               q == [s EXCEPT !.seen = e, !.wake = TRUE]
    <2>1. Sheds(service[n], s)
      BY <1>2
    <2>2. Admits(n, s, m)
      BY <1>3
    <2> HIDE DEF s
    <2>3. Serve(n, q) /\ binder' = [binder EXCEPT ![n] = m] /\ ~s.poisoned /\ ~Refuses(s, m.id)
      BY <2>2 DEF Admits
    <2>4. m.id \in Lease /\ m.until # None /\ s \in Service
      BY <2>1, NoneAssumption DEF NInv, TypeOK, Request, Sheds
    <2>5. e[m.id] = m.until /\ \A i \in Lease \ {m.id} : e[i] = s.seen[i]
      BY <2>4 DEF Service
    <2> HIDE DEF e
    <2>6. q.open = s.open /\ q.seen = e
      BY <2>4 DEF Service
    <2> HIDE DEF q
    <2>7. Slim(service[n], s)
      BY <2>1, ServiceType, ShedsSlim
    <2>8. s.open = Held(s)
      <3>1. Handles(service[n])
        BY DEF NInv, Sound, SoundOf
      <3>2. Handles(s)
        BY <2>1, <3>1 DEF Handles, Sheds
      <3>3. s.open \subseteq Lease
        BY <2>4 DEF Service
      <3> QED BY <2>3, <3>2, <3>3 DEF Handles, Held
    <2>9. Seen(q) = Seen(s) \cup {m.id}
      BY <2>4, <2>5, <2>6 DEF Seen
    <2>10. Admitted(s, q, m.id)
      BY <2>3, <2>6, <2>8, <2>9 DEF Admitted
    <2>11. service'[n] = q
      BY <2>3 DEF Serve, NInv, TypeOK
    <2>12. Grows(n)
      BY <2>4, <2>7, <2>10, <2>11 DEF Grows
    <2> QED BY <2>3, <2>12, OneGrows
  <1> QED BY <1>1, <1>2, <1>3, OthersStay, ShedsGrow

LEMMA BindEndsGrows ==
  ASSUME NInv, NEW n \in Instance, BindEnds(n)
  PROVE  \A k \in Instance : Grows(k)
  <1> DEFINE s == service[n]
             i == binder[n].id
             o == s.open \cup {i}
             l == [s.leases EXCEPT ![i] = [expires |-> binder[n].until, engine |-> "none"]]
  <1>1. binder[n] # None /\ i \in Lease /\ s \in Service /\ binder' = [binder EXCEPT ![n] = None]
    BY ServiceType DEF BindEnds, Request
  <1>2. \/ UNCHANGED service
        \/ Serve(n, [s EXCEPT !.open = o, !.poisoned = TRUE])
        \/ Serve(n, [s EXCEPT !.leases = l, !.open = o])
    BY DEF BindEnds
  <1>3. CASE UNCHANGED service
    <2>1. Serve(n, s) /\ Slim(s, s)
      BY <1>3 DEF Serve, Slim, NInv, TypeOK
    <2> QED BY <1>1, <2>1, SlimGrows
  <1>4. ASSUME NEW r, Serve(n, r), r.open = o, r.seen = s.seen
        PROVE  \A k \in Instance : Grows(k)
    <2>1. service'[n] = r /\ binder'[n] = None
      BY <1>1, <1>4 DEF Serve, NInv, TypeOK
    <2>2. Returned(s, r, i)
      BY <1>4 DEF Returned, Seen
    <2>3. Grows(n)
      BY <1>1, <2>1, <2>2 DEF Grows
    <2> QED BY <1>1, <1>4, <2>3, OneGrows
  <1> HIDE DEF l, o
  <1>5. /\ [s EXCEPT !.open = o, !.poisoned = TRUE].open = o
        /\ [s EXCEPT !.open = o, !.poisoned = TRUE].seen = s.seen
        /\ [s EXCEPT !.leases = l, !.open = o].open = o
        /\ [s EXCEPT !.leases = l, !.open = o].seen = s.seen
    BY <1>1 DEF Service
  <1> QED BY <1>2, <1>3, <1>4, <1>5

\* A lease that activates has its record already.
LEMMA ActivateGrows ==
  ASSUME NInv, NEW n \in Instance, NEW m \in preparing[n], activate(n, m)
  PROVE  \A k \in Instance : Grows(k)
  <1>1. PICK failed :
          LET s == prune(service[n], failed) IN
          \/ Serve(n, s)
          \/ Serve(n, stopLease(s, {m.id}, failed))
          \/ MayActivate(n, s, m) /\ Runs(n, s, m)
    BY Zenon DEF activate, Runs
  <1>2. UNCHANGED binder /\ Alive(n)
    BY DEF activate, Unlocked
  <1>3. /\ Sheds(service[n], prune(service[n], failed))
        /\ Sheds(service[n], stopLease(prune(service[n], failed), {m.id}, failed))
    BY ServiceType, PruneSheds, StopAfterPrune
  <1>4. CASE MayActivate(n, prune(service[n], failed), m) /\ Runs(n, prune(service[n], failed), m)
    <2> DEFINE s == prune(service[n], failed)
               l == [s.leases EXCEPT ![m.id] = [expires |-> m.until, engine |-> "running"]]
               e == [s.seen EXCEPT ![m.id] = m.until]
               q == [s EXCEPT !.leases = l, !.seen = e, !.wake = TRUE]
    <2>1. Sheds(service[n], s) /\ MayActivate(n, s, m) /\ Runs(n, s, m)
      BY <1>3, <1>4
    <2> HIDE DEF s
    <2>2. Serve(n, q) /\ m.id \in Idle(s) /\ ~Closed(n)
      BY <2>1 DEF Runs, MayActivate
    <2>3. s \in Service
      BY <2>1 DEF Sheds
    <2>4. \A i \in Lease \ {m.id} : e[i] = s.seen[i]
      BY <2>3 DEF Service
    <2> HIDE DEF l, e
    <2>5. q.open = s.open /\ q.seen = e
      BY <2>3 DEF Service
    <2> HIDE DEF q
    <2>6. m.id \in Seen(service[n])
      <3>1. s.leases[m.id] # None /\ m.id \in Lease
        BY <2>2 DEF Idle, Held
      <3>2. service[n].leases[m.id] # None
        BY <2>1, <3>1 DEF Sheds
      <3>3. loop[n] \notin {"draining", "stopped"}
        BY <2>2 DEF Closed
      <3> QED BY <3>1, <3>2, <3>3 DEF NInv, Sound, SoundOf, Seen
    <2>7. Slim(service[n], s)
      BY <2>1, ServiceType, ShedsSlim
    <2>8. Slim(service[n], q)
      <3>1. q.open \subseteq service[n].open
        BY <2>5, <2>7 DEF Slim
      <3>2. Seen(q) \subseteq Seen(s) \cup {m.id}
        BY <2>4, <2>5 DEF Seen
      <3> QED BY <2>6, <2>7, <3>1, <3>2 DEF Slim
    <2> QED BY <1>2, <2>2, <2>8, SlimGrows
  <1> QED BY <1>1, <1>2, <1>3, <1>4, ShedsGrow

LEMMA NextGrows ==
  ASSUME NInv, [Next]_vars
  PROVE  \A k \in Instance : Grows(k)
  <1>1. CASE Controller \/ Tick \/ UNCHANGED vars
    <2>1. UNCHANGED <<service, binder>>
      BY <1>1 DEF Controller, Bind, BindUnanswered, Revalidate, OpenStream, Close, Tick, vars
    <2> QED BY <2>1, OthersStay
  <1>2. CASE Handlers
    <2>1. PICK n \in Instance :
            \/ \E m \in net : \/ Misdirected(n, m) \/ NoSlot(n, m) \/ BindBegins(n, m) \/ Get(n, m)
                              \/ Delete(n, m) \/ StreamArrives(n, m)
            \/ \E m \in preparing[n] : PrepareFails(n, m) \/ activate(n, m)
            \/ \E i \in Lease : DeleteTimesOut(n, i) \/ Disconnects(n, i) \/ finish(n, i) \/ Panics(n, i)
            \/ BindEnds(n) \/ PreviewBegins(n) \/ PreviewResolves(n) \/ PreviewEnds(n)
      BY <1>2 DEF Handlers
    <2>2. ASSUME NEW m \in net, Misdirected(n, m) \/ NoSlot(n, m) \/ StreamArrives(n, m)
          PROVE  \A k \in Instance : Grows(k)
      <3>1. UNCHANGED <<service, binder>>
        BY <2>2 DEF Misdirected, NoSlot, StreamArrives
      <3> QED BY <3>1, OthersStay
    <2>3. ASSUME NEW m \in preparing[n], PrepareFails(n, m)
          PROVE  \A k \in Instance : Grows(k)
      <3>1. UNCHANGED <<service, binder>>
        BY <2>3 DEF PrepareFails
      <3> QED BY <3>1, OthersStay
    <2>4. ASSUME NEW i \in Lease, DeleteTimesOut(n, i)
          PROVE  \A k \in Instance : Grows(k)
      <3>1. UNCHANGED <<service, binder>>
        BY <2>4 DEF DeleteTimesOut
      <3> QED BY <3>1, OthersStay
    <2>5. ASSUME PreviewBegins(n) \/ PreviewResolves(n)
          PROVE  \A k \in Instance : Grows(k)
      <3>1. UNCHANGED <<service, binder>>
        BY <2>5 DEF PreviewBegins, PreviewResolves
      <3> QED BY <3>1, OthersStay
    <2> QED BY <2>1, <2>2, <2>3, <2>4, <2>5, BindBeginsGrows, RemovalGrows, ActivateGrows,
               SameFieldsGrow, FinishGrows, BindEndsGrows
  <1>3. CASE expire
    <2>1. PICK n \in Instance : Schedule(n) \/ Woken(n) \/ Fires(n) \/ Drains(n) \/ Stops(n)
      BY <1>3 DEF expire
    <2>2. CASE Schedule(n) \/ Stops(n)
      <3>1. UNCHANGED <<service, binder>>
        BY <2>2 DEF Schedule, Stops
      <3> QED BY <3>1, OthersStay
    <2>3. CASE Fires(n)
      <3>1. PICK failed : Serve(n, prune(service[n], failed))
        BY <2>3 DEF Fires
      <3>2. Sheds(service[n], prune(service[n], failed)) /\ UNCHANGED binder
        BY <2>3, ServiceType, PruneSheds DEF Fires
      <3> QED BY <3>1, <3>2, ShedsGrow
    <2> QED BY <2>1, <2>2, <2>3, SameFieldsGrow, EndGrows
  <1>4. CASE Processes
    <2>1. PICK n \in Instance : Starts(n) \/ Terminate(n) \/ Dies(n)
      BY <1>4 DEF Processes
    <2>2. CASE Starts(n) \/ Terminate(n)
      <3>1. UNCHANGED <<service, binder>>
        BY <2>2 DEF Starts, Terminate
      <3> QED BY <3>1, OthersStay
    <2> QED BY <2>1, <2>2, EndGrows
  <1> QED BY <1>1, <1>2, <1>3, <1>4 DEF Next

-----------------------------------------------------------------------------
(* The limits. *)

LEMMA SlimBounded ==
  ASSUME NEW s, NEW r, NEW b, NEW c, BoundedOf(s, b), Slim(s, r), c \in {b, None}
  PROVE  BoundedOf(r, c)
  <1>1. /\ r.open \in SUBSET s.open /\ Seen(r) \in SUBSET Seen(s)
        /\ IsFiniteSet(s.open) /\ IsFiniteSet(Seen(s))
    BY DEF Slim, BoundedOf
  <1>2. IsFiniteSet(r.open) /\ Cardinality(r.open) <= Cardinality(s.open)
    BY ONLY <1>1, FS_Subset
  <1>3. IsFiniteSet(Seen(r)) /\ Cardinality(Seen(r)) <= Cardinality(Seen(s))
    BY ONLY <1>1, FS_Subset
  <1>4. /\ Cardinality(r.open) \in Nat /\ Cardinality(s.open) \in Nat
        /\ Cardinality(Seen(r)) \in Nat /\ Cardinality(Seen(s)) \in Nat
        /\ MaxLeases \in Nat /\ MaxSeen \in Nat
    BY <1>1, <1>2, <1>3, FS_CardinalityType, NodeAssumption
  <1> QED BY <1>2, <1>3, <1>4 DEF BoundedOf

LEMMA GrowsBounded ==
  ASSUME NInv, Bounded, NEW n \in Instance, Grows(n)
  PROVE  BoundedOf(service'[n], binder'[n])
  <1>1. BoundedOf(service[n], binder[n])
    BY DEF Bounded
  <1>2. CASE Slim(service[n], service'[n]) /\ binder'[n] \in {binder[n], None}
    BY <1>1, <1>2, SlimBounded
  <1>3. ASSUME NEW s \in Service, NEW i \in Lease, Slim(service[n], s), Admitted(s, service'[n], i)
        PROVE  BoundedOf(service'[n], binder'[n])
    <2>1. BoundedOf(s, binder[n])
      BY <1>1, <1>3, SlimBounded
    <2>2. IsFiniteSet(s.open) /\ IsFiniteSet(Seen(s))
      BY <2>1 DEF BoundedOf
    <2>3. Cardinality(s.open) \in Nat /\ Cardinality(Seen(s)) \in Nat /\ MaxLeases \in Nat /\ MaxSeen \in Nat
      BY <2>2, FS_CardinalityType, NodeAssumption
    <2>4. Cardinality(s.open) < MaxLeases /\ Cardinality(Seen(s)) < MaxSeen
      BY <1>3, <2>3 DEF Admitted, Refuses
    <2>5. /\ IsFiniteSet(Seen(s) \cup {i})
          /\ Cardinality(Seen(s) \cup {i}) =
               IF i \in Seen(s) THEN Cardinality(Seen(s)) ELSE Cardinality(Seen(s)) + 1
      BY ONLY <2>2, FS_AddElement
    <2>6. Cardinality(Seen(s) \cup {i}) <= MaxSeen
      BY <2>3, <2>4, <2>5
    <2> QED BY <1>3, <2>2, <2>3, <2>4, <2>5, <2>6 DEF BoundedOf, Admitted
  <1>4. ASSUME NEW i \in Lease, binder[n] # None, binder'[n] = None, Returned(service[n], service'[n], i)
        PROVE  BoundedOf(service'[n], binder'[n])
    <2> DEFINE s == service[n]
               r == service'[n]
    <2>1. /\ IsFiniteSet(s.open) /\ Cardinality(s.open) < MaxLeases
          /\ IsFiniteSet(Seen(s)) /\ Cardinality(Seen(s)) <= MaxSeen
      BY <1>1, <1>4 DEF BoundedOf
    <2>2. r.open \in SUBSET (s.open \cup {i}) /\ Seen(r) \in SUBSET Seen(s)
      BY <1>4 DEF Returned
    <2>3. /\ IsFiniteSet(s.open \cup {i})
          /\ Cardinality(s.open \cup {i}) =
               IF i \in s.open THEN Cardinality(s.open) ELSE Cardinality(s.open) + 1
      BY ONLY <2>1, FS_AddElement
    <2>4. IsFiniteSet(r.open) /\ Cardinality(r.open) <= Cardinality(s.open \cup {i})
      BY ONLY <2>2, <2>3, FS_Subset
    <2>5. IsFiniteSet(Seen(r)) /\ Cardinality(Seen(r)) <= Cardinality(Seen(s))
      BY ONLY <2>1, <2>2, FS_Subset
    <2>6. /\ Cardinality(s.open) \in Nat /\ Cardinality(r.open) \in Nat
          /\ Cardinality(Seen(s)) \in Nat /\ Cardinality(Seen(r)) \in Nat
          /\ MaxLeases \in Nat /\ MaxSeen \in Nat
      BY <2>1, <2>4, <2>5, FS_CardinalityType, NodeAssumption
    <2>7. Cardinality(s.open \cup {i}) <= MaxLeases
      BY <2>1, <2>3, <2>6
    <2>8. Cardinality(r.open) <= MaxLeases
      BY <2>3, <2>4, <2>6, <2>7
    <2>9. Cardinality(Seen(r)) <= MaxSeen
      BY <2>1, <2>5, <2>6
    <2> QED BY <1>4, <2>4, <2>5, <2>8, <2>9 DEF BoundedOf
  <1> QED BY <1>2, <1>3, <1>4 DEF Grows

\* bind refuses above two leases and 256 records; Release, BindEnds and PreviewEnds
\* report every handle that they cannot close.
THEOREM NodeWithinLimits == Spec => []HandlesAccounted
  <1>1. Init => Bounded
    <2> SUFFICES ASSUME Init, NEW n \in Instance
                 PROVE  BoundedOf(service[n], binder[n])
      BY DEF Bounded
    <2>1. service[n] = Empty /\ binder[n] = None
      BY DEF Init
    <2>2. Empty.open = {} /\ Seen(Empty) = {}
      BY DEF Empty, Seen
    <2> QED BY <2>1, <2>2, FS_EmptySet, NodeAssumption DEF BoundedOf
  <1>2. NInv /\ Bounded /\ [Next]_vars => Bounded'
    <2> SUFFICES ASSUME NInv, Bounded, [Next]_vars, NEW n \in Instance
                 PROVE  BoundedOf(service'[n], binder'[n])
      BY DEF Bounded
    <2> QED BY NextGrows, GrowsBounded
  <1>3. NInv /\ Bounded => HandlesAccounted
    <2> SUFFICES ASSUME NInv, Bounded, NEW n \in Instance
                 PROVE  /\ Cardinality(service[n].open) <= MaxLeases
                        /\ Cardinality(Seen(service[n])) <= MaxSeen
                        /\ service[n].open = Held(service[n]) \/ service[n].poisoned
                        /\ preview[n] = "unconfirmed" => service[n].poisoned
      BY DEF HandlesAccounted
    <2>1. SoundOf(loop[n], service[n], binder[n], preview[n], Works(n))
      BY DEF NInv, Sound
    <2>2. service[n].open \subseteq Lease
      BY ServiceType DEF Service
    <2>3. service[n].open = Held(service[n]) \/ service[n].poisoned
      BY <2>1, <2>2 DEF SoundOf, Handles, Held
    <2> QED BY <2>1, <2>3 DEF Bounded, BoundedOf, SoundOf
  <1> QED BY <1>1, <1>2, <1>3, NodeInvariance, PTL DEF Spec
=============================================================================
