------------------------- MODULE NodeBindingProofs -------------------------
(***************************************************************************)
(* Theorems about NodeBinding for any leases, any processes of a node and  *)
(* all limits.                                                             *)
(*                                                                         *)
(* Sound says of one process how its leases, replay records, handles and   *)
(* engines go together; Wired says what the requests on the network, late  *)
(* copies of them included, can still bring about.                         *)
(***************************************************************************)
EXTENDS NodeBinding, TLAPS, WellFoundedInduction

Serving == {"looking", "asleep"}
Active == Serving \cup {"draining", "stopped"}

\* Every lease has its handle, and a handle without a lease is a failed release.
Handles(s) ==
  \A i \in Lease : /\ s.leases[i] # None => i \in s.open
                   /\ i \in s.open => s.leases[i] # None \/ s.poisoned

\* Of a process in l with service s, binder b and preview p; W: its engines.
SoundOf(l, s, b, p, W) ==
  /\ Handles(s)
  /\ l \in Active => \A i \in W : s.leases[i] # None /\ s.leases[i].engine # "none"
  /\ l \notin {"draining", "stopped"} =>
       \A i \in Lease : s.leases[i] # None => s.seen[i] # None
  /\ l \notin Active => s = Empty /\ b = None
  /\ l = "unborn" => W = {}
  /\ p = "unconfirmed" => s.poisoned
  /\ l = "stopped" => p \notin Inspecting /\ \A i \in Lease : s.leases[i] = None
  /\ b # None => /\ l \in Serving /\ ~s.poisoned
                 /\ s.leases[b.id] = None /\ s.seen[b.id] = b.until

Works(n) == {i \in Lease : <<n, i>> \in work}

Sound == \A n \in Instance :
  SoundOf(loop[n], service[n], binder[n], preview[n], Works(n))

(***************************************************************************)
(* What is on its way, and what it may still do.                           *)
(***************************************************************************)
Requests == net \cup {binder[n] : n \in Instance} \cup UNION {preparing[n] : n \in Instance}
Of(k, i) == {m \in Requests \ {None} : m.kind = k /\ m.id = i}

\* A request belongs to the binding that sent it, and goes to its process only.
Addressed ==
  /\ \A m \in net : m.to = client[m.id].instance
  /\ \A n \in Instance :
       /\ binder[n] # None => binder[n].kind = "bind" /\ binder[n].to = n
                              /\ n = client[binder[n].id].instance
       /\ \A m \in preparing[n] : m.kind = "stream" /\ n = client[m.id].instance
       /\ \A i \in waiting[n] : n = client[i].instance
       /\ \A i \in Lease : past[<<n, i>>] # "nothing" => n = client[i].instance
  /\ \A i \in Lease : client[i].at = "idle" <=> client[i].instance = None

\* A binding binds once and asks for one stream, once it is held.
AlikeOf(i) ==
  /\ \A m, o \in Of("bind", i) : m.until = o.until
  /\ \A m, o \in Of("stream", i) : m.until = o.until
  /\ Of("stream", i) # {} => client[i].claimed
  /\ \A n \in Instance : past[<<n, i>>] = "started" => client[i].claimed
  /\ client[i].claimed => client[i].at = "held"
  /\ client[i].at = "held" => past[<<client[i].instance, i>>] # "nothing"

Alike == \A i \in Lease : AlikeOf(i)

Remembers(n, m) ==
  m.until <= now \/ (service[n].seen[m.id] # None /\ m.until <= service[n].seen[m.id])

\* Requests that come too late: the process has seen them, or their time is over.
Late(n, i) ==
  LET binding == binder[n] # None /\ binder[n].id = i IN
  /\ binding => past[<<n, i>>] # "bound"
  /\ past[<<n, i>>] = "bound" => \A m \in net : m.kind = "bind" /\ m.id = i => Remembers(n, m)
  /\ past[<<n, i>>] = "started" => \A m \in Of("stream", i) :
       /\ Remembers(n, m)
       /\ m.until <= now \/ (i \notin Idle(service[n]) /\ ~binding)
  /\ past[<<n, i>>] = "bound" /\ client[i].closed /\ Of("stream", i) # {} =>
       service[n].leases[i] = None

Wired ==
  /\ Addressed /\ Alike
  /\ \A n \in Instance, i \in Lease : loop[n] \in Serving => Late(n, i)
  /\ \A n \in Instance, i \in Lease : loop[n] = "unborn" => past[<<n, i>>] = "nothing"
  /\ \A n \in Instance, i \in Lease : <<n, i>> \in work => past[<<n, i>>] = "started"

-----------------------------------------------------------------------------
(* The earliest deadline. *)

LEMMA Least ==
  ASSUME NEW T \in SUBSET Nat, T # {}
  PROVE  \E x \in T : \A y \in T : x <= y
  <1> DEFINE Less == {p \in Nat \X Nat : p[1] < p[2]}
  <1>1. OpToRel(<, Nat) = Less
    BY Zenon DEF OpToRel
  <1>2. IsWellFoundedOn(Less, Nat)
    BY Zenon, <1>1, NatLessThanWellFounded
  <1> HIDE DEF Less
  <1>3. PICK x \in T : \A y \in T : ~(<<y, x>> \in Less)
    BY <1>2, WFMin
  <1>4. ASSUME NEW y \in T
        PROVE  x <= y
    <2>1. x \in Nat /\ y \in Nat /\ <<y, x>> \notin Less
      BY <1>3
    <2>2. <<y, x>> \in Less <=> y < x
      BY <2>1 DEF Less
    <2> QED BY <2>1, <2>2
  <1> QED BY <1>4

LEMMA NextExpiryType ==
  ASSUME NEW s \in Service
  PROVE  nextExpiry(s) \in Nat \cup {None}
  <1>1. Deadlines(s) \subseteq Nat
    BY NoneAssumption DEF Deadlines, Service, Held, Idle, Seen, LeaseRecord
  <1>2. CASE Deadlines(s) = {}
    BY <1>2 DEF nextExpiry
  <1>3. CASE Deadlines(s) # {}
    <2>1. \E t \in Deadlines(s) : \A u \in Deadlines(s) : t <= u
      BY <1>1, <1>3, Least
    <2> QED BY <1>1, <1>3, <2>1 DEF nextExpiry
  <1> QED BY <1>2, <1>3

-----------------------------------------------------------------------------
(* What the sections under s.mu do to a service. *)

\* Leases and replay records go, engines are cancelled, handles close or fail to.
Sheds(s, r) ==
  /\ r \in Service
  /\ \A i \in Lease :
       /\ \/ r.leases[i] = s.leases[i]
          \/ s.leases[i] # None /\ s.leases[i].engine = "none" /\ r.leases[i] = None
          \/ /\ s.leases[i] # None /\ s.leases[i].engine = "running"
             /\ r.leases[i] # None /\ r.leases[i].engine = "cancelled"
       /\ \/ r.seen[i] = s.seen[i]
          \/ r.seen[i] = None /\ s.seen[i] # None /\ now >= s.seen[i] /\ r.leases[i] = None
       /\ i \in s.open => i \in r.open \/ r.leases[i] = None
       /\ i \in r.open => i \in s.open
       /\ i \in r.open /\ s.leases[i] # None /\ r.leases[i] = None => r.poisoned
  /\ s.poisoned => r.poisoned

LEMMA ReleaseFields ==
  ASSUME NEW s \in Service, NEW S \in SUBSET Lease, NEW failed
  PROVE  LET r == Release(s, S, failed) IN
         /\ r \in Service
         /\ \A i \in Lease : r.leases[i] = (IF i \in S THEN None ELSE s.leases[i])
         /\ r.open = s.open \ (S \ failed) /\ r.seen = s.seen
         /\ r.poisoned <=> (s.poisoned \/ failed # {})
  <1> DEFINE l == [i \in Lease |-> IF i \in S THEN None ELSE s.leases[i]]
             o == s.open \ (S \ failed)
             q == s.poisoned \/ failed # {}
             w == s.wake \/ S # {}
  <1>1. Release(s, S, failed) = [s EXCEPT !.leases = l, !.open = o, !.poisoned = q, !.wake = w]
    BY DEF Release
  <1>2. l \in [Lease -> LeaseRecord \cup {None}] /\ o \in SUBSET Lease /\ q \in BOOLEAN /\ w \in BOOLEAN
    BY DEF Service
  <1>3. \A i \in Lease : l[i] = (IF i \in S THEN None ELSE s.leases[i])
    OBVIOUS
  <1> HIDE DEF l, o, q, w
  <1>4. LET r == Release(s, S, failed) IN
        r \in Service /\ r.leases = l /\ r.open = o /\ r.seen = s.seen /\ (r.poisoned <=> q)
    BY <1>1, <1>2 DEF Service
  <1> QED BY <1>3, <1>4 DEF o, q

LEMMA StopFields ==
  ASSUME NEW s \in Service, NEW S, NEW failed
  PROVE  LET r == stopLease(s, S, failed)
             gone == S \cap Idle(s)
         IN
         /\ r \in Service
         /\ \A i \in Lease :
              /\ i \in gone => r.leases[i] = None
              /\ i \in S \cap Held(s) /\ s.leases[i].engine = "running" =>
                   r.leases[i] # None /\ r.leases[i].engine = "cancelled"
              /\ i \notin gone /\ ~(i \in S \cap Held(s) /\ s.leases[i].engine = "running") =>
                   r.leases[i] = s.leases[i]
         /\ r.open = s.open \ (gone \ failed) /\ r.seen = s.seen
         /\ r.poisoned <=> (s.poisoned \/ failed \cap Idle(s) # {})
  <1> DEFINE gone == S \cap Idle(s)
             bad == failed \cap Idle(s)
             r == Release(s, gone, bad)
             ends(i) == i \in S \cap Held(s) /\ s.leases[i].engine = "running"
             l == [i \in Lease |-> IF ends(i) THEN [s.leases[i] EXCEPT !.engine = "cancelled"]
                                   ELSE r.leases[i]]
  <1>1. stopLease(s, S, failed) = [r EXCEPT !.leases = l]
    BY DEF stopLease
  <1>2. gone \in SUBSET Lease
    BY DEF Idle, Held
  <1>3. /\ r \in Service
        /\ \A i \in Lease : r.leases[i] = (IF i \in gone THEN None ELSE s.leases[i])
        /\ r.open = s.open \ (gone \ bad) /\ r.seen = s.seen
        /\ r.poisoned <=> (s.poisoned \/ bad # {})
    <2> HIDE DEF gone, bad, l
    <2> QED BY <1>2, ReleaseFields
  <1> HIDE DEF r
  <1>4. ASSUME NEW i \in Lease, ends(i)
        PROVE  LET c == [s.leases[i] EXCEPT !.engine = "cancelled"] IN
               c \in LeaseRecord /\ c.engine = "cancelled" /\ c # None
    <2>1. s.leases[i] \in LeaseRecord
      BY <1>4 DEF Held, Service
    <2> QED BY <2>1, NoneAssumption DEF LeaseRecord
  <1>5. /\ l \in [Lease -> LeaseRecord \cup {None}]
        /\ \A i \in Lease : /\ ends(i) => l[i] # None /\ l[i].engine = "cancelled"
                            /\ ~ends(i) => l[i] = r.leases[i]
    BY <1>3, <1>4 DEF Service
  <1>6. \A i \in Lease : ends(i) => i \notin gone
    BY DEF Idle
  <1> HIDE DEF l, ends
  <1>7. LET q == stopLease(s, S, failed) IN
        q \in Service /\ q.leases = l /\ q.open = r.open /\ q.seen = r.seen
        /\ (q.poisoned <=> r.poisoned)
    BY <1>1, <1>3, <1>5 DEF Service
  <1>8. gone \ bad = gone \ failed
    OBVIOUS
  <1> HIDE DEF gone
  <1> QED BY <1>3, <1>5, <1>6, <1>7, <1>8 DEF gone, ends

LEMMA StopSheds ==
  ASSUME NEW s \in Service, NEW S, NEW failed
  PROVE  Sheds(s, stopLease(s, S, failed))
  <1> DEFINE r == stopLease(s, S, failed)
             gone == S \cap Idle(s)
  <1>1. /\ r \in Service
        /\ \A i \in Lease :
             /\ i \in gone => r.leases[i] = None
             /\ i \in S \cap Held(s) /\ s.leases[i].engine = "running" =>
                  r.leases[i] # None /\ r.leases[i].engine = "cancelled"
             /\ i \notin gone /\ ~(i \in S \cap Held(s) /\ s.leases[i].engine = "running") =>
                  r.leases[i] = s.leases[i]
        /\ r.open = s.open \ (gone \ failed) /\ r.seen = s.seen
        /\ r.poisoned <=> (s.poisoned \/ failed \cap Idle(s) # {})
    BY StopFields
  <1> HIDE DEF r
  <1>2. \A i \in Lease : i \in gone => s.leases[i] # None /\ s.leases[i].engine = "none"
    BY DEF Idle, Held
  <1>3. \A i \in Lease : i \in Held(s) <=> s.leases[i] # None
    BY DEF Held
  <1>4. \A i \in gone : i \in failed => r.poisoned
    BY <1>1
  <1> HIDE DEF gone
  <1> QED BY <1>1, <1>2, <1>3, <1>4 DEF Sheds, r

LEMMA PruneSheds ==
  ASSUME NEW s \in Service, NEW failed
  PROVE  Sheds(s, prune(s, failed))
  <1> DEFINE r == stopLease(s, Due(s), failed)
             late(i) == i \notin Held(r) /\ s.seen[i] # None /\ now >= s.seen[i]
             e == [i \in Lease |-> IF late(i) THEN None ELSE s.seen[i]]
             q == prune(s, failed)
  <1>1. Sheds(s, r)
    BY StopSheds
  <1>2. q = [r EXCEPT !.seen = e]
    BY DEF prune
  <1>3. r.seen = s.seen
    BY StopFields
  <1> HIDE DEF r
  <1>4. e \in [Lease -> Nat \cup {None}]
    BY DEF Service
  <1>5. \A i \in Lease : e[i] = s.seen[i] \/
                           (e[i] = None /\ s.seen[i] # None /\ now >= s.seen[i] /\ r.leases[i] = None)
    BY DEF Held
  <1> HIDE DEF e, late, q
  <1>6. /\ q \in Service /\ q.leases = r.leases /\ q.open = r.open /\ q.seen = e
        /\ (q.poisoned <=> r.poisoned)
    BY <1>1, <1>2, <1>4 DEF Service, Sheds
  <1> QED BY <1>1, <1>5, <1>6 DEF Sheds, q

LEMMA ShedsTwice ==
  ASSUME NEW s, NEW r, NEW q, Sheds(s, r), Sheds(r, q)
  PROVE  Sheds(s, q)
  <1>1. q \in Service /\ (s.poisoned => q.poisoned)
    BY DEF Sheds
  <1>2. ASSUME NEW i \in Lease
        PROVE  /\ \/ q.leases[i] = s.leases[i]
                  \/ s.leases[i] # None /\ s.leases[i].engine = "none" /\ q.leases[i] = None
                  \/ /\ s.leases[i] # None /\ s.leases[i].engine = "running"
                     /\ q.leases[i] # None /\ q.leases[i].engine = "cancelled"
               /\ \/ q.seen[i] = s.seen[i]
                  \/ q.seen[i] = None /\ s.seen[i] # None /\ now >= s.seen[i] /\ q.leases[i] = None
               /\ i \in s.open => i \in q.open \/ q.leases[i] = None
               /\ i \in q.open => i \in s.open
               /\ i \in q.open /\ s.leases[i] # None /\ q.leases[i] = None => q.poisoned
    BY <1>2 DEF Sheds
  <1> QED BY <1>1, <1>2 DEF Sheds

LEMMA StopAfterPrune ==
  ASSUME NEW s \in Service, NEW S, NEW failed, NEW closing
  PROVE  Sheds(s, stopLease(prune(s, failed), S, closing))
  <1>1. Sheds(s, prune(s, failed))
    BY PruneSheds
  <1>2. prune(s, failed) \in Service
    BY <1>1 DEF Sheds
  <1>3. Sheds(prune(s, failed), stopLease(prune(s, failed), S, closing))
    BY <1>2, StopSheds
  <1> QED BY <1>1, <1>3, ShedsTwice

LEMMA ShedsNothing ==
  ASSUME NEW s \in Service
  PROVE  Sheds(s, s)
  BY DEF Sheds

LEMMA ShedsSound ==
  ASSUME NEW l \in Active, NEW s, NEW r, NEW b, NEW p, NEW W,
         SoundOf(l, s, b, p, W), Sheds(s, r), W \subseteq Lease,
         b # None => b.id \in Lease /\ r.seen = s.seen /\ (r.poisoned => s.poisoned)
  PROVE  SoundOf(l, r, b, p, W)
  <1>1. Handles(r)
    BY DEF SoundOf, Sheds, Handles
  <1>2. \A i \in W : r.leases[i] # None /\ r.leases[i].engine # "none"
    BY DEF SoundOf, Sheds
  <1>3. l \notin {"draining", "stopped"} => \A i \in Lease : r.leases[i] # None => r.seen[i] # None
    BY DEF SoundOf, Sheds
  <1>4. /\ l = "stopped" => p \notin Inspecting /\ \A i \in Lease : r.leases[i] = None
        /\ p = "unconfirmed" => r.poisoned
    BY DEF SoundOf, Sheds
  <1>5. b # None => /\ l \in Serving /\ ~r.poisoned
                    /\ r.leases[b.id] = None /\ r.seen[b.id] = b.until
    BY DEF SoundOf, Sheds
  <1> QED BY <1>1, <1>2, <1>3, <1>4, <1>5 DEF SoundOf, Active, Serving

-----------------------------------------------------------------------------
(* The processes: what each step does to the service of one of them. *)

NInv == TypeOK /\ Sound

LEMMA SameProcesses ==
  ASSUME Sound, UNCHANGED <<loop, service, binder, preview, work>>
  PROVE  Sound'
  BY DEF Sound, Works

\* One process moves, the others stay.
LEMMA OneProcess ==
  ASSUME NInv, NEW n \in Instance, NEW l, NEW r, NEW b,
         (UNCHANGED loop /\ l = loop[n]) \/ loop' = [loop EXCEPT ![n] = l],
         (UNCHANGED service /\ r = service[n]) \/ service' = [service EXCEPT ![n] = r],
         (UNCHANGED binder /\ b = binder[n]) \/ binder' = [binder EXCEPT ![n] = b],
         \A k \in Instance \ {n} : preview'[k] = preview[k],
         \A k \in Instance \ {n} : Works(k)' = Works(k),
         SoundOf(l, r, b, preview'[n], Works(n)')
  PROVE  Sound'
  <1>1. loop'[n] = l /\ service'[n] = r /\ binder'[n] = b
    BY DEF NInv, TypeOK
  <1>2. \A k \in Instance \ {n} :
          loop'[k] = loop[k] /\ service'[k] = service[k] /\ binder'[k] = binder[k]
    BY DEF NInv, TypeOK
  <1>3. ASSUME NEW k \in Instance
        PROVE  SoundOf(loop'[k], service'[k], binder'[k], preview'[k], Works(k)')
    <2>1. CASE k = n
      BY <1>1, <2>1
    <2>2. CASE k # n
      BY <1>2, <2>2 DEF NInv, Sound, SoundOf
    <2> QED BY <2>1, <2>2
  <1> QED BY <1>3 DEF Sound

\* A section that only sheds what the service holds.
LEMMA ServeSheds ==
  ASSUME NInv, NEW n \in Instance, Alive(n), NEW r, Sheds(service[n], r),
         Serve(n, r), UNCHANGED <<loop, binder, preview, work>>,
         binder[n] = None \/ (r.seen = service[n].seen /\ (r.poisoned => service[n].poisoned))
  PROVE  Sound' /\ service' \in [Instance -> Service]
  <1>1. loop[n] \in Active /\ Works(n) \subseteq Lease /\ r \in Service
    BY DEF Alive, Active, Serving, Works, Sheds
  <1>2. binder[n] # None => binder[n].id \in Lease
    BY DEF NInv, TypeOK, Request
  <1>3. SoundOf(loop[n], service[n], binder[n], preview[n], Works(n))
    BY DEF NInv, Sound
  <1>4. SoundOf(loop[n], r, binder[n], preview[n], Works(n))
    BY <1>1, <1>2, <1>3, ShedsSound
  <1>5. Works(n)' = Works(n) /\ \A k \in Instance : Works(k)' = Works(k)
    BY DEF Works
  <1>6. preview'[n] = preview[n]
    OBVIOUS
  <1>7. SoundOf(loop[n], r, binder[n], preview'[n], Works(n)')
    BY <1>4, <1>5, <1>6 DEF SoundOf
  <1>8. service' = [service EXCEPT ![n] = r]
    BY DEF Serve
  <1>9. Sound'
    BY <1>5, <1>7, <1>8, OneProcess
  <1> QED BY <1>1, <1>8, <1>9 DEF NInv, TypeOK

(* What the client hears. *)

\* An answer to the session i: it settles a bind as at, or closes the binding.
Hears(i, at, closes) ==
  /\ client' \in [Lease -> Binding]
  /\ \A j \in Lease :
       LET c == client[j]
           d == client'[j]
       IN /\ d.instance = c.instance /\ (d.claimed <=> c.claimed)
          /\ c.closed => d.closed
          /\ d.closed => c.closed \/ (j = i /\ closes)
          /\ d.at = c.at \/ (j = i /\ c.at = "binding" /\ d.at = at)

LEMMA HearsNothing ==
  ASSUME TypeOK, UNCHANGED client, NEW i, NEW at, NEW closes
  PROVE  Hears(i, at, closes)
  BY DEF Hears, TypeOK

LEMMA HearsAnswer ==
  ASSUME TypeOK, NEW i \in Lease, NEW at, NEW closes, NEW c \in Binding, Become(i, c),
         c.instance = client[i].instance, c.claimed <=> client[i].claimed,
         client[i].closed => c.closed, c.closed => client[i].closed \/ closes,
         c.at = client[i].at \/ (client[i].at = "binding" /\ c.at = at)
  PROVE  Hears(i, at, closes)
  <1>1. client' \in [Lease -> Binding] /\ client'[i] = c
        /\ \A j \in Lease \ {i} : client'[j] = client[j]
    BY DEF TypeOK, Become
  <1> QED BY <1>1 DEF Hears

LEMMA HearsBind ==
  ASSUME TypeOK, NEW m \in Request, NEW at \in {"held", "refused"}, AnswerBind(m, at)
  PROVE  Hears(m.id, at, FALSE)
  <1>1. CASE UNCHANGED client
    BY <1>1, HearsNothing
  <1>2. CASE client[m.id].at = "binding" /\ Become(m.id, [client[m.id] EXCEPT !.at = at])
    <2>1. m.id \in Lease /\ client[m.id] \in Binding
      BY DEF TypeOK, Request
    <2> DEFINE c == [client[m.id] EXCEPT !.at = at]
    <2>2. /\ c \in Binding /\ c.instance = client[m.id].instance /\ c.at = at
          /\ (c.claimed <=> client[m.id].claimed) /\ (c.closed <=> client[m.id].closed)
      BY <2>1 DEF Binding
    <2>3. Become(m.id, c)
      BY <1>2
    <2> HIDE DEF c
    <2> QED BY <1>2, <2>1, <2>2, <2>3, HearsAnswer
  <1> QED BY <1>1, <1>2 DEF AnswerBind, Answer

LEMMA HearsClose ==
  ASSUME TypeOK, NEW i \in Lease,
         UNCHANGED client \/ Become(i, [client[i] EXCEPT !.closed = TRUE])
  PROVE  Hears(i, "refused", TRUE)
  <1>1. CASE UNCHANGED client
    BY <1>1, HearsNothing
  <1>2. CASE Become(i, [client[i] EXCEPT !.closed = TRUE])
    <2> DEFINE c == [client[i] EXCEPT !.closed = TRUE]
    <2>0. client[i] \in Binding
      BY DEF TypeOK
    <2>1. /\ c \in Binding /\ c.instance = client[i].instance /\ c.at = client[i].at
          /\ (c.claimed <=> client[i].claimed) /\ c.closed
      BY <2>0 DEF Binding
    <2>2. Become(i, c)
      BY <1>2
    <2> HIDE DEF c
    <2> QED BY <2>1, <2>2, HearsAnswer
  <1> QED BY <1>1, <1>2

LEMMA HearsDeadline ==
  ASSUME TypeOK, NEW i \in Lease, NEW u \in Nat,
         UNCHANGED client \/ Become(i, [client[i] EXCEPT !.expires = u])
  PROVE  Hears(i, "refused", FALSE)
  <1>1. CASE UNCHANGED client
    BY <1>1, HearsNothing
  <1>2. CASE Become(i, [client[i] EXCEPT !.expires = u])
    <2> DEFINE c == [client[i] EXCEPT !.expires = u]
    <2>0. client[i] \in Binding
      BY DEF TypeOK
    <2>1. /\ c \in Binding /\ c.instance = client[i].instance /\ c.at = client[i].at
          /\ (c.claimed <=> client[i].claimed) /\ (c.closed <=> client[i].closed)
      BY <2>0 DEF Binding
    <2>2. Become(i, c)
      BY <1>2
    <2> HIDE DEF c
    <2> QED BY <2>1, <2>2, HearsAnswer
  <1> QED BY <1>1, <1>2

(* What the controller sends. *)

LEMMA SendNet ==
  ASSUME net \subseteq Request, NEW m \in Request, Send(m)
  PROVE  /\ net' \subseteq Request /\ net \subseteq net'
         /\ \A o \in net' \ net : o.kind = m.kind /\ o.id = m.id /\ o.to = m.to /\ o.until = m.until
  <1> DEFINE c == [m EXCEPT !.copy = TRUE]
  <1>1. c \in Request /\ c.kind = m.kind /\ c.id = m.id /\ c.to = m.to /\ c.until = m.until
    BY DEF Request
  <1>2. PICK C \in SUBSET {c} : net' = net \cup {m} \cup C
    BY DEF Send
  <1> HIDE DEF c
  <1> QED BY <1>1, <1>2

-----------------------------------------------------------------------------
(* The steps that bring about nothing new: requests are consumed, what is held goes. *)

\* Nothing becomes a lease, or an idle lease, and what was seen is remembered for its time.
Forgets(s, r) ==
  \A i \in Lease :
    /\ \/ r.leases[i] = None
       \/ s.leases[i] # None /\ (s.leases[i].engine = "none" \/ r.leases[i].engine # "none")
    /\ r.seen[i] = s.seen[i] \/ (s.seen[i] # None /\ now >= s.seen[i])

Fewer(s, r) == \A i \in Lease : r.leases[i] # None => s.leases[i] # None

\* Streams that wait at n for their preparation, and sessions whose DELETE does.
Streams(n) == {m \in net : m.kind = "stream" /\ m.to = n}
Asked(n) == {m.id : m \in {o \in net : o.to = n}}

Calm(i, closes) ==
  /\ Hears(i, "refused", closes) /\ UNCHANGED <<now, past>>
  /\ net' \subseteq net /\ work' \subseteq work
  /\ \A n \in Instance :
       /\ binder'[n] = binder[n] \/ binder'[n] = None
       /\ preparing'[n] \subseteq preparing[n] \cup Streams(n)
       /\ waiting'[n] \subseteq waiting[n] \cup Asked(n)
       /\ loop'[n] \in Serving => loop[n] \in Serving /\ Forgets(service[n], service'[n])
       /\ Fewer(service[n], service'[n])
       /\ loop'[n] = "unborn" => loop[n] = "unborn"

LEMMA ForgetsFewer ==
  ASSUME NEW s, NEW r, Forgets(s, r)
  PROVE  Fewer(s, r)
  BY DEF Forgets, Fewer

LEMMA ShedsForgets ==
  ASSUME NEW s, NEW r, Sheds(s, r)
  PROVE  Forgets(s, r)
  BY DEF Sheds, Forgets

LEMMA ShedStep ==
  ASSUME NInv, NEW n \in Instance, Alive(n), NEW r, Sheds(service[n], r),
         (UNCHANGED service /\ r = service[n]) \/ Serve(n, r),
         binder[n] = None \/ (r.seen = service[n].seen /\ (r.poisoned => service[n].poisoned)),
         UNCHANGED <<now, loop, stopping, alarm, preview, binder, work, past>>,
         NEW i, NEW closes, Hears(i, "refused", closes), net' \subseteq net,
         UNCHANGED preparing \/
           \E P \in SUBSET (preparing[n] \cup Streams(n)) : preparing' = [preparing EXCEPT ![n] = P],
         UNCHANGED waiting \/
           \E W \in SUBSET (waiting[n] \cup Asked(n)) : waiting' = [waiting EXCEPT ![n] = W]
  PROVE  NInv' /\ Calm(i, closes)
  <1>1. Serve(n, r)
    BY DEF Serve, NInv, TypeOK
  <1>2. Sound' /\ service' \in [Instance -> Service]
    BY <1>1, ServeSheds
  <1>3. Streams(n) \subseteq Request /\ Asked(n) \subseteq Lease
    BY DEF NInv, TypeOK, Streams, Asked, Request
  <1>4. /\ preparing' \in [Instance -> SUBSET Request]
        /\ \A k \in Instance : preparing'[k] \subseteq preparing[k] \cup Streams(k)
    BY <1>3 DEF NInv, TypeOK
  <1>5. /\ waiting' \in [Instance -> SUBSET Lease]
        /\ \A k \in Instance : waiting'[k] \subseteq waiting[k] \cup Asked(k)
    BY <1>3 DEF NInv, TypeOK
  <1>6. TypeOK'
    BY <1>2, <1>4, <1>5 DEF NInv, TypeOK, Hears
  <1>7. \A k \in Instance : Forgets(service[k], service'[k])
    <2>1. service'[n] = r /\ \A k \in Instance \ {n} : service'[k] = service[k]
      BY <1>1 DEF Serve, NInv, TypeOK
    <2>2. \A k \in Instance \ {n} : Forgets(service[k], service[k])
      BY DEF Forgets
    <2>3. Forgets(service[n], r)
      BY ShedsForgets
    <2>4. ASSUME NEW k \in Instance
          PROVE  Forgets(service[k], service'[k])
      <3>1. CASE k = n
        BY <2>1, <2>3, <3>1
      <3>2. CASE k # n
        BY <2>1, <2>2, <3>2
      <3> QED BY <3>1, <3>2
    <2> QED BY <2>4
  <1>8. Calm(i, closes)
    BY <1>4, <1>5, <1>7, ForgetsFewer DEF Calm
  <1> QED BY <1>2, <1>6, <1>8 DEF NInv

LEMMA ServiceType ==
  ASSUME NInv, NEW n \in Instance
  PROVE  /\ service[n] \in Service /\ loop[n] \in {"unborn", "looking", "asleep", "draining", "stopped", "dead"}
         /\ binder[n] \in Request \cup {None} /\ preparing[n] \subseteq Request /\ waiting[n] \subseteq Lease
  BY DEF NInv, TypeOK

LEMMA MisdirectedStep ==
  ASSUME NInv, NEW n \in Instance, NEW m \in net, Misdirected(n, m)
  PROVE  NInv' /\ Calm(m.id, FALSE)
  <1>1. /\ Alive(n) /\ net' \subseteq net
        /\ UNCHANGED <<now, client, loop, stopping, alarm, preview, service, binder, preparing, waiting, work, past>>
    BY DEF Misdirected, process
  <1>2. Sheds(service[n], service[n])
    BY ServiceType, ShedsNothing
  <1>3. Hears(m.id, "refused", FALSE)
    BY <1>1, HearsNothing DEF NInv
  <1> QED BY <1>1, <1>2, <1>3, ShedStep

LEMMA NoSlotStep ==
  ASSUME NInv, NEW n \in Instance, NEW m \in net, NoSlot(n, m)
  PROVE  NInv' /\ Calm(m.id, FALSE)
  <1>1. /\ Alive(n) /\ net' \subseteq net
        /\ UNCHANGED <<now, loop, stopping, alarm, preview, service, binder, preparing, waiting, work, past>>
        /\ AnswerBind(m, "refused") \/ UNCHANGED client
    BY DEF NoSlot, Delivered, process
  <1>2. Sheds(service[n], service[n])
    BY ServiceType, ShedsNothing
  <1>3. Hears(m.id, "refused", FALSE)
    BY <1>1, HearsNothing, HearsBind DEF NInv, TypeOK
  <1> QED BY <1>1, <1>2, <1>3, ShedStep

LEMMA GetStep ==
  ASSUME NInv, NEW n \in Instance, NEW m \in net, Get(n, m)
  PROVE  NInv' /\ Calm(m.id, FALSE)
  <1>1. /\ Alive(n) /\ net' \subseteq net /\ binder[n] = None
        /\ UNCHANGED <<now, client, loop, stopping, alarm, preview, binder, preparing, waiting, work, past>>
    BY DEF Get, Delivered, Unlocked, process
  <1>2. PICK failed, S : \E r \in {prune(service[n], failed), stopLease(prune(service[n], failed), S, failed)} :
          Serve(n, r)
    BY DEF Get
  <1>3. \A r \in {prune(service[n], failed), stopLease(prune(service[n], failed), S, failed)} :
          Sheds(service[n], r)
    BY ServiceType, PruneSheds, StopAfterPrune
  <1>4. Hears(m.id, "refused", FALSE)
    BY <1>1, HearsNothing DEF NInv
  <1> QED BY <1>1, <1>2, <1>3, <1>4, ShedStep

\* A DELETE that is confirmed has found no lease, or released it.
LEMMA DeleteStep ==
  ASSUME NInv, NEW n \in Instance, NEW m \in net, Delete(n, m)
  PROVE  /\ NInv'
         /\ \/ Calm(m.id, FALSE)
            \/ Calm(m.id, TRUE) /\ m.to = n /\ service'[n].leases[m.id] = None /\ Alive(n)
  <1>1. /\ Alive(n) /\ net' \subseteq net /\ binder[n] = None /\ m.id \in Lease /\ m.to = n
        /\ UNCHANGED <<now, loop, stopping, alarm, preview, binder, preparing, work, past>>
    BY DEF Delete, Delivered, Unlocked, process, Accepts, NInv, TypeOK, Request
  <1>2. PICK failed : \E s, r \in Service :
          /\ s = prune(service[n], failed) /\ r = stopLease(s, {m.id}, failed)
          /\ Sheds(service[n], s) /\ Sheds(service[n], r)
          /\ \/ Serve(n, s) /\ UNCHANGED <<client, waiting>>
             \/ /\ m.id \notin Held(s) \ Idle(s)
                /\ Serve(n, r)
                /\ UNCHANGED client \/ AnswerClose(m)
                /\ UNCHANGED waiting
             \/ /\ Serve(n, r)
                /\ waiting' = [waiting EXCEPT ![n] = @ \cup {m.id}]
                /\ UNCHANGED client
    <2>1. PICK failed :
            LET s == prune(service[n], failed)
                r == stopLease(s, {m.id}, failed)
            IN \/ Serve(n, s) /\ UNCHANGED <<client, waiting>>
               \/ /\ m.id \notin Held(s) \ Idle(s)
                  /\ Serve(n, r)
                  /\ UNCHANGED client \/ AnswerClose(m)
                  /\ UNCHANGED waiting
               \/ /\ Serve(n, r)
                  /\ waiting' = [waiting EXCEPT ![n] = @ \cup {m.id}]
                  /\ UNCHANGED client
      BY DEF Delete
    <2>2. /\ Sheds(service[n], prune(service[n], failed))
          /\ Sheds(service[n], stopLease(prune(service[n], failed), {m.id}, failed))
      BY ServiceType, PruneSheds, StopAfterPrune
    <2>3. /\ prune(service[n], failed) \in Service
          /\ stopLease(prune(service[n], failed), {m.id}, failed) \in Service
      BY <2>2 DEF Sheds
    <2> QED BY <2>1, <2>2, <2>3
  <1>3. PICK s, r \in Service :
          /\ s = prune(service[n], failed) /\ r = stopLease(s, {m.id}, failed)
          /\ Sheds(service[n], s) /\ Sheds(service[n], r)
          /\ \/ Serve(n, s) /\ UNCHANGED <<client, waiting>>
             \/ /\ m.id \notin Held(s) \ Idle(s)
                /\ Serve(n, r)
                /\ UNCHANGED client \/ AnswerClose(m)
                /\ UNCHANGED waiting
             \/ /\ Serve(n, r)
                /\ waiting' = [waiting EXCEPT ![n] = @ \cup {m.id}]
                /\ UNCHANGED client
    BY <1>2
  <1>4. UNCHANGED client => Hears(m.id, "refused", FALSE)
    BY HearsNothing DEF NInv
  <1>5. CASE Serve(n, s) /\ UNCHANGED <<client, waiting>>
    BY <1>1, <1>3, <1>4, <1>5, ShedStep
  <1>6. CASE /\ m.id \notin Held(s) \ Idle(s)
             /\ Serve(n, r)
             /\ UNCHANGED client \/ AnswerClose(m)
             /\ UNCHANGED waiting
    <2>1. r.leases[m.id] = None
      <3>1. m.id \in Idle(s) \/ s.leases[m.id] = None
        BY <1>1, <1>6 DEF Held
      <3>2. r = stopLease(s, {m.id}, failed) /\ s \in Service
        BY <1>3
      <3> DEFINE S == {m.id}
      <3>3. \A i \in Lease :
              /\ i \in S \cap Idle(s) => r.leases[i] = None
              /\ i \notin S \cap Idle(s) /\ ~(i \in S \cap Held(s) /\ s.leases[i].engine = "running") =>
                   r.leases[i] = s.leases[i]
        <4> HIDE DEF S
        <4>1. r = stopLease(s, S, failed)
          BY <3>2 DEF S
        <4> QED BY ONLY <3>2, <4>1, StopFields
      <3> QED BY <1>1, <3>1, <3>3 DEF Held
    <2>2. service'[n].leases[m.id] = None
      BY <1>6, <2>1 DEF Serve, NInv, TypeOK
    <2>3. Hears(m.id, "refused", TRUE)
      BY <1>1, <1>6, HearsClose DEF AnswerClose, Answer, NInv
    <2> QED BY <1>1, <1>3, <1>6, <2>2, <2>3, ShedStep
  <1>7. CASE /\ Serve(n, r)
             /\ waiting' = [waiting EXCEPT ![n] = @ \cup {m.id}]
             /\ UNCHANGED client
    <2>1. m.id \in Asked(n)
      BY <1>1 DEF Asked
    <2>2. waiting[n] \cup {m.id} \in SUBSET (waiting[n] \cup Asked(n))
      BY <2>1
    <2> QED BY <1>1, <1>3, <1>4, <1>7, <2>2, ShedStep
  <1> QED BY <1>3, <1>5, <1>6, <1>7

LEMMA WaitsStep ==
  ASSUME NInv, NEW n \in Instance, NEW i \in Lease, DeleteTimesOut(n, i)
  PROVE  NInv' /\ Calm(i, FALSE)
  <1>1. /\ Alive(n) /\ net' = net
        /\ waiting' = [waiting EXCEPT ![n] = @ \ {i}]
        /\ UNCHANGED <<now, client, loop, stopping, alarm, preview, service, binder, preparing, work, past>>
    BY DEF DeleteTimesOut, process, wire
  <1>2. Sheds(service[n], service[n])
    BY ServiceType, ShedsNothing
  <1>3. Hears(i, "refused", FALSE)
    BY <1>1, HearsNothing DEF NInv
  <1>4. waiting[n] \ {i} \in SUBSET (waiting[n] \cup Asked(n))
    OBVIOUS
  <1>5. waiting' = [waiting EXCEPT ![n] = waiting[n] \ {i}]
    BY <1>1
  <1> QED BY <1>1, <1>2, <1>3, <1>4, <1>5, ShedStep

LEMMA StreamArrivesStep ==
  ASSUME NInv, NEW n \in Instance, NEW m \in net, StreamArrives(n, m)
  PROVE  NInv' /\ Calm(m.id, FALSE)
  <1>1. /\ Alive(n) /\ net' \subseteq net /\ m \in Streams(n)
        /\ UNCHANGED preparing \/ preparing' = [preparing EXCEPT ![n] = preparing[n] \cup {m}]
        /\ UNCHANGED <<now, client, loop, stopping, alarm, preview, service, binder, waiting, work, past>>
    BY DEF StreamArrives, Delivered, Accepts, Streams, process
  <1>2. Sheds(service[n], service[n])
    BY ServiceType, ShedsNothing
  <1>3. Hears(m.id, "refused", FALSE)
    BY <1>1, HearsNothing DEF NInv
  <1>4. preparing[n] \cup {m} \in SUBSET (preparing[n] \cup Streams(n))
    BY <1>1
  <1> QED BY <1>1, <1>2, <1>3, <1>4, ShedStep

LEMMA PrepareFailsStep ==
  ASSUME NInv, NEW n \in Instance, NEW m \in preparing[n], PrepareFails(n, m)
  PROVE  NInv' /\ Calm(m.id, FALSE)
  <1>1. /\ Alive(n) /\ net' = net
        /\ preparing' = [preparing EXCEPT ![n] = preparing[n] \ {m}]
        /\ UNCHANGED <<now, client, loop, stopping, alarm, preview, service, binder, waiting, work, past>>
    BY DEF PrepareFails, process, wire
  <1>2. Sheds(service[n], service[n])
    BY ServiceType, ShedsNothing
  <1>3. Hears(m.id, "refused", FALSE)
    BY <1>1, HearsNothing DEF NInv
  <1>4. preparing[n] \ {m} \in SUBSET (preparing[n] \cup Streams(n))
    OBVIOUS
  <1> QED BY <1>1, <1>2, <1>3, <1>4, ShedStep

LEMMA DisconnectsStep ==
  ASSUME NInv, NEW n \in Instance, NEW i \in Lease, Disconnects(n, i)
  PROVE  NInv' /\ Calm(i, FALSE)
  <1> DEFINE s == service[n]
             c == [s.leases[i] EXCEPT !.engine = "cancelled"]
             l == [s.leases EXCEPT ![i] = c]
             r == [s EXCEPT !.leases = l]
  <1>1. /\ Alive(n) /\ s.leases[i] # None /\ s.leases[i].engine = "running" /\ net' = net
        /\ UNCHANGED <<now, client, loop, stopping, alarm, preview, binder, preparing, waiting, work, past>>
    BY DEF Disconnects, process, wire, Held
  <1>2. Serve(n, r)
    BY DEF Disconnects
  <1>3. s \in Service /\ s.leases[i] \in LeaseRecord
    BY <1>1, ServiceType DEF Service
  <1>4. c \in LeaseRecord /\ c.engine = "cancelled" /\ c # None
    BY <1>3, NoneAssumption DEF LeaseRecord
  <1> HIDE DEF c
  <1>5. /\ l \in [Lease -> LeaseRecord \cup {None}] /\ l[i] = c
        /\ \A j \in Lease \ {i} : l[j] = s.leases[j]
    BY <1>3, <1>4 DEF Service
  <1> HIDE DEF l, s
  <1>6. /\ r \in Service /\ r.leases = l /\ r.open = s.open /\ r.seen = s.seen
        /\ (r.poisoned <=> s.poisoned)
    BY <1>3, <1>5 DEF Service
  <1> HIDE DEF r
  <1>7. Sheds(s, r)
    BY <1>1, <1>4, <1>5, <1>6 DEF Sheds
  <1>8. Hears(i, "refused", FALSE)
    BY <1>1, HearsNothing DEF NInv
  <1>9. Sheds(service[n], r) /\ r.seen = service[n].seen /\ (r.poisoned => service[n].poisoned)
    BY <1>6, <1>7 DEF s
  <1> QED BY <1>1, <1>2, <1>8, <1>9, ShedStep

(* The expire loop and the life of a process. *)

\* The loop of a process moves, and may shed.
LEMMA LoopStep ==
  ASSUME NInv, NEW n \in Instance, Unlocked(n), loop[n] \in Serving, NEW l \in Serving,
         loop' = [loop EXCEPT ![n] = l], NEW r, Sheds(service[n], r),
         (UNCHANGED service /\ r = service[n]) \/ Serve(n, r),
         alarm' \in [Instance -> Nat \cup {None}],
         UNCHANGED <<wire, stopping, preview, binder, preparing, waiting, work, past>>
  PROVE  NInv' /\ \A i \in Lease : Calm(i, FALSE)
  <1>1. SoundOf(loop[n], service[n], binder[n], preview[n], Works(n)) /\ binder[n] = None
    BY DEF NInv, Sound, Unlocked
  <1>2. SoundOf(loop[n], r, binder[n], preview[n], Works(n))
    BY <1>1, ShedsSound DEF Active, Works
  <1>3. Works(n)' = Works(n) /\ \A k \in Instance : Works(k)' = Works(k)
    BY DEF Works
  <1>4. SoundOf(l, r, binder[n], preview'[n], Works(n)')
    BY <1>1, <1>2, <1>3 DEF SoundOf, Serving, Active
  <1>5. service' = [service EXCEPT ![n] = r]
    BY DEF Serve, NInv, TypeOK
  <1>6. Sound'
    BY <1>3, <1>4, <1>5, OneProcess
  <1>7. r \in Service
    BY DEF Sheds
  <1>8. TypeOK'
    BY <1>5, <1>7 DEF NInv, TypeOK, wire, Serving
  <1>9. \A k \in Instance : Forgets(service[k], service'[k])
    <2>1. Forgets(service[n], r) /\ service'[n] = r
      BY <1>5, ShedsForgets DEF NInv, TypeOK
    <2>2. \A k \in Instance \ {n} : service'[k] = service[k]
      BY <1>5 DEF NInv, TypeOK
    <2>3. ASSUME NEW k \in Instance
          PROVE  Forgets(service[k], service'[k])
      <3>1. CASE k = n
        BY <2>1, <3>1
      <3>2. CASE k # n
        BY <2>2, <3>2 DEF Forgets
      <3> QED BY <3>1, <3>2
    <2> QED BY <2>3
  <1>10. /\ \A k \in Instance : loop'[k] \in Serving => loop[k] \in Serving
         /\ \A k \in Instance : loop'[k] = "unborn" => loop[k] = "unborn"
    BY DEF NInv, TypeOK, Serving
  <1>11. ASSUME NEW i \in Lease
         PROVE  Hears(i, "refused", FALSE)
    BY HearsNothing DEF NInv, wire
  <1>12. ASSUME NEW i \in Lease
         PROVE  Calm(i, FALSE)
    BY <1>9, <1>10, <1>11, ForgetsFewer DEF Calm, wire
  <1> QED BY <1>6, <1>8, <1>12 DEF NInv

LEMMA ScheduleStep ==
  ASSUME NInv, NEW n \in Instance, Schedule(n) \/ Fires(n)
  PROVE  NInv' /\ \A i \in Lease : Calm(i, FALSE)
  <1>1. CASE Schedule(n)
    <2>1. Sheds(service[n], service[n])
      BY ServiceType, ShedsNothing
    <2>2. nextExpiry(service[n]) \in Nat \cup {None}
      BY ServiceType, NextExpiryType
    <2>3. alarm' \in [Instance -> Nat \cup {None}]
      BY <1>1, <2>2 DEF Schedule, NInv, TypeOK
    <2>4. /\ loop[n] = "looking" /\ Unlocked(n) /\ loop' = [loop EXCEPT ![n] = "asleep"]
          /\ UNCHANGED <<wire, stopping, preview, service, binder, preparing, waiting, work, past>>
      BY <1>1 DEF Schedule, At
    <2> QED BY <2>1, <2>3, <2>4, LoopStep DEF Serving
  <1>2. CASE Fires(n)
    <2>1. PICK failed : Serve(n, prune(service[n], failed))
      BY <1>2 DEF Fires
    <2>2. Sheds(service[n], prune(service[n], failed))
      BY ServiceType, PruneSheds
    <2>3. /\ loop[n] = "asleep" /\ Unlocked(n) /\ loop' = [loop EXCEPT ![n] = "looking"]
          /\ UNCHANGED <<wire, stopping, alarm, preview, binder, preparing, waiting, work, past>>
      BY <1>2 DEF Fires, At
    <2>4. alarm' \in [Instance -> Nat \cup {None}]
      BY <2>3 DEF NInv, TypeOK
    <2> QED BY <2>1, <2>2, <2>3, <2>4, LoopStep DEF Serving
  <1> QED BY <1>1, <1>2

\* The notification is taken, whoever holds the lock.
LEMMA WokenStep ==
  ASSUME NInv, NEW n \in Instance, Woken(n)
  PROVE  NInv' /\ \A i \in Lease : Calm(i, FALSE)
  <1> DEFINE s == service[n]
             r == [s EXCEPT !.wake = FALSE]
  <1>1. /\ loop[n] = "asleep" /\ loop' = [loop EXCEPT ![n] = "looking"]
        /\ service' = [service EXCEPT ![n] = r]
        /\ UNCHANGED <<wire, stopping, alarm, preview, binder, preparing, waiting, work, past>>
    BY DEF Woken, At, Serve
  <1>2. s \in Service
    BY ServiceType
  <1> HIDE DEF s
  <1>3. /\ r \in Service /\ r.leases = s.leases /\ r.open = s.open /\ r.seen = s.seen
        /\ (r.poisoned <=> s.poisoned)
    BY <1>2 DEF Service
  <1> HIDE DEF r
  <1>4. SoundOf(loop[n], s, binder[n], preview[n], Works(n))
    BY DEF NInv, Sound, s
  <1>5. Works(n)' = Works(n) /\ \A k \in Instance : Works(k)' = Works(k)
    BY <1>1 DEF Works
  <1>6. SoundOf("looking", r, binder[n], preview'[n], Works(n)')
    <2>1. SoundOf("looking", s, binder[n], preview'[n], Works(n)')
      BY <1>1, <1>4, <1>5 DEF SoundOf, Serving, Active
    <2> QED BY <1>3, <2>1 DEF SoundOf, Handles, Serving, Active
  <1>7. Sound'
    BY <1>1, <1>5, <1>6, OneProcess
  <1>8. TypeOK'
    BY <1>1, <1>3 DEF NInv, TypeOK, wire
  <1>9. ASSUME NEW k \in Instance
        PROVE  Forgets(service[k], service'[k])
    <2>1. CASE k = n
      BY <1>1, <1>3, <2>1 DEF Forgets, NInv, TypeOK, s
    <2>2. CASE k # n
      BY <1>1, <2>2 DEF Forgets, NInv, TypeOK
    <2> QED BY <2>1, <2>2
  <1>10. /\ \A k \in Instance : loop'[k] \in Serving => loop[k] \in Serving
         /\ \A k \in Instance : loop'[k] = "unborn" => loop[k] = "unborn"
    BY <1>1 DEF NInv, TypeOK, Serving
  <1>11. ASSUME NEW i \in Lease
         PROVE  Calm(i, FALSE)
    <2>1. Hears(i, "refused", FALSE)
      BY <1>1, HearsNothing DEF NInv, wire
    <2> QED BY <1>1, <1>9, <1>10, <2>1, ForgetsFewer DEF Calm, wire
  <1> QED BY <1>7, <1>8, <1>11 DEF NInv

\* What a process does about its end, or about a preview, concerns no request.
LEMMA CalmElsewhere ==
  ASSUME NInv, NEW n \in Instance, NEW l, loop' = [loop EXCEPT ![n] = l], l \notin Serving,
         l # "unborn", \A k \in Instance \ {n} : service'[k] = service[k],
         Fewer(service[n], service'[n]),
         UNCHANGED <<wire, preparing, waiting, past>>, work' \subseteq work,
         \A k \in Instance : binder'[k] = binder[k] \/ binder'[k] = None
  PROVE  \A i \in Lease : Calm(i, FALSE)
  <1>1. ASSUME NEW k \in Instance
        PROVE  /\ loop'[k] \in Serving => loop[k] \in Serving /\ Forgets(service[k], service'[k])
               /\ loop'[k] = "unborn" => loop[k] = "unborn"
               /\ Fewer(service[k], service'[k])
    <2>1. CASE k = n
      BY <2>1 DEF NInv, TypeOK
    <2>2. CASE k # n
      BY <2>2 DEF NInv, TypeOK, Forgets, Fewer
    <2> QED BY <2>1, <2>2
  <1>2. ASSUME NEW i \in Lease
        PROVE  Hears(i, "refused", FALSE)
    BY HearsNothing DEF NInv, wire
  <1> QED BY <1>1, <1>2 DEF Calm, wire

LEMMA DrainsStep ==
  ASSUME NInv, NEW n \in Instance, Drains(n)
  PROVE  NInv' /\ \A i \in Lease : Calm(i, FALSE)
  <1> DEFINE s == service[n]
             none == [i \in Lease |-> None]
  <1>1. /\ Unlocked(n) /\ loop' = [loop EXCEPT ![n] = "draining"] /\ loop[n] = "asleep"
        /\ UNCHANGED <<wire, stopping, alarm, preview, binder, preparing, waiting, work, past>>
    BY DEF Drains, At
  <1>2. PICK failed : Serve(n, [stopLease(s, Lease, failed) EXCEPT !.seen = none])
    BY DEF Drains
  <1> DEFINE q == stopLease(s, Lease, failed)
             r == [q EXCEPT !.seen = none]
  <1>3. Sheds(s, q)
    BY ServiceType, StopSheds
  <1>4. none \in [Lease -> Nat \cup {None}]
    OBVIOUS
  <1>5. service' = [service EXCEPT ![n] = r]
    BY <1>2 DEF Serve
  <1> HIDE DEF q, none
  <1>6. /\ r \in Service /\ r.leases = q.leases /\ r.open = q.open /\ (r.poisoned <=> q.poisoned)
    BY <1>3, <1>4 DEF Service, Sheds
  <1> HIDE DEF r
  <1>7. SoundOf(loop[n], s, binder[n], preview[n], Works(n)) /\ binder[n] = None
    BY <1>1 DEF NInv, Sound, Unlocked
  <1>8. SoundOf(loop[n], q, binder[n], preview[n], Works(n))
    BY <1>1, <1>3, <1>7, ShedsSound DEF Active, Serving, Works
  <1>9. Works(n)' = Works(n) /\ \A k \in Instance : Works(k)' = Works(k)
    BY <1>1 DEF Works
  <1>10. SoundOf("draining", r, binder[n], preview'[n], Works(n)')
    BY <1>1, <1>6, <1>7, <1>8, <1>9 DEF SoundOf, Serving, Active, Handles
  <1>11. Sound'
    BY <1>1, <1>5, <1>9, <1>10, OneProcess
  <1>12. TypeOK'
    BY <1>1, <1>5, <1>6 DEF NInv, TypeOK, wire
  <1>13. \A i \in Lease : Calm(i, FALSE)
    <2>1. \A k \in Instance \ {n} : service'[k] = service[k]
      BY <1>5 DEF NInv, TypeOK
    <2>2. service'[n] = r /\ Fewer(s, r)
      BY <1>3, <1>5, <1>6 DEF NInv, TypeOK, Sheds, Fewer
    <2> QED BY <1>1, <2>1, <2>2, CalmElsewhere DEF Serving
  <1> QED BY <1>11, <1>12, <1>13 DEF NInv

LEMMA StopsStep ==
  ASSUME NInv, NEW n \in Instance, Stops(n)
  PROVE  NInv' /\ \A i \in Lease : Calm(i, FALSE)
  <1>1. /\ loop[n] = "draining" /\ loop' = [loop EXCEPT ![n] = "stopped"]
        /\ Held(service[n]) = {} /\ preview[n] \notin Inspecting
        /\ UNCHANGED <<wire, stopping, alarm, preview, service, binder, preparing, waiting, work, past>>
    BY DEF Stops, At, Drained
  <1>2. SoundOf(loop[n], service[n], binder[n], preview[n], Works(n))
    BY DEF NInv, Sound
  <1>3. \A i \in Lease : service[n].leases[i] = None
    BY <1>1 DEF Held
  <1>4. Works(n)' = Works(n) /\ \A k \in Instance : Works(k)' = Works(k)
    BY <1>1 DEF Works
  <1>5. SoundOf("stopped", service[n], binder[n], preview'[n], Works(n)')
    BY <1>1, <1>2, <1>3, <1>4 DEF SoundOf, Serving, Active
  <1>6. Sound'
    BY <1>1, <1>4, <1>5, OneProcess
  <1>7. TypeOK'
    BY <1>1 DEF NInv, TypeOK, wire
  <1>8. \A i \in Lease : Calm(i, FALSE)
    BY <1>1, CalmElsewhere DEF Serving, Fewer
  <1> QED BY <1>6, <1>7, <1>8 DEF NInv

LEMMA DiesStep ==
  ASSUME NInv, NEW n \in Instance, Dies(n)
  PROVE  NInv' /\ \A i \in Lease : Calm(i, FALSE)
  <1>1. /\ loop' = [loop EXCEPT ![n] = "dead"] /\ service' = [service EXCEPT ![n] = Empty]
        /\ binder' = [binder EXCEPT ![n] = None] /\ alarm' = [alarm EXCEPT ![n] = None]
        /\ preview' = [preview EXCEPT ![n] = "none"] /\ UNCHANGED <<wire, stopping, past>>
    BY DEF Dies, At, Serve, Previews
  <1>2. /\ preparing' = [preparing EXCEPT ![n] = {}] /\ waiting' = [waiting EXCEPT ![n] = {}]
        /\ work' \subseteq work /\ \A x \in work : x[1] # n => x \in work'
    BY DEF Dies
  <1>3. Empty \in Service
    BY DEF Empty, Service
  <1>4. SoundOf("dead", Empty, None, preview'[n], Works(n)')
    <2>1. preview'[n] = "none"
      BY <1>1 DEF NInv, TypeOK
    <2> QED BY <2>1 DEF SoundOf, Active, Serving, Handles, Empty
  <1>5. \A k \in Instance \ {n} : Works(k)' = Works(k)
    BY <1>2 DEF Works
  <1>6. Sound'
    <2>1. \A k \in Instance \ {n} : preview'[k] = preview[k]
      BY <1>1 DEF NInv, TypeOK
    <2> QED BY <1>1, <1>4, <1>5, <2>1, OneProcess
  <1>7. TypeOK'
    BY <1>1, <1>2, <1>3 DEF NInv, TypeOK, Preview, wire
  <1>8. \A i \in Lease : Calm(i, FALSE)
    <2>1. ASSUME NEW k \in Instance
          PROVE  /\ loop'[k] \in Serving => loop[k] \in Serving /\ Forgets(service[k], service'[k])
                 /\ loop'[k] = "unborn" => loop[k] = "unborn"
                 /\ Fewer(service[k], service'[k])
                 /\ binder'[k] = binder[k] \/ binder'[k] = None
                 /\ preparing'[k] \subseteq preparing[k] /\ waiting'[k] \subseteq waiting[k]
      <3>1. CASE k = n
        BY <1>1, <1>2, <3>1 DEF NInv, TypeOK, Serving, Fewer, Empty
      <3>2. CASE k # n
        BY <1>1, <1>2, <3>2 DEF NInv, TypeOK, Forgets, Fewer
      <3> QED BY <3>1, <3>2
    <2>2. ASSUME NEW i \in Lease
          PROVE  Calm(i, FALSE)
      <3>1. Hears(i, "refused", FALSE)
        BY <1>1, HearsNothing DEF NInv, wire
      <3> QED BY <1>1, <1>2, <2>1, <3>1 DEF Calm, wire
    <2> QED BY <2>2
  <1> QED BY <1>6, <1>7, <1>8 DEF NInv

LEMMA StartsStep ==
  ASSUME NInv, NEW n \in Instance, Starts(n)
  PROVE  NInv'
  <1>1. /\ loop[n] = "unborn" /\ loop' = [loop EXCEPT ![n] = "looking"]
        /\ UNCHANGED <<wire, stopping, alarm, preview, service, binder, preparing, waiting, work, past>>
    BY DEF Starts, At
  <1>2. /\ SoundOf(loop[n], service[n], binder[n], preview[n], Works(n))
        /\ service[n] = Empty /\ binder[n] = None /\ Works(n) = {}
    BY <1>1 DEF NInv, Sound, SoundOf, Active, Serving
  <1>3. Works(n)' = Works(n) /\ \A k \in Instance : Works(k)' = Works(k)
    BY <1>1 DEF Works
  <1>4. SoundOf("looking", service[n], binder[n], preview'[n], Works(n)')
    BY <1>1, <1>2, <1>3 DEF SoundOf, Active, Serving, Handles, Empty
  <1>5. Sound'
    BY <1>1, <1>3, <1>4, OneProcess
  <1>6. TypeOK'
    BY <1>1 DEF NInv, TypeOK, wire
  <1> QED BY <1>5, <1>6 DEF NInv

LEMMA PreviewStep ==
  ASSUME NInv, NEW n \in Instance, Terminate(n) \/ PreviewBegins(n) \/ PreviewResolves(n) \/ PreviewEnds(n)
  PROVE  NInv' /\ \A i \in Lease : Calm(i, FALSE)
  <1>1. /\ UNCHANGED <<wire, loop, alarm, binder, preparing, waiting, work, past>>
        /\ preview' \in [Instance -> Preview] /\ stopping' \subseteq Instance
        /\ \A k \in Instance \ {n} : preview'[k] = preview[k]
    BY DEF Terminate, PreviewBegins, PreviewResolves, PreviewEnds, Previews, Preview, Inspecting,
           NInv, TypeOK
  <1>2. Works(n)' = Works(n) /\ \A k \in Instance : Works(k)' = Works(k)
    BY <1>1 DEF Works
  <1> DEFINE s == service[n]
  <1>3. SoundOf(loop[n], s, binder[n], preview[n], Works(n)) /\ s \in Service
    BY ServiceType DEF NInv, Sound
  <1>4. \E r \in Service :
          /\ (UNCHANGED service /\ r = s) \/ service' = [service EXCEPT ![n] = r]
          /\ r.leases = s.leases /\ r.open = s.open /\ r.seen = s.seen
          /\ SoundOf(loop[n], r, binder[n], preview'[n], Works(n)')
    <2>1. CASE Terminate(n)
      BY <1>2, <1>3, <2>1 DEF Terminate
    <2>2. CASE PreviewBegins(n) \/ PreviewResolves(n)
      <3>1. /\ UNCHANGED service /\ preview'[n] # "unconfirmed"
            /\ loop[n] = "stopped" => preview[n] \in Inspecting
        BY <2>2 DEF PreviewBegins, PreviewResolves, Previews, Inspecting, Closed, NInv, TypeOK
      <3> QED BY <1>2, <1>3, <3>1 DEF SoundOf
    <2>3. CASE PreviewEnds(n)
      <3>1. /\ preview'[n] \notin Inspecting /\ binder[n] = None /\ loop[n] \in Active
            /\ \/ UNCHANGED service /\ preview'[n] = "none"
               \/ service' = [service EXCEPT ![n] = [s EXCEPT !.poisoned = TRUE]]
        BY <2>3 DEF PreviewEnds, Previews, Inspecting, Serve, Unlocked, Alive, Active, Serving, NInv, TypeOK
      <3>2. CASE UNCHANGED service /\ preview'[n] = "none"
        BY <1>2, <1>3, <3>1, <3>2 DEF SoundOf
      <3> DEFINE r == [s EXCEPT !.poisoned = TRUE]
      <3>3. CASE service' = [service EXCEPT ![n] = r]
        <4>1. r \in Service /\ r.leases = s.leases /\ r.open = s.open /\ r.seen = s.seen /\ r.poisoned
          BY <1>3 DEF Service
        <4> HIDE DEF r
        <4>2. SoundOf(loop[n], r, binder[n], preview'[n], Works(n)')
          BY <1>2, <1>3, <3>1, <4>1 DEF SoundOf, Handles
        <4> QED BY <3>3, <4>1, <4>2
      <3> QED BY <3>1, <3>2, <3>3
    <2> QED BY <2>1, <2>2, <2>3
  <1>5. PICK r \in Service :
          /\ (UNCHANGED service /\ r = s) \/ service' = [service EXCEPT ![n] = r]
          /\ r.leases = s.leases /\ r.open = s.open /\ r.seen = s.seen
          /\ SoundOf(loop[n], r, binder[n], preview'[n], Works(n)')
    BY <1>4
  <1>6. Sound'
    BY <1>1, <1>2, <1>5, OneProcess
  <1>7. TypeOK'
    BY <1>1, <1>5 DEF NInv, TypeOK, wire
  <1>8. ASSUME NEW k \in Instance
        PROVE  Forgets(service[k], service'[k])
    <2>1. CASE k = n
      BY <1>5, <2>1 DEF NInv, TypeOK, Forgets
    <2>2. CASE k # n
      BY <1>5, <2>2 DEF NInv, TypeOK, Forgets
    <2> QED BY <2>1, <2>2
  <1>9. ASSUME NEW i \in Lease
        PROVE  Calm(i, FALSE)
    <2>1. Hears(i, "refused", FALSE)
      BY <1>1, HearsNothing DEF NInv, wire
    <2> QED BY <1>1, <1>8, <2>1, ForgetsFewer DEF Calm, wire
  <1> QED BY <1>6, <1>7, <1>9 DEF NInv

\* One service changes in a section of its own, under which nothing begins.
LEMMA CalmHere ==
  ASSUME NInv, NEW n \in Instance, NEW r, Forgets(service[n], r), Serve(n, r),
         UNCHANGED <<now, loop, binder, past>>, net' \subseteq net, work' \subseteq work,
         \A k \in Instance : preparing'[k] \subseteq preparing[k],
         \A k \in Instance : waiting'[k] \subseteq waiting[k],
         NEW i, NEW closes, Hears(i, "refused", closes)
  PROVE  Calm(i, closes)
  <1>1. ASSUME NEW k \in Instance
        PROVE  Forgets(service[k], service'[k])
    <2>1. CASE k = n
      BY <2>1 DEF Serve, NInv, TypeOK
    <2>2. CASE k # n
      BY <2>2 DEF Serve, NInv, TypeOK, Forgets
    <2> QED BY <2>1, <2>2
  <1> QED BY <1>1, ForgetsFewer DEF Calm

LEMMA PanicsStep ==
  ASSUME NInv, NEW n \in Instance, NEW i \in Lease, Panics(n, i)
  PROVE  NInv' /\ Calm(i, FALSE)
  <1> DEFINE s == service[n]
             c == [s.leases[i] EXCEPT !.engine = "lost"]
             l == [s.leases EXCEPT ![i] = c]
             r == [s EXCEPT !.leases = l, !.poisoned = TRUE]
  <1>1. /\ Unlocked(n) /\ s.leases[i] # None /\ s.leases[i].engine # "none" /\ Serve(n, r)
        /\ UNCHANGED <<wire, process, binder, preparing, waiting, work, past>>
    BY DEF Panics, Held, Running
  <1>2. s \in Service /\ s.leases[i] \in LeaseRecord
    BY <1>1, ServiceType DEF Service
  <1>3. c \in LeaseRecord /\ c.engine = "lost" /\ c # None
    BY <1>2, NoneAssumption DEF LeaseRecord
  <1> HIDE DEF c
  <1>4. /\ l \in [Lease -> LeaseRecord \cup {None}] /\ l[i] = c
        /\ \A j \in Lease \ {i} : l[j] = s.leases[j]
    BY <1>2, <1>3 DEF Service
  <1> HIDE DEF l
  <1>5. /\ r \in Service /\ r.leases = l /\ r.open = s.open /\ r.seen = s.seen /\ r.poisoned
    BY <1>2, <1>4 DEF Service
  <1> HIDE DEF r
  <1>6. /\ SoundOf(loop[n], s, binder[n], preview[n], Works(n)) /\ binder[n] = None
        /\ loop[n] \in Active /\ Works(n) \subseteq Lease
    BY <1>1 DEF NInv, Sound, Unlocked, Alive, Active, Serving, Works
  <1>7. Works(n)' = Works(n) /\ \A k \in Instance : Works(k)' = Works(k)
    BY <1>1 DEF Works
  <1> HIDE DEF s
  <1>8. SoundOf(loop[n], r, binder[n], preview'[n], Works(n)')
    <2>1. SoundOf(loop[n], r, binder[n], preview[n], Works(n))
      <3>1. Handles(r)
        BY <1>1, <1>3, <1>4, <1>5, <1>6 DEF SoundOf, Handles, s
      <3>2. \A j \in Works(n) : r.leases[j] # None /\ r.leases[j].engine # "none"
        BY <1>3, <1>4, <1>5, <1>6 DEF SoundOf
      <3>3. loop[n] \notin {"draining", "stopped"} =>
              \A j \in Lease : r.leases[j] # None => r.seen[j] # None
        BY <1>1, <1>4, <1>5, <1>6 DEF SoundOf
      <3>4. loop[n] # "stopped" /\ (preview[n] = "unconfirmed" => r.poisoned)
        BY <1>1, <1>4, <1>5, <1>6 DEF SoundOf
      <3> QED BY <1>6, <3>1, <3>2, <3>3, <3>4 DEF SoundOf, Active, Serving
    <2> QED BY <1>1, <1>7, <2>1 DEF SoundOf, process
  <1>9. service' = [service EXCEPT ![n] = r] /\ UNCHANGED <<loop, binder, preview>>
    BY <1>1 DEF Serve, process
  <1>10. Sound'
    BY <1>7, <1>8, <1>9, OneProcess
  <1>11. TypeOK'
    BY <1>1, <1>5, <1>9 DEF NInv, TypeOK, wire, process
  <1>12. Forgets(service[n], r)
    BY <1>1, <1>3, <1>4, <1>5 DEF Forgets, s
  <1>13. Hears(i, "refused", FALSE)
    BY <1>1, HearsNothing DEF NInv, wire
  <1>14. Calm(i, FALSE)
    BY <1>1, <1>9, <1>12, <1>13, CalmHere DEF wire
  <1> QED BY <1>10, <1>11, <1>14 DEF NInv

\* The handle closes after the engine; a DELETE that waited for that is confirmed.
LEMMA FinishStep ==
  ASSUME NInv, NEW n \in Instance, NEW i \in Lease, finish(n, i)
  PROVE  /\ NInv' /\ service'[n].leases[i] = None /\ <<n, i>> \notin work' /\ Alive(n)
         /\ Calm(i, FALSE) \/ (Calm(i, TRUE) /\ i \in waiting[n])
  <1> DEFINE s == service[n]
  <1>1. /\ Unlocked(n) /\ s.leases[i] # None
        /\ work' = work \ {<<n, i>>} /\ waiting' = [waiting EXCEPT ![n] = @ \ {i}]
        /\ UNCHANGED <<now, net, loop, stopping, alarm, preview, binder, preparing, past>>
    BY DEF finish, Running, Held, process
  <1>2. PICK failed \in Failures({i}) :
          /\ Serve(n, Release(s, {i}, failed))
          /\ UNCHANGED client \/ (i \in waiting[n] /\ Become(i, [client[i] EXCEPT !.closed = TRUE]))
    BY DEF finish
  <1> DEFINE r == Release(s, {i}, failed)
  <1>3. s \in Service
    BY ServiceType
  <1>4. /\ r \in Service
        /\ \A j \in Lease : r.leases[j] = (IF j \in {i} THEN None ELSE s.leases[j])
        /\ r.open = s.open \ ({i} \ failed) /\ r.seen = s.seen
        /\ r.poisoned <=> (s.poisoned \/ failed # {})
    <2>1. {i} \in SUBSET Lease
      OBVIOUS
    <2> HIDE DEF s
    <2> QED BY ONLY <1>3, <2>1, ReleaseFields
  <1>5. service' = [service EXCEPT ![n] = r] /\ Serve(n, r)
    BY <1>2 DEF Serve
  <1> HIDE DEF r
  <1>6. /\ SoundOf(loop[n], s, binder[n], preview[n], Works(n)) /\ binder[n] = None
        /\ loop[n] \in Active /\ Works(n) \subseteq Lease
    BY <1>1 DEF NInv, Sound, Unlocked, Alive, Active, Serving, Works
  <1>7. /\ Works(n)' = Works(n) \ {i} /\ \A k \in Instance \ {n} : Works(k)' = Works(k)
    BY <1>1 DEF Works
  <1>8. SoundOf(loop[n], r, binder[n], preview'[n], Works(n)')
    <2> DEFINE W == Works(n) \ {i}
    <2>1. SoundOf(loop[n], r, binder[n], preview[n], W)
      <3>1. Handles(r)
        BY <1>4, <1>6 DEF SoundOf, Handles
      <3>2. \A j \in W : r.leases[j] # None /\ r.leases[j].engine # "none"
        BY <1>4, <1>6 DEF SoundOf
      <3>3. loop[n] \notin {"draining", "stopped"} =>
              \A j \in Lease : r.leases[j] # None => r.seen[j] # None
        BY <1>4, <1>6 DEF SoundOf
      <3>4. loop[n] # "stopped" /\ (preview[n] = "unconfirmed" => r.poisoned)
        BY <1>1, <1>4, <1>5, <1>6 DEF SoundOf
      <3> QED BY <1>6, <3>1, <3>2, <3>3, <3>4 DEF SoundOf, Active, Serving
    <2> HIDE DEF W
    <2>2. Works(n)' = W /\ preview' = preview
      BY <1>1, <1>7 DEF W
    <2> QED BY <2>1, <2>2 DEF SoundOf
  <1>9. Sound'
    BY <1>1, <1>5, <1>7, <1>8, OneProcess
  <1>10. Hears(i, "refused", FALSE) \/ (Hears(i, "refused", TRUE) /\ i \in waiting[n])
    BY <1>2, HearsNothing, HearsClose DEF NInv
  <1>11. TypeOK'
    BY <1>1, <1>4, <1>5, <1>10 DEF NInv, TypeOK, Hears
  <1>12. Forgets(s, r)
    BY <1>4 DEF Forgets
  <1>13. Calm(i, FALSE) \/ (Calm(i, TRUE) /\ i \in waiting[n])
    <2>1. \A k \in Instance : waiting'[k] \subseteq waiting[k]
      BY <1>1 DEF NInv, TypeOK
    <2> QED BY <1>1, <1>5, <1>10, <1>12, <2>1, CalmHere
  <1>14. service'[n].leases[i] = None
    BY <1>4, <1>5 DEF NInv, TypeOK
  <1> QED BY <1>1, <1>9, <1>11, <1>13, <1>14 DEF NInv, Unlocked

-----------------------------------------------------------------------------
(* The steps that bring about a bind, a lease or an engine. *)

\* bind is admitted and resolves its target, s being what prune has left.
Takes(n, m) ==
  /\ m \in net /\ m.kind = "bind" /\ m.to = n /\ net' = net \ {m} /\ now < m.until
  /\ loop[n] \in Serving /\ binder[n] = None /\ binder' = [binder EXCEPT ![n] = m]
  /\ UNCHANGED <<now, client, loop, preparing, waiting, work, past>>
  /\ \E s, q \in Service :
       /\ Sheds(service[n], s) /\ ~Refuses(s, m.id) /\ ~s.poisoned
       /\ service' = [service EXCEPT ![n] = q]
       /\ q.leases = s.leases /\ q.open = s.open /\ q.seen = [s.seen EXCEPT ![m.id] = m.until]

\* The step of BindBegins that admits m.
Admits(n, s, m) ==
  /\ ~Closed(n) /\ ~s.poisoned /\ ~Refuses(s, m.id)
  /\ Serve(n, [s EXCEPT !.seen[m.id] = m.until, !.wake = TRUE])
  /\ binder' = [binder EXCEPT ![n] = m]
  /\ UNCHANGED client

LEMMA TakesStep ==
  ASSUME NInv, NEW n \in Instance, NEW m \in net, BindBegins(n, m)
  PROVE  NInv' /\ (Calm(m.id, FALSE) \/ Takes(n, m))
  <1>1. /\ Unlocked(n) /\ Alive(n) /\ binder[n] = None /\ net' = net \ {m} /\ m.kind = "bind" /\ m.to = n
        /\ m \in Request /\ m.id \in Lease /\ m.until \in Nat
        /\ UNCHANGED <<now, loop, stopping, alarm, preview, preparing, waiting, work, past>>
    <2>1. m \in Request /\ m.id \in Lease /\ m.until \in Nat
      BY DEF NInv, TypeOK, Request
    <2>2. /\ Delivered(n, m, "bind") /\ Unlocked(n)
          /\ UNCHANGED <<now, process, preparing, waiting, work, past>>
      BY Zenon DEF BindBegins
    <2> QED BY <2>1, <2>2 DEF Delivered, Accepts, Unlocked, process
  <1>2. CASE UNCHANGED <<service, binder>> /\ AnswerBind(m, "refused")
    <2>1. Sheds(service[n], service[n])
      BY ServiceType, ShedsNothing
    <2>2. Hears(m.id, "refused", FALSE)
      BY <1>1, <1>2, HearsBind DEF NInv
    <2> QED BY <1>1, <1>2, <2>1, <2>2, ShedStep
  <1>3. ASSUME NEW failed, Serve(n, prune(service[n], failed)), UNCHANGED binder,
               UNCHANGED client \/ AnswerBind(m, "refused")
        PROVE  NInv' /\ Calm(m.id, FALSE)
    <2>1. Sheds(service[n], prune(service[n], failed))
      BY ServiceType, PruneSheds
    <2>2. Hears(m.id, "refused", FALSE)
      BY <1>1, <1>3, HearsNothing, HearsBind DEF NInv
    <2> QED BY <1>1, <1>3, <2>1, <2>2, ShedStep
  <1>4. ASSUME NEW failed, now < m.until, Admits(n, prune(service[n], failed), m)
        PROVE  NInv' /\ Takes(n, m)
    <2> DEFINE s == prune(service[n], failed)
               e == [s.seen EXCEPT ![m.id] = m.until]
               q == [s EXCEPT !.seen = e, !.wake = TRUE]
    <2>1. Sheds(service[n], s)
      BY ServiceType, PruneSheds
    <2>2. Admits(n, s, m)
      BY <1>4
    <2>4. s \in Service
      BY <2>1 DEF Sheds
    <2> HIDE DEF s
    <2>3. /\ service' = [service EXCEPT ![n] = q] /\ ~Closed(n) /\ ~s.poisoned /\ ~Refuses(s, m.id)
          /\ binder' = [binder EXCEPT ![n] = m] /\ UNCHANGED client
      BY <2>2 DEF Admits, Serve
    <2>5. /\ e \in [Lease -> Nat \cup {None}] /\ e[m.id] = m.until
          /\ \A i \in Lease \ {m.id} : e[i] = s.seen[i]
      BY <1>1, <2>4 DEF Service
    <2>6. e = [s.seen EXCEPT ![m.id] = m.until]
      OBVIOUS
    <2> HIDE DEF e
    <2>7. /\ q \in Service /\ q.leases = s.leases /\ q.open = s.open /\ q.seen = e
          /\ (q.poisoned <=> s.poisoned)
      BY <2>4, <2>5 DEF Service
    <2> HIDE DEF q
    <2>8. loop[n] \in Serving /\ loop[n] \in Active
      BY <1>1, <2>3 DEF Alive, Closed, Serving, Active
    <2>9. SoundOf(loop[n], s, None, preview[n], Works(n))
      <3>1. SoundOf(loop[n], service[n], None, preview[n], Works(n))
        BY <1>1 DEF NInv, Sound
      <3> QED BY <2>1, <2>8, <3>1, ShedsSound DEF Works
    <2>10. s.seen[m.id] = None /\ s.leases[m.id] = None
      <3>1. s.seen[m.id] = None
        BY <1>1, <2>3 DEF Refuses, Seen
      <3> QED BY <1>1, <2>8, <2>9, <3>1 DEF SoundOf, Serving
    <2>11. SoundOf(loop[n], q, m, preview[n], Works(n))
      <3>1. Handles(q)
        BY <2>7, <2>9 DEF SoundOf, Handles
      <3>2. \A i \in Works(n) : q.leases[i] # None /\ q.leases[i].engine # "none"
        BY <2>7, <2>8, <2>9 DEF SoundOf
      <3>3. \A i \in Lease : q.leases[i] # None => q.seen[i] # None
        <4>1. \A i \in Lease : s.leases[i] # None => s.seen[i] # None
          BY <2>8, <2>9 DEF SoundOf, Serving
        <4> QED BY <2>5, <2>7, <2>10, <4>1
      <3>4. ~q.poisoned /\ q.leases[m.id] = None /\ q.seen[m.id] = m.until
        BY <2>3, <2>5, <2>7, <2>10
      <3>5. preview[n] # "unconfirmed"
        BY <2>3, <2>9 DEF SoundOf
      <3> QED BY <2>8, <3>1, <3>2, <3>3, <3>4, <3>5 DEF SoundOf, Serving, Active
    <2>12. Works(n)' = Works(n) /\ \A k \in Instance : Works(k)' = Works(k)
      BY <1>1 DEF Works
    <2>13. SoundOf(loop[n], q, m, preview'[n], Works(n)')
      BY <1>1, <2>11, <2>12 DEF SoundOf
    <2>14. Sound'
      BY <1>1, <2>3, <2>12, <2>13, OneProcess
    <2>15. TypeOK'
      BY <1>1, <2>3, <2>7 DEF NInv, TypeOK
    <2>16. Takes(n, m)
      BY <1>1, <1>4, <2>1, <2>3, <2>4, <2>6, <2>7, <2>8 DEF Takes
    <2> QED BY <2>14, <2>15, <2>16 DEF NInv
  <1>5. \/ UNCHANGED <<service, binder>> /\ AnswerBind(m, "refused")
        \/ now < m.until /\ \E failed \in Failures(Due(service[n])) :
             LET s == prune(service[n], failed) IN
             \/ Serve(n, s) /\ UNCHANGED binder /\ (UNCHANGED client \/ AnswerBind(m, "refused"))
             \/ Admits(n, s, m)
    BY Zenon DEF BindBegins, Admits
  <1> QED BY Zenon, <1>2, <1>3, <1>4, <1>5

\* The target was resolved: its lease.
Keeps(n) ==
  LET m == binder[n] IN
  /\ m # None /\ now < m.until
  /\ Hears(m.id, "held", FALSE) /\ binder' = [binder EXCEPT ![n] = None]
  /\ past' = [past EXCEPT ![<<n, m.id>>] = IF @ = "nothing" THEN "bound" ELSE @]
  /\ UNCHANGED <<now, net, loop, preparing, waiting, work>>
  /\ \E r \in Service :
       /\ service' = [service EXCEPT ![n] = r]
       /\ r.leases = [service[n].leases EXCEPT ![m.id] = [expires |-> m.until, engine |-> "none"]]
       /\ r.open = service[n].open \cup {m.id} /\ r.seen = service[n].seen

LEMMA BindEndsStep ==
  ASSUME NInv, NEW n \in Instance, BindEnds(n)
  PROVE  NInv' /\ (Keeps(n) \/ Calm(binder[n].id, FALSE))
  <1> DEFINE m == binder[n]
             s == service[n]
  <1>1. /\ m # None /\ m \in Request /\ m.id \in Lease /\ m.until \in Nat /\ s \in Service
        /\ binder' = [binder EXCEPT ![n] = None]
        /\ UNCHANGED <<now, net, loop, stopping, alarm, preview, preparing, waiting, work>>
    BY ServiceType DEF BindEnds, process, Request
  <1>2. /\ SoundOf(loop[n], s, m, preview[n], Works(n))
        /\ loop[n] \in Serving /\ s.leases[m.id] = None /\ s.seen[m.id] = m.until
        /\ preview[n] # "unconfirmed"
    BY <1>1 DEF NInv, Sound, SoundOf
  <1>3. Works(n)' = Works(n) /\ \A k \in Instance : Works(k)' = Works(k)
    BY <1>1 DEF Works
  <1>4. \A k \in Instance : binder'[k] = binder[k] \/ binder'[k] = None
    BY <1>1 DEF NInv, TypeOK
  \* The bind ends without a lease; a handle may stay open.
  <1>5. ASSUME NEW r \in Service, r.leases = s.leases, r.seen = s.seen,
               service' = [service EXCEPT ![n] = r], UNCHANGED past, Hears(m.id, "refused", FALSE),
               Handles(r)
        PROVE  NInv' /\ Calm(m.id, FALSE)
    <2>1. SoundOf(loop[n], r, None, preview'[n], Works(n)')
      <3>1. \A i \in Works(n) : r.leases[i] # None /\ r.leases[i].engine # "none"
        BY <1>2, <1>5 DEF SoundOf, Serving, Active
      <3>2. \A i \in Lease : r.leases[i] # None => r.seen[i] # None
        BY <1>2, <1>5 DEF SoundOf, Serving
      <3> QED BY <1>1, <1>2, <1>3, <1>5, <3>1, <3>2 DEF SoundOf, Serving, Active
    <2>2. Sound'
      <3> HIDE DEF m, s
      <3> QED BY <1>1, <1>3, <1>5, <2>1, OneProcess
    <2>3. TypeOK'
      BY <1>1, <1>5 DEF NInv, TypeOK, Hears
    <2>4. ASSUME NEW k \in Instance
          PROVE  Forgets(service[k], service'[k])
      <3>1. CASE k = n
        BY <1>5, <3>1 DEF Forgets, NInv, TypeOK
      <3>2. CASE k # n
        BY <1>5, <3>2 DEF Forgets, NInv, TypeOK
      <3> QED BY <3>1, <3>2
    <2>5. Calm(m.id, FALSE)
      BY <1>1, <1>4, <1>5, <2>4, ForgetsFewer DEF Calm
    <2> QED BY <2>2, <2>3, <2>5 DEF NInv
  <1>6. CASE UNCHANGED <<service, past>> /\ (UNCHANGED client \/ AnswerBind(m, "refused"))
    <2>1. Hears(m.id, "refused", FALSE)
      BY <1>1, <1>6, HearsNothing, HearsBind DEF NInv
    <2>2. service' = [service EXCEPT ![n] = s] /\ Handles(s)
      BY <1>2, <1>6 DEF NInv, TypeOK, SoundOf
    <2> QED BY <1>1, <1>5, <1>6, <2>1, <2>2
  <1>7. CASE /\ Serve(n, [s EXCEPT !.open = @ \cup {m.id}, !.poisoned = TRUE])
             /\ UNCHANGED <<client, past>>
    <2> DEFINE o == s.open \cup {m.id}
               r == [s EXCEPT !.open = o, !.poisoned = TRUE]
    <2>1. service' = [service EXCEPT ![n] = r] /\ o \in SUBSET Lease
      BY <1>1, <1>7 DEF Serve, Service
    <2>2. \A i \in Lease : s.leases[i] # None => i \in o
      BY <1>2 DEF SoundOf, Handles
    <2>3. Hears(m.id, "refused", FALSE)
      BY <1>1, <1>7, HearsNothing DEF NInv
    <2> HIDE DEF o
    <2>4. r \in Service /\ r.leases = s.leases /\ r.seen = s.seen /\ r.open = o /\ r.poisoned
      BY <1>1, <2>1 DEF Service
    <2> HIDE DEF r
    <2>5. Handles(r)
      BY <2>2, <2>4 DEF Handles
    <2> QED BY <1>5, <1>7, <2>1, <2>3, <2>4, <2>5
  <1>8. CASE /\ now < m.until
             /\ Serve(n, [s EXCEPT !.leases[m.id] = [expires |-> m.until, engine |-> "none"],
                                   !.open = @ \cup {m.id}])
             /\ AnswerBind(m, "held")
             /\ past' = [past EXCEPT ![<<n, m.id>>] = IF @ = "nothing" THEN "bound" ELSE @]
    <2> DEFINE c == [expires |-> m.until, engine |-> "none"]
               l == [s.leases EXCEPT ![m.id] = c]
               o == s.open \cup {m.id}
               r == [s EXCEPT !.leases = l, !.open = o]
    <2>1. service' = [service EXCEPT ![n] = r] /\ o \in SUBSET Lease
      BY <1>1, <1>8 DEF Serve, Service
    <2>2. c \in LeaseRecord /\ c # None /\ c.engine = "none"
      BY <1>1, NoneAssumption DEF LeaseRecord
    <2> HIDE DEF c
    <2>3. /\ l \in [Lease -> LeaseRecord \cup {None}] /\ l[m.id] = c
          /\ \A i \in Lease \ {m.id} : l[i] = s.leases[i]
      BY <1>1, <2>2 DEF Service
    <2>4. l = [s.leases EXCEPT ![m.id] = [expires |-> m.until, engine |-> "none"]]
      BY DEF c
    <2>5. o = s.open \cup {m.id}
      OBVIOUS
    <2> HIDE DEF l, o
    <2>6. /\ r \in Service /\ r.leases = l /\ r.open = o /\ r.seen = s.seen
          /\ (r.poisoned <=> s.poisoned)
      BY <1>1, <2>1, <2>3 DEF Service
    <2> HIDE DEF r
    <2>7. Hears(m.id, "held", FALSE)
      BY <1>1, <1>8, HearsBind DEF NInv
    <2>8. SoundOf(loop[n], r, None, preview[n], Works(n))
      <3>1. Handles(r)
        <4>1. ASSUME NEW i \in Lease
              PROVE  /\ r.leases[i] # None => i \in r.open
                     /\ i \in r.open => r.leases[i] # None \/ r.poisoned
          <5>1. CASE i = m.id
            BY <2>2, <2>3, <2>5, <2>6, <5>1
          <5>2. CASE i # m.id
            <6>1. /\ s.leases[i] # None => i \in s.open
                  /\ i \in s.open => s.leases[i] # None \/ s.poisoned
              BY <1>2 DEF SoundOf, Handles
            <6>2. r.leases[i] = s.leases[i]
              BY <2>3, <2>6, <5>2
            <6> HIDE DEF m, s
            <6> QED BY <2>5, <2>6, <5>2, <6>1, <6>2
          <5> QED BY <5>1, <5>2
        <4> QED BY <4>1 DEF Handles
      <3>2. \A i \in Works(n) : r.leases[i] # None /\ r.leases[i].engine # "none"
        BY <1>2, <2>3, <2>6 DEF SoundOf, Serving, Active, Works
      <3>3. \A i \in Lease : r.leases[i] # None => r.seen[i] # None
        <4>1. m.until # None
          BY <1>1, NoneAssumption
        <4> QED BY <1>2, <2>3, <2>6, <4>1 DEF SoundOf, Serving
      <3> QED BY <1>2, <3>1, <3>2, <3>3 DEF SoundOf, Serving, Active
    <2>9. SoundOf(loop[n], r, None, preview'[n], Works(n)')
      BY <1>1, <1>3, <2>8 DEF SoundOf
    <2>10. Sound'
      <3> HIDE DEF m, s
      <3> QED BY <1>1, <1>3, <2>1, <2>9, OneProcess
    <2>11. past' \in [Instance \X Lease -> {"nothing", "bound", "started"}]
      BY <1>1, <1>8 DEF NInv, TypeOK
    <2>12. TypeOK'
      BY <1>1, <2>1, <2>6, <2>7, <2>11 DEF NInv, TypeOK, Hears
    <2>13. Keeps(n)
      BY <1>1, <1>8, <2>1, <2>4, <2>5, <2>6, <2>7 DEF Keeps
    <2> QED BY <2>10, <2>12, <2>13 DEF NInv
  <1> QED BY <1>6, <1>7, <1>8 DEF BindEnds

\* An engine is started under the lease, s being what prune has left.
Begins(n, m) ==
  /\ m \in preparing[n] /\ preparing' = [preparing EXCEPT ![n] = preparing[n] \ {m}]
  /\ loop[n] \in Serving /\ binder[n] = None /\ m.until > now
  /\ Hears(m.id, "refused", FALSE)
  /\ work' = work \cup {<<n, m.id>>} /\ past' = [past EXCEPT ![<<n, m.id>>] = "started"]
  /\ UNCHANGED <<now, net, loop, binder, waiting>>
  /\ \E s, q \in Service :
       /\ Sheds(service[n], s) /\ m.id \in Idle(s)
       /\ service' = [service EXCEPT ![n] = q]
       /\ q.leases = [s.leases EXCEPT ![m.id] = [expires |-> m.until, engine |-> "running"]]
       /\ q.open = s.open /\ q.seen = [s.seen EXCEPT ![m.id] = m.until]

\* The step of activate that starts the engine of m.
Runs(n, s, m) ==
  /\ Serve(n, [s EXCEPT !.leases[m.id] = [expires |-> m.until, engine |-> "running"],
                        !.seen[m.id] = m.until, !.wake = TRUE])
  /\ work' = work \cup {<<n, m.id>>} /\ past' = [past EXCEPT ![<<n, m.id>>] = "started"]
  /\ IF client[m.id].closed THEN UNCHANGED client
     ELSE Answer(m, [client[m.id] EXCEPT !.expires = m.until])

LEMMA ActivateStep ==
  ASSUME NInv, NEW n \in Instance, NEW m \in preparing[n], activate(n, m)
  PROVE  NInv' /\ (Calm(m.id, FALSE) \/ Begins(n, m))
  <1>1. /\ Alive(n) /\ binder[n] = None /\ net' = net /\ m \in Request /\ m.id \in Lease /\ m.until \in Nat
        /\ preparing' = [preparing EXCEPT ![n] = preparing[n] \ {m}]
        /\ UNCHANGED <<now, loop, stopping, alarm, preview, binder, waiting>>
    BY ServiceType DEF activate, Unlocked, process, Request
  <1>2. ASSUME NEW r, Sheds(service[n], r), Serve(n, r), UNCHANGED <<client, work, past>>
        PROVE  NInv' /\ Calm(m.id, FALSE)
    <2>1. Hears(m.id, "refused", FALSE)
      BY <1>2, HearsNothing DEF NInv
    <2>2. preparing[n] \ {m} \in SUBSET (preparing[n] \cup Streams(n))
      OBVIOUS
    <2> QED BY <1>1, <1>2, <2>1, <2>2, ShedStep
  <1>3. ASSUME NEW failed, MayActivate(n, prune(service[n], failed), m),
               Runs(n, prune(service[n], failed), m)
        PROVE  NInv' /\ Begins(n, m)
    <2> DEFINE s == prune(service[n], failed)
               c == [expires |-> m.until, engine |-> "running"]
               l == [s.leases EXCEPT ![m.id] = c]
               e == [s.seen EXCEPT ![m.id] = m.until]
               q == [s EXCEPT !.leases = l, !.seen = e, !.wake = TRUE]
    <2>1. Sheds(service[n], s)
      BY ServiceType, PruneSheds
    <2> HIDE DEF s
    <2>2. /\ service' = [service EXCEPT ![n] = q]
          /\ work' = work \cup {<<n, m.id>>} /\ past' = [past EXCEPT ![<<n, m.id>>] = "started"]
          /\ UNCHANGED client \/ Become(m.id, [client[m.id] EXCEPT !.expires = m.until])
      <3>1. Runs(n, s, m)
        BY <1>3 DEF s
      <3> QED BY <3>1 DEF Runs, Serve, Answer
    <2> USE DEF s
    <2>3. ~Closed(n) /\ ~s.poisoned /\ m.id \in Idle(s) /\ m.until > now
      BY <1>3 DEF MayActivate
    <2>4. s \in Service
      BY <2>1 DEF Sheds
    <2> HIDE DEF s
    <2>5. c \in LeaseRecord /\ c # None /\ c.engine = "running"
      BY <1>1, NoneAssumption DEF LeaseRecord
    <2>6. l = [s.leases EXCEPT ![m.id] = [expires |-> m.until, engine |-> "running"]]
      OBVIOUS
    <2> HIDE DEF c
    <2>7. /\ l \in [Lease -> LeaseRecord \cup {None}] /\ l[m.id] = c
          /\ \A i \in Lease \ {m.id} : l[i] = s.leases[i]
      BY <1>1, <2>4, <2>5 DEF Service
    <2> HIDE DEF l
    <2>8. /\ e \in [Lease -> Nat \cup {None}] /\ e[m.id] = m.until
          /\ \A i \in Lease \ {m.id} : e[i] = s.seen[i]
      BY <1>1, <2>4 DEF Service
    <2>9. e = [s.seen EXCEPT ![m.id] = m.until]
      OBVIOUS
    <2> HIDE DEF e
    <2>10. /\ q \in Service /\ q.leases = l /\ q.open = s.open /\ q.seen = e
           /\ (q.poisoned <=> s.poisoned)
      BY <2>4, <2>7, <2>8 DEF Service
    <2> HIDE DEF q
    <2>11. loop[n] \in Serving /\ loop[n] \in Active
      BY <1>1, <2>3 DEF Alive, Closed, Serving, Active
    <2>12. SoundOf(loop[n], s, None, preview[n], Works(n))
      <3>1. SoundOf(loop[n], service[n], None, preview[n], Works(n))
        BY <1>1 DEF NInv, Sound
      <3> QED BY <2>1, <2>11, <3>1, ShedsSound DEF Works
    <2>13. s.leases[m.id] # None
      BY <2>3 DEF Idle, Held
    <2>14. Works(n)' = Works(n) \cup {m.id} /\ \A k \in Instance \ {n} : Works(k)' = Works(k)
      BY <1>1, <2>2 DEF Works
    <2>15. SoundOf(loop[n], q, None, preview'[n], Works(n)')
      <3>1. Handles(q)
        BY <2>5, <2>7, <2>10, <2>12, <2>13 DEF SoundOf, Handles
      <3>2. \A i \in Works(n)' : q.leases[i] # None /\ q.leases[i].engine # "none"
        <4>1. \A i \in Works(n) : s.leases[i] # None /\ s.leases[i].engine # "none" /\ i \in Lease
          BY <2>11, <2>12 DEF SoundOf, Works
        <4> QED BY <2>5, <2>7, <2>10, <2>14, <4>1
      <3>3. \A i \in Lease : q.leases[i] # None => q.seen[i] # None
        <4>1. \A i \in Lease : s.leases[i] # None => s.seen[i] # None
          BY <2>11, <2>12 DEF SoundOf, Serving
        <4>2. m.until # None
          BY <1>1, NoneAssumption
        <4> QED BY <2>7, <2>8, <2>10, <4>1, <4>2
      <3>4. preview'[n] # "unconfirmed"
        BY <1>1, <2>3, <2>12 DEF SoundOf
      <3> QED BY <2>11, <3>1, <3>2, <3>3, <3>4 DEF SoundOf, Serving, Active
    <2>16. Sound'
      BY <1>1, <2>2, <2>14, <2>15, OneProcess
    <2>17. Hears(m.id, "refused", FALSE)
      BY <1>1, <2>2, HearsDeadline DEF NInv
    <2>18. TypeOK'
      <3>1. past' \in [Instance \X Lease -> {"nothing", "bound", "started"}]
        BY <1>1, <2>2 DEF NInv, TypeOK
      <3>2. work' \subseteq Instance \X Lease
        BY <1>1, <2>2 DEF NInv, TypeOK
      <3>3. service' \in [Instance -> Service] /\ preparing' \in [Instance -> SUBSET Request]
        BY <1>1, <2>2, <2>10 DEF NInv, TypeOK
      <3> QED BY <1>1, <2>17, <3>1, <3>2, <3>3 DEF NInv, TypeOK, Hears
    <2>19. Begins(n, m)
      <3>1. q.leases = [s.leases EXCEPT ![m.id] = [expires |-> m.until, engine |-> "running"]]
        BY <2>6, <2>10
      <3>2. q.seen = [s.seen EXCEPT ![m.id] = m.until]
        BY <2>9, <2>10
      <3> QED BY <1>1, <2>1, <2>2, <2>3, <2>4, <2>10, <2>11, <2>17, <3>1, <3>2 DEF Begins
    <2> QED BY <2>16, <2>18, <2>19 DEF NInv
  <1>4. PICK failed :
          LET s == prune(service[n], failed) IN
          \/ Serve(n, s) /\ UNCHANGED <<client, work, past>>
          \/ Serve(n, stopLease(s, {m.id}, failed)) /\ UNCHANGED <<client, work, past>>
          \/ MayActivate(n, s, m) /\ Runs(n, s, m)
    BY Zenon DEF activate, Runs
  <1>5. /\ Sheds(service[n], prune(service[n], failed))
        /\ Sheds(service[n], stopLease(prune(service[n], failed), {m.id}, failed))
    BY ServiceType, PruneSheds, StopAfterPrune
  <1> QED BY <1>2, <1>3, <1>4, <1>5

-----------------------------------------------------------------------------
(* Time and the controller. *)

LEMMA TickStep ==
  ASSUME NInv, Tick
  PROVE  /\ NInv' /\ now' = now + 1
         /\ UNCHANGED <<client, net, loop, service, binder, preparing, waiting, work, past>>
  <1>1. /\ now' = now + 1
        /\ UNCHANGED <<client, net, process, service, binder, preparing, waiting, work, past>>
    BY DEF Tick
  <1>2. Sound'
    BY <1>1, SameProcesses DEF NInv, process
  <1>3. TypeOK'
    BY <1>1 DEF NInv, TypeOK, process
  <1> QED BY <1>1, <1>2, <1>3 DEF NInv, process

\* The binding i becomes b; unless k is "nothing", a request k is sent for it.
Sends(i, b, k, u) ==
  /\ client' = [client EXCEPT ![i] = b] /\ b \in Binding
  /\ net' \subseteq Request /\ net \subseteq net'
  /\ \A m \in net' \ net : m.kind = k /\ m.id = i /\ m.to = b.instance /\ m.until = u
  /\ UNCHANGED <<now, loop, service, binder, preparing, waiting, work, past>>

LEMMA SendsStep ==
  ASSUME NInv, NEW i \in Lease, NEW b \in Binding, NEW k, NEW u \in Nat, Become(i, b),
         \/ UNCHANGED net
         \/ /\ k \in {"bind", "get", "delete", "stream"} /\ b.instance \in Instance
            /\ Send(Sent(k, i, u)),
         UNCHANGED <<now, process, service, binder, preparing, waiting, work, past>>
  PROVE  NInv' /\ Sends(i, b, k, u)
  <1>1. client' = [client EXCEPT ![i] = b] /\ client'[i] = b /\ client' \in [Lease -> Binding]
    BY DEF Become, NInv, TypeOK
  <1>2. /\ net' \subseteq Request /\ net \subseteq net'
        /\ \A m \in net' \ net : m.kind = k /\ m.id = i /\ m.to = b.instance /\ m.until = u
    <2>1. CASE UNCHANGED net
      BY <2>1 DEF NInv, TypeOK
    <2>2. CASE /\ k \in {"bind", "get", "delete", "stream"} /\ b.instance \in Instance
               /\ Send(Sent(k, i, u))
      <3> DEFINE m == Sent(k, i, u)
      <3>1. m = [kind |-> k, id |-> i, to |-> b.instance, until |-> u, copy |-> FALSE]
        BY <1>1 DEF Sent
      <3>2. m \in Request /\ m.kind = k /\ m.id = i /\ m.to = b.instance /\ m.until = u
        BY <2>2, <3>1 DEF Request
      <3>3. net \subseteq Request /\ Send(m)
        BY <2>2 DEF NInv, TypeOK
      <3> HIDE DEF m
      <3>4. /\ net' \subseteq Request /\ net \subseteq net'
            /\ \A o \in net' \ net : o.kind = m.kind /\ o.id = m.id /\ o.to = m.to /\ o.until = m.until
        BY ONLY <3>2, <3>3, SendNet
      <3> QED BY <3>2, <3>4
    <2> QED BY <2>1, <2>2
  <1>3. Sends(i, b, k, u)
    BY <1>1, <1>2 DEF Sends, process
  <1>4. Sound'
    BY SameProcesses DEF NInv, process
  <1>5. TypeOK'
    BY <1>1, <1>2 DEF NInv, TypeOK, process
  <1> QED BY <1>3, <1>4, <1>5 DEF NInv

-----------------------------------------------------------------------------
(* What is on its way stays harmless. *)

LEMMA RequestTypes ==
  ASSUME TypeOK, NEW k, NEW i
  PROVE  /\ Of(k, i) \subseteq Request
         /\ \A m \in Of(k, i) : m.id \in Lease /\ m.to \in Instance /\ m.until \in Nat
  <1>1. Requests \ {None} \subseteq Request
    BY DEF TypeOK, Requests
  <1>2. Of(k, i) \subseteq Request
    BY <1>1 DEF Of
  <1> QED BY <1>2 DEF Request

LEMMA RequestsKept ==
  ASSUME TypeOK, net' \subseteq net,
         \A n \in Instance : \/ binder'[n] = binder[n] \/ binder'[n] = None
                             \/ binder'[n] \in net,
         \A n \in Instance : preparing'[n] \subseteq preparing[n] \cup Streams(n)
  PROVE  \A k, i : Of(k, i)' \subseteq Of(k, i)
  <1>1. \A n \in Instance : Streams(n) \subseteq net
    BY DEF Streams
  <1>2. ASSUME NEW m \in (Requests \ {None})'
        PROVE  m \in Requests \ {None}
    <2>1. CASE m \in net'
      BY <1>2, <2>1 DEF Requests
    <2>2. CASE \E n \in Instance : m = binder'[n]
      BY <1>2, <2>2 DEF Requests
    <2>3. CASE \E n \in Instance : m \in preparing'[n]
      BY <1>1, <1>2, <2>3 DEF Requests
    <2> QED BY <1>2, <2>1, <2>2, <2>3 DEF Requests
  <1> QED BY <1>2 DEF Of

\* A session of which nothing new arrives at n stays as late as it was.
LEMMA LateKept ==
  ASSUME TypeOK, NEW n \in Instance, NEW i \in Lease, Late(n, i),
         now' \in Nat, now <= now', past'[<<n, i>>] = past[<<n, i>>],
         Of("stream", i)' \subseteq Of("stream", i),
         \A m \in net' : m.kind = "bind" /\ m.id = i => m \in net,
         \/ service'[n].seen[i] = service[n].seen[i]
         \/ service[n].seen[i] # None /\ now >= service[n].seen[i],
         \/ service'[n].leases[i] = None
         \/ /\ service[n].leases[i] # None
            /\ service[n].leases[i].engine = "none" \/ service'[n].leases[i].engine # "none",
         client'[i].closed /\ past[<<n, i>>] = "bound" =>
           client[i].closed \/ service'[n].leases[i] = None,
         binder'[n] = binder[n] \/ binder'[n] = None \/ binder'[n].id # i
  PROVE  Late(n, i)'
  <1>1. now \in Nat /\ service[n] \in Service /\ (service[n].seen[i] # None => service[n].seen[i] \in Nat)
    BY DEF TypeOK, Service
  <1>2. ASSUME NEW m, m.id = i, m.until \in Nat, Remembers(n, m)
        PROVE  Remembers(n, m)'
    <2>1. CASE m.until <= now
      BY <1>1, <1>2, <2>1 DEF Remembers
    <2>2. CASE service[n].seen[i] # None /\ m.until <= service[n].seen[i]
      BY <1>1, <1>2, <2>2 DEF Remembers
    <2> QED BY <1>2, <2>1, <2>2 DEF Remembers
  <1>3. i \in Idle(service'[n]) => i \in Idle(service[n])
    BY DEF Idle, Held
  <1>4. past'[<<n, i>>] = "bound" => \A m \in net' : m.kind = "bind" /\ m.id = i => Remembers(n, m)'
    BY <1>2 DEF Late, TypeOK, Request
  <1>5. ASSUME past'[<<n, i>>] = "started", NEW m \in Of("stream", i)'
        PROVE  /\ Remembers(n, m)'
               /\ \/ m.until <= now'
                  \/ i \notin Idle(service'[n]) /\ ~(binder'[n] # None /\ binder'[n].id = i)
    <2>1. m \in Of("stream", i) /\ m.id = i /\ m.until \in Nat
      BY <1>5, RequestTypes DEF Of
    <2>2. Remembers(n, m) /\ (m.until <= now \/ (i \notin Idle(service[n]) /\ ~(binder[n] # None /\ binder[n].id = i)))
      BY <1>5, <2>1 DEF Late
    <2>3. m.until <= now => m.until <= now'
      BY <1>1, <2>1
    <2> QED BY <1>2, <1>3, <2>1, <2>2, <2>3
  <1>6. past'[<<n, i>>] = "bound" /\ client'[i].closed /\ Of("stream", i)' # {} =>
          service'[n].leases[i] = None
    BY DEF Late
  <1>7. binder'[n] # None /\ binder'[n].id = i => past'[<<n, i>>] # "bound"
    BY DEF Late
  <1> QED BY <1>4, <1>5, <1>6, <1>7 DEF Late

LEMMA AddressedKept ==
  ASSUME TypeOK, Addressed, net' \subseteq net,
         \A j \in Lease : /\ client'[j].instance = client[j].instance
                          /\ client'[j].at = "idle" <=> client[j].at = "idle",
         \A n \in Instance :
           /\ \/ binder'[n] = binder[n] \/ binder'[n] = None
              \/ binder'[n] \in net /\ binder'[n].kind = "bind" /\ binder'[n].to = n
           /\ preparing'[n] \subseteq preparing[n] \cup Streams(n)
           /\ waiting'[n] \subseteq waiting[n] \cup Asked(n),
         \A n \in Instance, j \in Lease :
           past'[<<n, j>>] # "nothing" => n = client[j].instance
  PROVE  Addressed'
  <1>1. \A m \in net : m.id \in Lease /\ m.to = client[m.id].instance
    BY DEF TypeOK, Request, Addressed
  <1>2. \A n \in Instance : /\ \A m \in preparing[n] : m.id \in Lease
                            /\ binder[n] # None => binder[n].id \in Lease
                            /\ \A j \in waiting[n] : j \in Lease
    BY DEF TypeOK, Request
  <1>3. \A m \in net' : m.to = client'[m.id].instance
    BY <1>1
  <1>4. ASSUME NEW n \in Instance
        PROVE  binder'[n] # None => binder'[n].kind = "bind" /\ binder'[n].to = n
                                    /\ n = client'[binder'[n].id].instance
    <2>1. CASE binder'[n] = binder[n]
      BY <1>2, <2>1 DEF Addressed
    <2>2. CASE binder'[n] \in net /\ binder'[n].kind = "bind" /\ binder'[n].to = n
      BY <1>1, <2>2
    <2> QED BY <2>1, <2>2
  <1>5. ASSUME NEW n \in Instance, NEW m \in preparing'[n]
        PROVE  m.kind = "stream" /\ n = client'[m.id].instance
    <2>1. CASE m \in preparing[n]
      BY <1>2, <2>1 DEF Addressed
    <2>2. CASE m \in Streams(n)
      BY <1>1, <2>2 DEF Streams
    <2> QED BY <1>5, <2>1, <2>2
  <1>6. ASSUME NEW n \in Instance, NEW j \in waiting'[n]
        PROVE  n = client'[j].instance
    <2>1. CASE j \in waiting[n]
      BY <1>2, <2>1 DEF Addressed
    <2>2. CASE j \in Asked(n)
      BY <1>1, <2>2 DEF Asked
    <2> QED BY <1>6, <2>1, <2>2
  <1>7. \A n \in Instance, j \in Lease :
          past'[<<n, j>>] # "nothing" => n = client'[j].instance
    OBVIOUS
  <1>8. \A j \in Lease : client'[j].at = "idle" <=> client'[j].instance = None
    BY DEF Addressed
  <1> QED BY <1>3, <1>4, <1>5, <1>6, <1>7, <1>8 DEF Addressed

LEMMA AlikeKept ==
  ASSUME TypeOK, Alike, \A k, j : Of(k, j)' \subseteq Of(k, j),
         \A j \in Lease :
           /\ client'[j].claimed <=> client[j].claimed
           /\ client'[j].at = client[j].at \/ client[j].at = "binding"
           /\ client'[j].at = "held" => past'[<<client'[j].instance, j>>] # "nothing"
           /\ \A n \in Instance : past'[<<n, j>>] = "started" => client[j].claimed
  PROVE  Alike'
  <1>1. ASSUME NEW j \in Lease
        PROVE  AlikeOf(j)'
    <2>1. Of("bind", j)' \subseteq Of("bind", j) /\ Of("stream", j)' \subseteq Of("stream", j)
      OBVIOUS
    <2>2. /\ \A m, o \in Of("bind", j) : m.until = o.until
          /\ \A m, o \in Of("stream", j) : m.until = o.until
          /\ Of("stream", j) # {} => client[j].claimed
          /\ client[j].claimed => client[j].at = "held"
      BY DEF Alike, AlikeOf
    <2> QED BY <2>1, <2>2 DEF AlikeOf
  <1> QED BY <1>1 DEF Alike

LEMMA CalmWired ==
  ASSUME NInv, Wired, now' \in Nat, NEW i \in Lease, NEW closes \in BOOLEAN, Calm(i, closes),
         closes => \A n \in Instance : past[<<n, i>>] = "bound" => service'[n].leases[i] = None
  PROVE  Wired'
  <1>1. /\ TypeOK /\ net' \subseteq net /\ work' \subseteq work /\ UNCHANGED <<now, past>>
        /\ Addressed /\ Alike
    BY DEF NInv, Calm, Wired
  <1>2. \A j \in Lease :
          /\ client'[j].instance = client[j].instance /\ (client'[j].claimed <=> client[j].claimed)
          /\ client'[j].at = client[j].at \/ (client[j].at = "binding" /\ client'[j].at = "refused")
          /\ client'[j].closed => client[j].closed \/ (j = i /\ closes)
    BY DEF Calm, Hears
  <1>3. \A n \in Instance :
          /\ binder'[n] = binder[n] \/ binder'[n] = None
          /\ preparing'[n] \subseteq preparing[n] \cup Streams(n)
          /\ waiting'[n] \subseteq waiting[n] \cup Asked(n)
    BY DEF Calm
  <1>4. \A k, j : Of(k, j)' \subseteq Of(k, j)
    BY <1>1, <1>3, RequestsKept
  <1>5. Addressed'
    <2>1. \A n \in Instance, j \in Lease : past'[<<n, j>>] # "nothing" => n = client[j].instance
      BY <1>1 DEF Addressed
    <2> QED BY <1>1, <1>2, <1>3, <2>1, AddressedKept
  <1>6. Alike'
    <2>1. \A j \in Lease :
            /\ client'[j].at = "held" => past'[<<client'[j].instance, j>>] # "nothing"
            /\ \A n \in Instance : past'[<<n, j>>] = "started" => client[j].claimed
      BY <1>1, <1>2 DEF Alike, AlikeOf
    <2> QED BY <1>1, <1>2, <1>4, <2>1, AlikeKept
  <1>7. ASSUME NEW n \in Instance, NEW j \in Lease, loop'[n] \in Serving
        PROVE  Late(n, j)'
    <2>1. Late(n, j) /\ Forgets(service[n], service'[n])
      BY <1>7 DEF Calm, Wired
    <2>2. client'[j].closed /\ past[<<n, j>>] = "bound" =>
            client[j].closed \/ service'[n].leases[j] = None
      BY <1>2
    <2>3. /\ \/ service'[n].leases[j] = None
             \/ /\ service[n].leases[j] # None
                /\ service[n].leases[j].engine = "none" \/ service'[n].leases[j].engine # "none"
          /\ \/ service'[n].seen[j] = service[n].seen[j]
             \/ service[n].seen[j] # None /\ now >= service[n].seen[j]
      BY <2>1 DEF Forgets
    <2>4. past'[<<n, j>>] = past[<<n, j>>] /\ now <= now' /\ \A m \in net' : m \in net
      BY <1>1
    <2>5. binder'[n] = binder[n] \/ binder'[n] = None
      BY <1>3
    <2> QED BY <1>1, <1>4, <2>1, <2>2, <2>3, <2>4, <2>5, LateKept
  <1>8. \A n \in Instance, j \in Lease : loop'[n] = "unborn" => past'[<<n, j>>] = "nothing"
    BY <1>1 DEF Calm, Wired
  <1>9. \A n \in Instance, j \in Lease : <<n, j>> \in work' => past'[<<n, j>>] = "started"
    BY <1>1 DEF Wired
  <1> QED BY <1>5, <1>6, <1>7, <1>8, <1>9 DEF Wired

LEMMA TickWired ==
  ASSUME NInv, Wired, now' = now + 1,
         UNCHANGED <<client, net, loop, service, binder, preparing, waiting, work, past>>
  PROVE  Wired'
  <1>1. TypeOK /\ Addressed /\ Alike /\ now \in Nat
    BY DEF NInv, Wired, TypeOK
  <1>2. \A k, j : Of(k, j)' = Of(k, j)
    BY DEF Of, Requests
  <1>3. Addressed'
    BY <1>1 DEF Addressed
  <1>4. Alike'
    <2>1. \A j \in Lease : /\ client'[j].at = "held" => past'[<<client'[j].instance, j>>] # "nothing"
                           /\ \A n \in Instance : past'[<<n, j>>] = "started" => client[j].claimed
      BY <1>1 DEF Alike, AlikeOf
    <2> QED BY <1>1, <1>2, <2>1, AlikeKept
  <1>5. ASSUME NEW n \in Instance, NEW j \in Lease, loop'[n] \in Serving
        PROVE  Late(n, j)'
    <2>1. Late(n, j)
      BY <1>5 DEF Wired
    <2>2. \/ service[n].leases[j] = None
          \/ /\ service[n].leases[j] # None
             /\ service[n].leases[j].engine = "none" \/ service[n].leases[j].engine # "none"
      OBVIOUS
    <2>3. now' \in Nat /\ now <= now' /\ Of("stream", j)' \subseteq Of("stream", j)
      BY <1>1, <1>2
    <2> QED BY <1>1, <2>1, <2>2, <2>3, LateKept
  <1>6. \A n \in Instance, j \in Lease : loop'[n] = "unborn" => past'[<<n, j>>] = "nothing"
    BY DEF Wired
  <1>7. \A n \in Instance, j \in Lease : <<n, j>> \in work' => past'[<<n, j>>] = "started"
    BY DEF Wired
  <1> QED BY <1>3, <1>4, <1>5, <1>6, <1>7 DEF Wired

\* A process that starts has done nothing yet.
LEMMA StartsWired ==
  ASSUME NInv, Wired, NEW n \in Instance, Starts(n)
  PROVE  Wired'
  <1>1. /\ TypeOK /\ Addressed /\ Alike /\ now \in Nat
        /\ loop[n] = "unborn" /\ loop' = [loop EXCEPT ![n] = "looking"]
        /\ UNCHANGED <<now, client, net, service, binder, preparing, waiting, work, past>>
    BY DEF NInv, Wired, TypeOK, Starts, At, wire
  <1>2. \A k, j : Of(k, j)' = Of(k, j)
    BY <1>1 DEF Of, Requests
  <1>3. Addressed'
    BY <1>1 DEF Addressed
  <1>4. Alike'
    <2>1. \A j \in Lease : /\ client'[j].at = "held" => past'[<<client'[j].instance, j>>] # "nothing"
                           /\ \A k \in Instance : past'[<<k, j>>] = "started" => client[j].claimed
      BY <1>1 DEF Alike, AlikeOf
    <2> QED BY <1>1, <1>2, <2>1, AlikeKept
  <1>5. ASSUME NEW k \in Instance, NEW j \in Lease, loop'[k] \in Serving
        PROVE  Late(k, j)'
    <2>1. CASE k = n
      <3>1. past'[<<n, j>>] = "nothing"
        BY <1>1 DEF Wired
      <3> QED BY <2>1, <3>1 DEF Late
    <2>2. CASE k # n
      <3>1. Late(k, j)
        BY <1>1, <1>5, <2>2 DEF Wired, TypeOK
      <3>2. \/ service[k].leases[j] = None
            \/ /\ service[k].leases[j] # None
               /\ service[k].leases[j].engine = "none" \/ service[k].leases[j].engine # "none"
        OBVIOUS
      <3>3. now' \in Nat /\ now <= now' /\ Of("stream", j)' \subseteq Of("stream", j)
        BY <1>1, <1>2
      <3> QED BY <1>1, <3>1, <3>2, <3>3, LateKept
    <2> QED BY <2>1, <2>2
  <1>6. \A k \in Instance, j \in Lease : loop'[k] = "unborn" => past'[<<k, j>>] = "nothing"
    BY <1>1 DEF Wired, TypeOK
  <1>7. \A k \in Instance, j \in Lease : <<k, j>> \in work' => past'[<<k, j>>] = "started"
    BY <1>1 DEF Wired
  <1> QED BY <1>3, <1>4, <1>5, <1>6, <1>7 DEF Wired

(* What the controller asks. *)

\* A session that was not bound has no request and no lease anywhere.
LEMMA IdleNothing ==
  ASSUME NInv, Addressed, NEW i \in Lease, client[i].at = "idle"
  PROVE  /\ \A m \in net : m.id # i
         /\ \A n \in Instance : /\ binder[n] # None => binder[n].id # i
                                /\ \A m \in preparing[n] : m.id # i
                                /\ i \notin waiting[n] /\ past[<<n, i>>] = "nothing"
         /\ \A k : Of(k, i) = {}
  <1>1. client[i].instance = None /\ \A n \in Instance : n # None
    BY NoneAssumption, NodeAssumption DEF Addressed
  <1>2. \A m \in net : m.id # i
    BY <1>1 DEF Addressed, NInv, TypeOK, Request
  <1>3. \A n \in Instance : /\ binder[n] # None => binder[n].id # i
                            /\ \A m \in preparing[n] : m.id # i
                            /\ i \notin waiting[n] /\ past[<<n, i>>] = "nothing"
    BY <1>1 DEF Addressed
  <1>4. \A k : Of(k, i) = {}
    BY <1>2, <1>3 DEF Of, Requests
  <1> QED BY <1>2, <1>3, <1>4

LEMMA SentRequests ==
  ASSUME NEW i \in Lease, NEW b, NEW k, NEW u, Sends(i, b, k, u)
  PROVE  /\ \A h, j : \A m \in Of(h, j)' : m \in Of(h, j) \/ (h = k /\ j = i /\ m.until = u)
         /\ \A h, j : (h # k \/ j # i) => Of(h, j)' \subseteq Of(h, j)
  <1>1. \A m \in (Requests \ {None})' :
          m \in Requests \ {None} \/ (m.kind = k /\ m.id = i /\ m.until = u)
    BY DEF Sends, Requests
  <1> QED BY <1>1 DEF Of

LEMMA SendsAddressed ==
  ASSUME NInv, Addressed, NEW i \in Lease, NEW b, NEW k, NEW u, Sends(i, b, k, u),
         b.instance = client[i].instance \/ client[i].at = "idle",
         b.at = "idle" <=> b.instance = None
  PROVE  Addressed'
  <1>1. /\ client'[i] = b /\ \A j \in Lease \ {i} : client'[j] = client[j]
        /\ UNCHANGED <<binder, preparing, waiting, past>>
    BY DEF Sends, NInv, TypeOK
  <1>2. \/ client'[i].instance = client[i].instance
        \/ /\ \A m \in net : m.id # i
           /\ \A n \in Instance : /\ binder[n] # None => binder[n].id # i
                                  /\ \A m \in preparing[n] : m.id # i
                                  /\ i \notin waiting[n] /\ past[<<n, i>>] = "nothing"
    BY <1>1, IdleNothing
  <1>3. ASSUME NEW m \in net'
        PROVE  m.to = client'[m.id].instance
    <2>1. CASE m \in net
      <3>1. m.id \in Lease /\ m.to = client[m.id].instance
        BY <2>1 DEF NInv, TypeOK, Request, Addressed
      <3> QED BY <1>1, <1>2, <2>1, <3>1
    <2>2. CASE m \notin net
      BY <1>1, <2>2 DEF Sends
    <2> QED BY <2>1, <2>2
  <1>4. ASSUME NEW n \in Instance
        PROVE  /\ binder'[n] # None => binder'[n].kind = "bind" /\ binder'[n].to = n
                                       /\ n = client'[binder'[n].id].instance
               /\ \A m \in preparing'[n] : m.kind = "stream" /\ n = client'[m.id].instance
               /\ \A j \in waiting'[n] : n = client'[j].instance
               /\ \A j \in Lease : past'[<<n, j>>] # "nothing" => n = client'[j].instance
    <2>1. /\ binder[n] # None => binder[n].id \in Lease
          /\ \A m \in preparing[n] : m.id \in Lease
          /\ waiting[n] \subseteq Lease
      BY DEF NInv, TypeOK, Request
    <2>2. /\ binder[n] # None => binder[n].kind = "bind" /\ binder[n].to = n
                                 /\ n = client[binder[n].id].instance
          /\ \A m \in preparing[n] : m.kind = "stream" /\ n = client[m.id].instance
          /\ \A j \in waiting[n] : n = client[j].instance
          /\ \A j \in Lease : past[<<n, j>>] # "nothing" => n = client[j].instance
      BY DEF Addressed
    <2>3. \A j \in Lease : \/ client'[j].instance = client[j].instance
                           \/ /\ binder[n] # None => binder[n].id # j
                              /\ \A m \in preparing[n] : m.id # j
                              /\ j \notin waiting[n] /\ past[<<n, j>>] = "nothing"
      BY <1>1, <1>2
    <2> QED BY <1>1, <2>1, <2>2, <2>3
  <1>5. \A j \in Lease : client'[j].at = "idle" <=> client'[j].instance = None
    BY <1>1 DEF Addressed
  <1> QED BY <1>3, <1>4, <1>5 DEF Addressed

LEMMA SendsLate ==
  ASSUME NInv, Wired, NEW i \in Lease, NEW b, NEW k, NEW u, Sends(i, b, k, u),
         b.closed => client[i].closed,
         NEW n \in Instance, NEW j \in Lease, loop'[n] \in Serving,
         k \notin {"bind", "stream"} \/ j # i
  PROVE  Late(n, j)'
  <1>1. /\ TypeOK /\ now \in Nat /\ Late(n, j)
        /\ UNCHANGED <<now, loop, service, binder, preparing, waiting, work, past>>
    BY DEF NInv, TypeOK, Wired, Sends
  <1>2. Of("stream", j)' \subseteq Of("stream", j)
    BY SentRequests
  <1>3. \A m \in net' : m.kind = "bind" /\ m.id = j => m \in net
    BY DEF Sends
  <1>4. client'[j].closed => client[j].closed
    BY DEF Sends, NInv, TypeOK
  <1>5. \/ service[n].leases[j] = None
        \/ /\ service[n].leases[j] # None
           /\ service[n].leases[j].engine = "none" \/ service[n].leases[j].engine # "none"
    OBVIOUS
  <1>6. now' \in Nat /\ now <= now'
    BY <1>1
  <1> QED BY <1>1, <1>2, <1>3, <1>4, <1>5, <1>6, LateKept

\* The binding as it was, or one that has lost its answer, asks for nothing new.
Asks(i) ==
  \E b \in Binding, k \in {"get", "delete", "nothing"} :
    /\ Sends(i, b, k, 0)
    /\ b.instance = client[i].instance
    /\ (b.claimed <=> client[i].claimed) /\ (b.closed <=> client[i].closed)
    /\ b.at = client[i].at \/ (client[i].at = "binding" /\ b.at = "uncertain")

Binds(i) ==
  /\ client[i].at = "idle"
  /\ \E b \in Binding, u \in Nat :
       /\ Sends(i, b, "bind", u)
       /\ b.at = "binding" /\ b.instance # None
       /\ (b.claimed <=> client[i].claimed) /\ (b.closed <=> client[i].closed)

Opens(i) ==
  /\ client[i].at = "held" /\ ~client[i].closed /\ ~client[i].claimed
  /\ \E b \in Binding, u \in Nat :
       /\ Sends(i, b, "stream", u)
       /\ b.instance = client[i].instance /\ b.at = "held" /\ b.claimed /\ ~b.closed

LEMMA AsksWired ==
  ASSUME NInv, Wired, NEW i \in Lease, Asks(i)
  PROVE  Wired'
  <1>1. PICK b \in Binding, k \in {"get", "delete", "nothing"} :
          /\ Sends(i, b, k, 0)
          /\ b.instance = client[i].instance
          /\ (b.claimed <=> client[i].claimed) /\ (b.closed <=> client[i].closed)
          /\ b.at = client[i].at \/ (client[i].at = "binding" /\ b.at = "uncertain")
    BY DEF Asks
  <1>2. /\ TypeOK /\ Addressed /\ Alike /\ UNCHANGED <<loop, past, work>>
        /\ client'[i] = b /\ \A j \in Lease \ {i} : client'[j] = client[j]
    BY <1>1 DEF NInv, Wired, Sends, TypeOK
  <1>3. Addressed'
    <2>1. b.at = "idle" <=> b.instance = None
      BY <1>1, <1>2 DEF Addressed
    <2> QED BY <1>1, <1>2, <2>1, SendsAddressed
  <1>4. ASSUME NEW j \in Lease
        PROVE  AlikeOf(j)'
    <2>1. Of("bind", j)' \subseteq Of("bind", j) /\ Of("stream", j)' \subseteq Of("stream", j)
      BY <1>1, SentRequests
    <2>2. AlikeOf(j)
      BY <1>2 DEF Alike
    <2>3. /\ client'[j].instance = client[j].instance /\ (client'[j].claimed <=> client[j].claimed)
          /\ client'[j].at = client[j].at \/ (client[j].at = "binding" /\ client'[j].at = "uncertain")
      BY <1>1, <1>2
    <2> QED BY <1>2, <2>1, <2>2, <2>3 DEF AlikeOf
  <1>5. \A n \in Instance, j \in Lease : loop'[n] \in Serving => Late(n, j)'
    BY <1>1, SendsLate
  <1>6. /\ \A n \in Instance, j \in Lease : loop'[n] = "unborn" => past'[<<n, j>>] = "nothing"
        /\ \A n \in Instance, j \in Lease : <<n, j>> \in work' => past'[<<n, j>>] = "started"
    BY <1>2 DEF Wired
  <1> QED BY <1>3, <1>4, <1>5, <1>6 DEF Wired, Alike

LEMMA BindsWired ==
  ASSUME NInv, Wired, NEW i \in Lease, Binds(i)
  PROVE  Wired'
  <1>1. PICK b \in Binding, u \in Nat :
          /\ client[i].at = "idle" /\ Sends(i, b, "bind", u)
          /\ b.at = "binding" /\ b.instance # None
          /\ (b.claimed <=> client[i].claimed) /\ (b.closed <=> client[i].closed)
    BY DEF Binds
  <1>2. /\ TypeOK /\ Addressed /\ Alike /\ UNCHANGED <<loop, past, work, binder>>
        /\ client'[i] = b /\ \A j \in Lease \ {i} : client'[j] = client[j]
    BY <1>1 DEF NInv, Wired, Sends, TypeOK
  <1>3. Addressed'
    BY <1>1, <1>2, SendsAddressed
  <1>4. /\ \A n \in Instance : /\ binder[n] # None => binder[n].id # i
                               /\ past[<<n, i>>] = "nothing"
        /\ Of("bind", i) = {} /\ Of("stream", i) = {}
    BY <1>1, <1>2, IdleNothing
  <1>5. ASSUME NEW j \in Lease
        PROVE  AlikeOf(j)'
    <2>1. AlikeOf(j)
      BY <1>2 DEF Alike
    <2>2. Of("stream", j)' \subseteq Of("stream", j)
      BY <1>1, SentRequests
    <2>3. CASE j = i
      <3>1. \A m \in Of("bind", i)' : m.until = u
        BY <1>1, <1>4, SentRequests
      <3> QED BY <1>1, <1>2, <1>4, <2>1, <2>2, <2>3, <3>1 DEF AlikeOf
    <2>4. CASE j # i
      <3>1. Of("bind", j)' \subseteq Of("bind", j)
        BY <1>1, <2>4, SentRequests
      <3>2. client'[j] = client[j]
        BY <1>2, <2>4
      <3> QED BY <1>2, <2>1, <2>2, <3>1, <3>2 DEF AlikeOf
    <2> QED BY <2>3, <2>4
  <1>6. ASSUME NEW n \in Instance, NEW j \in Lease, loop'[n] \in Serving
        PROVE  Late(n, j)'
    <2>1. CASE j = i
      BY <1>2, <1>4, <2>1 DEF Late
    <2>2. CASE j # i
      BY <1>1, <1>6, <2>2, SendsLate
    <2> QED BY <2>1, <2>2
  <1>7. /\ \A n \in Instance, j \in Lease : loop'[n] = "unborn" => past'[<<n, j>>] = "nothing"
        /\ \A n \in Instance, j \in Lease : <<n, j>> \in work' => past'[<<n, j>>] = "started"
    BY <1>2 DEF Wired
  <1> QED BY <1>3, <1>5, <1>6, <1>7 DEF Wired, Alike

LEMMA OpensWired ==
  ASSUME NInv, Wired, NEW i \in Lease, Opens(i)
  PROVE  Wired'
  <1>1. PICK b \in Binding, u \in Nat :
          /\ client[i].at = "held" /\ ~client[i].closed /\ ~client[i].claimed
          /\ Sends(i, b, "stream", u)
          /\ b.instance = client[i].instance /\ b.at = "held" /\ b.claimed /\ ~b.closed
    BY DEF Opens
  <1>2. /\ TypeOK /\ Addressed /\ Alike /\ AlikeOf(i)
        /\ UNCHANGED <<now, loop, past, work, service, binder>>
        /\ client'[i] = b /\ \A j \in Lease \ {i} : client'[j] = client[j]
    BY <1>1 DEF NInv, Wired, Sends, TypeOK, Alike
  <1>3. Addressed'
    <2>1. b.at = "idle" <=> b.instance = None
      BY <1>1, <1>2 DEF Addressed
    <2> QED BY <1>1, <1>2, <2>1, SendsAddressed
  <1>4. Of("stream", i) = {} /\ \A n \in Instance : past[<<n, i>>] # "started"
    BY <1>1, <1>2 DEF AlikeOf
  <1>5. ASSUME NEW j \in Lease
        PROVE  AlikeOf(j)'
    <2>1. AlikeOf(j)
      BY <1>2 DEF Alike
    <2>2. Of("bind", j)' \subseteq Of("bind", j)
      BY <1>1, SentRequests
    <2>3. CASE j = i
      <3>1. \A m \in Of("stream", i)' : m.until = u
        BY <1>1, <1>4, SentRequests
      <3> QED BY <1>1, <1>2, <1>4, <2>1, <2>2, <2>3, <3>1 DEF AlikeOf
    <2>4. CASE j # i
      <3>1. Of("stream", j)' \subseteq Of("stream", j)
        BY <1>1, <2>4, SentRequests
      <3>2. client'[j] = client[j]
        BY <1>2, <2>4
      <3> QED BY <1>2, <2>1, <2>2, <3>1, <3>2 DEF AlikeOf
    <2> QED BY <2>3, <2>4
  <1>6. ASSUME NEW n \in Instance, NEW j \in Lease, loop'[n] \in Serving
        PROVE  Late(n, j)'
    <2>1. CASE j = i
      <3>1. Late(n, i)
        BY <1>2, <1>6 DEF Wired
      <3>2. \A m \in net' : m.kind = "bind" => m \in net
        BY <1>1 DEF Sends
      <3>3. \A m : Remembers(n, m)' <=> Remembers(n, m)
        BY <1>2 DEF Remembers
      <3>4. past'[<<n, i>>] = "bound" =>
              \A m \in net' : m.kind = "bind" /\ m.id = i => Remembers(n, m)'
        BY <1>2, <3>1, <3>2, <3>3 DEF Late
      <3>5. /\ binder'[n] # None /\ binder'[n].id = i => past'[<<n, i>>] # "bound"
            /\ past'[<<n, i>>] # "started" /\ ~client'[i].closed
        BY <1>1, <1>2, <1>4, <3>1 DEF Late
      <3> QED BY <2>1, <3>4, <3>5 DEF Late
    <2>2. CASE j # i
      BY <1>1, <1>6, <2>2, SendsLate
    <2> QED BY <2>1, <2>2
  <1>7. /\ \A n \in Instance, j \in Lease : loop'[n] = "unborn" => past'[<<n, j>>] = "nothing"
        /\ \A n \in Instance, j \in Lease : <<n, j>> \in work' => past'[<<n, j>>] = "started"
    BY <1>2 DEF Wired
  <1> QED BY <1>3, <1>5, <1>6, <1>7 DEF Wired, Alike

(* The steps that bring something about. *)

\* What another process, or this one for another session, remembers.
LEMMA LateElsewhere ==
  ASSUME TypeOK, NEW n \in Instance, NEW i \in Lease, Late(n, i),
         UNCHANGED now, past'[<<n, i>>] = past[<<n, i>>], net' \subseteq net,
         Of("stream", i)' \subseteq Of("stream", i),
         client'[i].closed => client[i].closed,
         \/ service'[n].seen[i] = service[n].seen[i]
         \/ service[n].seen[i] # None /\ now >= service[n].seen[i],
         \/ service'[n].leases[i] = service[n].leases[i] \/ service'[n].leases[i] = None
         \/ /\ service[n].leases[i] # None /\ service[n].leases[i].engine = "running"
            /\ service'[n].leases[i] # None /\ service'[n].leases[i].engine = "cancelled",
         binder'[n] = binder[n] \/ binder'[n] = None \/ binder'[n].id # i
  PROVE  Late(n, i)'
  <1>1. now' \in Nat /\ now <= now' /\ \A m \in net' : m.kind = "bind" /\ m.id = i => m \in net
    BY DEF TypeOK
  <1>2. \/ service'[n].leases[i] = None
        \/ /\ service[n].leases[i] # None
           /\ service[n].leases[i].engine = "none" \/ service'[n].leases[i].engine # "none"
    OBVIOUS
  <1> QED BY <1>1, <1>2, LateKept

LEMMA TakesWired ==
  ASSUME NInv, Wired, NEW n \in Instance, NEW m \in net, Takes(n, m)
  PROVE  Wired'
  <1>1. PICK s, q \in Service :
          /\ Sheds(service[n], s) /\ ~Refuses(s, m.id) /\ ~s.poisoned
          /\ service' = [service EXCEPT ![n] = q]
          /\ q.leases = s.leases /\ q.open = s.open /\ q.seen = [s.seen EXCEPT ![m.id] = m.until]
    BY DEF Takes
  <1>2. /\ TypeOK /\ Addressed /\ Alike
        /\ m.kind = "bind" /\ m.to = n /\ net' = net \ {m} /\ now < m.until /\ loop[n] \in Serving
        /\ binder[n] = None /\ binder' = [binder EXCEPT ![n] = m]
        /\ UNCHANGED <<now, client, loop, preparing, waiting, work, past>>
        /\ m.id \in Lease /\ m.until \in Nat /\ now \in Nat /\ m # None
    BY NoneAssumption DEF NInv, Wired, Takes, TypeOK, Request
  <1>3. /\ binder'[n] = m /\ service'[n] = q /\ m \notin net'
        /\ \A k \in Instance \ {n} : binder'[k] = binder[k] /\ service'[k] = service[k]
    BY <1>1, <1>2 DEF TypeOK
  <1>4. \A k, j : Of(k, j)' \subseteq Of(k, j)
    <2>1. \A k \in Instance : \/ binder'[k] = binder[k] \/ binder'[k] = None \/ binder'[k] \in net
      BY <1>3
    <2> QED BY <1>2, <2>1, RequestsKept
  <1>5. Addressed'
    <2>1. \A k \in Instance :
            /\ \/ binder'[k] = binder[k] \/ binder'[k] = None
               \/ binder'[k] \in net /\ binder'[k].kind = "bind" /\ binder'[k].to = k
            /\ preparing'[k] \subseteq preparing[k] \cup Streams(k)
            /\ waiting'[k] \subseteq waiting[k] \cup Asked(k)
      BY <1>2, <1>3
    <2>2. ASSUME NEW k \in Instance
          PROVE  binder'[k] # None => binder'[k].kind = "bind" /\ binder'[k].to = k
                                      /\ k = client'[binder'[k].id].instance
      <3>1. CASE k = n
        BY <1>2, <1>3, <3>1 DEF Addressed
      <3>2. CASE k # n
        BY <1>2, <1>3, <3>2 DEF Addressed
      <3> QED BY <3>1, <3>2
    <2> QED BY <1>2, <2>2 DEF Addressed
  <1>6. Alike'
    <2>1. \A j \in Lease : /\ client'[j].at = "held" => past'[<<client'[j].instance, j>>] # "nothing"
                           /\ \A k \in Instance : past'[<<k, j>>] = "started" => client[j].claimed
      BY <1>2 DEF Alike, AlikeOf
    <2> QED BY <1>2, <1>4, <2>1, AlikeKept
  <1>7. ASSUME NEW j \in Lease, j # m.id
        PROVE  Late(n, j)'
    <2>1. Late(n, j)
      BY <1>2 DEF Wired
    <2>2. q.leases[j] = s.leases[j] /\ q.seen[j] = s.seen[j]
      BY <1>1, <1>7 DEF Service
    <2>3. \/ service'[n].seen[j] = service[n].seen[j]
          \/ service[n].seen[j] # None /\ now >= service[n].seen[j]
      BY <1>1, <1>3, <2>2 DEF Sheds
    <2>4. \/ service'[n].leases[j] = service[n].leases[j] \/ service'[n].leases[j] = None
          \/ /\ service[n].leases[j] # None /\ service[n].leases[j].engine = "running"
             /\ service'[n].leases[j] # None /\ service'[n].leases[j].engine = "cancelled"
      BY <1>1, <1>3, <2>2 DEF Sheds
    <2>5. binder'[n].id # j
      BY <1>3, <1>7
    <2> QED BY <1>2, <1>4, <2>1, <2>3, <2>4, <2>5, LateElsewhere
  \* The record of an earlier bind under the identifier was dropped in time.
  <1>8. Late(n, m.id)'
    <2>1. Late(n, m.id) /\ service[n] \in Service
      BY <1>2 DEF Wired, TypeOK
    <2>2. s.seen[m.id] = None
      BY <1>1, <1>2 DEF Refuses, Seen
    <2>3. \A o : o.id = m.id /\ o.until \in Nat /\ Remembers(n, o) => o.until <= now
      <3>1. service[n].seen[m.id] = None \/ now >= service[n].seen[m.id]
        BY <1>1, <1>2, <2>2 DEF Sheds
      <3>2. service[n].seen[m.id] # None => service[n].seen[m.id] \in Nat
        BY <1>2, <2>1 DEF Service
      <3> QED BY <1>2, <3>1, <3>2 DEF Remembers
    <2>4. past[<<n, m.id>>] # "bound"
      <3>1. ~(m.until <= now)
        BY <1>2
      <3> QED BY <1>2, <2>1, <2>3, <3>1 DEF Late
    <2>5. ASSUME past[<<n, m.id>>] = "started", NEW o \in Of("stream", m.id)'
          PROVE  Remembers(n, o)' /\ o.until <= now'
      <3>1. o \in Of("stream", m.id) /\ o.id = m.id /\ o.until \in Nat
        BY <1>2, <1>4, <2>5, RequestTypes DEF Of
      <3>2. o.until <= now
        BY <2>1, <2>3, <2>5, <3>1 DEF Late
      <3> QED BY <1>2, <3>2 DEF Remembers
    <2> QED BY <1>2, <2>4, <2>5 DEF Late
  <1>9. ASSUME NEW k \in Instance, NEW j \in Lease, loop'[k] \in Serving
        PROVE  Late(k, j)'
    <2>1. CASE k = n
      BY <1>7, <1>8, <2>1
    <2>2. CASE k # n
      <3>1. Late(k, j) /\ binder'[k] = binder[k] /\ service'[k] = service[k]
        BY <1>2, <1>3, <1>9, <2>2 DEF Wired
      <3> QED BY <1>2, <1>4, <3>1, LateElsewhere
    <2> QED BY <2>1, <2>2
  <1>10. /\ \A k \in Instance, j \in Lease : loop'[k] = "unborn" => past'[<<k, j>>] = "nothing"
         /\ \A k \in Instance, j \in Lease : <<k, j>> \in work' => past'[<<k, j>>] = "started"
    BY <1>2 DEF Wired
  <1> QED BY <1>5, <1>6, <1>9, <1>10 DEF Wired

LEMMA KeepsWired ==
  ASSUME NInv, Wired, NEW n \in Instance, Keeps(n)
  PROVE  Wired'
  <1>0. PICK m, s : m = binder[n] /\ s = service[n]
    OBVIOUS
  <1>1. PICK r \in Service :
          /\ service' = [service EXCEPT ![n] = r]
          /\ r.leases = [s.leases EXCEPT ![m.id] = [expires |-> m.until, engine |-> "none"]]
          /\ r.open = s.open \cup {m.id} /\ r.seen = s.seen
    BY <1>0 DEF Keeps
  <1>2. /\ TypeOK /\ Addressed /\ Alike
        /\ m # None /\ now < m.until /\ Hears(m.id, "held", FALSE)
        /\ binder' = [binder EXCEPT ![n] = None]
        /\ UNCHANGED <<now, net, loop, preparing, waiting, work>>
        /\ m.id \in Lease /\ m.until \in Nat /\ now \in Nat /\ s \in Service
    BY <1>0 DEF NInv, Wired, Keeps, TypeOK, Request
  <1>3. loop[n] \in Serving /\ s.seen[m.id] = m.until
    BY <1>0, <1>2 DEF NInv, Sound, SoundOf
  <1>4. m.kind = "bind" /\ n = client[m.id].instance
    BY <1>0, <1>2 DEF Addressed
  <1>5. m \in Of("bind", m.id)
    <2>1. m \in {binder[k] : k \in Instance}
      BY <1>0
    <2> QED BY <1>2, <1>4, <2>1 DEF Of, Requests
  <1>6. /\ past'[<<n, m.id>>] = (IF past[<<n, m.id>>] = "nothing" THEN "bound" ELSE past[<<n, m.id>>])
        /\ \A k \in Instance, j \in Lease : k # n \/ j # m.id => past'[<<k, j>>] = past[<<k, j>>]
    BY <1>0, <1>2 DEF Keeps, TypeOK
  <1>7. past[<<n, m.id>>] # "bound" /\ Late(n, m.id)
    BY <1>0, <1>2, <1>3 DEF Wired, Late
  <1>8. /\ binder'[n] = None /\ service'[n] = r
        /\ \A k \in Instance \ {n} : binder'[k] = binder[k] /\ service'[k] = service[k]
    BY <1>1, <1>2 DEF TypeOK
  <1>9. \A j \in Lease :
          /\ client'[j].instance = client[j].instance /\ (client'[j].claimed <=> client[j].claimed)
          /\ client'[j].closed => client[j].closed
          /\ \/ client'[j].at = client[j].at
             \/ j = m.id /\ client[j].at = "binding" /\ client'[j].at = "held"
    BY <1>2 DEF Hears
  <1>10. \A k, j : Of(k, j)' \subseteq Of(k, j)
    <2>1. \A k \in Instance : binder'[k] = binder[k] \/ binder'[k] = None
      BY <1>8
    <2> QED BY <1>2, <2>1, RequestsKept
  <1>11. Addressed'
    <2>1. \A k \in Instance, j \in Lease : past'[<<k, j>>] # "nothing" => k = client[j].instance
      BY <1>2, <1>4, <1>6 DEF Addressed
    <2>2. \A k \in Instance : binder'[k] = binder[k] \/ binder'[k] = None
      BY <1>8
    <2>3. \A j \in Lease : client'[j].at = "idle" <=> client[j].at = "idle"
      BY <1>9
    <2> QED BY <1>2, <1>9, <2>1, <2>2, <2>3, AddressedKept
  <1>12. Alike'
    <2>1. ASSUME NEW j \in Lease
          PROVE  /\ client'[j].at = "held" => past'[<<client'[j].instance, j>>] # "nothing"
                 /\ \A k \in Instance : past'[<<k, j>>] = "started" => client[j].claimed
      <3>1. AlikeOf(j)
        BY <1>2 DEF Alike
      <3>2. \A k \in Instance : past'[<<k, j>>] = "started" => past[<<k, j>>] = "started"
        BY <1>2, <1>6
      <3>3. CASE j = m.id
        BY <1>4, <1>6, <1>9, <3>1, <3>2, <3>3 DEF AlikeOf
      <3>4. CASE j # m.id
        <4>1. client'[j].at = "held" => client[j].at = "held"
          BY <1>9, <3>4
        <4>2. past'[<<client[j].instance, j>>] = past[<<client[j].instance, j>>]
          BY <1>0, <1>2, <3>4 DEF Keeps, TypeOK
        <4> QED BY <1>9, <3>1, <3>2, <4>1, <4>2 DEF AlikeOf
      <3> QED BY <3>3, <3>4
    <2> QED BY <1>2, <1>9, <1>10, <2>1, AlikeKept
  <1>13. ASSUME NEW j \in Lease, j # m.id
         PROVE  Late(n, j)'
    <2>1. Late(n, j)
      BY <1>2, <1>3, <1>13 DEF Wired
    <2>2. service'[n].leases[j] = service[n].leases[j] /\ service'[n].seen[j] = service[n].seen[j]
      BY <1>0, <1>1, <1>2, <1>8, <1>13 DEF Service
    <2>3. past'[<<n, j>>] = past[<<n, j>>]
      BY <1>6, <1>13
    <2> QED BY <1>2, <1>8, <1>9, <1>10, <2>1, <2>2, <2>3, LateElsewhere
  \* A copy of the bind has its record; a stream that is still under way was never claimed.
  <1>14. Late(n, m.id)'
    <2>1. \A o : Remembers(n, o)' <=> Remembers(n, o)
      BY <1>0, <1>1, <1>2, <1>8 DEF Remembers
    <2>2. ASSUME past'[<<n, m.id>>] = "bound"
          PROVE  /\ \A o \in net' : o.kind = "bind" /\ o.id = m.id => Remembers(n, o)'
                 /\ client'[m.id].closed => Of("stream", m.id)' = {}
      <3>1. past[<<n, m.id>>] = "nothing" /\ AlikeOf(m.id)
        BY <1>2, <1>6, <1>7, <2>2 DEF Alike
      <3>2. Of("stream", m.id) = {}
        BY <1>4, <3>1 DEF AlikeOf
      <3>3. ASSUME NEW o \in net, o.kind = "bind", o.id = m.id
            PROVE  Remembers(n, o)
        <4>1. o \in Of("bind", m.id)
          <5>1. o # None
            BY <1>2, <3>3, NoneAssumption DEF TypeOK
          <5> QED BY <3>3, <5>1 DEF Of, Requests
        <4>2. o.until = m.until
          BY <1>5, <3>1, <4>1 DEF AlikeOf
        <4>3. service[n].seen[o.id] = m.until /\ m.until # None /\ m.until <= m.until
          BY <1>0, <1>2, <1>3, <3>3, NoneAssumption
        <4> QED BY <4>2, <4>3 DEF Remembers
      <3> QED BY <1>2, <1>10, <2>1, <3>2, <3>3
    <2>3. ASSUME past'[<<n, m.id>>] = "started", NEW o \in Of("stream", m.id)'
          PROVE  Remembers(n, o)' /\ o.until <= now'
      <3>1. past[<<n, m.id>>] = "started" /\ o \in Of("stream", m.id)
        BY <1>6, <1>10, <2>3
      <3> QED BY <1>0, <1>2, <1>7, <2>1, <3>1 DEF Late
    <2> QED BY <1>8, <2>2, <2>3 DEF Late
  <1>15. ASSUME NEW k \in Instance, NEW j \in Lease, loop'[k] \in Serving
         PROVE  Late(k, j)'
    <2>1. CASE k = n
      BY <1>13, <1>14, <2>1
    <2>2. CASE k # n
      <3>1. Late(k, j) /\ binder'[k] = binder[k] /\ service'[k] = service[k]
        BY <1>2, <1>8, <1>15, <2>2 DEF Wired
      <3>2. past'[<<k, j>>] = past[<<k, j>>]
        BY <1>6, <2>2
      <3> QED BY <1>2, <1>9, <1>10, <3>1, <3>2, LateElsewhere
    <2> QED BY <2>1, <2>2
  <1>16. \A k \in Instance, j \in Lease : loop'[k] = "unborn" => past'[<<k, j>>] = "nothing"
    <2>1. loop'[n] # "unborn"
      BY <1>2, <1>3 DEF Serving
    <2> QED BY <1>2, <1>6, <2>1 DEF Wired
  <1>17. \A k \in Instance, j \in Lease : <<k, j>> \in work' => past'[<<k, j>>] = "started"
    <2>1. \A k \in Instance, j \in Lease : past[<<k, j>>] = "started" => past'[<<k, j>>] = "started"
      BY <1>2, <1>6
    <2> QED BY <1>2, <2>1 DEF Wired
  <1> QED BY <1>11, <1>12, <1>15, <1>16, <1>17 DEF Wired

LEMMA BeginsWired ==
  ASSUME NInv, Wired, NEW n \in Instance, NEW m \in preparing[n], Begins(n, m)
  PROVE  Wired'
  <1>1. PICK s, q \in Service :
          /\ Sheds(service[n], s) /\ m.id \in Idle(s)
          /\ service' = [service EXCEPT ![n] = q]
          /\ q.leases = [s.leases EXCEPT ![m.id] = [expires |-> m.until, engine |-> "running"]]
          /\ q.open = s.open /\ q.seen = [s.seen EXCEPT ![m.id] = m.until]
    BY DEF Begins
  <1>2. /\ TypeOK /\ Addressed /\ Alike
        /\ preparing' = [preparing EXCEPT ![n] = preparing[n] \ {m}]
        /\ loop[n] \in Serving /\ binder[n] = None
        /\ Hears(m.id, "refused", FALSE)
        /\ work' = work \cup {<<n, m.id>>}
        /\ UNCHANGED <<now, net, loop, binder, waiting>>
        /\ m \in Request /\ m.id \in Lease /\ m.until \in Nat /\ now \in Nat
    <2>1. m \in Request /\ m.id \in Lease /\ m.until \in Nat /\ now \in Nat
      BY ServiceType DEF Request, NInv, TypeOK
    <2> QED BY <2>1 DEF NInv, Wired, Begins
  <1>3. m.kind = "stream" /\ n = client[m.id].instance /\ m # None
    BY <1>2, NoneAssumption DEF Addressed
  <1>4. m \in Of("stream", m.id)
    BY <1>3 DEF Of, Requests
  <1>5. /\ past'[<<n, m.id>>] = "started"
        /\ \A k \in Instance, j \in Lease : k # n \/ j # m.id => past'[<<k, j>>] = past[<<k, j>>]
    BY <1>2 DEF Begins, TypeOK
  <1>6. /\ service'[n] = q
        /\ \A k \in Instance \ {n} : service'[k] = service[k]
    BY <1>1 DEF NInv, TypeOK
  <1>7. \A j \in Lease :
          /\ client'[j].instance = client[j].instance /\ (client'[j].claimed <=> client[j].claimed)
          /\ client'[j].closed => client[j].closed
          /\ \/ client'[j].at = client[j].at
             \/ client[j].at = "binding" /\ client'[j].at = "refused"
    BY <1>2 DEF Hears
  <1>8. \A k \in Instance : preparing'[k] \subseteq preparing[k]
    BY <1>2 DEF TypeOK
  <1>9. \A k, j : Of(k, j)' \subseteq Of(k, j)
    BY <1>2, <1>8, RequestsKept
  <1>10. Addressed'
    <2>1. \A k \in Instance, j \in Lease : past'[<<k, j>>] # "nothing" => k = client[j].instance
      BY <1>2, <1>3, <1>5 DEF Addressed
    <2>2. \A j \in Lease : client'[j].at = "idle" <=> client[j].at = "idle"
      BY <1>7
    <2> QED BY <1>2, <1>7, <1>8, <2>1, <2>2, AddressedKept
  <1>11. Alike'
    <2>1. ASSUME NEW j \in Lease
          PROVE  /\ client'[j].at = "held" => past'[<<client'[j].instance, j>>] # "nothing"
                 /\ \A k \in Instance : past'[<<k, j>>] = "started" => client[j].claimed
      <3>1. AlikeOf(j)
        BY <1>2 DEF Alike
      <3>2. client'[j].at = "held" => client[j].at = "held"
        BY <1>7
      <3>3. CASE j = m.id
        BY <1>3, <1>4, <1>5, <1>7, <3>1, <3>2, <3>3 DEF AlikeOf
      <3>4. CASE j # m.id
        <4>1. past'[<<client[j].instance, j>>] = past[<<client[j].instance, j>>]
          BY <1>2, <3>4 DEF Begins, TypeOK
        <4> QED BY <1>5, <1>7, <3>1, <3>2, <3>4, <4>1 DEF AlikeOf
      <3> QED BY <3>3, <3>4
    <2> QED BY <1>2, <1>7, <1>9, <2>1, AlikeKept
  <1>12. ASSUME NEW j \in Lease, j # m.id
         PROVE  Late(n, j)'
    <2>1. Late(n, j)
      BY <1>2, <1>12 DEF Wired
    <2>2. q.leases[j] = s.leases[j] /\ q.seen[j] = s.seen[j]
      BY <1>1, <1>12 DEF Service
    <2>3. \/ service'[n].seen[j] = service[n].seen[j]
          \/ service[n].seen[j] # None /\ now >= service[n].seen[j]
      <3>1. \/ s.seen[j] = service[n].seen[j]
            \/ s.seen[j] = None /\ service[n].seen[j] # None /\ now >= service[n].seen[j]
        BY <1>1 DEF Sheds
      <3> QED BY <1>6, <2>2, <3>1
    <2>4. \/ service'[n].leases[j] = service[n].leases[j] \/ service'[n].leases[j] = None
          \/ /\ service[n].leases[j] # None /\ service[n].leases[j].engine = "running"
             /\ service'[n].leases[j] # None /\ service'[n].leases[j].engine = "cancelled"
      <3>1. \/ s.leases[j] = service[n].leases[j] \/ s.leases[j] = None
            \/ /\ service[n].leases[j] # None /\ service[n].leases[j].engine = "running"
               /\ s.leases[j] # None /\ s.leases[j].engine = "cancelled"
        BY <1>1 DEF Sheds
      <3> QED BY <1>6, <2>2, <3>1
    <2>5. past'[<<n, j>>] = past[<<n, j>>]
      BY <1>5, <1>12
    <2> QED BY <1>2, <1>7, <1>9, <2>1, <2>3, <2>4, <2>5, LateElsewhere
  \* A copy of the stream has its record, and finds an engine under the lease.
  <1>13. Late(n, m.id)'
    <2>1. /\ service'[n].seen[m.id] = m.until
          /\ service'[n].leases[m.id] = [expires |-> m.until, engine |-> "running"]
      BY <1>1, <1>2, <1>6 DEF Service
    <2>2. m.id \notin Idle(service'[n])
      BY <2>1 DEF Idle
    <2>3. ASSUME NEW o \in Of("stream", m.id)'
          PROVE  Remembers(n, o)'
      <3>1. o \in Of("stream", m.id) /\ o.id = m.id
        BY <1>9, <2>3 DEF Of
      <3>2. o.until = m.until
        BY <1>2, <1>4, <3>1 DEF Alike, AlikeOf
      <3>3. m.until # None /\ m.until <= m.until
        BY <1>2, NoneAssumption
      <3> QED BY <2>1, <3>1, <3>2, <3>3 DEF Remembers
    <2> QED BY <1>2, <1>5, <2>2, <2>3 DEF Late
  <1>14. ASSUME NEW k \in Instance, NEW j \in Lease, loop'[k] \in Serving
         PROVE  Late(k, j)'
    <2>1. CASE k = n
      BY <1>12, <1>13, <2>1
    <2>2. CASE k # n
      <3>1. Late(k, j) /\ service'[k] = service[k]
        BY <1>2, <1>6, <1>14, <2>2 DEF Wired
      <3>2. past'[<<k, j>>] = past[<<k, j>>]
        BY <1>5, <2>2
      <3> QED BY <1>2, <1>7, <1>9, <3>1, <3>2, LateElsewhere
    <2> QED BY <2>1, <2>2
  <1>15. \A k \in Instance, j \in Lease : loop'[k] = "unborn" => past'[<<k, j>>] = "nothing"
    <2>1. loop'[n] # "unborn"
      BY <1>2 DEF Serving
    <2> QED BY <1>2, <1>5, <2>1 DEF Wired
  <1>16. \A k \in Instance, j \in Lease : <<k, j>> \in work' => past'[<<k, j>>] = "started"
    BY <1>2, <1>5 DEF Wired
  <1> QED BY <1>10, <1>11, <1>14, <1>15, <1>16 DEF Wired

-----------------------------------------------------------------------------
(* Every step is one of these. *)

\* The binding of i hears that its lease at n is gone.
Confirms(n, i) ==
  /\ Calm(i, TRUE) /\ i \in waiting[n] \cup Asked(n)
  /\ service'[n].leases[i] = None /\ work' = work \ {<<n, i>>}

LEMMA ConfirmsWired ==
  ASSUME NInv, NInv', Wired, NEW n \in Instance, NEW i \in Lease, Confirms(n, i)
  PROVE  Wired'
  <1>1. \A m \in net : m.to = client[m.id].instance
    BY DEF Wired, Addressed
  <1>2. n = client[i].instance
    BY <1>1 DEF Wired, Addressed, Confirms, Asked
  <1>3. \A k \in Instance : past[<<k, i>>] = "bound" => k = n
    BY <1>2 DEF Wired, Addressed
  <1>4. Calm(i, TRUE) /\ now' \in Nat
    BY DEF Confirms, NInv, TypeOK
  <1>5. \A k \in Instance : past[<<k, i>>] = "bound" => service'[k].leases[i] = None
    BY <1>3 DEF Confirms
  <1> QED BY <1>4, <1>5, CalmWired

LEMMA ControllerStep ==
  ASSUME NInv, Addressed, NEW i \in Lease,
         Bind(i) \/ BindUnanswered(i) \/ Revalidate(i) \/ OpenStream(i) \/ Close(i)
  PROVE  NInv' /\ (Asks(i) \/ Binds(i) \/ Opens(i))
  <1> DEFINE c == client[i]
  <1>1. c \in Binding /\ now \in Nat /\ Pending \in Nat /\ Duration \in Nat
    BY NodeAssumption DEF NInv, TypeOK
  <1> HIDE DEF c
  <1>2. c.at # "idle" => c.instance \in Instance
    BY <1>1 DEF Addressed, Binding, c
  <1> USE DEF c
  <1>3. CASE Bind(i)
    <2>1. PICK n \in Instance :
            /\ Become(i, [client[i] EXCEPT !.at = "binding", !.instance = n, !.expires = now + Pending])
            /\ client[i].at = "idle" /\ Send(Sent("bind", i, now + Pending))
            /\ UNCHANGED <<now, process, service, binder, preparing, waiting, work, past>>
      BY Zenon, <1>3 DEF Bind
    <2> DEFINE b == [c EXCEPT !.at = "binding", !.instance = n, !.expires = now + Pending]
    <2>2. /\ b \in Binding /\ b.at = "binding" /\ b.instance = n
          /\ (b.claimed <=> c.claimed) /\ (b.closed <=> c.closed)
      <3> DEFINE x == [c EXCEPT !.at = "binding"]
                 y == [x EXCEPT !.instance = n]
                 z == [y EXCEPT !.expires = now + Pending]
      <3>2. /\ x \in Binding /\ x.at = "binding"
            /\ (x.claimed <=> c.claimed) /\ (x.closed <=> c.closed)
        BY <1>1 DEF Binding
      <3>3. b = z
        OBVIOUS
      <3> HIDE DEF x
      <3>4. /\ y \in Binding /\ y.at = "binding" /\ y.instance = n
            /\ (y.claimed <=> c.claimed) /\ (y.closed <=> c.closed)
        BY <3>2 DEF Binding
      <3> HIDE DEF y
      <3>5. /\ z \in Binding /\ z.at = "binding" /\ z.instance = n
            /\ (z.claimed <=> c.claimed) /\ (z.closed <=> c.closed)
        BY <1>1, <3>4 DEF Binding
      <3> HIDE DEF z, b
      <3> QED BY <3>3, <3>5
    <2>3. /\ c.at = "idle" /\ Become(i, b) /\ Send(Sent("bind", i, now + Pending))
          /\ UNCHANGED <<now, process, service, binder, preparing, waiting, work, past>>
      BY Zenon, <2>1
    <2>4. now + Pending \in Nat
      BY <1>1
    <2> HIDE DEF b
    <2>5. NInv' /\ Sends(i, b, "bind", now + Pending)
      BY <2>2, <2>3, <2>4, SendsStep
    <2>6. b.instance # None
      BY <2>2, NodeAssumption, NoneAssumption
    <2> QED BY <2>2, <2>3, <2>4, <2>5, <2>6 DEF Binds
  <1>4. CASE BindUnanswered(i)
    <2> DEFINE b == [c EXCEPT !.at = "uncertain"]
    <2>1. /\ b \in Binding /\ b.at = "uncertain" /\ b.instance = c.instance
          /\ (b.claimed <=> c.claimed) /\ (b.closed <=> c.closed)
      BY <1>1 DEF Binding
    <2>2. /\ c.at = "binding" /\ Become(i, b) /\ UNCHANGED net
          /\ UNCHANGED <<now, process, service, binder, preparing, waiting, work, past>>
      BY <1>4 DEF BindUnanswered
    <2> HIDE DEF b
    <2>3. NInv' /\ Sends(i, b, "nothing", 0)
      BY <2>1, <2>2, SendsStep
    <2> QED BY <2>1, <2>2, <2>3 DEF Asks
  <1>5. ASSUME NEW k \in {"get", "delete"}, c.at # "idle", UNCHANGED client, Send(Sent(k, i, 0)),
               UNCHANGED <<now, process, service, binder, preparing, waiting, work, past>>
        PROVE  NInv' /\ Asks(i)
    <2>1. Become(i, c)
      BY <1>5 DEF Become, NInv, TypeOK
    <2>2. NInv' /\ Sends(i, c, k, 0)
      BY <1>1, <1>5, <1>2, <2>1, SendsStep
    <2> QED BY <1>1, <2>2 DEF Asks
  <1>6. CASE Revalidate(i)
    BY <1>5, <1>6 DEF Revalidate
  <1>7. CASE Close(i)
    BY <1>5, <1>7 DEF Close
  <1>8. CASE OpenStream(i)
    <2> DEFINE b == [c EXCEPT !.claimed = TRUE]
    <2>1. /\ b \in Binding /\ b.at = c.at /\ b.instance = c.instance
          /\ b.claimed /\ (b.closed <=> c.closed)
      BY <1>1 DEF Binding
    <2>2. /\ c.at = "held" /\ ~c.closed /\ ~c.claimed
          /\ Become(i, b) /\ Send(Sent("stream", i, now + Duration))
          /\ UNCHANGED <<now, process, service, binder, preparing, waiting, work, past>>
      BY <1>8 DEF OpenStream
    <2>3. now + Duration \in Nat
      BY <1>1
    <2> HIDE DEF b
    <2>4. NInv' /\ Sends(i, b, "stream", now + Duration)
      <3>1. b.instance \in Instance
        BY <1>2, <2>1, <2>2
      <3> QED BY <2>1, <2>2, <2>3, <3>1, SendsStep
    <2> QED BY <2>1, <2>2, <2>3, <2>4 DEF Opens
  <1> QED BY <1>3, <1>4, <1>6, <1>7, <1>8

\* Without a session there is no request.
LEMMA NoSession ==
  ASSUME TypeOK', Lease = {}
  PROVE  Wired'
  <1>1. Request = {}
    BY DEF Request
  <1>2. /\ net' = {}
        /\ \A n \in Instance : binder'[n] = None /\ preparing'[n] = {} /\ waiting'[n] = {}
    BY <1>1 DEF TypeOK
  <1>3. Addressed'
    BY <1>2 DEF Addressed
  <1> QED BY <1>3 DEF Wired, Alike

Moves ==
  \/ Lease = {}
  \/ UNCHANGED <<client, service, work, past>>
  \/ \E i \in Lease : \/ Calm(i, FALSE) \/ Asks(i) \/ Binds(i) \/ Opens(i)
                      \/ \E n \in Instance : Confirms(n, i)
  \/ \E n \in Instance : \/ \E m \in net : Takes(n, m)
                         \/ \E m \in preparing[n] : Begins(n, m)
                         \/ Keeps(n)

LEMMA CalmMoves ==
  ASSUME NInv, NInv', Wired, NEW i \in Lease, Calm(i, FALSE)
  PROVE  Wired' /\ Moves
  <1>1. now' \in Nat
    BY DEF NInv, TypeOK
  <1> QED BY <1>1, CalmWired DEF Moves

LEMMA HandlersMove ==
  ASSUME NInv, Wired, NEW n \in Instance,
         \/ \E m \in net : \/ Misdirected(n, m) \/ NoSlot(n, m) \/ BindBegins(n, m) \/ Get(n, m)
                           \/ Delete(n, m) \/ StreamArrives(n, m)
         \/ \E m \in preparing[n] : PrepareFails(n, m) \/ activate(n, m)
         \/ \E i \in Lease : DeleteTimesOut(n, i) \/ Disconnects(n, i) \/ finish(n, i) \/ Panics(n, i)
         \/ BindEnds(n)
  PROVE  NInv' /\ Wired' /\ Moves
  <1>1. ASSUME NEW m \in net,
               \/ Misdirected(n, m) \/ NoSlot(n, m) \/ Get(n, m) \/ StreamArrives(n, m)
        PROVE  NInv' /\ Wired' /\ Moves
    <2>1. m.id \in Lease
      BY DEF NInv, TypeOK, Request
    <2>2. NInv' /\ Calm(m.id, FALSE)
      BY <1>1, MisdirectedStep, NoSlotStep, GetStep, StreamArrivesStep
    <2> QED BY <2>1, <2>2, CalmMoves
  <1>2. ASSUME NEW m \in net, BindBegins(n, m)
        PROVE  NInv' /\ Wired' /\ Moves
    <2>1. m.id \in Lease
      BY DEF NInv, TypeOK, Request
    <2>2. NInv' /\ (Calm(m.id, FALSE) \/ Takes(n, m))
      BY <1>2, TakesStep
    <2>3. CASE Calm(m.id, FALSE)
      BY <2>1, <2>2, <2>3, CalmMoves
    <2>4. CASE Takes(n, m)
      BY <2>2, <2>4, TakesWired DEF Moves
    <2> QED BY <2>2, <2>3, <2>4
  <1>3. ASSUME NEW m \in net, Delete(n, m)
        PROVE  NInv' /\ Wired' /\ Moves
    <2>1. m.id \in Lease /\ UNCHANGED <<loop, work>>
      BY <1>3 DEF NInv, TypeOK, Request, Delete, process
    <2>2. /\ NInv'
          /\ \/ Calm(m.id, FALSE)
             \/ Calm(m.id, TRUE) /\ m.to = n /\ service'[n].leases[m.id] = None /\ Alive(n)
      BY <1>3, DeleteStep
    <2>3. CASE Calm(m.id, FALSE)
      BY <2>1, <2>2, <2>3, CalmMoves
    <2>4. CASE Calm(m.id, TRUE) /\ m.to = n /\ service'[n].leases[m.id] = None /\ Alive(n)
      <3>1. <<n, m.id>> \notin work' /\ work' = work
        BY <2>1, <2>2, <2>4 DEF NInv, Sound, SoundOf, Works, Alive, Active, Serving
      <3>2. m.id \in Asked(n)
        BY <2>4 DEF Asked
      <3>3. Confirms(n, m.id)
        BY <2>4, <3>1, <3>2 DEF Confirms
      <3> QED BY <2>1, <2>2, <3>3, ConfirmsWired DEF Moves
    <2> QED BY <2>2, <2>3, <2>4
  <1>4. ASSUME NEW m \in preparing[n], PrepareFails(n, m) \/ activate(n, m)
        PROVE  NInv' /\ Wired' /\ Moves
    <2>1. m.id \in Lease
      BY ServiceType DEF Request
    <2>2. NInv' /\ (Calm(m.id, FALSE) \/ Begins(n, m))
      BY <1>4, PrepareFailsStep, ActivateStep
    <2>3. CASE Calm(m.id, FALSE)
      BY <2>1, <2>2, <2>3, CalmMoves
    <2>4. CASE Begins(n, m)
      BY <2>2, <2>4, BeginsWired DEF Moves
    <2> QED BY <2>2, <2>3, <2>4
  <1>5. ASSUME NEW i \in Lease, DeleteTimesOut(n, i) \/ Disconnects(n, i) \/ Panics(n, i)
        PROVE  NInv' /\ Wired' /\ Moves
    <2>1. NInv' /\ Calm(i, FALSE)
      BY <1>5, WaitsStep, DisconnectsStep, PanicsStep
    <2> QED BY <2>1, CalmMoves
  <1>6. ASSUME NEW i \in Lease, finish(n, i)
        PROVE  NInv' /\ Wired' /\ Moves
    <2>1. /\ NInv' /\ service'[n].leases[i] = None /\ <<n, i>> \notin work' /\ Alive(n)
          /\ Calm(i, FALSE) \/ (Calm(i, TRUE) /\ i \in waiting[n])
      BY <1>6, FinishStep
    <2>2. CASE Calm(i, FALSE)
      BY <2>1, <2>2, CalmMoves
    <2>3. CASE Calm(i, TRUE) /\ i \in waiting[n]
      <3>1. Confirms(n, i)
        BY <1>6, <2>1, <2>3 DEF Confirms, finish
      <3> QED BY <2>1, <3>1, ConfirmsWired DEF Moves
    <2> QED BY <2>1, <2>2, <2>3
  <1>7. ASSUME BindEnds(n)
        PROVE  NInv' /\ Wired' /\ Moves
    <2>1. binder[n] # None /\ binder[n].id \in Lease
      BY <1>7, ServiceType DEF BindEnds, Request
    <2>2. NInv' /\ (Keeps(n) \/ Calm(binder[n].id, FALSE))
      BY <1>7, BindEndsStep
    <2>3. CASE Keeps(n)
      BY <2>2, <2>3, KeepsWired DEF Moves
    <2>4. CASE Calm(binder[n].id, FALSE)
      <3>1. PICK i \in Lease : i = binder[n].id
        BY <2>1
      <3>2. Calm(i, FALSE)
        BY <2>4, <3>1
      <3> QED BY <2>2, <3>2, CalmMoves
    <2> QED BY <2>2, <2>3, <2>4
  <1> QED BY <1>1, <1>2, <1>3, <1>4, <1>5, <1>6, <1>7

\* The invariant is inductive.
LEMMA NextMoves ==
  ASSUME NInv, Wired, [Next]_vars
  PROVE  NInv' /\ Wired' /\ Moves
  <1>1. ASSUME NInv', \A i \in Lease : Calm(i, FALSE)
        PROVE  Wired' /\ Moves
    <2>1. CASE Lease = {}
      BY <1>1, <2>1, NoSession DEF NInv, Moves
    <2>2. CASE Lease # {}
      BY <1>1, <2>2, CalmMoves
    <2> QED BY <2>1, <2>2
  <1>2. CASE Controller
    <2>1. PICK i \in Lease :
            Bind(i) \/ BindUnanswered(i) \/ Revalidate(i) \/ OpenStream(i) \/ Close(i)
      BY <1>2 DEF Controller
    <2>2. NInv' /\ (Asks(i) \/ Binds(i) \/ Opens(i))
      BY <2>1, ControllerStep DEF Wired
    <2>3. Wired'
      BY <2>2, AsksWired, BindsWired, OpensWired
    <2> QED BY <2>2, <2>3 DEF Moves
  <1>3. CASE Handlers
    <2>1. PICK n \in Instance :
            \/ \E m \in net : \/ Misdirected(n, m) \/ NoSlot(n, m) \/ BindBegins(n, m) \/ Get(n, m)
                              \/ Delete(n, m) \/ StreamArrives(n, m)
            \/ \E m \in preparing[n] : PrepareFails(n, m) \/ activate(n, m)
            \/ \E i \in Lease : DeleteTimesOut(n, i) \/ Disconnects(n, i) \/ finish(n, i) \/ Panics(n, i)
            \/ BindEnds(n) \/ PreviewBegins(n) \/ PreviewResolves(n) \/ PreviewEnds(n)
      BY <1>3 DEF Handlers
    <2>2. CASE PreviewBegins(n) \/ PreviewResolves(n) \/ PreviewEnds(n)
      BY <1>1, <2>2, PreviewStep
    <2>3. CASE ~(PreviewBegins(n) \/ PreviewResolves(n) \/ PreviewEnds(n))
      BY <2>1, <2>3, HandlersMove
    <2> QED BY <2>2, <2>3
  <1>4. CASE expire
    <2>1. PICK n \in Instance : Schedule(n) \/ Woken(n) \/ Fires(n) \/ Drains(n) \/ Stops(n)
      BY <1>4 DEF expire
    <2>2. NInv' /\ \A i \in Lease : Calm(i, FALSE)
      BY <2>1, ScheduleStep, WokenStep, DrainsStep, StopsStep
    <2> QED BY <1>1, <2>2
  <1>5. CASE Processes
    <2>1. PICK n \in Instance : Starts(n) \/ Terminate(n) \/ Dies(n)
      BY <1>5 DEF Processes
    <2>2. CASE Starts(n)
      <3>1. UNCHANGED <<client, service, work, past>>
        BY <2>2 DEF Starts, wire
      <3> QED BY <2>2, <3>1, StartsStep, StartsWired DEF Moves
    <2>3. CASE Terminate(n) \/ Dies(n)
      <3>1. NInv' /\ \A i \in Lease : Calm(i, FALSE)
        BY <2>3, PreviewStep, DiesStep
      <3> QED BY <1>1, <3>1
    <2> QED BY <2>1, <2>2, <2>3
  <1>6. CASE Tick
    BY <1>6, TickStep, TickWired DEF Moves
  <1>7. CASE UNCHANGED vars
    <2>1. UNCHANGED <<now, client, net, loop, stopping, service, alarm, binder, preparing, waiting,
                      preview, work, past>>
      BY <1>7 DEF vars, wire, process
    <2>2. NInv'
      <3>1. TypeOK'
        BY <2>1 DEF NInv, TypeOK
      <3> QED BY <2>1, <3>1, SameProcesses DEF NInv
    <2>3. \A i \in Lease : Calm(i, FALSE)
      <3>1. \A i \in Lease : Hears(i, "refused", FALSE)
        BY <2>1, HearsNothing DEF NInv
      <3> QED BY <2>1, <3>1 DEF Calm, Forgets, Fewer
    <2> QED BY <1>1, <2>2, <2>3
  <1> QED BY <1>2, <1>3, <1>4, <1>5, <1>6, <1>7 DEF Next

LEMMA InitMoves ==
  ASSUME Init
  PROVE  NInv /\ Wired
  <1>1. Empty \in Service
    BY DEF Empty, Service
  <1>2. TypeOK
    <2>1. \A i \in Lease : [at |-> "idle", instance |-> None, expires |-> 0,
                            claimed |-> FALSE, closed |-> FALSE] \in Binding
      BY DEF Binding
    <2> QED BY <1>1, <2>1 DEF Init, TypeOK, Preview
  <1>3. Sound
    BY DEF Init, Sound, SoundOf, Handles, Empty, Works, Active, Serving
  <1>4. Addressed
    BY DEF Init, Addressed
  <1>5. \A i \in Lease : AlikeOf(i)
    <2>1. Requests \ {None} = {}
      BY DEF Init, Requests
    <2> QED BY <2>1 DEF Init, AlikeOf, Of
  <1>6. \A n \in Instance : loop[n] \notin Serving
    BY DEF Init, Serving
  <1> QED BY <1>2, <1>3, <1>4, <1>5, <1>6 DEF NInv, Wired, Alike, Init

-----------------------------------------------------------------------------
(* The theorems. *)

LEMMA NodeInvariance == Spec => [](NInv /\ Wired)
  <1>1. Init => NInv /\ Wired
    BY InitMoves
  <1>2. NInv /\ Wired /\ [Next]_vars => (NInv /\ Wired)'
    BY NextMoves
  <1> QED BY <1>1, <1>2, PTL DEF Spec

\* Requests, leases, timers and engines keep their types.
THEOREM NodeTypeCorrect == Spec => []TypeOK
  BY NodeInvariance, PTL DEF NInv

\* stopLease cancels what runs and leaves the handle to finish.
THEOREM HandleOutlivesEngine == Spec => []EngineHoldsHandle
  <1>1. NInv => EngineHoldsHandle
    <2> SUFFICES ASSUME NInv, NEW x \in work, Alive(x[1])
                 PROVE  x[2] \in service[x[1]].open
      BY DEF EngineHoldsHandle
    <2>1. PICK n \in Instance, i \in Lease : x = <<n, i>>
      BY DEF NInv, TypeOK
    <2>2. i \in Works(n) /\ loop[n] \in Active
      BY <2>1 DEF Works, Alive, Active, Serving
    <2>3. service[n].leases[i] # None /\ Handles(service[n])
      BY <2>2 DEF NInv, Sound, SoundOf
    <2> QED BY <2>1, <2>3 DEF Handles
  <1> QED BY <1>1, NodeInvariance, PTL

\* Nothing is left when Shutdown returns, and a failed release is reported.
THEOREM StoppedAlwaysEmpty == Spec => []StoppedOwnsNothing
  <1>1. NInv => StoppedOwnsNothing
    <2> SUFFICES ASSUME NInv, NEW n \in Instance, loop[n] = "stopped"
                 PROVE  /\ Held(service[n]) = {} /\ preview[n] \notin Inspecting
                        /\ \A i \in Lease : <<n, i>> \notin work
                        /\ service[n].poisoned \/ (service[n].open = {} /\ preview[n] = "none")
      BY DEF StoppedOwnsNothing
    <2>1. SoundOf(loop[n], service[n], binder[n], preview[n], Works(n))
      BY DEF NInv, Sound
    <2>2. preview[n] \notin Inspecting /\ \A i \in Lease : service[n].leases[i] = None
      BY <2>1 DEF SoundOf
    <2>3. \A i \in Lease : <<n, i>> \notin work
      BY <2>1, <2>2 DEF SoundOf, Active, Works
    <2>4. service[n].open \subseteq Lease
      BY ServiceType DEF Service
    <2>5. service[n].open = {} \/ service[n].poisoned
      BY <2>1, <2>2, <2>4 DEF SoundOf, Handles
    <2>6. preview[n] = "none" \/ service[n].poisoned
      BY <2>1, <2>2 DEF SoundOf, NInv, TypeOK, Preview
    <2> QED BY <2>2, <2>3, <2>5, <2>6 DEF Held
  <1> QED BY <1>1, NodeInvariance, PTL

\* The nonce of a bind refuses every copy of it, but for one whose engine has run.
THEOREM NeverBoundAgain == Spec => BoundAgain
  <1>1. NInv /\ Wired /\ [Next]_vars =>
          [\A n \in Instance, i \in Lease :
             i \notin Held(service[n]) /\ i \in Held(service'[n]) => past[<<n, i>>] # "bound"]_vars
    <2> SUFFICES ASSUME NInv, Wired, [Next]_vars, NEW n \in Instance, NEW i \in Lease,
                        service[n].leases[i] = None, service'[n].leases[i] # None
                 PROVE  past[<<n, i>>] # "bound"
      BY DEF Held
    <2>1. Moves
      BY NextMoves
    <2>2. ~Fewer(service[n], service'[n])
      BY DEF Fewer
    <2>3. service[n] # service'[n]
      OBVIOUS
    <2>4. ASSUME NEW j \in Lease
          PROVE  /\ ~Calm(j, FALSE) /\ ~Asks(j) /\ ~Binds(j) /\ ~Opens(j)
                 /\ \A k \in Instance : ~Confirms(k, j)
      BY <2>2, <2>3 DEF Calm, Asks, Binds, Opens, Sends, Confirms
    <2>5. ASSUME NEW k \in Instance, NEW s \in Service, NEW q \in Service,
                 service' = [service EXCEPT ![k] = q], Sheds(service[k], s),
                 \A j \in Lease : q.leases[j] # None => s.leases[j] # None
          PROVE  FALSE
      <3>1. k = n /\ service'[n] = q
        BY <2>3, <2>5 DEF NInv, TypeOK
      <3>2. s.leases[i] = None
        BY <2>5, <3>1 DEF Sheds
      <3> QED BY <2>5, <3>1, <3>2
    <2>6. ASSUME NEW k \in Instance, NEW m \in net, Takes(k, m)
          PROVE  FALSE
      <3>1. PICK s, q \in Service :
              /\ Sheds(service[k], s) /\ service' = [service EXCEPT ![k] = q]
              /\ q.leases = s.leases
        BY <2>6 DEF Takes
      <3>2. \A j \in Lease : q.leases[j] # None => s.leases[j] # None
        BY <3>1
      <3> QED BY <2>5, <3>1, <3>2
    <2>7. ASSUME NEW k \in Instance, NEW m \in preparing[k], Begins(k, m)
          PROVE  FALSE
      <3>1. PICK s, q \in Service :
              /\ Sheds(service[k], s) /\ m.id \in Idle(s)
              /\ service' = [service EXCEPT ![k] = q]
              /\ q.leases = [s.leases EXCEPT ![m.id] = [expires |-> m.until, engine |-> "running"]]
        BY <2>7 DEF Begins
      <3>2. \A j \in Lease : q.leases[j] # None => s.leases[j] # None
        BY <3>1 DEF Idle, Held, Service
      <3> QED BY <2>5, <3>1, <3>2
    <2>8. ASSUME NEW k \in Instance, Keeps(k)
          PROVE  past[<<n, i>>] # "bound"
      <3>1. PICK r \in Service :
              /\ service' = [service EXCEPT ![k] = r]
              /\ r.leases = [service[k].leases EXCEPT
                               ![binder[k].id] = [expires |-> binder[k].until, engine |-> "none"]]
        BY <2>8 DEF Keeps
      <3>2. k = n /\ service'[n] = r
        BY <2>3, <3>1 DEF NInv, TypeOK
      <3>3. i = binder[n].id
        BY <3>1, <3>2 DEF NInv, TypeOK, Service
      <3>4. binder[n] # None /\ loop[n] \in Serving
        BY <2>8, <3>2 DEF Keeps, NInv, Sound, SoundOf
      <3> QED BY <3>3, <3>4 DEF Wired, Late
    <2> QED BY <2>1, <2>3, <2>4, <2>6, <2>7, <2>8 DEF Moves
  <1> QED BY <1>1, NodeInvariance, PTL DEF Spec, BoundAgain

-----------------------------------------------------------------------------
(* The refinement of BindingPromise. *)

Ran == {i \in Lease : \E n \in Instance : past[<<n, i>>] = "started"}
Engines == {i \in Lease : \E n \in Instance : <<n, i>> \in work}
Confirmed == {i \in Lease : client[i].closed}

LEMMA StutterRefines ==
  ASSUME Ran' = Ran, Engines' \subseteq Engines, Confirmed' = Confirmed
  PROVE  Promise!Next
  <1>1. Engines' = Engines \ (Engines \ Engines') /\ Engines \ Engines' \in SUBSET Lease
    BY DEF Engines
  <1>2. PICK S \in SUBSET Lease : Engines' = Engines \ S
    BY <1>1
  <1>3. Promise!End(S)
    BY <1>2 DEF Promise!End, Ran, Engines, Confirmed
  <1> QED BY <1>3 DEF Promise!Next

\* An engine of i runs where i was bound only.
LEMMA EnginesOf ==
  ASSUME Wired, NEW n \in Instance, NEW i \in Lease, n = client[i].instance
  PROVE  \A k \in Instance : k # n => past[<<k, i>>] = "nothing" /\ <<k, i>> \notin work
  BY DEF Wired, Addressed

LEMMA ConfirmsRefines ==
  ASSUME NInv, Wired, NEW n \in Instance, NEW i \in Lease, Confirms(n, i)
  PROVE  Promise!Next
  <1>1. \A m \in net : m.to = client[m.id].instance
    BY DEF Wired, Addressed
  <1>2. n = client[i].instance
    BY <1>1 DEF Wired, Addressed, Confirms, Asked
  <1>3. /\ Hears(i, "refused", TRUE) /\ UNCHANGED past
        /\ work' = work \ {<<n, i>>}
    BY DEF Confirms, Calm
  <1>4. Engines' = Engines \ {i}
    <2>1. \A k \in Instance : <<k, i>> \notin work'
      BY <1>2, <1>3, EnginesOf
    <2>2. \A k \in Instance, j \in Lease : j # i => (<<k, j>> \in work' <=> <<k, j>> \in work)
      BY <1>3
    <2> QED BY <2>1, <2>2 DEF Engines
  <1>5. Ran' = Ran
    BY <1>3 DEF Ran
  <1>6. Confirmed' = Confirmed \/ Confirmed' = Confirmed \cup {i}
    BY <1>3 DEF Confirmed, Hears
  <1>7. CASE Confirmed' = Confirmed
    BY <1>4, <1>5, <1>7, StutterRefines
  <1>8. CASE Confirmed' = Confirmed \cup {i}
    <2>1. Promise!Confirm(i)
      BY <1>4, <1>5, <1>8 DEF Promise!Confirm, Ran, Engines, Confirmed
    <2> QED BY <2>1 DEF Promise!Next
  <1> QED BY <1>6, <1>7, <1>8

\* A stream that may start its engine is the first of its session, and nothing has
\* confirmed the cleanup: else the lease were gone.
LEMMA BeginsRefines ==
  ASSUME NInv, Wired, NEW n \in Instance, NEW m \in preparing[n], Begins(n, m)
  PROVE  Promise!Next
  <1>1. PICK s \in Service : Sheds(service[n], s) /\ m.id \in Idle(s)
    BY DEF Begins
  <1>a. m \in Request
    BY DEF NInv, TypeOK
  <1>b. m.id \in Lease /\ m.until \in Nat /\ m # None
    BY <1>a, NoneAssumption DEF Request
  <1>2. /\ m.id \in Lease /\ m.until \in Nat /\ now \in Nat /\ loop[n] \in Serving
        /\ m.until > now /\ Hears(m.id, "refused", FALSE) /\ m # None
    BY <1>b DEF Begins, NInv, TypeOK
  <1>3. /\ work' = work \cup {<<n, m.id>>} /\ past'[<<n, m.id>>] = "started"
        /\ \A k \in Instance, j \in Lease : k # n \/ j # m.id => past'[<<k, j>>] = past[<<k, j>>]
    BY <1>2 DEF Begins, NInv, TypeOK
  <1>4. m.kind = "stream" /\ n = client[m.id].instance
    BY DEF Wired, Addressed
  <1>5. m \in Of("stream", m.id)
    BY <1>2, <1>4 DEF Of, Requests
  <1>6. m.id \in Idle(service[n]) /\ service[n].leases[m.id] # None
    <2>1. s.leases[m.id] # None /\ s.leases[m.id].engine = "none"
      BY <1>1 DEF Idle, Held
    <2>2. s.leases[m.id] = service[n].leases[m.id]
      BY <1>1, <1>2, <2>1 DEF Sheds
    <2> QED BY <1>2, <2>1, <2>2 DEF Idle, Held
  <1>7. Late(n, m.id) /\ AlikeOf(m.id)
    BY <1>2 DEF Wired, Alike
  <1>8. past[<<n, m.id>>] # "started"
    <2>1. ~(m.until <= now)
      BY <1>2
    <2> QED BY <1>5, <1>6, <1>7, <2>1 DEF Late
  <1>9. ~client[m.id].closed
    <2>1. past[<<n, m.id>>] # "nothing"
      BY <1>4, <1>5, <1>7 DEF AlikeOf
    <2>2. past[<<n, m.id>>] \in {"nothing", "bound", "started"}
      BY <1>2 DEF NInv, TypeOK
    <2> QED BY <1>5, <1>6, <1>7, <1>8, <2>1, <2>2 DEF Late
  <1>10. m.id \notin Ran \cup Confirmed
    BY <1>4, <1>8, <1>9, EnginesOf DEF Ran, Confirmed
  <1>11. Ran' = Ran \cup {m.id}
    BY <1>2, <1>3 DEF Ran
  <1>12. Engines' = Engines \cup {m.id}
    BY <1>2, <1>3 DEF Engines
  <1>13. Confirmed' = Confirmed
    BY <1>2 DEF Confirmed, Hears
  <1>14. Promise!Start(m.id)
    BY <1>10, <1>11, <1>12, <1>13 DEF Promise!Start, Ran, Engines, Confirmed
  <1> QED BY <1>2, <1>14 DEF Promise!Next

\* Over all processes of the node, a session runs at most once, and neither after nor
\* beyond a confirmed Close.
THEOREM PromiseImplemented == Spec => PromiseKept
  <1>1. Init => Promise!Init
    <2> SUFFICES ASSUME Init PROVE Promise!Init
      OBVIOUS
    <2>1. \A n \in Instance, i \in Lease : past[<<n, i>>] # "started" /\ <<n, i>> \notin work
      BY DEF Init
    <2>2. \A i \in Lease : ~client[i].closed
      BY DEF Init
    <2>3. Ran = {} /\ Engines = {} /\ Confirmed = {}
      BY <2>1, <2>2 DEF Ran, Engines, Confirmed
    <2> QED BY <2>3 DEF Promise!Init, Ran, Engines, Confirmed
  <1>2. NInv /\ Wired /\ [Next]_vars => [Promise!Next]_Promise!vars
    <2> SUFFICES ASSUME NInv, Wired, [Next]_vars PROVE [Promise!Next]_Promise!vars
      OBVIOUS
    <2>1. Moves
      BY NextMoves
    <2>2. CASE Lease = {}
      <3>1. Ran' = Ran /\ Engines' = Engines /\ Confirmed' = Confirmed
        BY <2>2 DEF Ran, Engines, Confirmed
      <3> QED BY <3>1, StutterRefines
    <2>3. CASE UNCHANGED <<client, work, past>>
      <3>1. Ran' = Ran /\ Engines' = Engines /\ Confirmed' = Confirmed
        BY <2>3 DEF Ran, Engines, Confirmed
      <3> QED BY <3>1, StutterRefines
    <2>4. ASSUME NEW i \in Lease, Calm(i, FALSE)
          PROVE  Promise!Next
      <3>1. /\ Hears(i, "refused", FALSE) /\ UNCHANGED past /\ work' \subseteq work
        BY <2>4 DEF Calm
      <3>2. Ran' = Ran /\ Engines' \subseteq Engines
        BY <3>1 DEF Ran, Engines
      <3>3. Confirmed' = Confirmed
        BY <3>1 DEF Confirmed, Hears
      <3> QED BY <3>2, <3>3, StutterRefines
    <2>5. ASSUME NEW i \in Lease, Asks(i) \/ Binds(i) \/ Opens(i)
          PROVE  Promise!Next
      <3>1. PICK b : /\ client' = [client EXCEPT ![i] = b] /\ (b.closed <=> client[i].closed)
                     /\ UNCHANGED <<work, past>>
        BY <2>5 DEF Asks, Binds, Opens, Sends
      <3>2. Confirmed' = Confirmed
        BY <3>1 DEF Confirmed, NInv, TypeOK
      <3>3. Ran' = Ran /\ Engines' = Engines
        BY <3>1 DEF Ran, Engines
      <3> QED BY <3>2, <3>3, StutterRefines
    <2>6. ASSUME NEW n \in Instance, NEW m \in net, Takes(n, m)
          PROVE  UNCHANGED <<client, work, past>>
      BY <2>6 DEF Takes
    <2>7. ASSUME NEW n \in Instance, Keeps(n)
          PROVE  Promise!Next
      <3>1. PICK i : i = binder[n].id
        OBVIOUS
      <3>2. /\ i \in Lease /\ Hears(i, "held", FALSE) /\ UNCHANGED work
            /\ past' = [past EXCEPT ![<<n, i>>] = IF @ = "nothing" THEN "bound" ELSE @]
        BY <2>7, <3>1, ServiceType DEF Keeps, Request
      <3>3. \A k \in Instance, j \in Lease :
              past'[<<k, j>>] = "started" <=> past[<<k, j>>] = "started"
        BY <3>2 DEF NInv, TypeOK
      <3>4. Ran' = Ran /\ Engines' = Engines
        BY <3>2, <3>3 DEF Ran, Engines
      <3>5. Confirmed' = Confirmed
        BY <3>2 DEF Confirmed, Hears
      <3> QED BY <3>4, <3>5, StutterRefines
    <2> QED BY <2>1, <2>2, <2>3, <2>4, <2>5, <2>6, <2>7, ConfirmsRefines, BeginsRefines DEF Moves
  <1> QED BY <1>1, <1>2, NodeInvariance, PTL DEF Spec, PromiseKept, Promise!Spec
=============================================================================
