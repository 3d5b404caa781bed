---------------------------- MODULE LimitsProofs ----------------------------
(***************************************************************************)
(* The limits of the Coordinator and the Store, for every value of the     *)
(* constants: how many producers are active and fenced, how many Nodes and *)
(* containers are held, and that the running count of the containers is    *)
(* the sum that it caches.                                                 *)
(*                                                                         *)
(* The sum is a recursive function over the subsets of a finite set.  That *)
(* it is defined at all, and how it changes when a Node is added, replaced *)
(* or dropped, is shown by looking at a minimal subset for which it would  *)
(* not be so (Minimal), which is induction without a parameter.            *)
(***************************************************************************)
EXTENDS CoordinatorProofs, FiniteSetTheorems, WellFoundedInduction

-----------------------------------------------------------------------------
(* Sums over finite sets. *)

\* A set of subsets of a finite set has a member with no smaller one in it.
LEMMA Minimal ==
  ASSUME NEW S, IsFiniteSet(S), NEW T \in SUBSET SUBSET S, T # {}
  PROVE  \E s \in T : \A t \in T : t \subseteq s => t = s
  <1> DEFINE R == StrictSubsetOrdering(S)
  <1>1. IsWellFoundedOn(R, FiniteSubsetsOf(S)) /\ FiniteSubsetsOf(S) = SUBSET S
    BY FS_StrictSubsetOrderingWellFounded, FS_FiniteSubsetsOfFinite
  <1>2. \E s \in T : \A t \in T : <<t, s>> \notin R
    <2> HIDE DEF R
    <2> QED BY <1>1, WFMin
  <1> QED BY <1>2 DEF StrictSubsetOrdering

Pick(s) == CHOOSE x \in s : TRUE

\* One step of the recursion, and a function that follows it below S.
SumStep(f, g, s) == IF s = {} THEN 0 ELSE f[Pick(s)] + g[s \ {Pick(s)}]
Sums(f, g, S)    == g = [s \in SUBSET S |-> SumStep(f, g, s)]

\* What is picked belongs to the set, and leaves a smaller one.
LEMMA PickFact ==
  ASSUME NEW s, s # {}
  PROVE  Pick(s) \in s /\ s \ {Pick(s)} \subseteq s /\ s \ {Pick(s)} # s
  BY DEF Pick

\* Two functions that follow the recursion agree where both are defined.
LEMMA SumsAgree ==
  ASSUME NEW f, NEW g, NEW h, NEW S, NEW T, IsFiniteSet(S), Sums(f, g, S), Sums(f, h, T)
  PROVE  \A s \in SUBSET (S \cap T) : g[s] = h[s]
  <1> DEFINE Bad == {s \in SUBSET (S \cap T) : g[s] # h[s]}
  <1> SUFFICES ASSUME Bad # {} PROVE FALSE
    OBVIOUS
  <1>1. PICK s \in Bad : \A t \in Bad : t \subseteq s => t = s
    <2>1. Bad \in SUBSET SUBSET S
      OBVIOUS
    <2> HIDE DEF Bad
    <2> QED BY <2>1, Minimal
  <1>2. g[s] = SumStep(f, g, s) /\ h[s] = SumStep(f, h, s)
    BY DEF Sums
  <1>3. s # {}
    BY <1>2 DEF SumStep
  <1>4. g[s \ {Pick(s)}] = h[s \ {Pick(s)}]
    BY <1>1, <1>3, PickFact
  <1> QED BY <1>2, <1>3, <1>4 DEF SumStep

\* There is such a function below every finite set.
LEMMA SumsExist ==
  ASSUME NEW f, NEW S, IsFiniteSet(S)
  PROVE  \E g : Sums(f, g, S)
  <1> DEFINE Bad == {s \in SUBSET S : ~ \E g : Sums(f, g, s)}
  <1> SUFFICES ASSUME Bad # {} PROVE FALSE
    OBVIOUS
  <1>1. PICK s \in Bad : \A t \in Bad : t \subseteq s => t = s
    <2>1. Bad \in SUBSET SUBSET S
      OBVIOUS
    <2> HIDE DEF Bad
    <2> QED BY <2>1, Minimal
  <1> DEFINE H(t) == CHOOSE h : Sums(f, h, t)
             V(u) == IF u = {} THEN 0
                     ELSE f[Pick(u)] + H(u \ {Pick(u)})[u \ {Pick(u)}]
             G    == [u \in SUBSET s |-> V(u)]
  <1>2. ASSUME NEW t \in SUBSET s, t # s
        PROVE  Sums(f, H(t), t) /\ IsFiniteSet(t)
    <2>1. t \in SUBSET S /\ t \notin Bad
      BY <1>1, <1>2
    <2>2. \E h : Sums(f, h, t)
      BY <2>1
    <2> QED BY <2>1, <2>2, FS_Subset
  <1> HIDE DEF H
  <1>3. ASSUME NEW t \in SUBSET s, t # s
        PROVE  G[t] = H(t)[t]
    <2>1. Sums(f, H(t), t) /\ IsFiniteSet(t)
      BY <1>2, <1>3
    <2>2. H(t)[t] = SumStep(f, H(t), t)
      BY <2>1 DEF Sums
    <2>3. CASE t = {}
      BY <2>2, <2>3 DEF SumStep
    <2>4. CASE t # {}
      <3> DEFINE u == t \ {Pick(t)}
      <3>1. u \in SUBSET s /\ u # s /\ u \in SUBSET (t \cap u)
        BY <1>3, <2>4, PickFact
      <3>2. Sums(f, H(u), u)
        BY <1>2, <3>1
      <3>3. H(t)[u] = H(u)[u]
        BY <2>1, <3>1, <3>2, SumsAgree
      <3> QED BY <2>2, <2>4, <3>3 DEF SumStep
    <2> QED BY <2>3, <2>4
  <1>4. ASSUME NEW u \in SUBSET s
        PROVE  V(u) = SumStep(f, G, u)
    <2>1. CASE u = {}
      BY <2>1 DEF SumStep
    <2>2. CASE u # {}
      <3>1. u \ {Pick(u)} \in SUBSET s /\ u \ {Pick(u)} # s
        BY <2>2, PickFact
      <3>2. G[u \ {Pick(u)}] = H(u \ {Pick(u)})[u \ {Pick(u)}]
        BY <1>3, <3>1
      <3> QED BY <2>2, <3>2 DEF SumStep
    <2> QED BY <2>1, <2>2
  <1>5. Sums(f, G, s)
    <2> HIDE DEF V
    <2>1. [u \in SUBSET s |-> V(u)] = [u \in SUBSET s |-> SumStep(f, G, u)]
      BY <1>4
    <2> QED BY <2>1 DEF Sums
  <1> QED BY <1>5

Sum(f, S) == SumFunctionOnSet(f, S)

\* The library's sum is the value of such a function.
LEMMA SumUnfold ==
  ASSUME NEW f, NEW S, IsFiniteSet(S)
  PROVE  \E g : Sums(f, g, S) /\ Sum(f, S) = g[S]
  <1> DEFINE G == CHOOSE g : g = [s \in SUBSET S |-> SumStep(f, g, s)]
  <1>1. Sum(f, S) = G[S]
    BY DEF Sum, SumFunctionOnSet, FoldFunctionOnSet, MapThenFoldSet, SumStep, Pick
  <1>2. Sums(f, G, S)
    BY SumsExist DEF Sums
  <1> QED BY <1>1, <1>2

\* A sum over nothing is zero.
LEMMA SumEmpty ==
  ASSUME NEW f
  PROVE  Sum(f, {}) = 0
  <1>1. PICK g : Sums(f, g, {}) /\ Sum(f, {}) = g[{}]
    BY SumUnfold, FS_EmptySet
  <1>2. g[{}] = SumStep(f, g, {})
    BY <1>1 DEF Sums
  <1> QED BY <1>1, <1>2 DEF SumStep

\* A sum is one value and the sum of the others.
LEMMA SumPick ==
  ASSUME NEW f, NEW S, IsFiniteSet(S), S # {}
  PROVE  Sum(f, S) = f[Pick(S)] + Sum(f, S \ {Pick(S)})
  <1> DEFINE T == S \ {Pick(S)}
  <1>1. T \subseteq S /\ IsFiniteSet(T)
    BY PickFact, FS_Subset
  <1>2. PICK g : Sums(f, g, S) /\ Sum(f, S) = g[S]
    BY SumUnfold
  <1>3. PICK h : Sums(f, h, T) /\ Sum(f, T) = h[T]
    BY <1>1, SumUnfold
  <1>4. g[T] = h[T]
    BY <1>1, <1>2, <1>3, SumsAgree
  <1>5. g[S] = SumStep(f, g, S)
    BY <1>2 DEF Sums
  <1> QED BY <1>2, <1>3, <1>4, <1>5 DEF SumStep

\* A sum of natural numbers is one.
LEMMA SumType ==
  ASSUME NEW f, NEW S, IsFiniteSet(S), \A x \in S : f[x] \in Nat
  PROVE  Sum(f, S) \in Nat
  <1> DEFINE Bad == {s \in SUBSET S : Sum(f, s) \notin Nat}
  <1> SUFFICES ASSUME Bad # {} PROVE FALSE
    OBVIOUS
  <1>1. PICK s \in Bad : \A t \in Bad : t \subseteq s => t = s
    <2>1. Bad \in SUBSET SUBSET S
      OBVIOUS
    <2> HIDE DEF Bad
    <2> QED BY <2>1, Minimal
  <1>2. s # {} /\ IsFiniteSet(s)
    <2>1. Sum(f, {}) \in Nat
      BY SumEmpty
    <2> QED BY <1>1, <2>1, FS_Subset
  <1>3. Sum(f, s \ {Pick(s)}) \in Nat /\ f[Pick(s)] \in Nat
    BY <1>1, <1>2, PickFact
  <1>4. Sum(f, s) \in Nat
    BY <1>2, <1>3, SumPick
  <1> QED BY <1>1, <1>4

\* It depends on the values of its own indices only.
LEMMA SumSame ==
  ASSUME NEW f, NEW g, NEW S, IsFiniteSet(S), \A x \in S : f[x] = g[x]
  PROVE  Sum(f, S) = Sum(g, S)
  <1> DEFINE Bad == {s \in SUBSET S : Sum(f, s) # Sum(g, s)}
  <1> SUFFICES ASSUME Bad # {} PROVE FALSE
    OBVIOUS
  <1>1. PICK s \in Bad : \A t \in Bad : t \subseteq s => t = s
    <2>1. Bad \in SUBSET SUBSET S
      OBVIOUS
    <2> HIDE DEF Bad
    <2> QED BY <2>1, Minimal
  <1>2. s # {} /\ IsFiniteSet(s)
    BY <1>1, SumEmpty, FS_Subset
  <1>3. Sum(f, s \ {Pick(s)}) = Sum(g, s \ {Pick(s)}) /\ f[Pick(s)] = g[Pick(s)]
    BY <1>1, <1>2, PickFact
  <1>4. Sum(f, s) = Sum(g, s)
    BY <1>2, <1>3, SumPick
  <1> QED BY <1>1, <1>4

\* Any index may be taken out first.
LEMMA SumRemove ==
  ASSUME NEW f, NEW S, IsFiniteSet(S), \A x \in S : f[x] \in Nat, NEW e \in S
  PROVE  Sum(f, S) = f[e] + Sum(f, S \ {e})
  <1> DEFINE Bad == {s \in SUBSET S : \E x \in s : Sum(f, s) # f[x] + Sum(f, s \ {x})}
  <1> SUFFICES ASSUME Bad # {} PROVE FALSE
    OBVIOUS
  <1>1. PICK s \in Bad : \A t \in Bad : t \subseteq s => t = s
    <2>1. Bad \in SUBSET SUBSET S
      OBVIOUS
    <2> HIDE DEF Bad
    <2> QED BY <2>1, Minimal
  <1>2. PICK x \in s : Sum(f, s) # f[x] + Sum(f, s \ {x})
    BY <1>1
  <1> DEFINE p == Pick(s)
             u == s \ {p}
             v == s \ {x}
  <1>3. /\ IsFiniteSet(s) /\ p \in s
        /\ Sum(f, s) = f[p] + Sum(f, u)
    BY <1>1, <1>2, FS_Subset, SumPick, PickFact
  <1>4. p # x
    BY <1>2, <1>3
  <1>5. u \notin Bad /\ v \notin Bad /\ u \in SUBSET S /\ v \in SUBSET S
    BY <1>1, <1>2, <1>3
  <1>6. x \in u /\ p \in v /\ u \ {x} = v \ {p}
    BY <1>2, <1>3, <1>4
  <1>7. Sum(f, u) = f[x] + Sum(f, u \ {x})
    BY <1>5, <1>6
  <1>8. Sum(f, v) = f[p] + Sum(f, v \ {p})
    BY <1>5, <1>6
  <1>9. f[x] \in Nat /\ f[p] \in Nat /\ Sum(f, u \ {x}) \in Nat
    BY <1>1, <1>3, <1>5, SumType, FS_Subset
  <1> HIDE DEF p, u, v
  <1>10. Sum(f, s) = f[p] + (f[x] + Sum(f, u \ {x}))
    BY <1>3, <1>7
  <1>11. Sum(f, v) = f[p] + Sum(f, u \ {x})
    BY <1>6, <1>8
  <1>12. Sum(f, s) = f[x] + Sum(f, v)
    BY <1>9, <1>10, <1>11
  <1> QED BY <1>2, <1>12 DEF v

\* A sum is the sums over the two parts of its indices.
LEMMA SumSplit ==
  ASSUME NEW f, NEW S, IsFiniteSet(S), \A x \in S : f[x] \in Nat, NEW T \in SUBSET S
  PROVE  Sum(f, S) = Sum(f, T) + Sum(f, S \ T)
  <1> DEFINE Bad == {s \in SUBSET S : Sum(f, S) # Sum(f, s) + Sum(f, S \ s)}
  <1> SUFFICES ASSUME Bad # {} PROVE FALSE
    OBVIOUS
  <1>1. PICK s \in Bad : \A t \in Bad : t \subseteq s => t = s
    <2>1. Bad \in SUBSET SUBSET S
      OBVIOUS
    <2> HIDE DEF Bad
    <2> QED BY <2>1, Minimal
  <1>2. Sum(f, S) \in Nat
    BY SumType
  <1>3. s # {}
    <2>1. Sum(f, {}) = 0 /\ S \ {} = S
      BY SumEmpty
    <2>2. Sum(f, S) = Sum(f, {}) + Sum(f, S \ {})
      BY <1>2, <2>1
    <2> QED BY <1>1, <2>2
  <1>4. PICK e \in s : TRUE
    BY <1>3
  <1> DEFINE t == s \ {e}
  <1>5. t \in SUBSET S /\ t \notin Bad /\ s \in SUBSET S /\ e \in S
    BY <1>1, <1>4
  <1>6. Sum(f, S) = Sum(f, t) + Sum(f, S \ t)
    BY <1>5
  <1>7. Sum(f, s) = f[e] + Sum(f, t)
    BY <1>4, <1>5, FS_Subset, SumRemove
  <1>8. Sum(f, S \ t) = f[e] + Sum(f, S \ s)
    <2>1. e \in S \ t /\ (S \ t) \ {e} = S \ s /\ S \ t \in SUBSET S
      BY <1>4, <1>5
    <2>2. IsFiniteSet(S \ t) /\ \A x \in S \ t : f[x] \in Nat
      BY <2>1, FS_Subset
    <2> QED BY <2>1, <2>2, SumRemove
  <1>9. f[e] \in Nat /\ Sum(f, t) \in Nat /\ Sum(f, S \ s) \in Nat
    BY <1>5, SumType, FS_Subset
  <1> HIDE DEF t
  <1>10. Sum(f, S) = Sum(f, s) + Sum(f, S \ s)
    BY <1>6, <1>7, <1>8, <1>9
  <1> QED BY <1>1, <1>10

-----------------------------------------------------------------------------
(* The inductive invariant. *)

HeldNames   == {n \in NodeName : Held(n)}
RecordNames == {n \in NodeName : records[n] # None}

\* c.agents and c.retired are within their limits, and what Begin has let pass
\* still fits: nothing else changes the two while c.mu is held.
IdentitiesFit ==
  /\ IsFiniteSet(Active(agents)) /\ Cardinality(Active(agents)) <= MaxAgents
  /\ IsFiniteSet(Retired(retired)) /\ Cardinality(Retired(retired)) <= MaxRetired
  /\ accepting.request # None =>
       Capacity(accepting.request.instance, accepting.owner, agents, retired) = "proceed"

\* The Store is within its limits, and its running count is right.
StoreFits ==
  /\ IsFiniteSet(HeldNames) /\ Cardinality(HeldNames) <= MaxNodes
  /\ containerCount <= MaxContainers
  /\ containerCount = ContainersOn(RecordNames)

LInv == CInv /\ IdentitiesFit /\ StoreFits

\* The invariant is finite sets and the limits that the run checks.
LEMMA LInvLimits == LInv => WithinLimits
  BY DEF LInv, IdentitiesFit, StoreFits, WithinLimits, HeldNames, RecordNames

\* A subset of a set within a limit is finite and within it.
LEMMA Fewer ==
  ASSUME NEW S, NEW T, NEW max \in Nat, IsFiniteSet(S), Cardinality(S) <= max, T \subseteq S
  PROVE  IsFiniteSet(T) /\ Cardinality(T) <= max
  <1>1. IsFiniteSet(T) /\ Cardinality(T) <= Cardinality(S)
    BY FS_Subset
  <1>2. Cardinality(T) \in Nat /\ Cardinality(S) \in Nat
    BY <1>1, FS_CardinalityType
  <1> QED BY <1>1, <1>2

\* A set below its limit has room for one more element.
LEMMA OneMore ==
  ASSUME NEW S, NEW T, NEW x, NEW max \in Nat, IsFiniteSet(S), ~(Cardinality(S) >= max),
         T \subseteq S \cup {x}
  PROVE  IsFiniteSet(T) /\ Cardinality(T) <= max
  <1>1. /\ IsFiniteSet(S \cup {x})
        /\ Cardinality(S \cup {x}) = IF x \in S THEN Cardinality(S) ELSE Cardinality(S) + 1
    BY FS_AddElement
  <1>2. Cardinality(S) \in Nat
    BY FS_CardinalityType
  <1>3. Cardinality(S \cup {x}) <= max
    BY <1>1, <1>2
  <1> QED BY <1>1, <1>3, Fewer

-----------------------------------------------------------------------------
(* The identities. *)

\* Forgetting fenced producers frees room.
LEMMA PruneFits ==
  ASSUME CInv, IdentitiesFit
  PROVE  /\ Retired(pruneRetired) \subseteq Retired(retired)
         /\ IsFiniteSet(Retired(pruneRetired))
         /\ Cardinality(Retired(pruneRetired)) <= MaxRetired
  <1>1. Retired(pruneRetired) \subseteq Retired(retired)
    BY PruneRetiredType DEF CInv, Retired
  <1> QED BY <1>1, Fewer, LimitsAssumption DEF IdentitiesFit

\* pruneInactive stops where c.retired is full, and Begin lets pass what fits.
LEMMA BeginFits ==
  ASSUME CInv, IdentitiesFit, NEW r \in Request, NEW result \in CapacityResult, Begin(r, result)
  PROVE  IdentitiesFit'
  <1>i. r.instance \in Instance
    BY RequestType
  <1>g. PICK gone \in PruneSets(r.instance) : Retire(gone)
    BY DEF Begin
  <1>s. gone \subseteq Active(agents) /\ IsFiniteSet(gone)
    BY <1>i, <1>g, PruneSetsFact, FS_Subset DEF IdentitiesFit
  <1>1. IsFiniteSet(Active(agents')) /\ Cardinality(Active(agents')) <= MaxAgents
    <2>1. Active(agents') \subseteq Active(agents)
      BY <1>g DEF Retire, Active
    <2> QED BY <2>1, Fewer, LimitsAssumption DEF IdentitiesFit
  <1>2. IsFiniteSet(Retired(retired')) /\ Cardinality(Retired(retired')) <= MaxRetired
    <2> DEFINE P == Retired(pruneRetired)
    <2>1. IsFiniteSet(P) /\ Cardinality(P) <= MaxRetired /\ Cardinality(P) \in Nat
      BY PruneFits, FS_CardinalityType
    <2>2. Retired(retired') \subseteq P \cup gone
      BY <1>g DEF Retire, Retired
    <2>3. CASE gone = {}
      BY <2>1, <2>2, <2>3, Fewer, LimitsAssumption
    <2>4. CASE gone # {}
      <3>1. Cardinality(P) + Cardinality(gone) <= MaxRetired
        BY <1>g, <2>4, LimitsAssumption DEF PruneSets
      <3>2. /\ IsFiniteSet(P \cup gone)
            /\ Cardinality(P \cup gone) = Cardinality(P) + Cardinality(gone) - Cardinality(P \cap gone)
        BY <1>s, <2>1, FS_Union
      <3>3. Cardinality(gone) \in Nat /\ Cardinality(P \cap gone) \in Nat
        BY <1>s, FS_CardinalityType, FS_Subset
      <3>4. Cardinality(P \cup gone) <= MaxRetired
        <4> HIDE DEF P
        <4> QED BY <2>1, <3>1, <3>2, <3>3, LimitsAssumption
      <3> QED BY <2>2, <3>2, <3>4, Fewer, LimitsAssumption
    <2> QED BY <2>3, <2>4
  <1>3. ASSUME accepting'.request # None
        PROVE  Capacity(accepting'.request.instance, accepting'.owner, agents', retired') = "proceed"
    BY <1>3 DEF Begin, Free
  <1> QED BY <1>1, <1>2, <1>3 DEF IdentitiesFit

\* The hand-over exchanges a producer for another, or adds one that fits.
LEMMA CommitFits ==
  ASSUME CInv, IdentitiesFit, Commit
  PROVE  IdentitiesFit'
  <1> DEFINE r == accepting.request
             i == r.instance
             o == accepting.owner
  <1>1. r \in Request /\ r # None /\ i \in Instance /\ o \in Instance \cup {None}
    <2>1. r \in Request /\ r # None /\ o \in Instance \cup {None}
      BY DEF Commit, CInv, TypeOK
    <2> QED BY <2>1, RequestType
  <1>2. Capacity(i, o, agents, retired) = "proceed"
    BY <1>1 DEF IdentitiesFit
  <1>a. IsFiniteSet(Active(agents)) /\ Cardinality(Active(agents)) <= MaxAgents /\ MaxAgents \in Nat
    BY LimitsAssumption DEF IdentitiesFit
  <1>3. ~accepting'.request # None
    BY DEF Commit, Free
  <1>4. CASE UNCHANGED <<agents, retired>>
    BY <1>3, <1>4 DEF IdentitiesFit
  <1>5. CASE NewOwner(i, o) /\ StoreResult(r) = "accepted"
    <2>1. o \in Active(agents)
      <3>1. o \in Owner(i, owners, agents)
        BY <1>1 DEF CInv, OwnerStaysCurrent
      <3> QED BY <1>1, <1>5, <3>1, OwnerFact DEF CInv, NewOwner, Active
    <2>2. /\ agents' = [agents EXCEPT ![o] = None, ![i] = r]
          /\ retired' = [retired EXCEPT ![o] = clock + RetiredTTL]
      BY <1>5 DEF Commit
    <2>3. Active(agents') \subseteq (Active(agents) \ {o}) \cup {i}
      BY <1>1, <1>5, <2>2 DEF CInv, TypeOK, Active, NewOwner
    <2>4. Retired(retired') \subseteq Retired(retired) \cup {o}
      BY <2>2 DEF CInv, TypeOK, Retired
    <2>5. ~(Cardinality(Retired(retired)) >= MaxRetired)
      BY <1>2, <1>5 DEF Capacity
    <2>6. IsFiniteSet(Active(agents')) /\ Cardinality(Active(agents')) <= MaxAgents
      <3> DEFINE A == Active(agents) \ {o}
      <3>1. IsFiniteSet(A) /\ Cardinality(A) = Cardinality(Active(agents)) - 1
        BY <1>a, <2>1, FS_RemoveElement
      <3>2. Cardinality(A) \in Nat /\ Cardinality(Active(agents)) \in Nat
        BY <1>a, <3>1, FS_CardinalityType
      <3>3. ~(Cardinality(A) >= MaxAgents)
        BY <1>a, <3>1, <3>2
      <3>4. Active(agents') \subseteq A \cup {i} /\ IsFiniteSet(A)
        BY <2>3, <3>1
      <3> HIDE DEF A, i
      <3> QED BY <1>a, <3>3, <3>4, OneMore
    <2>7. IsFiniteSet(Retired(retired')) /\ Cardinality(Retired(retired')) <= MaxRetired
      BY <2>4, <2>5, OneMore, LimitsAssumption DEF IdentitiesFit
    <2> QED BY <1>3, <2>6, <2>7 DEF IdentitiesFit
  <1>6. CASE ~NewOwner(i, o) /\ StoreResult(r) = "accepted"
    <2>1. agents' = [agents EXCEPT ![i] = r] /\ retired' = retired
      BY <1>6 DEF Commit
    <2>2. Active(agents') \subseteq Active(agents) \cup {i}
      BY <2>1 DEF CInv, TypeOK, Active
    <2>3. IsFiniteSet(Active(agents')) /\ Cardinality(Active(agents')) <= MaxAgents
      <3>1. CASE agents[i] = None
        <4>1. ~(Cardinality(Active(agents)) >= MaxAgents)
          BY <1>2, <1>6, <3>1 DEF Capacity
        <4> QED BY <1>a, <2>2, <4>1, OneMore
      <3>2. CASE agents[i] # None
        <4>1. Active(agents') \subseteq Active(agents)
          BY <1>1, <2>2, <3>2 DEF Active
        <4> QED BY <4>1, Fewer, LimitsAssumption DEF IdentitiesFit
      <3> QED BY <3>1, <3>2
    <2> QED BY <1>3, <2>1, <2>3 DEF IdentitiesFit
  <1> QED BY <1>4, <1>5, <1>6 DEF Commit

-----------------------------------------------------------------------------
(* The Store. *)

\* The containers of one record, and of those that rec holds for a set of Nodes.
SizesOf(rec) == [n \in NodeName |-> Containers(rec[n])]
NamesOf(rec) == {n \in NodeName : rec[n] # None}

\* Every record lists a natural number of containers.
LEMMA SizesType ==
  ASSUME NEW rec \in [NodeName -> Request \cup {None}]
  PROVE  \A n \in NodeName : SizesOf(rec)[n] = Containers(rec[n]) /\ SizesOf(rec)[n] \in Nat
  <1>1. \A r \in Request : r.size \in Nat
    BY RequestAssumption
  <1> QED BY <1>1 DEF SizesOf, Containers

\* The sum over the Nodes held changes by what one record changes.
LEMMA SumReplaced ==
  ASSUME NEW rec \in [NodeName -> Request \cup {None}], IsFiniteSet(NamesOf(rec)),
         NEW n \in NodeName, NEW r \in Request,
         NEW new, new = [rec EXCEPT ![n] = r]
  PROVE  /\ Sum(SizesOf(new), NamesOf(new)) = Sum(SizesOf(rec), NamesOf(rec)) - Containers(rec[n]) + r.size
         /\ Sum(SizesOf(rec), NamesOf(rec)) \in Nat
  <1> DEFINE S == NamesOf(rec)
             T == NamesOf(new)
             f == SizesOf(rec)
             g == SizesOf(new)
  <1>1. new \in [NodeName -> Request \cup {None}] /\ r # None /\ r.size \in Nat
    BY RequestType, RequestAssumption
  <1>2. n \in T /\ T \ {n} = S \ {n} /\ T = S \cup {n}
    BY <1>1 DEF NamesOf
  <1>3. IsFiniteSet(T) /\ IsFiniteSet(S \ {n})
    BY <1>2, FS_AddElement, FS_Subset
  <1>4. /\ \A m \in S : f[m] \in Nat
        /\ \A m \in T : g[m] \in Nat
        /\ \A m \in S \ {n} : f[m] = g[m]
        /\ g[n] = r.size
        /\ f[n] = Containers(rec[n])
        /\ Containers(rec[n]) \in Nat
    <2>1. /\ \A m \in NodeName : f[m] = Containers(rec[m]) /\ f[m] \in Nat
          /\ \A m \in NodeName : g[m] = Containers(new[m]) /\ g[m] \in Nat
      BY <1>1, SizesType
    <2>2. S \subseteq NodeName /\ T \subseteq NodeName
      BY DEF NamesOf
    <2>3. \A m \in NodeName : m # n => new[m] = rec[m]
      OBVIOUS
    <2>4. new[n] = r /\ Containers(r) = r.size
      BY <1>1 DEF Containers
    <2> HIDE DEF f, g, S, T
    <2> QED BY <2>1, <2>2, <2>3, <2>4
  <1> HIDE DEF S, T, f, g
  <1>5. Sum(g, T) = r.size + Sum(f, S \ {n})
    <2>1. Sum(g, T) = g[n] + Sum(g, T \ {n})
      BY <1>2, <1>3, <1>4, SumRemove
    <2>2. Sum(g, S \ {n}) = Sum(f, S \ {n})
      BY <1>3, <1>4, SumSame
    <2> QED BY <1>2, <1>4, <2>1, <2>2
  <1>6. Sum(f, S) = Containers(rec[n]) + Sum(f, S \ {n})
    <2>1. CASE n \in S
      BY <1>4, <2>1, SumRemove DEF S
    <2>2. CASE n \notin S
      <3>1. S \ {n} = S /\ Containers(rec[n]) = 0
        BY <2>2 DEF S, NamesOf, Containers
      <3>2. Sum(f, S) \in Nat
        BY <1>4, SumType DEF S
      <3> QED BY <3>1, <3>2
    <2> QED BY <2>1, <2>2
  <1>7. Sum(f, S \ {n}) \in Nat
    BY <1>3, <1>4, SumType
  <1>8. /\ Sum(g, T) = Sum(f, S) - Containers(rec[n]) + r.size
        /\ Sum(f, S) \in Nat
    BY <1>1, <1>4, <1>5, <1>6, <1>7
  <1> QED BY <1>8 DEF S, T, f, g

\* And by the sum over what is dropped.
LEMMA SumDropped ==
  ASSUME NEW rec \in [NodeName -> Request \cup {None}], IsFiniteSet(NamesOf(rec)),
         NEW D \in SUBSET NamesOf(rec),
         NEW new, new = [n \in NodeName |-> IF n \in D THEN None ELSE rec[n]]
  PROVE  /\ Sum(SizesOf(new), NamesOf(new)) = Sum(SizesOf(rec), NamesOf(rec)) - Sum(SizesOf(rec), D)
         /\ Sum(SizesOf(rec), NamesOf(rec)) \in Nat
         /\ Sum(SizesOf(rec), D) \in Nat
  <1> DEFINE S == NamesOf(rec)
             T == NamesOf(new)
             f == SizesOf(rec)
             g == SizesOf(new)
  <1>1. new \in [NodeName -> Request \cup {None}]
    OBVIOUS
  <1>2. T = S \ D
    BY DEF NamesOf
  <1>3. IsFiniteSet(T) /\ IsFiniteSet(D)
    BY <1>2, FS_Subset
  <1>4. /\ \A m \in S : f[m] \in Nat
        /\ \A m \in T : f[m] = g[m]
    <2>1. /\ \A m \in NodeName : f[m] = Containers(rec[m]) /\ f[m] \in Nat
          /\ \A m \in NodeName : g[m] = Containers(new[m]) /\ g[m] \in Nat
      BY <1>1, SizesType
    <2>2. S \subseteq NodeName /\ T \subseteq NodeName
      BY DEF NamesOf
    <2>3. \A m \in T : new[m] = rec[m]
      BY <1>2, <2>2
    <2> HIDE DEF f, g, S, T
    <2> QED BY <2>1, <2>2, <2>3
  <1>5. IsFiniteSet(S) /\ D \in SUBSET S
    OBVIOUS
  <1> HIDE DEF S, T, f, g
  <1>6. Sum(f, S) = Sum(f, D) + Sum(f, T)
    BY <1>2, <1>4, <1>5, SumSplit
  <1>7. Sum(g, T) = Sum(f, T)
    BY <1>3, <1>4, SumSame
  <1>8. Sum(f, S) \in Nat /\ Sum(f, D) \in Nat /\ Sum(f, T) \in Nat
    BY <1>2, <1>3, <1>4, <1>5, SumType
  <1>9. /\ Sum(g, T) = Sum(f, S) - Sum(f, D)
        /\ Sum(f, S) \in Nat
        /\ Sum(f, D) \in Nat
    BY <1>6, <1>7, <1>8
  <1> QED BY <1>9 DEF S, T, f, g

\* The model's sum, over the Nodes whose records are held.
LEMMA ContainersFact ==
  /\ ContainersOn(RecordNames) = Sum(SizesOf(records), NamesOf(records))
  /\ RecordNames = NamesOf(records)
  /\ \A D : ContainersOn(D) = Sum(SizesOf(records), D)
  BY DEF ContainersOn, RecordNames, Sum, SizesOf, NamesOf

\* The same in the next state.
LEMMA ContainersFactNext ==
  /\ ContainersOn(RecordNames)' = Sum(SizesOf(records'), NamesOf(records'))
  /\ RecordNames' = NamesOf(records')
  BY DEF ContainersOn, RecordNames, Sum, SizesOf, NamesOf

\* Names with a record are among those held.
LEMMA RecordsFinite ==
  ASSUME StoreFits
  PROVE  IsFiniteSet(NamesOf(records))
  <1>1. NamesOf(records) \subseteq HeldNames
    BY DEF NamesOf, HeldNames, Held
  <1> QED BY <1>1, FS_Subset DEF StoreFits

\* Evidence for a name that takes no new slot, or that finds one free, fits.
LEMMA SlotFits ==
  ASSUME StoreFits, NEW n \in NodeName, ~(nodeRecordCount(n) >= MaxNodes) \/ Held(n),
         HeldNames' \subseteq HeldNames \cup {n}
  PROVE  IsFiniteSet(HeldNames') /\ Cardinality(HeldNames') <= MaxNodes
  <1>0. IsFiniteSet(HeldNames) /\ Cardinality(HeldNames) <= MaxNodes /\ MaxNodes \in Nat
    BY LimitsAssumption DEF StoreFits
  <1>1. CASE Held(n)
    <2>1. HeldNames' \subseteq HeldNames
      BY <1>1 DEF HeldNames
    <2> QED BY <1>0, <2>1, Fewer
  <1>2. CASE ~Held(n)
    <2>1. ~(Cardinality(HeldNames) >= MaxNodes)
      BY <1>2 DEF nodeRecordCount, HeldNames
    <2> QED BY <1>0, <2>1, OneMore
  <1> QED BY <1>1, <1>2

\* The Store's half of Accept counts before it writes.
LEMMA CommitStoreFits ==
  ASSUME CInv, StoreFits, Commit
  PROVE  StoreFits'
  <1> DEFINE r == accepting.request
             i == r.instance
             n == Claims[i].name
  <1>1. r \in Request /\ n \in NodeName /\ r # None
    <2>1. r \in Request
      BY DEF Commit, CInv, TypeOK
    <2> QED BY <2>1, RequestType, ClaimsType
  <1>2. records \in [NodeName -> Request \cup {None}] /\ contexts \in [NodeName -> Request \cup {None}]
    BY DEF CInv, TypeOK
  <1>3. CASE UNCHANGED storeVars
    BY <1>3 DEF storeVars, StoreFits, HeldNames, RecordNames, Held, ContainersOn
  <1>4. CASE StoreResult(r) = "accepted" /\ Claims[i].role = "node-context"
    <2>1. contexts' = [contexts EXCEPT ![n] = r] /\ UNCHANGED <<records, containerCount>>
      BY <1>4 DEF Commit, ReplaceNodeEvidence
    <2>2. ~(nodeRecordCount(n) >= MaxNodes) \/ Held(n)
      <3>1. EvidenceResult(r) = "accepted"
        BY <1>4 DEF StoreResult
      <3> QED BY <3>1 DEF EvidenceResult, Held
    <2>3. HeldNames' \subseteq HeldNames \cup {n}
      BY <1>2, <2>1 DEF HeldNames, Held
    <2>4. IsFiniteSet(HeldNames') /\ Cardinality(HeldNames') <= MaxNodes
      BY <1>1, <2>2, <2>3, SlotFits
    <2>5. containerCount' <= MaxContainers /\ containerCount' = ContainersOn(RecordNames)'
      BY <2>1 DEF StoreFits, ContainersOn, RecordNames
    <2> QED BY <2>4, <2>5 DEF StoreFits
  <1>5. CASE StoreResult(r) = "accepted" /\ Claims[i].role # "node-context" /\ ~Unchanged(r)
    <2>1. /\ records' = [records EXCEPT ![n] = r]
          /\ containerCount' = projectedContainers(r)
          /\ UNCHANGED contexts
      BY <1>5 DEF Commit, ReplaceAuthenticatedNodeSnapshot
    <2>2. SnapshotResult(r) = "accepted"
      BY <1>5 DEF StoreResult
    <2>3. ~(nodeRecordCount(n) >= MaxNodes) \/ Held(n)
      BY <2>2 DEF SnapshotResult, Held
    <2>4. HeldNames' \subseteq HeldNames \cup {n}
      BY <1>2, <2>1 DEF HeldNames, Held
    <2>5. IsFiniteSet(HeldNames') /\ Cardinality(HeldNames') <= MaxNodes
      BY <1>1, <2>3, <2>4, SlotFits
    <2>6. containerCount = Sum(SizesOf(records), NamesOf(records))
      BY ContainersFact DEF StoreFits
    <2>7. /\ Sum(SizesOf(records'), NamesOf(records'))
               = Sum(SizesOf(records), NamesOf(records)) - Containers(records[n]) + r.size
          /\ Sum(SizesOf(records), NamesOf(records)) \in Nat
      <3>1. IsFiniteSet(NamesOf(records)) /\ records' = [records EXCEPT ![n] = r]
        BY <2>1, RecordsFinite
      <3>2. n \in NodeName /\ r \in Request /\ records \in [NodeName -> Request \cup {None}]
        BY <1>1, <1>2
      <3> HIDE DEF n, i, r
      <3> QED BY <3>1, <3>2, SumReplaced
    <2>8. containerCount' = Sum(SizesOf(records'), NamesOf(records'))
      BY <2>1, <2>6, <2>7 DEF projectedContainers
    <2>9. containerCount' <= MaxContainers
      <3>1. ~(projectedContainers(r) > MaxContainers)
        BY <2>2 DEF SnapshotResult
      <3>2. containerCount' \in Int
        <4>1. r.size \in Nat /\ Containers(records[n]) \in Nat
          BY <1>1, <1>2, RequestAssumption DEF Containers
        <4> QED BY <2>7, <2>8, <4>1
      <3> QED BY <2>1, <3>1, <3>2, LimitsAssumption
    <2> QED BY <2>5, <2>8, <2>9, ContainersFactNext DEF StoreFits
  <1> QED BY <1>3, <1>4, <1>5
      DEF Commit, ReplaceAuthenticatedNodeSnapshot, storeVars

\* The inventory only drops, and takes what it drops off the count.
LEMMA ReconcileFits ==
  ASSUME CInv, StoreFits, NEW ids \in Inventory, Reconcile(ids)
  PROVE  StoreFits'
  <1> DEFINE D == Dropped(ids)
  <1>1. records \in [NodeName -> Request \cup {None}]
    BY DEF CInv, TypeOK
  <1>2. D \in SUBSET NamesOf(records)
    BY DEF Dropped, NamesOf
  <1>3. /\ records' = [n \in NodeName |-> IF n \in D THEN None ELSE records[n]]
        /\ containerCount' = containerCount - Sum(SizesOf(records), D)
    BY ContainersFact DEF Reconcile
  <1>4. HeldNames' \subseteq HeldNames
    BY DEF Reconcile, HeldNames, Held
  <1>5. IsFiniteSet(HeldNames') /\ Cardinality(HeldNames') <= MaxNodes
    BY <1>4, Fewer, LimitsAssumption DEF StoreFits
  <1> HIDE DEF D
  <1>6. /\ Sum(SizesOf(records'), NamesOf(records'))
             = Sum(SizesOf(records), NamesOf(records)) - Sum(SizesOf(records), D)
        /\ Sum(SizesOf(records), NamesOf(records)) \in Nat
        /\ Sum(SizesOf(records), D) \in Nat
    BY <1>1, <1>2, <1>3, RecordsFinite, SumDropped
  <1>7. containerCount = Sum(SizesOf(records), NamesOf(records)) /\ containerCount <= MaxContainers
    BY ContainersFact DEF StoreFits
  <1>8. /\ containerCount' = Sum(SizesOf(records'), NamesOf(records'))
        /\ containerCount' <= MaxContainers
    BY <1>3, <1>6, <1>7, LimitsAssumption
  <1> QED BY <1>5, <1>8, ContainersFactNext DEF StoreFits
-----------------------------------------------------------------------------
(* The theorem. *)

\* A new process holds nothing.
LEMMA EmptyFits ==
  ASSUME agents = [i \in Instance |-> None], retired = [i \in Instance |-> 0], accepting = Free,
         records = [n \in NodeName |-> None], contexts = [n \in NodeName |-> None],
         containerCount = 0
  PROVE  IdentitiesFit /\ StoreFits
  <1>1. Active(agents) = {} /\ Retired(retired) = {} /\ HeldNames = {} /\ RecordNames = {}
    BY DEF Active, Retired, HeldNames, RecordNames, Held
  <1>2. IsFiniteSet({}) /\ Cardinality({}) = 0
    BY FS_EmptySet
  <1>3. ContainersOn({}) = 0
    BY SumEmpty DEF ContainersOn, Sum
  <1>4. IdentitiesFit
    BY <1>1, <1>2, LimitsAssumption DEF IdentitiesFit, Free
  <1>5. StoreFits
    BY <1>1, <1>2, <1>3, LimitsAssumption DEF StoreFits
  <1> QED BY <1>4, <1>5

\* The same after a restart.
LEMMA RestartFits ==
  ASSUME Restart
  PROVE  IdentitiesFit' /\ StoreFits'
  <1>1. /\ agents' = [i \in Instance |-> None] /\ retired' = [i \in Instance |-> 0]
        /\ accepting' = Free /\ containerCount' = 0
        /\ records' = [n \in NodeName |-> None] /\ contexts' = [n \in NodeName |-> None]
    BY DEF Restart
  <1>2. Active(agents') = {} /\ Retired(retired') = {} /\ HeldNames' = {} /\ RecordNames' = {}
    BY <1>1 DEF Active, Retired, HeldNames, RecordNames, Held
  <1>3. IsFiniteSet({}) /\ Cardinality({}) = 0
    BY FS_EmptySet
  <1>4. ContainersOn(RecordNames)' = 0
    <2>1. ContainersOn(RecordNames)' = Sum(SizesOf(records'), NamesOf(records'))
      BY ContainersFactNext
    <2>2. NamesOf(records') = {}
      BY <1>2, ContainersFactNext
    <2> QED BY <2>1, <2>2, SumEmpty
  <1>5. IdentitiesFit'
    BY <1>1, <1>2, <1>3, LimitsAssumption DEF IdentitiesFit, Free
  <1>6. StoreFits'
    BY <1>1, <1>2, <1>3, <1>4, LimitsAssumption DEF StoreFits
  <1> QED BY <1>5, <1>6

\* The steps that only prune c.retired while c.mu is free.
LEMMA PruneStepFits ==
  ASSUME CInv, IdentitiesFit, StoreFits, accepting = Free, retired' = pruneRetired,
         UNCHANGED <<agents, accepting, storeVars>>
  PROVE  IdentitiesFit' /\ StoreFits'
  <1>1. IdentitiesFit'
    BY PruneFits DEF IdentitiesFit, Free
  <1>2. StoreFits'
    BY DEF StoreFits, storeVars, HeldNames, RecordNames, Held, ContainersOn
  <1> QED BY <1>1, <1>2

\* The steps of one side leave the other alone.
LEMMA Untouched ==
  /\ IdentitiesFit /\ UNCHANGED coordinatorVars => IdentitiesFit'
  /\ StoreFits /\ UNCHANGED storeVars => StoreFits'
  <1>1. IdentitiesFit /\ UNCHANGED coordinatorVars => IdentitiesFit'
    BY DEF IdentitiesFit, coordinatorVars
  <1>2. StoreFits /\ UNCHANGED storeVars => StoreFits'
    BY DEF StoreFits, storeVars, HeldNames, RecordNames, Held, ContainersOn
  <1> QED BY <1>1, <1>2

\* Every action keeps the limits.
LEMMA NextLInv == LInv /\ [CNext]_collectorVars => LInv'
  <1> SUFFICES ASSUME LInv, [CNext]_collectorVars PROVE IdentitiesFit' /\ StoreFits'
    BY NextCInv DEF LInv
  <1> USE DEF LInv
  <1>1. ASSUME NEW r \in Request, Refuse(r) PROVE IdentitiesFit' /\ StoreFits'
    BY <1>1, PruneStepFits DEF Refuse
  <1>2. ASSUME NEW r \in Request, NEW result \in CapacityResult, Begin(r, result)
        PROVE  IdentitiesFit' /\ StoreFits'
    <2>1. UNCHANGED storeVars
      BY <1>2 DEF Begin
    <2> QED BY <1>2, <2>1, BeginFits, Untouched
  <1>3. CASE Commit
    BY <1>3, CommitFits, CommitStoreFits
  <1>4. CASE ReadEpoch
    BY <1>4, PruneStepFits DEF ReadEpoch
  <1>5. ASSUME NEW ids \in Inventory, Reconcile(ids) PROVE IdentitiesFit' /\ StoreFits'
    <2>1. UNCHANGED coordinatorVars
      BY <1>5 DEF Reconcile
    <2> QED BY <1>5, <2>1, ReconcileFits, Untouched
  <1>6. CASE Restart
    BY <1>6, RestartFits
  <1>7. CASE Tick \/ UNCHANGED collectorVars
    <2>1. UNCHANGED coordinatorVars /\ UNCHANGED storeVars
      BY <1>7 DEF Tick, collectorVars
    <2> QED BY <2>1, Untouched
  <1> QED BY <1>1, <1>2, <1>3, <1>4, <1>5, <1>6, <1>7 DEF CNext

\* c.agents and c.retired stay within MaxAgents and MaxRetired through hand-overs
\* and capacity pruning, the Store within its Nodes and containers, and the
\* running container count is always the sum over the records held, although
\* the Store is written by Accept and by the inventory and restarts empty.
THEOREM LimitsKept == CSpec => []WithinLimits
  <1>1. CInit => LInv
    BY InitCInv, EmptyFits DEF CInit, LInv
  <1>2. LInv => WithinLimits
    BY LInvLimits
  <1> QED BY <1>1, <1>2, NextLInv, PTL DEF CSpec
=============================================================================
