-------------------------- MODULE CoordinatorProofs --------------------------
(***************************************************************************)
(* Theorems about Coordinator for every value of its constants: any number *)
(* of producers, Nodes and requests, and any limits.                       *)
(*                                                                         *)
(* CInv is the inductive invariant.  OwnersMatchAgents is not inductive by *)
(* itself: Commit acts on an owner that Begin looked up, so the induction  *)
(* needs OwnerStaysCurrent, that the lookup is still right while c.mu is   *)
(* held.                                                                   *)
(***************************************************************************)
EXTENDS Coordinator, TLAPS

CInv ==
  /\ TypeOK
  /\ OwnersMatchAgents
  /\ RetiredAreInactive
  /\ OwnerStaysCurrent
  /\ ContextsMatchInventory

-----------------------------------------------------------------------------
(* Constants and helpers. *)

\* The fields of a request have the types the operators rely on.
LEMMA RequestType ==
  ASSUME NEW r \in Request
  PROVE  /\ r.instance \in Instance
         /\ r.sequence \in Nat
         /\ r.captured \in Int
         /\ r # None
  BY ClaimsAssumption, RequestAssumption

\* The keys of the two maps are in their domains.
LEMMA ClaimsType ==
  ASSUME NEW i \in Instance
  PROVE  /\ i # None
         /\ nodeKey(i) \in Role \X NodeUID
         /\ Claims[i].name \in NodeName
         /\ Claims[i].uid \in NodeUID
         /\ Claims[i].role \in Role
  BY ClaimsAssumption DEF nodeKey

\* Producers of one key, which names a Node by its UID, share a stream.
LEMMA SameKeySameStream ==
  ASSUME NEW i \in Instance, NEW j \in Instance, nodeKey(i) = nodeKey(j)
  PROVE  StreamOf(i) = StreamOf(j)
  <1>1. Claims[i].uid = Claims[j].uid /\ Claims[i].role = Claims[j].role
    BY DEF nodeKey
  <1>2. Claims[i].name = Claims[j].name
    BY <1>1, ClaimsAssumption
  <1> QED BY <1>1, <1>2 DEF StreamOf

\* pruneRetired only ever forgets.
LEMMA PruneRetiredType ==
  ASSUME TypeOK
  PROVE  /\ pruneRetired \in [Instance -> Nat]
         /\ \A i \in Instance : pruneRetired[i] \in {0, retired[i]}
         /\ \A i \in Instance : retired[i] > clock => pruneRetired[i] = retired[i]
  BY DEF TypeOK, pruneRetired

\* pruneInactive retires active producers, and only for a newcomer.
LEMMA PruneSetsFact ==
  ASSUME NEW i \in Instance, NEW gone \in PruneSets(i)
  PROVE  /\ gone \subseteq Active(agents)
         /\ agents[i] # None => gone = {}
  BY DEF PruneSets, Inactive

\* The producer to displace is none, or an active one of the same stream.
LEMMA OwnerFact ==
  ASSUME TypeOK, OwnersMatchAgents, NEW i \in Instance, NEW o \in Owner(i, owners, agents)
  PROVE  /\ o \in Instance \cup {None}
         /\ o # None => agents[o] # None /\ StreamOf(o) = StreamOf(i)
         /\ o = None => \A j \in Instance : agents[j] # None => StreamOf(j) # StreamOf(i)
  <1>1. nodeKey(i) \in Role \X NodeUID
    BY ClaimsType
  <1>2. CASE owners[nodeKey(i)] # None
    <2>1. o = owners[nodeKey(i)]
      BY <1>2 DEF Owner
    <2>2. o \in Instance
      BY <1>1, <1>2, <2>1 DEF TypeOK
    <2>3. agents[o] # None /\ nodeKey(o) = nodeKey(i)
      BY <1>1, <1>2, <2>1 DEF OwnersMatchAgents
    <2>4. StreamOf(o) = StreamOf(i)
      BY <2>2, <2>3, SameKeySameStream
    <2>5. o # None
      BY <1>2, <2>1
    <2> QED BY <2>2, <2>3, <2>4, <2>5
  <1>3. CASE owners[nodeKey(i)] = None
    BY <1>3, ClaimsType DEF Owner, Active
  <1> QED BY <1>2, <1>3

-----------------------------------------------------------------------------
(* The steps. *)

\* Accept's pruning keeps both maps in agreement and fences what it drops.
LEMMA RetireStep ==
  ASSUME TypeOK, OwnersMatchAgents, RetiredAreInactive,
         NEW gone \in SUBSET Active(agents), Retire(gone)
  PROVE  /\ agents' \in [Instance -> Request \cup {None}]
         /\ owners' \in [Role \X NodeUID -> Instance \cup {None}]
         /\ retired' \in [Instance -> Nat]
         /\ OwnersMatchAgents'
         /\ RetiredAreInactive'
         /\ \A i \in Instance : i \notin gone => agents'[i] = agents[i] /\ retired'[i] = pruneRetired[i]
  <1> USE DEF Retire
  <1>1. agents' \in [Instance -> Request \cup {None}]
    BY DEF TypeOK
  <1>2. owners' \in [Role \X NodeUID -> Instance \cup {None}]
    BY DEF TypeOK
  <1>3. retired' \in [Instance -> Nat]
    BY PruneRetiredType, LimitsAssumption DEF TypeOK
  <1>4. OwnersMatchAgents'
    <2>1. ASSUME NEW k \in Role \X NodeUID, owners'[k] # None
          PROVE  agents'[owners'[k]] # None /\ nodeKey(owners'[k]) = k
      <3>1. owners'[k] = owners[k] /\ \A j \in gone : nodeKey(j) # k
        BY <2>1
      <3>2. owners[k] \in Instance /\ agents[owners[k]] # None /\ nodeKey(owners[k]) = k
        BY <2>1, <3>1 DEF TypeOK, OwnersMatchAgents
      <3>3. owners[k] \notin gone
        BY <3>1, <3>2
      <3> QED BY <3>1, <3>2, <3>3
    <2>2. ASSUME NEW i \in Instance, agents'[i] # None
          PROVE  owners'[nodeKey(i)] = i
      <3>1. i \notin gone /\ agents[i] # None
        BY <2>2
      <3>2. nodeKey(i) \in Role \X NodeUID /\ owners[nodeKey(i)] = i
        BY <3>1, ClaimsType DEF OwnersMatchAgents
      <3>3. ASSUME NEW j \in gone
            PROVE  nodeKey(j) # nodeKey(i)
        BY <3>1, <3>2 DEF OwnersMatchAgents, Active
      <3> QED BY <3>2, <3>3
    <2>3. ASSUME NEW i \in Instance, NEW j \in Instance,
                 agents'[i] # None, agents'[j] # None, StreamOf(i) = StreamOf(j)
          PROVE  i = j
      BY <2>3 DEF OwnersMatchAgents
    <2> QED BY <2>1, <2>2, <2>3 DEF OwnersMatchAgents
  <1>5. RetiredAreInactive'
    <2> SUFFICES ASSUME NEW i \in Instance, retired'[i] # 0
                 PROVE  agents'[i] = None
      BY DEF RetiredAreInactive
    <2>1. CASE i \in gone
      BY <2>1
    <2>2. CASE i \notin gone
      <3>1. retired[i] # 0
        BY <2>2, PruneRetiredType DEF TypeOK
      <3> QED BY <2>2, <3>1 DEF RetiredAreInactive
    <2> QED BY <2>1, <2>2
  <1>6. \A i \in Instance : i \notin gone => agents'[i] = agents[i] /\ retired'[i] = pruneRetired[i]
    OBVIOUS
  <1> QED BY <1>1, <1>2, <1>3, <1>4, <1>5, <1>6

\* An owner is a producer, or none.
LEMMA OwnerType ==
  ASSUME NEW ow \in [Role \X NodeUID -> Instance \cup {None}], NEW ag,
         NEW i \in Instance, NEW o \in Owner(i, ow, ag)
  PROVE  o \in Instance \cup {None}
  BY ClaimsType DEF Owner, Active

\* Up to the Store section Accept prunes, and then holds a lookup that is right.
LEMMA BeginStep ==
  ASSUME CInv, NEW r \in Request, NEW result \in CapacityResult, Begin(r, result)
  PROVE  CInv'
  <1> USE DEF CInv
  <1>i. r.instance \in Instance
    BY RequestType
  <1>r. PICK gone \in PruneSets(r.instance) : Retire(gone)
    BY DEF Begin
  <1>g. gone \in SUBSET Active(agents) /\ (agents[r.instance] # None => gone = {})
    BY <1>i, PruneSetsFact
  <1>s. /\ agents' \in [Instance -> Request \cup {None}]
        /\ owners' \in [Role \X NodeUID -> Instance \cup {None}]
        /\ retired' \in [Instance -> Nat]
        /\ OwnersMatchAgents'
        /\ RetiredAreInactive'
        /\ \A i \in Instance : i \notin gone => retired'[i] = pruneRetired[i]
    BY <1>r, <1>g, RetireStep
  <1>o. PICK o \in Owner(r.instance, owners', agents') :
          accepting' = IF result = "proceed" THEN [request |-> r, owner |-> o] ELSE Free
    BY DEF Begin
  <1>1. TypeOK'
    <2>1. o \in Instance \cup {None}
      BY <1>i, <1>s, OwnerType
    <2>2. accepting' \in [request: Request \cup {None}, owner: Instance \cup {None}]
      BY <1>o, <2>1 DEF Free
    <2> QED BY <1>s, <2>2 DEF TypeOK, Begin, storeVars, inventoryVars
  <1>2. OwnerStaysCurrent'
    <2> SUFFICES ASSUME accepting'.request # None
                 PROVE  /\ accepting'.owner \in Owner(accepting'.request.instance, owners', agents')
                        /\ retired'[accepting'.request.instance] = 0
      BY DEF OwnerStaysCurrent
    <2>1. accepting' = [request |-> r, owner |-> o]
      BY <1>o DEF Free
    <2>2. pruneRetired[r.instance] = 0
      BY DEF Begin, Screen
    <2>3. r.instance \notin gone
      BY <1>g DEF Active
    <2> QED BY <1>i, <1>s, <2>1, <2>2, <2>3
  <1>3. ContextsMatchInventory'
    BY DEF Begin, storeVars, inventoryVars, ContextsMatchInventory
  <1> QED BY <1>1, <1>s, <1>2, <1>3

\* The steps that only prune c.retired while c.mu is free.
LEMMA PruneStep ==
  ASSUME CInv, accepting = Free, retired' = pruneRetired,
         UNCHANGED <<clock, epoch, agents, owners, accepting, storeVars, inventoryVars>>
  PROVE  CInv'
  <1> USE DEF CInv, storeVars, inventoryVars
  <1>1. TypeOK'
    BY PruneRetiredType DEF TypeOK
  <1>2. OwnersMatchAgents' /\ ContextsMatchInventory'
    BY DEF OwnersMatchAgents, ContextsMatchInventory
  <1>3. RetiredAreInactive'
    BY PruneRetiredType DEF RetiredAreInactive, TypeOK
  <1>4. OwnerStaysCurrent'
    BY DEF OwnerStaysCurrent, Free
  <1> QED BY <1>1, <1>2, <1>3, <1>4

\* The inventory is reconciled beside c.mu, and drops contexts it contradicts.
LEMMA ReconcileStep ==
  ASSUME CInv, NEW ids \in Inventory, Reconcile(ids)
  PROVE  CInv'
  <1> USE DEF CInv
  <1>1. UNCHANGED <<clock, epoch, agents, owners, retired, accepting>>
    BY DEF Reconcile, coordinatorVars
  <1>2. TypeOK'
    <2>1. records' \in [NodeName -> Request \cup {None}]
      BY DEF Reconcile, TypeOK
    <2>2. contexts' \in [NodeName -> Request \cup {None}]
      BY DEF Reconcile, TypeOK
    <2>3. expected' \in [NodeName -> NodeUID \cup {None}]
      BY DEF Reconcile, Inventory
    <2>4. inventoryKnown' \in BOOLEAN /\ inventoryAt' \in Nat
      BY DEF Reconcile, TypeOK
    <2> QED BY <1>1, <2>1, <2>2, <2>3, <2>4 DEF TypeOK
  <1>3. OwnersMatchAgents' /\ RetiredAreInactive' /\ OwnerStaysCurrent'
    BY <1>1 DEF OwnersMatchAgents, RetiredAreInactive, OwnerStaysCurrent
  <1>4. ContextsMatchInventory'
    BY DEF Reconcile, ContextsMatchInventory, TypeOK
  <1> QED BY <1>2, <1>3, <1>4

\* A new process forgets everything together.
LEMMA RestartStep ==
  ASSUME CInv, Restart
  PROVE  CInv'
  <1> USE DEF CInv, Restart
  <1>1. TypeOK'
    <2>1. owners' \in [Role \X NodeUID -> Instance \cup {None}]
      OBVIOUS
    <2>2. accepting' \in [request: Request \cup {None}, owner: Instance \cup {None}]
      BY DEF Free
    <2>3. agents' \in [Instance -> Request \cup {None}] /\ retired' \in [Instance -> Nat]
      OBVIOUS
    <2>4. /\ records' \in [NodeName -> Request \cup {None}]
          /\ contexts' \in [NodeName -> Request \cup {None}]
          /\ expected' \in [NodeName -> NodeUID \cup {None}]
      OBVIOUS
    <2>5. clock' \in Nat /\ epoch' \in Nat
      BY DEF TypeOK
    <2>6. inventoryKnown' \in BOOLEAN /\ inventoryAt' \in Nat
      OBVIOUS
    <2> QED BY <2>1, <2>2, <2>3, <2>4, <2>5, <2>6 DEF TypeOK
  <1>2. OwnersMatchAgents' /\ RetiredAreInactive' /\ OwnerStaysCurrent' /\ ContextsMatchInventory'
    BY ClaimsType
    DEF OwnersMatchAgents, RetiredAreInactive, OwnerStaysCurrent, ContextsMatchInventory, Free
  <1> QED BY <1>1, <1>2

\* Time and stuttering touch none of the maps.
LEMMA TickStep ==
  ASSUME CInv, Tick \/ UNCHANGED collectorVars
  PROVE  CInv'
  BY DEF CInv, Tick, collectorVars, coordinatorVars, storeVars, inventoryVars, TypeOK,
         OwnersMatchAgents, RetiredAreInactive, OwnerStaysCurrent, ContextsMatchInventory

\* The Store's half of Accept: it changes the evidence of one Node, as typed,
\* and holds a Node observation only for the object that the inventory lists.
LEMMA StoreStep ==
  ASSUME CInv, Commit
  PROVE  /\ records' \in [NodeName -> Request \cup {None}]
         /\ contexts' \in [NodeName -> Request \cup {None}]
         /\ ContextsMatchInventory'
  <1> USE DEF CInv
  <1> DEFINE r == accepting.request
             i == r.instance
             n == Claims[i].name
  <1>1. r \in Request /\ i \in Instance /\ n \in NodeName
    <2>1. r \in Request
      BY DEF Commit, TypeOK
    <2> QED BY <2>1, RequestType, ClaimsType
  <1>2. expected' = expected
    BY DEF Commit, inventoryVars
  <1>3. CASE UNCHANGED storeVars
    BY <1>2, <1>3 DEF storeVars, TypeOK, ContextsMatchInventory
  <1>4. CASE StoreResult(r) = "accepted" /\ Claims[i].role = "node-context"
    <2>1. ReplaceNodeEvidence(r)
      BY <1>4 DEF Commit
    <2>2. nodeIdentityCurrent(i)
      BY <1>4 DEF StoreResult, EvidenceResult
    <2>3. expected[n] = Claims[i].uid
      BY <2>2 DEF nodeIdentityCurrent
    <2>4. contexts' = [contexts EXCEPT ![n] = r] /\ records' = records
      BY <2>1 DEF ReplaceNodeEvidence
    <2>5. /\ records' \in [NodeName -> Request \cup {None}]
          /\ contexts' \in [NodeName -> Request \cup {None}]
      BY <1>1, <2>4 DEF TypeOK
    <2>6. ASSUME NEW m \in NodeName, contexts'[m] # None
          PROVE  expected'[m] = Claims[contexts'[m].instance].uid
      <3>1. CASE m = n
        BY <1>1, <1>2, <2>3, <2>4, <3>1 DEF TypeOK
      <3>2. CASE m # n
        BY <1>2, <2>4, <2>6, <3>2 DEF TypeOK, ContextsMatchInventory
      <3> QED BY <3>1, <3>2
    <2> QED BY <2>5, <2>6 DEF ContextsMatchInventory
  <1>5. CASE StoreResult(r) = "accepted" /\ Claims[i].role # "node-context"
    <2>1. ReplaceAuthenticatedNodeSnapshot(r)
      BY <1>5 DEF Commit
    <2>2. \/ UNCHANGED storeVars
          \/ records' = [records EXCEPT ![n] = r] /\ contexts' = contexts
      BY <2>1 DEF ReplaceAuthenticatedNodeSnapshot, storeVars
    <2>3. CASE records' = [records EXCEPT ![n] = r] /\ contexts' = contexts
      BY <1>1, <1>2, <2>3 DEF TypeOK, ContextsMatchInventory
    <2> QED BY <2>2, <2>3, <1>3
  <1>6. StoreResult(r) # "accepted" => UNCHANGED storeVars
    BY DEF Commit
  <1> QED BY <1>3, <1>4, <1>5, <1>6

\* The Coordinator's half: displacing the owner that Begin found keeps the maps
\* in agreement.
LEMMA HandOverStep ==
  ASSUME CInv, Commit, StoreResult(accepting.request) = "accepted"
  PROVE  /\ agents' \in [Instance -> Request \cup {None}]
         /\ owners' \in [Role \X NodeUID -> Instance \cup {None}]
         /\ retired' \in [Instance -> Nat]
         /\ OwnersMatchAgents'
         /\ RetiredAreInactive'
  <1> USE DEF CInv
  <1> DEFINE r == accepting.request
             i == r.instance
             o == accepting.owner
  <1>1. r \in Request /\ r # None /\ i \in Instance
    <2>1. r \in Request /\ r # None
      BY DEF Commit, TypeOK
    <2> QED BY <2>1, RequestType
  <1>2. o \in Owner(i, owners, agents) /\ retired[i] = 0
    BY <1>1 DEF OwnerStaysCurrent
  <1>3. /\ o \in Instance \cup {None}
        /\ o # None => agents[o] # None /\ StreamOf(o) = StreamOf(i)
        /\ o = None => \A j \in Instance : agents[j] # None => StreamOf(j) # StreamOf(i)
    BY <1>1, <1>2, OwnerFact
  <1>4. i # None /\ nodeKey(i) \in Role \X NodeUID
    BY <1>1, ClaimsType
  \* What the maps hold afterwards, in one form for both branches.
  <1>5. \A j \in Instance :
          agents'[j] = IF j = i THEN r ELSE IF j = o THEN None ELSE agents[j]
    <2>1. CASE NewOwner(i, o)
      <3>1. agents' = [agents EXCEPT ![o] = None, ![i] = r]
        BY <2>1 DEF Commit
      <3> QED BY <1>1, <1>3, <2>1, <3>1 DEF TypeOK, NewOwner
    <2>2. CASE ~NewOwner(i, o)
      <3>1. agents' = [agents EXCEPT ![i] = r]
        BY <2>2 DEF Commit
      <3> QED BY <1>1, <1>3, <2>2, <3>1, ClaimsType DEF TypeOK, NewOwner
    <2> QED BY <2>1, <2>2
  <1>6. \A k \in Role \X NodeUID :
          owners'[k] = IF k = nodeKey(i) THEN i
                       ELSE IF o # None /\ k = nodeKey(o) THEN None ELSE owners[k]
    <2>1. CASE NewOwner(i, o)
      <3>1. owners' = [owners EXCEPT ![nodeKey(o)] = None, ![nodeKey(i)] = i]
        BY <2>1 DEF Commit
      <3>2. o # None
        BY <2>1 DEF NewOwner
      <3> QED BY <1>4, <3>1, <3>2 DEF TypeOK
    <2>2. CASE ~NewOwner(i, o)
      <3>1. owners' = [owners EXCEPT ![nodeKey(i)] = i]
        BY <2>2 DEF Commit
      <3>2. o = None \/ o = i
        BY <2>2 DEF NewOwner
      <3> QED BY <1>4, <3>1, <3>2 DEF TypeOK
    <2> QED BY <2>1, <2>2
  <1>7. \A j \in Instance : retired'[j] # retired[j] => j = o /\ j # i
    <2>1. CASE NewOwner(i, o)
      <3>1. retired' = [retired EXCEPT ![o] = clock + RetiredTTL]
        BY <2>1 DEF Commit
      <3> QED BY <2>1, <3>1 DEF TypeOK, NewOwner
    <2>2. CASE ~NewOwner(i, o)
      BY <2>2 DEF Commit
    <2> QED BY <2>1, <2>2
  <1>8. /\ agents' \in [Instance -> Request \cup {None}]
        /\ owners' \in [Role \X NodeUID -> Instance \cup {None}]
        /\ retired' \in [Instance -> Nat]
    BY <1>1, LimitsAssumption DEF Commit, TypeOK
  <1>9. OwnersMatchAgents'
    <2>1. ASSUME NEW j \in Instance, j # i, agents'[j] # None
          PROVE  j # o /\ agents[j] # None /\ StreamOf(j) # StreamOf(i)
      BY <1>1, <1>3, <1>5, <2>1 DEF OwnersMatchAgents
    <2>2. ASSUME NEW j \in Instance, NEW l \in Instance,
                 agents'[j] # None, agents'[l] # None, StreamOf(j) = StreamOf(l)
          PROVE  j = l
      BY <2>1, <2>2 DEF OwnersMatchAgents
    <2>3. ASSUME NEW j \in Instance, agents'[j] # None
          PROVE  owners'[nodeKey(j)] = j
      <3>1. nodeKey(j) \in Role \X NodeUID
        BY ClaimsType
      <3>2. CASE j = i
        BY <1>6, <3>1, <3>2
      <3>3. CASE j # i
        <4>1. j # o /\ agents[j] # None /\ nodeKey(j) # nodeKey(i)
          BY <1>1, <2>1, <2>3, <3>3, SameKeySameStream
        <4>2. owners[nodeKey(j)] = j
          BY <4>1 DEF OwnersMatchAgents
        <4>3. o # None => nodeKey(j) # nodeKey(o)
          BY <1>3, <4>1, <4>2 DEF OwnersMatchAgents
        <4> QED BY <1>6, <3>1, <4>1, <4>2, <4>3
      <3> QED BY <3>2, <3>3
    <2>4. ASSUME NEW k \in Role \X NodeUID, owners'[k] # None
          PROVE  agents'[owners'[k]] # None /\ nodeKey(owners'[k]) = k
      <3>1. CASE k = nodeKey(i)
        BY <1>1, <1>5, <1>6, <3>1
      <3>2. CASE k # nodeKey(i)
        <4>1. owners'[k] = owners[k] /\ (o # None => k # nodeKey(o))
          BY <1>6, <2>4, <3>2
        <4>2. owners[k] \in Instance /\ agents[owners[k]] # None /\ nodeKey(owners[k]) = k
          BY <2>4, <4>1 DEF TypeOK, OwnersMatchAgents
        <4>3. owners[k] # o /\ owners[k] # i
          BY <3>2, <4>1, <4>2, ClaimsType
        <4> QED BY <1>5, <4>1, <4>2, <4>3
      <3> QED BY <3>1, <3>2
    <2> QED BY <2>2, <2>3, <2>4 DEF OwnersMatchAgents
  <1>10. RetiredAreInactive'
    <2> SUFFICES ASSUME NEW j \in Instance, retired'[j] # 0
                 PROVE  agents'[j] = None
      BY DEF RetiredAreInactive
    <2>1. j # i
      BY <1>2, <1>7
    <2>2. j = o \/ agents[j] = None
      BY <1>7 DEF RetiredAreInactive
    <2> QED BY <1>5, <2>1, <2>2
  <1> QED BY <1>8, <1>9, <1>10

\* Commit is the two halves, after which nobody holds c.mu.
LEMMA CommitStep ==
  ASSUME CInv, Commit
  PROVE  CInv'
  <1>1. accepting' = Free /\ UNCHANGED <<clock, epoch, inventoryVars>>
    BY DEF Commit
  <1>2. /\ agents' \in [Instance -> Request \cup {None}]
        /\ owners' \in [Role \X NodeUID -> Instance \cup {None}]
        /\ retired' \in [Instance -> Nat]
        /\ OwnersMatchAgents'
        /\ RetiredAreInactive'
    <2>1. CASE StoreResult(accepting.request) = "accepted"
      BY <2>1, HandOverStep
    <2>2. CASE StoreResult(accepting.request) # "accepted"
      <3>1. UNCHANGED <<agents, owners, retired>>
        BY <2>2 DEF Commit
      <3> QED BY <3>1 DEF CInv, TypeOK, OwnersMatchAgents, RetiredAreInactive
    <2> QED BY <2>1, <2>2
  <1>3. OwnerStaysCurrent'
    BY <1>1 DEF OwnerStaysCurrent, Free
  <1>4. accepting' \in [request: Request \cup {None}, owner: Instance \cup {None}]
    BY <1>1 DEF Free
  <1>5. TypeOK'
    BY <1>1, <1>2, <1>4, StoreStep DEF CInv, TypeOK, inventoryVars
  <1> QED BY <1>2, <1>3, <1>5, StoreStep DEF CInv

-----------------------------------------------------------------------------
(* The theorems. *)

\* A new process starts with empty maps of the right shapes.
LEMMA InitTypeOK == CInit => TypeOK
  <1> SUFFICES ASSUME CInit PROVE TypeOK
    OBVIOUS
  <1> USE DEF CInit
  <1>1. clock \in Nat /\ epoch \in Nat /\ inventoryKnown \in BOOLEAN /\ inventoryAt \in Nat
    OBVIOUS
  <1>2. agents \in [Instance -> Request \cup {None}]
    OBVIOUS
  <1>3. owners \in [Role \X NodeUID -> Instance \cup {None}]
    OBVIOUS
  <1>4. retired \in [Instance -> Nat]
    OBVIOUS
  <1>5. accepting \in [request: Request \cup {None}, owner: Instance \cup {None}]
    BY DEF Free
  <1>6. /\ records \in [NodeName -> Request \cup {None}]
        /\ contexts \in [NodeName -> Request \cup {None}]
        /\ expected \in [NodeName -> NodeUID \cup {None}]
    OBVIOUS
  <1> QED BY <1>1, <1>2, <1>3, <1>4, <1>5, <1>6 DEF TypeOK

\* The invariant holds in the initial state.
LEMMA InitCInv == CInit => CInv
  <1> SUFFICES ASSUME CInit PROVE CInv
    OBVIOUS
  <1>1. TypeOK
    BY InitTypeOK
  <1>2. OwnersMatchAgents /\ RetiredAreInactive /\ OwnerStaysCurrent /\ ContextsMatchInventory
    BY ClaimsType
    DEF CInit, OwnersMatchAgents, RetiredAreInactive, OwnerStaysCurrent,
        ContextsMatchInventory, Free
  <1> QED BY <1>1, <1>2 DEF CInv

\* Every action preserves it.
LEMMA NextCInv == CInv /\ [CNext]_collectorVars => CInv'
  <1> SUFFICES ASSUME CInv, [CNext]_collectorVars PROVE CInv'
    OBVIOUS
  <1>1. ASSUME NEW r \in Request, Refuse(r) PROVE CInv'
    BY <1>1, PruneStep DEF Refuse
  <1>2. ASSUME NEW r \in Request, NEW result \in CapacityResult, Begin(r, result) PROVE CInv'
    BY <1>2, BeginStep
  <1>3. CASE Commit
    BY <1>3, CommitStep
  <1>4. CASE ReadEpoch
    BY <1>4, PruneStep DEF ReadEpoch
  <1>5. ASSUME NEW ids \in Inventory, Reconcile(ids) PROVE CInv'
    BY <1>5, ReconcileStep
  <1>6. CASE Restart
    BY <1>6, RestartStep
  <1>7. CASE Tick \/ UNCHANGED collectorVars
    BY <1>7, TickStep
  <1> QED BY <1>1, <1>2, <1>3, <1>4, <1>5, <1>6, <1>7 DEF CNext

\* So it holds in every reachable state.
LEMMA CInvariance == CSpec => []CInv
  BY InitCInv, NextCInv, PTL DEF CSpec

\* c.agents, c.nodes, c.retired and the Store's maps keep their shapes through
\* every interleaving of Accept, the epoch request, the inventory and restarts.
THEOREM TypeCorrect == CSpec => []TypeOK
  <1>1. CInv => TypeOK
    BY DEF CInv
  <1> QED BY <1>1, CInvariance, PTL

\* c.nodes and c.agents describe the same streams, one producer for each role of
\* each Node name, in every state of the Coordinator.
THEOREM OwnershipConsistent == CSpec => []OwnersMatchAgents
  <1>1. CInv => OwnersMatchAgents
    BY DEF CInv
  <1> QED BY <1>1, CInvariance, PTL

\* No producer is fenced in c.retired and served from c.agents at once.
THEOREM FencedAreInactive == CSpec => []RetiredAreInactive
  <1>1. CInv => RetiredAreInactive
    BY DEF CInv
  <1> QED BY <1>1, CInvariance, PTL

\* The owner that Accept looked up is still right when the Store has answered,
\* although the inventory is reconciled in between.
THEOREM LookupHolds == CSpec => []OwnerStaysCurrent
  <1>1. CInv => OwnerStaysCurrent
    BY DEF CInv
  <1> QED BY <1>1, CInvariance, PTL

\* The Store holds a Node observation only for the Node object that the
\* inventory lists under its name.
THEOREM ContextsFollowInventory == CSpec => []ContextsMatchInventory
  <1>1. CInv => ContextsMatchInventory
    BY DEF CInv
  <1> QED BY <1>1, CInvariance, PTL

\* A replaced producer is kept out until its RetiredTTL has passed, unless the
\* process restarts: by pruneRetired, by Accept and by pruneInactive alike.
THEOREM NoEarlyReclaim == CSpec => NoReclaimWithinTTL
  <1> DEFINE Reclaim(i) == retired[i] > clock /\ epoch' = epoch => retired'[i] # 0 /\ agents'[i] = None
  <1>1. ASSUME CInv, CNext, NEW i \in Instance PROVE Reclaim(i)
    <2> SUFFICES ASSUME retired[i] > clock, epoch' = epoch
                 PROVE  retired'[i] # 0 /\ agents'[i] = None
      OBVIOUS
    <2>0. CInv'
      BY <1>1, NextCInv
    <2>1. SUFFICES retired'[i] # 0
      BY <2>0 DEF CInv, RetiredAreInactive
    <2>2. pruneRetired[i] # 0 /\ retired[i] # 0
      BY <1>1, PruneRetiredType DEF CInv, TypeOK
    <2>3. agents[i] = None
      BY <1>1, <2>2 DEF CInv, RetiredAreInactive
    <2>4. ASSUME NEW r \in Request, Refuse(r) PROVE retired'[i] # 0
      BY <2>2, <2>4 DEF Refuse
    <2>5. ASSUME NEW r \in Request, NEW result \in CapacityResult, Begin(r, result)
          PROVE  retired'[i] # 0
      <3>1. PICK gone \in PruneSets(r.instance) : Retire(gone)
        BY <2>5 DEF Begin
      <3>2. i \notin gone
        BY <2>3, <3>1, RequestType, PruneSetsFact DEF Active
      <3> QED BY <2>2, <3>1, <3>2 DEF Retire
    <2>6. CASE Commit
      <3> DEFINE o == accepting.owner
      <3>1. retired' = retired \/ retired' = [retired EXCEPT ![o] = clock + RetiredTTL]
        BY <2>6 DEF Commit
      <3>2. clock + RetiredTTL # 0
        BY <1>1, LimitsAssumption DEF CInv, TypeOK
      <3> QED BY <1>1, <2>2, <3>1, <3>2 DEF CInv, TypeOK
    <2>7. CASE ReadEpoch
      BY <2>2, <2>7 DEF ReadEpoch
    <2>8. ASSUME NEW ids \in Inventory, Reconcile(ids) PROVE retired'[i] # 0
      BY <2>2, <2>8 DEF Reconcile, coordinatorVars
    <2>9. CASE Restart
      BY <1>1, <2>9 DEF Restart, CInv, TypeOK
    <2>10. CASE Tick
      BY <2>2, <2>10 DEF Tick, coordinatorVars
    <2> QED BY <1>1, <2>4, <2>5, <2>6, <2>7, <2>8, <2>9, <2>10 DEF CNext
  <1>2. CInv /\ [CNext]_collectorVars => [\A i \in Instance : Reclaim(i)]_collectorVars
    BY <1>1
  <1> QED BY <1>2, CInvariance, PTL DEF CSpec, NoReclaimWithinTTL

\* The evidence of one Node object never goes back in time within a process,
\* although requests arrive late, repeated and out of order and producers change.
THEOREM EvidenceNeverRegresses == CSpec => EvidenceMonotone
  <1> DEFINE Later(before, after) ==
               before # None /\ after # None /\ SameNode(before, after.instance)
                 => after.captured >= before.captured
  \* Nothing changes, or it is dropped.
  <1>1. ASSUME NEW before \in Request \cup {None}
        PROVE  Later(before, before) /\ Later(before, None)
    BY RequestType
  <1>2. ASSUME CInv, CNext, NEW n \in NodeName PROVE Later(records[n], records'[n])
    <2>1. records[n] \in Request \cup {None}
      BY <1>2 DEF CInv, TypeOK
    <2>2. ASSUME records' = records PROVE Later(records[n], records'[n])
      BY <1>1, <2>1, <2>2
    <2>3. CASE Commit
      <3> DEFINE r == accepting.request
                 m == Claims[r.instance].name
      <3>1. CASE StoreResult(r) = "accepted" /\ records' = [records EXCEPT ![m] = r] /\ ~Unchanged(r)
                   /\ Claims[r.instance].role # "node-context"
        <4>1. r \in Request
          BY <1>2, <2>3 DEF Commit, CInv, TypeOK
        <4>2. SnapshotResult(r) = "accepted"
          BY <3>1 DEF StoreResult
        <4>3. ~(SameNode(records[m], r.instance) /\ r.captured < records[m].captured)
          BY <4>2 DEF SnapshotResult
        <4>4. CASE n = m
          BY <1>2, <2>1, <3>1, <4>1, <4>3, <4>4, RequestType DEF CInv, TypeOK
        <4>5. CASE n # m
          BY <1>1, <1>2, <2>1, <3>1, <4>5 DEF CInv, TypeOK
        <4> QED BY <4>4, <4>5
      <3>2. \/ records' = records
            \/ StoreResult(r) = "accepted" /\ records' = [records EXCEPT ![m] = r] /\ ~Unchanged(r)
                 /\ Claims[r.instance].role # "node-context"
        BY <2>3 DEF Commit, storeVars, ReplaceNodeEvidence, ReplaceAuthenticatedNodeSnapshot
      <3> QED BY <2>2, <3>1, <3>2
    <2>4. ASSUME NEW ids \in Inventory, Reconcile(ids) PROVE Later(records[n], records'[n])
      <3>1. records'[n] \in {records[n], None}
        BY <2>4 DEF Reconcile
      <3> QED BY <1>1, <2>1, <3>1
    <2>5. CASE Restart
      BY <1>1, <2>1, <2>5 DEF Restart
    <2> QED BY <1>2, <2>2, <2>3, <2>4, <2>5
        DEF CNext, Refuse, Begin, ReadEpoch, Tick, storeVars
  <1>3. ASSUME CInv, CNext, NEW n \in NodeName PROVE Later(contexts[n], contexts'[n])
    <2>1. contexts[n] \in Request \cup {None}
      BY <1>3 DEF CInv, TypeOK
    <2>2. ASSUME contexts' = contexts PROVE Later(contexts[n], contexts'[n])
      BY <1>1, <2>1, <2>2
    <2>3. CASE Commit
      <3> DEFINE r == accepting.request
                 m == Claims[r.instance].name
      <3>1. CASE StoreResult(r) = "accepted" /\ contexts' = [contexts EXCEPT ![m] = r]
                   /\ Claims[r.instance].role = "node-context"
        <4>1. r \in Request
          BY <1>3, <2>3 DEF Commit, CInv, TypeOK
        <4>2. EvidenceResult(r) = "accepted"
          BY <3>1 DEF StoreResult
        <4>3. ~(SameNode(contexts[m], r.instance) /\ r.captured <= contexts[m].captured)
          BY <4>2 DEF EvidenceResult
        <4>4. CASE n = m
          BY <1>3, <2>1, <3>1, <4>1, <4>3, <4>4, RequestType DEF CInv, TypeOK
        <4>5. CASE n # m
          BY <1>1, <1>3, <2>1, <3>1, <4>5 DEF CInv, TypeOK
        <4> QED BY <4>4, <4>5
      <3>2. \/ contexts' = contexts
            \/ StoreResult(r) = "accepted" /\ contexts' = [contexts EXCEPT ![m] = r]
                 /\ Claims[r.instance].role = "node-context"
        BY <2>3 DEF Commit, storeVars, ReplaceNodeEvidence, ReplaceAuthenticatedNodeSnapshot
      <3> QED BY <2>2, <3>1, <3>2
    <2>4. ASSUME NEW ids \in Inventory, Reconcile(ids) PROVE Later(contexts[n], contexts'[n])
      <3>1. contexts'[n] \in {contexts[n], None}
        BY <2>4 DEF Reconcile
      <3> QED BY <1>1, <2>1, <3>1
    <2>5. CASE Restart
      BY <1>1, <2>1, <2>5 DEF Restart
    <2> QED BY <1>3, <2>2, <2>3, <2>4, <2>5
        DEF CNext, Refuse, Begin, ReadEpoch, Tick, storeVars
  <1>4. CInv /\ [CNext]_collectorVars
          => [\A n \in NodeName, table \in {"records", "contexts"} :
                LET before == IF table = "records" THEN records[n] ELSE contexts[n]
                    after  == IF table = "records" THEN records'[n] ELSE contexts'[n]
                IN  before # None /\ after # None /\ SameNode(before, after.instance)
                      => after.captured >= before.captured]_collectorVars
    BY <1>2, <1>3
  <1> QED BY <1>4, CInvariance, PTL DEF CSpec, EvidenceMonotone

-----------------------------------------------------------------------------
(* Ingestion implements the fenced register. *)

Streams == Role \X NodeName

\* The evidence that one of the Store's tables pair holds for a stream.
EvidenceIn(rec, ctx, s) == IF s[1] = "cgroup" THEN rec[s[2]] ELSE ctx[s[2]]

\* The writer of a stream is its one active producer, or none.
LEMMA WriterFact ==
  ASSUME OwnersMatchAgents, NEW s
  PROVE  /\ \A j \in Instance : agents[j] # None /\ StreamOf(j) = s => StreamWriter(s) = j
         /\ (\A j \in Instance : agents[j] # None => StreamOf(j) # s) => StreamWriter(s) = None
  <1>1. ASSUME NEW j \in Instance, agents[j] # None, StreamOf(j) = s
        PROVE  StreamWriter(s) = j
    <2>1. \A l \in Active(agents) : StreamOf(l) = s => l = j
      BY <1>1 DEF OwnersMatchAgents, Active
    <2>2. j \in Active(agents)
      BY <1>1 DEF Active
    <2> QED BY <1>1, <2>1, <2>2 DEF StreamWriter
  <1>2. ASSUME \A j \in Instance : agents[j] # None => StreamOf(j) # s
        PROVE  StreamWriter(s) = None
    BY <1>2 DEF StreamWriter, Active
  <1> QED BY <1>1, <1>2

\* The same in the next state.
LEMMA WriterFactNext ==
  ASSUME OwnersMatchAgents', NEW s
  PROVE  /\ \A j \in Instance : agents'[j] # None /\ StreamOf(j) = s => StreamWriter(s)' = j
         /\ (\A j \in Instance : agents'[j] # None => StreamOf(j) # s) => StreamWriter(s)' = None
  <1>1. ASSUME NEW j \in Instance, agents'[j] # None, StreamOf(j) = s
        PROVE  StreamWriter(s)' = j
    <2>1. \A l \in Active(agents') : StreamOf(l) = s => l = j
      BY <1>1 DEF OwnersMatchAgents, Active
    <2>2. j \in Active(agents')
      BY <1>1 DEF Active
    <2> QED BY <1>1, <2>1, <2>2 DEF StreamWriter
  <1>2. ASSUME \A j \in Instance : agents'[j] # None => StreamOf(j) # s
        PROVE  StreamWriter(s)' = None
    BY <1>2 DEF StreamWriter, Active
  <1> QED BY <1>1, <1>2

\* A producer writes a stream of the register.
LEMMA StreamType ==
  ASSUME NEW i \in Instance
  PROVE  StreamOf(i) \in Streams
  BY ClaimsType DEF StreamOf, Streams

\* While the maps keep, the writers and the fence keep.
LEMMA SameWriters ==
  ASSUME UNCHANGED <<agents, retired>>
  PROVE  /\ UNCHANGED [s \in Streams |-> StreamWriter(s)]
         /\ UNCHANGED Retired(retired)
  BY DEF StreamWriter, Active, Retired

\* Accept's pruning fences the producers it drops, and forgets others.
LEMMA RefenceImplemented ==
  ASSUME TypeOK, OwnersMatchAgents, OwnersMatchAgents', NEW gone \in SUBSET Active(agents),
         \A j \in Instance : agents'[j] = IF j \in gone THEN None ELSE agents[j],
         Retired(retired') = gone \cup Retired(pruneRetired),
         UNCHANGED <<records, contexts>>
  PROVE  Register!Refence
  <1> DEFINE W  == [s \in Streams |-> StreamWriter(s)]
             W2 == [s \in Streams |-> StreamWriter(s)']
  <1>1. ASSUME NEW j \in Instance, agents[j] # None
        PROVE  /\ W[StreamOf(j)] = j
               /\ W2[StreamOf(j)] = IF j \in gone THEN None ELSE j
    <2>1. W[StreamOf(j)] = j
      BY <1>1, StreamType, WriterFact
    <2>2. CASE j \notin gone
      BY <2>1, <2>2, <1>1, StreamType, WriterFactNext
    <2>3. CASE j \in gone
      <3>1. ASSUME NEW l \in Instance, agents'[l] # None PROVE StreamOf(l) # StreamOf(j)
        <4>1. agents[l] # None /\ l # j
          BY <2>3, <3>1
        <4> QED BY <1>1, <4>1 DEF OwnersMatchAgents
      <3> QED BY <2>1, <2>3, <3>1, StreamType, WriterFactNext
    <2> QED BY <2>1, <2>2, <2>3
  <1>2. ASSUME NEW s \in Streams, \A j \in Instance : agents[j] # None => StreamOf(j) # s
        PROVE  W[s] = None /\ W2[s] = None
    BY <1>2, WriterFact, WriterFactNext
  <1>3. \A s \in Streams : \/ W[s] = None /\ W2[s] = None
                          \/ \E j \in Instance : /\ agents[j] # None /\ StreamOf(j) = s /\ W[s] = j
                                                 /\ W2[s] = IF j \in gone THEN None ELSE j
    <2> HIDE DEF W, W2
    <2> TAKE s \in Streams
    <2>1. CASE \E j \in Instance : agents[j] # None /\ StreamOf(j) = s
      BY <1>1, <2>1
    <2>2. CASE \A j \in Instance : agents[j] # None => StreamOf(j) # s
      BY <1>2, <2>2
    <2> QED BY <2>1, <2>2
  <1>4. \A j \in gone : StreamOf(j) \in Streams /\ W[StreamOf(j)] = j /\ W2[StreamOf(j)] = None
    BY <1>1, StreamType DEF Active
  <1>5. Retired(pruneRetired) \subseteq Retired(retired)
    BY PruneRetiredType DEF TypeOK, Retired
  <1>6. /\ W2 \in [Streams -> Instance \cup {None}]
        /\ \A s \in Streams : W2[s] \in {W[s], None}
    <2> HIDE DEF W
    <2>1. \A s \in Streams : W2[s] \in Instance \cup {None}
      BY <1>3
    <2> QED BY <1>3, <2>1
  <1> DEFINE displaced == {s \in Streams : W2[s] # W[s]}
  <1> HIDE DEF W, W2
  <1>7. \A s \in displaced : W[s] \in gone
    BY <1>3
  <1>8. gone \subseteq {W[s] : s \in displaced}
    <2>1. \A j \in gone : j # None
      BY ClaimsType DEF Active
    <2>2. \A j \in gone : StreamOf(j) \in displaced
      BY <1>4, <2>1
    <2> QED BY <1>4, <2>2
  <1>9. /\ \A s \in displaced : W[s] \in Retired(retired')
        /\ Retired(retired') \subseteq Retired(retired) \cup {W[s] : s \in displaced}
    BY <1>5, <1>7, <1>8
  <1> QED BY <1>6, <1>9 DEF Register!Refence, W, W2, Streams, Retired

\* The inventory erases evidence, and moves no writer.
LEMMA EraseImplemented ==
  ASSUME NEW ids \in Inventory, Reconcile(ids)
  PROVE  Register!Erase
  <1>1. UNCHANGED <<agents, retired>>
    BY DEF Reconcile, coordinatorVars
  <1>2. \A n \in NodeName : records'[n] \in {records[n], None} /\ contexts'[n] \in {contexts[n], None}
    BY DEF Reconcile
  <1>3. \A s \in Streams : s[2] \in NodeName
    BY DEF Streams
  <1>4. \A s \in Streams :
          EvidenceIn(records', contexts', s) \in {EvidenceIn(records, contexts, s), None}
    BY <1>2, <1>3 DEF EvidenceIn
  <1>5. \A s \in Streams :
          Evidence(EvidenceIn(records', contexts', s))
            \in {Evidence(EvidenceIn(records, contexts, s)), None}
    BY <1>4 DEF Evidence
  <1> QED BY <1>1, <1>5, SameWriters DEF Register!Erase, EvidenceIn, Streams

\* A new process has no writers, no fence and no evidence.
LEMMA ResetImplemented ==
  ASSUME Restart
  PROVE  Register!Reset
  <1>1. \A s \in Streams : StreamWriter(s)' = None
    BY DEF Restart, StreamWriter, Active
  <1>2. Retired(retired') = {}
    BY DEF Restart, Retired
  <1>3. \A s \in Streams : Evidence(EvidenceIn(records', contexts', s)) = None
    BY DEF Restart, EvidenceIn, Evidence, Streams
  <1> QED BY <1>1, <1>2, <1>3 DEF Register!Reset, EvidenceIn, Streams, Retired

\* What the Store does to the evidence of a stream when it takes a request.
LEMMA ValueWritten ==
  ASSUME CInv, Commit, StoreResult(accepting.request) = "accepted",
         NEW r, r = accepting.request, NEW i, i = r.instance, NEW t, t = StreamOf(i)
  PROVE  LET V(s) == Evidence(EvidenceIn(records, contexts, s))
             V2(s) == Evidence(EvidenceIn(records', contexts', s))
         IN  \/ /\ V(t) # None /\ Claims[V(t).by].uid = Claims[i].uid
                /\ UNCHANGED <<records, contexts>>
             \/ /\ V(t) # None /\ Claims[V(t).by].uid = Claims[i].uid => r.captured > V(t).at
                /\ \A s \in Streams : V2(s) = IF s = t THEN [by |-> i, at |-> r.captured] ELSE V(s)
  <1> DEFINE n == Claims[i].name
             role == Claims[i].role
  <1>1. r \in Request /\ r # None /\ i \in Instance /\ n \in NodeName /\ role \in Role
    <2>1. r \in Request
      BY DEF Commit, CInv, TypeOK
    <2> QED BY <2>1, RequestType, ClaimsType
  <1>2. t = <<role, n>> /\ t[1] = role /\ t[2] = n
    BY DEF StreamOf
  <1>3. /\ records \in [NodeName -> Request \cup {None}]
        /\ contexts \in [NodeName -> Request \cup {None}]
    BY DEF CInv, TypeOK
  <1>e. \A q : /\ q # None => Evidence(q) = [by |-> q.instance, at |-> q.captured]
              /\ Evidence(None) = None
    BY DEF Evidence
  <1>n. ASSUME NEW q \in Request PROVE Evidence(q) # None
    <2>1. Evidence(q) \in [by: Instance, at: {w.captured : w \in Request}]
      BY RequestType DEF Evidence
    <2> QED BY <2>1, EvidenceAssumption
  <1>s. \A s \in Streams : s = <<s[1], s[2]>> /\ s[1] \in Role /\ s[2] \in NodeName
    BY DEF Streams
  <1>4. CASE role = "node-context"
    <2>1. contexts' = [contexts EXCEPT ![n] = r] /\ records' = records
      BY <1>4 DEF Commit, ReplaceNodeEvidence
    <2>2. ~(SameNode(contexts[n], i) /\ r.captured <= contexts[n].captured)
      BY <1>4 DEF StoreResult, EvidenceResult
    <2>3. EvidenceIn(records, contexts, t) = contexts[n]
      BY <1>2, <1>4 DEF EvidenceIn
    <2>4. CASE contexts[n] # None
      <3>1. contexts[n] \in Request
        BY <1>1, <1>3, <2>4
      <3>2. contexts[n].captured \in Int /\ r.captured \in Int
        BY <1>1, <3>1, RequestType
      <3>3. Claims[contexts[n].instance].uid = Claims[i].uid => r.captured > contexts[n].captured
        BY <2>2, <2>4, <3>2 DEF SameNode
      <3>4. /\ Evidence(contexts[n]).by = contexts[n].instance
            /\ Evidence(contexts[n]).at = contexts[n].captured
        BY <2>4 DEF Evidence
      <3>5. \A s \in Streams : EvidenceIn(records', contexts', s)
               = IF s = t THEN r ELSE EvidenceIn(records, contexts, s)
        BY <1>1, <1>2, <1>3, <1>4, <1>s, <2>1 DEF EvidenceIn, Role
      <3> QED BY <1>1, <1>e, <2>3, <3>3, <3>4, <3>5
    <2>5. CASE contexts[n] = None
      <3>1. \A s \in Streams : EvidenceIn(records', contexts', s)
               = IF s = t THEN r ELSE EvidenceIn(records, contexts, s)
        BY <1>1, <1>2, <1>3, <1>4, <1>s, <2>1 DEF EvidenceIn, Role
      <3> QED BY <1>1, <1>e, <2>3, <2>5, <3>1
    <2> QED BY <2>4, <2>5
  <1>5. CASE role # "node-context"
    <2>0. role = "cgroup"
      BY <1>1, <1>5 DEF Role
    <2>1. ReplaceAuthenticatedNodeSnapshot(r)
      BY <1>5 DEF Commit
    <2>2. ~(SameNode(records[n], i) /\ r.captured < records[n].captured)
      BY <1>5 DEF StoreResult, SnapshotResult
    <2>3. EvidenceIn(records, contexts, t) = records[n]
      BY <1>2, <2>0 DEF EvidenceIn
    <2>4. CASE Unchanged(r)
      <3>1. UNCHANGED <<records, contexts>>
        BY <2>1, <2>4 DEF ReplaceAuthenticatedNodeSnapshot, storeVars
      <3>2. records[n] # None /\ Claims[records[n].instance].uid = Claims[i].uid
        BY <2>4 DEF Unchanged, SameNode
      <3>3. records[n] \in Request
        BY <1>1, <1>3, <3>2
      <3>4. Evidence(records[n]) # None /\ Evidence(records[n]).by = records[n].instance
        BY <1>n, <3>2, <3>3 DEF Evidence
      <3> QED BY <2>3, <3>1, <3>2, <3>4
    <2>5. CASE ~Unchanged(r)
      <3>1. records' = [records EXCEPT ![n] = r] /\ contexts' = contexts
        BY <2>1, <2>5 DEF ReplaceAuthenticatedNodeSnapshot
      <3>2. ASSUME records[n] # None, Claims[records[n].instance].uid = Claims[i].uid
            PROVE  r.captured > records[n].captured
        <4>1. records[n].captured \in Int /\ r.captured \in Int
          BY <1>1, <1>3, <3>2, RequestType
        <4>2. r.captured # records[n].captured
          BY <2>5, <3>2 DEF Unchanged, SameNode
        <4> QED BY <2>2, <3>2, <4>1, <4>2 DEF SameNode
      <3>3. \A s \in Streams : EvidenceIn(records', contexts', s)
               = IF s = t THEN r ELSE EvidenceIn(records, contexts, s)
        BY <1>1, <1>2, <1>3, <1>s, <2>0, <3>1 DEF EvidenceIn
      <3>4. records[n] # None => /\ Evidence(records[n]).by = records[n].instance
                                /\ Evidence(records[n]).at = records[n].captured
        BY DEF Evidence
      <3> QED BY <1>1, <1>e, <2>3, <3>2, <3>3, <3>4
    <2> QED BY <2>4, <2>5
  <1> QED BY <1>4, <1>5

\* Accept writes its stream as the producer that displaces the one it found.
LEMMA WriteImplemented ==
  ASSUME CInv, Commit, StoreResult(accepting.request) = "accepted"
  PROVE  Register!Write(accepting.request.instance)
  <1> DEFINE r == accepting.request
             i == r.instance
             o == accepting.owner
             t == StreamOf(i)
             W  == [s \in Streams |-> StreamWriter(s)]
             W2 == [s \in Streams |-> StreamWriter(s)']
             V  == [s \in Streams |-> Evidence(EvidenceIn(records, contexts, s))]
             V2 == [s \in Streams |-> Evidence(EvidenceIn(records', contexts', s))]
  <1>1. r \in Request /\ r # None /\ i \in Instance /\ i # None /\ t \in Streams
    <2>1. r \in Request
      BY DEF Commit, CInv, TypeOK
    <2> QED BY <2>1, RequestType, ClaimsType, StreamType
  <1>2. o \in Owner(i, owners, agents) /\ retired[i] = 0
    BY <1>1 DEF CInv, OwnerStaysCurrent
  <1>3. /\ o \in Instance \cup {None}
        /\ o # None => agents[o] # None /\ StreamOf(o) = t
        /\ o = None => \A j \in Instance : agents[j] # None => StreamOf(j) # t
    BY <1>1, <1>2, OwnerFact DEF CInv
  <1>4. OwnersMatchAgents /\ OwnersMatchAgents'
    BY CommitStep DEF CInv
  \* The writers.
  <1>5. W[t] = o
    BY <1>1, <1>3, <1>4, WriterFact
  <1>6. \A j \in Instance : agents'[j] = IF j = i THEN r ELSE IF j = o THEN None ELSE agents[j]
    <2>1. CASE NewOwner(i, o)
      <3>1. agents' = [agents EXCEPT ![o] = None, ![i] = r]
        BY <2>1 DEF Commit
      <3> QED BY <1>1, <1>3, <2>1, <3>1 DEF CInv, TypeOK, NewOwner
    <2>2. CASE ~NewOwner(i, o)
      <3>1. agents' = [agents EXCEPT ![i] = r]
        BY <2>2 DEF Commit
      <3>2. o = None \/ o = i
        BY <2>2 DEF NewOwner
      <3> QED BY <1>1, <3>1, <3>2, ClaimsType DEF CInv, TypeOK
    <2> QED BY <2>1, <2>2
  <1>7. W2[t] = i
    BY <1>1, <1>4, <1>6, WriterFactNext
  <1>8. ASSUME NEW s \in Streams, s # t
        PROVE  W2[s] = W[s]
    <2>1. ASSUME NEW j \in Instance, agents[j] # None, StreamOf(j) = s
          PROVE  W[s] = j /\ W2[s] = j
      <3>1. j # i /\ j # o
        BY <1>1, <1>3, <1>8, <2>1, ClaimsType
      <3>2. agents'[j] # None
        BY <1>6, <2>1, <3>1
      <3> QED BY <1>4, <2>1, <3>2, WriterFact, WriterFactNext
    <2>2. ASSUME \A j \in Instance : agents[j] # None => StreamOf(j) # s
          PROVE  W[s] = None /\ W2[s] = None
      <3>1. \A j \in Instance : agents'[j] # None => StreamOf(j) # s
        BY <1>6, <1>8, <2>2
      <3> QED BY <1>4, <2>2, <3>1, WriterFact, WriterFactNext
    <2> HIDE DEF W, W2
    <2> QED BY <2>1, <2>2
  <1>9. W2 = [W EXCEPT ![t] = i]
    <2>1. \A s \in Streams : W2[s] = IF s = t THEN i ELSE W[s]
      <3> HIDE DEF W, W2
      <3> QED BY <1>7, <1>8
    <2> QED BY <2>1
  \* The fence.
  <1>10. Retired(retired') = Retired(retired) \cup ({o} \ {None, i})
    <2>1. CASE NewOwner(i, o)
      <3>1. retired' = [retired EXCEPT ![o] = clock + RetiredTTL]
        BY <2>1 DEF Commit
      <3>2. clock + RetiredTTL # 0
        BY LimitsAssumption DEF CInv, TypeOK
      <3> QED BY <1>3, <2>1, <3>1, <3>2 DEF CInv, TypeOK, NewOwner, Retired
    <2>2. CASE ~NewOwner(i, o)
      BY <2>2 DEF Commit, NewOwner
    <2> QED BY <2>1, <2>2
  <1>11. i \notin Retired(retired)
    BY <1>2 DEF Retired
  \* The value.
  <1>12. \/ /\ V[t] # None /\ Claims[V[t].by].uid = Claims[i].uid
            /\ V2 = V
         \/ /\ V[t] # None /\ Claims[V[t].by].uid = Claims[i].uid => r.captured > V[t].at
            /\ V2 = [V EXCEPT ![t] = [by |-> i, at |-> r.captured]]
    <2>1. \/ /\ V[t] # None /\ Claims[V[t].by].uid = Claims[i].uid
             /\ UNCHANGED <<records, contexts>>
          \/ /\ V[t] # None /\ Claims[V[t].by].uid = Claims[i].uid => r.captured > V[t].at
             /\ \A s \in Streams : V2[s] = IF s = t THEN [by |-> i, at |-> r.captured] ELSE V[s]
      BY <1>1, ValueWritten
    <2>2. CASE UNCHANGED <<records, contexts>>
      BY <2>1, <2>2
    <2>3. CASE \A s \in Streams : V2[s] = IF s = t THEN [by |-> i, at |-> r.captured] ELSE V[s]
      BY <2>1, <2>2, <2>3
    <2> QED BY <2>1, <2>2, <2>3
  <1>13. r.captured \in {q.captured : q \in Request}
    BY <1>1
  <1> HIDE DEF i, t, W, W2, V, V2
  <1>14. Retired(retired') = Retired(retired) \cup ({W[t]} \ {None, i})
    BY <1>5, <1>10
  <1>15. \/ V[t] # None /\ NodeOf(V[t].by) = NodeOf(i) /\ V2 = V
         \/ \E at \in {q.captured : q \in Request} :
              /\ V[t] # None /\ NodeOf(V[t].by) = NodeOf(i) => [by |-> i, at |-> at].at > V[t].at
              /\ V2 = [V EXCEPT ![t] = [by |-> i, at |-> at]]
    <2>1. CASE V2 = V /\ V[t] # None /\ Claims[V[t].by].uid = Claims[i].uid
      BY <2>1 DEF NodeOf
    <2>2. CASE /\ V[t] # None /\ Claims[V[t].by].uid = Claims[i].uid => r.captured > V[t].at
               /\ V2 = [V EXCEPT ![t] = [by |-> i, at |-> r.captured]]
      <3>1. [by |-> i, at |-> r.captured].at = r.captured
        OBVIOUS
      <3> QED BY <1>13, <2>2, <3>1 DEF NodeOf
    <2> QED BY <1>12, <2>1, <2>2
  <1>16. Register!Write(i)
    BY <1>9, <1>11, <1>14, <1>15, Zenon
    DEF Register!Write, Register!Follows, W, W2, V, V2, t, EvidenceIn, Streams, Retired
  <1> QED BY <1>16 DEF i

\* Every step of the Coordinator and the Store is one of the register, or none.
LEMMA StepImplemented ==
  ASSUME CInv, [CNext]_collectorVars
  PROVE  [Register!RNext]_(Register!vars)
  <1>c. CInv'
    BY NextCInv
  <1>0. ASSUME UNCHANGED <<agents, retired, records, contexts>>
        PROVE  UNCHANGED Register!vars
    <2>1. UNCHANGED [s \in Streams |-> Evidence(EvidenceIn(records, contexts, s))]
      BY <1>0
    <2> QED BY <1>0, <2>1, SameWriters DEF Register!vars, Streams, EvidenceIn
  <1>1. ASSUME retired' = pruneRetired, UNCHANGED <<agents, storeVars>>
        PROVE  Register!RNext
    <2>1. Retired(retired') = {} \cup Retired(pruneRetired)
      BY <1>1
    <2>2. \A j \in Instance : agents'[j] = IF j \in {} THEN None ELSE agents[j]
      BY <1>1
    <2>3. UNCHANGED <<records, contexts>>
      BY <1>1 DEF storeVars
    <2>4. {} \in SUBSET Active(agents)
      OBVIOUS
    <2>5. TypeOK /\ OwnersMatchAgents /\ OwnersMatchAgents'
      BY <1>c DEF CInv
    <2>6. Register!Refence
      BY <2>1, <2>2, <2>3, <2>4, <2>5, RefenceImplemented
    <2> QED BY <2>6 DEF Register!RNext
  <1>2. ASSUME NEW r \in Request, NEW result \in CapacityResult, Begin(r, result)
        PROVE  Register!RNext
    <2>1. PICK gone \in PruneSets(r.instance) : Retire(gone)
      BY <1>2 DEF Begin
    <2>2. gone \in SUBSET Active(agents)
      BY <2>1, RequestType, PruneSetsFact
    <2>3. \A j \in Instance : agents'[j] = IF j \in gone THEN None ELSE agents[j]
      BY <2>1 DEF Retire
    <2>4. Retired(retired') = gone \cup Retired(pruneRetired)
      <3>1. clock + RetiredTTL # 0
        BY LimitsAssumption DEF CInv, TypeOK
      <3>2. \A j \in Instance : retired'[j] = IF j \in gone THEN clock + RetiredTTL ELSE pruneRetired[j]
        BY <2>1 DEF Retire
      <3>3. ASSUME NEW j \in Instance, j \in gone PROVE pruneRetired[j] = 0
        BY <2>2, <3>3, PruneRetiredType DEF CInv, TypeOK, RetiredAreInactive, Active
      <3> QED BY <2>2, <3>1, <3>2 DEF Retired, Active
    <2>5. UNCHANGED <<records, contexts>>
      BY <1>2 DEF Begin, storeVars
    <2> QED BY <1>c, <2>2, <2>3, <2>4, <2>5, RefenceImplemented DEF CInv, Register!RNext
  <1>3. CASE Commit
    <2>1. CASE StoreResult(accepting.request) = "accepted"
      <3>1. accepting.request.instance \in Instance
        BY <1>3, RequestType DEF Commit, CInv, TypeOK
      <3> QED BY <1>3, <2>1, <3>1, WriteImplemented DEF Register!RNext
    <2>2. CASE StoreResult(accepting.request) # "accepted"
      BY <1>0, <1>3, <2>2 DEF Commit, storeVars
    <2> QED BY <2>1, <2>2
  <1>4. ASSUME NEW ids \in Inventory, Reconcile(ids) PROVE Register!RNext
    BY <1>4, EraseImplemented DEF Register!RNext
  <1>5. CASE Restart
    BY <1>5, ResetImplemented DEF Register!RNext
  <1>6. CASE Tick \/ UNCHANGED collectorVars
    BY <1>0, <1>6 DEF Tick, collectorVars, coordinatorVars, storeVars
  <1> QED BY <1>1, <1>2, <1>3, <1>4, <1>5, <1>6 DEF CNext, Refuse, ReadEpoch

\* Seen by its readers, ingestion is a fenced single-writer register per stream,
\* for any number of producers and Nodes: only Accept writes, only for a producer
\* that is not fenced, and the producer that it displaces is fenced with it.
THEOREM RegisterImplemented == CSpec => ImplementsRegister
  <1>1. CInit => Register!RInit
    <2> SUFFICES ASSUME CInit PROVE Register!RInit
      OBVIOUS
    <2>1. \A s \in Streams : StreamWriter(s) = None
      BY DEF CInit, StreamWriter, Active
    <2>2. Retired(retired) = {}
      BY DEF CInit, Retired
    <2>3. \A s \in Streams : Evidence(EvidenceIn(records, contexts, s)) = None
      BY DEF CInit, EvidenceIn, Evidence, Streams
    <2> QED BY <2>1, <2>2, <2>3 DEF Register!RInit, EvidenceIn, Streams, Retired
  <1>2. CInv /\ [CNext]_collectorVars => [Register!RNext]_(Register!vars)
    BY StepImplemented
  <1> QED BY <1>1, <1>2, CInvariance, PTL DEF CSpec, ImplementsRegister, Register!RSpec
=============================================================================
