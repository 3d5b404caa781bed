---------------------------- MODULE Coordinator ----------------------------
(***************************************************************************)
(* Authenticated snapshot ingestion on the collector's side: the           *)
(* extension.Coordinator that fences producers, the part of                *)
(* collector.Store that holds the latest evidence of each Node, and the    *)
(* Node inventory that is reconciled into that Store behind the            *)
(* Coordinator's back.                                                     *)
(*                                                                         *)
(* Accept holds c.mu from its first check to its last assignment, but the  *)
(* Store has a mutex of its own: pruneInactive reads the inventory under   *)
(* it and the snapshot is replaced under it later, and between the two the *)
(* inventory probe may reconcile.  So Accept is two actions, Begin and     *)
(* Commit (or the one action Refuse when it returns before either Store    *)
(* section), and `accepting' is the call that holds c.mu in between.       *)
(*                                                                         *)
(* A request's digest is the SHA-256 of its whole canonical form, so equal *)
(* digests are equal requests.  Requests are well formed: of what          *)
(* ValidateSnapshot refuses, only a capture time outside its window can    *)
(* happen here, as every other refusal changes the same as that one.       *)
(***************************************************************************)
EXTENDS SnapshotApi, FiniteSets, FiniteSetsExt

CONSTANTS
  MaxAgents, MaxRetired, RetiredTTL,
  MaxSnapshotAge, MaxFutureSkew,
  InventoryTTL,       \* nodecontext.StaleAfter
  MaxNodes, MaxContainers,
  MaxClock, MaxEpoch  \* bounds of the model, not of the code

ASSUME LimitsAssumption ==
  /\ MaxAgents \in Nat \ {0} /\ MaxRetired \in Nat \ {0} /\ RetiredTTL \in Nat \ {0}
  /\ MaxSnapshotAge \in Nat /\ MaxFutureSkew \in Nat /\ InventoryTTL \in Nat
  /\ MaxNodes \in Nat \ {0} /\ MaxContainers \in Nat
  /\ MaxClock \in Nat /\ MaxEpoch \in Nat

VARIABLES
  clock,           \* opts.Now() of the collector
  epoch,           \* c.epoch, and the Store's generation: one per process
  agents,          \* c.agents: the last request accepted from each producer
  owners,          \* c.nodes: role and Node UID to the producer that owns it
  retired,         \* c.retired: when a replaced producer is forgotten, or 0
  accepting,       \* the Accept call that holds c.mu, and the owner it found
  records,         \* s.nodes: the cgroup evidence held for each Node name
  contexts,        \* s.nodeContext.latest: the Node observation held
  containerCount,  \* s.containerCount
  expected,        \* s.expectedNodeUIDs
  inventoryKnown, inventoryAt

coordinatorVars == <<agents, owners, retired, accepting>>
inventoryVars   == <<expected, inventoryKnown, inventoryAt>>
storeVars       == <<records, contexts, containerCount>>
collectorVars   == <<clock, epoch, coordinatorVars, storeVars, inventoryVars>>

Free == [request |-> None, owner |-> None]

TypeOK ==
  /\ clock \in Nat /\ epoch \in Nat
  /\ agents \in [Instance -> Request \cup {None}]
  /\ owners \in [Role \X NodeUID -> Instance \cup {None}]
  /\ retired \in [Instance -> Nat]
  /\ accepting \in [request: Request \cup {None}, owner: Instance \cup {None}]
  /\ records \in [NodeName -> Request \cup {None}]
  /\ contexts \in [NodeName -> Request \cup {None}]
  /\ expected \in [NodeName -> NodeUID \cup {None}]
  /\ inventoryKnown \in BOOLEAN /\ inventoryAt \in Nat

-----------------------------------------------------------------------------
(* The Coordinator. *)

Active(ag)  == {i \in Instance : ag[i] # None}
Retired(re) == {i \in Instance : re[i] # 0}

\* Mutation of pruneRetired: forgets a producer one tick before its expiry.
pruneRetiredEarly == [i \in Instance |-> IF retired[i] <= clock + 1 THEN 0 ELSE retired[i]]

pruneRetired == [i \in Instance |-> IF retired[i] <= clock THEN 0 ELSE retired[i]]

lastSequence(i) == IF agents[i] = None THEN 0 ELSE agents[i].sequence

\* Mutation of Screen: never looks at c.retired.
ScreenWithoutFence(r) ==
  LET i == r.instance
      last == agents[i]
  IN  IF r.epoch # epoch                  THEN "epoch_mismatch"
      ELSE IF r.uid # Claims[i].uid       THEN "node_claim_mismatch"
      ELSE IF r.sequence = 0              THEN "invalid_sequence"
      ELSE IF last = None                 THEN "proceed"
      ELSE IF r = last                    THEN "duplicate"
      ELSE IF r.sequence = last.sequence  THEN "sequence_conflict"
      ELSE IF r.sequence < last.sequence  THEN "sequence_replayed"
      ELSE "proceed"

\* Mutation of Screen: a retried sequence is a duplicate whatever it carries.
ScreenWithoutDigest(r) ==
  LET i == r.instance
      last == agents[i]
  IN  IF r.epoch # epoch                  THEN "epoch_mismatch"
      ELSE IF r.uid # Claims[i].uid       THEN "node_claim_mismatch"
      ELSE IF r.sequence = 0              THEN "invalid_sequence"
      ELSE IF pruneRetired[i] # 0         THEN "agent_replaced"
      ELSE IF last = None                 THEN "proceed"
      ELSE IF r.sequence = last.sequence  THEN "duplicate"
      ELSE IF r.sequence < last.sequence  THEN "sequence_replayed"
      ELSE "proceed"

\* What Accept decides about a request before it needs the Store.
Screen(r) ==
  LET i == r.instance
      last == agents[i]
  IN  IF r.epoch # epoch                  THEN "epoch_mismatch"
      ELSE IF r.uid # Claims[i].uid       THEN "node_claim_mismatch"
      ELSE IF r.sequence = 0              THEN "invalid_sequence"
      ELSE IF pruneRetired[i] # 0         THEN "agent_replaced"
      ELSE IF last = None                 THEN "proceed"
      ELSE IF r = last                    THEN "duplicate"
      ELSE IF r.sequence = last.sequence  THEN "sequence_conflict"
      ELSE IF r.sequence < last.sequence  THEN "sequence_replayed"
      ELSE "proceed"

\* CurrentNodeIdentities: usable only while known and fresh.
InventoryFresh == inventoryKnown /\ clock - inventoryAt <= InventoryTTL

\* The producers whose Node the inventory no longer lists under their UID.
Inactive == {j \in Active(agents) : expected[Claims[j].name] # Claims[j].uid}

\* Those that pruneInactive retires for a newcomer i: as many as fit, in the
\* order of their (random) Pod UIDs.
PruneSets(i) ==
  IF agents[i] = None /\ Cardinality(Active(agents)) >= MaxAgents /\ InventoryFresh
  THEN {gone \in SUBSET Inactive :
          \/ gone = Inactive /\ Cardinality(Retired(pruneRetired)) + Cardinality(gone) <= MaxRetired
          \/ Cardinality(Retired(pruneRetired)) + Cardinality(gone) = MaxRetired}
  ELSE {{}}

\* Mutation of Retire: the expiry lies before the retirement.
RetireInThePast(gone) ==
  /\ agents'  = [j \in Instance |-> IF j \in gone THEN None ELSE agents[j]]
  /\ owners'  = [k \in Role \X NodeUID |->
                   IF \E j \in gone : nodeKey(j) = k THEN None ELSE owners[k]]
  /\ retired' = [j \in Instance |-> IF j \in gone THEN clock - RetiredTTL ELSE pruneRetired[j]]

\* delete(c.nodes, ...), delete(c.agents, ...), c.retired[...] = ... for a set.
Retire(gone) ==
  /\ agents'  = [j \in Instance |-> IF j \in gone THEN None ELSE agents[j]]
  /\ owners'  = [k \in Role \X NodeUID |->
                   IF \E j \in gone : nodeKey(j) = k THEN None ELSE owners[k]]
  /\ retired' = [j \in Instance |-> IF j \in gone THEN clock + RetiredTTL ELSE pruneRetired[j]]

\* Mutation of Owner: does not look for the stream of a recreated Node's name.
OwnerByUID(i, ow, ag) == {ow[nodeKey(i)]}

\* The producer that i would displace: the owner of its Node UID, or else any
\* producer of the same role that posted for the same Node name.
Owner(i, ow, ag) ==
  LET sameName == {j \in Active(ag) : StreamOf(j) = StreamOf(i)}
  IN  IF ow[nodeKey(i)] # None THEN {ow[nodeKey(i)]}
      ELSE IF sameName = {}    THEN {None}
      ELSE sameName

NewOwner(i, o) == o # None /\ o # i

Capacity(i, o, ag, re) ==
  IF ag[i] = None /\ ~NewOwner(i, o) /\ Cardinality(Active(ag)) >= MaxAgents
  THEN "agent_capacity"
  ELSE IF NewOwner(i, o) /\ Cardinality(Retired(re)) >= MaxRetired
  THEN "retired_agent_capacity"
  ELSE "proceed"

\* Accept returns Screen(r).
Refuse(r) ==
  /\ accepting = Free
  /\ Screen(r) # "proceed"
  /\ retired' = pruneRetired
  /\ UNCHANGED <<clock, epoch, agents, owners, accepting, storeVars, inventoryVars>>

CapacityResult == {"proceed", "agent_capacity", "retired_agent_capacity"}

\* Mutation of Begin: looks the owner up before it prunes inactive producers.
BeginOwnerFirst(r, result) ==
  /\ accepting = Free
  /\ Screen(r) = "proceed"
  /\ \E gone \in PruneSets(r.instance) : Retire(gone)
  /\ \E o \in Owner(r.instance, owners, agents) :
       /\ result = Capacity(r.instance, o, agents', retired')
       /\ accepting' = IF result = "proceed" THEN [request |-> r, owner |-> o] ELSE Free
  /\ UNCHANGED <<clock, epoch, storeVars, inventoryVars>>

\* Accept holds c.mu and goes on to the Store, or returns a capacity result.
Begin(r, result) ==
  /\ accepting = Free
  /\ Screen(r) = "proceed"
  /\ \E gone \in PruneSets(r.instance) : Retire(gone)
  /\ \E o \in Owner(r.instance, owners', agents') :
       /\ result = Capacity(r.instance, o, agents', retired')
       /\ accepting' = IF result = "proceed" THEN [request |-> r, owner |-> o] ELSE Free
  /\ UNCHANGED <<clock, epoch, storeVars, inventoryVars>>

-----------------------------------------------------------------------------
(* The Store. *)

Held(n) == records[n] # None \/ contexts[n] # None

\* nodeRecordCountLocked: a name that either producer holds takes no new slot.
nodeRecordCount(n) == IF Held(n) THEN 0 ELSE Cardinality({m \in NodeName : Held(m)})

Containers(r) == IF r = None THEN 0 ELSE r.size

\* The containers listed by the cgroup evidence of a set of Nodes.
ContainersOn(S) == SumFunctionOnSet([n \in NodeName |-> Containers(records[n])], S)

\* The evidence is of the same Node object, so its capture times compare.
SameNode(previous, i) == previous # None /\ Claims[previous.instance].uid = Claims[i].uid

\* Mutation of projectedContainers: the evidence replaced still counts.
projectedContainersSummed(r) == containerCount + r.size

projectedContainers(r) ==
  containerCount - Containers(records[Claims[r.instance].name]) + r.size

\* Mutation of nodeIdentityCurrent: a name that is not listed passes.
nodeIdentityNotContradicted(i) ==
  InventoryFresh /\ expected[Claims[i].name] \in {None, Claims[i].uid}

nodeIdentityCurrent(i) == InventoryFresh /\ expected[Claims[i].name] = Claims[i].uid

\* Mutation of ValidateSnapshot: no bound on the age of a snapshot.
ValidateFutureOnly(r) == r.captured <= clock + MaxFutureSkew

ValidateSnapshot(r) ==
  r.captured >= clock - MaxSnapshotAge /\ r.captured <= clock + MaxFutureSkew

\* Mutation of SnapshotResult: never compares capture times.
SnapshotResultUnordered(r) ==
  LET i == r.instance
      n == Claims[i].name
  IN  IF expected[n] \notin {None, Claims[i].uid}                THEN "node_inventory"
      ELSE IF records[n] = None /\ nodeRecordCount(n) >= MaxNodes THEN "store_capacity"
      ELSE IF projectedContainers(r) > MaxContainers             THEN "store_capacity"
      ELSE "accepted"

SnapshotResult(r) ==
  LET i == r.instance
      n == Claims[i].name
  IN  IF expected[n] \notin {None, Claims[i].uid}                THEN "node_inventory"
      ELSE IF records[n] = None /\ nodeRecordCount(n) >= MaxNodes THEN "store_capacity"
      ELSE IF projectedContainers(r) > MaxContainers             THEN "store_capacity"
      ELSE IF SameNode(records[n], i) /\ r.captured < records[n].captured
                                                                 THEN "snapshot_out_of_order"
      ELSE "accepted"

EvidenceResult(r) ==
  LET i == r.instance
      n == Claims[i].name
  IN  IF ~nodeIdentityCurrent(i)                                  THEN "node_inventory"
      ELSE IF contexts[n] = None /\ nodeRecordCount(n) >= MaxNodes THEN "store_capacity"
      ELSE IF SameNode(contexts[n], i) /\ r.captured <= contexts[n].captured
                                                                  THEN "snapshot_out_of_order"
      ELSE "accepted"

StoreResult(r) ==
  IF ~ValidateSnapshot(r)                          THEN "invalid_snapshot"
  ELSE IF Claims[r.instance].role = "node-context" THEN EvidenceResult(r)
  ELSE SnapshotResult(r)

\* A cgroup snapshot of the very time already held is acknowledged, not stored.
Unchanged(r) ==
  LET previous == records[Claims[r.instance].name]
  IN  SameNode(previous, r.instance) /\ r.captured = previous.captured

ReplaceAuthenticatedNodeSnapshot(r) ==
  IF Unchanged(r) THEN UNCHANGED storeVars
  ELSE /\ records' = [records EXCEPT ![Claims[r.instance].name] = r]
       /\ containerCount' = projectedContainers(r)
       /\ UNCHANGED contexts

ReplaceNodeEvidence(r) ==
  /\ contexts' = [contexts EXCEPT ![Claims[r.instance].name] = r]
  /\ UNCHANGED <<records, containerCount>>

\* Mutation of Commit: the displaced producer is dropped but not fenced.
CommitWithoutFence ==
  LET r == accepting.request
      i == r.instance
      o == accepting.owner
  IN  /\ r # None
      /\ accepting' = Free
      /\ IF StoreResult(r) # "accepted"
         THEN UNCHANGED <<agents, owners, storeVars>>
         ELSE /\ IF Claims[i].role = "node-context"
                 THEN ReplaceNodeEvidence(r)
                 ELSE ReplaceAuthenticatedNodeSnapshot(r)
              /\ IF NewOwner(i, o)
                 THEN /\ agents' = [agents EXCEPT ![o] = None, ![i] = r]
                      /\ owners' = [owners EXCEPT ![nodeKey(o)] = None, ![nodeKey(i)] = i]
                 ELSE /\ agents' = [agents EXCEPT ![i] = r]
                      /\ owners' = [owners EXCEPT ![nodeKey(i)] = i]
      /\ UNCHANGED <<clock, epoch, retired, inventoryVars>>

\* The rest of Accept, which returns StoreResult: the Store decides, and only
\* then does the stream move.
Commit ==
  LET r == accepting.request
      i == r.instance
      o == accepting.owner
  IN  /\ r # None
      /\ accepting' = Free
      /\ IF StoreResult(r) # "accepted"
         THEN UNCHANGED <<agents, owners, retired, storeVars>>
         ELSE /\ IF Claims[i].role = "node-context"
                 THEN ReplaceNodeEvidence(r)
                 ELSE ReplaceAuthenticatedNodeSnapshot(r)
              /\ IF NewOwner(i, o)
                 THEN /\ agents' = [agents EXCEPT ![o] = None, ![i] = r]
                      /\ owners' = [owners EXCEPT ![nodeKey(o)] = None, ![nodeKey(i)] = i]
                      /\ retired' = [retired EXCEPT ![o] = clock + RetiredTTL]
                 ELSE /\ agents' = [agents EXCEPT ![i] = r]
                      /\ owners' = [owners EXCEPT ![nodeKey(i)] = i]
                      /\ UNCHANGED retired
      /\ UNCHANGED <<clock, epoch, inventoryVars>>

\* GET ingestionepochs/current: prunes, and tells the epoch and lastSequence(i).
ReadEpoch ==
  /\ accepting = Free
  /\ retired' = pruneRetired
  /\ UNCHANGED <<clock, epoch, agents, owners, accepting, storeVars, inventoryVars>>

\* The cgroup evidence that ReconcileNodeIdentities drops.
Dropped(ids) ==
  {n \in NodeName : /\ records[n] # None
                    /\ ids[n] = None \/ expected[n] \notin {None, ids[n]}}

Reconcile(ids) ==
  /\ Cardinality({n \in NodeName : ids[n] # None}) <= MaxNodes
  /\ clock >= inventoryAt
  /\ records' = [n \in NodeName |-> IF n \in Dropped(ids) THEN None ELSE records[n]]
  /\ containerCount' = containerCount - ContainersOn(Dropped(ids))
  /\ contexts' = [n \in NodeName |->
       IF contexts[n] # None /\ Claims[contexts[n].instance].uid # ids[n]
       THEN None ELSE contexts[n]]
  /\ expected' = ids
  /\ inventoryKnown' = TRUE
  /\ inventoryAt' = clock
  /\ UNCHANGED <<clock, epoch, coordinatorVars>>

-----------------------------------------------------------------------------

CInit ==
  /\ clock = 0
  /\ epoch = 1
  /\ agents = [i \in Instance |-> None]
  /\ owners = [k \in Role \X NodeUID |-> None]
  /\ retired = [i \in Instance |-> 0]
  /\ accepting = Free
  /\ records = [n \in NodeName |-> None]
  /\ contexts = [n \in NodeName |-> None]
  /\ containerCount = 0
  /\ expected = [n \in NodeName |-> None]
  /\ inventoryKnown = FALSE
  /\ inventoryAt = 0

\* Nothing is persisted: a new process has a new epoch and empty maps.
Restart ==
  /\ epoch < MaxEpoch
  /\ epoch' = epoch + 1
  /\ agents' = [i \in Instance |-> None]
  /\ owners' = [k \in Role \X NodeUID |-> None]
  /\ retired' = [i \in Instance |-> 0]
  /\ accepting' = Free
  /\ records' = [n \in NodeName |-> None]
  /\ contexts' = [n \in NodeName |-> None]
  /\ containerCount' = 0
  /\ expected' = [n \in NodeName |-> None]
  /\ inventoryKnown' = FALSE
  /\ inventoryAt' = 0
  /\ UNCHANGED clock

Tick ==
  /\ clock < MaxClock
  /\ clock' = clock + 1
  /\ UNCHANGED <<epoch, coordinatorVars, storeVars, inventoryVars>>

Inventory == {ids \in [NodeName -> NodeUID \cup {None}] :
                \A n \in NodeName, i \in Instance : ids[n] = Claims[i].uid => Claims[i].name = n}

CNext ==
  \/ \E r \in Request : Refuse(r) \/ \E result \in CapacityResult : Begin(r, result)
  \/ Commit
  \/ ReadEpoch
  \/ \E ids \in Inventory : Reconcile(ids)
  \/ Restart
  \/ Tick

CSpec == CInit /\ [][CNext]_collectorVars

-----------------------------------------------------------------------------
(* What the Coordinator and the Store promise. *)

\* c.nodes and c.agents always describe the same streams: the owner of a key is
\* an agent of that key, every agent owns its key, and no two agents serve the
\* same role of the same Node name, across replaced Pods and recreated Nodes
\* (Accept looks an owner up by UID or by name and deletes by the owner's key).
OwnersMatchAgents ==
  /\ \A k \in Role \X NodeUID :
       owners[k] # None => agents[owners[k]] # None /\ nodeKey(owners[k]) = k
  /\ \A i \in Instance : agents[i] # None => owners[nodeKey(i)] = i
  /\ \A i, j \in Instance :
       agents[i] # None /\ agents[j] # None /\ StreamOf(i) = StreamOf(j) => i = j

\* A replaced producer is not also an active one: c.retired and c.agents never
\* hold the same instance, whatever was displaced, pruned or expired in between.
RetiredAreInactive == \A i \in Instance : retired[i] # 0 => agents[i] = None

\* What Accept read before the Store section is still true when it commits: the
\* owner it is about to displace, and that its own producer is not fenced.
OwnerStaysCurrent ==
  accepting.request # None =>
    LET i == accepting.request.instance
    IN  accepting.owner \in Owner(i, owners, agents) /\ retired[i] = 0

\* The identity maps and the Store stay within their limits, through hand-overs
\* and capacity pruning, and the running container count is the sum it caches.
WithinLimits ==
  /\ Cardinality(Active(agents)) <= MaxAgents
  /\ Cardinality(Retired(retired)) <= MaxRetired
  /\ Cardinality({n \in NodeName : Held(n)}) <= MaxNodes
  /\ containerCount <= MaxContainers
  /\ containerCount = ContainersOn({n \in NodeName : records[n] # None})

\* A Node observation is only ever held for the Node object that the inventory
\* lists under its name: what docs/node-context.md asks before any join.
ContextsMatchInventory ==
  \A n \in NodeName : contexts[n] # None => expected[n] = Claims[contexts[n].instance].uid

\* The comment of ReconcileNodeIdentities: a recreated name invalidates both
\* current sources.  Cgroup evidence accepted while the name was not listed
\* escapes it, because the code compares the old inventory with the new one and
\* not the evidence with either.
RecordsMatchInventory ==
  \A n \in NodeName : records[n] # None =>
    expected[n] \in {None, Claims[records[n].instance].uid}

\* Within one process, the evidence of one Node object never goes back in time,
\* whichever producers wrote it and in whatever order their requests arrived.
EvidenceMonotone ==
  [][\A n \in NodeName, table \in {"records", "contexts"} :
       LET before == IF table = "records" THEN records[n] ELSE contexts[n]
           after  == IF table = "records" THEN records'[n] ELSE contexts'[n]
       IN  before # None /\ after # None /\ SameNode(before, after.instance)
             => after.captured >= before.captured]_collectorVars

\* A replaced producer cannot write again within RetiredTTL: it leaves the
\* fence only by its expiry (or with the process).
NoReclaimWithinTTL ==
  [][\A i \in Instance :
       retired[i] > clock /\ epoch' = epoch => retired'[i] # 0 /\ agents'[i] = None]_collectorVars

\* Seen through this mapping, the maps, sequences and locks are a FencedRegister.
NodeOf(i)   == Claims[i].uid
Evidence(r) == IF r = None THEN None ELSE [by |-> r.instance, at |-> r.captured]
StreamWriter(s) ==
  IF \E i \in Active(agents) : StreamOf(i) = s
  THEN CHOOSE i \in Active(agents) : StreamOf(i) = s
  ELSE None

\* No evidence is told from evidence.
ASSUME EvidenceAssumption == None \notin [by: Instance, at: {r.captured : r \in Request}]

Register == INSTANCE FencedRegister WITH
  Writer <- Instance,
  Stream <- Role \X NodeName,
  Time   <- {r.captured : r \in Request},
  writer <- [s \in Role \X NodeName |-> StreamWriter(s)],
  fenced <- Retired(retired),
  value  <- [s \in Role \X NodeName |->
               Evidence(IF s[1] = "cgroup" THEN records[s[2]] ELSE contexts[s[2]])]

\* Every stream behaves as a fenced single-writer register whatever the order in
\* which requests arrive, Nodes are recreated and the process restarts: only
\* Accept writes, by a producer that is not fenced, and the displaced one is.
ImplementsRegister == Register!RSpec
=============================================================================
