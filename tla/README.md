# Specifications of KubeMemLens

KubeMemLens shows where the memory of a Kubernetes cluster goes. Agents on every
Node read cgroup evidence and post it to one collector, an aggregated API server,
that answers the kubectl plugin and its terminal UI under the caller's own
permissions. Beside it, a trace controller admits short, bounded kernel tracing
sessions of one Pod and has a service on that Pod's Node run them.

These TLA+ modules specify the parts of the program whose correctness rests on
the order in which things happen:

* the **ingestion of evidence**: many producers, one store, an inventory that lags, a
  process that keeps nothing on disk;
* the **life of a trace**, from the operator's panel (its client, with one admission and one
  DELETE) over the controller (quotas, cleanup that may have to be tried again) to the
  Node (leases, replay records, engines, expiry without the controller);
* **incident sessions**: a store in memory whose calls leave the lock to acquire evidence.

Paths below are relative to the repository root.

## 1. Inventory

### 1.1 Ingestion

| Part | Code | State it keeps | Operations | Modelled in |
|---|---|---|---|---|
| Coordinator | `internal/extension/coordinator.go`, `producer.go`, `producer_retirement.go` | `epoch`; `agents`, `nodes`, `retired` under `c.mu` | `Accept`, `Epoch`, `pruneInactive`, `pruneRetired` | `Coordinator` |
| Evidence store | `internal/collector/store.go`, `node_context.go`, `node_identity.go` | latest evidence per Node name of two producers, container count, `expectedNodeUIDs` and when they were listed, under `s.mu` | `ReplaceAuthenticatedNodeSnapshot`, `ReplaceNodeEvidence`, `ReconcileNodeIdentities` | `Coordinator` |
| Ingestion API | `internal/extension/handler.go` | rate limiters, a semaphore | `snapshot`, `epoch` | `Ingestion` |
| Inventory probe | `internal/extension/node_coverage.go` | counters | `probe`, `listNodeIdentities` | `Ingestion` |
| Publisher | `internal/agent/publisher.go`, `retry.go` | `epoch`, `sequence` under `p.mu` | `Publish`, `refreshEpoch`, `postWithRetry` | `Publisher` |
| Agent process | `cmd/memlens-agent/main.go` | the scan loop | scan, publish | `Ingestion` |
| Node-context producer | `internal/agent/node_context_publisher.go`, `internal/nodeproducer` | as the publisher | its own schedule | its requests, in `Coordinator` |

*Interaction.* A producer reads the collector's epoch, then posts snapshots with a
growing sequence number; a POST may be lost, late or repeated and its answer may
be lost. `Accept` holds `c.mu` from beginning to end but enters `s.mu` twice, once
to read the inventory and once to replace the evidence; the probe reconciles the
inventory under `s.mu` alone. A Node may be deleted and recreated under its old
name with another UID, and a Pod may be replaced by one that posts to the same
stream. A restart of the collector forgets everything and draws a new epoch.

*What makes it correct.* One producer per stream (role and Node name), the two maps
of the Coordinator in agreement, a replaced producer kept out until no old copy of
its requests could be accepted, limits kept, evidence of one Node that never goes
back in time, no evidence joined to another Node object of the same name, no
success reported for a snapshot that nobody kept, and no request stored again while its
Pod is fenced.

### 1.2 Trace admission

| Part | Code | State it keeps | Operations | Modelled in |
|---|---|---|---|---|
| Admission manager | `internal/traceadmission` | `entries` with stage, binding, cleanup and consumer flags under `m.mu`; `inflight`; `auditFailed`; `closed` | `Admit`, `Get`, `Cancel`, `Claim`, `Lease.Close`, `closeEntry`, `sweep`, `expiryLoop`, `Close` | `TraceAdmission` |
| Stream endpoint | `prototype/trace/admissionapi/stream.go` | one lease per request | `serveStream` | its end, in `TraceAdmission` |
| Audit sink | `internal/traceaudit/writer.go` | a queue of 64, a failure latch | `Write` | that a record may fail |
| Controller's node client | `prototype/trace/nodebinding/client.go` | a binding: the instance it bound to, expiry, one claim, a cleanup-only flag | `Bind`, `Revalidate`, `OpenStream`, `Close` | `NodeBinding` |
| Node binding service | `prototype/trace/nodebinding` | `leases`, `seen` and `cleanupErr` under `s.mu`, executions, a timer and a wake channel, open handles | bind, revalidate, remove, stream, activate, finish, preview, expiry, shutdown | `NodeBinding` |
| Operator's client | `internal/traceclient` | one session, its state and one shared DELETE, under `s.mu` | `Prepare`, `Start`, `Cancel`, run | `TraceClient` |
| Trace panel | `internal/tui/trace_panel.go` | generation, session, what it saw of it last | select, prepare, start, stop, revoke, quit | `TracePanel` |
| Trace command | `internal/cli/trace_result.go` | one session for an existing admission | watch or export, signals | `TracePanel` |
| Worker | `prototype/trace/workerprocess`, `workeripc`, `worker` | a child process, its pipes | start, run, stop | no |
| Session and output | `internal/tracesession` | one output, its bounds | run | no |

*Interaction.* `Admit` reserves an entry, resolves the Pod, asks its Node to bind and
validates everything again, each in a section of its own under `m.mu`. From then on
the operator's read, cancellation, stream, the stream's disconnection and the expiry
loop may each give the session up. Whoever finds the entry first cleans it up, by
asking the Node to close the binding, and the others join. `Close` waits for what is
in flight and sweeps once more.

The controller reaches a Node by HTTP, and each request names the process (instance)
that answered the identity request. A request may come late, a copy of a bind may
follow it, an answer may be lost. The Node resolves the Pod with its mutex held, keeps a
directory handle per lease, remembers each session id it has seen, and gives up leases
by a timer of its own. A stream looks at its lease, prepares its engine without the
lock and looks again (`activate`); a DELETE of a running session cancels the engine and waits for its
teardown. A new process of the Node may serve while the old one drains.

The operator's session creates one admission, watches it and deletes it once, whichever of a
cancellation, the caller's context and the end of the stream comes first. The panel
is a message loop: what its commands bring back is compared with the selection it
shows, and a session that is no longer wanted is cancelled.

*What makes it correct.* Quotas; no work on a Node without an entry that is charged
for it and can end it; one cleanup at a time, and none while a consumer still runs;
a success only when nothing is left; records in order; nothing admitted or claimed
once it is closing; entries that go away, requests that are answered and a shutdown
that ends. On the Node: an engine runs at most once per session and neither after nor beyond a
confirmed cleanup, over all processes; the handle of a cgroup outlives the engine;
limits; and leases that go when the controller is silent. At the operator's: what is
reported is true of the controller, nothing goes on after the end, and losing access
to the evidence stops every trace that has not been asked for.

### 1.3 Incident sessions

| Part | Code | State it keeps | Operations | Modelled in |
|---|---|---|---|---|
| Store | `internal/incidentsession` | `records` under `s.mu`, a context, a sweeper | `Start`, `Append`, `RecordCapture`, `RecordMarkers`, their gaps, `CompareCaptures`, `Close`, `Delete`, `Inspect`, `Export`, sweep, `Shutdown` | `IncidentSessions` |
| Handler | `internal/incidentsessionapi` | a gate of two requests | one per operation | `IncidentSessions` |

*Interaction.* The handler takes a slot of its gate and calls the store; a capture calls
it two or three times, with the acquisition of the evidence between, while the session
may expire, be closed, be deleted or the process be told to stop. Each call asks for
authority before it takes the lock.

*What makes it correct.* Limits over all sessions, per Namespace and per session; an
open session that can always be closed; a log that only grows, by whole groups, and is
never reopened; nothing kept after the shutdown.

### 1.4 The rest

| Part | Code | State | What would make it correct |
|---|---|---|---|
| History | `internal/collector/history.go`, `memory_history.go` | rings per Pod and overall | bounds, coverage markers that agree with what was dropped |
| Volume evidence | `internal/collector/volume_context.go` | byte-accounted entries | the byte count is the sum it caches, reconciled with the inventory |
| Pagination | `internal/collector/pagination.go` | none (cursor in the token) | no item repeated, none that stayed skipped |
| Collector reads | `internal/extension/*_read.go`, `read_handler.go` | none | projections of the store under the caller's authority |
| Terminal UI but the trace panel | `internal/tui` | a single-threaded model | stale answers are dropped by generation |
| Analysis and views | `internal/explain`, `incident`, `replicabaseline`, `*view` … | none | pure functions |
| Evidence sources | `internal/cgroup`, `topologysource`, `nodestats` … | a small cache | parsing of kernel and kubelet files |
| Processes, packaging, charts | `cmd`, `charts`, `deploy`, `hack`, `prototype/trace/releasebundle` … | none | wiring and build-time tools |

`PROJECT.json` lists every part with its status, and every hazard at its line with
the properties that cover it or the reason why none does yet.

## 2. Modules

```
SnapshotApi ──┬── Coordinator ──┬── CoordinatorProofs ── LimitsProofs      MCCoordinator
              │                 └── FencedRegister (refined by Coordinator)
              └── Publisher
Coordinator, Publisher ── Ingestion ──── IngestionProofs                   MCIngestion
                          (IngestionProofs also uses CoordinatorProofs)

TraceAdmission ──┬── TraceAdmissionProofs               MCTraceAdmission
                 └── TraceQuota (refined by TraceAdmission)

NodeBinding ──┬── NodeBindingProofs ── NodeLimitsProofs
              └── BindingPromise (refined by NodeBinding)

TraceClient ── TracePanel ── TracePanelProofs

IncidentSessions ──┬── IncidentSessionsProofs           MCIncidentSessions
                   └── IncidentTimeline (refined by IncidentSessions)
```

**SnapshotApi.** What both ends share: producers with their authenticated claims, the
request record (producer, epoch, sequence, Node UID it believes in, scan, capture
time, container count) and the reasons of the answers. The payload of a snapshot is
its capture time and its size. The digest that `Accept` compares covers the whole
request, so that two requests have one digest when they are equal.

**Coordinator.** `Accept` is `Refuse` (it returns before it needs the Store), or `Begin`
followed by `Commit`: `Begin` is all up to the Store call, including the first visit
to the Store in `pruneInactive`; `Commit` is the Store call and the hand-over after
it. The variable `accepting` is the call that holds `c.mu` in between, while only
`Reconcile`, `Restart` and the clock may move. `pruneRetired` runs first in every
operation, as in the code. `ReplaceAuthenticatedNodeSnapshot` and
`ReplaceNodeEvidence` keep the order of the code's checks (`SnapshotResult`,
`EvidenceResult`), the cached container count and the record limit that the two
kinds of evidence share.

**FencedRegister.** The promise of ingestion with no maps, sequences or epochs: each
stream is a register with one writer, a displaced writer is fenced, and the evidence
of one Node does not go back in time.

**Publisher.** One call of `Publish` per producer with its retries; `net` holds every POST
for good, so that each may arrive late or again. `StartContainer` is a new, empty
publisher in the same Pod. *What it abstracts.* The schema of a snapshot: `Publish` negotiates its
version with the epoch and reads the epoch once more when a collector of another version answers
(`publisher.go:90`, `:107-113`). Versions are not modelled, so that this refresh is absent; it costs one request more and
is followed by the same POST as the refresh after a conflict, which is modelled.

**Ingestion.** Composes the two with the cluster (Nodes created and deleted), the probe
(a listing is taken at one moment and reconciled at a later one, or fails) and the
answers, which reach a call only while it waits for that very request. A Pod keeps the
Node UID of its claims; what an agent reads from its environment may be the UID of
the Node that now has the name.

**TraceAdmission.** Each handler is a process `<<kind, session>>`, `pc` says where it is,
and each section under `m.mu` is one action. Whatever is decided outside (authority,
the Node's answer, a deadline on a context) is a choice. The expiry loop is `sweep`,
`SweepEntry`, `SweepDone`, `Drain` and `FinalSweep`. An entry is removed by `Confirm`
alone. Time is not a number: a deadline has passed or it has not (`expired`), and a
retry is due or it is not (`backoff`). The history variables `accepted`,
`terminated` and `cleaned` are the audit records that were emitted. `work` is the
Node's side, by the contract of `Binder` and `Binding`: a Bind whose answer was lost
may have begun work, and work may end by itself. The sections between two unlocks
that only read are not steps of their own.

**TraceQuota.** The promise of admission: work only under a held slot of every quota, and
a slot returned only with the work gone.

**NodeBinding.** The controller's `Client` and bindings (`Bind`, `BindUnanswered`,
`Revalidate`, `OpenStream`, `Close`), the network (`net`), and the sequence of processes of
one Node, each with its service. A section under `s.mu` is one step; `bind` keeps the
mutex through `preflight` and is therefore `BindBegins`, the variable `binder`, and `BindEnds`,
with all that needs the lock waiting. `prune`, `stopLease`, `closeHandle` (`Release`) and
`nextExpiry` are operators on a `Service`, and every handler that prunes first does so in
its own step. A stream is `StreamArrives`, the time in `preparing`, then `activate` or
`PrepareFails`; what became of an engine is in its lease (`running`, `cancelled`, or `lost`
after a panic) and in `work`. `Schedule`, `Woken`, `Fires` and `Drains` are the expire loop with its timer
and its wake channel. A confirmed `Close` is an answer of `Delete` or of `finish`. `past` is a
history variable.

A preview (`inspectTarget`) asks (`PreviewBegins`), holds a handle of its own
(`PreviewResolves`), and closes it or reports that it could not (`PreviewEnds`). No lease stands
for that handle, and `Refuses` does not count it.

*What it abstracts.* The owner of a lease is not compared, because identifiers are random
and known to one controller.

**BindingPromise.** What the controller relies on: a session's engine starts once at most, and
never runs after a confirmation. This is what `TraceAdmission` takes for granted in its
contract of `Binder` and `Binding`.

**TraceClient.** `Session` as a record, the sections under its mutex as operators (`Cancel`,
`beginCancellation`, `Created`, `finish`), and its goroutines as steps: `task` says where
`run`, the goroutine of `Cancel` or a preparation is, `delete` where the shared DELETE
is. The controller is external and may do all that `TraceAdmission` lets it.

**TracePanel.** The callers of it: the panel with its selections and the messages of its
commands, its exit (`Quit`, `shutdownTrace`, `ShutdownDeadline`), and the command that attaches to an admission. A
behaviour is a process of the one or of the other.

**IncidentSessions.** A request that holds a slot of the gate is a record that says how
far it is; each section of the store is a step that takes effect at its last look at the contexts (a
stop that comes later is one after the section, because the sweeper needs the same
lock). `commit` is `add` for the entries that an operation commits together: all or none. `prune`
goes first wherever the code prunes, and `NotFound` drops an expired record for whoever
asks. *What it abstracts.* `size` stands for the encoded bytes and for the JSON tokens, which
have a limit and a reserve each; the entry that closes a session is assumed to be no
larger than an entry may be; an identifier of 128 random bits is never drawn twice. `Append` has
no request identifier in the code: a client that retries adds two entries, and so does the model.

**IncidentTimeline.** The promise: one log per session, opened once with a fixed end of
life, extended by whole groups until it is closed, gone for good once it is forgotten.

The MC modules hold the values of the constants, nothing else. Definitions whose
comment begins with *Mutation of* are plausible defects of the definition that
follows them; no specification uses them. Each checked property fails when one of
them takes the place of the definition.

## 3. Runs

| Run | Question | Result |
|---|---|---|
| `coordinator` | Do the identity maps, limits, fences and evidence of the Coordinator and the Store hold for requests that arrive in any order? | holds |
| `delivery` | Does a `Publish` that succeeded mean that the snapshot was kept, and does a fence keep late copies out? | holds |
| `recreated` | Is evidence of a recreated Node always dropped? | **violated** |
| `live_stream` | Does capacity pruning spare live streams? | **violated** |
| `replay` | With the default durations, is an accepted request never stored again? | **violated** |
| `trace_quotas` | Are quotas and records kept, and is work always held by a charged entry? | holds |
| `trace_liveness` | Are cleanup and consumer exclusive and confirmed ends true, and do entries go, requests return and shutdown end? | holds |
| `node_binding` | Does a Node run a session once at most and never after a confirmed cleanup, over its processes? | holds |
| `node_expiry` | Is every handle of a Node counted or reported, does everything go without the controller, and is nothing left by a shutdown? | holds |
| `handles` | Does a Node hold no more handles than its limit? | **violated** |
| `trace_panel` | Is what the operator is told true, and does every session end? | holds |
| `incident_sessions` | Do the limits, the shutdown and the log of incident sessions hold for calls that interleave? | holds |

**`coordinator`** has five producers: two Pods that follow each other on a Node, one on the
Node recreated under that name, a node-context producer beside the first, and one
alone on a second Node. Two identities may be active and two fenced, one Node record
and two containers may be held, so that every limit is met. Requests of a set chosen
so that capture times are free of sequences may arrive at any time and any number of times.
The clock has three instants, with the TTLs at one or two of them, which suffices to be
before, at and after each. Two epochs give one restart. `TypeOK`, `OwnersMatchAgents`,
`RetiredAreInactive`, `OwnerStaysCurrent`, `WithinLimits`, `ContextsMatchInventory`,
`EvidenceMonotone`, `NoReclaimWithinTTL` and the refinement `ImplementsRegister`.

**`delivery`** adds the publishers: a Pod with two scans, its replacement with one, lost
and late answers, container restarts that begin again with an empty publisher, and a
collector restart. `AckedWasStored` says that for each success the Store took a
snapshot of that Node of that very instant in that process. `StoredApart` says that nothing the
Store took is stored a second time by one process before `RetiredTTL` has passed: until then its sequence is behind its
stream's or its Pod is fenced. Fence and age are one instant long here and the clock has two, so that a copy does
outlive a fence and is stored again when it may be. One listing or restart of the collector happens in a
behaviour (`MaxProbes` bounds them together), at any moment and arbitrarily late; no Node is recreated.

**`replay`** asks for more, as the documents do. `docs/security/authentication-and-authorisation.md:146` accepts a
snapshot only if "The sequence is greater than the last accepted sequence for that Pod UID.", TM-015
of the threat model (`docs/security/KubeMemLens-threat-model.md:177`) answers the replay of a captured request with a "strictly increasing
sequence per authenticated Pod UID; bounded capture time", and
`docs/adr/0004-use-kubernetes-aggregation-for-authentication.md:41` says that the collector rejects a "duplicate
sequence, lower sequence". But the Coordinator forgets the sequence of a Pod that it fences, and the fence after
a constant two minutes (`coordinator.go:81`), while a capture is acceptable for two minutes by default
(`server.go:31`, the flag `--max-snapshot-age`) after a time that may be thirty seconds ahead (`server.go:32`).
The run has these defaults with thirty seconds to an instant: fence and age 4, skew 1, one Node whose clock
is one instant ahead, two Pods that follow each other with one scan each, one listing. TLC finds that
the first Pod's snapshot is stored, the second Pod takes the stream over with a capture of the same instant, a
listing taken before the Node existed drops the record (`ReconcileNodeIdentities`), the fence expires, and a
copy of the first request is stored again. (45 s of freshness of the inventory are two instants in the run; with one instant
the trace is the same.) The third step matters: as long as the Store holds evidence of that Node, its order by capture time
(`EvidenceMonotone`) keeps the copy out. `authentication-and-authorisation.md:150` says that a
replaced Pod is denied for two minutes; that its captures may stay acceptable for longer it does not say. What the
mechanism does guarantee, whatever the durations, is `StoredApart`, and it is proved (4.2).

**`recreated`** shows a disagreement with a comment. `ReconcileNodeIdentities`
(`node_identity.go:30`) drops cgroup evidence when the name left the inventory or when
the *previous inventory* had another UID. Evidence that was accepted while the name was
not listed is not compared with anything, and stays when the first listing shows the
recreated Node, although the comment at `node_identity.go:9` says that a recreated
name invalidates both sources.

**`live_stream`** shows another: `pruneInactive` fences each producer whose Node the
inventory does not list, and an inventory that is called fresh may be 45 seconds old.
A new Node's producer is accepted before it is listed, and may then be fenced for
two minutes, while the comment at `producer_retirement.go:8-9` says that a fresh inventory retires
identities "without resetting another live stream".

**`trace_quotas`** has two sessions of different principals on one Node with room for one, one of
them streamed and the other read, an audit sink that may fail at any moment and a shutdown at any moment.
`WithinQuota`, `WorkIsHeld`, `AuditTrail` and the refinement `ImplementsQuota`. The limit of the Node is the one
that binds: it is looked at in a section of its own (`assignNode`), long after the reservation. The
other three are compared in `reserve` under one lock, and `QuotasKept` proves all four.

**`trace_liveness`** has one session that is claimed, cancelled and hung up at once (the `AfterFunc` of the client's
context), expires and is swept, with a Node that may fail to confirm and a bind whose answer may be lost. The audit
sink works: when it fails, `trace_quotas` says what is kept. `CleanupIsExclusive`, `ConfirmedMeansGone`, `ClosingIsFinal`, and
under fairness `EntriesAreRemoved`, `RequestsReturn`, `ShutdownEnds`. Two sessions would add contention for quotas only,
which no handler waits for: a request without room is refused.

**`node_binding`** has one session of a Node with two processes, the second of which serves when the
first has been told to stop or is dead. All calls of the controller but previews, a copy of the bind and of the stream request, lost and
late requests and answers, a handle that may fail to close, a panic and a crash. `Pending` is 2
and `Duration` 1 of the three instants, so that a run's deadline may come before or
after the lease's first expiry. `EngineHoldsHandle`, `BoundAgain` and the
refinement `PromiseKept`. One session suffices for them: sessions share only the
limits. `BoundAgain` says less than the comment at
`service.go:51-52` ("never evicts a live nonce") and `docs/ebpf/ADMISSION.md:158-159`:
`activate` shortens the replay record to the deadline of the run (`activation.go:60`), so that a
copy of the bind that arrives between this deadline and the expiry it names makes a second lease. Its
engine never starts, as `PromiseKept` shows, because the binding asks for one stream only. A late
bind after a confirmed DELETE makes an idle lease as well, which expires.

**`node_expiry`** has two sessions and a preview that compete for one lease and two replay records, with
streams only: nothing is deleted, so that whatever goes goes by the timer. `HandlesAccounted` says that the leases' handles, those that
failed to close counted, and the replay records stay within their limits, and that there is no other handle but
that of a preview under way, or the service reports a failed release. `StoppedOwnsNothing` looks at what a shutdown leaves behind;
`RecordsExpire` and the `ShutdownEnds` of a service except a service one of whose engines was lost in a panic, which the code keeps for good.

**`handles`** asks of the same instance what the comment of `NewService` says (`service.go:51`: "NewService owns at most two handles
and 256 unexpired replay records") and `docs/ebpf/ADMISSION.md:163-164` repeats ("an independent hard ceiling of two handles").
`inspectTarget` resolves a handle of its own (`preflight.go:81`) and looks at neither the leases nor a limit but that of one
preview at a time, so that a service whose leases are taken holds one handle more while it inspects a target, and for
good when the Close of that handle fails (`preflight.go:86`; the service binds nothing any more then).

**`trace_panel`** has two selections of the panel, or one command on an admission that is pending or
active. `ReportsAreTrue`, `DoneIsQuiet`, `RevokedNeverCreates`, `SessionsEnd`. Three things that
it shows are worth knowing and break no promise: a `Create` given up after its POST may
leave an admission, reported as an unconfirmed cleanup and left to its expiry;
`shutdownTrace` waits for and reports the current session only; and a revocation while a preparation is under way
leaves `loading` set (`trace_panel.go:130` returns before it is reset), so that
nothing can be selected any more until the program is started again.

**`incident_sessions`** has two identifiers, two operators of a Namespace each (one may do everything, the
other create and append) and the two slots of the gate. Every limit is met: one session
per Namespace, four entries, five bytes with one reserved, one capture. (Of two Namespaces with one session each there are never more than
two, so that the overall limit of two sessions does not bind by itself in this run; `SessionLimitsHold` proves it for all values.) Time has three instants
and a session lives for one. `LimitsHold`, `ShutdownForgets`, `ImplementsTimeline`.
The slots are symmetric; all three are safety properties, for which TLC's reduction is
sound.

Deadlock is not checked in the runs of `NodeBinding`, `TracePanel` and `IncidentSessions`: in each the clock or the selections end, and
a session that is over has nothing left to do.

A session identifier is drawn at random and never used again, so each session is
admitted at most once in a run; a second admission on the same quota is the second
session. Deadlock is checked in the runs of `TraceAdmission`, where the one state without a
successor (`Finished`, after `Close`) stutters explicitly. It is not checked in the ingestion runs,
whose clock, epochs and scans end at the bounds of the model.

### Fairness

`trace_liveness` assumes, in its `FairSpec`:

* weak fairness of each handler and of the loop: the code bounds every wait of a handler by a
  context (one second for cleanup, the operation's timeout otherwise) and never holds `m.mu` while it
  waits, so that a goroutine with something to do does it;
* weak fairness of deadlines and of retry times, which are timers;
* strong fairness, for each session, of the Node confirming a `Close`. It may fail any
  number of times, but not for ever when it is asked again and again. Without it an
  unreachable Node keeps its entry and its quota, as the code intends;
* none of clients, of the audit sink or of the end of work by itself.

`node_expiry` (and `node_binding`, which uses the same `FairSpec`, for safety only) assumes, for each process of the
Node, weak fairness of time, of the expire loop, of the end of a bind or a preview (bounded
by their contexts) and of `finish` once the engine's context is over (the engine's teardown is bounded); and strong
fairness of `Drains`, because the loop's `select` chooses at random when both the timer or
a wake-up and the stop are ready, so that the stop is not passed over for ever. Nothing is asked of the
controller or the network.

`trace_panel` assumes weak fairness of each session's goroutines: every wait of theirs is bounded by a
timer of the client (five seconds for a preflight, a Create and a DELETE, the duration of the trace
and two more for a stream). Nothing is asked of the controller, the panel's user or the network.

## 4. Proofs

### 4.1 The Coordinator

`CoordinatorProofs` proves, for any set of producers, Nodes and requests and any limits that
satisfy the named assumptions (`ClaimsAssumption`: a Node UID belongs to one name,
and `None` is none of the values; `RequestAssumption`; `LimitsAssumption`; and, for the refinement,
`EvidenceAssumption`: no evidence is the absence of evidence):

| Theorem | Property |
|---|---|
| `TypeCorrect` | `TypeOK` |
| `OwnershipConsistent` | `OwnersMatchAgents` |
| `FencedAreInactive` | `RetiredAreInactive` |
| `LookupHolds` | `OwnerStaysCurrent` |
| `ContextsFollowInventory` | `ContextsMatchInventory` |
| `NoEarlyReclaim` | `NoReclaimWithinTTL` |
| `EvidenceNeverRegresses` | `EvidenceMonotone` |
| `RegisterImplemented` | `ImplementsRegister` |
| `LimitsKept` (in `LimitsProofs`) | `WithinLimits` |

The inductive invariant `CInv` is the conjunction of the first five. `OwnersMatchAgents` is not inductive
alone: `Commit` deletes the entries of an owner that `Begin` looked up, and the
maps agree afterwards only when that owner is still the right one (`OwnerStaysCurrent`).
That, in turn, needs the maps to agree and fenced producers to be inactive, so that the newcomer
which `Begin` let pass has not been fenced while it was in the Store. It holds because
everything that changes the maps takes `c.mu`: the lemmas `PruneStep` and `ReconcileStep` show that
what can interleave leaves them alone, and `HandOverStep` that the hand-over
re-establishes them. The two action properties follow from `CInv` by cases on the step.

*The refinement.* The writer of a stream is whichever active producer posts to it, so `WriterFact` shows first
that `OwnersMatchAgents` leaves one at most. A step that prunes is a `Refence`, a reconciliation an `Erase`, a
restart a `Reset`, and an accepted `Commit` a `Write`: its displaced owner is the register's writer because `Begin` looked it up
by the stream (`OwnerStaysCurrent`), and its value is not older than what the register
holds because the Store has compared them. A refused `Commit` and the clock are stutters.

*The limits* (`LimitsProofs`). `LInv` adds to `CInv` that the sets counted are finite, which nothing assumes
of the producers or the Nodes, and that what `Begin` let pass still fits when it commits (`IdentitiesFit`): pruning
and capacity are looked at in the first section and the maps grow in the second. The container count
is the sum of the records (`StoreFits`), by lemmas about sums over finite sets: a sum is independent of the order
in which it is taken, grows by what is added and shrinks by what is dropped. Induction over data is
not available to the provers, so each of these is shown on a minimal finite set for which it would fail (`Minimal`,
from the well-foundedness of strict subsets).

### 4.2 The whole of ingestion

`IngestionProofs` proves of `Ingestion`, for any Pods and Nodes, snapshots, clocks and copies in the network,
under the assumptions above and `PublishersAssumption` (offsets of clocks are integers, sizes
and numbers of snapshots are natural numbers, the collector has an epoch, and all that can be sent is in `Request`):

| Theorem | States |
|---|---|
| `IngestionTypeCorrect` | `IngestionTypeOK` |
| `CollectorImplemented` | `Spec => CSpec` |
| `SystemImplementsRegister` | `ImplementsRegister` |
| `AckedAlwaysStored` | `AckedWasStored` |
| `StoredAlwaysApart` | `StoredApart` |

*Types and the collector.* `CollectorImplemented` says that each step of the system is a step of the Coordinator or
leaves it alone. So everything proved of `CSpec` holds of the system, as `SystemImplementsRegister` does at once for
the register. Its invariant is `IInv`. A publisher adopts the sequence that the collector tells it (`lastSequence`),
the collector has it from a request, and that request from a publisher: to see that the numbers do not run
away, and that what is sent is in `Request`, `IInv` bounds all three by the snapshots that the Pod has taken, less the
one that still waits for its first epoch (`Posted`). Steps of a publisher go through one lemma (`MovesStep`),
answers through another (`AnsweredStep`).

*Acknowledged.* `SInv` follows a success back to the Store. The answer on its way to a call that waits, the last
request of a stream (whose repetition is answered "duplicate") and the record with which `Unchanged` compares are all
of something that was stored in the process whose epoch they carry. What an earlier process stored is lost with it,
but what was acknowledged then was stored then, and `applied` remembers it.

*Stored apart.* `OInv` says of every request that this process has stored that it is `Spent`: its stream has reached
its sequence, or its producer is fenced for `RetiredTTL` from the time at which it was stored (`storedAt`) at least, or that time is
over. The call that holds `c.mu` is ahead of its stream (`AcceptingAhead`) and its producer is not fenced (`OwnerStaysCurrent`), so
that nothing spent is committed before its time (`SpentNotStored`). The theorem has no hypothesis on durations or clocks. What
the documents say, `AppliedOnce`, does not follow from it, and is false of the defaults (`replay` in section 3): the age at which a
capture is refused does not enter into how long its sequence is remembered.

### 4.3 Trace admission

`TraceAdmissionProofs` proves every safety property of `TraceAdmission` that its runs check,
for any sessions (finitely many or not), any owners, namespaces and Nodes of theirs, any
requests and any positive limits. The assumptions are `PolicyAssumption` and
`NoneAssumption` (an absent map entry is not an entry).

| Theorem | Property |
|---|---|
| `TraceTypeCorrect` | `TypeOK` |
| `WorkAlwaysHeld` | `WorkIsHeld` |
| `CleanupAlwaysExclusive` | `CleanupIsExclusive` |
| `ConfirmedAlwaysGone` | `ConfirmedMeansGone` |
| `AuditTrailKept` | `AuditTrail` |
| `ClosingStaysClosing` | `ClosingIsFinal` |
| `QuotasKept` | `WithinQuota` |
| `QuotaImplemented` | `ImplementsQuota` |

The inductive invariant is `TInv`. Its heart is `Alone`: until `Admit` has answered, no
other handler and no sweep works on the session, because clients do not know its
identifier (`Known`) and `sweep` passes over an entry that is still `initializing`
(`Initializing`). Without it a handler could remove the entry under `Admit`, whose later
steps write to it, and `WorkIsHeld` would not survive them. `ClosersMarked` says that whoever closes an entry has marked it or
finds it gone; hence `Claim`, which needs an admitted entry, can never put a consumer under a
cleanup, and `CleanersHold` (at most one cleaner, which holds `cleanupRunning`) is
kept. `ConfirmedGone` and `Recorded` follow answers and records back to the
step that allowed them. `Fresh` says that an identifier which has not been drawn left no trace.

Most steps move one handler and only *soften* entries (mark them, let them expire, end a
consumer): the lemma `SoftStep` deals with all of them at once, `AdmitFrame` with what a
step of `Admit` leaves alone, and the steps that start or end a cleanup, claim a session or
finish an admission have lemmas of their own. The quotas add `QuotaHeld`: only `reserve`
adds an entry and only `assignNode` places one (`EntryChanges`), each after counting
under the same lock, so the cardinality lemmas `Fewer` and `OneMore` suffice. The refinement maps
each step by what it does to `Entries` and to the work (`StepSeen`).

### 4.4 Node binding

`NodeBindingProofs` and `NodeLimitsProofs` prove, for any leases, any processes of a Node and all limits that satisfy `NodeAssumption`
and `NoneAssumption`:

| Theorem | Property |
|---|---|
| `NodeTypeCorrect` | `TypeOK` |
| `HandleOutlivesEngine` | `EngineHoldsHandle` |
| `StoppedAlwaysEmpty` | `StoppedOwnsNothing` |
| `NeverBoundAgain` | `BoundAgain` |
| `PromiseImplemented` | `PromiseKept` |
| `NodeWithinLimits` | `HandlesAccounted` |

The inductive invariant is in two halves. `NInv` adds to the types `Sound`, which concerns one process
at a time: leases have handles, engines have leases, leases have replay records, a bind
under way has its record and no lease, a preview whose handle did not close is reported. It gives the first three theorems. `Wired` concerns what is still on its way: a request
goes to the process its binding is bound to (`Addressed`), all streams of a session are copies of one (`AlikeOf`), and
what arrives at a process that has seen it comes too late (`Late`): the replay record is there, or the
request's time is over. The last is what makes a copied bind and a stream after a confirmed DELETE harmless. `Late` needs
the record of a bind to outlive the request, while the record of a run may be shorter: hence its two
cases. `NextMoves` shows once that each step is of one of eight forms (`Calm`, `Confirms`, `Asks`, `Binds`,
`Opens`, `Takes`, `Keeps`, `Begins`, or no change); each form keeps `Wired` by a lemma of its own, and the action
property and the refinement follow from the forms without looking at the actions again.

The limit on handles is not in the code as such: `Refuses` counts leases, while what is bounded are the leases' handles,
those whose release failed included. They agree as long as no release has failed (`Handles`), and after a failure
nothing is bound any more. `Bounded` counts the bind under way as well, because its handle may stay open although it never
becomes a lease; `NextGrows` says of each step how it may add to what a service owns. The handle of a preview is outside
this argument, as it is outside the code's: `HandlesAccounted` bounds the others and says that it is under way or reported, and
`handles` in section 3 shows that the bound in the comment does not hold with it.

### 4.5 Trace client and panel

`TracePanelProofs` proves, for any number of selections and any commands, under `AttachedAssumption` and
`CallersAssumption`:

| Theorem | Property |
|---|---|
| `PanelTypeCorrect` | `TypeOK` |
| `ReportsAlwaysTrue` | `ReportsAreTrue` |
| `DoneAlwaysQuiet` | `DoneIsQuiet` |
| `RevocationHolds` | `RevokedNeverCreates` |

The inductive invariant `PInv` is `SessionsSound` (which tasks go with which states, and what a
session's record implies of the controller) and `PanelSound`: of the panel's sessions all but that of the
current selection are new or at their end. That is why a message of an old selection
can only be cancelled and never started, and why two sessions are never busy at once.

### 4.6 Incident sessions

`IncidentSessionsProofs` proves, for any principals, Namespaces, slots, identifiers, policy and limits that
satisfy the named assumptions:

| Theorem | Property |
|---|---|
| `SessionsTypeCorrect` | `TypeOK` |
| `SessionLimitsHold` | `LimitsHold` |
| `ShutdownAlwaysForgets` | `ShutdownForgets` |
| `TimelineImplemented` | `ImplementsTimeline` |

The inductive invariant `IInv` is `TypeOK`, `RecordsWell` (each record within its limits, with the reserve of
an open one), `Populated` (how many there are), `Ended` and `Named` (a request under way names a session). `LimitsHold` is
not inductive: an open record must have the room of its last entry *before* it is closed. `StepSeen` shows that
a step loses records, writes one or opens one, and the theorems follow from which.

### 4.7 Only model-checked

Every safety property that a passing run checks is proved. The liveness
properties (`EntriesAreRemoved`, `RequestsReturn`, the two `ShutdownEnds`, `RecordsExpire`, `SessionsEnd`) need
fairness and are out of the prover's reach: they stay with TLC. So do the four violations, which are counterexamples.

## 5. Not modelled, and why

Payloads, formats, authentication, delegated authorisation and TLS are left out: an
authorisation check appears as a choice where its outcome changes state. Rate limits refuse a
request before anything else happens, as a lost request does. Telemetry and metrics are left out.

* **History, continuity, volume evidence** are updated inside the Store section that is
  modelled, but no modelled decision depends on them. Their hazards are sums of bytes and ring
  bounds of one sequential section.
* **Pagination and reads** are projections of the store; a cursor is data in a token.
* **Worker process, session output**: to the node binding they are an engine that ends
  some time after its context, to the client a stream that ends in any way. Their own
  protocol (pipes, a flush timer, an output that closes under late callbacks) is the next to model.
* **Audit writer**: a queue of 64 before a blocking writer. `TraceAdmission` knows that a record may
  fail and latches; how it fails is not told apart.
* **The trace controller's preflight inspection** changes no session; at the Node it is the preview.
* **Most of the program's lines** are formats, command-line and terminal output, parsers of kernel files, charts,
  generators and analysis of evidence. They keep no state between calls, and what can be wrong
  in them is not a matter of order. The specifications cover a small share of the repository for that reason.

Everything else that is absent is in the table of 1.4.

## 6. Plan

1. **Theorems**: what the first two disagreements leave true, such as which evidence a listing does drop and which producers
   pruning does spare (`StoredApart` and `HandlesAccounted` do this for the other two).
2. **TraceControl**: `TraceAdmission` over `NodeBinding` in place of its contract. `PromiseKept` and `WorkIsHeld` state the
   two sides of that interface today, each in its own module.
3. **Worker and output** (`prototype/trace/workerprocess`, `internal/tracesession`), and the queue of the audit writer.
4. **Store limits in bytes**: history and volume evidence beside `WithinLimits`, and pagination
   as an operator checked against its definition.
