--------------------------- MODULE TraceAdmission ---------------------------
(***************************************************************************)
(* The trace controller's traceadmission.Manager: admission of a bounded   *)
(* trace session, its one-consumer claim, cancellation, expiry, cleanup    *)
(* and shutdown.                                                           *)
(*                                                                         *)
(* A session is a random identifier that reserve draws, so it is admitted  *)
(* at most once, and nobody can name it before Admit has answered.  Each   *)
(* handler is a process and each section under m.mu a step; what happens   *)
(* between two sections (authorisation, the node's answers, the audit      *)
(* sink) may come out either way.  Time is only what the code compares:    *)
(* whether a deadline has passed, and whether a retry is due.              *)
(*                                                                         *)
(* The node is external here: the contract of Binder and Binding.  A Bind  *)
(* whose response is lost may have begun work; a Close that the node       *)
(* confirms ended it.                                                      *)
(***************************************************************************)
EXTENDS Naturals, FiniteSets

CONSTANTS
  Session,
  OwnerOf, NamespaceOf, NodeOf,                \* of the request behind a session
  Global, PerPrincipal, PerNamespace, PerNode, \* Policy
  Call,         \* the requests a client makes: pairs of a kind and a session
  AuditMayFail, \* a bound of the model: whether the audit sink may fail
  None

ASSUME PolicyAssumption ==
  /\ Global \in Nat \ {0} /\ PerPrincipal \in Nat \ {0}
  /\ PerNamespace \in Nat \ {0} /\ PerNode \in Nat \ {0}
  /\ Call \subseteq {"get", "delete", "stream", "hangup"} \X Session
  /\ AuditMayFail \in BOOLEAN

VARIABLES
  entries,      \* m.entries
  admitted,     \* sessions whose entry carries a result
  stopping,     \* m.ctx is done
  loop,         \* where expiryLoop is
  ready,        \* what sweep has left to close
  shutdownErr,
  auditFailed,  \* the latch that no record is emitted after
  accepted, terminated, cleaned,  \* sessions whose accepted create, terminal and
                                  \* confirmed cleanup records were emitted
  pc,           \* where each handler is; "ok" and "refused" are its answer
  inflight,     \* handlers counted by m.inflight
  work          \* the session's work on its node

managerVars == <<stopping, loop, ready, shutdownErr>>
auditVars   == <<auditFailed, accepted, terminated, cleaned>>
vars == <<entries, admitted, managerVars, auditVars, pc, inflight, work>>

\* sweep is the expiry loop closing one entry; hangup is the AfterFunc that a
\* claim registers on the context of its HTTP request.
Process == {"create", "get", "delete", "stream", "hangup", "sweep"} \X Session

Stage == {"pending", "admitted", "active", "closing"}

Entry == [stage : Stage, initializing : BOOLEAN,
          placed : BOOLEAN,           \* nodeUID is set
          expired : BOOLEAN,          \* expires has passed
          binding : BOOLEAN,          \* binding is not nil
          cleanupRunning : BOOLEAN,
          backoff : BOOLEAN,          \* retryCleanup is still to come
          consumerRunning : BOOLEAN]

\* The absent map entry is no entry.
ASSUME NoneAssumption == None \notin Entry

Position ==
  {"idle", "resolving", "binding", "validating", "admitted", "failed",
   "owned", "claimed", "streaming", "discarding", "closing", "joining", "joined", "cleaning",
   "confirmed", "unconfirmed", "ok", "refused"}

TypeOK ==
  /\ entries \in [Session -> Entry \cup {None}]
  /\ admitted \subseteq Session
  /\ accepted \subseteq Session /\ terminated \subseteq Session /\ cleaned \subseteq Session
  /\ stopping \in BOOLEAN /\ shutdownErr \in BOOLEAN /\ auditFailed \in BOOLEAN
  /\ loop \in {"waiting", "sweeping", "draining", "closing", "stopped"}
  /\ ready \subseteq Session
  /\ pc \in [Process -> Position] /\ inflight \subseteq Process
  /\ work \in [Session -> {"none", "asked", "running", "gone"}]

\* m.closed is set when the loop leaves for good.
closed == loop \in {"draining", "closing", "stopped"}

Entries == {s \in Session : entries[s] # None}
Expired == {s \in Entries : entries[s].expired}
Stages(s) == IF entries[s] = None THEN "none" ELSE entries[s].stage

Goto(p, l) == pc' = [pc EXCEPT ![p] = l]
\* Mutation of Answer: m.inflight.Done is not called.
AnswerWithoutDone(p, l) == Goto(p, l) /\ UNCHANGED inflight

Answer(p, l) == Goto(p, l) /\ inflight' = inflight \ {p}

(***************************************************************************)
(* Closing an entry: discardContext and closeEntry, run by every handler   *)
(* that gives a session up.                                                *)
(***************************************************************************)
MarkClosing(S) ==
  [s \in Session |-> IF s \in S \cap Entries
                     THEN [entries[s] EXCEPT !.stage = "closing"] ELSE entries[s]]

\* closeEntry returns to its caller.  Only a cancellation answers with it, and
\* only when the cancellation itself could be recorded; the last sweep collects it.
CloseReturns(p, ok) ==
  /\ pc' = [pc EXCEPT ![p] =
       CASE p[1] = "sweep"  -> "idle"
         [] p[1] = "delete" -> IF ok /\ ~auditFailed THEN "ok" ELSE "refused"
         [] OTHER           -> "refused"]
  /\ inflight' = inflight \ {p}
  /\ IF p[1] = "sweep"
     THEN /\ ready' = ready \ {p[2]}
          /\ shutdownErr' = (shutdownErr \/ (loop = "closing" /\ ~ok))
     ELSE UNCHANGED <<ready, shutdownErr>>
  /\ UNCHANGED <<stopping, loop>>

Discard(p) ==
  LET s == p[2] IN
  /\ pc[p] = "discarding"
  /\ \/ /\ entries[s] = None
        /\ CloseReturns(p, TRUE)
        /\ UNCHANGED entries
     \/ /\ entries[s] # None
        /\ entries' = MarkClosing({s})
        /\ Goto(p, "closing")
        /\ UNCHANGED <<managerVars, inflight>>
  /\ UNCHANGED <<admitted, auditVars, work>>

\* Mutation of MayClean: does not wait for the consumer.
MayCleanUnderConsumer(e) == ~e.cleanupRunning /\ ~e.initializing

MayClean(e) == ~e.consumerRunning /\ ~e.cleanupRunning /\ ~e.initializing

\* One look at the entry: it is gone, it still has a consumer or another cleanup
\* to wait for, Admit still holds it, or this handler cleans it up.
closeEntry(p) ==
  LET s == p[2]
      e == entries[s]
  IN
  /\ pc[p] = "closing"
  /\ \/ /\ e = None
        /\ CloseReturns(p, TRUE)
        /\ UNCHANGED entries
     \/ /\ e # None
        /\ \/ e.consumerRunning   \* the one second of ctx is over
           \/ ~e.consumerRunning /\ ~e.cleanupRunning /\ e.initializing
        /\ CloseReturns(p, FALSE)
        /\ UNCHANGED entries
     \/ /\ e # None
        /\ ~e.consumerRunning /\ e.cleanupRunning
        /\ Goto(p, "joining")
        /\ UNCHANGED <<entries, managerVars, inflight>>
     \/ /\ e # None
        /\ MayClean(e)
        /\ entries' = [entries EXCEPT ![s].cleanupRunning = TRUE]
        /\ Goto(p, "cleaning")
        /\ UNCHANGED <<managerVars, inflight>>
  /\ UNCHANGED <<admitted, auditVars, work>>

\* Mutation of Joined: takes the end of another cleanup for its success.
JoinedWithoutLooking(p) ==
  /\ \/ pc[p] = "joined" /\ CloseReturns(p, TRUE)
     \/ pc[p] = "joining" /\ CloseReturns(p, FALSE)
  /\ UNCHANGED <<entries, admitted, auditVars, work>>

\* cleanupDone was closed, or the second of ctx is over.
Joined(p) ==
  /\ \/ pc[p] = "joined" /\ CloseReturns(p, entries[p[2]] = None)
     \/ pc[p] = "joining" /\ CloseReturns(p, FALSE)
  /\ UNCHANGED <<entries, admitted, auditVars, work>>

\* The owner of the cleanup goes on to l and wakes whoever joined it.
CleanupDone(p, l) ==
  pc' = [q \in Process |-> IF q = p THEN l
                           ELSE IF q[2] = p[2] /\ pc[q] = "joining" THEN "joined"
                           ELSE pc[q]]

\* Mutation of Confirm: leaves a spent entry in the map.
ConfirmKeepsEntry(p) ==
  LET s == p[2] IN
  /\ pc[p] = "cleaning"
  /\ work' = [work EXCEPT ![s] = IF entries[s].binding THEN "gone" ELSE work[s]]
  /\ entries' = [entries EXCEPT ![s].stage = "closed", ![s].cleanupRunning = FALSE]
  /\ CleanupDone(p, "confirmed")
  /\ UNCHANGED <<admitted, managerVars, auditVars, inflight>>

\* Without a binding there is nothing to confirm.
Confirm(p) ==
  LET s == p[2] IN
  /\ pc[p] = "cleaning"
  /\ work' = [work EXCEPT ![s] = IF entries[s].binding THEN "gone" ELSE work[s]]
  /\ entries' = [entries EXCEPT ![s] = None]
  /\ CleanupDone(p, "confirmed")
  /\ UNCHANGED <<admitted, managerVars, auditVars, inflight>>

\* Mutation of Unconfirmed: deletes the entry whatever the node answered.
UnconfirmedDeletes(p) ==
  /\ pc[p] = "cleaning"
  /\ entries[p[2]].binding
  /\ entries' = [entries EXCEPT ![p[2]] = None]
  /\ CleanupDone(p, "unconfirmed")
  /\ UNCHANGED <<admitted, managerVars, auditVars, inflight, work>>

Unconfirmed(p) ==
  LET s == p[2] IN
  /\ pc[p] = "cleaning"
  /\ entries[s].binding
  /\ entries' = [entries EXCEPT ![s].cleanupRunning = FALSE, ![s].backoff = TRUE]
  /\ CleanupDone(p, "unconfirmed")
  /\ UNCHANGED <<admitted, managerVars, auditVars, inflight, work>>

\* A record joins the set of those emitted, unless the latch is set.
Emit(records, s) == IF auditFailed THEN records ELSE records \cup {s}

\* Mutation of Terminal: also for a reservation that never became a session.
TerminalAlways(s) == Emit(terminated, s)

\* A rejected reservation never became a session and has no terminal record.
Terminal(s) == IF s \in admitted THEN Emit(terminated, s) ELSE terminated

RecordCleanup(p) ==
  LET s == p[2] IN
  /\ pc[p] \in {"confirmed", "unconfirmed"}
  /\ terminated' = Terminal(s)
  /\ cleaned' = IF pc[p] = "confirmed" THEN Emit(cleaned, s) ELSE cleaned
  /\ CloseReturns(p, pc[p] = "confirmed" /\ ~auditFailed)
  /\ UNCHANGED <<entries, admitted, auditFailed, accepted, work>>

CloseStep(p) ==
  Discard(p) \/ closeEntry(p) \/ Joined(p) \/ Confirm(p) \/ Unconfirmed(p) \/ RecordCleanup(p)

(***************************************************************************)
(* Admit                                                                   *)
(***************************************************************************)
HasCapacity(s) ==
  /\ Cardinality(Entries) < Global
  /\ Cardinality({t \in Entries : OwnerOf[t] = OwnerOf[s]}) < PerPrincipal
  /\ Cardinality({t \in Entries : NamespaceOf[t] = NamespaceOf[s]}) < PerNamespace

\* The request was permitted.  A request that is refused before it holds a
\* reservation changes nothing.
reserve(s) ==
  LET p == <<"create", s>> IN
  /\ pc[p] = "idle"
  /\ ~auditFailed /\ ~stopping
  /\ HasCapacity(s)
  /\ entries' = [entries EXCEPT ![s] =
       [stage |-> "pending", initializing |-> TRUE, placed |-> FALSE, expired |-> FALSE,
        binding |-> FALSE, cleanupRunning |-> FALSE, backoff |-> FALSE,
        consumerRunning |-> FALSE]]
  /\ Goto(p, "resolving")
  /\ inflight' = inflight \cup {p}
  /\ UNCHANGED <<admitted, managerVars, auditVars, work>>

\* Mutation of StillOpen: only the manager's end is looked at.
StillOpenUnlessClosed(s) == ~closed

StillOpen(s) == ~closed /\ ~entries[s].expired

Placed(s) == {t \in Entries : entries[t].placed /\ NodeOf[t] = NodeOf[s]}

\* Mutation of HasRoom: counts what the node has, not what it will have.
HasRoomAndOne(s) == Cardinality(Placed(s)) <= PerNode

HasRoom(s) == Cardinality(Placed(s)) < PerNode

\* The workload is resolved and its node has room, so Bind is called.
assignNode(s) ==
  LET p == <<"create", s>> IN
  /\ pc[p] = "resolving"
  /\ StillOpen(s)
  /\ HasRoom(s)
  /\ entries' = [entries EXCEPT ![s].placed = TRUE]
  /\ work' = [work EXCEPT ![s] = "asked"]
  /\ Goto(p, "binding")
  /\ UNCHANGED <<admitted, managerVars, auditVars, inflight>>

\* Mutation of BindReturns: looks at the error before it keeps the binding.
BindReturnsErrorFirst(s) ==
  LET p == <<"create", s>> IN
  /\ pc[p] = "binding"
  /\ \/ /\ work[s] \in {"running", "gone"}
        /\ entries' = [entries EXCEPT ![s].binding = TRUE]
        /\ Goto(p, "validating")
     \/ Goto(p, "failed") /\ UNCHANGED entries
  /\ work' = [work EXCEPT ![s] = IF @ = "asked" THEN "gone" ELSE @]
  /\ UNCHANGED <<admitted, managerVars, auditVars, inflight>>

\* Bind returns: with a binding, with the node's refusal and none, or with an
\* error and a binding to clean up, as the node may have served the request.
BindReturns(s) ==
  LET p == <<"create", s>> IN
  /\ pc[p] = "binding"
  /\ \/ /\ work[s] \in {"running", "gone"}
        /\ entries' = [entries EXCEPT ![s].binding = TRUE]
        /\ Goto(p, "validating")
     \/ /\ work[s] = "asked"
        /\ Goto(p, "failed")
        /\ UNCHANGED entries
     \/ /\ entries' = [entries EXCEPT ![s].binding = TRUE]
        /\ Goto(p, "failed")
  /\ work' = [work EXCEPT ![s] = IF @ = "asked" THEN "gone" ELSE @]
  /\ UNCHANGED <<admitted, managerVars, auditVars, inflight>>

AdmitFails(s) ==
  LET p == <<"create", s>> IN
  /\ pc[p] \in {"resolving", "validating"}
  /\ Goto(p, "failed")
  /\ UNCHANGED <<entries, admitted, managerVars, auditVars, inflight, work>>

\* Everything was validated again: the entry is admitted.
Admit(s) ==
  LET p == <<"create", s>> IN
  /\ pc[p] = "validating"
  /\ StillOpen(s)
  /\ entries' = [entries EXCEPT ![s].stage = "admitted"]
  /\ admitted' = admitted \cup {s}
  /\ Goto(p, "admitted")
  /\ UNCHANGED <<managerVars, auditVars, inflight, work>>

\* The deferred end of Admit: the create record, then finishAdmission's section.
finishAdmission(s) ==
  LET p == <<"create", s>> IN
  /\ pc[p] \in {"admitted", "failed"}
  /\ accepted' = IF pc[p] = "admitted" THEN Emit(accepted, s) ELSE accepted
  /\ entries' = [entries EXCEPT ![s].initializing = FALSE]
  /\ IF /\ pc[p] = "admitted" /\ ~auditFailed
        /\ ~closed /\ Stages(s) = "admitted" /\ s \notin Expired
     THEN Answer(p, "ok")
     ELSE Goto(p, "discarding") /\ UNCHANGED inflight
  /\ UNCHANGED <<admitted, managerVars, auditFailed, terminated, cleaned, work>>

AdmitStep(s) ==
  reserve(s) \/ assignNode(s) \/ BindReturns(s) \/ AdmitFails(s) \/ Admit(s)
    \/ finishAdmission(s)

(***************************************************************************)
(* Get, Cancel, Claim and the stream that a claim feeds                    *)
(***************************************************************************)
\* A client names a session that was admitted.
Enters(p) ==
  /\ p \in Call /\ p[1] \in {"get", "delete", "stream"}
  /\ pc[p] = "idle" /\ pc[<<"create", p[2]>>] = "ok"
  /\ ~stopping /\ ~closed
  /\ p[1] # "delete" => ~auditFailed
  /\ inflight' = inflight \cup {p}

owned(p) ==
  LET s == p[2] IN
  /\ Enters(p)
  /\ Stages(s) \in {"admitted", "active"} /\ s \notin Expired
  /\ Goto(p, "owned")
  /\ UNCHANGED <<entries, admitted, managerVars, auditVars, work>>

\* A read that is denied outright gives up a session it does not look at; a claim
\* reads first.
Denied(p) ==
  /\ Enters(p) /\ p[1] # "delete"
  /\ Goto(p, "discarding")
  /\ UNCHANGED <<entries, admitted, managerVars, auditVars, work>>

\* A cancellation goes ahead; a read, or the read of a claim, found that the
\* authority, the workload or the binding is gone.
GiveUp(p) ==
  /\ pc[p] = "owned"
  /\ Goto(p, "discarding")
  /\ UNCHANGED <<entries, admitted, managerVars, auditVars, inflight, work>>

\* Access to the Pod is denied to a cancellation, a deadline has passed, or the
\* session has moved on since it was looked up.
Refuse(p) ==
  /\ pc[p] = "owned"
  /\ Answer(p, "refused")
  /\ UNCHANGED <<entries, admitted, managerVars, auditVars, work>>

Get(s) ==
  LET p == <<"get", s>> IN
  /\ pc[p] = "owned"
  /\ Stages(s) \in {"admitted", "active"} /\ s \notin Expired
  /\ Answer(p, IF auditFailed THEN "refused" ELSE "ok")
  /\ UNCHANGED <<entries, admitted, managerVars, auditVars, work>>

Claim(s) ==
  LET p == <<"stream", s>> IN
  /\ pc[p] = "owned"
  /\ Stages(s) = "admitted" /\ ~entries[s].initializing /\ ~entries[s].expired
  /\ entries' = [entries EXCEPT ![s].stage = "active", ![s].consumerRunning = TRUE]
  /\ Goto(p, "claimed")
  /\ UNCHANGED <<admitted, managerVars, auditVars, inflight, work>>

EndConsumer(s) ==
  IF entries[s] = None THEN entries
  ELSE [entries EXCEPT ![s].consumerRunning = FALSE]

\* markClosing and the AfterFunc cancel the lease's context; the manager's context
\* and the deadline reach it in their own time.
LeaseCancelled(s) == Stages(s) # "active" \/ pc[<<"hangup", s>>] # "idle"

\* Mutation of LeaseEnding: Claim only looks at the deadline.
LeaseOverdue(s) == s \in Expired

LeaseEnding(s) == LeaseCancelled(s) \/ stopping \/ s \in Expired

\* Claim returns the lease, or gives it up inside the operation.
ClaimReturns(s) ==
  LET p == <<"stream", s>> IN
  /\ pc[p] = "claimed"
  /\ \/ /\ ~auditFailed /\ ~LeaseCancelled(s)
        /\ Answer(p, "streaming")
        /\ UNCHANGED entries
     \/ /\ auditFailed \/ LeaseEnding(s)
        /\ entries' = EndConsumer(s)
        /\ Goto(p, "discarding")
        /\ UNCHANGED inflight
  /\ UNCHANGED <<admitted, managerVars, auditVars, work>>

\* serve has returned, for whatever reason: its terminal record, then
\* Lease.Close up to its discard.
EndStream(s) ==
  LET p == <<"stream", s>> IN
  /\ pc[p] = "streaming"
  /\ terminated' = Emit(terminated, s)
  /\ entries' = EndConsumer(s)
  /\ Goto(p, "discarding")
  /\ UNCHANGED <<admitted, managerVars, auditFailed, accepted, cleaned, inflight, work>>

\* The client's request is cancelled before stopParent.
Hangup(s) ==
  LET p == <<"hangup", s>> IN
  /\ p \in Call /\ pc[p] = "idle"
  /\ pc[<<"stream", s>>] \in {"claimed", "streaming"}
  /\ entries' = EndConsumer(s)
  /\ Goto(p, "discarding")
  /\ UNCHANGED <<admitted, managerVars, auditVars, inflight, work>>

(***************************************************************************)
(* The expiry loop                                                         *)
(***************************************************************************)
\* Mutation of Ready: an unconfirmed cleanup is not taken up again.
ReadyOnce(S, shutdown) ==
  {s \in S : ~entries[s].initializing /\ ~entries[s].cleanupRunning}

\* What sweep takes up once the entries of S are marked closing.
Ready(S, shutdown) ==
  {s \in Entries :
     /\ s \in S \/ entries[s].stage = "closing"
     /\ ~entries[s].initializing /\ ~entries[s].cleanupRunning
     /\ shutdown \/ ~entries[s].backoff}

sweep ==
  /\ loop = "waiting"
  /\ Ready(Expired, FALSE) # {} \/ \E s \in Expired : entries[s].stage # "closing"
  /\ entries' = MarkClosing(Expired)
  /\ ready' = Ready(Expired, FALSE)
  /\ loop' = "sweeping"
  /\ UNCHANGED <<admitted, stopping, shutdownErr, auditVars, pc, inflight, work>>

Sweeping == \E s \in Session : pc[<<"sweep", s>>] # "idle"

SweepEntry(s) ==
  /\ s \in ready /\ ~Sweeping
  /\ Goto(<<"sweep", s>>, "closing")
  /\ UNCHANGED <<entries, admitted, managerVars, auditVars, inflight, work>>

SweepDone ==
  /\ ready = {}
  /\ \/ /\ loop = "sweeping"
        /\ loop' = "waiting"
        /\ UNCHANGED shutdownErr
     \/ /\ loop = "closing"
        /\ loop' = "stopped"
        /\ shutdownErr' = (shutdownErr \/ Entries # {})
  /\ UNCHANGED <<entries, admitted, stopping, ready, auditVars, pc, inflight, work>>

\* Close, or the process is told to stop.
Stop ==
  /\ ~stopping /\ stopping' = TRUE
  /\ UNCHANGED <<entries, admitted, loop, ready, shutdownErr, auditVars, pc, inflight, work>>

Drain ==
  /\ loop = "waiting" /\ stopping
  /\ loop' = "draining"
  /\ entries' = MarkClosing(Entries)
  /\ UNCHANGED <<admitted, stopping, ready, shutdownErr, auditVars, pc, inflight, work>>

\* inflight.Wait has returned: the last sweep takes everything up.
FinalSweep ==
  /\ loop = "draining" /\ inflight = {}
  /\ entries' = MarkClosing(Entries)
  /\ ready' = Ready(Entries, TRUE)
  /\ loop' = "closing"
  /\ UNCHANGED <<admitted, stopping, shutdownErr, auditVars, pc, inflight, work>>

LoopStep == sweep \/ (\E s \in Session : SweepEntry(s)) \/ SweepDone \/ Drain \/ FinalSweep

(***************************************************************************)
(* Time, the audit sink and the node                                       *)
(***************************************************************************)
Expire(s) ==
  /\ Stages(s) \in {"pending", "admitted", "active"} /\ ~entries[s].expired
  /\ entries' = [entries EXCEPT ![s].expired = TRUE]
  /\ UNCHANGED <<admitted, managerVars, auditVars, pc, inflight, work>>

RetryDue(s) ==
  /\ s \in Entries /\ entries[s].backoff
  /\ entries' = [entries EXCEPT ![s].backoff = FALSE]
  /\ UNCHANGED <<admitted, managerVars, auditVars, pc, inflight, work>>

\* Some record, of any operation, was not delivered.
AuditFails ==
  /\ AuditMayFail /\ ~auditFailed /\ auditFailed' = TRUE
  /\ UNCHANGED <<entries, admitted, managerVars, accepted, terminated, cleaned, pc, inflight, work>>

NodeStep(s) ==
  /\ \/ work[s] = "asked" /\ work' = [work EXCEPT ![s] = "running"]
     \/ work[s] = "running" /\ work' = [work EXCEPT ![s] = "gone"]
  /\ UNCHANGED <<entries, admitted, managerVars, auditVars, pc, inflight>>

Handler(p) ==
  \/ GiveUp(p) \/ Refuse(p) \/ CloseStep(p)
  \/ p[1] = "create" /\ AdmitStep(p[2])
  \/ p[1] = "get" /\ Get(p[2])
  \/ p[1] = "stream" /\ (Claim(p[2]) \/ ClaimReturns(p[2]) \/ EndStream(p[2]))

\* After Close nothing is left to do.
Finished ==
  /\ loop = "stopped"
  /\ \A p \in Process : pc[p] \in {"idle", "ok", "refused"}
  /\ UNCHANGED vars

Init ==
  /\ entries = [s \in Session |-> None] /\ admitted = {}
  /\ stopping = FALSE /\ loop = "waiting" /\ ready = {} /\ shutdownErr = FALSE
  /\ auditFailed = FALSE /\ accepted = {} /\ terminated = {} /\ cleaned = {}
  /\ pc = [p \in Process |-> "idle"] /\ inflight = {}
  /\ work = [s \in Session |-> "none"]

Next ==
  \/ \E p \in Process : owned(p) \/ Denied(p) \/ Handler(p)
  \/ \E s \in Session : Hangup(s) \/ Expire(s) \/ RetryDue(s) \/ NodeStep(s)
  \/ LoopStep \/ Stop \/ AuditFails \/ Finished

\* Handlers and the loop run; deadlines pass; and a node that is asked again and
\* again to close a binding confirms it in the end.
Fairness ==
  /\ \A p \in Process : WF_vars(Handler(p))
  /\ WF_vars(LoopStep)
  /\ \A s \in Session : /\ WF_vars(Expire(s)) /\ WF_vars(RetryDue(s))
                        /\ SF_vars(\E p \in Process : p[2] = s /\ Confirm(p))

Spec == Init /\ [][Next]_vars
FairSpec == Spec /\ Fairness
(***************************************************************************)
(* Properties                                                              *)
(***************************************************************************)
\* reserve and assignNode keep the Policy's four limits: an entry counts against
\* each of them from its reservation until cleanup has deleted it.
WithinQuota ==
  /\ Cardinality(Entries) <= Global
  /\ \A s \in Entries :
       /\ Cardinality({t \in Entries : OwnerOf[t] = OwnerOf[s]}) <= PerPrincipal
       /\ Cardinality({t \in Entries : NamespaceOf[t] = NamespaceOf[s]}) <= PerNamespace
       /\ Cardinality(Placed(s)) <= PerNode

\* Work that may exist on a node has an entry that is charged for it, and once
\* Bind has returned the entry holds what closes it, however Bind ended.
WorkIsHeld ==
  \A s \in Session : work[s] \in {"asked", "running"} =>
     /\ entries[s] # None /\ entries[s].placed
     /\ entries[s].binding \/ pc[<<"create", s>>] = "binding"

\* One cleanup at a time, of an entry that is closing, and never under Admit
\* or a consumer that has not been told to stop.
CleanupIsExclusive ==
  \A s \in Session :
     LET cleaners == {p \in Process : p[2] = s /\ pc[p] = "cleaning"}
     IN  /\ Cardinality(cleaners) <= 1
         /\ cleaners # {} =>
              /\ Stages(s) = "closing"
              /\ entries[s].cleanupRunning
              /\ ~entries[s].initializing /\ ~entries[s].consumerRunning

\* A cancellation that succeeded, and a shutdown that reported no error, leave no
\* entry and no work behind.
ConfirmedMeansGone ==
  /\ \A s \in Session : pc[<<"delete", s>>] = "ok" =>
       entries[s] = None /\ work[s] \notin {"asked", "running"}
  /\ loop = "stopped" /\ ~shutdownErr =>
       \A s \in Session : entries[s] = None /\ work[s] \notin {"asked", "running"}

\* A terminal record is never invented for a session whose admission was not
\* recorded, and a confirmed cleanup is recorded after the terminal record.
AuditTrail ==
  \A s \in Session :
     /\ s \in terminated => s \in accepted
     /\ s \in cleaned /\ s \in accepted => s \in terminated

\* Once an entry is closing nothing admits or claims it again.
ClosingIsFinal ==
  [][\A s \in Session : Stages(s) = "closing" => Stages(s)' \in {"closing", "none"}]_vars

\* The manager implements the quotas it promises.
QuotaOf(f, limit) == {<<{t \in Session : f[t] = f[s]}, limit>> : s \in Session}
Promise == INSTANCE TraceQuota WITH
  held <- Entries,
  working <- {s \in Session : work[s] \in {"asked", "running"}},
  Quota <- {<<Session, Global>>} \cup QuotaOf(OwnerOf, PerPrincipal)
             \cup QuotaOf(NamespaceOf, PerNamespace),
  NodeQuota <- QuotaOf(NodeOf, PerNode)
ImplementsQuota == Promise!QSpec

\* An entry that is closing, or whose deadline has passed, goes; unless the loop
\* has stopped, and then Close has said so.
EntriesAreRemoved ==
  \A s \in Session :
     (Stages(s) = "closing" \/ s \in Expired) ~> (entries[s] = None \/ (loop = "stopped" /\ shutdownErr))

\* Every request is answered: no handler waits forever for a consumer, for
\* another handler's cleanup, or for the shutdown that waits for it.
RequestsReturn ==
  \A p \in Process : p[1] # "sweep" => (pc[p] # "idle" ~> pc[p] \in {"ok", "refused"})

\* Shutdown ends.
ShutdownEnds == stopping ~> loop = "stopped"

=============================================================================
