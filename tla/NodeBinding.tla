---------------------------- MODULE NodeBinding -----------------------------
(***************************************************************************)
(* The node binding: the trace controller's client (Client and binding)    *)
(* and the node's Service, which holds a cgroup handle per lease, runs at  *)
(* most one engine under it, and expires it without the controller.        *)
(*                                                                         *)
(* A request is a message that is delivered late or never, or that a copy  *)
(* of follows; an answer reaches the client with the end of the handler or *)
(* is lost.  Instance is the sequence of node processes: one may still     *)
(* drain when its successor serves, and one may die.  Each section under   *)
(* s.mu is a step, except bind, which keeps the mutex while it resolves    *)
(* the target (binder).  A session's identifier is random and known to one *)
(* controller, so that the owner check never refuses is not modelled.      *)
(*                                                                         *)
(* Outside the model: the container runtime (a handle may fail its check   *)
(* or its Close, CloseMayFail) and the engine, which ends at some time     *)
(* after its context; what a dead process leaves in the kernel may stay.   *)
(***************************************************************************)
EXTENDS Naturals, FiniteSets

CONSTANTS
  Lease, Instance, None,
  MaxTime,      \* a bound of the model: the last moment
  Pending,      \* how long an admission is pending: expires - now at Bind
  Duration,     \* of the trace: deadline - now at OpenStream
  MaxLeases, MaxSeen, MaxStreams, \* 2, 256 and 2 in the code
  Calls,        \* a bound of the model: what the controller asks, beside binds
  Copied,       \* kinds of request of which the network may deliver a copy
  CloseMayFail  \* whether the release of a handle may fail, or an engine panic

Time == 0..MaxTime

ASSUME NodeAssumption ==
  /\ MaxTime \in Nat /\ Pending \in Nat \ {0} /\ Duration \in Nat \ {0}
  /\ MaxLeases \in Nat \ {0} /\ MaxSeen \in Nat \ {0} /\ MaxStreams \in Nat \ {0}
  /\ Copied \subseteq {"bind", "stream"} /\ CloseMayFail \in BOOLEAN
  /\ Instance \subseteq Nat
  /\ Calls \subseteq {"get", "delete", "stream", "preview"}

VARIABLES
  now,
  client,     \* the controller's binding of each session
  net,        \* requests that were sent and may still be delivered
  loop,       \* where each process and its expire loop is
  stopping,   \* processes whose s.ctx is done
  service,    \* s.leases, s.seen, cleanupErr, the wake channel, open handles
  alarm,      \* the expire loop's timer
  binder,     \* the bind that holds s.mu
  preparing,  \* streams between their look at the lease and activate
  waiting,    \* sessions whose DELETE waits for the engine's teardown
  preview,    \* the inspectTarget of each process, and the handle that it resolves
  work,       \* engines not torn down
  past        \* history: what each process has done for a session

wire == <<now, client, net>>
process == <<loop, stopping, alarm, preview>>
vars == <<wire, process, service, binder, preparing, waiting, work, past>>

\* engine: where the execution of a lease is; lost when its handler panicked, so
\* that nothing confirms its teardown any more.
LeaseRecord == [expires : Nat, engine : {"none", "running", "cancelled", "lost"}]

Service == [leases : [Lease -> LeaseRecord \cup {None}],
            seen : [Lease -> Nat \cup {None}],
            open : SUBSET Lease,   \* leases' handles whose release is not confirmed
            poisoned : BOOLEAN,    \* cleanupErr is set
            wake : BOOLEAN]        \* s.wake holds a notification

\* A preview under way, and one whose handle has not confirmed its release.
Inspecting == {"asked", "held"}
Preview == Inspecting \cup {"none", "unconfirmed"}

Request == [kind : {"bind", "get", "delete", "stream"}, id : Lease,
            to : Instance,  \* X-Memlens-Node-Instance
            until : Nat,    \* expires of a bind, deadline of a stream
            copy : BOOLEAN]

Binding == [at : {"idle", "binding", "held", "uncertain", "refused"},
            instance : Instance \cup {None}, expires : Nat,
            claimed : BOOLEAN, closed : BOOLEAN]

ASSUME NoneAssumption == None \notin LeaseRecord /\ None \notin Nat /\ None \notin Request

TypeOK ==
  /\ now \in Nat
  /\ client \in [Lease -> Binding]
  /\ net \subseteq Request
  /\ loop \in [Instance -> {"unborn", "looking", "asleep", "draining", "stopped", "dead"}]
  /\ stopping \subseteq Instance
  /\ preview \in [Instance -> Preview]
  /\ service \in [Instance -> Service]
  /\ alarm \in [Instance -> Nat \cup {None}]
  /\ binder \in [Instance -> Request \cup {None}]
  /\ preparing \in [Instance -> SUBSET Request]
  /\ waiting \in [Instance -> SUBSET Lease]
  /\ work \subseteq Instance \X Lease 
  /\ past \in [Instance \X Lease -> {"nothing", "bound", "started"}]

Alive(n) == loop[n] \in {"looking", "asleep", "draining", "stopped"}
Closed(n) == loop[n] \in {"draining", "stopped"}
Unlocked(n) == Alive(n) /\ binder[n] = None

(***************************************************************************)
(* Operators on the state of one Service.                                  *)
(***************************************************************************)
Held(s) == {i \in Lease : s.leases[i] # None}
Idle(s) == {i \in Held(s) : s.leases[i].engine = "none"}
Lost(s) == {i \in Held(s) : s.leases[i].engine = "lost"}
Seen(s) == {i \in Lease : s.seen[i] # None}

\* Mutation of Release: the expire loop is not told.
ReleaseSilently(s, S, failed) ==
  [s EXCEPT !.leases = [i \in Lease |-> IF i \in S THEN None ELSE s.leases[i]],
            !.open = @ \ (S \ failed),
            !.poisoned = @ \/ failed # {}]

\* Mutation of Release: returns on the error before it drops the lease.
ReleaseUnlessFailed(s, S, failed) ==
  [s EXCEPT !.leases = [i \in Lease |-> IF i \in S \ failed THEN None ELSE s.leases[i]],
            !.open = @ \ (S \ failed),
            !.poisoned = @ \/ failed # {},
            !.wake = @ \/ S # {}]

\* closeHandle of the leases in S, of which those in failed do not close.
Release(s, S, failed) ==
  [s EXCEPT !.leases = [i \in Lease |-> IF i \in S THEN None ELSE s.leases[i]],
            !.open = @ \ (S \ failed),
            !.poisoned = @ \/ failed # {},
            !.wake = @ \/ S # {}]

\* Mutation of stopLease: closes the handle under the engine.
stopLeaseAtOnce(s, S, failed) == Release(s, S \cap Held(s), failed \cap Idle(s))

\* stopLease: an engine's lease is only cancelled, finish releases it.
stopLease(s, S, failed) ==
  LET r == Release(s, S \cap Idle(s), failed \cap Idle(s))
  IN [r EXCEPT !.leases = [i \in Lease |->
        IF i \in S \cap Held(s) /\ s.leases[i].engine = "running"
        THEN [s.leases[i] EXCEPT !.engine = "cancelled"] ELSE r.leases[i]]]

Due(s) == {i \in Idle(s) : now >= s.leases[i].expires}

\* Mutation of prune: a replay record goes with its lease.
pruneWithLease(s, failed) ==
  LET r == stopLease(s, Due(s), failed)
  IN [r EXCEPT !.seen = [i \in Lease |-> IF i \notin Held(r) THEN None ELSE s.seen[i]]]

prune(s, failed) ==
  LET r == stopLease(s, Due(s), failed) IN
  [r EXCEPT !.seen = [i \in Lease |->
     IF i \notin Held(r) /\ s.seen[i] # None /\ now >= s.seen[i] THEN None ELSE s.seen[i]]]

\* nextExpiry: the earliest deadline of an idle lease or a replay record.
Deadlines(s) == {s.leases[i].expires : i \in Idle(s)} \cup {s.seen[i] : i \in Seen(s) \ Held(s)}
nextExpiry(s) ==
  IF Deadlines(s) = {} THEN None
  ELSE CHOOSE t \in Deadlines(s) : \A u \in Deadlines(s) : t <= u

\* What may fail when the handles of S are closed.
Failures(S) == IF CloseMayFail THEN SUBSET S ELSE {{}}

(***************************************************************************)
(* The controller: Client.Bind and the methods of a binding.               *)
(***************************************************************************)
\* A bound of the model: nothing is asked for that outlives it.
InTime(t) == t <= MaxTime

Become(i, b) == client' = [client EXCEPT ![i] = b]

\* A sent request, and the copy that the network may make of it.
Send(m) ==
  \E C \in SUBSET IF m.kind \in Copied THEN {[m EXCEPT !.copy = TRUE]} ELSE {} :
    net' = net \cup {m} \cup C

\* Mutation of Sent: stamped with the instance of an earlier identity request.
SentStale(k, i, u) ==
  [kind |-> k, id |-> i, to |-> client[i].instance, until |-> u, copy |-> FALSE]

Sent(k, i, u) ==
  [kind |-> k, id |-> i, to |-> client'[i].instance, until |-> u, copy |-> FALSE]

\* The identity request is answered by a process that serves; then the POST.
Bind(i) ==
  /\ client[i].at = "idle" /\ InTime(now + Pending)
  /\ \E n \in Instance :
       /\ Alive(n)
       /\ Become(i, [client[i] EXCEPT !.at = "binding", !.instance = n, !.expires = now + Pending])
  /\ Send(Sent("bind", i, now + Pending))
  /\ UNCHANGED <<now, process, service, binder, preparing, waiting, work, past>>

\* No answer, or one that cannot be read, leaves cleanup-only authority.
BindUnanswered(i) ==
  /\ client[i].at = "binding"
  /\ Become(i, [client[i] EXCEPT !.at = "uncertain"])
  /\ UNCHANGED <<now, net, process, service, binder, preparing, waiting, work, past>>

Revalidate(i) ==
  /\ "get" \in Calls
  /\ client[i].at = "held" /\ ~client[i].closed /\ now < client[i].expires
  /\ UNCHANGED client
  /\ Send(Sent("get", i, 0))
  /\ UNCHANGED <<now, process, service, binder, preparing, waiting, work, past>>

OpenStream(i) ==
  /\ "stream" \in Calls
  /\ client[i].at = "held" /\ ~client[i].closed /\ ~client[i].claimed
  /\ now < client[i].expires /\ InTime(now + Duration)
  /\ Become(i, [client[i] EXCEPT !.claimed = TRUE])
  /\ Send(Sent("stream", i, now + Duration))
  /\ UNCHANGED <<now, process, service, binder, preparing, waiting, work, past>>

Close(i) ==
  /\ "delete" \in Calls
  /\ client[i].at \in {"held", "uncertain"} /\ ~client[i].closed
  /\ UNCHANGED client
  /\ Send(Sent("delete", i, 0))
  /\ UNCHANGED <<now, process, service, binder, preparing, waiting, work, past>>

(***************************************************************************)
(* The node: a handler begins with the delivery of its request.            *)
(***************************************************************************)
\* Mutation of Accepts: the instance header is not compared.
AcceptsAny(n, m) == TRUE

\* ServeHTTP refuses what another process of the node was asked.
Accepts(n, m) == m.to = n

Delivered(n, m, k) == Alive(n) /\ m \in net /\ m.kind = k /\ Accepts(n, m) /\ net' = net \ {m}

Misdirected(n, m) ==
  /\ Alive(n) /\ m \in net /\ ~Accepts(n, m)
  /\ net' = net \ {m}
  /\ UNCHANGED <<now, client, process, service, binder, preparing, waiting, work, past>>

\* The answer to m, if the client still waits for it.
Answer(m, b) == UNCHANGED client \/ (~m.copy /\ Become(m.id, b))
AnswerBind(m, at) ==
  IF client[m.id].at = "binding" THEN Answer(m, [client[m.id] EXCEPT !.at = at])
  ELSE UNCHANGED client
AnswerClose(m) == Answer(m, [client[m.id] EXCEPT !.closed = TRUE])

Serve(n, s) == service' = [service EXCEPT ![n] = s]

\* Another control request has the slot that this one would take.
NoSlot(n, m) ==
  /\ \E k \in {"bind", "get", "delete"} : Delivered(n, m, k)
  /\ binder[n] # None \/ waiting[n] # {}
  /\ IF m.kind = "bind" THEN AnswerBind(m, "refused") ELSE UNCHANGED client
  /\ UNCHANGED <<now, process, service, binder, preparing, waiting, work, past>>

\* Mutation of Refuses: one lease too many.
RefusesLate(s, i) ==
  i \in Seen(s) \/ Cardinality(Held(s)) > MaxLeases \/ Cardinality(Seen(s)) >= MaxSeen

Refuses(s, i) ==
  i \in Seen(s) \/ Cardinality(Held(s)) >= MaxLeases \/ Cardinality(Seen(s)) >= MaxSeen

\* bind up to its preflight; s.mu stays locked.
BindBegins(n, m) ==
  /\ Delivered(n, m, "bind") /\ Unlocked(n)
  /\ \/ /\ now >= m.until
        /\ AnswerBind(m, "refused")
        /\ UNCHANGED <<service, binder>>
     \/ /\ now < m.until
        /\ \E failed \in Failures(Due(service[n])) :
             LET s == prune(service[n], failed)
                 refused == Refuses(s, m.id)
             IN \/ /\ Closed(n) \/ s.poisoned
                   /\ Serve(n, s)
                   /\ UNCHANGED <<client, binder>>
                \/ /\ ~Closed(n) /\ ~s.poisoned /\ refused
                   /\ Serve(n, s)
                   /\ AnswerBind(m, "refused")
                   /\ UNCHANGED binder
                \/ /\ ~Closed(n) /\ ~s.poisoned /\ ~refused
                   /\ Serve(n, [s EXCEPT !.seen[m.id] = m.until, !.wake = TRUE])
                   /\ binder' = [binder EXCEPT ![n] = m]
                   /\ UNCHANGED client
  /\ UNCHANGED <<now, process, preparing, waiting, work, past>>

\* preflight and resolve have come back.
BindEnds(n) ==
  LET m == binder[n]
      s == service[n]
  IN
  /\ m # None /\ Alive(n)
  /\ binder' = [binder EXCEPT ![n] = None]
  /\ \/ /\ UNCHANGED <<client, service, past>> \* preflight failed, or the request is over
     \/ /\ AnswerBind(m, "refused")           \* expired, or another target, whose handle closed
        /\ UNCHANGED <<service, past>>
     \/ /\ CloseMayFail                       \* another target, whose handle did not
        /\ Serve(n, [s EXCEPT !.open = @ \cup {m.id}, !.poisoned = TRUE])
        /\ UNCHANGED <<client, past>>
     \/ /\ now < m.until
        /\ Serve(n, [s EXCEPT !.leases[m.id] = [expires |-> m.until, engine |-> "none"],
                              !.open = @ \cup {m.id}])
        /\ AnswerBind(m, "held")
        /\ past' = [past EXCEPT ![<<n, m.id>>] = IF @ = "nothing" THEN "bound" ELSE @]
  /\ UNCHANGED <<now, net, process, preparing, waiting, work>>

\* operation(GET): the handle is checked, and given up when the target is gone.
Get(n, m) ==
  /\ Delivered(n, m, "get") /\ Unlocked(n)
  /\ \E failed \in Failures(Idle(service[n])) :
       LET s == prune(service[n], failed)
           l == s.leases[m.id]
           over == l # None /\ l.engine # "none" /\ (l.engine # "running" \/ now >= l.expires)
       IN \/ /\ over => Closed(n) \/ s.poisoned
             /\ Serve(n, s)
          \/ /\ ~Closed(n) /\ ~s.poisoned /\ l # None
             /\ Serve(n, stopLease(s, {m.id}, failed))
  /\ UNCHANGED <<now, client, process, binder, preparing, waiting, work, past>>

\* operation(DELETE): what the node does not know is gone; what runs is waited for.
Delete(n, m) ==
  /\ Delivered(n, m, "delete") /\ Unlocked(n)
  /\ \E failed \in Failures(Idle(service[n])) :
       LET s == prune(service[n], failed)
           r == stopLease(s, {m.id}, failed)
       IN \/ /\ Closed(n) \/ s.poisoned
             /\ Serve(n, s)
             /\ UNCHANGED <<client, waiting>>
          \/ /\ ~Closed(n) /\ ~s.poisoned /\ m.id \notin Held(s) \ Idle(s)
             /\ Serve(n, r)
             /\ IF r.poisoned THEN UNCHANGED client ELSE AnswerClose(m)
             /\ UNCHANGED waiting
          \/ /\ ~Closed(n) /\ ~s.poisoned /\ m.id \in Held(s) \ Idle(s)
             /\ Serve(n, r)
             /\ waiting' = [waiting EXCEPT ![n] = @ \cup {m.id}]
             /\ UNCHANGED client
  /\ UNCHANGED <<now, process, binder, preparing, work, past>>

\* The four seconds of a DELETE are over.
DeleteTimesOut(n, i) ==
  /\ Alive(n) /\ i \in waiting[n]
  /\ waiting' = [waiting EXCEPT ![n] = @ \ {i}]
  /\ UNCHANGED <<wire, process, service, binder, preparing, work, past>>

Running(n) == {i \in Held(service[n]) : service[n].leases[i].engine \in {"running", "cancelled"}}

\* serveStream reads the lease and lets go of the lock to prepare the engine.
StreamArrives(n, m) ==
  /\ Delivered(n, m, "stream") /\ Unlocked(n)
  /\ LET free == Cardinality(preparing[n]) + Cardinality(Running(n)) < MaxStreams
     IN preparing' = IF free /\ m.id \in Held(service[n])
                     THEN [preparing EXCEPT ![n] = @ \cup {m}] ELSE preparing
  /\ UNCHANGED <<now, client, process, service, binder, waiting, work, past>>

\* The engine cannot be prepared, or is not the one that was asked for.
PrepareFails(n, m) ==
  /\ Alive(n) /\ m \in preparing[n]
  /\ preparing' = [preparing EXCEPT ![n] = @ \ {m}]
  /\ UNCHANGED <<wire, process, service, binder, waiting, work, past>>

MayActivate(n, s, m) ==
  /\ ~Closed(n) /\ ~s.poisoned
  /\ m.id \in Idle(s)
  /\ m.until > now /\ m.until <= now + Duration

activate(n, m) ==
  /\ Unlocked(n) /\ m \in preparing[n]
  /\ preparing' = [preparing EXCEPT ![n] = @ \ {m}]
  /\ \E failed \in Failures(Idle(service[n])) :
       LET s == prune(service[n], failed)
           i == m.id
       IN \/ /\ ~MayActivate(n, s, m)
             /\ Serve(n, s)
             /\ UNCHANGED <<client, work, past>>
          \/ /\ MayActivate(n, s, m)         \* the handle fails its check
             /\ Serve(n, stopLease(s, {i}, failed))
             /\ UNCHANGED <<client, work, past>>
          \/ /\ MayActivate(n, s, m)
             /\ Serve(n, [s EXCEPT !.leases[i] = [expires |-> m.until, engine |-> "running"],
                                   !.seen[i] = m.until, !.wake = TRUE])
             /\ work' = work \cup {<<n, i>>} /\ past' = [past EXCEPT ![<<n, i>>] = "started"]
             /\ IF client[i].closed THEN UNCHANGED client
                ELSE Answer(m, [client[i] EXCEPT !.expires = m.until])
  /\ UNCHANGED <<now, net, process, binder, waiting>>

\* The request of the stream is over: its AfterFunc cancels the execution.
Disconnects(n, i) ==
  /\ Alive(n) /\ i \in Held(service[n]) /\ service[n].leases[i].engine = "running"
  /\ Serve(n, [service[n] EXCEPT !.leases[i].engine = "cancelled"])
  /\ UNCHANGED <<wire, process, binder, preparing, waiting, work, past>>

\* The engine has returned from its teardown; the DELETE that waited answers.
finish(n, i) ==
  /\ Unlocked(n) /\ i \in Running(n)
  /\ \E failed \in Failures({i}) :
       /\ Serve(n, Release(service[n], {i}, failed))
       /\ \/ UNCHANGED client
          \/ i \in waiting[n] /\ failed = {} /\ Become(i, [client[i] EXCEPT !.closed = TRUE])
  /\ work' = work \ {<<n, i>>}
  /\ waiting' = [waiting EXCEPT ![n] = @ \ {i}]
  /\ UNCHANGED <<now, net, process, binder, preparing, past>>

\* A panic keeps what it cannot account for.
Panics(n, i) ==
  /\ CloseMayFail /\ Unlocked(n) /\ i \in Running(n)
  /\ Serve(n, [service[n] EXCEPT !.leases[i].engine = "lost", !.poisoned = TRUE])
  /\ UNCHANGED <<wire, process, binder, preparing, waiting, work, past>>

Previews(n, p) == preview' = [preview EXCEPT ![n] = p]

\* inspectTarget: one at a time, and no lease counts the handle that it resolves.
PreviewBegins(n) ==
  /\ "preview" \in Calls
  /\ Unlocked(n) /\ ~Closed(n) /\ ~service[n].poisoned /\ preview[n] = "none"
  /\ Previews(n, "asked")
  /\ UNCHANGED <<wire, loop, stopping, alarm, service, binder, preparing, waiting, work, past>>

PreviewResolves(n) ==
  /\ Alive(n) /\ preview[n] = "asked"
  /\ Previews(n, "held")
  /\ UNCHANGED <<wire, loop, stopping, alarm, service, binder, preparing, waiting, work, past>>

\* It answers without a handle, or has closed it, or could not.
PreviewEnds(n) ==
  /\ Unlocked(n) /\ preview[n] \in Inspecting
  /\ \/ /\ Previews(n, "none")
        /\ UNCHANGED service
     \/ /\ CloseMayFail /\ preview[n] = "held"
        /\ Previews(n, "unconfirmed")
        /\ Serve(n, [service[n] EXCEPT !.poisoned = TRUE])
  /\ UNCHANGED <<wire, loop, stopping, alarm, binder, preparing, waiting, work, past>>

(***************************************************************************)
(* The expire loop and the life of the process.                            *)
(***************************************************************************)
At(n, l) == loop' = [loop EXCEPT ![n] = l]

\* The timer is set to what nextExpiry finds.
Schedule(n) ==
  /\ loop[n] = "looking" /\ Unlocked(n)
  /\ At(n, "asleep")
  /\ alarm' = [alarm EXCEPT ![n] = nextExpiry(service[n])]
  /\ UNCHANGED <<wire, stopping, preview, service, binder, preparing, waiting, work, past>>

Woken(n) ==
  /\ loop[n] = "asleep" /\ service[n].wake
  /\ At(n, "looking")
  /\ Serve(n, [service[n] EXCEPT !.wake = FALSE])
  /\ UNCHANGED <<wire, stopping, alarm, preview, binder, preparing, waiting, work, past>>

Fires(n) ==
  /\ loop[n] = "asleep" /\ Unlocked(n) /\ alarm[n] # None /\ now >= alarm[n]
  /\ At(n, "looking")
  /\ \E failed \in Failures(Due(service[n])) : Serve(n, prune(service[n], failed))
  /\ UNCHANGED <<wire, stopping, alarm, preview, binder, preparing, waiting, work, past>>

\* Shutdown: every idle lease is released, every engine cancelled.
Drains(n) ==
  /\ loop[n] = "asleep" /\ n \in stopping /\ Unlocked(n)
  /\ At(n, "draining")
  /\ \E failed \in Failures(Idle(service[n])) :
       Serve(n, [stopLease(service[n], Lease, failed) EXCEPT !.seen = [i \in Lease |-> None]])
  /\ UNCHANGED <<wire, stopping, alarm, preview, binder, preparing, waiting, work, past>>

\* Mutation of Drained: does not wait for the engines.
DrainedEarly(n) == preview[n] \notin Inspecting

\* The executions that the loop found are done, and the preview with them.
Drained(n) == Held(service[n]) = {} /\ preview[n] \notin Inspecting

Stops(n) ==
  /\ loop[n] = "draining" /\ Drained(n)
  /\ At(n, "stopped")
  /\ UNCHANGED <<wire, stopping, alarm, preview, service, binder, preparing, waiting, work, past>>

\* A new process serves once its predecessor has been told to stop, or is gone.
Starts(n) ==
  /\ loop[n] = "unborn"
  /\ \A k \in Instance : /\ k < n => loop[k] # "unborn"
                         /\ Alive(k) => k \in stopping
  /\ At(n, "looking")
  /\ UNCHANGED <<wire, stopping, alarm, preview, service, binder, preparing, waiting, work, past>>

Terminate(n) ==
  /\ Alive(n) /\ n \notin stopping
  /\ stopping' = stopping \cup {n}
  /\ UNCHANGED <<wire, loop, alarm, preview, service, binder, preparing, waiting, work, past>>

Empty == [leases |-> [i \in Lease |-> None], seen |-> [i \in Lease |-> None],
          open |-> {}, poisoned |-> FALSE, wake |-> FALSE]

\* A process dies; what it attached to the kernel may outlive it.
Dies(n) ==
  /\ Alive(n)
  /\ At(n, "dead")
  /\ Serve(n, Empty)
  /\ alarm' = [alarm EXCEPT ![n] = None] /\ Previews(n, "none")
  /\ binder' = [binder EXCEPT ![n] = None]
  /\ preparing' = [preparing EXCEPT ![n] = {}] /\ waiting' = [waiting EXCEPT ![n] = {}]
  /\ \E left \in SUBSET {x \in work : x[1] = n} : work' = {x \in work : x[1] # n} \cup left
  /\ UNCHANGED <<wire, stopping, past>>

Tick ==
  /\ now < MaxTime
  /\ now' = now + 1
  /\ UNCHANGED <<client, net, process, service, binder, preparing, waiting, work, past>>

Init ==
  /\ now = 0
  /\ client = [i \in Lease |-> [at |-> "idle", instance |-> None, expires |-> 0,
                                claimed |-> FALSE, closed |-> FALSE]]
  /\ net = {}
  /\ loop = [n \in Instance |-> "unborn"]
  /\ stopping = {} /\ work = {}
  /\ preview = [n \in Instance |-> "none"]
  /\ service = [n \in Instance |-> Empty]
  /\ alarm = [n \in Instance |-> None]
  /\ binder = [n \in Instance |-> None]
  /\ preparing = [n \in Instance |-> {}]
  /\ waiting = [n \in Instance |-> {}]
  /\ past = [x \in Instance \X Lease |-> "nothing"]

Controller ==
  \E i \in Lease : Bind(i) \/ BindUnanswered(i) \/ Revalidate(i) \/ OpenStream(i) \/ Close(i)

Handlers ==
  \E n \in Instance :
    \/ \E m \in net : \/ Misdirected(n, m) \/ NoSlot(n, m) \/ BindBegins(n, m) \/ Get(n, m)
                      \/ Delete(n, m) \/ StreamArrives(n, m)
    \/ \E m \in preparing[n] : PrepareFails(n, m) \/ activate(n, m)
    \/ \E i \in Lease : DeleteTimesOut(n, i) \/ Disconnects(n, i) \/ finish(n, i) \/ Panics(n, i)
    \/ BindEnds(n) \/ PreviewBegins(n) \/ PreviewResolves(n) \/ PreviewEnds(n)

expire == \E n \in Instance : Schedule(n) \/ Woken(n) \/ Fires(n) \/ Drains(n) \/ Stops(n)

Processes == \E n \in Instance : Starts(n) \/ Terminate(n) \/ Dies(n)

Next == Controller \/ Handlers \/ expire \/ Processes \/ Tick

Spec == Init /\ [][Next]_vars

\* An execution ends after its context: its deadline is over, or it was cancelled.
Over(n, i) ==
  i \in Running(n) /\ (service[n].leases[i].engine = "cancelled" \/ now >= service[n].leases[i].expires)

\* The expire loop runs, the preflight and the teardown of a cancelled engine are
\* bounded, and time passes.  Nothing is asked of the controller or the network.
Fairness ==
  /\ WF_vars(Tick)
  /\ \A n \in Instance :
       /\ WF_vars(Schedule(n)) /\ WF_vars(Woken(n)) /\ WF_vars(Fires(n)) /\ SF_vars(Drains(n))
       /\ WF_vars(Stops(n)) /\ WF_vars(BindEnds(n)) /\ WF_vars(PreviewEnds(n))
       /\ \A i \in Lease : WF_vars(Over(n, i) /\ finish(n, i))

FairSpec == Spec /\ Fairness

(***************************************************************************)
(* Properties.                                                             *)
(***************************************************************************)
\* The node's directory handle is not released under an engine that may still hold
\* attachments to its cgroup, whatever expires, is deleted or is shut down.
EngineHoldsHandle == \A x \in work : Alive(x[1]) => x[2] \in service[x[1]].open

\* Refuses keeps the leases' handles within MaxLeases, those that failed to close
\* counted, and the replay records within MaxSeen.  Every other handle is accounted
\* for: it is the one of a preview under way, or its failed release is reported.
HandlesAccounted ==
  \A n \in Instance :
    LET s == service[n] IN
    /\ Cardinality(s.open) <= MaxLeases /\ Cardinality(Seen(s)) <= MaxSeen
    /\ s.open = Held(s) \/ s.poisoned
    /\ preview[n] = "unconfirmed" => s.poisoned

\* The comment of NewService: "NewService owns at most two handles and 256 unexpired
\* replay records."  docs/ebpf/ADMISSION.md:163 calls it a hard ceiling.
HandlesBounded ==
  \A n \in Instance :
    /\ Cardinality(service[n].open) + (IF preview[n] \in {"held", "unconfirmed"} THEN 1 ELSE 0)
         <= MaxLeases
    /\ Cardinality(Seen(service[n])) <= MaxSeen

\* When the shutdown of a service is over, it owns no lease, no engine, no preview,
\* and no handle unless it reports the failed release.
StoppedOwnsNothing ==
  \A n \in Instance : loop[n] = "stopped" =>
    /\ Held(service[n]) = {} /\ preview[n] \notin Inspecting
    /\ \A i \in Lease : <<n, i>> \notin work
    /\ service[n].poisoned \/ (service[n].open = {} /\ preview[n] = "none")

\* The record of a request outlives it: a process binds an identifier a second time
\* only after an engine ran under it.  (The record of one that ran is kept until the
\* deadline of the run only.)
BoundAgain ==
  [][\A n \in Instance, i \in Lease :
       i \notin Held(service[n]) /\ i \in Held(service'[n]) => past[<<n, i>>] # "bound"]_vars

\* A session runs at most once, over all processes of the node, and neither after nor
\* beyond a confirmed Close: what the controller's release of its quota relies on.
Promise == INSTANCE BindingPromise WITH
  ran       <- {i \in Lease : \E n \in Instance : past[<<n, i>>] = "started"},
  running   <- {i \in Lease : \E n \in Instance : <<n, i>> \in work},
  confirmed <- {i \in Lease : client[i].closed}
PromiseKept == Promise!Spec

\* What a service remembers of a session is dropped in the end, without a request from
\* the controller, unless an engine's teardown was lost.
RecordsExpire ==
  \A n \in Instance, i \in Lease :
    i \in Seen(service[n]) \cup Held(service[n]) ~>
      i \notin Seen(service[n]) \cup Held(service[n]) \/ Lost(service[n]) # {}

\* A service that was told to stop comes to an end under the same condition.
ShutdownEnds ==
  \A n \in Instance :
    n \in stopping /\ Alive(n) ~> loop[n] \in {"stopped", "dead"} \/ Lost(service[n]) # {}
=============================================================================
