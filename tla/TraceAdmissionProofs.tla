------------------------ MODULE TraceAdmissionProofs ------------------------
(***************************************************************************)
(* Theorems about TraceAdmission for every set of sessions, every policy   *)
(* and every set of requests.                                              *)
(*                                                                         *)
(* TInv is the inductive invariant.  Its heart is Alone: until Admit has   *)
(* answered, no other handler and no sweep works on the session, because   *)
(* clients do not know its identifier yet and sweep passes over entries    *)
(* that are being initialised.                                             *)
(***************************************************************************)
EXTENDS TraceAdmission, FiniteSetTheorems, TLAPS

create(s) == <<"create", s>>

\* Where Admit is while its deferred finishAdmission is still to come.
Early == {"resolving", "binding", "validating", "admitted", "failed"}

Gone(s) == entries[s] = None \/ entries[s].stage = "closing"

\* Before Admit has answered nobody else works on the session.
Alone ==
  \A s \in Session : pc[create(s)] \in Early \cup {"idle"} =>
     /\ s \notin ready
     /\ \A p \in Process : p[2] = s /\ p # create(s) => pc[p] = "idle"

\* Clients know a session only when Admit has answered.
Known ==
  \A p \in Process : p[1] \notin {"create", "sweep"} /\ pc[p] # "idle" => pc[create(p[2])] = "ok"

\* An identifier that has not been drawn has left no trace.
Fresh ==
  \A s \in Session : pc[create(s)] = "idle" =>
     entries[s] = None /\ work[s] = "none" /\ s \notin accepted

\* Admit keeps its entry, and finds it closing only when it will not admit it.
Initializing ==
  \A s \in Session : pc[create(s)] \in Early =>
     /\ entries[s] # None /\ entries[s].initializing
     /\ pc[create(s)] \in {"resolving", "binding", "validating"} /\ entries[s].stage = "closing"
          => closed \/ entries[s].expired
     /\ pc[create(s)] = "resolving" => work[s] = "none"

\* Whoever closes an entry has marked it, or finds it gone.
ClosersMarked ==
  /\ \A p \in Process : pc[p] \in {"closing", "joining", "cleaning"} => Gone(p[2])
  /\ \A s \in ready : Gone(s)

\* The handler that cleans up has the entry to itself.
CleanersHold ==
  /\ \A p \in Process : pc[p] = "cleaning" =>
       /\ entries[p[2]] # None
       /\ entries[p[2]].cleanupRunning
       /\ ~entries[p[2]].initializing /\ ~entries[p[2]].consumerRunning
  /\ \A p, q \in Process : pc[p] = "cleaning" /\ pc[q] = "cleaning" /\ p[2] = q[2] => p = q

\* What was confirmed is gone, and a cancellation answers "ok" only then.
ConfirmedGone ==
  /\ \A p \in Process : pc[p] = "confirmed" => entries[p[2]] = None
  /\ \A s \in Session : pc[<<"delete", s>>] = "ok" => entries[s] = None
  /\ closed => stopping
  /\ loop = "stopped" /\ ~shutdownErr => \A s \in Session : entries[s] = None

\* WorkIsHeld, said with create.
WorkHeld ==
  \A s \in Session : work[s] \in {"asked", "running"} =>
     /\ entries[s] # None /\ entries[s].placed
     /\ entries[s].binding \/ pc[create(s)] = "binding"

\* Admit's record precedes every other of its session, unless the latch is set.
Recorded ==
  /\ \A s \in Session :
       /\ pc[create(s)] \in {"admitted", "ok"} => s \in admitted
       /\ pc[create(s)] \in {"idle", "resolving", "binding", "validating", "failed"} => s \notin admitted
       /\ s \in admitted /\ pc[create(s)] # "admitted" => auditFailed \/ s \in accepted
       /\ s \in accepted => s \in admitted
       /\ s \in cleaned => pc[create(s)] \notin Early \cup {"idle"}

TInv ==
  /\ TypeOK /\ Alone /\ Known /\ Fresh /\ Initializing /\ ClosersMarked /\ CleanersHold
  /\ ConfirmedGone /\ WorkHeld /\ Recorded /\ AuditTrail

-----------------------------------------------------------------------------
Kind == {"create", "get", "delete", "stream", "hangup", "sweep"}

LEMMA ProcessShape ==
  /\ \A p \in Process : p[1] \in Kind /\ p[2] \in Session /\ p = <<p[1], p[2]>>
  /\ \A k \in Kind, s \in Session : <<k, s>> \in Process
  /\ \A s \in Session : create(s) \in Process /\ create(s)[1] = "create" /\ create(s)[2] = s
  /\ \A p \in Process : p = create(p[2]) <=> p[1] = "create"
  BY DEF Process, Kind, create

\* Handler p works on a session that Admit is done with.
Past(p) ==
  /\ pc[create(p[2])] \notin Early \cup {"idle"}
  /\ IF p[1] = "create" THEN pc[p] # "ok" ELSE p[1] = "sweep" \/ pc[create(p[2])] = "ok"

LEMMA PastAdmit ==
  ASSUME TInv, NEW p \in Process, pc[p] \notin Early \cup {"idle", "ok"}
  PROVE  Past(p)
  BY ProcessShape DEF TInv, Alone, Known, Past, Early

-----------------------------------------------------------------------------
(* Most steps move one handler, or none, and soften entries: they mark them  *)
(* closing, let them expire, end a consumer.  SoftStep deals with them all.  *)

\* No entry comes or goes, or changes what cleanup depends on.
Softer ==
  \A s \in Session :
     /\ entries'[s] = None <=> entries[s] = None
     /\ entries[s] # None =>
          /\ entries'[s].placed = entries[s].placed
          /\ entries'[s].binding = entries[s].binding
          /\ entries'[s].initializing = entries[s].initializing
          /\ entries'[s].cleanupRunning = entries[s].cleanupRunning
          /\ entries'[s].consumerRunning => entries[s].consumerRunning
          /\ entries[s].expired => entries'[s].expired
          /\ entries'[s].stage \in {entries[s].stage, "closing"}

\* Under Admit only sweep marks, what has expired or what shutdown closes.
OnlyExpiredMarked ==
  \A s \in Session : entries[s] # None /\ entries'[s].stage # entries[s].stage =>
     closed' \/ entries'[s].expired \/ pc[create(s)] \notin Early

\* The loop takes up what is marked and not under Admit, and ends as it must.
LoopSound ==
  /\ \A s \in ready' : s \in ready \/ (Gone(s)' /\ pc[create(s)] \notin Early \cup {"idle"})
  /\ closed => closed'
  /\ closed' => stopping'
  /\ loop' = "stopped" /\ ~shutdownErr' => \A s \in Session : entries'[s] = None

\* Records are added in their order.
TrailGrows ==
  /\ UNCHANGED <<admitted, accepted>>
  /\ auditFailed => auditFailed'
  /\ \A s \in cleaned' : s \in cleaned \/ pc[create(s)] \notin Early \cup {"idle"}
  /\ AuditTrail'

\* Handler p goes to l without entering a cleanup or leaving one.
Moves(p, l) ==
  /\ Goto(p, l)
  /\ l \notin {"resolving", "binding", "validating", "admitted", "cleaning", "confirmed"}
  /\ l = "idle" => p[1] = "sweep"
  /\ l \in {"closing", "joining"} => Gone(p[2])'
  /\ l = "ok" => p[1] # "create" /\ (p[1] = "delete" => entries'[p[2]] = None)
  /\ \/ Past(p) /\ l # "failed"
     \/ p[1] = "create" /\ pc[p] \in {"resolving", "validating"} /\ l = "failed"

LEMMA SoftStep ==
  ASSUME TInv, TypeOK', Softer, OnlyExpiredMarked, LoopSound, TrailGrows, UNCHANGED work,
         UNCHANGED pc \/ \E p \in Process, l \in Position : Moves(p, l)
  PROVE  TInv'
  <1> USE ProcessShape DEF TInv, TypeOK, Early
  <1>0. \A s \in Session : Gone(s) => Gone(s)'
    BY DEF Gone, Softer
  <1>1. ASSUME NEW p \in Process, NEW l \in Position, Moves(p, l)
        PROVE  TInv'
    <2> USE <1>1 DEF Goto
    <2>0. Known'          BY DEF Known, Moves, Past
    <2>1. \A s \in Session : pc'[create(s)] = pc[create(s)]
                             \/ (p = create(s) /\ p[2] = s /\ pc'[create(s)] = l)
      BY DEF Moves
    <2>2. Alone'          BY <2>1 DEF Alone, LoopSound, Moves, Past
    <2>3. Fresh'          BY <2>1 DEF Fresh, Softer, TrailGrows, Moves, Past
    <2>4. Initializing'   BY <2>1 DEF Initializing, closed, Softer, OnlyExpiredMarked, LoopSound, Moves, Past
    <2>5. ClosersMarked'  BY <1>0 DEF ClosersMarked, LoopSound, Moves
    <2>6. CleanersHold'   BY DEF CleanersHold, Softer, Moves
    <2>7. ConfirmedGone'  BY DEF ConfirmedGone, closed, LoopSound, Softer, Moves
    <2>8. WorkHeld'       BY <2>1 DEF WorkHeld, Softer, Moves, Past
    <2>9. Recorded'       BY <2>1 DEF Recorded, TrailGrows, Moves, Past
    <2> QED BY <2>0, <2>2, <2>3, <2>4, <2>5, <2>6, <2>7, <2>8, <2>9 DEF TrailGrows
  <1>2. CASE UNCHANGED pc
    <2> USE <1>2
    <2>0. Known'          BY DEF Known
    <2>2. Alone'          BY DEF Alone, LoopSound
    <2>3. Fresh'          BY DEF Fresh, Softer, TrailGrows
    <2>4. Initializing'   BY DEF Initializing, closed, Softer, OnlyExpiredMarked, LoopSound
    <2>5. ClosersMarked'  BY <1>0 DEF ClosersMarked, LoopSound
    <2>6. CleanersHold'   BY DEF CleanersHold, Softer
    <2>7. ConfirmedGone'  BY DEF ConfirmedGone, closed, LoopSound, Softer
    <2>8. WorkHeld'       BY DEF WorkHeld, Softer
    <2>9. Recorded'       BY DEF Recorded, TrailGrows
    <2> QED BY <2>0, <2>2, <2>3, <2>4, <2>5, <2>6, <2>7, <2>8, <2>9 DEF TrailGrows
  <1> QED BY <1>1, <1>2

\* What an action leaves alone is sound.
LEMMA Quiet ==
  ASSUME TInv
  PROVE  /\ UNCHANGED entries => Softer /\ (UNCHANGED loop => OnlyExpiredMarked)
         /\ UNCHANGED <<entries, managerVars>> => LoopSound
         /\ UNCHANGED <<admitted, auditVars>> => TrailGrows
  BY DEF TInv, TypeOK, Softer, OnlyExpiredMarked, LoopSound, TrailGrows, managerVars, auditVars,
     closed, ConfirmedGone, AuditTrail

\* A handler that is past Admit moves on, and nothing else changes.
LEMMA PlainStep ==
  ASSUME TInv, NEW p \in Process, NEW l \in Position, Moves(p, l), inflight' \subseteq Process,
         UNCHANGED <<entries, admitted, managerVars, auditVars, work>>
  PROVE  TInv'
  <1>1. TypeOK'
    BY DEF TInv, TypeOK, Moves, Goto, managerVars, auditVars
  <1> QED BY <1>1, Quiet, SoftStep DEF managerVars

-----------------------------------------------------------------------------
(* Get, Cancel, Claim and the stream. *)

LEMMA EnterStep ==
  ASSUME TInv, NEW p \in Process, owned(p) \/ Denied(p)
  PROVE  TInv'
  <1>1. pc[create(p[2])] = "ok" /\ inflight' \subseteq Process
        /\ UNCHANGED <<entries, admitted, managerVars, auditVars, work>>
    BY DEF TInv, TypeOK, owned, Denied, Enters, create
  <1>2. CASE owned(p)
    <2>1. Moves(p, "owned") BY <1>1, <1>2 DEF Moves, Past, owned, Early, Enters
    <2> QED BY <1>1, <2>1, PlainStep DEF Position
  <1>3. CASE Denied(p)
    <2>1. Moves(p, "discarding") BY <1>1, <1>3 DEF Moves, Past, Denied, Early, Enters
    <2> QED BY <1>1, <2>1, PlainStep DEF Position
  <1> QED BY <1>2, <1>3

LEMMA OwnedStep ==
  ASSUME TInv, NEW p \in Process, GiveUp(p) \/ Refuse(p) \/ (p[1] = "get" /\ Get(p[2]))
  PROVE  TInv'
  <1>1. /\ pc[p] = "owned" /\ Past(p)
        /\ inflight' \subseteq Process
        /\ UNCHANGED <<entries, admitted, managerVars, auditVars, work>>
    BY ProcessShape, PastAdmit DEF TInv, TypeOK, GiveUp, Refuse, Get, Answer, Early
  <1>2. CASE GiveUp(p)
    <2>1. Moves(p, "discarding") BY <1>1, <1>2 DEF Moves, GiveUp
    <2> QED BY <1>1, <2>1, PlainStep DEF Position
  <1>3. CASE Refuse(p)
    <2>1. Moves(p, "refused") BY <1>1, <1>3 DEF Moves, Refuse, Answer
    <2> QED BY <1>1, <2>1, PlainStep DEF Position
  <1>4. CASE p[1] = "get" /\ Get(p[2])
    <2>1. Moves(p, IF auditFailed THEN "refused" ELSE "ok")
      BY <1>1, <1>4, ProcessShape DEF Moves, Get, Answer
    <2> QED BY <1>1, <2>1, PlainStep DEF Position
  <1> QED BY <1>2, <1>3, <1>4

LEMMA EndConsumerFact ==
  ASSUME TInv, NEW s \in Session, entries' = EndConsumer(s)
  PROVE  /\ entries' \in [Session -> Entry \cup {None}]
         /\ Softer /\ (UNCHANGED loop => OnlyExpiredMarked)
         /\ UNCHANGED managerVars => LoopSound
  <1>1. entries' \in [Session -> Entry \cup {None}] /\ Softer
    BY NoneAssumption DEF TInv, TypeOK, EndConsumer, Entry, Softer
  <1>2. \A t \in Session : entries[t] # None => entries'[t].stage = entries[t].stage
    BY DEF TInv, TypeOK, EndConsumer, Entry
  <1> QED BY <1>1, <1>2 DEF OnlyExpiredMarked, LoopSound, managerVars, closed, TInv, ConfirmedGone, Softer

LEMMA ClaimReturnsStep ==
  ASSUME TInv, NEW p \in Process, p[1] = "stream", ClaimReturns(p[2])
  PROVE  TInv'
  <1>1. p = <<"stream", p[2]>> /\ pc[p] = "claimed" /\ Past(p)
    BY ProcessShape, PastAdmit DEF ClaimReturns, Early
  <1>2. CASE Answer(p, "streaming") /\ UNCHANGED entries
    <2>1. Moves(p, "streaming") BY <1>1, <1>2 DEF Moves, Answer
    <2> QED BY <1>1, <1>2, <2>1, PlainStep DEF Position, ClaimReturns, Answer, TInv, TypeOK
  <1>3. CASE entries' = EndConsumer(p[2]) /\ Goto(p, "discarding") /\ UNCHANGED inflight
    <2>1. Moves(p, "discarding") BY <1>1, <1>3 DEF Moves
    <2>2. TypeOK'
      BY <1>3, EndConsumerFact, ProcessShape DEF TInv, TypeOK, ClaimReturns, Goto, Position, managerVars, auditVars
    <2> QED BY <1>3, <2>1, <2>2, EndConsumerFact, ProcessShape, Quiet, SoftStep
            DEF ClaimReturns, Position, managerVars
  <1> QED BY <1>1, <1>2, <1>3 DEF ClaimReturns

LEMMA HangupStep ==
  ASSUME TInv, NEW s \in Session, Hangup(s)
  PROVE  TInv'
  <1> DEFINE p == <<"hangup", s>>
  <1>1. p \in Process /\ p[1] = "hangup" /\ p[2] = s /\ Past(p)
    <2>1. <<"stream", s>> \in Process /\ Past(<<"stream", s>>)
      BY ProcessShape, PastAdmit DEF Kind, Hangup, Early
    <2> QED BY <2>1, ProcessShape DEF Kind, Past
  <1>2. Moves(p, "discarding")
    BY <1>1 DEF Hangup, Moves
  <1>3. entries' = EndConsumer(s) /\ UNCHANGED <<admitted, managerVars, auditVars, inflight, work>>
    BY DEF Hangup
  <1>4. TypeOK'
    BY <1>1, <1>2, <1>3, EndConsumerFact DEF TInv, TypeOK, Moves, Goto, Position, managerVars, auditVars
  <1> QED BY <1>1, <1>2, <1>3, <1>4, EndConsumerFact, Quiet, SoftStep DEF Position, managerVars

LEMMA EndStreamStep ==
  ASSUME TInv, NEW p \in Process, p[1] = "stream", EndStream(p[2])
  PROVE  TInv'
  <1>1. p = <<"stream", p[2]>> /\ pc[p] = "streaming" /\ Past(p)
    BY ProcessShape, PastAdmit DEF EndStream, Early
  <1>2. Moves(p, "discarding")
    BY <1>1 DEF EndStream, Moves
  <1>3. entries' = EndConsumer(p[2])
        /\ UNCHANGED <<admitted, managerVars, auditFailed, accepted, cleaned, inflight, work>>
        /\ terminated' = Emit(terminated, p[2])
    BY <1>1 DEF EndStream
  <1>4. TypeOK'
    BY <1>2, <1>3, EndConsumerFact, ProcessShape
    DEF TInv, TypeOK, Moves, Goto, Position, managerVars, Emit
  <1>5. TrailGrows
    BY <1>1, <1>3, ProcessShape DEF TrailGrows, Past, TInv, TypeOK, AuditTrail, Recorded, Emit, Early
  <1> QED BY <1>2, <1>3, <1>4, <1>5, EndConsumerFact, ProcessShape, SoftStep DEF Position, managerVars

-----------------------------------------------------------------------------
(* Closing an entry. *)

\* The updates of an entry keep its type.
LEMMA EntryUpdate ==
  ASSUME NEW e \in Entry
  PROVE  /\ [e EXCEPT !.cleanupRunning = TRUE] \in Entry
         /\ [e EXCEPT !.cleanupRunning = FALSE, !.backoff = TRUE] \in Entry
         /\ [e EXCEPT !.backoff = FALSE] \in Entry
         /\ [e EXCEPT !.expired = TRUE] \in Entry
         /\ [e EXCEPT !.placed = TRUE] \in Entry
         /\ [e EXCEPT !.binding = TRUE] \in Entry
         /\ [e EXCEPT !.initializing = FALSE] \in Entry
         /\ [e EXCEPT !.stage = "admitted"] \in Entry
         /\ [e EXCEPT !.stage = "active", !.consumerRunning = TRUE] \in Entry
  BY DEF Entry, Stage

LEMMA CloseReturnsStep ==
  ASSUME TInv, NEW p \in Process, NEW ok \in BOOLEAN, Past(p), CloseReturns(p, ok),
         ok => entries[p[2]] = None,
         UNCHANGED <<entries, work>>, TrailGrows,
         terminated' \subseteq Session, cleaned' \subseteq Session, auditFailed' \in BOOLEAN
  PROVE  TInv'
  <1> DEFINE l == CASE p[1] = "sweep"  -> "idle"
                    [] p[1] = "delete" -> IF ok /\ ~auditFailed THEN "ok" ELSE "refused"
                    [] OTHER           -> "refused"
  <1>1. pc' = [pc EXCEPT ![p] = l] /\ l \in {"idle", "ok", "refused"}
    BY DEF CloseReturns
  <1>2. (l = "idle" => p[1] = "sweep") /\ (l = "ok" => p[1] = "delete" /\ entries[p[2]] = None)
    OBVIOUS
  <1> HIDE DEF l
  <1>3. Moves(p, l)
    BY <1>1, <1>2 DEF Moves, Goto
  <1>4. LoopSound
    BY ProcessShape DEF CloseReturns, LoopSound, TInv, TypeOK, ConfirmedGone, closed
  <1>5. TypeOK'
    BY <1>1 DEF TInv, TypeOK, CloseReturns, Position, TrailGrows
  <1> QED BY <1>1, <1>3, <1>4, <1>5, Quiet, SoftStep DEF Position, CloseReturns

LEMMA DiscardStep ==
  ASSUME TInv, NEW p \in Process, Discard(p)
  PROVE  TInv'
  <1>1. Past(p) /\ UNCHANGED <<admitted, auditVars, work>>
    BY PastAdmit DEF Discard, Early
  <1>2. CASE entries[p[2]] = None /\ CloseReturns(p, TRUE) /\ UNCHANGED entries
    BY <1>1, <1>2, Quiet, CloseReturnsStep DEF auditVars, TInv, TypeOK
  <1>3. CASE /\ entries[p[2]] # None /\ entries' = MarkClosing({p[2]})
             /\ Goto(p, "closing") /\ UNCHANGED <<managerVars, inflight>>
    <2>1. Softer /\ entries' \in [Session -> Entry \cup {None}] /\ Gone(p[2])'
      BY <1>3, ProcessShape, NoneAssumption
      DEF TInv, TypeOK, MarkClosing, Entries, Entry, Stage, Softer, Gone
    <2>2. OnlyExpiredMarked
      BY <1>1, <1>3, ProcessShape DEF TInv, TypeOK, MarkClosing, OnlyExpiredMarked, Past
    <2>3. LoopSound
      BY <1>3, <2>1 DEF LoopSound, Softer, managerVars, closed, TInv, ConfirmedGone
    <2>4. Moves(p, "closing")
      BY <1>1, <1>3, <2>1 DEF Moves
    <2>5. TypeOK'
      BY <1>1, <1>3, <2>1 DEF TInv, TypeOK, Goto, Position, managerVars, auditVars
    <2> QED BY <1>1, <2>1, <2>2, <2>3, <2>4, <2>5, Quiet, SoftStep DEF Position
  <1> QED BY <1>2, <1>3 DEF Discard

LEMMA closeEntryStep ==
  ASSUME TInv, NEW p \in Process, closeEntry(p)
  PROVE  TInv'
  <1> DEFINE s == p[2]
             e == entries[s]
  <1>1. /\ Past(p) /\ pc[p] = "closing" /\ s \in Session /\ Gone(s)
        /\ UNCHANGED <<admitted, auditVars, work>>
    BY PastAdmit, ProcessShape DEF closeEntry, Early, TInv, ClosersMarked
  <1>2. ASSUME NEW ok \in BOOLEAN, CloseReturns(p, ok), ok => e = None, UNCHANGED entries
        PROVE  TInv'
    BY <1>1, <1>2, Quiet, CloseReturnsStep DEF auditVars, TInv, TypeOK
  <1>3. CASE Goto(p, "joining") /\ UNCHANGED <<entries, managerVars, inflight>>
    <2>1. Moves(p, "joining")
      BY <1>1, <1>3 DEF Moves, Gone
    <2> QED BY <1>1, <1>3, <2>1, PlainStep DEF Position, TInv, TypeOK
  <1>4. CASE /\ e # None /\ MayClean(e)
             /\ entries' = [entries EXCEPT ![s].cleanupRunning = TRUE]
             /\ Goto(p, "cleaning") /\ UNCHANGED <<managerVars, inflight>>
    <2>15. e \in Entry
      BY <1>1, <1>4 DEF TInv, TypeOK
    <2>0. e \in Entry /\ [e EXCEPT !.cleanupRunning = TRUE] \in Entry
      BY <2>15, EntryUpdate
    <2> USE <1>1, <1>4, ProcessShape DEF TInv, TypeOK, Early, Goto
    <2>1. /\ entries' \in [Session -> Entry \cup {None}]
          /\ \A t \in Session : t # s => entries'[t] = entries[t]
          /\ entries'[s] = [e EXCEPT !.cleanupRunning = TRUE] /\ entries'[s] # None
      BY <2>0, NoneAssumption
    <2>2. \A t \in Session : pc'[create(t)] = pc[create(t)] \/ (t = s /\ pc'[create(t)] = "cleaning")
      OBVIOUS
    <2>3. TypeOK'         BY <2>1 DEF Position, managerVars, auditVars
    <2>4. Alone'          BY <2>2 DEF Alone, Past, managerVars
    <2>5. Known'          BY DEF Known, Past
    <2>6. Fresh'          BY <2>1, <2>2 DEF Fresh, auditVars, Past
    <2>7. Initializing'   BY <2>0, <2>1, <2>2 DEF Initializing, Past, closed, managerVars, Entry
    <2>8. \A t \in Session : Gone(t) => Gone(t)'
      BY <2>0, <2>1 DEF Gone, Entry
    <2>9. ClosersMarked'  BY <2>8 DEF ClosersMarked, managerVars
    <2>10. CleanersHold'  BY <2>0, <2>1 DEF CleanersHold, MayClean, Entry
    <2>11. ConfirmedGone' BY <2>1 DEF ConfirmedGone, managerVars, closed
    <2>12. WorkHeld'      BY <2>0, <2>1, <2>2 DEF WorkHeld, Past, Entry
    <2>13. Recorded'      BY <2>2 DEF Recorded, auditVars, Past
    <2>14. AuditTrail'    BY DEF AuditTrail, auditVars
    <2> QED BY <2>3, <2>4, <2>5, <2>6, <2>7, <2>9, <2>10, <2>11, <2>12, <2>13, <2>14
  <1> QED BY <1>2, <1>3, <1>4 DEF closeEntry

LEMMA JoinedStep ==
  ASSUME TInv, NEW p \in Process, Joined(p)
  PROVE  TInv'
  <1>1. Past(p) /\ UNCHANGED <<entries, admitted, auditVars, work>>
    BY PastAdmit DEF Joined, Early
  <1>2. PICK ok \in BOOLEAN : CloseReturns(p, ok) /\ (ok => entries[p[2]] = None)
    BY DEF Joined
  <1> QED BY <1>1, <1>2, Quiet, CloseReturnsStep DEF auditVars, TInv, TypeOK

LEMMA RecordCleanupStep ==
  ASSUME TInv, NEW p \in Process, RecordCleanup(p)
  PROVE  TInv'
  <1> DEFINE s == p[2]
  <1>1. /\ Past(p) /\ s \in Session
        /\ UNCHANGED <<entries, admitted, auditFailed, accepted, work>>
        /\ terminated' = Terminal(s)
        /\ cleaned' = IF pc[p] = "confirmed" THEN Emit(cleaned, s) ELSE cleaned
    BY PastAdmit, ProcessShape DEF RecordCleanup, Early
  <1>2. PICK ok \in BOOLEAN : CloseReturns(p, ok) /\ (ok => pc[p] = "confirmed")
    BY DEF RecordCleanup
  <1>3. ok => entries[s] = None
    BY <1>2 DEF TInv, ConfirmedGone
  <1>4. /\ terminated' \subseteq Session /\ cleaned' \subseteq Session
        /\ \A t \in Session : t \in cleaned' => t \in cleaned \/ t = s
    BY <1>1 DEF Terminal, Emit, TInv, TypeOK
  <1>5. AuditTrail'
    BY <1>1, <1>4 DEF AuditTrail, Terminal, Emit, TInv, TypeOK, Recorded, Past, Early
  <1>6. TrailGrows
    BY <1>1, <1>4, <1>5 DEF TrailGrows, Past
  <1> QED BY <1>1, <1>2, <1>3, <1>4, <1>6, CloseReturnsStep DEF TInv, TypeOK

\* What the end of a cleanup does to the handlers.
LEMMA CleanupDoneFact ==
  ASSUME TInv, NEW p \in Process, NEW l \in Position, pc[p] = "cleaning", CleanupDone(p, l),
         l \in {"confirmed", "unconfirmed"}
  PROVE  /\ pc' \in [Process -> Position] /\ pc'[p] = l
         /\ \A q \in Process \ {p} :
              pc'[q] = pc[q] \/ (q[2] = p[2] /\ pc[q] = "joining" /\ pc'[q] = "joined")
         /\ \A s \in Session : pc'[create(s)] = pc[create(s)]
              \/ (pc[create(s)] \in {"cleaning", "joining"}
                    /\ pc'[create(s)] \in {"confirmed", "unconfirmed", "joined"})
  BY ProcessShape DEF TInv, TypeOK, CleanupDone, Position

LEMMA ConfirmStep ==
  ASSUME TInv, NEW p \in Process, Confirm(p)
  PROVE  TInv'
  <1> DEFINE s == p[2]
             e == entries[s]
  <1>1. /\ pc[p] = "cleaning" /\ s \in Session /\ Past(p)
        /\ work' = [work EXCEPT ![s] = IF e.binding THEN "gone" ELSE work[s]]
        /\ entries' = [entries EXCEPT ![s] = None]
        /\ CleanupDone(p, "confirmed")
        /\ UNCHANGED <<admitted, managerVars, auditVars, inflight>>
    BY PastAdmit, ProcessShape DEF Confirm, Early
  <1>2. /\ pc' \in [Process -> Position] /\ pc'[p] = "confirmed"
        /\ \A q \in Process \ {p} :
             pc'[q] = pc[q] \/ (q[2] = s /\ pc[q] = "joining" /\ pc'[q] = "joined")
        /\ \A t \in Session : pc'[create(t)] = pc[create(t)]
             \/ (pc[create(t)] \in {"cleaning", "joining"}
                   /\ pc'[create(t)] \in {"confirmed", "unconfirmed", "joined"})
    BY <1>1, CleanupDoneFact DEF Position
  <1>3. e # None /\ ~e.initializing
    BY <1>1 DEF TInv, CleanersHold
  <1>4. /\ entries'[s] = None
        /\ \A t \in Session : t # s => entries'[t] = entries[t] /\ work'[t] = work[t]
        /\ work'[s] \notin {"asked", "running"}
    BY <1>1, <1>3 DEF TInv, TypeOK, WorkHeld, Past, Early
  <1> USE <1>1, <1>2, <1>4, ProcessShape DEF TInv, TypeOK, Early
  <1>5. TypeOK'         BY DEF managerVars, auditVars
  <1>6. Alone'          BY DEF Alone, managerVars
  <1>7. Known'          BY DEF Known
  <1>8. Fresh'          BY DEF Fresh, auditVars, Past
  <1>9. Initializing'   BY DEF Initializing, Past, closed, managerVars
  <1>10. ClosersMarked' BY DEF ClosersMarked, Gone, managerVars
  <1>11. CleanersHold'  BY DEF CleanersHold
  <1>12. ConfirmedGone' BY DEF ConfirmedGone, managerVars, closed, Kind
  <1>13. WorkHeld'      BY DEF WorkHeld
  <1>14. Recorded'      BY DEF Recorded, auditVars, Past
  <1>15. AuditTrail'    BY DEF AuditTrail, auditVars
  <1> QED BY <1>5, <1>6, <1>7, <1>8, <1>9, <1>10, <1>11, <1>12, <1>13, <1>14, <1>15

\* The entry goes back to wait for its retry.
LEMMA BackoffEntry ==
  ASSUME NEW e \in Entry, NEW f, f = [e EXCEPT !.cleanupRunning = FALSE, !.backoff = TRUE]
  PROVE  /\ f \in Entry
         /\ f.stage = e.stage /\ f.placed = e.placed /\ f.binding = e.binding
         /\ f.initializing = e.initializing /\ f.expired = e.expired
  BY DEF Entry

LEMMA UnconfirmedStep ==
  ASSUME TInv, NEW p \in Process, Unconfirmed(p)
  PROVE  TInv'
  <1> DEFINE s == p[2]
             e == entries[s]
  <1>1. /\ pc[p] = "cleaning" /\ s \in Session /\ Past(p)
        /\ entries' = [entries EXCEPT ![s].cleanupRunning = FALSE, ![s].backoff = TRUE]
        /\ CleanupDone(p, "unconfirmed")
        /\ UNCHANGED <<admitted, managerVars, auditVars, inflight, work>>
    BY PastAdmit, ProcessShape DEF Unconfirmed, Early
  <1>2. /\ pc' \in [Process -> Position] /\ pc'[p] = "unconfirmed"
        /\ \A q \in Process \ {p} :
             pc'[q] = pc[q] \/ (q[2] = s /\ pc[q] = "joining" /\ pc'[q] = "joined")
        /\ \A t \in Session : pc'[create(t)] = pc[create(t)]
             \/ (pc[create(t)] \in {"cleaning", "joining"}
                   /\ pc'[create(t)] \in {"confirmed", "unconfirmed", "joined"})
    BY <1>1, CleanupDoneFact DEF Position
  <1> DEFINE f == [e EXCEPT !.cleanupRunning = FALSE, !.backoff = TRUE]
  <1>3. /\ e \in Entry /\ f \in Entry
        /\ f.stage = e.stage /\ f.placed = e.placed /\ f.binding = e.binding
        /\ f.initializing = e.initializing /\ f.expired = e.expired
    <2>1. e \in Entry
      BY <1>1 DEF TInv, CleanersHold, TypeOK
    <2> QED BY <2>1, BackoffEntry
  <1>4. /\ entries' \in [Session -> Entry \cup {None}] /\ entries'[s] # None
        /\ entries'[s] = f
        /\ \A t \in Session : t # s => entries'[t] = entries[t]
    BY <1>1, <1>3, NoneAssumption DEF TInv, TypeOK
  <1> HIDE DEF f
  <1>17. \A t \in Session : entries'[t] # None <=> entries[t] # None
    BY <1>1, <1>4 DEF TInv, CleanersHold
  <1>16. \A t \in Session : Gone(t) => Gone(t)'
    BY <1>3, <1>4, <1>17 DEF Gone
  <1>12. ConfirmedGone'
    <2>1. \A t \in Session : pc'[<<"delete", t>>] = "ok" => pc[<<"delete", t>>] = "ok"
      BY <1>2, ProcessShape DEF Kind
    <2>2. \A q \in Process : pc'[q] = "confirmed" => pc[q] = "confirmed"
      BY <1>2
    <2> QED BY <1>1, <1>17, <2>1, <2>2, ProcessShape DEF TInv, ConfirmedGone, managerVars, closed
  <1>13. WorkHeld'
    <2>1. \A t \in Session : entries[t] # None =>
            entries'[t].placed = entries[t].placed /\ entries'[t].binding = entries[t].binding
      BY <1>3, <1>4
    <2>2. \A t \in Session : pc[create(t)] = "binding" => pc'[create(t)] = "binding"
      BY <1>2
    <2> QED BY <1>1, <1>17, <2>1, <2>2 DEF TInv, WorkHeld
  <1> USE <1>1, <1>2, <1>3, <1>4, <1>17, ProcessShape DEF TInv, TypeOK, Early
  <1>5. TypeOK'         BY DEF managerVars, auditVars
  <1>6. Alone'          BY DEF Alone, managerVars
  <1>7. Known'          BY DEF Known
  <1>8. Fresh'          BY DEF Fresh, auditVars, Past
  <1>9. Initializing'   BY DEF Initializing, Past, closed, managerVars
  <1>10. ClosersMarked' BY <1>16 DEF ClosersMarked, managerVars
  <1>11. CleanersHold'  BY DEF CleanersHold
  <1>14. Recorded'      BY DEF Recorded, auditVars, Past
  <1>15. AuditTrail'    BY DEF AuditTrail, auditVars
  <1> QED BY <1>5, <1>6, <1>7, <1>8, <1>9, <1>10, <1>11, <1>12, <1>13, <1>14, <1>15

-----------------------------------------------------------------------------
(* Admit. *)

\* A step of Admit: create(s) moves, and other sessions are left alone.
AdmitMove(s, l) ==
  /\ pc' = [pc EXCEPT ![create(s)] = l]
  /\ \A t \in Session : t # s => entries'[t] = entries[t] /\ work'[t] = work[t]
  /\ entries' \in [Session -> Entry \cup {None}] /\ work' \in [Session -> {"none", "asked", "running", "gone"}]
  /\ UNCHANGED <<managerVars, auditVars>>

\* Other handlers of the session sleep, so what concerns them holds still.
LEMMA AdmitFrame ==
  ASSUME TInv, NEW s \in Session, NEW l \in Early,
         pc[create(s)] \in Early \cup {"idle"}, AdmitMove(s, l), entries'[s] # None,
         inflight' \subseteq Process, admitted' \subseteq Session, ~stopping \/ entries[s] # None
  PROVE  TypeOK' /\ Alone' /\ Known' /\ ClosersMarked' /\ CleanersHold' /\ ConfirmedGone' /\ AuditTrail'
  <1>1. /\ \A q \in Process : q[2] = s /\ q # create(s) => pc[q] = "idle"
        /\ s \notin ready
    BY DEF TInv, Alone
  <1>2. \A q \in Process : pc'[q] = pc[q] \/ (q = create(s) /\ pc'[q] = l /\ q[2] = s)
    BY ProcessShape DEF AdmitMove, TInv, TypeOK
  <1>3. \A q \in Process : pc'[q] \notin Early \cup {"idle"} => q[2] # s /\ pc[q] = pc'[q]
    BY <1>1, <1>2, ProcessShape
  <1>4. \A t \in Session : t # s => (Gone(t) => Gone(t)')
    BY DEF Gone, AdmitMove
  <1> USE ProcessShape DEF TInv, TypeOK, AdmitMove, Early
  <1>5. TypeOK'         BY DEF Position, managerVars, auditVars
  <1>6. Alone'          BY <1>1, <1>2 DEF Alone, managerVars
  <1>7. Known'          BY <1>1, <1>2 DEF Known
  <1>8. ClosersMarked'  BY <1>1, <1>3, <1>4 DEF ClosersMarked, managerVars
  <1>9. CleanersHold'   BY <1>3 DEF CleanersHold
  <1>10. ConfirmedGone'
    <2>1. \A t \in Session : pc'[<<"delete", t>>] = "ok" => entries'[t] = None
      BY <1>3 DEF ConfirmedGone, Kind
    <2> QED BY <1>3, <2>1 DEF ConfirmedGone, managerVars, closed
  <1>11. AuditTrail'    BY DEF AuditTrail, auditVars
  <1> QED BY <1>5, <1>6, <1>7, <1>8, <1>9, <1>10, <1>11

LEMMA reserveStep ==
  ASSUME TInv, NEW s \in Session, reserve(s)
  PROVE  TInv'
  <1> DEFINE e == [stage |-> "pending", initializing |-> TRUE, placed |-> FALSE, expired |-> FALSE,
                   binding |-> FALSE, cleanupRunning |-> FALSE, backoff |-> FALSE,
                   consumerRunning |-> FALSE]
  <1>1. /\ pc[create(s)] = "idle" /\ ~stopping
        /\ entries' = [entries EXCEPT ![s] = e]
        /\ pc' = [pc EXCEPT ![create(s)] = "resolving"]
        /\ inflight' \subseteq Process
        /\ UNCHANGED <<admitted, managerVars, auditVars, work>>
    BY ProcessShape DEF reserve, create, Goto, TInv, TypeOK
  <1>2. e \in Entry /\ e # None
    <2>1. e \in Entry
      BY DEF Entry, Stage
    <2> QED BY <2>1, NoneAssumption
  <1>3. AdmitMove(s, "resolving") /\ entries'[s] = e
    BY <1>1, <1>2 DEF AdmitMove, TInv, TypeOK
  <1>4. TypeOK' /\ Alone' /\ Known' /\ ClosersMarked' /\ CleanersHold' /\ ConfirmedGone' /\ AuditTrail'
    BY <1>1, <1>2, <1>3, AdmitFrame DEF Early, TInv, TypeOK
  <1>5. \A t \in Session : t # s => pc'[create(t)] = pc[create(t)]
    BY <1>1, ProcessShape DEF TInv, TypeOK
  <1>6. pc'[create(s)] = "resolving" /\ work[s] = "none" /\ s \notin admitted /\ s \notin cleaned /\ s \notin accepted
    BY <1>1, ProcessShape DEF TInv, TypeOK, Fresh, Recorded
  <1> USE <1>1, <1>2, <1>3, <1>5, <1>6 DEF TInv, AdmitMove, auditVars, Early
  <1>7. Fresh'          BY DEF Fresh
  <1>8. Initializing'   BY DEF Initializing, closed, managerVars
  <1>9. WorkHeld'       BY DEF WorkHeld
  <1>10. Recorded'      BY DEF Recorded
  <1> QED BY <1>4, <1>7, <1>8, <1>9, <1>10

\* The updates that Admit makes while the session is being initialised.
LEMMA AdmitEntry ==
  ASSUME NEW e \in Entry, e.initializing, NEW f
  PROVE  /\ f = [e EXCEPT !.placed = TRUE] =>
              /\ f \in Entry /\ f.placed /\ f.initializing
              /\ f.stage = e.stage /\ f.expired = e.expired
         /\ f = [e EXCEPT !.binding = TRUE] =>
              /\ f \in Entry /\ f.binding /\ f.placed = e.placed /\ f.initializing
              /\ f.stage = e.stage /\ f.expired = e.expired
         /\ f = [e EXCEPT !.stage = "admitted"] =>
              /\ f \in Entry /\ f.binding = e.binding /\ f.placed = e.placed /\ f.initializing
              /\ f.stage = "admitted" /\ f.expired = e.expired
  BY DEF Entry, Stage

LEMMA assignNodeStep ==
  ASSUME TInv, NEW s \in Session, assignNode(s)
  PROVE  TInv'
  <1>1. /\ pc[create(s)] = "resolving" /\ StillOpen(s)
        /\ entries' = [entries EXCEPT ![s].placed = TRUE]
        /\ work' = [work EXCEPT ![s] = "asked"]
        /\ pc' = [pc EXCEPT ![create(s)] = "binding"]
        /\ UNCHANGED <<admitted, managerVars, auditVars, inflight>>
    BY DEF assignNode, create, Goto
  <1>2. entries[s] \in Entry /\ entries[s] # None /\ entries[s].initializing
    BY <1>1 DEF TInv, TypeOK, Initializing, Early
  <1>3. /\ entries'[s] \in Entry /\ entries'[s] # None /\ entries'[s].placed
        /\ entries'[s].initializing /\ entries'[s].stage = entries[s].stage
        /\ entries'[s].expired = entries[s].expired
    <2>1. entries'[s] = [entries[s] EXCEPT !.placed = TRUE]
      BY <1>1 DEF TInv, TypeOK
    <2>2. entries'[s] \in Entry /\ entries'[s].placed /\ entries'[s].initializing
          /\ entries'[s].stage = entries[s].stage /\ entries'[s].expired = entries[s].expired
      BY <1>2, <2>1, AdmitEntry
    <2> QED BY <2>2, NoneAssumption
  <1>4. AdmitMove(s, "binding")
    BY <1>1, <1>2, EntryUpdate DEF AdmitMove, TInv, TypeOK
  <1>5. TypeOK' /\ Alone' /\ Known' /\ ClosersMarked' /\ CleanersHold' /\ ConfirmedGone' /\ AuditTrail'
    BY <1>1, <1>2, <1>3, <1>4, AdmitFrame DEF Early, TInv, TypeOK
  <1>6. /\ \A t \in Session : t # s => pc'[create(t)] = pc[create(t)]
        /\ pc'[create(s)] = "binding"
    BY <1>1, ProcessShape DEF TInv, TypeOK
  <1>7. StillOpen(s) /\ UNCHANGED <<admitted, managerVars, auditVars>> /\ pc[create(s)] = "resolving"
    BY <1>1
  <1> USE <1>2, <1>3, <1>4, <1>6, <1>7 DEF TInv, AdmitMove, auditVars, Early
  <1>8. Fresh'          BY DEF Fresh
  <1>9. Initializing'   BY DEF Initializing, closed, managerVars, StillOpen
  <1>10. WorkHeld'      BY DEF WorkHeld
  <1>11. Recorded'      BY DEF Recorded
  <1> QED BY <1>5, <1>8, <1>9, <1>10, <1>11


LEMMA BindReturnsStep ==
  ASSUME TInv, NEW s \in Session, BindReturns(s)
  PROVE  TInv'
  <1>1. PICK l \in {"validating", "failed"} :
        /\ pc[create(s)] = "binding"
        /\ \/ entries' = [entries EXCEPT ![s].binding = TRUE]
           \/ UNCHANGED entries /\ work[s] = "asked"
        /\ work' = [work EXCEPT ![s] = IF @ = "asked" THEN "gone" ELSE @]
        /\ pc' = [pc EXCEPT ![create(s)] = l]
        /\ UNCHANGED <<admitted, managerVars, auditVars, inflight>>
    BY DEF BindReturns, create, Goto
  <1>2. entries[s] \in Entry /\ entries[s] # None /\ entries[s].initializing
    BY <1>1 DEF TInv, TypeOK, Initializing, Early
  <1>3. /\ entries'[s] \in Entry /\ entries'[s] # None /\ entries'[s].placed = entries[s].placed
        /\ entries'[s].initializing /\ entries'[s].stage = entries[s].stage
        /\ entries'[s].expired = entries[s].expired
        /\ entries'[s].binding \/ work[s] = "asked"
    <2>1. CASE entries' = [entries EXCEPT ![s].binding = TRUE]
      <3>1. entries'[s] = [entries[s] EXCEPT !.binding = TRUE]
        BY <2>1 DEF TInv, TypeOK
      <3>2. /\ entries'[s] \in Entry /\ entries'[s].binding /\ entries'[s].initializing
            /\ entries'[s].placed = entries[s].placed
            /\ entries'[s].stage = entries[s].stage /\ entries'[s].expired = entries[s].expired
        BY <1>2, <3>1, AdmitEntry
      <3> QED BY <3>2, NoneAssumption
    <2>2. CASE UNCHANGED entries /\ work[s] = "asked"
      BY <1>2, <2>2
    <2> QED BY <1>1, <2>1, <2>2
  <1>4. /\ AdmitMove(s, l)
        /\ work'[s] \in {"running"} => work[s] = "running"
        /\ work'[s] # "asked"
        /\ work[s] = "asked" => work'[s] = "gone"
    <2>1. \A t \in Session : t # s => entries'[t] = entries[t]
      BY <1>1 DEF TInv, TypeOK
    <2>2. entries' \in [Session -> Entry \cup {None}]
      BY <1>1, <1>2, EntryUpdate DEF TInv, TypeOK
    <2> QED BY <1>1, <2>1, <2>2 DEF AdmitMove, TInv, TypeOK
  <1>5. TypeOK' /\ Alone' /\ Known' /\ ClosersMarked' /\ CleanersHold' /\ ConfirmedGone' /\ AuditTrail'
    BY <1>1, <1>2, <1>3, <1>4, AdmitFrame DEF Early, TInv, TypeOK
  <1>6. /\ \A t \in Session : t # s => pc'[create(t)] = pc[create(t)]
        /\ pc'[create(s)] = l
    BY <1>1, ProcessShape DEF TInv, TypeOK
  <1>7. UNCHANGED <<admitted, managerVars, auditVars>> /\ pc[create(s)] = "binding"
    BY <1>1
  <1> USE <1>2, <1>3, <1>4, <1>6, <1>7 DEF TInv, AdmitMove, auditVars, Early
  <1>8. Fresh'          BY DEF Fresh
  <1>9. Initializing'   BY DEF Initializing, closed, managerVars
  <1>10. WorkHeld'      BY DEF WorkHeld, TypeOK
  <1>11. Recorded'      BY DEF Recorded
  <1> QED BY <1>5, <1>8, <1>9, <1>10, <1>11

LEMMA AdmitFailsStep ==
  ASSUME TInv, NEW s \in Session, AdmitFails(s)
  PROVE  TInv'
  <1>1. /\ pc[create(s)] \in {"resolving", "validating"} /\ Goto(create(s), "failed")
        /\ inflight' \subseteq Process
        /\ UNCHANGED <<entries, admitted, managerVars, auditVars, work>>
    BY DEF AdmitFails, create, TInv, TypeOK
  <1>2. Moves(create(s), "failed")
    BY <1>1, ProcessShape DEF Moves
  <1> QED BY <1>1, <1>2, PlainStep, ProcessShape DEF Position

LEMMA AdmittedStep ==
  ASSUME TInv, NEW s \in Session, Admit(s)
  PROVE  TInv'
  <1>1. /\ pc[create(s)] = "validating" /\ StillOpen(s)
        /\ entries' = [entries EXCEPT ![s].stage = "admitted"]
        /\ admitted' = admitted \cup {s}
        /\ pc' = [pc EXCEPT ![create(s)] = "admitted"]
        /\ UNCHANGED <<managerVars, auditVars, inflight, work>>
    BY DEF Admit, create, Goto
  <1>2. entries[s] \in Entry /\ entries[s] # None /\ entries[s].initializing
    BY <1>1 DEF TInv, TypeOK, Initializing, Early
  <1>3. /\ entries'[s] \in Entry /\ entries'[s] # None /\ entries'[s].placed = entries[s].placed
        /\ entries'[s].initializing /\ entries'[s].binding = entries[s].binding
    <2>1. entries'[s] = [entries[s] EXCEPT !.stage = "admitted"]
      BY <1>1 DEF TInv, TypeOK
    <2>2. /\ entries'[s] \in Entry /\ entries'[s].placed = entries[s].placed
          /\ entries'[s].initializing /\ entries'[s].binding = entries[s].binding
      BY <1>2, <2>1, AdmitEntry
    <2> QED BY <2>2, NoneAssumption
  <1>4. AdmitMove(s, "admitted")
    <2>1. \A t \in Session : t # s => entries'[t] = entries[t]
      BY <1>1 DEF TInv, TypeOK
    <2>2. entries' \in [Session -> Entry \cup {None}]
      BY <1>1, <1>2, EntryUpdate DEF TInv, TypeOK
    <2> QED BY <1>1, <2>1, <2>2 DEF AdmitMove, TInv, TypeOK
  <1>5. TypeOK' /\ Alone' /\ Known' /\ ClosersMarked' /\ CleanersHold' /\ ConfirmedGone' /\ AuditTrail'
    BY <1>1, <1>2, <1>3, <1>4, AdmitFrame DEF Early, TInv, TypeOK
  <1>6. /\ \A t \in Session : t # s => pc'[create(t)] = pc[create(t)]
        /\ pc'[create(s)] = "admitted"
    BY <1>1, ProcessShape DEF TInv, TypeOK
  <1>7. admitted' = admitted \cup {s} /\ UNCHANGED <<managerVars, auditVars, work>>
        /\ pc[create(s)] = "validating"
    BY <1>1
  <1> USE <1>2, <1>3, <1>4, <1>6, <1>7 DEF TInv, AdmitMove, auditVars, Early
  <1>8. Fresh'          BY DEF Fresh
  <1>9. Initializing'   BY DEF Initializing, closed, managerVars
  <1>10. WorkHeld'      BY DEF WorkHeld
  <1>11. Recorded'      BY DEF Recorded
  <1> QED BY <1>5, <1>8, <1>9, <1>10, <1>11

\* Admit lets go of the entry.
LEMMA ReleasedEntry ==
  ASSUME NEW e \in Entry, NEW f, f = [e EXCEPT !.initializing = FALSE]
  PROVE  /\ f \in Entry /\ f.stage = e.stage
         /\ f.placed = e.placed /\ f.binding = e.binding
  BY DEF Entry

LEMMA finishAdmissionStep ==
  ASSUME TInv, NEW s \in Session, finishAdmission(s)
  PROVE  TInv'
  <1>1. PICK l \in {"ok", "discarding"} :
        /\ pc[create(s)] \in {"admitted", "failed"}
        /\ accepted' = IF pc[create(s)] = "admitted" THEN Emit(accepted, s) ELSE accepted
        /\ entries' = [entries EXCEPT ![s].initializing = FALSE]
        /\ l = "ok" => pc[create(s)] = "admitted"
        /\ pc' = [pc EXCEPT ![create(s)] = l]
        /\ inflight' \subseteq Process
        /\ UNCHANGED <<admitted, managerVars, auditFailed, terminated, cleaned, work>>
    BY DEF finishAdmission, create, Goto, Answer, TInv, TypeOK
  <1>2. /\ \A q \in Process : q[2] = s /\ q # create(s) => pc[q] = "idle"
        /\ s \notin ready
    BY <1>1 DEF TInv, Alone, Early
  <1>3. \A q \in Process : pc'[q] = pc[q] \/ (q = create(s) /\ pc'[q] = l /\ q[2] = s)
    BY <1>1, ProcessShape DEF TInv, TypeOK
  <1>4. entries[s] \in Entry /\ entries[s] # None
    BY <1>1 DEF TInv, TypeOK, Initializing, Early
  <1>5. /\ entries'[s] \in Entry /\ entries'[s] # None
        /\ entries'[s].stage = entries[s].stage
        /\ entries'[s].placed = entries[s].placed /\ entries'[s].binding = entries[s].binding
    <2>1. entries'[s] = [entries[s] EXCEPT !.initializing = FALSE]
      BY <1>1 DEF TInv, TypeOK
    <2>2. /\ entries'[s] \in Entry /\ entries'[s].stage = entries[s].stage
          /\ entries'[s].placed = entries[s].placed /\ entries'[s].binding = entries[s].binding
      BY <1>4, <2>1, ReleasedEntry
    <2> QED BY <2>2, NoneAssumption
  <1>6. /\ entries' \in [Session -> Entry \cup {None}]
        /\ \A t \in Session : t # s => entries'[t] = entries[t]
    BY <1>1, <1>4, EntryUpdate DEF TInv, TypeOK
  <1>7. /\ \A t \in Session : t # s => pc'[create(t)] = pc[create(t)]
        /\ pc'[create(s)] = l
    BY <1>1, ProcessShape DEF TInv, TypeOK
  <1>8. /\ accepted' \subseteq Session /\ accepted \subseteq accepted'
        /\ \A t \in accepted' : t \in accepted \/ t = s
        /\ pc[create(s)] = "admitted" => s \in admitted /\ (auditFailed \/ s \in accepted')
        /\ pc[create(s)] = "failed" => s \notin accepted'
    BY <1>1 DEF Emit, TInv, TypeOK, Recorded
  <1>9. TypeOK'
    BY <1>1, <1>6, <1>8 DEF TInv, TypeOK, Position, managerVars
  <1>10. /\ pc[create(s)] \in {"admitted", "failed"} /\ l \in {"ok", "discarding"}
         /\ l = "ok" => pc[create(s)] = "admitted"
         /\ UNCHANGED <<admitted, managerVars, auditFailed, terminated, cleaned, work>>
    BY <1>1
  <1>11. \A q \in Process : pc'[q] \notin Early \cup {"idle", "ok", "discarding"}
                            => q[2] # s /\ pc[q] = pc'[q]
    BY <1>2, <1>3, <1>10, ProcessShape DEF Early
  <1>22. \A t \in Session : Gone(t) => Gone(t)'
    BY <1>4, <1>5, <1>6 DEF Gone
  <1> USE <1>2, <1>3, <1>5, <1>6, <1>7, <1>8, <1>10, ProcessShape DEF TInv, Early
  <1>12. Alone'          BY DEF Alone, managerVars
  <1>13. Known'          BY DEF Known
  <1>14. Fresh'          BY DEF Fresh
  <1>15. Initializing'   BY DEF Initializing, closed, managerVars
  <1>16. ClosersMarked'  BY <1>11, <1>22 DEF ClosersMarked, managerVars, TypeOK
  <1>17. CleanersHold'   BY <1>11 DEF CleanersHold
  <1>18. ConfirmedGone'
    <2>1. \A t \in Session : pc'[<<"delete", t>>] = "ok" => entries'[t] = None
      BY DEF ConfirmedGone, Kind, create
    <2> QED BY <1>4, <1>11, <2>1 DEF ConfirmedGone, managerVars, closed
  <1>19. WorkHeld'       BY DEF WorkHeld
  <1>20. Recorded'       BY DEF Recorded
  <1>21. AuditTrail'     BY DEF AuditTrail, Recorded, TypeOK
  <1> QED BY <1>9, <1>12, <1>13, <1>14, <1>15, <1>16, <1>17, <1>18, <1>19, <1>20, <1>21

\* The entry of an admitted session is handed to its consumer.
LEMMA ActiveEntry ==
  ASSUME NEW e \in Entry, NEW f, f = [e EXCEPT !.stage = "active", !.consumerRunning = TRUE]
  PROVE  /\ f \in Entry /\ f.stage = "active" /\ f.placed = e.placed /\ f.binding = e.binding
         /\ f.initializing = e.initializing /\ f.cleanupRunning = e.cleanupRunning
         /\ f.expired = e.expired
  BY DEF Entry, Stage

\* The claim is the one step that gives an entry a consumer: no cleanup runs then.
LEMMA ClaimStep ==
  ASSUME TInv, NEW p \in Process, p[1] = "stream", Claim(p[2])
  PROVE  TInv'
  <1> DEFINE s == p[2]
             e == entries[s]
             f == [e EXCEPT !.stage = "active", !.consumerRunning = TRUE]
  <1>1. /\ p = <<"stream", s>> /\ s \in Session /\ pc[p] = "owned" /\ Past(p)
        /\ e # None /\ e.stage = "admitted"
        /\ entries' = [entries EXCEPT ![s].stage = "active", ![s].consumerRunning = TRUE]
        /\ pc' = [pc EXCEPT ![p] = "claimed"]
        /\ UNCHANGED <<admitted, managerVars, auditVars, inflight, work>>
    <2>1. p = <<"stream", s>> /\ s \in Session /\ pc[p] = "owned"
      BY ProcessShape DEF Claim
    <2>2. Past(p)
      BY <2>1, PastAdmit DEF Early
    <2>3. e # None /\ e.stage = "admitted"
      BY DEF Claim, Stages
    <2> QED BY <2>1, <2>2, <2>3 DEF Claim, Goto
  <1>2. /\ e \in Entry /\ f \in Entry /\ f.stage = "active"
        /\ f.placed = e.placed /\ f.binding = e.binding
    <2>1. e \in Entry
      BY <1>1 DEF TInv, TypeOK
    <2> QED BY <2>1, ActiveEntry
  <1>3. /\ entries' \in [Session -> Entry \cup {None}] /\ entries'[s] # None
        /\ entries'[s] = f
        /\ \A t \in Session : t # s => entries'[t] = entries[t]
    BY <1>1, <1>2, NoneAssumption DEF TInv, TypeOK
  <1> HIDE DEF f
  <1>4. \A t \in Session : entries'[t] # None <=> entries[t] # None
    BY <1>1, <1>3
  <1>5. ~Gone(s) /\ \A t \in Session : Gone(t) => Gone(t)'
    BY <1>1, <1>3 DEF Gone
  <1>6. /\ \A q \in Process : q # p => pc'[q] = pc[q]
        /\ pc'[p] = "claimed" /\ pc' \in [Process -> Position]
        /\ \A t \in Session : pc'[create(t)] = pc[create(t)]
        /\ p # create(s)
    BY <1>1, ProcessShape DEF TInv, TypeOK, create, Position
  <1>7. \A q \in Process : q[2] = s => pc[q] \notin {"closing", "joining", "cleaning"}
    BY <1>5 DEF TInv, ClosersMarked
  <1>8. WorkHeld'
    <2>1. \A t \in Session : entries[t] # None =>
            entries'[t].placed = entries[t].placed /\ entries'[t].binding = entries[t].binding
      BY <1>2, <1>3
    <2> QED BY <1>1, <1>4, <1>6, <2>1 DEF TInv, WorkHeld
  <1>9. Initializing'
    <2>1. pc[create(s)] \notin Early
      BY <1>1 DEF Past
    <2> QED BY <1>1, <1>3, <1>6, <2>1 DEF TInv, Initializing, closed, managerVars
  <1>10. CleanersHold'
    <2>1. \A q \in Process : pc'[q] = "cleaning" => pc[q] = "cleaning" /\ q[2] # s
      BY <1>6, <1>7
    <2> QED BY <1>3, <2>1, ProcessShape DEF TInv, CleanersHold
  <1> USE <1>3, <1>4, <1>6, ProcessShape DEF TInv
  <1>11. TypeOK'        BY <1>1 DEF TypeOK, managerVars, auditVars
  <1>12. Alone'         BY <1>1 DEF Alone, managerVars, Past
  <1>13. Known'         BY <1>1 DEF Known, Past
  <1>14. Fresh'         BY <1>1 DEF Fresh, auditVars
  <1>15. ClosersMarked' BY <1>1, <1>5 DEF ClosersMarked, managerVars, TypeOK
  <1>16. ConfirmedGone' BY <1>1 DEF ConfirmedGone, managerVars, closed, Kind
  <1>17. Recorded'      BY <1>1 DEF Recorded, auditVars
  <1>18. AuditTrail'    BY <1>1 DEF AuditTrail, auditVars
  <1> QED BY <1>8, <1>9, <1>10, <1>11, <1>12, <1>13, <1>14, <1>15, <1>16, <1>17, <1>18

-----------------------------------------------------------------------------
(* The expiry loop, time and the node. *)

\* MarkClosing softens entries.
LEMMA MarkFact ==
  ASSUME TInv, NEW S \in SUBSET Session, entries' = MarkClosing(S)
  PROVE  /\ entries' \in [Session -> Entry \cup {None}] /\ Softer
         /\ \A s \in Session : entries[s] # None =>
              IF s \in S THEN entries'[s].stage = "closing" ELSE entries'[s] = entries[s]
         /\ \A s \in Session : entries[s] # None => entries'[s].expired = entries[s].expired
  BY NoneAssumption DEF TInv, TypeOK, MarkClosing, Entries, Entry, Stage, Softer

\* What sweep takes up is marked, and not under Admit.
LEMMA ReadyFact ==
  ASSUME TInv, NEW S \in SUBSET Session, NEW shutdown \in BOOLEAN,
         entries' = MarkClosing(S), ready' = Ready(S, shutdown)
  PROVE  /\ ready' \subseteq Session
         /\ \A s \in ready' : Gone(s)' /\ pc[create(s)] \notin Early \cup {"idle"}
  <1>1. ready' \subseteq Session /\ \A s \in ready' :
          entries[s] # None /\ ~entries[s].initializing /\ (s \in S \/ entries[s].stage = "closing")
    BY DEF Ready, Entries
  <1>2. \A s \in ready' : Gone(s)'
    BY <1>1, MarkFact DEF Gone, Softer
  <1>3. \A s \in ready' : pc[create(s)] \notin Early \cup {"idle"}
    BY <1>1 DEF TInv, Initializing, Fresh
  <1> QED BY <1>1, <1>2, <1>3

LEMMA SweepStep ==
  ASSUME TInv, sweep
  PROVE  TInv'
  <1>1. /\ loop = "waiting" /\ entries' = MarkClosing(Expired) /\ ready' = Ready(Expired, FALSE)
        /\ loop' = "sweeping" /\ Expired \subseteq Session
        /\ \A s \in Expired : entries[s] # None /\ entries[s].expired
        /\ UNCHANGED <<admitted, stopping, shutdownErr, auditVars, pc, inflight, work>>
    BY DEF sweep, Expired, Entries
  <1>2. OnlyExpiredMarked
    BY <1>1, MarkFact DEF OnlyExpiredMarked
  <1>3. LoopSound
    BY <1>1, ReadyFact DEF LoopSound, closed
  <1>4. TypeOK'
    BY <1>1, MarkFact, ReadyFact DEF TInv, TypeOK, auditVars
  <1> QED BY <1>1, <1>2, <1>3, <1>4, MarkFact, Quiet, SoftStep

LEMMA SweepEntryStep ==
  ASSUME TInv, NEW s \in Session, SweepEntry(s)
  PROVE  TInv'
  <1> DEFINE p == <<"sweep", s>>
  <1>1. /\ p \in Process /\ p[1] = "sweep" /\ p[2] = s /\ s \in ready
        /\ Goto(p, "closing") /\ inflight' \subseteq Process
        /\ UNCHANGED <<entries, admitted, managerVars, auditVars, work>>
    BY ProcessShape DEF SweepEntry, Kind, TInv, TypeOK
  <1>2. Past(p) /\ Gone(s)'
    BY <1>1 DEF Past, TInv, Alone, ClosersMarked, Gone
  <1>3. Moves(p, "closing")
    BY <1>1, <1>2 DEF Moves
  <1> QED BY <1>1, <1>3, PlainStep DEF Position

LEMMA LoopEndsStep ==
  ASSUME TInv, SweepDone \/ Stop
  PROVE  TInv'
  <1>1. /\ UNCHANGED <<entries, admitted, ready, auditVars, pc, inflight, work>>
        /\ stopping => stopping'
        /\ stopping' \in BOOLEAN /\ shutdownErr' \in BOOLEAN
        /\ loop' \in {"waiting", "sweeping", "draining", "closing", "stopped"}
        /\ closed' <=> closed
    BY DEF SweepDone, Stop, TInv, TypeOK, closed
  <1>2. loop' = "stopped" /\ ~shutdownErr' => \A s \in Session : entries'[s] = None
    BY DEF SweepDone, Stop, TInv, ConfirmedGone, Entries
  <1>3. Softer /\ OnlyExpiredMarked
    BY <1>1 DEF Softer, OnlyExpiredMarked, TInv, TypeOK
  <1>4. LoopSound
    BY <1>1, <1>2 DEF LoopSound, TInv, ConfirmedGone
  <1>5. TypeOK'
    BY <1>1 DEF TInv, TypeOK, auditVars
  <1> QED BY <1>1, <1>3, <1>4, <1>5, Quiet, SoftStep

LEMMA ShutdownStep ==
  ASSUME TInv, Drain \/ FinalSweep
  PROVE  TInv'
  <1>1. /\ entries' = MarkClosing(Entries) /\ Entries \subseteq Session
        /\ UNCHANGED <<admitted, stopping, shutdownErr, auditVars, pc, inflight, work>>
        /\ closed' /\ stopping
        /\ loop' \in {"draining", "closing"}
        /\ UNCHANGED ready \/ ready' = Ready(Entries, TRUE)
    BY DEF Drain, FinalSweep, Entries, TInv, ConfirmedGone, closed
  <1>2. ready' \subseteq Session
        /\ \A s \in ready' : s \in ready \/ (Gone(s)' /\ pc[create(s)] \notin Early \cup {"idle"})
    BY <1>1, ReadyFact DEF TInv, TypeOK
  <1>3. LoopSound
    BY <1>1, <1>2 DEF LoopSound
  <1>4. OnlyExpiredMarked
    BY <1>1 DEF OnlyExpiredMarked
  <1>5. TypeOK'
    BY <1>1, <1>2, MarkFact DEF TInv, TypeOK, auditVars
  <1> QED BY <1>1, <1>3, <1>4, <1>5, MarkFact, Quiet, SoftStep

\* A deadline or a retry passes by.
LEMMA TickEntry ==
  ASSUME NEW e \in Entry, NEW f, f \in {[e EXCEPT !.expired = TRUE], [e EXCEPT !.backoff = FALSE]}
  PROVE  /\ f \in Entry /\ f.stage = e.stage /\ f.placed = e.placed /\ f.binding = e.binding
         /\ f.initializing = e.initializing /\ f.cleanupRunning = e.cleanupRunning
         /\ f.consumerRunning = e.consumerRunning /\ (e.expired => f.expired)
  BY DEF Entry

LEMMA TimeStep ==
  ASSUME TInv, NEW s \in Session, Expire(s) \/ RetryDue(s)
  PROVE  TInv'
  <1> DEFINE e == entries[s]
  <1>1. /\ e # None
        /\ \/ entries' = [entries EXCEPT ![s].expired = TRUE]
           \/ entries' = [entries EXCEPT ![s].backoff = FALSE]
        /\ UNCHANGED <<admitted, managerVars, auditVars, pc, inflight, work>>
    BY DEF Expire, RetryDue, Stages, Entries
  <1>2. e \in Entry
    BY <1>1 DEF TInv, TypeOK
  <1>3. PICK f \in {[e EXCEPT !.expired = TRUE], [e EXCEPT !.backoff = FALSE]} :
          entries' = [entries EXCEPT ![s] = f]
    BY <1>1
  <1>4. /\ f \in Entry /\ f.stage = e.stage /\ f.placed = e.placed /\ f.binding = e.binding
        /\ f.initializing = e.initializing /\ f.cleanupRunning = e.cleanupRunning
        /\ f.consumerRunning = e.consumerRunning /\ (e.expired => f.expired)
    BY <1>2, TickEntry
  <1>5. /\ entries' \in [Session -> Entry \cup {None}] /\ entries'[s] = f /\ f # None
        /\ \A t \in Session : t # s => entries'[t] = entries[t]
    BY <1>3, <1>4, NoneAssumption DEF TInv, TypeOK
  <1>6. Softer /\ OnlyExpiredMarked
    BY <1>1, <1>4, <1>5 DEF Softer, OnlyExpiredMarked
  <1>7. LoopSound
    BY <1>1, <1>6 DEF LoopSound, Softer, managerVars, closed, TInv, ConfirmedGone
  <1>8. TypeOK'
    BY <1>1, <1>5 DEF TInv, TypeOK, managerVars, auditVars
  <1> QED BY <1>1, <1>6, <1>7, <1>8, Quiet, SoftStep

LEMMA AuditFailsStep ==
  ASSUME TInv, AuditFails
  PROVE  TInv'
  <1>1. /\ UNCHANGED <<entries, admitted, managerVars, accepted, terminated, cleaned, pc, inflight, work>>
        /\ auditFailed' = TRUE
    BY DEF AuditFails
  <1>2. TrailGrows
    BY <1>1 DEF TrailGrows, TInv, AuditTrail
  <1>3. TypeOK'
    BY <1>1 DEF TInv, TypeOK, managerVars
  <1> QED BY <1>1, <1>2, <1>3, Quiet, SoftStep DEF managerVars

LEMMA NodeStepStep ==
  ASSUME TInv, NEW s \in Session, NodeStep(s)
  PROVE  TInv'
  <1>1. /\ UNCHANGED <<entries, admitted, managerVars, auditVars, pc, inflight>>
        /\ work' \in [Session -> {"none", "asked", "running", "gone"}]
        /\ \A t \in Session : /\ work'[t] \in {"asked", "running"} => work[t] \in {"asked", "running"}
                              /\ work[t] = "none" => work'[t] = "none"
    BY DEF NodeStep, TInv, TypeOK
  <1> USE <1>1 DEF TInv
  <1>2. TypeOK'         BY DEF TypeOK, managerVars, auditVars
  <1>3. Alone'          BY DEF Alone, managerVars
  <1>4. Known'          BY DEF Known
  <1>5. Fresh'          BY DEF Fresh, auditVars
  <1>6. Initializing'   BY DEF Initializing, managerVars, closed
  <1>7. ClosersMarked'  BY DEF ClosersMarked, Gone, managerVars
  <1>8. CleanersHold'   BY DEF CleanersHold
  <1>9. ConfirmedGone'  BY DEF ConfirmedGone, managerVars, closed
  <1>10. WorkHeld'      BY DEF WorkHeld
  <1>11. Recorded'      BY DEF Recorded, auditVars
  <1>12. AuditTrail'    BY DEF AuditTrail, auditVars
  <1> QED BY <1>2, <1>3, <1>4, <1>5, <1>6, <1>7, <1>8, <1>9, <1>10, <1>11, <1>12

-----------------------------------------------------------------------------
(* The inductive invariant. *)

LEMMA InitTInv ==
  ASSUME Init
  PROVE  TInv
  <1> USE ProcessShape DEF Init, Early
  <1>1. TypeOK        BY DEF TypeOK, Position
  <1>2. Alone         BY DEF Alone
  <1>3. Known         BY DEF Known
  <1>4. Fresh         BY DEF Fresh
  <1>5. Initializing  BY DEF Initializing
  <1>6. ClosersMarked BY DEF ClosersMarked
  <1>7. CleanersHold  BY DEF CleanersHold
  <1>8. ConfirmedGone BY DEF ConfirmedGone, closed, Kind
  <1>9. WorkHeld      BY DEF WorkHeld
  <1>10. Recorded     BY DEF Recorded
  <1>11. AuditTrail   BY DEF AuditTrail
  <1> QED BY <1>1, <1>2, <1>3, <1>4, <1>5, <1>6, <1>7, <1>8, <1>9, <1>10, <1>11 DEF TInv

LEMMA HandlerStep ==
  ASSUME TInv, NEW p \in Process, owned(p) \/ Denied(p) \/ Handler(p)
  PROVE  TInv'
  <1>1. p[2] \in Session
    BY ProcessShape
  <1>2. CASE owned(p) \/ Denied(p)
    BY <1>2, EnterStep
  <1>3. CASE GiveUp(p) \/ Refuse(p) \/ (p[1] = "get" /\ Get(p[2]))
    BY <1>3, OwnedStep
  <1>4. CASE CloseStep(p)
    BY <1>4, DiscardStep, closeEntryStep, JoinedStep, ConfirmStep, UnconfirmedStep,
       RecordCleanupStep DEF CloseStep
  <1>5. CASE AdmitStep(p[2])
    BY <1>1, <1>5, reserveStep, assignNodeStep, BindReturnsStep, AdmitFailsStep, AdmittedStep,
       finishAdmissionStep DEF AdmitStep
  <1>6. CASE p[1] = "stream" /\ (Claim(p[2]) \/ ClaimReturns(p[2]) \/ EndStream(p[2]))
    BY <1>6, ClaimStep, ClaimReturnsStep, EndStreamStep
  <1> QED BY <1>2, <1>3, <1>4, <1>5, <1>6 DEF Handler

LEMMA UnchangedTInv ==
  ASSUME TInv, UNCHANGED vars
  PROVE  TInv'
  BY DEF vars, managerVars, auditVars, TInv, TypeOK, Alone, Known, Fresh, Initializing, ClosersMarked,
     Gone, CleanersHold, ConfirmedGone, closed, WorkHeld, Recorded, AuditTrail

LEMMA NextTInv ==
  ASSUME TInv, [Next]_vars
  PROVE  TInv'
  <1>1. ASSUME NEW p \in Process, owned(p) \/ Denied(p) \/ Handler(p)
        PROVE  TInv'
    BY <1>1, HandlerStep
  <1>2. ASSUME NEW s \in Session, Hangup(s) \/ Expire(s) \/ RetryDue(s) \/ NodeStep(s)
        PROVE  TInv'
    BY <1>2, HangupStep, TimeStep, NodeStepStep
  <1>3. CASE LoopStep \/ Stop
    BY <1>3, SweepStep, SweepEntryStep, LoopEndsStep, ShutdownStep DEF LoopStep
  <1>4. CASE AuditFails
    BY <1>4, AuditFailsStep
  <1>5. CASE Finished \/ UNCHANGED vars
    BY <1>5, UnchangedTInv DEF Finished
  <1> QED BY <1>1, <1>2, <1>3, <1>4, <1>5 DEF Next

LEMMA TInvariance == Spec => []TInv
  <1>1. Init => TInv
    BY InitTInv
  <1>2. TInv /\ [Next]_vars => TInv'
    BY NextTInv
  <1> QED BY <1>1, <1>2, PTL DEF Spec

-----------------------------------------------------------------------------
\* Every variable of the manager keeps its type, for any sessions and policy.
THEOREM TraceTypeCorrect == Spec => []TypeOK
  <1>1. TInv => TypeOK
    BY DEF TInv
  <1> QED BY <1>1, TInvariance, PTL

\* Admit, closeEntry and the node between them: whatever the order of a late
\* bind response, a cancellation, an expiry and a shutdown, work that may exist
\* on a node has an entry that is charged for it and can close it.
THEOREM WorkAlwaysHeld == Spec => []WorkIsHeld
  <1>1. TInv => WorkIsHeld
    BY DEF TInv, WorkHeld, WorkIsHeld, create
  <1> QED BY <1>1, TInvariance, PTL

\* closeEntry runs at most one cleanup of an entry, and none while Admit
\* initialises the entry or a consumer still reads from it.
THEOREM CleanupAlwaysExclusive == Spec => []CleanupIsExclusive
  <1>1. ASSUME TInv PROVE CleanupIsExclusive
    <2> SUFFICES ASSUME NEW s \in Session
                 PROVE  LET cleaners == {p \in Process : p[2] = s /\ pc[p] = "cleaning"}
                        IN  /\ Cardinality(cleaners) <= 1
                            /\ cleaners # {} =>
                                 /\ Stages(s) = "closing"
                                 /\ entries[s].cleanupRunning
                                 /\ ~entries[s].initializing /\ ~entries[s].consumerRunning
      BY DEF CleanupIsExclusive
    <2> DEFINE cleaners == {p \in Process : p[2] = s /\ pc[p] = "cleaning"}
    <2>1. CASE cleaners = {}
      BY <2>1, FS_EmptySet
    <2>2. ASSUME NEW p \in cleaners
          PROVE  /\ Cardinality(cleaners) = 1
                 /\ Stages(s) = "closing" /\ entries[s].cleanupRunning
                 /\ ~entries[s].initializing /\ ~entries[s].consumerRunning
      <3>1. \A q \in cleaners : q = p
        BY <1>1 DEF TInv, CleanersHold
      <3>2. cleaners = {p}
        BY <3>1
      <3>3. Cardinality({p}) = 1
        BY FS_Singleton
      <3>4. p \in Process /\ p[2] = s /\ pc[p] = "cleaning"
        OBVIOUS
      <3>5. Gone(s) /\ entries[s] # None /\ entries[s].cleanupRunning
            /\ ~entries[s].initializing /\ ~entries[s].consumerRunning
        BY <1>1, <3>4 DEF TInv, CleanersHold, ClosersMarked
      <3> QED BY <3>2, <3>3, <3>5 DEF Gone, Stages
    <2> HIDE DEF cleaners
    <2> QED BY <2>1, <2>2 DEF cleaners
  <1>2. TInv => CleanupIsExclusive
    BY <1>1
  <1> QED BY <1>2, TInvariance, PTL

\* A cancellation that Cancel answered with success, and a Close that returned no
\* error, mean that the entry and the work are gone.
THEOREM ConfirmedAlwaysGone == Spec => []ConfirmedMeansGone
  <1>1. TInv => ConfirmedMeansGone
    BY DEF TInv, ConfirmedGone, WorkHeld, ConfirmedMeansGone
  <1> QED BY <1>1, TInvariance, PTL

\* Admit, Lease.Close and closeEntry emit their records in an order that the
\* latch of the audit sink cannot break.
THEOREM AuditTrailKept == Spec => []AuditTrail
  <1>1. TInv => AuditTrail
    BY DEF TInv
  <1> QED BY <1>1, TInvariance, PTL

-----------------------------------------------------------------------------
(* What a step does to the entries. *)

KeepsClosing == \A s \in Session : Stages(s) = "closing" => Stages(s)' \in {"closing", "none"}

\* No entry comes, and none is placed on a node.
Steady ==
  \A s \in Session : entries'[s] # None =>
     entries[s] # None /\ entries'[s].placed = entries[s].placed

LEMMA SofterSteady ==
  ASSUME TInv, Softer
  PROVE  KeepsClosing /\ Steady
  BY DEF Softer, KeepsClosing, Steady, Stages

LEMMA SameSofter ==
  ASSUME TInv, UNCHANGED entries
  PROVE  Softer
  BY DEF Softer

\* One entry is updated.
LEMMA UpdateSteady ==
  ASSUME TInv, NEW s \in Session, entries[s] # None, NEW f, entries' = [entries EXCEPT ![s] = f],
         f # None => /\ f.placed = entries[s].placed
                     /\ entries[s].stage = "closing" => f.stage = "closing"
  PROVE  KeepsClosing /\ Steady
  BY DEF TInv, TypeOK, KeepsClosing, Steady, Stages

LEMMA AdmitChanges ==
  ASSUME TInv, NEW s \in Session, AdmitStep(s)
  PROVE  KeepsClosing /\ (Steady \/ reserve(s) \/ assignNode(s))
  <1> DEFINE e == entries[s]
  <1>1. ASSUME NEW f, e # None, e \in Entry, entries' = [entries EXCEPT ![s] = f],
               f.placed = e.placed /\ (e.stage = "closing" => f.stage = "closing")
        PROVE  KeepsClosing /\ Steady
    BY <1>1, UpdateSteady
  <1>2. pc[create(s)] \in Early => e # None /\ e \in Entry
    BY DEF TInv, TypeOK, Initializing
  <1>3. CASE reserve(s)
    <2>1. e = None
      BY <1>3 DEF reserve, create, TInv, Fresh
    <2>2. \A t \in Session : t # s => entries'[t] = entries[t]
      BY <1>3 DEF reserve, TInv, TypeOK
    <2> QED BY <1>3, <2>1, <2>2 DEF KeepsClosing, Stages
  <1>4. CASE assignNode(s)
    <2>1. e # None /\ e \in Entry /\ e.initializing
      BY <1>2, <1>4 DEF assignNode, create, Early, TInv, Initializing
    <2>2. /\ \A t \in Session : t # s => entries'[t] = entries[t]
          /\ entries'[s] = [e EXCEPT !.placed = TRUE]
      BY <1>4 DEF assignNode, TInv, TypeOK
    <2>3. entries'[s].stage = e.stage /\ entries'[s] # None
      BY <2>1, <2>2, AdmitEntry, NoneAssumption
    <2> QED BY <1>4, <2>1, <2>2, <2>3 DEF KeepsClosing, Stages
  <1>5. CASE BindReturns(s)
    <2>1. e # None /\ e \in Entry /\ e.initializing
      BY <1>2, <1>5 DEF BindReturns, create, Early, TInv, Initializing
    <2>2. CASE entries' = [entries EXCEPT ![s].binding = TRUE]
      <3>1. entries' = [entries EXCEPT ![s] = [e EXCEPT !.binding = TRUE]]
        BY <2>2
      <3> QED BY <1>1, <2>1, <3>1, AdmitEntry
    <2>3. CASE UNCHANGED entries
      BY <2>3, SameSofter, SofterSteady
    <2> QED BY <1>5, <2>2, <2>3 DEF BindReturns
  <1>6. CASE AdmitFails(s)
    BY <1>6, SameSofter, SofterSteady DEF AdmitFails
  <1>7. CASE Admit(s)
    <2>1. e # None /\ e \in Entry /\ e.initializing /\ e.stage # "closing"
      BY <1>2, <1>7 DEF Admit, StillOpen, create, Early, TInv, Initializing
    <2>2. entries' = [entries EXCEPT ![s] = [e EXCEPT !.stage = "admitted"]]
      BY <1>7 DEF Admit
    <2> QED BY <1>1, <2>1, <2>2, AdmitEntry
  <1>8. CASE finishAdmission(s)
    <2>1. e # None /\ e \in Entry
      BY <1>2, <1>8 DEF finishAdmission, create, Early
    <2>2. entries' = [entries EXCEPT ![s] = [e EXCEPT !.initializing = FALSE]]
      BY <1>8 DEF finishAdmission
    <2> QED BY <1>1, <2>1, <2>2, ReleasedEntry
  <1> QED BY <1>3, <1>4, <1>5, <1>6, <1>7, <1>8 DEF AdmitStep

LEMMA CloseChanges ==
  ASSUME TInv, NEW p \in Process, CloseStep(p)
  PROVE  KeepsClosing /\ Steady
  <1> DEFINE s == p[2]
             e == entries[s]
  <1>1. s \in Session
    BY ProcessShape
  <1>2. CASE UNCHANGED entries
    BY <1>2, SameSofter, SofterSteady
  <1>3. CASE entries' = MarkClosing({s})
    BY <1>1, <1>3, MarkFact, SofterSteady
  <1>4. CASE e # None /\ entries' = [entries EXCEPT ![s].cleanupRunning = TRUE]
    <2>1. e \in Entry
      BY <1>1, <1>4 DEF TInv, TypeOK
    <2>2. entries' = [entries EXCEPT ![s] = [e EXCEPT !.cleanupRunning = TRUE]]
      BY <1>4
    <2>3. [e EXCEPT !.cleanupRunning = TRUE].placed = e.placed
          /\ [e EXCEPT !.cleanupRunning = TRUE].stage = e.stage
      BY <2>1 DEF Entry
    <2> QED BY <1>1, <1>4, <2>2, <2>3, UpdateSteady
  <1>5. CASE e # None /\ entries' = [entries EXCEPT ![s] = None]
    BY <1>1, <1>5, UpdateSteady
  <1>6. CASE e # None /\ entries' = [entries EXCEPT ![s].cleanupRunning = FALSE, ![s].backoff = TRUE]
    <2>1. e \in Entry
      BY <1>1, <1>6 DEF TInv, TypeOK
    <2> DEFINE f == [e EXCEPT !.cleanupRunning = FALSE, !.backoff = TRUE]
    <2>2. entries' = [entries EXCEPT ![s] = f]
      BY <1>1, <1>6 DEF TInv, TypeOK
    <2>3. f.placed = e.placed /\ f.stage = e.stage
      BY <2>1, BackoffEntry
    <2> HIDE DEF f
    <2> QED BY <1>1, <1>6, <2>2, <2>3, UpdateSteady
  <1>7. pc[p] = "cleaning" => e # None
    BY DEF TInv, CleanersHold
  <1> QED BY <1>2, <1>3, <1>4, <1>5, <1>6, <1>7
          DEF CloseStep, Discard, closeEntry, Joined, Confirm, Unconfirmed, RecordCleanup

LEMMA ClaimChanges ==
  ASSUME TInv, NEW s \in Session, Claim(s)
  PROVE  KeepsClosing /\ Steady
  <1> DEFINE e == entries[s]
  <1>1. e # None /\ e.stage = "admitted" /\ e \in Entry
    BY DEF Claim, Stages, TInv, TypeOK
  <1> DEFINE f == [e EXCEPT !.stage = "active", !.consumerRunning = TRUE]
  <1>2. entries' = [entries EXCEPT ![s] = f]
    BY DEF Claim, TInv, TypeOK
  <1>3. f.placed = e.placed
    BY <1>1, ActiveEntry
  <1> HIDE DEF f
  <1> QED BY <1>1, <1>2, <1>3, UpdateSteady

LEMMA EntryChanges ==
  ASSUME TInv, [Next]_vars
  PROVE  KeepsClosing /\ (Steady \/ \E s \in Session : reserve(s) \/ assignNode(s))
  <1>1. CASE UNCHANGED entries
    BY <1>1, SameSofter, SofterSteady
  <1>2. ASSUME NEW S \in SUBSET Session, entries' = MarkClosing(S)
        PROVE  KeepsClosing /\ Steady
    BY <1>2, MarkFact, SofterSteady
  <1>3. ASSUME NEW s \in Session, entries' = EndConsumer(s)
        PROVE  KeepsClosing /\ Steady
    BY <1>3, EndConsumerFact, SofterSteady
  <1>4. ASSUME NEW p \in Process, owned(p) \/ Denied(p) \/ Handler(p)
        PROVE  KeepsClosing /\ (Steady \/ \E s \in Session : reserve(s) \/ assignNode(s))
    <2>1. p[2] \in Session
      BY ProcessShape
    <2>2. CASE owned(p) \/ Denied(p) \/ GiveUp(p) \/ Refuse(p) \/ Get(p[2])
      BY <1>1, <2>2 DEF owned, Denied, GiveUp, Refuse, Get
    <2>3. CASE CloseStep(p)
      BY <2>3, CloseChanges
    <2>4. CASE AdmitStep(p[2])
      BY <2>1, <2>4, AdmitChanges
    <2>5. CASE Claim(p[2])
      BY <2>1, <2>5, ClaimChanges
    <2>6. CASE ClaimReturns(p[2]) \/ EndStream(p[2])
      BY <1>1, <1>3, <2>1, <2>6 DEF ClaimReturns, EndStream
    <2> QED BY <1>4, <2>2, <2>3, <2>4, <2>5, <2>6 DEF Handler
  <1>5. ASSUME NEW s \in Session, Hangup(s) \/ Expire(s) \/ RetryDue(s) \/ NodeStep(s)
        PROVE  KeepsClosing /\ Steady
    <2>1. CASE Hangup(s)
      BY <1>3, <2>1 DEF Hangup
    <2>2. CASE NodeStep(s)
      BY <1>1, <2>2, SameSofter, SofterSteady DEF NodeStep
    <2>3. CASE Expire(s) \/ RetryDue(s)
      <3>1. PICK f \in {[entries[s] EXCEPT !.expired = TRUE], [entries[s] EXCEPT !.backoff = FALSE]} :
              entries' = [entries EXCEPT ![s] = f]
        BY <2>3 DEF Expire, RetryDue
      <3>2. entries[s] # None /\ entries[s] \in Entry
        BY <2>3 DEF Expire, RetryDue, Stages, Entries, TInv, TypeOK
      <3> QED BY <3>1, <3>2, TickEntry, UpdateSteady
    <2> QED BY <1>5, <2>1, <2>2, <2>3
  <1>6. CASE LoopStep
    <2>1. Expired \in SUBSET Session /\ Entries \in SUBSET Session
      BY DEF Expired, Entries
    <2>2. entries' = MarkClosing(Expired) \/ entries' = MarkClosing(Entries) \/ UNCHANGED entries
      BY <1>6 DEF LoopStep, sweep, SweepEntry, SweepDone, Drain, FinalSweep
    <2> QED BY <1>1, <1>2, <2>1, <2>2
  <1>7. CASE Stop \/ AuditFails \/ Finished \/ UNCHANGED vars
    BY <1>1, <1>7 DEF Stop, AuditFails, Finished, vars
  <1> QED BY <1>4, <1>5, <1>6, <1>7 DEF Next

\* markClosing is final: nothing in Admit, Claim or a late handler brings an entry
\* back that cancellation, expiry or shutdown has marked.
THEOREM ClosingStaysClosing == Spec => ClosingIsFinal
  <1>1. TInv /\ [Next]_vars =>
          [\A s \in Session : Stages(s) = "closing" => Stages(s)' \in {"closing", "none"}]_vars
    BY EntryChanges DEF KeepsClosing
  <1> QED BY <1>1, TInvariance, PTL DEF Spec, ClosingIsFinal

-----------------------------------------------------------------------------
(* The quotas. *)

\* WithinQuota, said of every session whether it holds an entry or not.
QuotaHeld ==
  /\ IsFiniteSet(Entries)
  /\ Cardinality(Entries) <= Global
  /\ \A s \in Session :
       /\ Cardinality({t \in Entries : OwnerOf[t] = OwnerOf[s]}) <= PerPrincipal
       /\ Cardinality({t \in Entries : NamespaceOf[t] = NamespaceOf[s]}) <= PerNamespace
       /\ Cardinality(Placed(s)) <= PerNode

\* A set that only loses elements keeps within a limit.
LEMMA Fewer ==
  ASSUME NEW S, NEW T \in SUBSET S, IsFiniteSet(S), NEW limit \in Nat, Cardinality(S) <= limit
  PROVE  IsFiniteSet(T) /\ Cardinality(T) <= limit
  BY FS_Subset, FS_CardinalityType

\* A set below a limit may gain an element.
LEMMA OneMore ==
  ASSUME NEW S, NEW x, NEW T \in SUBSET (S \cup {x}), IsFiniteSet(S),
         NEW limit \in Nat, Cardinality(S) < limit
  PROVE  IsFiniteSet(T) /\ Cardinality(T) <= limit
  <1>1. IsFiniteSet(S \cup {x})
        /\ Cardinality(S \cup {x}) = IF x \in S THEN Cardinality(S) ELSE Cardinality(S) + 1
    BY FS_AddElement
  <1>2. Cardinality(S) \in Nat
    BY FS_CardinalityType
  <1>3. Cardinality(S \cup {x}) <= limit
    BY <1>1, <1>2
  <1> QED BY <1>1, <1>3, Fewer

LEMMA EntriesFinite ==
  ASSUME QuotaHeld, NEW T \in SUBSET Entries
  PROVE  IsFiniteSet(T)
  BY FS_Subset DEF QuotaHeld

LEMMA QuotaStep ==
  ASSUME TInv, QuotaHeld, [Next]_vars
  PROVE  QuotaHeld'
  <1> USE PolicyAssumption
  <1>1. CASE Steady
    <2>1. Entries' \subseteq Entries /\ \A s \in Session : Placed(s)' \subseteq Placed(s)
      BY <1>1 DEF Entries, Placed, Steady
    <2>2. IsFiniteSet(Entries') /\ Cardinality(Entries') <= Global
      BY <2>1, Fewer DEF QuotaHeld
    <2>3. ASSUME NEW s \in Session
          PROVE  /\ Cardinality({t \in Entries' : OwnerOf[t] = OwnerOf[s]}) <= PerPrincipal
                 /\ Cardinality({t \in Entries' : NamespaceOf[t] = NamespaceOf[s]}) <= PerNamespace
                 /\ Cardinality(Placed(s)') <= PerNode
      <3>1. Cardinality({t \in Entries' : OwnerOf[t] = OwnerOf[s]}) <= PerPrincipal
        <4>1. IsFiniteSet({t \in Entries : OwnerOf[t] = OwnerOf[s]})
          BY EntriesFinite
        <4> QED BY <2>1, <4>1, Fewer DEF QuotaHeld
      <3>2. Cardinality({t \in Entries' : NamespaceOf[t] = NamespaceOf[s]}) <= PerNamespace
        <4>1. IsFiniteSet({t \in Entries : NamespaceOf[t] = NamespaceOf[s]})
          BY EntriesFinite
        <4> QED BY <2>1, <4>1, Fewer DEF QuotaHeld
      <3>3. Cardinality(Placed(s)') <= PerNode
        <4>1. IsFiniteSet(Placed(s))
          BY EntriesFinite DEF Placed
        <4> QED BY <2>1, <4>1, Fewer DEF QuotaHeld
      <3> QED BY <3>1, <3>2, <3>3
    <2> QED BY <2>2, <2>3 DEF QuotaHeld
  <1>2. ASSUME NEW s \in Session, reserve(s)
        PROVE  QuotaHeld'
    <2>1. HasCapacity(s) /\ \A t \in Session : t # s => entries'[t] = entries[t]
      BY <1>2 DEF reserve, TInv, TypeOK
    <2>2. entries'[s] # None => ~entries'[s].placed
      BY <1>2 DEF reserve, TInv, TypeOK
    <2>3. Entries' \subseteq Entries \cup {s} /\ \A t \in Session : Placed(t)' \subseteq Placed(t)
      BY <2>1, <2>2 DEF Entries, Placed
    <2>4. IsFiniteSet(Entries') /\ Cardinality(Entries') <= Global
      BY <2>1, <2>3, OneMore DEF QuotaHeld, HasCapacity
    <2>5. ASSUME NEW t \in Session
          PROVE  Cardinality({u \in Entries' : OwnerOf[u] = OwnerOf[t]}) <= PerPrincipal
      <3> DEFINE S == {u \in Entries : OwnerOf[u] = OwnerOf[t]}
                 T == {u \in Entries' : OwnerOf[u] = OwnerOf[t]}
      <3>1. IsFiniteSet(S) /\ Cardinality(S) <= PerPrincipal
        BY EntriesFinite DEF QuotaHeld
      <3>2. CASE OwnerOf[s] = OwnerOf[t]
        <4>1. S = {u \in Entries : OwnerOf[u] = OwnerOf[s]}
          BY <3>2
        <4>2. Cardinality(S) < PerPrincipal
          BY <2>1, <4>1 DEF HasCapacity
        <4>3. T \in SUBSET (S \cup {s})
          BY <2>3
        <4> HIDE DEF S, T
        <4> QED BY <3>1, <4>2, <4>3, OneMore DEF T
      <3>3. CASE OwnerOf[s] # OwnerOf[t]
        <4>1. T \in SUBSET S
          BY <2>3, <3>3
        <4> HIDE DEF S, T
        <4> QED BY <3>1, <4>1, Fewer DEF T
      <3> QED BY <3>2, <3>3
    <2>6. ASSUME NEW t \in Session
          PROVE  Cardinality({u \in Entries' : NamespaceOf[u] = NamespaceOf[t]}) <= PerNamespace
      <3> DEFINE S == {u \in Entries : NamespaceOf[u] = NamespaceOf[t]}
                 T == {u \in Entries' : NamespaceOf[u] = NamespaceOf[t]}
      <3>1. IsFiniteSet(S) /\ Cardinality(S) <= PerNamespace
        BY EntriesFinite DEF QuotaHeld
      <3>2. CASE NamespaceOf[s] = NamespaceOf[t]
        <4>1. S = {u \in Entries : NamespaceOf[u] = NamespaceOf[s]}
          BY <3>2
        <4>2. Cardinality(S) < PerNamespace
          BY <2>1, <4>1 DEF HasCapacity
        <4>3. T \in SUBSET (S \cup {s})
          BY <2>3
        <4> HIDE DEF S, T
        <4> QED BY <3>1, <4>2, <4>3, OneMore DEF T
      <3>3. CASE NamespaceOf[s] # NamespaceOf[t]
        <4>1. T \in SUBSET S
          BY <2>3, <3>3
        <4> HIDE DEF S, T
        <4> QED BY <3>1, <4>1, Fewer DEF T
      <3> QED BY <3>2, <3>3
    <2>7. ASSUME NEW t \in Session PROVE Cardinality(Placed(t)') <= PerNode
      <3>1. IsFiniteSet(Placed(t))
        BY EntriesFinite DEF Placed
      <3> QED BY <2>3, <3>1, Fewer DEF QuotaHeld
    <2> QED BY <2>4, <2>5, <2>6, <2>7 DEF QuotaHeld
  <1>3. ASSUME NEW s \in Session, assignNode(s)
        PROVE  QuotaHeld'
    <2>1. /\ Cardinality(Placed(s)) < PerNode
          /\ \A t \in Session : t # s => entries'[t] = entries[t]
      BY <1>3 DEF assignNode, HasRoom, TInv, TypeOK
    <2>2. entries[s] # None /\ entries'[s] # None
      <3>1. entries[s] # None /\ entries[s] \in Entry
        BY <1>3 DEF assignNode, create, Early, TInv, TypeOK, Initializing
      <3>2. entries'[s] \in Entry
        BY <1>3, <3>1, EntryUpdate DEF assignNode, TInv, TypeOK
      <3> QED BY <3>1, <3>2, NoneAssumption
    <2>3. Entries' = Entries
      BY <2>1, <2>2 DEF Entries
    <2>4. ASSUME NEW t \in Session PROVE Cardinality(Placed(t)') <= PerNode
      <3>1. IsFiniteSet(Placed(t)) /\ Cardinality(Placed(t)) <= PerNode
        BY EntriesFinite DEF Placed, QuotaHeld
      <3>2. CASE NodeOf[s] = NodeOf[t]
        <4>1. Placed(t)' \in SUBSET (Placed(t) \cup {s}) /\ Placed(t) = Placed(s)
          BY <2>1, <3>2 DEF Placed, Entries
        <4> QED BY <2>1, <3>1, <4>1, OneMore
      <3>3. CASE NodeOf[s] # NodeOf[t]
        <4>1. Placed(t)' \in SUBSET Placed(t)
          BY <2>1, <3>3 DEF Placed, Entries
        <4> QED BY <3>1, <4>1, Fewer
      <3> QED BY <3>2, <3>3
    <2> QED BY <2>3, <2>4 DEF QuotaHeld
  <1> QED BY <1>1, <1>2, <1>3, EntryChanges

LEMMA QuotaInit ==
  ASSUME Init
  PROVE  QuotaHeld
  <1>1. Entries = {} /\ \A s \in Session : Placed(s) = {}
    BY DEF Init, Entries, Placed
  <1>2. \A s \in Session : {t \in Entries : OwnerOf[t] = OwnerOf[s]} = {}
                           /\ {t \in Entries : NamespaceOf[t] = NamespaceOf[s]} = {}
    BY <1>1
  <1> QED BY <1>1, <1>2, FS_EmptySet, PolicyAssumption DEF QuotaHeld

\* HasCapacity and assignNode keep the Policy's limits for any number of sessions,
\* principals, namespaces and nodes, although a reservation, the choice of its node
\* and its release are sections of their own.
THEOREM QuotasKept == Spec => []WithinQuota
  <1>1. Init => QuotaHeld
    BY QuotaInit
  <1>2. TInv /\ QuotaHeld /\ [Next]_vars => QuotaHeld'
    BY QuotaStep
  <1>3. QuotaHeld => WithinQuota
    BY DEF QuotaHeld, WithinQuota, Entries
  <1> QED BY <1>1, <1>2, <1>3, TInvariance, PTL DEF Spec

-----------------------------------------------------------------------------
(* TraceAdmission implements TraceQuota. *)

Working == {s \in Session : work[s] \in {"asked", "running"}}

\* A step that the quotas do not see.
Unseen == Entries' = Entries /\ Working' = Working

\* A step after which the work of s is gone.
WorkEnds(s) == Entries' = Entries /\ s \in Working /\ Working' = Working \ {s}

\* An update that keeps every entry keeps the set of entries.
LEMMA SofterUnseen ==
  ASSUME Softer
  PROVE  Entries' = Entries
  BY DEF Softer, Entries

LEMMA UpdateUnseen ==
  ASSUME TInv, NEW s \in Session, entries[s] # None, NEW f \in Entry, entries' = [entries EXCEPT ![s] = f]
  PROVE  Entries' = Entries
  BY NoneAssumption DEF TInv, TypeOK, Entries

LEMMA AdmitSeen ==
  ASSUME TInv, NEW s \in Session, AdmitStep(s)
  PROVE  reserve(s) \/ assignNode(s) \/ Unseen \/ WorkEnds(s)
  <1>1. pc[create(s)] \in Early => entries[s] # None /\ entries[s] \in Entry
    BY DEF TInv, TypeOK, Initializing
  <1>2. CASE BindReturns(s)
    <2>1. entries[s] # None /\ entries[s] \in Entry
      BY <1>1, <1>2 DEF BindReturns, create, Early
    <2>2. entries' = [entries EXCEPT ![s] = [entries[s] EXCEPT !.binding = TRUE]] \/ UNCHANGED entries
      BY <1>2 DEF BindReturns
    <2>3. Entries' = Entries
      BY <2>1, <2>2, EntryUpdate, UpdateUnseen DEF Entries
    <2>4. Working' = IF work[s] = "asked" THEN Working \ {s} ELSE Working
      BY <1>2 DEF BindReturns, Working, TInv, TypeOK
    <2>5. work[s] = "asked" => s \in Working
      BY DEF Working
    <2> QED BY <2>3, <2>4, <2>5 DEF Unseen, WorkEnds
  <1>3. CASE AdmitFails(s)
    BY <1>3 DEF AdmitFails, Unseen, Entries, Working
  <1>4. CASE Admit(s) \/ finishAdmission(s)
    <2>1. entries[s] # None /\ entries[s] \in Entry
      BY <1>1, <1>4 DEF Admit, finishAdmission, create, Early
    <2>2. \/ entries' = [entries EXCEPT ![s] = [entries[s] EXCEPT !.stage = "admitted"]]
          \/ entries' = [entries EXCEPT ![s] = [entries[s] EXCEPT !.initializing = FALSE]]
      BY <1>4 DEF Admit, finishAdmission
    <2>3. Entries' = Entries
      BY <2>1, <2>2, EntryUpdate, UpdateUnseen
    <2> QED BY <1>4, <2>3 DEF Admit, finishAdmission, Unseen, Working
  <1> QED BY <1>2, <1>3, <1>4 DEF AdmitStep

LEMMA CloseSeen ==
  ASSUME TInv, NEW p \in Process, CloseStep(p)
  PROVE  Unseen \/ Confirm(p)
  <1> DEFINE s == p[2]
             e == entries[s]
  <1>1. s \in Session
    BY ProcessShape
  <1>2. CASE UNCHANGED <<entries, work>>
    BY <1>2 DEF Unseen, Entries, Working
  <1>3. CASE entries' = MarkClosing({s}) /\ UNCHANGED work
    BY <1>1, <1>3, MarkFact, SofterUnseen DEF Unseen, Working
  <1>4. CASE e # None /\ entries' = [entries EXCEPT ![s].cleanupRunning = TRUE] /\ UNCHANGED work
    <2>1. e \in Entry
      BY <1>1, <1>4 DEF TInv, TypeOK
    <2>2. entries' = [entries EXCEPT ![s] = [e EXCEPT !.cleanupRunning = TRUE]]
      BY <1>4
    <2> QED BY <1>1, <1>4, <2>1, <2>2, EntryUpdate, UpdateUnseen DEF Unseen, Working
  <1>5. CASE /\ e # None /\ UNCHANGED work
             /\ entries' = [entries EXCEPT ![s].cleanupRunning = FALSE, ![s].backoff = TRUE]
    <2>1. e \in Entry
      BY <1>1, <1>5 DEF TInv, TypeOK
    <2> DEFINE f == [e EXCEPT !.cleanupRunning = FALSE, !.backoff = TRUE]
    <2>2. entries' = [entries EXCEPT ![s] = f]
      BY <1>1, <1>5 DEF TInv, TypeOK
    <2>3. f \in Entry
      BY <2>1, EntryUpdate
    <2> HIDE DEF f
    <2> QED BY <1>1, <1>5, <2>2, <2>3, UpdateUnseen DEF Unseen, Working
  <1>6. pc[p] = "cleaning" => e # None
    BY DEF TInv, CleanersHold
  <1> QED BY <1>2, <1>3, <1>4, <1>5, <1>6
          DEF CloseStep, Discard, closeEntry, Joined, Unconfirmed, RecordCleanup

LEMMA HandlerSeen ==
  ASSUME TInv, NEW p \in Process, owned(p) \/ Denied(p) \/ Handler(p)
  PROVE  \/ Unseen \/ Confirm(p)
         \/ reserve(p[2]) \/ assignNode(p[2]) \/ WorkEnds(p[2])
  <1>1. p[2] \in Session
    BY ProcessShape
  <1>2. CASE owned(p) \/ Denied(p) \/ GiveUp(p) \/ Refuse(p) \/ Get(p[2])
    BY <1>2 DEF owned, Denied, GiveUp, Refuse, Get, Unseen, Entries, Working
  <1>3. CASE Claim(p[2])
    <2> DEFINE e == entries[p[2]]
               f == [e EXCEPT !.stage = "active", !.consumerRunning = TRUE]
    <2>1. e # None /\ e \in Entry
      BY <1>1, <1>3 DEF Claim, Stages, TInv, TypeOK
    <2>2. entries' = [entries EXCEPT ![p[2]] = f]
      BY <1>1, <1>3 DEF Claim, TInv, TypeOK
    <2>3. f \in Entry
      BY <2>1, ActiveEntry
    <2> HIDE DEF f
    <2> QED BY <1>1, <1>3, <2>1, <2>2, <2>3, UpdateUnseen DEF Unseen, Working, Claim
  <1>4. CASE ClaimReturns(p[2]) \/ EndStream(p[2])
    <2>1. entries' = EndConsumer(p[2]) \/ UNCHANGED entries
      BY <1>4 DEF ClaimReturns, EndStream
    <2>2. Entries' = Entries
      BY <1>1, <2>1, EndConsumerFact, SofterUnseen DEF Entries
    <2> QED BY <1>4, <2>2 DEF ClaimReturns, EndStream, Unseen, Working
  <1> QED BY <1>1, <1>2, <1>3, <1>4, CloseSeen, AdmitSeen DEF Handler

LEMMA OtherSeen ==
  ASSUME TInv, NEW s \in Session, Hangup(s) \/ Expire(s) \/ RetryDue(s) \/ NodeStep(s)
  PROVE  Unseen \/ WorkEnds(s)
  <1>1. CASE Hangup(s)
    BY <1>1, EndConsumerFact, SofterUnseen DEF Hangup, Unseen, Working
  <1>2. CASE NodeStep(s)
    BY <1>2 DEF NodeStep, Unseen, WorkEnds, Entries, Working, TInv, TypeOK
  <1>3. CASE Expire(s) \/ RetryDue(s)
    <2>1. PICK f \in {[entries[s] EXCEPT !.expired = TRUE], [entries[s] EXCEPT !.backoff = FALSE]} :
            entries' = [entries EXCEPT ![s] = f]
      BY <1>3 DEF Expire, RetryDue
    <2>2. entries[s] # None /\ entries[s] \in Entry /\ UNCHANGED work
      BY <1>3 DEF Expire, RetryDue, Stages, Entries, TInv, TypeOK
    <2> QED BY <2>1, <2>2, TickEntry, UpdateUnseen DEF Unseen, Working
  <1> QED BY <1>1, <1>2, <1>3

LEMMA StepSeen ==
  ASSUME TInv, [Next]_vars
  PROVE  \/ Unseen
         \/ \E p \in Process : Confirm(p)
         \/ \E s \in Session : reserve(s) \/ assignNode(s) \/ WorkEnds(s)
  <1>1. ASSUME NEW p \in Process, owned(p) \/ Denied(p) \/ Handler(p)
        PROVE  \/ Unseen \/ Confirm(p)
               \/ \E s \in Session : reserve(s) \/ assignNode(s) \/ WorkEnds(s)
    BY <1>1, HandlerSeen, ProcessShape
  <1>2. CASE LoopStep
    <2>1. Expired \in SUBSET Session /\ Entries \in SUBSET Session
      BY DEF Expired, Entries
    <2>2. /\ entries' = MarkClosing(Expired) \/ entries' = MarkClosing(Entries) \/ UNCHANGED entries
          /\ UNCHANGED work
      BY <1>2 DEF LoopStep, sweep, SweepEntry, SweepDone, Drain, FinalSweep
    <2>3. Entries' = Entries
      <3>1. CASE UNCHANGED entries
        BY <3>1 DEF Entries
      <3>2. CASE entries' = MarkClosing(Expired) \/ entries' = MarkClosing(Entries)
        BY <2>1, <3>2, MarkFact, SofterUnseen
      <3> QED BY <2>2, <3>1, <3>2
    <2> QED BY <2>2, <2>3 DEF Unseen, Working
  <1>3. CASE Stop \/ AuditFails \/ Finished \/ UNCHANGED vars
    BY <1>3 DEF Stop, AuditFails, Finished, vars, Unseen, Entries, Working
  <1> QED BY <1>1, <1>2, <1>3, OtherSeen DEF Next

\* TraceQuota counts as this module does.
LEMMA PromiseCounts ==
  ASSUME NEW S
  PROVE  Promise!Cardinality(S) = Cardinality(S)
  BY DEF Promise!Cardinality, Cardinality

LEMMA PromiseStep ==
  ASSUME TInv, QuotaHeld, QuotaHeld', [Next]_vars
  PROVE  [Promise!QNext]_<<Entries, Working>>
  <1>1. ASSUME NEW s \in Session, reserve(s)
        PROVE  Promise!Reserve(s)
    <2>1. entries[s] = None /\ \A t \in Session : t # s => entries'[t] = entries[t]
      BY <1>1 DEF reserve, create, TInv, TypeOK, Fresh
    <2>2. s \in Entries'
      <3>1. entries'[s] \in Entry
        BY <1>1 DEF reserve, TInv, TypeOK, Entry, Stage
      <3> QED BY <3>1, NoneAssumption DEF Entries
    <2>3. s \notin Entries /\ Entries' = Entries \cup {s}
      BY <2>1, <2>2 DEF Entries
    <2>4. ASSUME NEW q \in {<<Session, Global>>} \cup QuotaOf(OwnerOf, PerPrincipal)
                             \cup QuotaOf(NamespaceOf, PerNamespace)
          PROVE  Cardinality(Entries' \cap q[1]) <= q[2]
      <3>1. CASE q = <<Session, Global>>
        <4>1. Entries' \cap q[1] = Entries'
          BY <3>1 DEF Entries
        <4> QED BY <3>1, <4>1 DEF QuotaHeld
      <3>2. CASE q \in QuotaOf(OwnerOf, PerPrincipal)
        <4>1. PICK t \in Session : q = <<{u \in Session : OwnerOf[u] = OwnerOf[t]}, PerPrincipal>>
          BY <3>2 DEF QuotaOf
        <4>2. Entries' \cap q[1] = {u \in Entries' : OwnerOf[u] = OwnerOf[t]}
          BY <4>1 DEF Entries
        <4> QED BY <4>1, <4>2 DEF QuotaHeld
      <3>3. CASE q \in QuotaOf(NamespaceOf, PerNamespace)
        <4>1. PICK t \in Session : q = <<{u \in Session : NamespaceOf[u] = NamespaceOf[t]}, PerNamespace>>
          BY <3>3 DEF QuotaOf
        <4>2. Entries' \cap q[1] = {u \in Entries' : NamespaceOf[u] = NamespaceOf[t]}
          BY <4>1 DEF Entries
        <4> QED BY <4>1, <4>2 DEF QuotaHeld
      <3> QED BY <3>1, <3>2, <3>3
    <2>5. UNCHANGED Working
      BY <1>1 DEF reserve, Working
    <2> QED BY <2>3, <2>4, <2>5, PromiseCounts DEF Promise!Reserve, Promise!Within, Working
  <1>2. ASSUME NEW s \in Session, assignNode(s)
        PROVE  Promise!Start(s)
    <2>1. /\ entries[s] # None /\ entries[s] \in Entry /\ work[s] = "none"
          /\ entries' = [entries EXCEPT ![s].placed = TRUE]
          /\ work' = [work EXCEPT ![s] = "asked"]
      BY <1>2 DEF assignNode, create, Early, TInv, TypeOK, Initializing
    <2>2. entries' = [entries EXCEPT ![s] = [entries[s] EXCEPT !.placed = TRUE]]
      BY <2>1
    <2>3. Entries' = Entries
      BY <2>1, <2>2, EntryUpdate, UpdateUnseen
    <2>4. s \in Entries \ Working /\ Working' = Working \cup {s}
      BY <2>1 DEF Entries, Working, TInv, TypeOK
    <2>5. \A t \in Working' : t \in Entries' /\ entries'[t].placed
      BY <1>2, NextTInv DEF TInv, WorkHeld, Working, Entries
    <2>6. ASSUME NEW q \in QuotaOf(NodeOf, PerNode)
          PROVE  Cardinality(Working' \cap q[1]) <= q[2]
      <3>1. PICK t \in Session : q = <<{u \in Session : NodeOf[u] = NodeOf[t]}, PerNode>>
        BY DEF QuotaOf
      <3>2. Working' \cap q[1] \subseteq Placed(t)'
        BY <2>5, <3>1 DEF Placed, Entries
      <3>3. IsFiniteSet(Placed(t)') /\ Cardinality(Placed(t)') <= PerNode
        BY FS_Subset DEF QuotaHeld, Placed
      <3> QED BY <3>1, <3>2, <3>3, Fewer, PolicyAssumption
    <2> QED BY <2>3, <2>4, <2>6, PromiseCounts DEF Promise!Start, Promise!Within, Working
  <1>3. ASSUME NEW s \in Session, WorkEnds(s)
        PROVE  Promise!Stop(s)
    BY <1>3 DEF WorkEnds, Working, Promise!Stop
  <1>4. ASSUME NEW p \in Process, Confirm(p)
        PROVE  Promise!Release(p[2])
    <2> DEFINE s == p[2]
    <2>1. /\ s \in Session /\ entries[s] # None
          /\ work' = [work EXCEPT ![s] = IF entries[s].binding THEN "gone" ELSE work[s]]
          /\ entries' = [entries EXCEPT ![s] = None]
      BY <1>4, ProcessShape DEF Confirm, TInv, CleanersHold
    <2>2. s \notin Working'
      <3>1. pc[p] = "cleaning"
        BY <1>4 DEF Confirm
      <3>2. pc[create(s)] # "binding"
        BY <3>1, ProcessShape DEF TInv, Alone, Early
      <3> QED BY <2>1, <3>2 DEF Working, TInv, TypeOK, WorkHeld
    <2>3. /\ s \in Entries /\ Entries' = Entries \ {s}
          /\ Working' = Working \ {s}
      BY <2>1, <2>2 DEF Entries, Working, TInv, TypeOK
    <2> QED BY <2>3 DEF Promise!Release, Working
  <1>5. CASE Unseen
    BY <1>5 DEF Unseen
  <1>6. CASE \E p \in Process : Confirm(p)
    BY <1>4, <1>6, ProcessShape DEF Promise!QNext
  <1>7. CASE \E s \in Session : reserve(s) \/ assignNode(s) \/ WorkEnds(s)
    BY <1>1, <1>2, <1>3, <1>7 DEF Promise!QNext
  <1> QED BY <1>5, <1>6, <1>7, StepSeen

\* Admission, cancellation, expiry and shutdown together do what TraceQuota
\* promises: every step reserves a slot, starts work within it, ends work, gives the
\* slot back with the work gone, or is not seen by the quotas.
THEOREM QuotaImplemented == Spec => ImplementsQuota
  <1>1. Init => Promise!QInit
    BY DEF Init, Promise!QInit, Entries
  <1>2. Init => QuotaHeld
    BY QuotaInit
  <1>3. TInv /\ QuotaHeld /\ [Next]_vars => QuotaHeld'
    BY QuotaStep
  <1>4. TInv /\ QuotaHeld /\ QuotaHeld' /\ [Next]_vars => [Promise!QNext]_<<Entries, Working>>
    BY PromiseStep
  <1> QED BY <1>1, <1>2, <1>3, <1>4, TInvariance, PTL DEF Spec, ImplementsQuota, Promise!QSpec, Working
=============================================================================
