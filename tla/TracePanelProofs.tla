-------------------------- MODULE TracePanelProofs --------------------------
(***************************************************************************)
(* Theorems about TraceClient and TracePanel for any number of selections  *)
(* and any set of commands.                                                *)
(*                                                                         *)
(* SessionsSound says of one session what its sections under s.mu may rely *)
(* on: which tasks go with which states, and what its record implies of    *)
(* the controller.  PanelSound says that of the panel's sessions only that *)
(* of the current selection is neither new nor at its end.                 *)
(***************************************************************************)
EXTENDS TracePanel, TLAPS

AdmissionState == {"none", "asked", "refused", "pending", "active", "ending", "gone"}
StreamState == Termination \cup {"none", "requested", "open"}

\* States in which nothing of the session goes on.
Quiet == {"new", "ready", "admitted"} \cup TerminalState

\* Of a session's record s, its admission a and its stream t.
SoundOf(s, a, t) ==
  /\ s \in Record /\ a \in AdmissionState /\ t \in StreamState
  \* Nothing goes on before Start, in a session at rest and after the end.
  /\ s.state \in {"new", "ready"} => s.task = "none" /\ ~s.cancelRequested
                                     /\ s.cleanup = "not_requested"
  /\ s.state = "preflight" => s.task = "preparing"
  /\ s.state = "admitted" => s.task = "none" /\ s.id /\ ~s.cancelRequested /\ s.delete = "none"
  /\ s.task = "none" => s.state \in Quiet
  /\ Terminal(s) => s.task = "none" /\ s.delete \notin {"sent", "done"}
  \* What a task has found out.
  /\ s.task = "preparing" => s.cleanup = "not_requested"
  /\ s.task \in {"creating", "posting"} => s.cleanup # "not_requested"
  /\ s.task = "creating" /\ ~s.id => a = "none"
  /\ s.task = "posting" => ~s.id
  /\ s.task \in {"watching", "refusing", "closing", "cancelling"} => s.id
  \* What is known of the controller.
  /\ s.cleanup = "not_requested" => a = "none" /\ ~s.id
  /\ s.cleanup = "confirmed" => s.delete = "confirmed"
  /\ s.id \/ s.delete = "none"
  /\ s.delete \in {"done", "confirmed"} => a = "gone"
  /\ t \in Termination \/ s.result \in Termination => a \in {"ending", "gone"}
  /\ Terminal(s) /\ s.id => Answered(s)
  /\ Terminal(s) /\ s.state # "failed" => a \notin {"asked", "pending", "active"}

SessionsSound ==
  /\ session \in [Session -> Record] /\ over \subseteq Session
  /\ admission \in [Session -> AdmissionState] /\ stream \in [Session -> StreamState]
  /\ \A k \in Session : SoundOf(session[k], admission[k], stream[k])

PanelSound ==
  /\ panel \in Panel /\ fetching \subseteq Own
  /\ panel.held \/ panel.loading \/ panel.target => g \in Own
  \* Of the other sessions nothing goes on.
  /\ \A k \in Own \ {g} : k \notin fetching /\ session[k].state \in {"new"} \cup TerminalState
  /\ \A k \in Own : k > g => session[k].state = "new"
  \* The session of the selection is with its command, or with the panel.
  /\ g \in Own /\ ~panel.held =>
       session[g].state \in {"new", "preflight", "ready"} \cup TerminalState
  /\ g \in Own /\ ~panel.held /\ ~panel.loading => session[g].state = "new"
  /\ ~panel.loading \/ panel.held => fetching = {}
  /\ panel.held => ~panel.loading
  /\ panel.held /\ panel.snapshot \in TerminalState => Terminal(session[g])
  /\ panel.held /\ panel.revoked => session[g].cancelRequested \/ Terminal(session[g])
  /\ panel.mode = "quitting" => panel.held
  /\ panel.mode = "ok" /\ panel.held => admission[g] \in {"none", "gone"}

PInv == SessionsSound /\ PanelSound

-----------------------------------------------------------------------------
(* Sections under s.mu. *)

LEMMA FinishFields ==
  ASSUME NEW s \in Record, NEW state \in TerminalState, ~Terminal(s)
  PROVE  LET f == finish(s, state) IN
         /\ f \in Record /\ f.state = state /\ f.task = "none" /\ f.result = "none"
         /\ f.cancelRequested = s.cancelRequested /\ f.id = s.id
         /\ f.cleanup = s.cleanup /\ f.delete = s.delete
  BY DEF finish, Record, State

\* What begins a cancellation may be called in every state.
LEMMA CancelSound ==
  ASSUME NEW s, NEW a, NEW t, SoundOf(s, a, t)
  PROVE  /\ SoundOf(Cancel(s), a, t)
         /\ Cancel(s).cancelRequested \/ Terminal(Cancel(s))
         /\ Terminal(s) => Cancel(s) = s
         /\ s.state \in {"new", "ready"} => Terminal(Cancel(s))
         /\ s.cancelRequested => Cancel(s).cancelRequested
         /\ Cancel(s).task = "creating" => s.task = "creating"
  <1>1. s \in Record
    BY DEF SoundOf
  <1>2. CASE Terminal(s) \/ s.cancelRequested
    BY <1>2 DEF Cancel, SoundOf
  <1> DEFINE c == [s EXCEPT !.cancelRequested = TRUE]
             d == [c EXCEPT !.state = "cancelling"]
  <1>3. /\ c \in Record /\ c.cancelRequested = TRUE /\ c.state = s.state /\ c.task = s.task
        /\ c.id = s.id /\ c.cleanup = s.cleanup /\ c.delete = s.delete /\ c.result = s.result
    BY <1>1 DEF Record
  <1>4. /\ d \in Record /\ d.cancelRequested = TRUE /\ d.state = "cancelling" /\ d.task = s.task
        /\ d.id = s.id /\ d.cleanup = s.cleanup /\ d.delete = s.delete /\ d.result = s.result
    BY <1>1 DEF Record, State
  <1>5. CASE ~Terminal(s) /\ ~s.cancelRequested /\ s.state \in {"new", "ready"}
    <2> DEFINE f == finish(c, "cancelled")
    <2>1. Cancel(s) = f
      BY <1>5 DEF Cancel
    <2>2. ~Terminal(c)
      BY <1>3, <1>5 DEF Terminal
    <2>3. /\ f \in Record /\ f.state = "cancelled" /\ f.task = "none" /\ f.result = "none"
          /\ f.cancelRequested /\ f.id = s.id /\ f.cleanup = s.cleanup /\ f.delete = s.delete
      BY <1>3, <2>2, FinishFields DEF TerminalState
    <2> HIDE DEF f, c, d
    <2> QED BY <1>5, <2>1, <2>3 DEF SoundOf, Terminal, TerminalState, Answered, Termination, Quiet
  <1>6. CASE ~Terminal(s) /\ ~s.cancelRequested /\ s.state \notin {"new", "ready"}
    <2> DEFINE b == beginCancellation(d)
               e == [b EXCEPT !.task = "cancelling"]
    <2>1. Cancel(s) = IF s.state = "admitted" THEN e ELSE IF s.id THEN b ELSE d
      BY <1>6 DEF Cancel
    <2>2. /\ b \in Record /\ b.cancelRequested = TRUE /\ b.state = "cancelling" /\ b.task = s.task
          /\ b.id = s.id /\ b.cleanup = s.cleanup /\ b.result = s.result
          /\ b.delete = IF s.delete = "none" THEN "sent" ELSE s.delete
      BY <1>4 DEF beginCancellation, Record
    <2> HIDE DEF b, c, d
    <2>3. /\ e \in Record /\ e.cancelRequested = TRUE /\ e.state = "cancelling"
          /\ e.task = "cancelling" /\ e.id = s.id /\ e.cleanup = s.cleanup /\ e.result = s.result
          /\ e.delete = b.delete
      BY <2>2 DEF Record
    <2> HIDE DEF e
    <2>4. CASE s.state = "admitted"
      BY <1>6, <2>1, <2>2, <2>3, <2>4 DEF SoundOf, Terminal, TerminalState, Answered, Termination, Quiet
    <2>5. CASE s.state # "admitted" /\ s.id
      BY <1>6, <2>1, <2>2, <2>5 DEF SoundOf, Terminal, TerminalState, Answered, Termination, Quiet
    <2>6. CASE s.state # "admitted" /\ ~s.id
      BY <1>4, <1>6, <2>1, <2>6 DEF SoundOf, Terminal, TerminalState, Answered, Termination, Quiet
    <2> QED BY <2>4, <2>5, <2>6
  <1> QED BY <1>2, <1>5, <1>6

-----------------------------------------------------------------------------
(* The steps of one session. *)

\* Session k becomes s, with the admission a and the stream t; the others stay.
SessionMoves(k, s, a, t) ==
  /\ session' = [session EXCEPT ![k] = s] /\ admission' = [admission EXCEPT ![k] = a]
  /\ stream' = [stream EXCEPT ![k] = t] /\ over' \subseteq Session

\* A step of a session's own goroutines, from the record s and the admission a.
Goes(s, a, n, b) ==
  /\ s.state \notin Quiet
  /\ s.cancelRequested => n.cancelRequested
  /\ s.state = "preflight" => n.state \in {"ready"} \cup TerminalState
  /\ b = a \/ (s.task = "creating" /\ ~s.cancelRequested)

LEMMA MovesSound ==
  ASSUME SessionsSound, NEW k \in Session, NEW s, NEW a, NEW t, SoundOf(s, a, t),
         SessionMoves(k, s, a, t)
  PROVE  /\ SessionsSound'
         /\ session'[k] = s /\ admission'[k] = a
         /\ \A j \in Session \ {k} : session'[j] = session[j] /\ admission'[j] = admission[j]
  <1>1. s \in Record /\ a \in AdmissionState /\ t \in StreamState
    BY DEF SoundOf
  <1>2. /\ session' \in [Session -> Record] /\ over' \subseteq Session
        /\ admission' \in [Session -> AdmissionState] /\ stream' \in [Session -> StreamState]
    BY <1>1 DEF SessionsSound, SessionMoves
  <1>3. /\ session'[k] = s /\ admission'[k] = a /\ stream'[k] = t
        /\ \A j \in Session \ {k} : /\ session'[j] = session[j] /\ admission'[j] = admission[j]
                                    /\ stream'[j] = stream[j]
    BY DEF SessionsSound, SessionMoves
  <1>4. ASSUME NEW j \in Session
        PROVE  SoundOf(session'[j], admission'[j], stream'[j])
    <2>1. CASE j = k
      BY <1>3, <2>1
    <2>2. CASE j # k
      BY <1>3, <2>2 DEF SessionsSound
    <2> QED BY <2>1, <2>2
  <1> QED BY <1>2, <1>3, <1>4 DEF SessionsSound

\* What is left alone is what it was.
LEMMA MovesHere ==
  ASSUME SessionsSound, NEW k \in Session, NEW s, Becomes(k, s),
         UNCHANGED over \/ over' \subseteq Session,
         NEW a, (UNCHANGED admission /\ a = admission[k]) \/ admission' = [admission EXCEPT ![k] = a],
         NEW t, (UNCHANGED stream /\ t = stream[k]) \/ stream' = [stream EXCEPT ![k] = t]
  PROVE  SessionMoves(k, s, a, t)
  BY DEF SessionMoves, SessionsSound, Becomes

LEMMA PrepareEndsMoves ==
  ASSUME SessionsSound, NEW k \in Session, PrepareEnds(k)
  PROVE  \E s, a, t : SessionMoves(k, s, a, t) /\ SoundOf(s, a, t) /\ Goes(session[k], admission[k], s, a)
  <1> DEFINE s == session[k]
             a == admission[k]
             t == stream[k]
  <1>1. SoundOf(s, a, t) /\ s \in Record /\ s.task = "preparing" /\ UNCHANGED <<over, admission, stream>>
    BY DEF SessionsSound, PrepareEnds
  <1>2. ~Terminal(s) /\ s.state \notin Quiet
    BY <1>1 DEF SoundOf, Terminal, Quiet
  <1>3. ASSUME NEW state \in TerminalState, Becomes(k, finish(s, state))
        PROVE  \E n, b, u : SessionMoves(k, n, b, u) /\ SoundOf(n, b, u) /\ Goes(s, a, n, b)
    <2> DEFINE f == finish(s, state)
    <2>1. /\ f \in Record /\ f.state = state /\ f.task = "none" /\ f.result = "none"
          /\ f.cancelRequested = s.cancelRequested /\ f.id = s.id
          /\ f.cleanup = s.cleanup /\ f.delete = s.delete
      BY <1>1, <1>2, FinishFields
    <2>2. SessionMoves(k, f, a, t)
      BY <1>1, <1>3, MovesHere
    <2> HIDE DEF f, s, a, t
    <2>3. SoundOf(f, a, t)
      BY <1>1, <2>1 DEF SoundOf, Terminal, TerminalState, Quiet, Termination
    <2>4. Goes(s, a, f, a)
      BY <1>2, <2>1 DEF Goes
    <2> QED BY <2>2, <2>3, <2>4
  <1>4. ASSUME ~Stopped(k), Becomes(k, [s EXCEPT !.state = "ready", !.task = "none"])
        PROVE  \E n, b, u : SessionMoves(k, n, b, u) /\ SoundOf(n, b, u) /\ Goes(s, a, n, b)
    <2> DEFINE f == [s EXCEPT !.state = "ready", !.task = "none"]
    <2>1. /\ f \in Record /\ f.state = "ready" /\ f.task = "none" /\ f.result = s.result
          /\ f.cancelRequested = s.cancelRequested /\ f.id = s.id
          /\ f.cleanup = s.cleanup /\ f.delete = s.delete
      BY <1>1 DEF Record, State
    <2>2. SessionMoves(k, f, a, t)
      BY <1>1, <1>4, MovesHere
    <2>3. ~s.cancelRequested
      BY <1>4 DEF Stopped
    <2> HIDE DEF f, s, a, t
    <2>4. SoundOf(f, a, t)
      BY <1>1, <2>1, <2>3 DEF SoundOf, Terminal, TerminalState, Quiet
    <2>5. Goes(s, a, f, a)
      BY <1>2, <2>1, <2>3 DEF Goes
    <2> QED BY <2>2, <2>4, <2>5
  <1> QED BY <1>3, <1>4 DEF PrepareEnds, TerminalState

\* What run does with an admission that it has: a DELETE or a watch.
LEMMA CreatedSound ==
  ASSUME NEW s, NEW a, NEW t, SoundOf(s, a, t), s.task \in {"creating", "posting"},
         a # "none" \/ s.id, NEW err \in BOOLEAN
  PROVE  LET c == Created(s, err) IN
         /\ SoundOf(c, a, t) /\ SoundOf(c, a, "requested")
         /\ c.cancelRequested = s.cancelRequested
  <1> DEFINE d == [s EXCEPT !.id = TRUE, !.createErr = err]
             b == beginCancellation(d)
             r == [b EXCEPT !.task = "refusing"]
             w == [d EXCEPT !.task = "watching", !.state = "running"]
  <1>1. Created(s, err) = IF err \/ s.cancelRequested THEN r ELSE w
    BY DEF Created
  <1>2. s \in Record
    BY DEF SoundOf
  <1>3. /\ d \in Record /\ d.id = TRUE /\ d.state = s.state /\ d.task = s.task
        /\ d.cancelRequested = s.cancelRequested /\ d.cleanup = s.cleanup
        /\ d.delete = s.delete /\ d.result = s.result
    BY <1>2 DEF Record
  <1> HIDE DEF d
  <1>4. /\ b \in Record /\ b.id = TRUE /\ b.state = s.state /\ b.task = s.task
        /\ b.cancelRequested = s.cancelRequested /\ b.cleanup = s.cleanup
        /\ b.delete = (IF s.delete = "none" THEN "sent" ELSE s.delete) /\ b.result = s.result
    BY <1>3 DEF beginCancellation, Record
  <1> HIDE DEF b
  <1>5. /\ r \in Record /\ r.id = TRUE /\ r.state = s.state /\ r.task = "refusing"
        /\ r.cancelRequested = s.cancelRequested /\ r.cleanup = s.cleanup
        /\ r.delete = b.delete /\ r.result = s.result
    BY <1>4 DEF Record
  <1>6. /\ w \in Record /\ w.id = TRUE /\ w.state = "running" /\ w.task = "watching"
        /\ w.cancelRequested = s.cancelRequested /\ w.cleanup = s.cleanup
        /\ w.delete = s.delete /\ w.result = s.result
    BY <1>3 DEF Record, State
  <1> HIDE DEF r, w
  <1>7. SoundOf(r, a, t) /\ SoundOf(r, a, "requested")
    BY <1>4, <1>5 DEF SoundOf, Terminal, TerminalState, Quiet, Termination, StreamState
  <1>8. SoundOf(w, a, t) /\ SoundOf(w, a, "requested")
    BY <1>6 DEF SoundOf, Terminal, TerminalState, Quiet, Termination, StreamState
  <1> QED BY <1>1, <1>5, <1>6, <1>7, <1>8

\* Create has an admission; Watch may follow.
LEMMA CreatedMoves ==
  ASSUME SessionsSound, NEW k \in Session, session[k].task \in {"creating", "posting"},
         admission[k] # "none" \/ session[k].id, NEW err \in BOOLEAN,
         Becomes(k, Created(session[k], err)), Watched(k), UNCHANGED <<over, admission>>
  PROVE  \E s, a, t : SessionMoves(k, s, a, t) /\ SoundOf(s, a, t) /\ Goes(session[k], admission[k], s, a)
  <1> DEFINE s == session[k]
             a == admission[k]
             c == Created(s, err)
             t == IF session'[k].task = "watching" THEN "requested" ELSE stream[k]
  <1>1. SoundOf(s, a, stream[k])
    BY DEF SessionsSound
  <1>2. SoundOf(c, a, t) /\ c.cancelRequested = s.cancelRequested
    BY <1>1, CreatedSound
  <1>3. (UNCHANGED stream /\ t = stream[k]) \/ stream' = [stream EXCEPT ![k] = t]
    BY DEF Watched
  <1>4. SessionMoves(k, c, a, t)
    BY <1>3, MovesHere
  <1>5. s.state \notin Quiet /\ s.state # "preflight"
    BY <1>1 DEF SoundOf, Quiet, Terminal
  <1>6. Goes(s, a, c, a)
    BY <1>2, <1>5 DEF Goes
  <1> QED BY <1>2, <1>4, <1>6

\* A section that ends the session.
LEMMA EndsMove ==
  ASSUME SessionsSound, NEW k \in Session, NEW state \in TerminalState, NEW c \in Record,
         Becomes(k, finish(c, state)), UNCHANGED <<over, admission, stream>>,
         LET s == session[k] IN
         /\ c.state = s.state /\ c.cancelRequested = s.cancelRequested /\ c.id = s.id
         /\ c.delete = s.delete
         /\ c.cleanup = s.cleanup \/ (c.cleanup = "not_requested" /\ ~s.id /\ admission[k] = "none")
         /\ s.task # "none" /\ s.delete \notin {"sent", "done"} /\ s.id => Answered(s)
         /\ s.task # "none" /\ s.state # "preflight" /\ s.delete \notin {"sent", "done"}
         /\ state # "failed" => admission[k] \notin {"asked", "pending", "active"}
  PROVE  \E s, a, t : SessionMoves(k, s, a, t) /\ SoundOf(s, a, t) /\ Goes(session[k], admission[k], s, a)
  <1> DEFINE s == session[k]
             a == admission[k]
             t == stream[k]
             f == finish(c, state)
  <1>1. SoundOf(s, a, t)
    BY DEF SessionsSound
  <1>2. ~Terminal(s) /\ s.state \notin Quiet
    BY <1>1 DEF SoundOf, Terminal, Quiet
  <1>3. ~Terminal(c)
    BY <1>2 DEF Terminal
  <1>4. /\ f \in Record /\ f.state = state /\ f.task = "none" /\ f.result = "none"
        /\ f.cancelRequested = c.cancelRequested /\ f.id = c.id
        /\ f.cleanup = c.cleanup /\ f.delete = c.delete
    BY <1>3, FinishFields
  <1>5. SessionMoves(k, f, a, t)
    BY MovesHere
  <1>6. /\ f.cancelRequested = s.cancelRequested /\ f.id = s.id /\ f.delete = s.delete
        /\ f.cleanup = s.cleanup \/ (f.cleanup = "not_requested" /\ ~s.id /\ a = "none")
        /\ s.delete \notin {"sent", "done"} /\ s.id => Answered(s)
        /\ s.delete \notin {"sent", "done"} /\ s.state # "preflight"
        /\ state # "failed" => a \notin {"asked", "pending", "active"}
    BY <1>4
  <1> HIDE DEF f, s, a, t
  <1>7. SoundOf(f, a, t)
    BY <1>1, <1>4, <1>6 DEF SoundOf, Terminal, TerminalState, Quiet, Termination, Answered
  <1>8. Goes(s, a, f, a)
    BY <1>2, <1>4, <1>6 DEF Goes
  <1> QED BY <1>5, <1>7, <1>8 DEF s, a

LEMMA CreateMoves ==
  ASSUME SessionsSound, NEW k \in Session, Create(k)
  PROVE  \E s, a, t : SessionMoves(k, s, a, t) /\ SoundOf(s, a, t) /\ Goes(session[k], admission[k], s, a)
  <1> DEFINE s == session[k]
             a == admission[k]
             t == stream[k]
  <1>1. SoundOf(s, a, t) /\ s \in Record /\ s.task = "creating" /\ ~s.id
    BY DEF SessionsSound, Create
  <1>2. /\ s.state # "preflight" /\ s.delete = "none" /\ a = "none" /\ s.state \notin Quiet
        /\ s.cleanup # "not_requested"
    BY <1>1 DEF SoundOf, Quiet, Terminal
  <1>3. CASE UNCHANGED admission /\ Becomes(k, finish([s EXCEPT !.cleanup = "not_requested"], "cancelled"))
    <2> DEFINE c == [s EXCEPT !.cleanup = "not_requested"]
    <2>1. /\ c \in Record /\ c.state = s.state /\ c.cancelRequested = s.cancelRequested
          /\ c.id = s.id /\ c.delete = s.delete /\ c.cleanup = "not_requested"
      BY <1>1 DEF Record
    <2>2. Becomes(k, finish(c, "cancelled")) /\ UNCHANGED <<over, admission, stream>>
      BY <1>3 DEF Create
    <2> HIDE DEF c
    <2> QED BY <1>1, <1>2, <2>1, <2>2, EndsMove DEF TerminalState
  <1>4. CASE UNCHANGED admission /\ Becomes(k, finish(s, "failed"))
    <2>1. UNCHANGED <<over, admission, stream>>
      BY <1>4 DEF Create
    <2> QED BY <1>1, <1>2, <1>4, <2>1, EndsMove DEF TerminalState
  <1>5. CASE /\ ~Stopped(k)
             /\ Becomes(k, [s EXCEPT !.task = "posting"])
             /\ admission' = [admission EXCEPT ![k] = "asked"]
    <2> DEFINE f == [s EXCEPT !.task = "posting"]
    <2>1. /\ f \in Record /\ f.state = s.state /\ f.task = "posting" /\ f.result = s.result
          /\ f.cancelRequested = s.cancelRequested /\ f.id = s.id
          /\ f.cleanup = s.cleanup /\ f.delete = s.delete
      BY <1>1 DEF Record
    <2>2. SessionMoves(k, f, "asked", t)
      <3>1. UNCHANGED <<over, stream>>
        BY <1>5 DEF Create
      <3> QED BY <1>5, <3>1, MovesHere
    <2>3. ~s.cancelRequested
      BY <1>5 DEF Stopped
    <2> HIDE DEF f, s, a, t
    <2>4. SoundOf(f, "asked", t)
      BY <1>1, <1>2, <2>1 DEF SoundOf, Terminal, TerminalState, Quiet, AdmissionState, Termination
    <2>5. Goes(s, a, f, "asked")
      BY <1>1, <1>2, <2>1, <2>3 DEF Goes
    <2> QED BY <2>2, <2>4, <2>5 DEF s, a
  <1> QED BY <1>3, <1>4, <1>5 DEF Create

LEMMA CreateReturnsMoves ==
  ASSUME SessionsSound, NEW k \in Session, CreateReturns(k)
  PROVE  \E s, a, t : SessionMoves(k, s, a, t) /\ SoundOf(s, a, t) /\ Goes(session[k], admission[k], s, a)
  <1> DEFINE s == session[k]
  <1>1. SoundOf(s, admission[k], stream[k]) /\ s \in Record /\ s.task = "posting"
    BY DEF SessionsSound, CreateReturns
  <1>2. ~s.id /\ s.state # "preflight" /\ s.delete = "none"
    BY <1>1 DEF SoundOf
  <1>3. CASE admission[k] \in {"pending", "gone"} /\ \E err \in BOOLEAN : Becomes(k, Created(s, err))
    BY <1>1, <1>3, CreatedMoves DEF CreateReturns
  <1>4. CASE Becomes(k, finish(s, "failed"))
    <2>1. session'[k].task = "none"
      <3>1. ~Terminal(s)
        BY <1>1 DEF SoundOf
      <3> QED BY <1>1, <1>4, <3>1, FinishFields DEF Becomes, SessionsSound, TerminalState
    <2>2. UNCHANGED <<over, admission, stream>>
      BY <2>1 DEF CreateReturns, Watched
    <2> QED BY <1>1, <1>2, <1>4, <2>2, EndsMove DEF TerminalState
  <1> QED BY <1>3, <1>4 DEF CreateReturns

LEMMA WatchReturnsMoves ==
  ASSUME SessionsSound, NEW k \in Session, WatchReturns(k)
  PROVE  \E s, a, t : SessionMoves(k, s, a, t) /\ SoundOf(s, a, t) /\ Goes(session[k], admission[k], s, a)
  <1> DEFINE s == session[k]
             a == admission[k]
             b == beginCancellation(s)
             t == IF stream[k] = "requested" THEN stream[k] ELSE "none"
  <1>1. SoundOf(s, a, stream[k]) /\ s \in Record /\ s.task = "watching"
    BY DEF SessionsSound, WatchReturns
  <1>2. /\ b \in Record /\ b.state = s.state /\ b.id = s.id /\ b.cleanup = s.cleanup
        /\ b.cancelRequested = s.cancelRequested
        /\ b.delete = IF s.delete = "none" THEN "sent" ELSE s.delete
    BY <1>1 DEF beginCancellation, Record
  <1>3. PICK r \in {"incomplete", "broken"} \cup ({stream[k]} \cap Termination) :
          Becomes(k, [b EXCEPT !.task = "closing", !.result = r])
    BY DEF WatchReturns
  <1> DEFINE f == [b EXCEPT !.task = "closing", !.result = r]
  <1>4. SessionMoves(k, f, a, t)
    <2>1. stream' = [stream EXCEPT ![k] = t] /\ UNCHANGED <<over, admission>>
      BY DEF WatchReturns
    <2> QED BY <1>3, <2>1, MovesHere
  <1> HIDE DEF b
  <1>5. /\ f \in Record /\ f.state = s.state /\ f.task = "closing" /\ f.result = r /\ f.id = s.id
        /\ f.cleanup = s.cleanup /\ f.cancelRequested = s.cancelRequested
        /\ f.delete = IF s.delete = "none" THEN "sent" ELSE s.delete
    BY <1>2 DEF Record
  <1> HIDE DEF f
  <1>6. s.state \notin Quiet /\ s.state # "preflight"
    BY <1>1 DEF SoundOf, Quiet, Terminal
  <1>7. SoundOf(f, a, t)
    BY <1>1, <1>5, <1>6 DEF SoundOf, Terminal, TerminalState, Quiet, Termination, StreamState
  <1>8. Goes(s, a, f, a)
    BY <1>5, <1>6 DEF Goes
  <1> QED BY <1>4, <1>7, <1>8

LEMMA CancelReturnsMoves ==
  ASSUME SessionsSound, NEW k \in Session, CancelReturns(k)
  PROVE  \E s, a, t : SessionMoves(k, s, a, t) /\ SoundOf(s, a, t) /\ Goes(session[k], admission[k], s, a)
  <1> DEFINE s == session[k]
             a == admission[k]
             t == stream[k]
  <1>1. SoundOf(s, a, t) /\ s \in Record /\ s.delete \in {"sent", "done"}
    BY DEF SessionsSound, CancelReturns
  <1>2. s.state \notin Quiet /\ s.id /\ s.state # "preflight" /\ s.task # "none"
    BY <1>1 DEF SoundOf, Quiet, Terminal
  <1>3. ASSUME NEW d \in {"confirmed", "unconfirmed"}, d = "confirmed" => s.delete = "done",
               Becomes(k, [s EXCEPT !.delete = d, !.cleanup = d])
        PROVE  \E n, b, u : SessionMoves(k, n, b, u) /\ SoundOf(n, b, u) /\ Goes(s, a, n, b)
    <2> DEFINE f == [s EXCEPT !.delete = d, !.cleanup = d]
    <2>1. /\ f \in Record /\ f.state = s.state /\ f.task = s.task /\ f.result = s.result
          /\ f.id = s.id /\ f.cleanup = d /\ f.cancelRequested = s.cancelRequested /\ f.delete = d
      BY <1>1 DEF Record
    <2>2. SessionMoves(k, f, a, t)
      BY <1>3, MovesHere DEF CancelReturns
    <2> HIDE DEF f, s, a, t
    <2>3. SoundOf(f, a, t)
      BY <1>1, <1>2, <1>3, <2>1 DEF SoundOf, Terminal, TerminalState, Quiet, Termination
    <2>4. Goes(s, a, f, a)
      BY <1>2, <2>1 DEF Goes
    <2> QED BY <2>2, <2>3, <2>4
  <1>4. CASE s.delete = "done" /\ Becomes(k, [s EXCEPT !.delete = "confirmed", !.cleanup = "confirmed"])
    BY <1>3, <1>4
  <1>5. CASE Becomes(k, [s EXCEPT !.delete = "unconfirmed", !.cleanup = "unconfirmed"])
    BY <1>3, <1>5
  <1> QED BY <1>4, <1>5 DEF CancelReturns

\* The end that a session reports is true of the controller.
LEMMA ReportedEnd ==
  ASSUME NEW s, NEW a, NEW t, SoundOf(s, a, t),
         cancelledResult(s) # "failed" \/ terminalResult(s.result) # "failed" \/ s.delete = "confirmed"
  PROVE  a \notin {"asked", "pending", "active"}
  <1>1. CASE s.result \in Termination
    BY <1>1 DEF SoundOf
  <1>2. CASE s.result \notin Termination
    <2>1. terminalResult(s.result) = "failed"
      BY <1>2 DEF terminalResult, Termination
    <2>2. cancelledResult(s) # "failed" => s.delete = "confirmed"
      BY <1>2 DEF cancelledResult
    <2> QED BY <2>1, <2>2 DEF SoundOf
  <1> QED BY <1>1, <1>2

LEMMA FinishesMoves ==
  ASSUME SessionsSound, NEW k \in Session, Finishes(k)
  PROVE  \E s, a, t : SessionMoves(k, s, a, t) /\ SoundOf(s, a, t) /\ Goes(session[k], admission[k], s, a)
  <1> DEFINE s == session[k]
             a == admission[k]
             t == stream[k]
  <1>1. SoundOf(s, a, t) /\ s \in Record /\ s.task \in {"refusing", "closing", "cancelling"}
    BY DEF SessionsSound, Finishes
  <1>2. s.state # "preflight"
    BY <1>1 DEF SoundOf
  <1> DEFINE Ends(state) ==
               /\ Answered(s) /\ Becomes(k, finish(s, state))
               /\ state # "failed" => a \notin {"asked", "pending", "active"}
  <1>3. \E state \in TerminalState : Ends(state)
    <2>1. ASSUME NEW state, Answered(s), Becomes(k, finish(s, state)),
                 (state = "cancelled" /\ s.delete = "confirmed") \/ state = "failed"
          PROVE  state \in TerminalState /\ Ends(state)
      BY <1>1, <2>1, ReportedEnd DEF TerminalState
    <2>2. CASE s.task \in {"refusing", "cancelling"}
      BY <2>1, <2>2 DEF Finishes, Joined
    <2>3. CASE s.task = "closing"
      <3> DEFINE state == IF s.cancelRequested THEN cancelledResult(s) ELSE terminalResult(s.result)
      <3>1. Answered(s) /\ Becomes(k, finish(s, state))
        BY <2>3 DEF Finishes, Joined
      <3>2. state \in TerminalState
        BY DEF cancelledResult, terminalResult, TerminalState, Termination
      <3>3. state # "failed" => a \notin {"asked", "pending", "active"}
        BY <1>1, ReportedEnd
      <3> QED BY <3>1, <3>2, <3>3
    <2> QED BY <1>1, <2>2, <2>3
  <1>4. UNCHANGED <<over, admission, stream>>
    BY DEF Finishes
  <1> QED BY <1>1, <1>2, <1>3, <1>4, EndsMove DEF Answered

\* Everything that a session does by itself.
LEMMA SessionStepMoves ==
  ASSUME SessionsSound, NEW k \in Session, SessionStep(k)
  PROVE  \E s, a, t : SessionMoves(k, s, a, t) /\ SoundOf(s, a, t) /\ Goes(session[k], admission[k], s, a)
  <1> DEFINE s == session[k]
  <1>1. SoundOf(s, admission[k], stream[k])
    BY DEF SessionsSound
  <1>2. CASE Attach(k)
    BY <1>2, CreatedMoves DEF Attach
  <1>3. CASE ParentEnded(k)
    <2>1. Running(s) /\ Becomes(k, Cancel(s)) /\ UNCHANGED <<over, admission, stream>>
      BY <1>3 DEF ParentEnded
    <2>2. SessionMoves(k, Cancel(s), admission[k], stream[k])
      BY <2>1, MovesHere
    <2>3. SoundOf(Cancel(s), admission[k], stream[k]) /\ (s.cancelRequested => Cancel(s).cancelRequested)
      BY <1>1, CancelSound
    <2>4. s.state \notin Quiet /\ s.state # "preflight"
      BY <1>1, <2>1 DEF SoundOf, Running, Quiet, Terminal
    <2>5. Goes(s, admission[k], Cancel(s), admission[k])
      BY <2>3, <2>4 DEF Goes
    <2> QED BY <2>2, <2>3, <2>5
  <1> QED BY <1>2, <1>3, PrepareEndsMoves, CreateMoves, CreateReturnsMoves, WatchReturnsMoves,
             CancelReturnsMoves, FinishesMoves DEF SessionStep

\* Starting, once the selection is prepared or attached.
LEMMA StartMoves ==
  ASSUME SessionsSound, NEW k \in Session, Start(k), UNCHANGED <<over, admission, stream>>
  PROVE  \E s, a, t : /\ SessionMoves(k, s, a, t) /\ SoundOf(s, a, t) /\ a = admission[k]
                      /\ s.state = "admitting"
                      /\ ~session[k].cancelRequested /\ ~Terminal(session[k])
  <1> DEFINE s == session[k]
             a == admission[k]
             t == stream[k]
             f == [s EXCEPT !.state = "admitting", !.task = "creating", !.cleanup = "unconfirmed"]
  <1>1. SoundOf(s, a, t) /\ s \in Record /\ s.state \in {"ready", "admitted"}
    BY DEF SessionsSound, Start
  <1>2. /\ f \in Record /\ f.state = "admitting" /\ f.task = "creating" /\ f.result = s.result
        /\ f.id = s.id /\ f.cleanup = "unconfirmed" /\ f.cancelRequested = s.cancelRequested
        /\ f.delete = s.delete
    BY <1>1 DEF Record, State
  <1>3. SessionMoves(k, f, a, t)
    BY MovesHere DEF Start
  <1> HIDE DEF f, s, a, t
  <1>4. SoundOf(f, a, t) /\ ~s.cancelRequested /\ ~Terminal(s)
    BY <1>1, <1>2 DEF SoundOf, Terminal, TerminalState, Quiet, Termination
  <1> QED BY <1>2, <1>3, <1>4 DEF s, a

LEMMA PrepareMoves ==
  ASSUME SessionsSound, NEW k \in Session, Prepare(k), UNCHANGED <<over, admission, stream>>
  PROVE  \E s, a, t : /\ SessionMoves(k, s, a, t) /\ SoundOf(s, a, t) /\ a = admission[k]
                      /\ s.state = "preflight" /\ session[k].state = "new"
  <1> DEFINE s == session[k]
             a == admission[k]
             t == stream[k]
             f == [s EXCEPT !.state = "preflight", !.task = "preparing"]
  <1>1. SoundOf(s, a, t) /\ s \in Record /\ s.state = "new"
    BY DEF SessionsSound, Prepare
  <1>2. /\ f \in Record /\ f.state = "preflight" /\ f.task = "preparing" /\ f.result = s.result
        /\ f.id = s.id /\ f.cleanup = s.cleanup /\ f.cancelRequested = s.cancelRequested
        /\ f.delete = s.delete
    BY <1>1 DEF Record, State
  <1>3. SessionMoves(k, f, a, t)
    BY MovesHere DEF Prepare
  <1> HIDE DEF f, s, a, t
  <1>4. SoundOf(f, a, t)
    BY <1>1, <1>2 DEF SoundOf, Terminal, TerminalState, Quiet, Termination
  <1> QED BY <1>1, <1>2, <1>3, <1>4 DEF s, a

LEMMA CancelMoves ==
  ASSUME SessionsSound, NEW k \in Session, Becomes(k, Cancel(session[k])),
         over' \subseteq Session \/ UNCHANGED over, UNCHANGED <<admission, stream>>
  PROVE  /\ SessionsSound'
         /\ session'[k].cancelRequested \/ Terminal(session'[k])
         /\ Terminal(session[k]) => session'[k] = session[k]
         /\ session[k].state \in {"new", "ready"} => Terminal(session'[k])
         /\ \A j \in Session \ {k} : session'[j] = session[j]
  <1> DEFINE s == Cancel(session[k])
  <1>1. SoundOf(session[k], admission[k], stream[k])
    BY DEF SessionsSound
  <1>2. /\ SoundOf(s, admission[k], stream[k]) /\ (s.cancelRequested \/ Terminal(s))
        /\ Terminal(session[k]) => s = session[k]
        /\ session[k].state \in {"new", "ready"} => Terminal(s)
    BY <1>1, CancelSound
  <1>3. SessionMoves(k, s, admission[k], stream[k])
    BY MovesHere
  <1> HIDE DEF s
  <1> QED BY <1>2, <1>3, MovesSound

\* The controller knows nothing of the record but that its DELETE is done.
LEMMA ControllerMoves ==
  ASSUME SessionsSound, NEW k \in Session, Controller(k)
  PROVE  /\ SessionsSound'
         /\ \A j \in Session : /\ session'[j].state = session[j].state
                               /\ session[j].cancelRequested => session'[j].cancelRequested
                               /\ admission[j] \in {"none", "gone"} => admission'[j] = admission[j]
  <1> DEFINE s == session[k]
             a == admission[k]
             t == stream[k]
  <1>1. SoundOf(s, a, t) /\ s \in Record /\ a \in AdmissionState /\ t \in StreamState
    BY DEF SessionsSound
  <1>2. SUFFICES \E n, b, u :
          /\ SessionMoves(k, n, b, u) /\ SoundOf(n, b, u)
          /\ n.state = s.state /\ n.cancelRequested = s.cancelRequested
          /\ a \in {"none", "gone"} => b = a
    <2>1. PICK n, b, u : /\ SessionMoves(k, n, b, u) /\ SoundOf(n, b, u)
                         /\ n.state = s.state /\ n.cancelRequested = s.cancelRequested
                         /\ a \in {"none", "gone"} => b = a
      BY <1>2
    <2>2. /\ SessionsSound' /\ session'[k] = n /\ admission'[k] = b
          /\ \A j \in Session \ {k} : session'[j] = session[j] /\ admission'[j] = admission[j]
      BY <2>1, MovesSound
    <2> QED BY <2>1, <2>2
  <1>3. Becomes(k, s) <=> UNCHANGED session
    BY DEF Becomes, SessionsSound
  <1>4. ASSUME NEW b, NEW u, SoundOf(s, b, u), UNCHANGED <<session, over>>,
               (UNCHANGED admission /\ b = a) \/ admission' = [admission EXCEPT ![k] = b],
               (UNCHANGED stream /\ u = t) \/ stream' = [stream EXCEPT ![k] = u],
               a \in {"none", "gone"} => b = a
        PROVE  \E n, c, v : /\ SessionMoves(k, n, c, v) /\ SoundOf(n, c, v)
                            /\ n.state = s.state /\ n.cancelRequested = s.cancelRequested
                            /\ a \in {"none", "gone"} => c = a
    <2>1. SessionMoves(k, s, b, u)
      BY <1>3, <1>4 DEF MovesHere, SessionMoves, SessionsSound
    <2> QED BY <1>4, <2>1
  <1>5. CASE Admits(k)
    <2>1. PICK b \in {"pending", "refused"} : Holds(k, b) /\ a = "asked" /\ UNCHANGED stream
      BY <1>5 DEF Admits
    <2>2. SoundOf(s, b, t)
      BY <1>1, <2>1 DEF SoundOf, AdmissionState, Answered
    <2> QED BY <1>4, <2>1, <2>2 DEF Holds
  <1>6. CASE Activates(k)
    <2> DEFINE b == IF a = "pending" THEN "active" ELSE a
               u == IF a = "pending" /\ s.task = "watching" THEN "open" ELSE "none"
    <2>1. /\ UNCHANGED <<session, over>> /\ stream' = [stream EXCEPT ![k] = u]
          /\ (UNCHANGED admission /\ b = a) \/ admission' = [admission EXCEPT ![k] = b]
          /\ t = "requested"
      BY <1>6 DEF Activates, Holds
    <2>2. SoundOf(s, b, u)
      BY <1>1 DEF SoundOf, AdmissionState, StreamState, Termination, Answered
    <2> QED BY <1>4, <2>1, <2>2
  <1>7. CASE EngineEnds(k)
    <2>1. PICK u \in Termination \cup {"none"} : stream' = [stream EXCEPT ![k] = u]
      BY <1>7 DEF EngineEnds
    <2>2. a = "active" /\ Holds(k, "ending")
      BY <1>7 DEF EngineEnds
    <2>3. SoundOf(s, "ending", u)
      BY <1>1, <2>2 DEF SoundOf, AdmissionState, StreamState, Termination, Answered
    <2> QED BY <1>4, <2>1, <2>2, <2>3 DEF Holds
  <1>8. CASE Removes(k)
    <2>1. SoundOf(s, "gone", t)
      BY <1>1, <1>8 DEF SoundOf, Removes, AdmissionState, Answered
    <2> QED BY <1>4, <1>8, <2>1 DEF Removes, Holds
  <1>9. CASE Deletes(k)
    <2> DEFINE f == [s EXCEPT !.delete = "done"]
    <2>1. s.delete = "sent" /\ a \in {"pending", "ending"} /\ Becomes(k, f)
          /\ admission' = [admission EXCEPT ![k] = "gone"] /\ UNCHANGED <<over, stream>>
      BY <1>9 DEF Deletes
    <2>2. /\ f \in Record /\ f.state = s.state /\ f.task = s.task /\ f.result = s.result
          /\ f.id = s.id /\ f.cleanup = s.cleanup /\ f.cancelRequested = s.cancelRequested
          /\ f.delete = "done"
      BY <1>1 DEF Record
    <2>3. SessionMoves(k, f, "gone", t)
      BY <2>1, MovesHere
    <2> HIDE DEF f, s, a, t
    <2>4. SoundOf(f, "gone", t)
      BY <1>1, <2>1, <2>2 DEF SoundOf, Terminal, AdmissionState, Answered
    <2> QED BY <2>1, <2>2, <2>3, <2>4
  <1> QED BY <1>5, <1>6, <1>7, <1>8, <1>9 DEF Controller

-----------------------------------------------------------------------------
(* The panel. *)

\* A session is the panel's or a command's.
LEMMA Callers ==
  /\ Own \subseteq Session /\ Command \subseteq Session /\ Session = Own \cup Command
  /\ Own \cap Command = {} /\ Selections \in Nat
  BY CallersAssumption DEF Own

\* What the panel's own session went on with, seen from the panel.
LEMMA PanelFollows ==
  ASSUME PInv, UNCHANGED <<panel, fetching>>,
         \A j \in Own \ {g} : session'[j].state = session[j].state,
         g \in Own =>
           /\ session'[g].state = session[g].state \/ session[g].state \notin Quiet
           /\ session[g].cancelRequested => session'[g].cancelRequested
           /\ session[g].state = "preflight" => session'[g].state \in {"preflight", "ready"} \cup TerminalState
           /\ admission[g] \in {"none", "gone"} /\ panel.mode = "ok" => admission'[g] = admission[g]
  PROVE  PanelSound'
  <1>1. PanelSound /\ g' = g /\ g \in 0..Selections /\ Selections \in Nat
    BY Callers DEF PInv, PanelSound, Panel, g
  <1>2. \A k \in Own : k > g => k # g
    BY <1>1 DEF Own
  <1>3. \A k \in Own \ {g} : k \notin fetching' /\ session'[k].state \in {"new"} \cup TerminalState
    BY <1>1 DEF PanelSound
  <1>4. \A k \in Own : k > g => session'[k].state = "new"
    BY <1>1, <1>2 DEF PanelSound
  <1>5. g \in Own /\ ~panel.held =>
          session'[g].state \in {"new", "preflight", "ready"} \cup TerminalState
    BY <1>1 DEF PanelSound, Quiet
  <1>6. g \in Own /\ ~panel.held /\ ~panel.loading => session'[g].state = "new"
    BY <1>1 DEF PanelSound, Quiet
  <1>7. panel.held /\ panel.snapshot \in TerminalState => Terminal(session'[g])
    BY <1>1 DEF PanelSound, Quiet, Terminal
  <1>8. panel.held /\ panel.revoked => session'[g].cancelRequested \/ Terminal(session'[g])
    BY <1>1 DEF PanelSound, Quiet, Terminal
  <1>9. panel.mode = "ok" /\ panel.held => admission'[g] \in {"none", "gone"}
    BY <1>1 DEF PanelSound
  <1> QED BY <1>1, <1>3, <1>4, <1>5, <1>6, <1>7, <1>8, <1>9 DEF PanelSound

LEMMA GoroutineStep ==
  ASSUME PInv, NEW k \in Session, Goroutine(k)
  PROVE  PInv'
  <1>1. SessionsSound /\ PanelSound /\ SessionStep(k) /\ Live(k) /\ UNCHANGED <<panel, fetching>>
    BY DEF PInv, Goroutine
  <1>2. PICK s, a, t : SessionMoves(k, s, a, t) /\ SoundOf(s, a, t) /\ Goes(session[k], admission[k], s, a)
    BY <1>1, SessionStepMoves
  <1>3. /\ SessionsSound' /\ session'[k] = s /\ admission'[k] = a
        /\ \A j \in Session \ {k} : session'[j] = session[j] /\ admission'[j] = admission[j]
    BY <1>1, <1>2, MovesSound
  <1>4. k \notin Own \ {g}
    BY <1>1, <1>2 DEF Goes, Quiet, PanelSound
  <1>5. panel.mode # "ok"
    BY <1>1 DEF Live, Exited
  <1>6. PanelSound'
    <2>1. \A j \in Own \ {g} : session'[j].state = session[j].state
      BY <1>3, <1>4, Callers
    <2>2. ASSUME g \in Own
          PROVE  /\ session'[g].state = session[g].state \/ session[g].state \notin Quiet
                 /\ session[g].cancelRequested => session'[g].cancelRequested
                 /\ session[g].state = "preflight" => session'[g].state \in {"preflight", "ready"} \cup TerminalState
      <3>1. CASE k = g
        BY <1>2, <1>3, <3>1 DEF Goes
      <3>2. CASE k # g
        BY <1>3, <2>2, <3>2, Callers
      <3> QED BY <3>1, <3>2
    <2> QED BY <1>1, <1>5, <2>1, <2>2, PanelFollows
  <1> QED BY <1>3, <1>6 DEF PInv

LEMMA ServerStep ==
  ASSUME PInv, NEW k \in Session, Server(k)
  PROVE  PInv'
  <1>1. SessionsSound /\ Controller(k) /\ UNCHANGED <<panel, fetching>>
    BY DEF PInv, Server
  <1>2. /\ SessionsSound'
        /\ \A j \in Session : /\ session'[j].state = session[j].state
                              /\ session[j].cancelRequested => session'[j].cancelRequested
                              /\ admission[j] \in {"none", "gone"} => admission'[j] = admission[j]
    BY <1>1, ControllerMoves
  <1>3. PanelSound'
    <2>1. ASSUME NEW j \in Own
          PROVE  /\ session'[j].state = session[j].state
                 /\ session[j].cancelRequested => session'[j].cancelRequested
                 /\ admission[j] \in {"none", "gone"} => admission'[j] = admission[j]
      <3>1. j \in Session
        BY Callers
      <3> QED BY <1>2, <3>1
    <2>2. \A j \in Own \ {g} : session'[j].state = session[j].state
      BY <2>1
    <2>3. g \in Own =>
            /\ session'[g].state = session[g].state
            /\ session[g].cancelRequested => session'[g].cancelRequested
            /\ admission[g] \in {"none", "gone"} => admission'[g] = admission[g]
      BY <2>1
    <2> QED BY <1>1, <2>2, <2>3, PanelFollows
  <1> QED BY <1>2, <1>3 DEF PInv

LEMMA CommandStep ==
  ASSUME PInv, NEW k \in Command, executeTraceSession(k) \/ CancelCommand(k) \/ Signal(k)
  PROVE  PInv'
  <1>1. SessionsSound /\ UNCHANGED <<panel, fetching>> /\ k \in Session /\ k \notin Own
    BY Callers DEF PInv, executeTraceSession, CancelCommand, Signal
  <1>2. /\ SessionsSound'
        /\ \A j \in Session \ {k} : session'[j] = session[j] /\ admission'[j] = admission[j]
    <2>1. CASE executeTraceSession(k)
      <3>1. Start(k) /\ UNCHANGED <<over, admission, stream>>
        BY <2>1 DEF executeTraceSession
      <3> QED BY <1>1, <3>1, StartMoves, MovesSound
    <2>2. CASE CancelCommand(k)
      <3>1. Becomes(k, Cancel(session[k])) /\ UNCHANGED <<over, admission, stream>>
        BY <2>2 DEF CancelCommand
      <3> QED BY <1>1, <3>1, CancelMoves
    <2>3. CASE Signal(k)
      <3>1. UNCHANGED <<session, admission, stream>> /\ over' \subseteq Session
        BY <1>1, <2>3 DEF Signal, SessionsSound
      <3> QED BY <1>1, <3>1 DEF SessionsSound
    <2> QED BY <2>1, <2>2, <2>3
  <1>3. PanelSound'
    BY <1>1, <1>2, Callers, PanelFollows
  <1> QED BY <1>2, <1>3 DEF PInv

\* The operator's keys and the messages of the loop, of which several change the session
\* of the selection.
LEMMA SelectStep ==
  ASSUME PInv, selectTraceTarget
  PROVE  PInv'
  <1>1. SessionsSound /\ PanelSound /\ SessionsSound'
    BY DEF PInv, selectTraceTarget, clientVars, SessionsSound
  <1>2. /\ panel' \in Panel /\ g' = g + 1 /\ g' \in Own /\ g \in 0..Selections
        /\ ~panel'.held /\ ~panel'.loading /\ panel'.mode = "open"
        /\ UNCHANGED <<session, admission, fetching>>
    BY <1>1, Callers DEF selectTraceTarget, Set, g, PanelSound, Panel, Own, clientVars
  <1>3. ~panel.loading /\ (~panel.held \/ panel.snapshot \in TerminalState)
    BY DEF selectTraceTarget, Selectable
  <1>4. g \in Own => session[g].state \in {"new"} \cup TerminalState
    BY <1>1, <1>3 DEF PanelSound, Terminal
  <1>5. \A k \in Own \ {g'} : k \notin fetching' /\ session'[k].state \in {"new"} \cup TerminalState
    BY <1>1, <1>2, <1>3, <1>4 DEF PanelSound
  <1>6. session'[g'].state = "new" /\ \A k \in Own : k > g' => session'[k].state = "new"
    <2>1. Own \subseteq Nat
      BY DEF Own
    <2> QED BY <1>1, <1>2, <2>1 DEF PanelSound
  <1>7. fetching' = {}
    BY <1>1, <1>2, <1>3 DEF PanelSound
  <1>8. PanelSound'
    BY <1>2, <1>5, <1>6, <1>7 DEF PanelSound
  <1> QED BY <1>1, <1>8 DEF PInv

LEMMA PrepareStep ==
  ASSUME PInv, prepareTrace
  PROVE  PInv'
  <1>1. SessionsSound /\ PanelSound /\ SessionsSound'
    BY DEF PInv, prepareTrace, clientVars, SessionsSound
  <1>2. /\ panel' \in Panel /\ g' = g /\ g \in Own
        /\ ~panel.held /\ ~panel'.held /\ panel'.loading /\ panel'.mode = "open"
        /\ UNCHANGED <<session, admission>> /\ fetching' = fetching \cup {g}
    BY <1>1 DEF prepareTrace, Open, g, PanelSound, Panel, clientVars
  <1>3. PanelSound'
    BY <1>1, <1>2 DEF PanelSound
  <1> QED BY <1>1, <1>3 DEF PInv

LEMMA PinnedStep ==
  ASSUME PInv, NEW k \in Own, Pinned(k)
  PROVE  PInv'
  <1>1. SessionsSound /\ PanelSound /\ k = g /\ k \in Session /\ UNCHANGED <<panel, fetching>>
    BY Callers DEF PInv, PanelSound, Pinned
  <1>2. Prepare(k) /\ UNCHANGED <<over, admission, stream>>
    BY DEF Pinned
  <1>3. PICK s, a, t : /\ SessionMoves(k, s, a, t) /\ SoundOf(s, a, t) /\ a = admission[k]
                       /\ s.state = "preflight" /\ session[k].state = "new"
    BY <1>1, <1>2, PrepareMoves
  <1>4. /\ SessionsSound' /\ session'[k] = s /\ admission'[k] = a
        /\ \A j \in Session \ {k} : session'[j] = session[j] /\ admission'[j] = admission[j]
    BY <1>1, <1>3, MovesSound
  <1>5. g' = g /\ k \in fetching /\ panel.loading /\ ~panel.held /\ ~(k > g)
    BY <1>1 DEF PanelSound, Pinned, g, Panel
  <1>6. \A j \in Own \ {g} : session'[j] = session[j]
    BY <1>1, <1>4, Callers
  <1>7. PanelSound'
    BY <1>1, <1>3, <1>4, <1>5, <1>6 DEF PanelSound
  <1> QED BY <1>4, <1>7 DEF PInv

\* A cancellation that the panel asks for, of the session of the selection.
LEMMA CancelledByPanel ==
  ASSUME PInv, g \in Own, Becomes(g, Cancel(session[g])), UNCHANGED <<admission, stream>>,
         UNCHANGED over \/ over' \subseteq Session
  PROVE  /\ SessionsSound'
         /\ session'[g].cancelRequested \/ Terminal(session'[g])
         /\ Terminal(session[g]) => Terminal(session'[g])
         /\ session[g].state \in {"new", "ready"} => Terminal(session'[g])
         /\ \A j \in Own \ {g} : session'[j] = session[j]
  <1>1. g \in Session /\ SessionsSound
    BY Callers DEF PInv
  <1> QED BY <1>1, CancelMoves, Callers

LEMMA ReceiveStep ==
  ASSUME PInv, NEW k \in Own, receiveTracePrepared(k)
  PROVE  PInv'
  <1>1. SessionsSound /\ PanelSound /\ k = g /\ k \in Session /\ k \in fetching /\ Open
    BY Callers DEF PInv, PanelSound, receiveTracePrepared
  <1>2. /\ fetching' = {} /\ panel.loading /\ ~panel.held /\ ~(k > g)
        /\ session[k].task = "none" /\ UNCHANGED <<over, admission, stream>>
    <2>1. \A j \in fetching : j = k
      BY <1>1 DEF PanelSound
    <2>2. fetching' = fetching \ {k}
      BY DEF receiveTracePrepared
    <2>3. fetching' = {}
      BY <2>1, <2>2
    <2>4. panel.loading /\ ~panel.held
      BY <1>1 DEF PanelSound
    <2>5. ~(k > g)
      BY <1>1 DEF PanelSound, Panel, g
    <2> QED BY <2>3, <2>4, <2>5 DEF receiveTracePrepared
  <1>3. session[k].state \in {"new", "ready"} \cup TerminalState
    <2>1. SoundOf(session[k], admission[k], stream[k])
      BY <1>1 DEF SessionsSound
    <2> QED BY <1>1, <1>2, <2>1 DEF PanelSound, SoundOf
  <1>4. CASE Wanted(k)
    <2>1. PICK made \in IF session[k].state = "new" THEN {FALSE} ELSE {TRUE} :
            /\ panel' = [panel EXCEPT !.loading = FALSE, !.held = made,
                           !.snapshot = IF made THEN session[k].state ELSE @]
            /\ UNCHANGED session
      BY <1>4 DEF receiveTracePrepared
    <2>2. SessionsSound'
      BY <1>1, <1>2, <2>1 DEF SessionsSound
    <2>3. session[k].state \in State /\ panel.snapshot \in State \cup {"none"}
      BY <1>1 DEF SessionsSound, Record, PanelSound, Panel
    <2> DEFINE look == IF made THEN session[k].state ELSE panel.snapshot
    <2>4. panel' = [panel EXCEPT !.loading = FALSE, !.held = made, !.snapshot = look]
      BY <2>1
    <2>5. look \in State \cup {"none"} /\ made \in BOOLEAN
      BY <2>1, <2>3
    <2> HIDE DEF look
    <2>6. /\ panel' \in Panel /\ ~panel'.loading /\ panel'.snapshot = look
          /\ panel'.held <=> made
          /\ panel'.generation = panel.generation /\ panel'.target = panel.target
          /\ panel'.revoked = panel.revoked /\ panel'.mode = panel.mode
      BY <1>1, <2>4, <2>5 DEF PanelSound, Panel
    <2>7. panel'.mode = "open" /\ ~panel'.revoked /\ g' = g
      BY <1>1, <1>4, <2>6 DEF Open, Wanted, g
    <2>8. panel'.held => (panel'.snapshot \in TerminalState => Terminal(session'[g]))
      BY <1>1, <2>1, <2>6 DEF look, Terminal
    <2>9. ~panel'.held => session'[g].state = "new"
      BY <1>1, <2>1, <2>6
    <2>10. PanelSound'
      BY <1>1, <1>2, <2>1, <2>6, <2>7, <2>8, <2>9 DEF PanelSound
    <2> QED BY <2>2, <2>10 DEF PInv
  <1>5. CASE ~Wanted(k)
    <2>1. UNCHANGED panel /\ (UNCHANGED session \/ Becomes(g, Cancel(session[g])))
      BY <1>1, <1>5 DEF receiveTracePrepared
    <2>2. panel.revoked /\ g' = g /\ panel.mode = "open"
      BY <1>1, <1>5, <2>1 DEF Wanted, g, Open, PanelSound, Panel
    <2>3. /\ SessionsSound' /\ \A j \in Own \ {g} : session'[j] = session[j]
          /\ session'[g].state \in {"new", "ready"} \cup TerminalState
      <3>1. CASE UNCHANGED session
        BY <1>1, <1>2, <1>3, <3>1 DEF SessionsSound
      <3>2. CASE Becomes(g, Cancel(session[g]))
        BY <1>1, <1>2, <1>3, <3>2, CancelledByPanel DEF Terminal
      <3> QED BY <2>1, <3>1, <3>2
    <2>4. PanelSound'
      BY <1>1, <1>2, <2>1, <2>2, <2>3 DEF PanelSound
    <2> QED BY <2>3, <2>4 DEF PInv
  <1> QED BY <1>4, <1>5

LEMMA StartKeyStep ==
  ASSUME PInv, StartKey
  PROVE  PInv'
  <1>1. /\ SessionsSound /\ PanelSound /\ g \in Own /\ g \in Session
        /\ panel.held /\ panel.mode = "open" /\ Start(g) /\ UNCHANGED <<over, admission, stream>>
    BY Callers DEF PInv, PanelSound, StartKey, Open
  <1>2. PICK s, a, t : /\ SessionMoves(g, s, a, t) /\ SoundOf(s, a, t) /\ a = admission[g]
                       /\ s.state = "admitting"
                       /\ ~session[g].cancelRequested /\ ~Terminal(session[g])
    BY <1>1, StartMoves
  <1>3. /\ SessionsSound' /\ session'[g] = s /\ admission'[g] = a
        /\ \A j \in Session \ {g} : session'[j] = session[j] /\ admission'[j] = admission[j]
    BY <1>1, <1>2, MovesSound
  <1>4. panel' = [panel EXCEPT !.snapshot = "admitting", !.listening = TRUE] /\ fetching' = fetching
    <2>1. Look(g, panel) = [panel EXCEPT !.snapshot = "admitting"]
      BY <1>2, <1>3 DEF Look
    <2> QED BY <2>1 DEF StartKey, Set
  <1>5. /\ panel' \in Panel /\ panel'.held /\ panel'.snapshot = "admitting"
        /\ ~panel'.loading /\ g' = g /\ panel'.mode = "open"
        /\ panel'.revoked <=> panel.revoked
    BY <1>1, <1>4 DEF PanelSound, Panel, State, g
  <1>6. ~panel.revoked
    BY <1>1, <1>2 DEF PanelSound
  <1>7. \A j \in Own \ {g} : session'[j] = session[j]
    BY <1>3, Callers
  <1>8. ~(g > g)
    BY <1>1 DEF PanelSound, Panel, g
  <1>9. PanelSound'
    BY <1>1, <1>4, <1>5, <1>6, <1>7, <1>8 DEF PanelSound, TerminalState
  <1> QED BY <1>3, <1>9 DEF PInv

\* The panel looks at its session, or gives it up; the selection stays.
LEMMA PanelKeeps ==
  ASSUME PInv, SessionsSound', panel' \in Panel, fetching' = fetching, UNCHANGED admission,
         g' = g, panel'.held <=> panel.held, panel'.loading <=> panel.loading,
         panel'.target => panel.target,
         g \in Own /\ ~panel.held => session'[g] = session[g],
         \A j \in Own \ {g} : session'[j] = session[j],
         panel.held /\ panel'.snapshot \in TerminalState => Terminal(session'[g]),
         panel.held /\ panel'.revoked => session'[g].cancelRequested \/ Terminal(session'[g]),
         panel'.mode = "quitting" => panel.held,
         panel'.mode = "ok" /\ panel.held => admission[g] \in {"none", "gone"}
  PROVE  PInv'
  <1>1. PanelSound /\ g \in 0..Selections /\ Selections \in Nat
    BY Callers DEF PInv, PanelSound, Panel, g
  <1>2. \A j \in Own : j > g => session'[j].state = "new"
    <2>1. \A j \in Own : j > g => j # g
      BY <1>1 DEF Own
    <2> QED BY <1>1, <2>1 DEF PanelSound
  <1>3. PanelSound'
    BY <1>1, <1>2 DEF PanelSound
  <1> QED BY <1>3 DEF PInv

LEMMA StopKeyStep ==
  ASSUME PInv, StopKey
  PROVE  PInv'
  <1>1. /\ PanelSound /\ g \in Own /\ panel.held /\ panel.mode = "open"
        /\ Becomes(g, Cancel(session[g])) /\ UNCHANGED <<over, admission, stream>>
    BY DEF PInv, PanelSound, StopKey, Open
  <1>2. /\ SessionsSound'
        /\ session'[g].cancelRequested \/ Terminal(session'[g])
        /\ Terminal(session[g]) => Terminal(session'[g])
        /\ \A j \in Own \ {g} : session'[j] = session[j]
    BY <1>1, CancelledByPanel
  <1> DEFINE x == session'[g].state
  <1>3. x \in State
    BY <1>1, <1>2, Callers DEF SessionsSound, Record
  <1>4. panel' = [panel EXCEPT !.snapshot = x] /\ fetching' = fetching
    BY DEF StopKey, Set, Look
  <1> HIDE DEF x
  <1>5. /\ panel' \in Panel /\ (panel'.held <=> panel.held)
        /\ (panel'.loading <=> panel.loading)
        /\ (panel'.target <=> panel.target) /\ panel'.snapshot = x /\ g' = g
        /\ panel'.mode = "open"
    BY <1>1, <1>3, <1>4 DEF PanelSound, Panel, g
  <1>6. panel'.snapshot \in TerminalState => Terminal(session'[g])
    BY <1>5 DEF x, Terminal
  <1> QED BY <1>1, <1>2, <1>4, <1>5, <1>6, PanelKeeps

LEMMA UpdateStep ==
  ASSUME PInv, receiveTraceUpdate
  PROVE  PInv'
  <1>1. /\ SessionsSound /\ PanelSound /\ g \in Own /\ panel.held /\ panel.mode = "open"
        /\ UNCHANGED <<session, over, admission, stream>>
    BY DEF PInv, PanelSound, receiveTraceUpdate, Open
  <1>2. SessionsSound'
    BY <1>1 DEF SessionsSound
  <1> DEFINE x == session[g].state
             y == ~Terminal(session[g])
  <1>3. x \in State /\ y \in BOOLEAN
    BY <1>1, Callers DEF SessionsSound, Record
  <1>4. panel' = [panel EXCEPT !.snapshot = x, !.listening = y] /\ fetching' = fetching
    BY <1>1 DEF receiveTraceUpdate, Set, Look
  <1> HIDE DEF x, y
  <1>5. /\ panel' \in Panel /\ panel'.held = panel.held /\ panel'.loading = panel.loading
        /\ panel'.target = panel.target /\ panel'.snapshot = x /\ g' = g
        /\ panel'.mode = "open" /\ panel'.revoked = panel.revoked
    BY <1>1, <1>3, <1>4 DEF PanelSound, Panel, g
  <1>6. panel'.snapshot \in TerminalState => Terminal(session'[g])
    BY <1>1, <1>5 DEF x, Terminal
  <1>7. panel'.revoked => session'[g].cancelRequested \/ Terminal(session'[g])
    BY <1>1, <1>5 DEF PanelSound
  <1> QED BY <1>1, <1>2, <1>4, <1>5, <1>6, <1>7, PanelKeeps

\* Losing access and quitting cancel the session that the panel holds.
LEMMA GiveUpStep ==
  ASSUME PInv, revokeTraceEvidence \/ \E ended \in BOOLEAN : Quit(ended)
  PROVE  PInv'
  <1>1. /\ PanelSound /\ SessionsSound /\ panel.mode = "open"
        /\ panel.held => g \in Own
        /\ UNCHANGED <<admission, stream>> /\ fetching' = fetching
        /\ IF panel.held THEN Becomes(g, Cancel(session[g])) ELSE UNCHANGED session
    BY DEF PInv, PanelSound, revokeTraceEvidence, Quit, Open, Set
  <1>2. UNCHANGED over \/ over' \subseteq Session
    <2>1. ASSUME NEW ended \in BOOLEAN, Quit(ended)
          PROVE  over' \subseteq Session
      BY <1>1, <2>1, Callers DEF Quit, SessionsSound
    <2> QED BY <2>1 DEF revokeTraceEvidence
  <1>3. /\ SessionsSound' /\ \A j \in Own \ {g} : session'[j] = session[j]
        /\ g \in Own /\ ~panel.held => session'[g] = session[g]
        /\ panel.held => session'[g].cancelRequested \/ Terminal(session'[g])
        /\ panel.held /\ Terminal(session[g]) => Terminal(session'[g])
    <2>1. CASE panel.held
      BY <1>1, <1>2, <2>1, CancelledByPanel
    <2>2. CASE ~panel.held
      BY <1>1, <1>2, <2>2 DEF SessionsSound
    <2> QED BY <2>1, <2>2
  <1>4. /\ panel' \in Panel /\ g' = g
        /\ (panel'.held <=> panel.held) /\ (panel'.loading <=> panel.loading)
        /\ panel'.target => panel.target
        /\ panel'.snapshot = panel.snapshot \/ panel'.snapshot = "none"
        /\ panel'.mode = "open" \/ (panel.held /\ panel'.mode = "quitting")
             \/ (~panel.held /\ panel'.mode = "ok")
    <2>1. CASE revokeTraceEvidence
      BY <1>1, <2>1 DEF revokeTraceEvidence, Set, PanelSound, Panel, g
    <2>2. CASE \E ended \in BOOLEAN : Quit(ended)
      <3> DEFINE m == IF panel.held THEN "quitting" ELSE "ok"
      <3>1. panel' = [panel EXCEPT !.mode = m]
        BY <2>2 DEF Quit, Set
      <3>2. m \in {"quitting", "ok"} /\ (m = "quitting" <=> panel.held)
        OBVIOUS
      <3> HIDE DEF m
      <3> QED BY <1>1, <3>1, <3>2 DEF PanelSound, Panel, g
    <2> QED BY <2>1, <2>2
  <1>5. panel.held /\ panel'.snapshot \in TerminalState => Terminal(session'[g])
    BY <1>1, <1>3, <1>4 DEF PanelSound, TerminalState
  <1> QED BY <1>1, <1>3, <1>4, <1>5, PanelKeeps

\* The panel exits without an error only when nothing of its session is left.
LEMMA ExitStep ==
  ASSUME PInv, shutdownTrace \/ ShutdownDeadline
  PROVE  PInv'
  <1>1. /\ PanelSound /\ SessionsSound /\ SessionsSound' /\ panel.held /\ g \in Own
        /\ UNCHANGED <<session, admission, fetching>>
    BY DEF PInv, PanelSound, shutdownTrace, ShutdownDeadline, clientVars, SessionsSound, Set
  <1>2. PICK m \in {"ok", "unconfirmed", "late"} :
          /\ panel' = [panel EXCEPT !.mode = m]
          /\ m = "ok" => Terminal(session[g]) /\ session[g].cleanup # "unconfirmed"
    BY DEF shutdownTrace, ShutdownDeadline, Set, ExitOf
  <1>3. m = "ok" => admission[g] \in {"none", "gone"}
    <2>1. SoundOf(session[g], admission[g], stream[g])
      BY <1>1, Callers DEF SessionsSound
    <2> QED BY <1>2, <2>1 DEF SoundOf, Record
  <1>4. /\ panel' \in Panel /\ panel'.mode = m /\ panel'.snapshot = panel.snapshot /\ g' = g
        /\ (panel'.held <=> panel.held) /\ (panel'.loading <=> panel.loading)
        /\ (panel'.target <=> panel.target) /\ (panel'.revoked <=> panel.revoked)
    BY <1>1, <1>2 DEF PanelSound, Panel, g
  <1>5. PanelSound'
    BY <1>1, <1>3, <1>4 DEF PanelSound
  <1> QED BY <1>1, <1>5 DEF PInv

-----------------------------------------------------------------------------
(* The specification. *)

LEMMA PInit ==
  ASSUME Init
  PROVE  PInv
  <1>1. /\ session \in [Session -> Record] /\ over \subseteq Session
        /\ admission \in [Session -> AdmissionState] /\ stream \in [Session -> StreamState]
    BY DEF Init, ClientInit, Record, State, AdmissionState, StreamState
  <1>2. ASSUME NEW k \in Session
        PROVE  SoundOf(session[k], admission[k], stream[k])
    <2> DEFINE s == session[k]
    <2>1. /\ s \in Record /\ admission[k] \in AdmissionState /\ stream[k] = "none"
          /\ s.state = (IF k \in Attached THEN "admitted" ELSE "new")
          /\ ~s.cancelRequested /\ (s.id <=> k \in Attached)
          /\ s.cleanup = (IF k \in Attached THEN "unconfirmed" ELSE "not_requested")
          /\ s.delete = "none" /\ s.task = "none" /\ s.result = "none"
          /\ k \notin Attached => admission[k] = "none"
      BY <1>1 DEF Init, ClientInit
    <2> HIDE DEF s
    <2> QED BY <2>1 DEF s, SoundOf, Terminal, TerminalState, Quiet, Termination, StreamState
  <1>3. SessionsSound
    BY <1>1, <1>2 DEF SessionsSound
  <1>4. /\ panel \in Panel /\ g = 0 /\ ~panel.held /\ ~panel.loading /\ ~panel.target
        /\ panel.mode \in {"absent", "open"} /\ fetching = {}
    BY Callers DEF Init, Panel, g
  <1>5. \A k \in Own : session[k].state = "new"
    <2>1. \A k \in Own : k \in Session /\ k \notin Attached
      BY Callers, CallersAssumption
    <2> QED BY <2>1 DEF Init, ClientInit
  <1>6. g \notin Own
    BY <1>4 DEF Own
  <1>7. PanelSound
    BY <1>4, <1>5, <1>6 DEF PanelSound
  <1> QED BY <1>3, <1>7 DEF PInv

LEMMA PNext ==
  ASSUME PInv, [Next]_vars
  PROVE  PInv'
  <1>1. CASE UNCHANGED vars
    BY <1>1 DEF vars, clientVars, PInv, SessionsSound, PanelSound, g
  <1>2. CASE Next
    BY <1>2, SelectStep, PrepareStep, StartKeyStep, StopKeyStep, UpdateStep, GiveUpStep, ExitStep,
       PinnedStep, ReceiveStep, CommandStep, GoroutineStep, ServerStep DEF Next
  <1> QED BY <1>1, <1>2

LEMMA PInvariance == Spec => []PInv
  <1>1. Init => PInv
    BY PInit
  <1>2. PInv /\ [Next]_vars => PInv'
    BY PNext
  <1> QED BY <1>1, <1>2, PTL DEF Spec

\* Every session's record, what the controller holds for it and the panel have their types.
THEOREM PanelTypeCorrect == Spec => []TypeOK
  <1>1. PInv => TypeOK
    BY DEF PInv, SessionsSound, PanelSound, TypeOK, ClientTypeOK, AdmissionState, StreamState, Own
  <1> QED BY <1>1, PInvariance, PTL

\* A confirmed cleanup, a cleanup that was not requested, an end other than failed and an
\* exit of the panel without an error are true of the controller (cleanupResult,
\* cancelledResult, shutdownTrace).
THEOREM ReportsAlwaysTrue == Spec => []ReportsAreTrue
  <1>1. ASSUME PInv
        PROVE  ReportsAreTrue
    <2>1. ASSUME NEW k \in Session
          PROVE  LET s == session[k] IN
                 /\ s.cleanup = "confirmed" => admission[k] = "gone"
                 /\ Terminal(s) /\ s.cleanup = "not_requested" => admission[k] = "none"
                 /\ Terminal(s) /\ s.state # "failed" => admission[k] \notin {"asked", "pending", "active"}
      BY <1>1 DEF PInv, SessionsSound, SoundOf
    <2>2. panel.mode = "ok" /\ panel.held => admission[g] \in {"none", "gone"}
      BY <1>1 DEF PInv, PanelSound
    <2> QED BY <2>1, <2>2 DEF ReportsAreTrue
  <1> QED BY <1>1, PInvariance, PTL

\* A session that is done has no goroutine left and has had its DELETE, and no two sessions
\* of the panel are busy at once: the client's slots never refuse the panel.
THEOREM DoneAlwaysQuiet == Spec => []DoneIsQuiet
  <1>1. ASSUME PInv
        PROVE  DoneIsQuiet
    <2>1. \A k \in Session : SoundOf(session[k], admission[k], stream[k])
      BY <1>1 DEF PInv, SessionsSound
    <2>2. \A k \in Session :
            Terminal(session[k]) => ~Busy(k) /\ (session[k].id => Answered(session[k]))
      BY <2>1 DEF SoundOf, Busy
    <2>3. \A k \in Session : session[k].state = "new" => ~Busy(k)
      BY <2>1 DEF SoundOf, Busy
    <2>4. \A k \in Own : Busy(k) => k = g
      BY <1>1, <2>2, <2>3, Callers DEF PInv, PanelSound, Terminal
    <2> QED BY <2>2, <2>4 DEF DoneIsQuiet
  <1> QED BY <1>1, PInvariance, PTL

\* A panel that has lost access asks for no trace until a target is selected anew, whatever
\* preparation, start or update was under way (revokeTraceEvidence, receiveTracePrepared).
THEOREM RevocationHolds == Spec => RevokedNeverCreates
  <1>1. ASSUME PInv, [Next]_vars, panel.revoked, NEW k \in Own, admission[k] = "none"
        PROVE  admission'[k] = "none"
    <2>1. SessionsSound /\ PanelSound /\ k \in Session
      BY <1>1, Callers DEF PInv
    <2>2. ASSUME NEW j \in Session, Goroutine(j)
          PROVE  admission'[k] = "none"
      <3>1. PICK s, a, t : /\ SessionMoves(j, s, a, t) /\ SoundOf(s, a, t)
                           /\ Goes(session[j], admission[j], s, a)
        BY <2>1, <2>2, SessionStepMoves DEF Goroutine
      <3>2. /\ admission'[j] = a
            /\ \A i \in Session \ {j} : admission'[i] = admission[i]
        BY <2>1, <3>1, MovesSound
      <3>3. CASE j # k
        BY <1>1, <2>1, <3>2, <3>3
      <3>4. CASE j = k
        <4>1. k = g
          BY <1>1, <2>1, <3>1, <3>4 DEF PanelSound, Goes, Quiet
        <4>2. SoundOf(session[k], admission[k], stream[k])
          BY <2>1 DEF SessionsSound
        <4>3. ~(session[k].task = "creating" /\ ~session[k].cancelRequested)
          BY <1>1, <2>1, <4>1, <4>2 DEF PanelSound, SoundOf, Terminal
        <4> QED BY <1>1, <3>1, <3>2, <3>4, <4>3 DEF Goes
      <3> QED BY <3>3, <3>4
    <2>3. ASSUME NEW j \in Session, Server(j)
          PROVE  admission'[k] = "none"
      BY <1>1, <2>1, <2>3, ControllerMoves DEF Server
    <2>4. UNCHANGED admission => admission'[k] = "none"
      BY <1>1
    <2>5. CASE UNCHANGED vars
      BY <2>4, <2>5 DEF vars, clientVars
    <2>6. CASE Next
      BY <2>2, <2>3, <2>4, <2>6
         DEF Next, selectTraceTarget, prepareTrace, StartKey, StopKey, receiveTraceUpdate,
             revokeTraceEvidence, Quit, shutdownTrace, ShutdownDeadline, Pinned,
             receiveTracePrepared, executeTraceSession, CancelCommand, Signal, clientVars
    <2> QED BY <1>1, <2>5, <2>6
  <1>2. PInv /\ [Next]_vars => [panel.revoked /\ panel'.revoked =>
          \A k \in Own : admission[k] = "none" => admission'[k] = "none"]_vars
    BY <1>1
  <1> QED BY <1>2, PInvariance, PTL DEF Spec, RevokedNeverCreates
=============================================================================
