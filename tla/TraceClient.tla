---------------------------- MODULE TraceClient -----------------------------
(***************************************************************************)
(* traceclient.Session: one selection, at most one admission, at most one  *)
(* activation and one DELETE, whatever order the caller's Cancel, the end  *)
(* of its context, a lost answer and the end of the stream come in.        *)
(*                                                                         *)
(* Operators on a session's record stand for what the code does under      *)
(* s.mu; the goroutines (run, the one that sends the DELETE, the one that  *)
(* Cancel starts) are the steps between two such sections.  The controller *)
(* is external: it admits, activates, ends and answers as TraceAdmission   *)
(* shows it does, and any request or answer may be late or lost.  A stream *)
(* that is interrupted is one that ends incomplete, which it may do at any *)
(* time; what is read from it, and its deadlines, are not modelled.        *)
(***************************************************************************)
EXTENDS Naturals, FiniteSets

CONSTANTS
  Session,
  Attached  \* sessions made for an admission that exists already

ASSUME AttachedAssumption == Attached \subseteq Session

VARIABLES
  session,    \* the Session structs
  over,       \* sessions whose caller's context is done
  admission,  \* what the controller holds for a session
  stream      \* the stream request and what its response carries last

clientVars == <<session, over, admission, stream>>

TerminalState == {"completed", "cancelled", "truncated", "failed"}
State == TerminalState \cup
  {"new", "preflight", "ready", "admitting", "admitted", "running", "cancelling"}

\* trace.Termination as terminalResult tells it apart.
Termination == {"expired", "cancelled", "limit", "refused"}

\* delete: the shared DELETE; "done" is handled, not answered.
\* task: where the goroutine that works for the session is.
\* createErr, result: of Create and of Watch, local to run; "incomplete" stands for
\* every error that cancelledResult takes for an interruption, "broken" for the others.
Record == [state : State, cancelRequested : BOOLEAN, id : BOOLEAN,
           cleanup : {"not_requested", "unconfirmed", "confirmed"},
           delete : {"none", "sent", "done", "unconfirmed", "confirmed"},
           task : {"none", "preparing", "creating", "posting", "watching",
                   "refusing", "closing", "cancelling"},
           createErr : BOOLEAN,
           result : Termination \cup {"none", "incomplete", "broken"}]

ClientTypeOK ==
  /\ session \in [Session -> Record]
  /\ over \subseteq Session
  /\ admission \in [Session -> {"none", "asked", "refused", "pending", "active", "ending", "gone"}]
  /\ stream \in [Session -> Termination \cup {"none", "requested", "open"}]

Terminal(s) == s.state \in TerminalState
Answered(s) == s.delete \in {"confirmed", "unconfirmed"}
Running(s) == s.task \in {"creating", "posting", "watching", "refusing", "closing"}

(***************************************************************************)
(* Sections under s.mu, as operators on the record.                        *)
(***************************************************************************)
finish(s, state) ==
  [s EXCEPT !.state = IF Terminal(s) THEN @ ELSE state,
            !.task = "none", !.result = "none", !.createErr = FALSE]

beginCancellation(s) == IF s.delete = "none" THEN [s EXCEPT !.delete = "sent"] ELSE s

\* Cancel: what may have begun on the server is deleted, once it has a name.
Cancel(s) ==
  LET c == [s EXCEPT !.cancelRequested = TRUE]
      going == [c EXCEPT !.state = "cancelling"]
  IN IF Terminal(s) \/ s.cancelRequested THEN s
     ELSE IF s.state \in {"new", "ready"} THEN finish(c, "cancelled")
     ELSE IF s.state = "admitted" THEN [beginCancellation(going) EXCEPT !.task = "cancelling"]
     ELSE IF s.id THEN beginCancellation(going) ELSE going

\* run, once Create has returned an admission: DELETE it, or watch it.
Created(s, err) ==
  LET a == [s EXCEPT !.id = TRUE, !.createErr = err]
  IN IF err \/ s.cancelRequested
     THEN [beginCancellation(a) EXCEPT !.task = "refusing"]
     ELSE [a EXCEPT !.task = "watching", !.state = "running"]

\* Mutation of terminalResult: the cause itself is taken for the state.
terminalResultRaw(r) == IF r \in Termination THEN r ELSE "failed"

terminalResult(r) ==
  CASE r = "expired" -> "completed" [] r = "cancelled" -> "cancelled"
    [] r = "limit" -> "truncated" [] OTHER -> "failed"

\* Mutation of cancelledResult: what the DELETE answered is not looked at.
cancelledResultAnyway(s) ==
  IF s.result \in Termination THEN terminalResult(s.result)
  ELSE IF s.result = "incomplete" THEN "cancelled" ELSE "failed"

\* A terminal cause that was observed wins over a late request to cancel.
cancelledResult(s) ==
  IF s.result \in Termination THEN terminalResult(s.result)
  ELSE IF s.result = "incomplete" /\ s.delete = "confirmed" THEN "cancelled" ELSE "failed"

(***************************************************************************)
(* The steps of a session.                                                 *)
(***************************************************************************)
Becomes(k, s) == session' = [session EXCEPT ![k] = s]

\* The context of Prepare or of Create is done.
Stopped(k) == session[k].cancelRequested \/ k \in over

Prepare(k) ==
  /\ session[k].state = "new"
  /\ Becomes(k, [session[k] EXCEPT !.state = "preflight", !.task = "preparing"])

PrepareEnds(k) ==
  LET s == session[k] IN
  /\ s.task = "preparing"
  /\ \/ Stopped(k) /\ Becomes(k, finish(s, "cancelled"))
     \/ ~Stopped(k) /\ Becomes(k, finish(s, "failed"))
     \/ ~Stopped(k) /\ Becomes(k, [s EXCEPT !.state = "ready", !.task = "none"])
  /\ UNCHANGED <<over, admission, stream>>

Start(k) ==
  /\ session[k].state \in {"ready", "admitted"}
  /\ Becomes(k, [session[k] EXCEPT !.state = "admitting", !.task = "creating",
                                   !.cleanup = "unconfirmed"])

\* Watch sends its request, or is not called.
Watched(k) ==
  stream' = IF session'[k].task = "watching" THEN [stream EXCEPT ![k] = "requested"] ELSE stream

\* run of an attached session: there is nothing to create.
Attach(k) ==
  /\ session[k].task = "creating" /\ session[k].id
  /\ Becomes(k, Created(session[k], FALSE))
  /\ Watched(k)
  /\ UNCHANGED <<over, admission>>

\* Create up to its POST.  A context that is done is found before anything is sent,
\* or by the transport, which cannot tell and calls the result uncertain.
Create(k) ==
  LET s == session[k] IN
  /\ s.task = "creating" /\ ~s.id
  /\ \/ /\ Stopped(k)
        /\ Becomes(k, finish([s EXCEPT !.cleanup = "not_requested"], "cancelled"))
        /\ UNCHANGED admission
     \/ /\ Stopped(k)
        /\ Becomes(k, finish(s, "failed"))
        /\ UNCHANGED admission
     \/ /\ ~Stopped(k)
        /\ Becomes(k, [s EXCEPT !.task = "posting"])
        /\ admission' = [admission EXCEPT ![k] = "asked"]
  /\ UNCHANGED <<over, stream>>

\* The answer names an admission, of what was asked for or (createErr) of something
\* else; or it is a refusal; or there is none, and the admission may come about.
CreateReturns(k) ==
  LET s == session[k] IN
  /\ s.task = "posting"
  /\ \/ admission[k] \in {"pending", "gone"} /\ \E err \in BOOLEAN : Becomes(k, Created(s, err))
     \/ Becomes(k, finish(s, "failed"))
  /\ Watched(k)
  /\ UNCHANGED <<over, admission>>

\* Its request may reach the controller later, what it has not read is lost.
WatchReturns(k) ==
  LET s == session[k] IN
  /\ s.task = "watching"
  /\ \E r \in {"incomplete", "broken"} \cup ({stream[k]} \cap Termination) :
       Becomes(k, [beginCancellation(s) EXCEPT !.task = "closing", !.result = r])
  /\ stream' = [stream EXCEPT ![k] = IF @ = "requested" THEN @ ELSE "none"]
  /\ UNCHANGED <<over, admission>>

\* The answer to the DELETE, or none within five seconds.
CancelReturns(k) ==
  LET s == session[k] IN
  /\ \/ s.delete = "done" /\ Becomes(k, [s EXCEPT !.delete = "confirmed", !.cleanup = "confirmed"])
     \/ /\ s.delete \in {"sent", "done"}
        /\ Becomes(k, [s EXCEPT !.delete = "unconfirmed", !.cleanup = "unconfirmed"])
  /\ UNCHANGED <<over, admission, stream>>

\* Mutation of Joined: the result waits for a cleanup that is confirmed.
JoinedConfirmed(s) == s.delete = "confirmed"

\* work.done is closed.
Joined(s) == Answered(s)

\* A goroutine that joined the DELETE ends the session.
Finishes(k) ==
  LET s == session[k]
      confirmed == s.delete = "confirmed"
      Ends(state) == Joined(s) /\ Becomes(k, finish(s, state))
  IN
  /\ \/ /\ s.task = "refusing"
        /\ Ends(IF s.cancelRequested /\ confirmed /\ ~s.createErr THEN "cancelled" ELSE "failed")
     \/ /\ s.task = "closing"
        /\ Ends(IF s.cancelRequested THEN cancelledResult(s) ELSE terminalResult(s.result))
     \/ /\ s.task = "cancelling"
        /\ Ends(IF confirmed THEN "cancelled" ELSE "failed")
  /\ UNCHANGED <<over, admission, stream>>

\* context.AfterFunc(parent, s.Cancel) while run goes on.
ParentEnded(k) ==
  /\ k \in over /\ Running(session[k]) /\ ~session[k].cancelRequested
  /\ Becomes(k, Cancel(session[k]))
  /\ UNCHANGED <<over, admission, stream>>

SessionStep(k) ==
  PrepareEnds(k) \/ Attach(k) \/ Create(k) \/ CreateReturns(k) \/ WatchReturns(k)
    \/ CancelReturns(k) \/ Finishes(k) \/ ParentEnded(k)

(***************************************************************************)
(* The controller.                                                         *)
(***************************************************************************)
Holds(k, a) == admission' = [admission EXCEPT ![k] = a] /\ UNCHANGED <<session, over>>

Admits(k) ==
  /\ admission[k] = "asked"
  /\ Holds(k, "pending") \/ Holds(k, "refused")
  /\ UNCHANGED stream

\* Claims the admission that the stream was requested for, or refuses.
Activates(k) ==
  /\ stream[k] = "requested"
  /\ IF admission[k] = "pending" THEN Holds(k, "active") ELSE UNCHANGED <<session, over, admission>>
  /\ stream' = [stream EXCEPT ![k] =
       IF admission[k] = "pending" /\ session[k].task = "watching" THEN "open" ELSE "none"]

\* The engine has ended; its summary was sent, or could not be.
EngineEnds(k) ==
  /\ admission[k] = "active"
  /\ Holds(k, "ending")
  /\ \/ stream' = [stream EXCEPT ![k] = "none"]
     \/ stream[k] = "open" /\ \E t \in Termination : stream' = [stream EXCEPT ![k] = t]

\* A pending admission expires; one whose engine has ended is removed.
Removes(k) ==
  /\ admission[k] \in {"pending", "ending"}
  /\ Holds(k, "gone")
  /\ UNCHANGED stream

\* A DELETE is done when what it found is gone (ConfirmedMeansGone of TraceAdmission).
Deletes(k) ==
  /\ session[k].delete = "sent" /\ admission[k] \in {"pending", "ending"}
  /\ Becomes(k, [session[k] EXCEPT !.delete = "done"])
  /\ admission' = [admission EXCEPT ![k] = "gone"]
  /\ UNCHANGED <<over, stream>>

Controller(k) == Admits(k) \/ Activates(k) \/ EngineEnds(k) \/ Removes(k) \/ Deletes(k)

ClientInit ==
  /\ over = {}
  /\ admission \in {f \in [Session -> {"none", "pending", "active"}] :
                      \A k \in Session : f[k] # "none" <=> k \in Attached}
  /\ stream = [k \in Session |-> "none"]
  /\ session = [k \in Session |->
       [state |-> IF k \in Attached THEN "admitted" ELSE "new", cancelRequested |-> FALSE,
        id |-> k \in Attached,
        cleanup |-> IF k \in Attached THEN "unconfirmed" ELSE "not_requested",
        delete |-> "none", task |-> "none", createErr |-> FALSE, result |-> "none"]]
=============================================================================
