----------------------------- MODULE TracePanel -----------------------------
(***************************************************************************)
(* The callers of TraceClient: the terminal's trace panel, a message loop  *)
(* that runs one session after another (tui/trace_panel.go), and a command *)
(* that watches an existing admission (cli/trace_result.go).               *)
(*                                                                         *)
(* The panel's sessions are 1..Selections; p.generation is the number of   *)
(* the selection, and the session made for a selection has its number.     *)
(* Intent and target editing, export and drawing are not modelled.         *)
(***************************************************************************)
EXTENDS TraceClient

CONSTANTS Selections, \* a bound of the model: how often a target is selected
          Command     \* sessions of commands

ASSUME CallersAssumption ==
  /\ Selections \in Nat /\ Session = (1..Selections) \cup Command
  /\ Attached = Command /\ Command \cap (1..Selections) = {}

VARIABLES
  panel,      \* the tracePanel
  fetching    \* selections whose prepare command has not delivered its message

vars == <<clientVars, panel, fetching>>

Panel == [generation : 0..Selections, loading : BOOLEAN, held : BOOLEAN,
          revoked : BOOLEAN, target : BOOLEAN,
          snapshot : State \cup {"none"},
          listening : BOOLEAN, \* a traceUpdateCmd waits
          mode : {"absent", "open", "quitting", "ok", "unconfirmed", "late"}]

TypeOK ==
  /\ ClientTypeOK
  /\ panel \in Panel
  /\ fetching \subseteq 1..Selections

Own == 1..Selections
g == panel.generation
Open == panel.mode = "open"
Exited == panel.mode \in {"ok", "unconfirmed", "late"}

\* A behaviour is one process, of the panel or of a command: they share nothing.
Live(k) == ~Exited /\ (k \in Command <=> panel.mode = "absent")

Set(p) == panel' = p /\ UNCHANGED fetching
Look(k, p) == [p EXCEPT !.snapshot = session'[k].state]

\* Mutation of Selectable: a session that is still ending may be replaced.
SelectableAnyway == ~panel.loading

\* T opens the panel, n selects anew: not while a session is alive.
Selectable == ~panel.loading /\ (~panel.held \/ panel.snapshot \in TerminalState)

selectTraceTarget ==
  /\ Open /\ Selectable /\ g < Selections
  /\ Set([generation |-> g + 1, loading |-> FALSE, held |-> FALSE, revoked |-> FALSE,
          target |-> TRUE, snapshot |-> "none", listening |-> FALSE, mode |-> "open"])
  /\ UNCHANGED clientVars

prepareTrace ==
  /\ Open /\ ~panel.loading /\ ~panel.held /\ panel.target /\ ~panel.revoked
  /\ panel' = [panel EXCEPT !.loading = TRUE]
  /\ fetching' = fetching \cup {g}
  /\ UNCHANGED clientVars

\* The command: the target is still the pinned one, so that Prepare begins.
Pinned(k) ==
  /\ k \in fetching /\ ~Exited
  /\ Prepare(k)
  /\ UNCHANGED <<over, admission, stream, panel, fetching>>

\* Mutation of Wanted: only the generation is compared.
WantedByGeneration(k) == k = g

\* A message that comes too late is for nobody.
Wanted(k) == k = g /\ ~panel.revoked

\* The command's message, with its session or, when the target was lost, without.
receiveTracePrepared(k) ==
  /\ Open /\ k \in fetching /\ session[k].task = "none"
  /\ fetching' = fetching \ {k}
  /\ \E made \in IF session[k].state = "new" THEN {FALSE} ELSE {TRUE} :
       IF Wanted(k)
       THEN /\ panel' = [panel EXCEPT !.loading = FALSE, !.held = made,
                           !.snapshot = IF made THEN session[k].state ELSE @]
            /\ UNCHANGED session
       ELSE /\ UNCHANGED panel
            /\ IF made THEN Becomes(k, Cancel(session[k])) ELSE UNCHANGED session
  /\ UNCHANGED <<over, admission, stream>>

\* Enter, after the operator has seen the report.
StartKey ==
  /\ Open /\ panel.held /\ panel.snapshot = "ready"
  /\ Start(g)
  /\ Set([Look(g, panel) EXCEPT !.listening = TRUE])
  /\ UNCHANGED <<over, admission, stream>>

StopKey ==
  /\ Open /\ panel.held /\ ~session[g].cancelRequested
  /\ Becomes(g, Cancel(session[g]))
  /\ Set(Look(g, panel))
  /\ UNCHANGED <<over, admission, stream>>

\* Updates are wake-ups: what the panel reads is the latest.
receiveTraceUpdate ==
  /\ Open /\ panel.held /\ panel.listening /\ panel.snapshot # session[g].state
  /\ UNCHANGED session
  /\ Set([Look(g, panel) EXCEPT !.listening = ~Terminal(session[g])])
  /\ UNCHANGED <<over, admission, stream>>

\* Access to the memory evidence is lost.
revokeTraceEvidence ==
  /\ Open /\ ~panel.revoked
  /\ Set([panel EXCEPT !.revoked = TRUE, !.target = FALSE, !.snapshot = "none"])
  /\ IF panel.held THEN Becomes(g, Cancel(session[g])) ELSE UNCHANGED session
  /\ UNCHANGED <<over, admission, stream>>

\* q, or the end of the program's context; then shutdownTrace.
Quit(ended) ==
  /\ Open
  /\ over' = over \cup IF ended THEN Own ELSE {}
  /\ Set([panel EXCEPT !.mode = IF panel.held THEN "quitting" ELSE "ok"])
  /\ IF panel.held THEN Becomes(g, Cancel(session[g])) ELSE UNCHANGED session
  /\ UNCHANGED <<admission, stream>>

ExitOf(s) == IF s.cleanup = "unconfirmed" THEN "unconfirmed" ELSE "ok"

shutdownTrace ==
  /\ panel.mode = "quitting" /\ Terminal(session[g])
  /\ Set([panel EXCEPT !.mode = ExitOf(session[g])])
  /\ UNCHANGED clientVars

\* The eight seconds are over.
ShutdownDeadline ==
  /\ panel.mode = "quitting" /\ ~Terminal(session[g])
  /\ Set([panel EXCEPT !.mode = "late"])
  /\ UNCHANGED clientVars

(***************************************************************************)
(* The commands watch and export.                                          *)
(***************************************************************************)
executeTraceSession(k) ==
  /\ Live(k) /\ Start(k)
  /\ UNCHANGED <<over, admission, stream, panel, fetching>>

\* An output error while it watches; any caller of an attached session may do so earlier.
CancelCommand(k) ==
  /\ Live(k) /\ ~session[k].cancelRequested /\ ~Terminal(session[k])
  /\ Becomes(k, Cancel(session[k]))
  /\ UNCHANGED <<over, admission, stream, panel, fetching>>

Signal(k) ==
  /\ Live(k) /\ k \notin over
  /\ over' = over \cup {k}
  /\ UNCHANGED <<session, admission, stream, panel, fetching>>

Goroutine(k) == Live(k) /\ SessionStep(k) /\ UNCHANGED <<panel, fetching>>
Server(k) ==
  /\ k \in Command <=> panel.mode = "absent"
  /\ Controller(k) /\ UNCHANGED <<panel, fetching>>

Init ==
  /\ ClientInit
  /\ \E m \in {"absent", "open"} :
       panel = [generation |-> 0, loading |-> FALSE, held |-> FALSE, revoked |-> FALSE,
                target |-> FALSE, snapshot |-> "none", listening |-> FALSE, mode |-> m]
  /\ fetching = {}

Next ==
  \/ selectTraceTarget \/ prepareTrace \/ StartKey \/ StopKey
  \/ receiveTraceUpdate \/ revokeTraceEvidence
  \/ \E ended \in BOOLEAN : Quit(ended)
  \/ shutdownTrace \/ ShutdownDeadline
  \/ \E k \in Own : Pinned(k) \/ receiveTracePrepared(k)
  \/ \E k \in Command : executeTraceSession(k) \/ CancelCommand(k) \/ Signal(k)
  \/ \E k \in Session : Goroutine(k) \/ Server(k)

Spec == Init /\ [][Next]_vars

\* Each wait of a session is bounded by a timer of the client: a preflight and Create by
\* five seconds a request, the DELETE by five, Watch by the trace's duration and two.
Fairness == \A k \in Session : WF_vars(Goroutine(k))

FairSpec == Spec /\ Fairness

(***************************************************************************)
(* Properties.                                                             *)
(***************************************************************************)
\* What a session and the panel report is true of the controller: a confirmed cleanup
\* means that nothing is left, a cleanup that was not requested that nothing was ever
\* asked for, an end other than failed that no engine runs or will run; and a panel
\* that exits without an error leaves nothing of its session behind.
ReportsAreTrue ==
  /\ \A k \in Session :
       LET s == session[k] IN
       /\ s.cleanup = "confirmed" => admission[k] = "gone"
       /\ Terminal(s) /\ s.cleanup = "not_requested" => admission[k] = "none"
       /\ Terminal(s) /\ s.state # "failed" => admission[k] \notin {"asked", "pending", "active"}
  /\ panel.mode = "ok" /\ panel.held => admission[g] \in {"none", "gone"}

Busy(k) == session[k].task # "none" \/ session[k].delete \in {"sent", "done"}

\* When a session is done nothing of it goes on, and an admission that it knows has had
\* its DELETE; hence the sessions of the panel, which share the one control, stream and
\* cancel slot of its client, never refuse each other.
DoneIsQuiet ==
  /\ \A k \in Session : Terminal(session[k]) => ~Busy(k) /\ (session[k].id => Answered(session[k]))
  /\ \A k, l \in Own : Busy(k) /\ Busy(l) => k = l

\* Between the loss of access and a new selection the panel asks for no trace, whatever
\* preparation, start or update was under way.
RevokedNeverCreates ==
  [][panel.revoked /\ panel'.revoked =>
       \A k \in Own : admission[k] = "none" => admission'[k] = "none"]_vars

\* What a session has begun ends without anybody's help, the controller's included, and
\* once it is asked to be cancelled it is done.
SessionsEnd ==
  \A k \in Session :
    /\ session[k].task # "none" ~> session[k].task = "none" \/ ~Live(k)
    /\ session[k].cancelRequested ~> Terminal(session[k]) \/ ~Live(k)
=============================================================================
