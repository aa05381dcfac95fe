------------------------------ MODULE AgentRun ------------------------------
(***************************************************************************)
(* The execution of agent runs: the ai.send handler that prepares a run,   *)
(* AiExecutionCoordinator with its single slot, the tool loop of           *)
(* AIOrchestrator, the approvals the tools wait for, cancellation, and the *)
(* execution rows in which all of it is recorded.  A run goes on while     *)
(* its window is closed and another is opened, and any write of the store  *)
(* may throw.                                                              *)
(***************************************************************************)
EXTENDS Naturals

CONSTANTS Runs,          \* executions, each sent once
          NoRun,         \* the empty slot
          MaxCalls,      \* tool calls of a run (AGENT_TOOL_LIMITS.maxSteps)
          MaxRestarts,   \* process ends
          AsksForFiles,  \* approvalPolicy is "untrusted"
          Fragile        \* runs of which a write of the store may throw

ASSUME NoRunAssumption == NoRun \notin Runs
ASSUME MaxCallsAssumption == MaxCalls \in Nat
ASSUME MaxRestartsAssumption == MaxRestarts \in Nat
ASSUME PolicyAssumption == AsksForFiles \in BOOLEAN /\ Fragile \subseteq Runs

VARIABLES app,       \* the window is open, closing, or the database is closed
          restarts,  \* process ends so far
          active,    \* AiExecutionCoordinator.active
          at,        \* where the handler and the turn of each run are
          life,      \* ActiveExecution.lifecycle.state, "none" before reserve
          stopping,  \* cancelRequested, and after the start the abort signal
          tool,      \* the tool that asks or is at work
          calls,     \* tool calls of its loop; also the key of an approval
          pending,   \* ActiveExecution.pendingApprovals
          outcome,   \* what the turn ended with
          row,       \* status of the execution's row
          shown,     \* history: the last message the renderer was sent of it
          granted,   \* history: the request the developer granted last
          faulted,   \* history: runs of which a write of the store threw
          dropped    \* history: runs whose window closed under them

appVars  == <<app, restarts>>
runVars  == <<at, life, stopping, tool, calls, pending, outcome>>
histVars == <<shown, granted, faulted, dropped>>
vars     == <<appVars, active, runVars, row, histVars>>

Ended   == {"completed", "failed", "cancelled"}
Lives   == {"planning", "running", "waiting-approval", "cancelling"} \cup Ended
Rows    == {"none", "created", "planning", "running"} \cup Ended
Tools   == {"file", "command"}
Shows   == {"none", "planning", "running", "request", "cancelling", "text",
            "error", "failed", "end"}

\* "preparing" is the send handler before startProvider, "resolving" the wait
\* for the provider, "model" a request to it, "asking" a tool that waits for
\* the developer, "effect" a tool at work, "finalizing" finalizeTurn.
Turning == {"model", "asking", "effect"}
Busy    == {"preparing", "resolving", "finalizing"} \cup Turning
Places  == {"idle", "over"} \cup Busy

\* The coordinator, the runs and the rows hold what the code puts in them.
TypeOK ==
    /\ app \in {"open", "closing", "closed"}
    /\ restarts \in 0 .. MaxRestarts
    /\ active \in Runs \cup {NoRun}
    /\ at \in [Runs -> Places]
    /\ life \in [Runs -> Lives \cup {"none"}]
    /\ stopping \in [Runs -> BOOLEAN]
    /\ tool \in [Runs -> Tools \cup {"none"}]
    /\ calls \in [Runs -> 0 .. MaxCalls]
    /\ pending \in [Runs -> SUBSET (1 .. MaxCalls)]
    /\ outcome \in [Runs -> Ended \cup {"none"}]
    /\ row \in [Runs -> Rows]
    /\ shown \in [Runs -> Shows]
    /\ granted \in [Runs -> 0 .. MaxCalls]
    /\ faulted \subseteq Runs
    /\ dropped \subseteq Runs

Init ==
    /\ app = "open"
    /\ restarts = 0
    /\ active = NoRun
    /\ at = [r \in Runs |-> "idle"]
    /\ life = [r \in Runs |-> "none"]
    /\ stopping = [r \in Runs |-> FALSE]
    /\ tool = [r \in Runs |-> "none"]
    /\ calls = [r \in Runs |-> 0]
    /\ pending = [r \in Runs |-> {}]
    /\ outcome = [r \in Runs |-> "none"]
    /\ row = [r \in Runs |-> "none"]
    /\ shown = [r \in Runs |-> "none"]
    /\ granted = [r \in Runs |-> 0]
    /\ faulted = {}
    /\ dropped = {}

-----------------------------------------------------------------------------
\* reduceAgentLifecycle: the states that may follow each state.
Following(s) ==
    CASE s = "planning" -> Lives
      [] s = "running" -> Lives \ {"planning"}
      [] s = "waiting-approval" -> Lives \ {"planning", "completed"}
      [] s = "cancelling" -> {"cancelling"} \cup Ended
      [] OTHER -> {}

\* Mutant: the row takes the state of the life cycle as it is.
StoredAsIs(s) == s

\* persistExecutionLifecycle: the row knows no approvals and no cancelling.
Stored(s) == IF s \in {"waiting-approval", "cancelling"} THEN "running" ELSE s

\* Mutant: the store lets a terminal status be replaced.
WritesAnything(r, s) ==
    IF app = "closed" THEN {FALSE}
    ELSE IF r \in Fragile THEN BOOLEAN ELSE {TRUE}

\* ExecutionRepository.save: the outcomes of writing status s; a terminal
\* status is immutable, and a closed database refuses every write.
Writes(r, s) ==
    IF app = "closed" \/ (row[r] \in Ended /\ row[r] # s) THEN {FALSE}
    ELSE IF r \in Fragile THEN BOOLEAN ELSE {TRUE}

Write(r, s, ok) ==
    /\ ok \in Writes(r, s)
    /\ row' = IF ok THEN [row EXCEPT ![r] = s] ELSE row
    /\ faulted' = IF ok THEN faulted ELSE faulted \cup {r}

\* applyLifecycle: memory changes first; the write that follows may throw.
Enter(r, s, ok) ==
    /\ s \in Following(life[r])
    /\ life' = [life EXCEPT ![r] = s]
    /\ Write(r, Stored(s), ok)

\* The window of a dropped run is destroyed and is sent nothing.
Show(r, m) == shown' = IF r \in dropped THEN shown ELSE [shown EXCEPT ![r] = m]

-----------------------------------------------------------------------------
\* ai.send: the execution is created; its evidence, attachments and, for a
\* Build, its BEFORE capture are awaited.
Send(r) ==
    /\ at[r] = "idle"
    /\ app = "open"
    /\ at' = [at EXCEPT ![r] = "preparing"]
    /\ row' = [row EXCEPT ![r] = "created"]
    /\ UNCHANGED <<appVars, active, life, stopping, tool, calls, pending,
                   outcome, histVars>>

\* Mutant: a refused run is left to the error of the call.
NotStartedSilently(r, ok) ==
    /\ at[r] = "preparing"
    /\ at' = [at EXCEPT ![r] = "over"]
    /\ ok
    /\ UNCHANGED <<appVars, active, life, stopping, tool, calls, pending,
                   outcome, row, histVars>>

\* The preparation failed, or reserve refused because another run holds the
\* slot or the window was closed: the handler stores the failure.
NotStarted(r, ok) ==
    /\ at[r] = "preparing"
    /\ at' = [at EXCEPT ![r] = "over"]
    /\ Write(r, "failed", ok)
    /\ UNCHANGED <<appVars, active, life, stopping, tool, calls, pending,
                   outcome, shown, granted, dropped>>

\* reserve(): the run takes the slot and is planned.
Reserve(r) ==
    /\ at[r] = "preparing"
    /\ active = NoRun
    /\ r \notin dropped
    /\ active' = r
    /\ at' = [at EXCEPT ![r] = "resolving"]
    /\ life' = [life EXCEPT ![r] = "planning"]
    /\ Write(r, "planning", TRUE)
    /\ Show(r, "planning")
    /\ UNCHANGED <<appVars, stopping, tool, calls, pending, outcome, granted,
                   dropped>>

\* reserve() threw at its write: the slot is taken, the handler stores the
\* failure of an execution it finds still "created".
ReserveThrows(r, ok) ==
    /\ at[r] = "preparing"
    /\ active = NoRun
    /\ r \notin dropped
    /\ FALSE \in Writes(r, "planning")
    /\ active' = r
    /\ at' = [at EXCEPT ![r] = "over"]
    /\ life' = [life EXCEPT ![r] = "planning"]
    /\ ok \in Writes(r, "failed")
    /\ row' = IF ok THEN [row EXCEPT ![r] = "failed"] ELSE row
    /\ faulted' = faulted \cup {r}
    /\ UNCHANGED <<appVars, stopping, tool, calls, pending, outcome, shown,
                   granted, dropped>>

-----------------------------------------------------------------------------
\* startAiTurn returned to a run that still holds the slot: the turn runs, and
\* a cancellation requested meanwhile reaches it.
TurnStarts(r) ==
    /\ at[r] = "resolving"
    /\ active = r
    /\ at' = [at EXCEPT ![r] = "model"]
    /\ IF life[r] = "planning"
       THEN Enter(r, "running", TRUE) /\ Show(r, "running")
       ELSE UNCHANGED <<life, row, shown, faulted>>
    /\ UNCHANGED <<appVars, active, stopping, tool, calls, pending, outcome,
                   granted, dropped>>

\* The write of "running" threw: startProvider fails the run and, if that is
\* stored, frees the slot. Nobody aborts the turn, which has started.
TurnStartThrows(r, ok) ==
    /\ at[r] = "resolving"
    /\ active = r
    /\ life[r] = "planning"
    /\ FALSE \in Writes(r, "running")
    /\ ok \in Writes(r, "failed")
    /\ at' = [at EXCEPT ![r] = "model"]
    /\ life' = [life EXCEPT ![r] = "failed"]
    /\ row' = IF ok THEN [row EXCEPT ![r] = "failed"] ELSE row
    /\ faulted' = faulted \cup {r}
    /\ IF ok THEN Show(r, "failed") /\ active' = NoRun
             ELSE UNCHANGED <<shown, active>>
    /\ UNCHANGED <<appVars, stopping, tool, calls, pending, outcome, granted,
                   dropped>>

\* startAiTurn returned, but the window was closed: the turn is aborted.
TurnStartsDropped(r) ==
    /\ at[r] = "resolving"
    /\ active # r
    /\ at' = [at EXCEPT ![r] = "model"]
    /\ stopping' = [stopping EXCEPT ![r] = TRUE]
    /\ UNCHANGED <<appVars, active, life, tool, calls, pending, outcome, row,
                   histVars>>

\* The model or its provider could not be resolved.
ResolveFails(r, ok) ==
    /\ at[r] = "resolving"
    /\ at' = [at EXCEPT ![r] = "over"]
    /\ IF active = r
       THEN /\ Enter(r, "failed", ok)
            /\ IF ok THEN Show(r, "failed") /\ active' = NoRun
                     ELSE UNCHANGED <<shown, active>>
       ELSE ok /\ UNCHANGED <<active, life, row, faulted, shown>>
    /\ UNCHANGED <<appVars, stopping, tool, calls, pending, outcome, granted,
                   dropped>>

-----------------------------------------------------------------------------
\* forwardEvent drops what belongs to no run, ends it or follows its
\* cancellation.
Forwarded(r) == active = r /\ at[r] # "finalizing" /\ life[r] # "cancelling"

\* Mutant: the cancellation does not stop the stream.
DeltaWhileActive(r) ==
    /\ at[r] \in {"model", "effect"}
    /\ active = r
    /\ Show(r, "text")
    /\ UNCHANGED <<appVars, active, runVars, row, granted, faulted, dropped>>

\* The adapter emits text, or a tool its progress; after an abort they may
\* still do so.
Delta(r) ==
    /\ at[r] \in {"model", "effect"}
    /\ Forwarded(r)
    /\ Show(r, "text")
    /\ UNCHANGED <<appVars, active, runVars, row, granted, faulted, dropped>>

\* The turn has its outcome o: it is finalized if its run holds the slot.
EndTurn(r, o) ==
    IF active = r
    THEN /\ at' = [at EXCEPT ![r] = "finalizing"]
         /\ outcome' = [outcome EXCEPT ![r] = o]
         /\ IF o = "failed" /\ Forwarded(r)
            THEN Show(r, "error") ELSE UNCHANGED shown
    ELSE at' = [at EXCEPT ![r] = "over"] /\ UNCHANGED <<outcome, shown>>

\* The variables of the loop are gone with it.
LoopEnds(r) ==
    /\ calls' = [calls EXCEPT ![r] = 0]
    /\ tool' = [tool EXCEPT ![r] = "none"]
    /\ granted' = [granted EXCEPT ![r] = 0]

\* The adapter answered or threw, and no tool is called.
ModelEnds(r, o) ==
    /\ at[r] = "model"
    /\ o \in (IF stopping[r] THEN {"cancelled"} ELSE {"completed", "failed"})
    /\ EndTurn(r, o)
    /\ LoopEnds(r)
    /\ UNCHANGED <<appVars, active, life, stopping, pending, row, faulted,
                   dropped>>

Tooling(r, p, t) ==
    /\ at' = [at EXCEPT ![r] = p]
    /\ tool' = [tool EXCEPT ![r] = t]

NeedsApproval(t) == t = "command" \/ (t = "file" /\ AsksForFiles)

\* The loop of AIOrchestrator.run goes to the next tool call.
NextCall(r) ==
    /\ at[r] = "model"
    /\ ~stopping[r]
    /\ calls[r] < MaxCalls
    /\ calls' = [calls EXCEPT ![r] = @ + 1]
    /\ UNCHANGED <<appVars, active, stopping, outcome, granted, dropped>>

\* Mutant: the signal is not looked at between two tools.
CallsAnyway(r, t) ==
    /\ at[r] = "model"
    /\ calls[r] < MaxCalls
    /\ calls' = [calls EXCEPT ![r] = @ + 1]
    /\ ~NeedsApproval(t)
    /\ Tooling(r, "effect", t)
    /\ UNCHANGED <<appVars, active, stopping, outcome, granted, dropped,
                   life, pending, row, shown, faulted>>

\* A tool that needs no decision starts.
CallsTool(r, t) ==
    /\ NextCall(r)
    /\ ~NeedsApproval(t)
    /\ Tooling(r, "effect", t)
    /\ UNCHANGED <<life, pending, row, shown, faulted>>

\* Mutant: the request is published and the life cycle is not told.
AsksSilently(r, t, ok) ==
    /\ NextCall(r)
    /\ NeedsApproval(t)
    /\ active = r
    /\ pending' = [pending EXCEPT ![r] = @ \cup {calls'[r]}]
    /\ Tooling(r, "asking", t)
    /\ ok
    /\ Show(r, "request")
    /\ UNCHANGED <<life, row, faulted>>

\* requestToolApproval of the run in the slot. The write may throw out of it:
\* the tool fails, and its key stays on the map. A life cycle that is
\* "cancelling", or ended by a fault, is not changed.
Asks(r, t, ok) ==
    /\ NextCall(r)
    /\ NeedsApproval(t)
    /\ active = r
    /\ pending' = [pending EXCEPT ![r] = @ \cup {calls'[r]}]
    /\ IF ok THEN Tooling(r, "asking", t) ELSE UNCHANGED <<at, tool>>
    /\ IF "waiting-approval" \in Following(life[r])
       THEN Enter(r, "waiting-approval", ok)
       ELSE ok /\ UNCHANGED <<life, row, faulted>>
    /\ IF ok /\ Forwarded(r) THEN Show(r, "request") ELSE UNCHANGED shown

\* requestToolApproval of a run that lost the slot answers no.
AsksInVain(r, t) ==
    /\ NextCall(r)
    /\ NeedsApproval(t)
    /\ active # r
    /\ UNCHANGED <<at, tool, life, pending, row, shown, faulted>>

\* The tool returned: the loop goes on, or ends if the signal is aborted.
EffectEnds(r) ==
    /\ at[r] = "effect"
    /\ IF stopping[r]
       THEN EndTurn(r, "cancelled") /\ LoopEnds(r)
       ELSE /\ Tooling(r, "model", "none")
            /\ UNCHANGED <<calls, granted, outcome, shown>>
    /\ UNCHANGED <<appVars, active, life, stopping, pending, row, faulted,
                   dropped>>

-----------------------------------------------------------------------------
\* The tool that waits for request k, if one does, takes the answer.
Resume(r, k, yes) ==
    /\ IF at[r] = "asking" /\ calls[r] = k
       THEN IF yes THEN Tooling(r, "effect", tool[r])
                   ELSE Tooling(r, "model", "none")
       ELSE UNCHANGED <<at, tool>>
    /\ granted' = IF yes /\ k = calls[r] THEN [granted EXCEPT ![r] = k]
                                        ELSE granted

\* Mutant: an answer goes to whichever tool waits.
AnswerAny(r, k, yes) ==
    /\ active = r
    /\ life[r] = "waiting-approval"
    /\ k \in 1 .. calls[r]
    /\ pending' = [pending EXCEPT ![r] = {}]
    /\ at[r] = "asking"
    /\ IF yes THEN Tooling(r, "effect", tool[r]) ELSE Tooling(r, "model", "none")
    /\ granted' = IF yes /\ k = calls[r] THEN [granted EXCEPT ![r] = k]
                                        ELSE granted
    /\ Enter(r, "running", TRUE)
    /\ Show(r, "running")
    /\ UNCHANGED <<appVars, active, stopping, calls, outcome, dropped>>

\* resolveApproval(key, accepted) of a key on the map.
Answer(r, k, yes) ==
    /\ active = r
    /\ life[r] = "waiting-approval"
    /\ k \in pending[r]
    /\ pending' = [pending EXCEPT ![r] = @ \ {k}]
    /\ IF pending[r] = {k}
       THEN Enter(r, "running", TRUE) /\ Show(r, "running")
       ELSE UNCHANGED <<life, row, faulted, shown>>
    /\ Resume(r, k, yes)
    /\ UNCHANGED <<appVars, active, stopping, calls, outcome, dropped>>

\* The write of "running" threw: the key is gone and its tool is not resumed.
AnswerThrows(r, k) ==
    /\ active = r
    /\ life[r] = "waiting-approval"
    /\ pending[r] = {k}
    /\ pending' = [pending EXCEPT ![r] = {}]
    /\ Enter(r, "running", FALSE)
    /\ UNCHANGED <<appVars, active, at, stopping, tool, calls, outcome, shown,
                   granted, dropped>>

\* settlePendingApprovals(active, false), then turn.cancel(): the tool that
\* waits is refused and its loop finds the signal aborted.
Stop(r) ==
    /\ stopping' = [stopping EXCEPT ![r] = TRUE]
    /\ pending' = [pending EXCEPT ![r] = {}]
    /\ IF at[r] = "asking" /\ calls[r] \in pending[r]
       THEN Tooling(r, "model", "none")
       ELSE UNCHANGED <<at, tool>>

\* Mutant: the approvals are not settled.
CancelKeepsApprovals(r) ==
    /\ active = r
    /\ at[r] # "finalizing"
    /\ Enter(r, "cancelling", TRUE)
    /\ Show(r, "cancelling")
    /\ stopping' = [stopping EXCEPT ![r] = TRUE]
    /\ UNCHANGED <<appVars, active, at, pending, tool, calls, outcome, granted,
                   dropped>>

\* ai.cancel of the conversation whose run holds the slot.
Cancel(r) ==
    /\ active = r
    /\ at[r] # "finalizing"
    /\ Enter(r, "cancelling", TRUE)
    /\ Show(r, "cancelling")
    /\ Stop(r)
    /\ UNCHANGED <<appVars, active, calls, outcome, granted, dropped>>

\* The write of "cancelling" threw: the turn is not told.
CancelThrows(r) ==
    /\ active = r
    /\ at[r] # "finalizing"
    /\ Enter(r, "cancelling", FALSE)
    /\ UNCHANGED <<appVars, active, at, stopping, tool, calls, pending, outcome,
                   shown, granted, dropped>>

-----------------------------------------------------------------------------
\* Mutant: an aborted turn is completed like any other.
CompletesAlike(r) ==
    /\ at[r] = "finalizing"
    /\ at' = [at EXCEPT ![r] = "over"]
    /\ active' = IF active = r THEN NoRun ELSE active
    /\ Enter(r, "completed", TRUE)
    /\ Show(r, "end")
    /\ UNCHANGED <<appVars, stopping, tool, calls, pending, outcome, granted,
                   dropped>>

\* finalizeTurn returned or threw: the outcome enters the life cycle, the
\* renderer is told, and the slot is free.
Completes(r) ==
    /\ at[r] = "finalizing"
    /\ at' = [at EXCEPT ![r] = "over"]
    /\ active' = IF active = r THEN NoRun ELSE active
    /\ IF outcome[r] \in Following(life[r])
       THEN Enter(r, outcome[r], TRUE)
       ELSE UNCHANGED <<life, row, faulted>>
    /\ Show(r, "end")
    /\ UNCHANGED <<appVars, stopping, tool, calls, pending, outcome, granted,
                   dropped>>

\* The write of the outcome threw. If finalizeTurn had returned, the renderer
\* is still told of the end; if it had thrown, the error ends the process
\* through its handler of unhandled rejections, later than this step.
CompletesThrows(r, told) ==
    /\ at[r] = "finalizing"
    /\ at' = [at EXCEPT ![r] = "over"]
    /\ active' = IF active = r THEN NoRun ELSE active
    /\ Enter(r, outcome[r], FALSE)
    /\ IF told THEN Show(r, "end") ELSE UNCHANGED shown
    /\ UNCHANGED <<appVars, stopping, tool, calls, pending, outcome, granted,
                   dropped>>

-----------------------------------------------------------------------------
InProgress == {r \in Runs : at[r] \in Busy}

\* Mutant: the slot is emptied and the turn is left running.
DisposeLetsRun ==
    /\ app = "open"
    /\ app' = "closing"
    /\ active' = NoRun
    /\ dropped' = dropped \cup InProgress
    /\ UNCHANGED <<restarts, runVars, row, shown, granted, faulted>>

\* The window closes: dispose() of the coordinator stops the run in the slot.
Dispose ==
    /\ app = "open"
    /\ app' = "closing"
    /\ active' = NoRun
    /\ dropped' = dropped \cup InProgress
    /\ IF active = NoRun
       THEN UNCHANGED <<stopping, pending, at, tool>>
       ELSE Stop(active)
    /\ UNCHANGED <<restarts, life, calls, outcome, row, shown, granted,
                   faulted>>

\* activate: a new window, with a coordinator of its own.
Reopen ==
    /\ app = "closing"
    /\ app' = "open"
    /\ UNCHANGED <<restarts, active, runVars, row, histVars>>

\* shutdownResources closes the database once the disposers returned; that of
\* the coordinator returns at once.
CloseDatabase ==
    /\ app = "closing"
    /\ app' = "closed"
    /\ UNCHANGED <<restarts, active, runVars, row, histVars>>

\* The process ends, at any point, and starts again: reconcile() fails the
\* executions it finds open.
Restart ==
    /\ restarts < MaxRestarts
    /\ restarts' = restarts + 1
    /\ app' = "open"
    /\ active' = NoRun
    /\ at' = [r \in Runs |-> IF at[r] \in Busy THEN "over" ELSE at[r]]
    /\ stopping' = [r \in Runs |-> FALSE]
    /\ tool' = [r \in Runs |-> "none"]
    /\ calls' = [r \in Runs |-> 0]
    /\ pending' = [r \in Runs |-> {}]
    /\ granted' = [r \in Runs |-> 0]
    /\ row' = [r \in Runs |-> IF row[r] \in {"created", "planning", "running"}
                              THEN "failed" ELSE row[r]]
    /\ UNCHANGED <<life, outcome, shown, faulted, dropped>>

-----------------------------------------------------------------------------
Prepare(r) ==
    \/ Reserve(r)
    \/ \E ok \in BOOLEAN : NotStarted(r, ok) \/ ReserveThrows(r, ok)

Start(r) ==
    \/ TurnStarts(r) \/ TurnStartsDropped(r)
    \/ \E ok \in BOOLEAN : TurnStartThrows(r, ok) \/ ResolveFails(r, ok)

Loop(r) ==
    \/ \E o \in Ended : ModelEnds(r, o)
    \/ \E t \in Tools :
          \/ CallsTool(r, t) \/ AsksInVain(r, t)
          \/ \E ok \in BOOLEAN : Asks(r, t, ok)
    \/ EffectEnds(r)

Finish(r) == Completes(r) \/ \E told \in BOOLEAN : CompletesThrows(r, told)

\* What goes on without the developer.
Work(r) == Prepare(r) \/ Start(r) \/ Loop(r) \/ Finish(r)

Developer(r) ==
    \/ Send(r) \/ Cancel(r) \/ CancelThrows(r)
    \/ \E k \in 1 .. MaxCalls :
          \/ AnswerThrows(r, k)
          \/ \E yes \in BOOLEAN : Answer(r, k, yes)

Next ==
    \/ \E r \in Runs : Work(r) \/ Delta(r) \/ Developer(r)
    \/ Dispose \/ Reopen \/ CloseDatabase \/ Restart

\* Requests to the provider and commands have deadlines, captures end.
Fairness == \A r \in Runs : WF_vars(Work(r))

Spec == Init /\ [][Next]_vars /\ Fairness

-----------------------------------------------------------------------------
\* A tool that waits for the developer can be answered: its request is on the
\* map and the life cycle accepts an answer.
WaiterIsAnswerable ==
    \A r \in Runs :
        at[r] = "asking" /\ active = r /\ r \notin faulted =>
            calls[r] \in pending[r] /\ life[r] = "waiting-approval"

\* A tool that needs approval is at work only if the developer granted that
\* very request (security.md: every command needs an explicit approval).
EffectIsApproved ==
    \A r \in Runs :
        at[r] = "effect" /\ NeedsApproval(tool[r]) => granted[r] = calls[r]

\* When the renderer is told that a run ended, its row and its life cycle
\* agree with the outcome of the turn.
OutcomeIsStored ==
    \A r \in Runs : shown[r] = "end" /\ r \notin faulted =>
        row[r] = outcome[r] /\ life[r] = outcome[r]

\* Of two turns at work, one was told to stop, also when a window was opened
\* while the turn of a closed one drains.
OneLiveTurn ==
    \A r, s \in Runs :
        /\ r # s /\ {r, s} \cap faulted = {}
        /\ {at[r], at[s]} \subseteq Turning
        => stopping[r] \/ stopping[s]

\* A row left open belongs to a run in progress, unless a write threw or the
\* window closed under it; startup settles those.
OpenRowHasRun ==
    \A r \in Runs :
        row[r] \in {"created", "planning", "running"} =>
            at[r] \in Busy \/ r \in faulted \/ r \in dropped

\* ExecutionRepository: the terminal result of an execution is immutable,
\* whatever handlers, late turns and restarts write.
RowsAreFinal ==
    [][\A r \in Runs : row[r] \in Ended => row'[r] = row[r]]_vars

\* After its cancellation a run shows nothing but its end, and after its end
\* nothing at all.
ShownInOrder ==
    [][\A r \in Runs :
          /\ shown[r] \in {"failed", "end"} => shown'[r] = shown[r]
          /\ shown[r] = "cancelling" =>
                shown'[r] \in {"cancelling", "failed", "end"}]_vars

\* No tool starts once the run is cancelling, not even one that was waiting.
NoToolAfterCancel ==
    [][\A r \in Runs :
          life[r] = "cancelling" /\ at'[r] = "effect" =>
              at[r] = "effect" \/ r \in faulted]_vars

\* A run leaves the slot, unless it waits for an answer of a developer who did
\* not cancel it, or a write threw.
SlotIsFreed ==
    \A r \in Runs :
        active = r ~> \/ active # r
                      \/ at[r] = "asking" /\ life[r] # "cancelling"
                      \/ r \in faulted

-----------------------------------------------------------------------------
\* AiExecutionCoordinator.ts:196, the refusal of a second run: "Cancel it
\* before starting another"; so a cancelled run leaves the slot.
CancelFreesSlot ==
    \A r \in Runs : life[r] = "cancelling" ~> active # r

\* docs/operational-recovery.md:39-43: cleanup of agent commands settles by
\* four seconds and application shutdown awaits it; so no command is being
\* supervised when the database is closed.
ShutdownAwaitsCommands ==
    app = "closed" =>
        \A r \in Runs : ~(at[r] = "effect" /\ tool[r] = "command")

=============================================================================
