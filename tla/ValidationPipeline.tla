-------------------------- MODULE ValidationPipeline --------------------------
(* Validation runs of one workspace: ValidationPipeline admits one run at a    *)
(* time and stores its row; CancellableProcessRunner owns the process group   *)
(* and the three timers that end it.  Command output and artifacts are left    *)
(* out: they change no decision.                                              *)
EXTENDS Naturals, FiniteSets, Sequences

CONSTANTS ScriptNames, \* for each kind, the script names that serve it, in order
          Defaults,    \* the kinds a detected tool serves without a script
          MaxRuns,     \* bound: rows created
          MaxEdits     \* bound: edits of package.json

VARIABLES stackEvidence,    \* script name |-> text, as the Project Index stored it
          manifest,         \* script name |-> text, as package.json has it now
          active,           \* the entry of `active`: the run under way, or None
          valStep,          \* where `execute` waits
          aborted,          \* the signal of the run's AbortController
          pipelineDisposed, \* `disposed`
          trusted,          \* what authorizeExecution answers
          valRows,          \* the rows of validation_runs
          proc,             \* the process group of the last run that spawned one
          runner            \* the closure of CancellableProcessRunner.run

valVars == <<stackEvidence, manifest, active, valStep, aborted, pipelineDisposed, trusted,
             valRows, proc, runner>>

Kinds == DOMAIN ScriptNames
Names == UNION {{ScriptNames[k][i] : i \in 1..Len(ScriptNames[k])} : k \in Kinds}
Texts == {"none", "safe", "blocked"}   \* "blocked": assessCommand refuses it
None == [run |-> 0]
Final == {"passed", "failed", "cancelled", "blocked"}

NewRunner == [win |-> FALSE, begun |-> FALSE, cancelled |-> FALSE, timedOut |-> FALSE,
              error |-> FALSE, uncertain |-> FALSE, killFired |-> FALSE, settled |-> FALSE]
NoProc == [parent |-> "none", others |-> FALSE, closed |-> FALSE, zero |-> FALSE,
           signal |-> "none"]

ValInit ==
    /\ manifest = [n \in Names |-> "safe"]
    /\ stackEvidence = manifest
    /\ active = None /\ valStep = "idle"
    /\ aborted = FALSE /\ pipelineDisposed = FALSE /\ trusted = TRUE
    /\ valRows = <<>>
    /\ proc = NoProc /\ runner = NewRunner

(* planValidation: the first known script of the kind, else a detected tool. *)
Plan(evidence, kind) ==
    LET present == SelectSeq(ScriptNames[kind], LAMBDA n : evidence[n] # "none")
    IN  IF present # <<>> THEN [script |-> Head(present), text |-> evidence[Head(present)]]
        ELSE [script |-> "none", text |-> IF kind \in Defaults THEN "safe" ELSE "none"]

(* The row `execute` creates, what the table keeps of it, and the plans it stops at  *)
(* once: none was found, or the command or its script is blocked.              *)
RunRow(status) == [status |-> status, moved |-> FALSE, uncertain |-> FALSE]
RunRows == [status : Final \cup {"queued", "running"}, moved : BOOLEAN, uncertain : BOOLEAN]
StopsAtOnce(plan) == plan.text \in {"none", "blocked"}

(* ValidationRepository.update: WHERE id AND workspace finds no moved row. *)
Save(rows, id, status) ==
    IF rows[id].moved THEN rows ELSE [rows EXCEPT ![id].status = status]

(* The row takes its final status, `finally` frees the slot. *)
EndRun(status) ==
    /\ valRows' = Save(valRows, active.run, status)
    /\ active' = None /\ valStep' = "idle"

-----------------------------------------------------------------------------
(* registerValidationIpc and run.  A request while a run is active joins it    *)
(* (same identity) or is refused: either way nothing changes.                 *)
Run(kind) ==
    LET plan == Plan(stackEvidence, kind)
        id   == Len(valRows) + 1
    IN  /\ trusted /\ ~pipelineDisposed /\ active = None /\ Len(valRows) < MaxRuns
        /\ IF StopsAtOnce(plan)
           THEN /\ valRows' = Append(valRows, RunRow("blocked"))
                /\ UNCHANGED <<active, valStep, aborted, proc, runner>>
           ELSE /\ valRows' = Append(valRows, RunRow("queued"))
                /\ active' = [run |-> id, plan |-> plan]
                /\ valStep' = "checking" /\ aborted' = FALSE
                /\ proc' = NoProc /\ runner' = NewRunner
        /\ UNCHANGED <<stackEvidence, manifest, pipelineDisposed, trusted>>

(* isProcessGroupAlive: never on Windows. *)
GroupAlive == ~runner.win /\ (proc.parent = "alive" \/ proc.others)
Settle(r, p) == [r EXCEPT !.settled = p.closed /\ ~GroupAlive]
Signal(p, s) == IF GroupAlive \/ p.parent = "alive" THEN [p EXCEPT !.signal = s] ELSE p

(* terminate: the reason is noted every time, the signal and timers start once. *)
Terminate(reason, p) ==
    LET noted == [runner EXCEPT ![reason] = TRUE]
    IN  IF runner.begun THEN runner' = noted /\ proc' = p
        ELSE /\ runner' = Settle([noted EXCEPT !.begun = TRUE], p)
             /\ proc' = Signal(p, "TERM")

Running == valStep = "running" /\ ~runner.settled

(* revalidateExecution reads package.json again: is it the planned script? *)
ScriptUnchanged(plan) == \A n \in Names : plan.script = n => manifest[n] = plan.text

(* It resumes: the abort and the trust are read again just before the spawn. *)
Revalidated(win, spawns) ==
    LET same == ScriptUnchanged(active.plan)
    IN  /\ valStep = "checking"
        /\ \/ ~same /\ EndRun("blocked") /\ UNCHANGED <<proc, runner>>
           \/ same /\ aborted /\ EndRun("cancelled") /\ UNCHANGED <<proc, runner>>
           \/ same /\ ~aborted /\ ~trusted /\ EndRun("blocked") /\ UNCHANGED <<proc, runner>>
           \/ /\ same /\ ~aborted /\ trusted
              /\ valRows' = Save(valRows, active.run, "running")
              /\ valStep' = "running"
              /\ proc' = IF spawns THEN [NoProc EXCEPT !.parent = "alive"] ELSE NoProc
              /\ runner' = [NewRunner EXCEPT !.win = win, !.error = ~spawns, !.settled = ~spawns]
              /\ UNCHANGED active
        /\ UNCHANGED <<stackEvidence, manifest, aborted, pipelineDisposed, trusted>>

(* The abort listener runs inside controller.abort(). *)
Abort ==
    /\ aborted' = TRUE
    /\ IF Running /\ ~aborted THEN Terminate("cancelled", proc) ELSE UNCHANGED <<proc, runner>>

Cancel ==
    /\ active # None /\ Abort
    /\ UNCHANGED <<stackEvidence, manifest, active, valStep, pipelineDisposed, trusted, valRows>>

Dispose ==
    /\ ~pipelineDisposed /\ pipelineDisposed' = TRUE
    /\ IF active # None THEN Abort ELSE UNCHANGED <<aborted, proc, runner>>
    /\ UNCHANGED <<stackEvidence, manifest, active, valStep, trusted, valRows>>

RunnerOnly == UNCHANGED <<stackEvidence, manifest, active, valStep, aborted, pipelineDisposed,
                          trusted, valRows>>

TimeoutFires == Running /\ ~runner.timedOut /\ Terminate("timedOut", proc) /\ RunnerOnly

KillFires ==
    /\ Running /\ runner.begun /\ ~runner.killFired
    /\ runner' = Settle([runner EXCEPT !.killFired = TRUE], proc)
    /\ proc' = Signal(proc, "KILL")
    /\ RunnerOnly

(* The timer of 4 s fires after that of 3 s. *)
UncertainFires ==
    /\ Running /\ runner.killFired
    /\ runner' = [runner EXCEPT !.uncertain = TRUE, !.error = TRUE, !.settled = TRUE]
    /\ UNCHANGED proc /\ RunnerOnly

(* The child's "close": its streams ended, which a descendant that does not     *)
(* hold them does not prevent.                                                *)
Closed ==
    /\ Running /\ proc.parent = "exited" /\ ~proc.closed
    /\ LET p == [proc EXCEPT !.closed = TRUE]
       IN  \/ ~runner.begun /\ GroupAlive /\ Terminate("error", p)
           \/ /\ runner.begun \/ ~GroupAlive
              /\ runner' = [runner EXCEPT !.uncertain = runner.begun /\ runner.win,
                                          !.settled = ~GroupAlive]
              /\ proc' = p
    /\ RunnerOnly

(* What the validated command does. *)
ParentExits(zero) ==
    /\ proc.parent = "alive" /\ proc' = [proc EXCEPT !.parent = "exited", !.zero = zero]
    /\ UNCHANGED runner /\ RunnerOnly
Forks ==
    /\ proc.parent = "alive" /\ ~proc.others /\ proc' = [proc EXCEPT !.others = TRUE]
    /\ UNCHANGED runner /\ RunnerOnly
DescendantsExit ==
    /\ proc.others /\ proc' = [proc EXCEPT !.others = FALSE]
    /\ UNCHANGED runner /\ RunnerOnly

(* The runner's promise resolves; discoverArtifacts awaits the file system. *)
Resolved ==
    /\ valStep = "running" /\ runner.settled /\ valStep' = "collecting"
    /\ UNCHANGED <<stackEvidence, manifest, active, aborted, pipelineDisposed, trusted, valRows,
                   proc, runner>>

(* The result of the runner that is no success. *)
Unsuccessful == runner.timedOut \/ runner.error \/ ~proc.zero

OutcomeIgnoringLateCancel ==
    IF runner.uncertain THEN "failed"
    ELSE IF runner.cancelled THEN "cancelled"
    ELSE IF Unsuccessful THEN "failed" ELSE "passed"
Outcome ==
    IF runner.uncertain THEN "failed"
    ELSE IF runner.cancelled \/ aborted THEN "cancelled"
    ELSE IF Unsuccessful THEN "failed" ELSE "passed"

Collected ==
    /\ valStep = "collecting"
    /\ LET id == active.run
           rows == Save(valRows, id, Outcome)
       IN  valRows' = IF rows[id].moved THEN rows
                      ELSE [rows EXCEPT ![id].uncertain = runner.uncertain]
    /\ active' = None /\ valStep' = "idle"
    /\ UNCHANGED <<stackEvidence, manifest, aborted, pipelineDisposed, trusted, proc, runner>>

-----------------------------------------------------------------------------
(* The surroundings: package.json is edited, the Project Index reads it again,  *)
(* the user revokes the trust, or moves the workspace to another path.          *)
EditManifest(n, text) ==
    /\ Cardinality({m \in Names : manifest[m] # "safe"}) < MaxEdits
    /\ manifest[n] # text /\ manifest' = [manifest EXCEPT ![n] = text]
    /\ UNCHANGED <<stackEvidence, active, valStep, aborted, pipelineDisposed, trusted, valRows,
                   proc, runner>>
Reindex ==
    /\ stackEvidence # manifest /\ stackEvidence' = manifest
    /\ UNCHANGED <<manifest, active, valStep, aborted, pipelineDisposed, trusted, valRows,
                   proc, runner>>
Revoke ==
    /\ trusted /\ trusted' = FALSE
    /\ UNCHANGED <<stackEvidence, manifest, active, valStep, aborted, pipelineDisposed, valRows,
                   proc, runner>>
(* WorkspaceRepository.relocate: the rows move, the run keeps the old path. *)
Relocate ==
    /\ trusted /\ trusted' = FALSE
    /\ valRows' = [i \in DOMAIN valRows |-> [valRows[i] EXCEPT !.moved = TRUE]]
    /\ UNCHANGED <<stackEvidence, manifest, active, valStep, aborted, pipelineDisposed, proc, runner>>

ValWork ==
    \/ \E win, spawns \in BOOLEAN : Revalidated(win, spawns)
    \/ Closed \/ TimeoutFires \/ KillFires \/ UncertainFires \/ Resolved \/ Collected

ValNext ==
    \/ \E kind \in Kinds : Run(kind)
    \/ Cancel \/ Dispose \/ ValWork
    \/ \E zero \in BOOLEAN : ParentExits(zero)
    \/ Forks \/ DescendantsExit
    \/ \E n \in Names, text \in Texts : EditManifest(n, text)
    \/ Reindex \/ Revoke \/ Relocate

(* The runs, whatever their timers do. *)
ValSpec == ValInit /\ [][ValNext]_valVars

-----------------------------------------------------------------------------
ValTypeOK ==
    /\ manifest \in [Names -> Texts] /\ stackEvidence \in [Names -> Texts]
    /\ valStep \in {"idle", "checking", "running", "collecting"}
    /\ active.run \in 0..Len(valRows) /\ (active = None <=> valStep = "idle")
    /\ {aborted, pipelineDisposed, trusted} \subseteq BOOLEAN
    /\ valRows \in Seq(RunRows)
    /\ proc.parent \in {"none", "alive", "exited"} /\ proc.signal \in {"none", "TERM", "KILL"}

(* A row that is not final belongs to the run under way. *)
OpenRowsAreActive ==
    \A i \in DOMAIN valRows :
        ~valRows[i].moved => (valRows[i].status \in Final <=> active.run # i)

(* Once a run has ended, its process group is gone, or the group was sent        *)
(* SIGKILL and the row says that its end could not be confirmed.                *)
EndedGroupsAreGone ==
    valStep = "idle" /\ GroupAlive =>
        proc.signal = "KILL" /\ \E i \in DOMAIN valRows :
            valRows[i].moved \/ (valRows[i].uncertain /\ valRows[i].status = "failed")

(* A run asked to stop before its row was final is never stored as passed. *)
CancelledIsNotPassed ==
    aborted /\ active = None /\ valRows # <<>> /\ proc.parent # "none"
        => \A i \in DOMAIN valRows : i = Len(valRows) => valRows[i].status # "passed"
=============================================================================
