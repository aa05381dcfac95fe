# Nocturne Studio: a verification project

Nocturne Studio is an Electron application in which an AI agent works on a
developer's workspace. This directory holds TLA+ models of the parts of the
application whose correctness depends on the order of events, the TLC
configurations that check them on small instances, and theorems about them
that TLAPS has proved for every instance.

## 1. The system

| Component | State it keeps | Operations | Talks to |
|---|---|---|---|
| Build review control (`change-control/ExecutionChangeControlService`, `WorkspaceChangeGate`) | maps of active and pending Builds; held workspaces and their coalesced events | begin, complete, abort, resolve, restorePending; enqueue, release | `ai.send`, the coordinator's finalizeTurn, the decide and rollback handlers, the watcher, the Project Index |
| File decisions (`ChangeDecisionService`, `SnapshotRollbackService`, `NativeRollbackOperation`, `native/rollback-boundary.cpp`) | one queue per workspace, operation rows, a journal per rollback, a native process per file | accept, reject; open, stage, displace, publish | SQLite, the workspace's files, other programs |
| Build rollback (`ai/BuildRollbackService`) | none of its own | status, rollback | file decisions |
| Capture (`ChangeCaptureService`, `WorkspaceCheckpointStore`), diffs, hunks | checkpoints with their files, ChangeSets, changes, hunks | capture BEFORE and AFTER, derive the changes, list, edit and decide a hunk | the workspace's files and all who write them |
| AI execution (`AiExecutionCoordinator`, `AIOrchestrator`, `shared/agentLifecycle`) | one slot, pending approvals, event sequence, persisted life cycle | start, cancel, approve, finish | providers, tools, the renderer |
| Agent tools (`ai/agent/WorkspaceToolbox`) | none of their own | read, search, edit, apply, run a command | files, approvals |
| Watcher, Project Index, Semantic Index | collected events; running, pending and initialised workspaces; rows of files, relations, units | watch, flush, stop; ensureIndexed, enqueueChange, manual run, retry, cancel; queue, embed, verify | each other, the gate, the disk, an embedding provider |
| Validation (`validation/`) | one active run per workspace, its process group and timers | run, cancel, dispose | child processes, package.json |
| Providers (`ai/Provider*`, `ModelRegistry`, `ModelCatalogService`, `providers/chat-completions`) | configurations, credentials, adapters, models; a request with its stream | save, replace and remove; refresh; execute, embed, list | the vault, remote servers |
| Database runtime, backup, recovery | the SQLite file, its WAL and copies | open, migrate, back up, restore, import, reconcile | the file system |
| Process life cycle (`main.ts`, `runtime/`) | window, its IPC, services, shutdown state | open, close, quit, fatal error | everything above |
| Updates | the service's state, the renderer's copy | check, download, install, subscribe | electron-updater |
| Engineering intelligence, memories, suggestions, evidence, memory.md, documents | rows and files of the workspace | evaluate, propose, approve, decide, record, verify, save, append, preview, update, export | validation, the indexes, the agent, the file system |
| Renderer (`src/src`) | what the window shows of all this | submit, stop, review, page, search, switch, connect | the IPC, whose messages reach it in their order |

What is hard in this system: handlers await between reading and writing;
another program may write a file at any point; a child process may outlive the
deadline of its command; SQLite and the file system share no transaction; the
window may close and the process may end between any two steps; events of the
watcher pass through four queues before they are read; replies and pushed
messages cross in the window. `PROJECT.json` lists these hazards, each with its
line and the properties that would catch it.

## 2. The modules

| Module | Models | Relation |
|---|---|---|
| `ChangeSets` | the statuses of a change and a ChangeSet, `aggregateStatus`, what startup selects | used by the next four |
| `WorkspaceChangeGate` | the gate: held workspaces, batches, what the index has still to be told | extended by `BuildControl` and, through the index, by `WorkspaceServices` |
| `BuildControl` | the life of Builds under review, with the gate | composes the two above |
| `ReviewContract` | what the decisions of one ChangeSet promise: one atomic step per decision | abstract specification |
| `ChangeDecision` | how a decision is carried out | implements `ReviewContract` |
| `AgentRun` | the coordinator's slot, the life cycle, the tool loop, approvals, cancellation, the execution rows | component; `BuildControl` sees the same run from its Build's review |
| `WorkspaceChangeWatcher`, `ProjectIndex`, `SemanticIndex` | the watcher's debounce and limits; the index's queue, runs, files and relations; the units and the double check of a file | each extends the one before, above the gate |
| `WorkspaceServices` | the wiring of `registerIpc` around one workspace | composes gate, watcher and both indexes |
| `CheckpointCapture`, `ChangeHunks` | a capture against its writers, up to the derived changes; `diffLines`, hunks and their edits | |
| `ValidationPipeline` | a validation run, its row, its process group with three timers | |
| `Providers`, `ChatCompletions`, `CredentialVault` | configurations, credentials, adapters, catalog; one request and its stream; the vault's file | `Providers` takes an operation of the vault as one step, `CredentialVault` is its steps |
| `DatabaseFiles`, `ProcessLife`, `Updates` | files of the database over starts and crashes; start, windows, shutdown; updater, service and store | |
| `WorkspaceEvidence`, `EngineeringHealth`, `TurnRecords` | the ledger of observations; signals, trends, insights; suggestions with their decisions, and memories | |
| `WorkspaceTexts`, `Documents` | memory.md with its two write queues; Docs Mode and the export | |
| `StackDetection`, `SemanticSearch`, `WorkspaceTools` | detection of the stack; chunks, verified search and the budget of a prompt; pages, search and edit of the agent's tools | |
| `RunScreen`, `IndexPanel`, `ConversationScreen`, `PagedLists`, `WorkspaceSession` | the window: a run, the index panel and its searches, messages, artifacts, the chosen workspace | |
| `ReviewPanel`, `ConnectionPage` | the window with its handlers: the review of an execution's changes; connections, the wizard and the bindings of a workspace | `ReviewPanel` takes a decision of `ChangeDecision` and an edit of `ChangeHunks` as one step after its wait |
| `MCBuildControl`, `MCChangeDecision`, `MCWorkspaceServices` | small instances (`AgentRun` needs none) | for TLC |
| `MCAppServices` | one component per behaviour, each on a small instance | for TLC |
| `BuildControlProofs`, `ChangeDecisionProofs`, `AgentRunProofs`, `WorkspaceServicesProofs` | theorems about the module they are named after, and in `ChangeDecisionProofs` about `ReviewPanel`, in `WorkspaceServicesProofs` about `EngineeringHealth` too | for TLAPS |
| `AppServicesProofs`, `ScreenProofs`, `ConversationProofs`, `ConnectionProofs` | theorems about components of `MCAppServices` | for TLAPS |

In every module one action is one synchronous stretch of the code, from one
`await` to the next; what runs in a callback of a step is part of the step.

### BuildControl

Each Build goes through `idle`, `before` (the BEFORE capture), `starting` (the
provider is resolved), `turn`, `after` (the AFTER capture) and `done` or
`failed`.  `active` and `pending` are the two maps of
`ExecutionChangeControlService`, `running` the coordinator's only slot,
`changes` and `setStatus` the stored rows, `held`, `batch` and `owed` the gate.
Four variables are history: `owed` has the paths the watcher reported that the
index was not told of, `shared` whether the last `begin` of a workspace found
another Build in it, `orphaned` the Builds whose ChangeSet was saved by the
service of a closed window, and `forgotten` the paths the gate let go: cut at
its limit when they came, or released in a batch that carries an error.

One action is one synchronous stretch of the code, from one `await` to the
next: `Send`, `BeforeReady`, `StartRefused`, `BeforeFails`, `StartFails`,
`TurnEnds`, `TurnLost`, `AfterCaptured`, `AfterFails`, `Decide`,
`DecideConflicts`, `RevertBuild`, `RevertFails`, `Watch`, `Restart`, `Reopen`.
A file decision is one step: `ReviewContract` is what justifies that, and
`ChangeDecision` implements it.

`Restart` is the end of the process and the next start; `Reopen` is a window
closed and another opened in the same process.  In both `registerIpc` builds the
services anew from the stored rows (`Rebuild`), but a closed window does not stop
what awaits: an AFTER capture goes on (`draining`, `DrainCaptured`,
`DrainFails`), and so may one decision or revert of each workspace that was past
its last look at the window (`crossing`, `CrossDecision`).  Both save their rows
and then change the maps and the gate of the closed window's service, which no
one reads any more.

### ChangeDecision

One ChangeSet of one workspace.  `queue` is the serialized queue
`decision:<workspace>` with the request in progress at its head, and `step` how
far that one is: `verify`, then `commit` for an acceptance, or `restore`,
`observed`, `displacing`, `displaced`, `publishing`, `published`, `commit` for a
rejection, and `failed`, `recorded` on the way out of an error.  `worker` is
the native process of each file, which takes its own steps (check, rename,
link, check again) and may go on after its owner gave up.  `intents` are the
changes with a `running` row that no decision works on any more, `failures`
those with a `conflicted` row, `journal` the durable steps of the rollbacks of
a file.  `disk` and `kept` are the files and the displaced objects beside them,
`peer` (history) the last content not written by this program.  A request
carries `stale`: it was admitted by a window that is closed now, so its
rollback service is disposed and its admission epoch is over.

What is abstracted: the inspection in `restoreFiles` and the comparison with
the worker's OPEN answer are one step (`Observe`), and failures of spawning,
INIT or STAGE are `Throw`; a journal entry and the command it announces are one
step, since a crash between them is a command that is never executed; the files
of a Build are reverted in any order (the code: by path); a worker that
outlived its decision is gone before the same file is decided again; bytes
written through a descriptor opened before the displacement go to the displaced
object and are not modelled; files the policy blocks are left out, because no
operation gets past them; the status `edited` is never assigned by the code.

### AgentRun

Each run is somewhere on the way from the call of `ai.send` to its end: `idle`,
`preparing` (the handler awaits evidence, attachments, the BEFORE capture),
`resolving` (`startProvider` awaits the provider), then the loop of
`AIOrchestrator`: `model` (a request to the provider), `asking` (a tool waits for
the developer), `effect` (a tool at work), then `finalizing` (`finalizeTurn`) and
`over`.  `active` is the coordinator's slot, `life` the state of its
`ActiveExecution`, `pending` the keys on its map of approvals, `stopping` the
cancellation (`cancelRequested`, and the abort signal once the turn runs), `row`
the status stored for the execution.  A run keeps `life` when it has lost the
slot, as the object the turn's closures hold does.

One action is one synchronous stretch.  A change of the life cycle changes
memory first and writes the row then; a write that may throw (`Fragile`, and any
write once the database is closed) has an action of its own where the code goes
on differently: `ReserveThrows`, `TurnStartThrows`, `AnswerThrows`,
`CancelThrows`, `CompletesThrows`.  `startAiTurn`'s return and the installation
of the turn in the slot are one step, because only microtasks lie between them.
`Dispose` closes the window and leaves the turn to drain; `Reopen` gives the next
window a coordinator of its own, so two turns can be at work.  `Restart` is the
end of the process and `reconcile()` of the next one.

`shown` (the last message sent of a run), `granted` (the request last granted),
`faulted` (runs of which a write threw) and `dropped` (runs whose window closed
under them) are history variables.  The variables of the loop (`calls`, `tool`,
`granted`) are reset when it ends.  Abstracted: what is said and stored as
messages, the retry without tools of a provider that rejects them (one more wait
in `model`), the choice of provider, and the result of a tool.

### WorkspaceServices

`disk` holds the content of each file, `rows` what the Project Index says of it
(`analyzed`: the content its row was made from), `links` the relation of an
importing file, `ix` the run in progress, `pending` the merged change for the
next one, `units` and `semantic` the same for the Semantic Index, `ensuring` the
calls of its ensureIndexed that await the embedding, in the order of the calls.
`touched`, `changed` and `dropped` are what the watcher has collected, and
`held`, `batch` the gate of `WorkspaceChangeGate`. An event goes to the gate and,
held or not, to the Semantic Index; each row and each end of a run goes from the
Project Index to the Semantic Index in the same step.

Three history variables say where the code lets something go, and are the only
exceptions the properties make. `lost` has the paths whose last change nothing
brings to the index by itself: the watcher was stopped or failed with events
collected, the gate cut its batch at the limit, a batch carried an error, a run
was cancelled, failed or its discovery gave up, the process ended. `unread` has
the changes handed to `enqueueChange` that a run is still to read; while it is
not empty, `UnreadIsReported` wants the prompt to say so. `torn` names the
indexes whose work was cut off; an incremental run that looks at the files a
second time, for the importers it adds, is such a run too (section 4). A change
let go anywhere else violates `StaleIsOwed`, which relates five stores: the disk,
the watcher's collection, the gate's batch, the pending change and the run.

### The other services and screens

The modules composed by `MCAppServices` do not change each other's state, so a
behaviour of the composition is one of one component (`part`), and the others
keep an initial state: the sum of their state spaces and not the product. Its
properties are conjunctions with one implication per component, grouped by what
they are about: `StatusTellsTheTruth` (what is shown or stored of work, evidence
and files has them behind it), `NothingHalfDone` (crash, failure and crossing
calls leave an operation done or not done), `MatchesReference` (algorithms and
lists against plain definitions), `NothingIsTakenBack` (action property:
decisions, newer listings, damaged files stand) and `WorkEnds` (liveness). Each
conjunct is defined, with its comment, in the module of its component.

How the parts that are less plain correspond to the code:

- `ProcessLife`: the start is two waits, for the recovery of the database
  (`startup = "recovering"`) and for the providers (`"initializing"`); a failure,
  a quit, an activation or a second instance may come in either. `late` is the
  number of windows that had been opened when the last release of the resources
  began.
- `CredentialVault`: the file may become unreadable at any moment, also between
  the read and the rename of a call.
- `WorkspaceSession`: `removed` (history) has the workspaces `workspace.remove`
  deleted; the handler is exposed to the window, which does not call it today.
- `ReviewPanel`: a revert decides its files one by one, each committed, and sends
  its event only when all are rejected.
- `PagedLists`: `raced` says why what the window shows need not be the rows: an
  answer that came late, or a list that was never asked for (a new conversation,
  one whose opening failed).
- `IndexPanel`: a refresh or a page may fail in any of its calls; then nothing of
  it is applied (`taken`: the panel has taken a refresh of this workspace).
- `EngineeringHealth`: an evaluation reads the last `RunsRead` validations and
  keeps `ObservationsKept` observations of a kind (100 and 20 in the code).
- `StackDetection`: a file has a folder, a name and whether its case is exact: the
  detector of the index matches base names in any folder and case, `detectProject`
  exact names in the root.
- `WorkspaceEvidence`: the walk over references stops at `WalkLimit` manifests and
  a manifest keeps `ReferencesKept` of them (100 and 500 in the code).
- `WorkspaceTools`: `Unsearchable` files (large, binary or unreadable) are counted
  as scanned and passed over.

Algorithms are checked over all small inputs in the initial states (`part` =
`"algorithms"`): the choice of the data directory, model resolution with its
reason, the placing of embeddings, model catalogs, `diffLines` against the
longest common subsequence, chunking, pages of `read_file`, the context's budget.

Common assumptions: messages between main and window arrive in the order they
were sent; SQLite transactions are atomic and durable; a rename is atomic; the
files of a capture are known by size, time and inode; the updater and the
servers may answer in any order, late or never.

## 3. The runs

| Run | Instance | Checks |
|---|---|---|
| `build_control` | 2 Builds, 1 workspace, 2 conversations, 2 files and a protected one, 2 paths, a batch of 1, a watcher that may fail; about 555,000 states | types; the hold is kept, has a reason and ends; open decisions are tracked; paths are forgotten only where the code lets them go |
| `gate_released_early` | the same, without the protected file | violation: decisions are open and the gate is not held |
| `gate_held_forever` | the same | violation: the gate is held with nothing to decide |
| `change_decision` | 1 modified file, queue of 1, 2 foreign writes, 1 process end; about 445,000 states | bytes, journal, restoration, trace, finality, closed windows, the contract, the end of every decision |
| `build_revert` | a created and a deleted file, queue of 1 besides the revert; about 2.2 million states | `SetFollowsChanges`, `RevertIsComplete` |
| `failure_forgotten` | 1 modified file | violation: a displaced file behind an open change |
| `agent_run` | 2 runs, 2 tool calls of each, 1 process end, writes of one run may throw; about 232,000 states | types; who waits can be answered, tools need their approval and stop at a cancellation, one outcome everywhere, the slot is freed |
| `cancel_keeps_slot` | the same | violation: a cancelled run keeps the slot after a write threw |
| `commands_outlive_shutdown` | the same | violation: the database is closed under a command |
| `workspace_services` | 2 files (one imports the other, which is private), 2 contents, limits of 1 path, 2 edits, 1 fault; about 486,000 states | types; what is stale is owed; what is unread is reported; relations and units follow the rows; both indexes come to rest |
| `importer_not_reprocessed` | the same, nothing private | violation: a relation left unresolved after a complete run |
| `app_services` | the instances in `MCAppServices`; about 638,000 states | the five grouped properties and types |

Bounds.  Two Builds are enough for the gate: its code asks only whether any
other Build of the workspace is on a map.  One workspace is enough, because
workspaces share nothing but the slot; theorem `HoldIsKept` covers any number.
Two paths and a batch of one (`GateLimit`) let a batch be cut and overflow.
A decision concerns one file, so one file with another program, crashes and a
dying worker shows its races, and two files with a revert the interplay of the
queue; `MaxQueued` is 1 so that a request can wait behind the revert's.  Two
foreign writes are needed to replace a file and put it back, and a content that is
neither BEFORE nor AFTER to see an overwritten one.  The theorems hold
for every value of these bounds.

Two runs are enough for the slot, which one of them holds while the other is
refused, prepared or drains behind a closed window; two tool calls let an answer
come late for the first while the second waits.  One run without faults beside a
fragile one shows what a fault does to the run itself and that it does nothing
to the other.

In `workspace_services` two files are the least that have a relation, a limit of
one path (`GateLimit`, `ChangeLimit`) makes two edits overflow the watcher and
the batch, and `MaxEnsures` 2 lets two calls of ensureIndexed wait at once. With
the Semantic Index one edit is allowed, without it two; the one fault is a
cancellation, a failure, a stop of the watcher, a manual run or a restart at any
step. `app_services` gives each component what its races need: two callers or
calls (adapters, listings, references, submits, searches, decisions, consumers of
updates), one crash or damage beside what it interrupts (three for the database,
so that a recovery can fail too), three windows, one switch of workspace of the
index panel, to or from one that is not authorized, and two of its searches, so
that a window can return, three calls
of the review panel and two openings of the AI page, and texts,
chunks and lists of up to four elements. Limits are set below what an instance
can reach, and in a part of their own above it (`healthOfFew` reads fewer
validations than there are, `evidenceOfFew` stops its walk early). Streams have up to five pieces, enough
for a call in two fragments and its end.

Deadlock is not checked in `build_control`, `agent_run`, `workspace_services` and
`app_services`: when every Build is settled, every run is over, the bound of
edits is reached and the indexes rest, or the calls of a component are used up,
there is nothing to do. It is checked in the passing runs of `ChangeDecision`.

Fairness.  `BuildControl` assumes that captures and turns end (each has
deadlines and cancellation of its own) and that the developer keeps answering
open changes; `HoldEnds` is about what the code does with the answers and names
the three ways in which a Build can be left that no answer closes: a conflict,
a turn that could not be persisted, and a mixed set tracked again at startup.
`ChangeDecision` assumes only that the event loop runs the next step of a
decision (`WF_vars(Decision)`): every wait for the worker has a deadline of
fifteen seconds, after which `Throw` is enabled.  Nothing is assumed of the
worker, of other programs, or of windows.  `AgentRun` assumes that the handler,
the turn and its finalization go on (`WF_vars(Work(r))`): requests to a provider,
tools and commands have deadlines, captures end.  The developer need not answer:
`SlotIsFreed` excepts the run that waits for them and is not cancelled.

`WorkspaceServices` assumes that the debounce timer fires (`Flush`), chokidar
becomes ready (`Ready`), file operations return (`IndexStep`), and the Semantic
Index and its awaited calls go on (`SemStep`, `Ensured`); nobody need watch,
release a review or retry, so `IndexCatchesUp` excepts a held gate and a watcher
that is off. In `app_services` each component's own timers and pending calls are
weakly fair. The answers of the updater are strongly fair, because the bound on
the queue to the window disables them now and then; a user, a crash or a server
that answers are never assumed.

## 4. What the runs say of the documentation

`docs/change-control.md` states that the Project Index is given the held batch
only after all decisions are resolved, and that a failure is a conflict whose
intent remains for startup.  The code departs from it in three places
(`PROJECT.json`, findings): `begin`'s error path opens the gate of another
Build's review; `partially-accepted` is stored for sets with nothing left to
decide, and holds the gate after a restart; the failure of a decision is
recorded in two writes, and between them the file's change is open with no
intent left.  `MutationsLeaveTrace` is the weaker promise the code does keep:
the closed row still names the file.

Two more concern agent runs.  The refusal of a second run says to cancel the
first, but a run whose row could not be written stays in the slot, and no
cancellation frees it before the window closes.  `docs/operational-recovery.md`
states that the shutdown awaits the cleanup of agent commands; the coordinator's
disposer returns at once, and the database may be closed under a command.

`docs/code-intelligence.md` says that an unchanged importer is reprocessed when a
created target can change its relation.  A run that is cut off between the row of
the target and the importer leaves nothing that says so, and the next complete
run passes the importer over.  There is a second way, which the proof of
`RelationsFollowFiles` brought up: an incremental run that finds importers to be
read again looks at the files once more (`ProjectIndexService.ts:352-361`), and
what it works on is what the second look found.  A target that comes or goes
between the two looks is read or removed without its importers, which were
determined from the first.  The event of that change leads to a further run, but
by then the target's row already says what the disk says, and the importers are
passed over again.  It takes two targets in one run, hence four files: more than
the instance of `workspace_services` has; `torn` excepts every such run.

Other things the models show have no run of their own. Each is in a module as the code
does it, and the property that would exclude it excepts it by name:

- `SemanticIndex`: while a review holds the gate, a changed file is queued again
  and again by the Semantic Index, because its row cannot follow
  (`SemanticSettles` requires the rows to agree); `ensureIndexed` deletes the
  queue and `schedule` has no use for it when a run has begun (`torn`).
- `SemanticSearch`: a unit whose file was indexed again during the embedding
  request may be answered as current (`reindexed`).
- `BuildControl`: a ChangeSet that the AFTER capture of a closed window saves after
  the next window's `restorePending` is undecided, untracked and does not hold the
  gate until the next start (`orphaned`); a decision that crosses the two windows
  is stored, and the new service goes on holding for it, since `resolve` was
  called on the old one. The gate cuts its batch at 2000 paths without marking an
  overflow, and an error event held in a batch makes the index pass over all of it
  (`forgotten`).
- `EngineeringHealth`: a finding whose latest evidence is stale stays active in
  the store while the trends report it as resolved (`TrendsTellChanges`). A finding
  whose validation is no longer among the last 100 never ends by a validation, and
  when more than 20 requests fail, a finding may end by a run that failed
  (`Recent`, `TooManyFail`).
- `WorkspaceEvidence`: the search for stale references gives up at 100 manifests and
  the reader is told the evidence is not stale; `ReadsSeeDependencies` claims what
  lies within the limits.
- `StackDetection`: the two detectors differ on manifests outside the root or in
  another case, on `peerDependencies`, on `go.work` and `requirements-*.txt`, and on
  a manifest over the read limit (`KnownToBoth`, `DetectorsAgree`). Of several
  `package.json` the index reads the first it found, which need not be the root's.
- `WorkspaceTexts`: an append, a repair of memory.md from an older row or a failed
  save may put an earlier text over a save that was acknowledged (`overtaken`).
- `RunScreen`: two submits may both pass the lock while the latest messages are
  awaited (`overlap`).
- `WorkspaceTools`, `Documents`: what is written between the read, or the last
  comparison, and the replacement of the file is lost; with an approval in between
  that may be long (`lost`). A search passes over files that are large, binary or
  unreadable without saying so (`Unsearchable`).
- `ReviewPanel`: the end of a Build sends no `changeControl.changed`, so a panel
  that asked for the ChangeSet while the Build ran stays empty until the
  conversation is shown again or an event comes; `docs/change-control.md:17` says
  that the ChangeSet appears alongside the execution's activity. A decision that
  fails turns its change into a conflict without an event either, and so does a
  revert that stops part way for the files it had already rejected (`behind`).
- `PagedLists`: a conversation that is created shows the artifacts of the one before
  it, and so does one whose messages cannot be read (`raced`).
- `ConnectionPage`: the bindings of the workspace left behind stay on the page
  when those of the new one cannot be read, and a save overtaken by a switch
  shows the bindings it was made of (`astray`).
- `ChangeHunks`: two concurrent first listings insert the same sequence and one
  fails on the table's constraint.
- `ProcessLife`: a window opened after a release began is not waited for and has its
  IPC on a database that closes under it. A quit while the start recovers the
  database ends before there is one, and the start opens it behind the quit. A
  second instance or an activation that finds the services there before the first
  window opens one, and the start fails on the IPC it finds installed; before the
  services are there it is a fatal error.
- `IndexPanel`: a switch of workspace resets the state of the semantic search
  and not that of the symbol search: its button stays disabled until a search
  begun with Enter ends (`overtaken`). A panel whose first refresh failed shows no
  status and only the runs that were pushed to it (`taken`).
- `CredentialVault`: a crash before the rename leaves the temporary file. A write
  that had read the file before it was damaged replaces the damaged file
  (`DamageIsKept`).
- `WorkspaceSession`: `workspace.remove` leaves the conversations of the workspace
  without one (`removed`).
- `RunScreen`: an answer whose metadata is over the limit is not stored by the
  window, which says so and goes on.
- `Providers`: a full import replaces the rows; registries and vault follow at the
  next start (`untidy`).
- `SemanticSearch`, the context of a prompt: of equal contents the one listed first is kept, whatever
  its relevance.

## 5. The proofs

`BuildControlProofs` proves, for any number of Builds, workspaces, files,
restarts and windows, any limit of a batch and a watcher that may fail, the type
invariant, `HoldUnlessShared`, `HoldHasReason`, `UndecidedIsTracked` and
`NothingForgotten`.  The inductive invariant adds three facts: the maps agree
with the phases, a ChangeSet exists only for an ended Build and is stored with a
status startup looks for while a change is open, and `Alone`: in a workspace
whose last begin found nobody, a Build in flight has no company.  `Alone` is why
the unconditional release in `begin` is harmless without a second Build, and
`shared` marks exactly where it is not.  `UndecidedIsTracked` excepts the
ChangeSets in `orphaned` and no others: a decision that crosses two windows only
closes rows, so it leaves nothing untracked.  `NothingForgotten` needs of each
step only what becomes of the event that came and of the batch that left;
`forgotten` grows in those two places and never by a path that was in the batch.

`ChangeDecisionProofs` proves the safety properties of decisions for any number
of files, contents, writes, exits and queued requests. Its invariant says that
the decision in progress is still open (`JobIsOpen`, what the queue is for),
that a worker executes only announced commands even after its decision ended
(`CommandsAnnounced`), that a rejection reaches `commit` only with a verified
journal (`CommitIsVerified`), that each touched file has a trace
(`TraceIsLeft`), and that a revert has at most one request in the queue and that
the files it no longer lists are rejected (`OneRevertRequest`, `RevertCovers`).
From it follow the invariants, the action properties `DecisionsAreFinal`,
`RevertIsComplete` and `NoCommandAfterClose` (what a worker does by itself is
never the begin of a command), and `ContractIsKept`: every step of
`ChangeDecision` is a step of `ReviewContract` or leaves its variables alone,
with a file counted as restored once its journal says `verified`. The module also
proves the panel that asks for these decisions (`ReviewPanel`, below).

`AgentRunProofs` proves every safety property of `agent_run` for any number of
runs, tool calls, process ends and faults.  Its invariant says for each run
where it may be (`Placed`: the slot, the row and the last message agree with the
place, whatever threw) and, if no write of it threw, what its life cycle says
(`Sound`: a turn is at work in the slot or was told to stop, a waiting tool has
its key alone on the map, an ended run has its outcome stored).  The properties
alone are not inductive: that no tool starts after a cancellation needs that a
cancelled turn in the loop was told to stop, and that the row keeps its outcome
needs the state of the life cycle from which `finalizeTurn` is entered.  A step
touches one run (`Alone`), so each action is proved for its own run and
`OneRunIsEnough` carries the others; `Dispose` and `Restart` are proved for all.

`WorkspaceServicesProofs` proves the safety properties of `workspace_services`
for any number of files with any imports and contents, any limits, edits and
faults.  None of them is inductive, and each has an invariant of its own above
the common type invariant:

- `StaleIsOwed` says where a change is, and not why it will be read there. A run
  works on what its discovery found, and a file may change after it was looked at.
  `Followed` therefore says of each file that what the run has seen of it is still
  so, or the file is somewhere else on its way (`Elsewhere`); and that a file
  ahead of the run is not left unseen by the discovery.
- `UnreadIsReported` follows because each unread path waits or is ahead of a run
  (`Awaited`), and a run in progress has its row (`RunIsStored`), which is what
  the prompt is made from.
- `RelationsFollowFiles` speaks of a run that has ended. While one is in
  progress, each relation leads where the specifier says, as far as the target has
  a row or will have one, or the importer is in the work and will not be passed
  over (`Led`, `ReadAgain`).
- `UnitsFollowRows` needs that the hash the Semantic Index took before its request
  is still the row's, or the file is queued again (`HandQueued`): the units are
  saved under that hash after the wait.

`AppServicesProofs`, `ScreenProofs`, `ConversationProofs`, `ConnectionProofs` and, for
`ReviewPanel` and `EngineeringHealth`, `ChangeDecisionProofs` and
`WorkspaceServicesProofs` prove components of `app_services`, each for its own specification and all values of its bounds. The theorems state
conjuncts of the grouped properties. What the properties lack to be inductive:

- `ProcessLife`: what drains is what the shutdown waits for, and only a window
  opened later can still have its IPC. Before the
  services are there, there is neither a window nor a database; so a database that
  is open behind the end of a release was opened when the release had no window
  to wait for (`late` is 0).
- `DatabaseFiles`: what each step of a start relies on, such as a copy that is
  there before the schema changes, and no WAL beside a file it does not belong to.
- `ValidationPipeline`: an open row is the active run's, and a run is given up on
  only after its group was told to die.
- `CredentialVault`: of the calls only the first has begun, and what it has read is
  what was acknowledged, with its own effect once it writes, also when the file was
  damaged since; a call has at most one temporary file.
- `Updates`: the last message on its way to the window says what the service says,
  so that an empty queue leaves the screen true.
- `CheckpointCapture`: what was read of a file is its state as long as its identity
  is the same, the walk misses no file that stood still, and a manifest is made
  of such reads.
- `IndexPanel`, its searches: no request is of a later visit or has a number above the latest
  of its kind, so that the latest one is unmistakable.
- `ReviewPanel`: unless a message is still to come that makes the panel read again,
  what it shows agrees with the database, and so does each list and each hunk on
  its way (`RowsShown`, `RowsCome`, `HunksShown`, `HunksCome`); whatever changes a
  row sends such a message or leaves its mark in `behind`, which a revert leaves on
  each file and its event at the end takes away. The answer that there is
  no ChangeSet yet is of before the Build's end and stands before every list
  (`NothingYet`), so it never empties a panel that was filled.
- `ConnectionPage`, its locks: every call carries an opening and an effect that were
  (`AllIssued`), and of each kind at most one of this opening is anywhere, among the
  requests, the handlers that wait and the replies (`OneOfEach`); the models on
  their way are those of the connection the wizard shows (`NoneAstray`).
  The bindings: what was saved for an opening or a workspace before is ahead of what
  is saved now, and the bindings are read again behind it (`OldSavesFirst`,
  `LoadBehind`), so the save that replies last is the one that is stored; before
  the first bindings are there no model can be chosen (`NothingChosen`), so a save
  that saw them is the first in the line and keeps the other half (`SeenKeep`).
  The connections, each by itself: one is made once, no list that names it is ahead
  of the reply to its creation, and a list the page believes agrees with main or
  is corrected by a reply behind it (`MadeOnce`, `Announced`, `ListsFollow`).
- `WorkspaceSession`: each start in the queue of watch calls has its stop right
  before it, and the last call is for what the window shows.
- `Documents`: between the last comparison and the replacement the document is what
  was compared or the update is marked `overtaken`; an export is produced only
  when its process is gone and the output whole.
- `Providers`: during an operation the vault holds the rows' credentials and at most
  one spare, which is the new one until the row is saved and the old one then; no
  two rows share one; the latest listing on its way is newer than the one held.
- `RunScreen`: every message on the wire says what is so (`SaysTrue`): a run that
  ended without an answer has none, a page lists stored answers, each once. The main
  process stores an answer in the end of its turn and the window only that of a run
  which ended without one (`MainWrites`, `WindowWrites`). An answer the window has
  saved is not on the screen, nor on a page ahead of the reply (`SavedNotShown`).
  The stream: every piece on the screen or in the buffer is of a retired run or of
  the active one, and once the active run has spoken no other speaks (`InTurn`); a
  delta on the wire goes on where the text of its run ends (`Follow`), and no run
  has said more than main has written for it (`AllSaid`), so a run that starts
  finds nothing of its name.
  `AnswersShown`: an answer that is stored is on the screen, or announced by what
  main has still to say or by a message on the wire, or a page of its conversation
  is to come (`AllCome`), and a page without it is always followed by that message
  (`PagesAreWhole`). The window passes over no such message, since the events of a
  run come in the order of their numbers, above the last one taken, and the one
  that ends it last (`EventsInOrder`, `WireTells`). Without overlap only the latest
  submit has anything to say (`LatestSpeaks`), so no other run is in the way of one
  that ends, and a run the window retired has no answer to come
  (`RetiredAreOver`).
- `TurnRecords`, memories: what is in use was approved once, so only the moves that
  bring a memory into use matter. Suggestions: a row moved to the front leaves the
  count of every set of rows as it was; during a review the first open row of an
  identity that is not reported stays that row until its turn comes (`Leads`), so
  what is resolved is what was open before the review.
- `WorkspaceTexts`: the saves stand in their queue in the order they were asked in,
  after what was answered; the row holds the save that was answered last, and the
  file is not behind it unless it was overtaken; two texts of one save differ only
  in the decisions appended since, and the append under way, the first in its queue,
  has all of them (`TextsAgree`).
- `EngineeringHealth`: what a testing finding rests on is a run of its own kind
  (`EvidenceIsTheirs`), so the run that ends it is one too; the newest run of a
  request is read if any run of it is; what the latest snapshot
  shows is active in the store (`SnapshotIsActive`), so what starts is new to the
  trends. The rest follows from one evaluation alone, whatever came before it.
- `SemanticSearch`: the units of a path are of one text, since they are replaced
  together; unless some were replaced while the query was embedded, the units ranked
  for a path are of one text too, so the verdict on the first of them holds for all
  (`RankedAreOneText`, `RankedAreVerified`).

Loops over lists (the candidates of a turn, the values of a review, the messages
kept when a page is no longer awaited) are recursive functions. That such a
function exists, and what each of its turns preserves, is proved by induction over
sets of numbers, from the least element of a set (`SetInduction`,
`RecursiveFunction`): the induction theorems of the library take an operator as a
parameter, which the installed provers cannot instantiate.

Assumptions: those named in the modules (finite bounds, `Missing` is a content,
BEFORE and AFTER of a changed file differ, each Build has a workspace, the empty
slot is no run, an import names a file or none, no content is the mark of an
absent file), and in the modules about `app_services`, as hypotheses of the theorems, that bounds are natural numbers, that the absent folder and the
refused one are no folders, that the absent conversation is none, that the
first conversations have their folders, that no workspace or connection is
called `none`, that the first connection is one and there is a workspace, that a workspace has finitely many files
and places in them, what the rows of an index may show, and that a change is of
one execution.

Only model-checked:

- the liveness properties `HoldEnds`, `DecisionEnds`, `SlotIsFreed`,
  `IndexCatchesUp`, `SemanticSettles` and `WorkEnds`, which need fairness and are
  out of the prover's reach;
- what `ChatCompletions` and `WorkspaceEvidence` do, whose recursive operators keep
  the prover's backend from them, and the comparisons with a reference
  (`MatchesReference`), which are inductions over data with an argument of their
  own for each algorithm;
- the other components of `app_services` (section 7), and with them its grouped
  properties as a whole, of which the theorems state parts.

## 6. Not modelled

- The Windows rollback worker: a second implementation of the commands whose
  POSIX form `ChangeDecision` models. Scripts, packaging, rehearsals and tests
  share no state with the application.
- `i18n`, layout, the other settings pages, command palettes, diagnostics: view code with
  no protocol. Validation of IPC payloads, wire formats, URLs, path and secret
  policies: decisions on one value, abstracted to a choice of the model.
- The rewriting of old schemas and the contents of a backup: `DatabaseFiles`
  knows which schema and whose data a file holds, not its rows; the constraints of
  the schema are in the modules that need them.
- The grammar of the parsers, embeddings' vectors and scores, command output and
  the text of prompts.
- `RunScreen` leaves out the limits of the stream and the numbers the window forgets
  beyond 256 runs. `SemanticSearch` leaves out the cut at the most units of a file
  (`SemanticChunker.ts:36`) and takes the sources of a prompt to have different
  ids (`ContextAssemblyService.ts:61-63` keeps the one that counts most).
- Relocation moves all rows of a workspace in one transaction; `WorkspaceSession`
  has conversations only, not the validations, memories and evidence of it.

## 7. The plan

1. Proofs for the screens that are left: the statuses and runs of `IndexPanel`,
   `ConversationScreen` and `PagedLists`, whose invariants relate the requests on
   their way to what is shown, as those of `RunScreen`, `ReviewPanel` and
   `ConnectionPage` do.
2. The Semantic Index over two workspaces, which share the embedding's setting.
