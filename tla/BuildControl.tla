--------------------------- MODULE BuildControl ----------------------------
(***************************************************************************)
(* The review of Builds: ExecutionChangeControlService with the gate it    *)
(* holds, driven by its three callers: the ai.send handler that prepares   *)
(* and starts a Build, the coordinator's finalizeTurn that ends it, and    *)
(* the decide and rollback handlers.  Checkpoint captures are asynchronous *)
(* and may fail, several Builds of a workspace may be under review, the    *)
(* application may stop and start again at any point, and its window may   *)
(* be closed and opened again while a capture or a decision goes on.       *)
(*                                                                         *)
(* A file decision is one step here, with its two outcomes; the steps it   *)
(* is made of are the subject of module ChangeDecision.                    *)
(***************************************************************************)
EXTENDS WorkspaceChangeGate, ChangeSets

CONSTANTS Builds,         \* executions in Build mode
          Conversations,
          WorkspaceOf,    \* the workspace of each Build
          ConversationOf, \* the conversation it was sent in
          Changes,        \* the files a Build may change
          Blocked,        \* those whose path the policy blocks
          NoBuild,        \* no execution
          WatcherFails    \* whether the watcher may report an error

ASSUME WorkspaceOfAssumption == WorkspaceOf \in [Builds -> Workspaces]
ASSUME NoBuildAssumption == NoBuild \notin Builds
ASSUME BlockedAssumption == Blocked \subseteq Changes

VARIABLES phase,      \* how far each Build is
          running,    \* AiExecutionCoordinator.active
          active,     \* ExecutionChangeControlService.active
          pending,    \* ExecutionChangeControlService.pending
          changes,    \* stored status of each change
          setStatus,  \* stored status of each ChangeSet, "none" without one
          latest,     \* the last Build sent in each conversation
          shared,     \* the last begin of a workspace found another Build in it
          crossing,   \* Builds with a decision under way that a closed window's
                      \* handler admitted
          orphaned,   \* Builds whose ChangeSet a closed window's service saved
          forgotten   \* paths the gate let go: cut at its limit, or released in
                      \* a batch that carries an error

closedVars  == <<crossing, orphaned>>
controlVars == <<phase, running, active, pending, latest, shared, closedVars>>
storeVars   == <<changes, setStatus>>
heldVars    == <<gateVars, forgotten>>
vars        == <<controlVars, storeVars, heldVars>>

\* "before" and "after" are a capture in flight, "starting" the provider
\* being resolved, "turn" the provider's turn; "draining" is an AFTER capture
\* whose window is closed, which the services of the next one know nothing of.
InFlight == {"before", "starting", "turn", "after"}
Ended    == {"done", "failed"}
Phases   == {"idle", "draining"} \cup InFlight \cup Ended

\* The maps, the stored rows and the gate hold what the code puts in them.
TypeOK ==
    /\ GateTypeOK
    /\ phase \in [Builds -> Phases]
    /\ running \in Builds \cup {NoBuild}
    /\ active \subseteq Builds
    /\ pending \subseteq Builds
    /\ changes \in [Builds -> [Changes -> ChangeStatuses \cup {"absent"}]]
    /\ setStatus \in [Builds -> SetStatuses \cup {"none"}]
    /\ latest \in [Conversations -> Builds \cup {NoBuild}]
    /\ shared \in [Workspaces -> BOOLEAN]
    /\ crossing \subseteq Builds
    /\ orphaned \subseteq Builds
    /\ forgotten \in [Workspaces -> SUBSET Paths]

Init ==
    /\ GateInit
    /\ phase = [b \in Builds |-> "idle"]
    /\ running = NoBuild
    /\ active = {}
    /\ pending = {}
    /\ changes = [b \in Builds |-> [c \in Changes |-> "absent"]]
    /\ setStatus = [b \in Builds |-> "none"]
    /\ latest = [v \in Conversations |-> NoBuild]
    /\ shared = [w \in Workspaces |-> FALSE]
    /\ crossing = {}
    /\ orphaned = {}
    /\ forgotten = [w \in Workspaces |-> {}]

-----------------------------------------------------------------------------
In(w, S) == {b \in S : WorkspaceOf[b] = w}

\* A Build that was sent and still has work or a review ahead of it.
Unsettled(b) == phase[b] \in InFlight \/ b \in active \/ b \in pending

\* The paths an event or a batch speaks of
Named(ev) == IF ev.overflow THEN Paths ELSE ev.paths

\* gate.release(workspace): enqueueChange returns at once for a batch with an
\* error, and nothing else will bring its paths to the index.
Release(w) ==
    /\ GateRelease(w)
    /\ forgotten' = [forgotten EXCEPT ![w] = IF batch[w].error
                                             THEN @ \cup Named(batch[w])
                                             ELSE @ \ Named(batch[w])]

\* releaseWhenIdle(workspace), after the maps became stillActive, stillPending
ReleaseWhenIdle(w, stillActive, stillPending) ==
    IF In(w, stillActive \cup stillPending) = {}
    THEN Release(w)
    ELSE UNCHANGED heldVars

\* Mutant: the gate is asked before the review leaves the map.
ResolveLate(b) ==
    IF b \in pending
    THEN /\ pending' = pending \ {b}
         /\ ReleaseWhenIdle(WorkspaceOf[b], active, pending)
    ELSE UNCHANGED <<pending, heldVars>>

\* resolve(executionId)
Resolve(b) ==
    IF b \in pending
    THEN /\ pending' = pending \ {b}
         /\ ReleaseWhenIdle(WorkspaceOf[b], active, pending \ {b})
    ELSE UNCHANGED <<pending, heldVars>>

-----------------------------------------------------------------------------
\* ai.send of a Build: the execution is created and begin() starts the
\* BEFORE capture.
Send(b) ==
    LET w == WorkspaceOf[b] IN
    /\ phase[b] = "idle"
    /\ phase' = [phase EXCEPT ![b] = "before"]
    /\ latest' = [latest EXCEPT ![ConversationOf[b]] = b]
    /\ shared' = [shared EXCEPT ![w] = \E o \in In(w, Builds) : Unsettled(o)]
    /\ GateBegin(w)
    /\ UNCHANGED <<running, active, pending, closedVars, forgotten, storeVars>>

\* The BEFORE capture is ready and the coordinator reserves its only slot.
BeforeReady(b) ==
    /\ phase[b] = "before"
    /\ running = NoBuild
    /\ running' = b
    /\ active' = active \cup {b}
    /\ phase' = [phase EXCEPT ![b] = "starting"]
    /\ UNCHANGED <<pending, latest, shared, closedVars, storeVars, heldVars>>

\* The BEFORE capture is ready, but another run holds the slot: startProvider
\* throws and send aborts the control it just registered.
StartRefused(b) ==
    /\ phase[b] = "before"
    /\ running # NoBuild
    /\ phase' = [phase EXCEPT ![b] = "failed"]
    /\ pending' = pending \ {b}
    /\ ReleaseWhenIdle(WorkspaceOf[b], active, pending \ {b})
    /\ UNCHANGED <<running, active, latest, shared, closedVars, storeVars>>

\* The BEFORE capture failed: begin releases the gate and rethrows.
BeforeFails(b) ==
    /\ phase[b] = "before"
    /\ phase' = [phase EXCEPT ![b] = "failed"]
    /\ Release(WorkspaceOf[b])
    /\ UNCHANGED <<running, active, pending, latest, shared, closedVars, storeVars>>

TurnStarts(b) ==
    /\ phase[b] = "starting"
    /\ phase' = [phase EXCEPT ![b] = "turn"]
    /\ UNCHANGED <<running, active, pending, latest, shared, closedVars, storeVars, heldVars>>

\* The model or its provider could not be resolved: the run fails, its slot
\* is freed and send aborts the control.
StartFails(b) ==
    /\ phase[b] = "starting"
    /\ phase' = [phase EXCEPT ![b] = "failed"]
    /\ running' = NoBuild
    /\ active' = active \ {b}
    /\ pending' = pending \ {b}
    /\ ReleaseWhenIdle(WorkspaceOf[b], active \ {b}, pending \ {b})
    /\ UNCHANGED <<latest, shared, closedVars, storeVars>>

\* The turn ended, whatever its outcome, and was persisted: complete() takes
\* the Build off the active map and starts the AFTER capture.
TurnEnds(b) ==
    /\ phase[b] = "turn"
    /\ phase' = [phase EXCEPT ![b] = "after"]
    /\ active' = active \ {b}
    /\ UNCHANGED <<running, pending, latest, shared, closedVars, storeVars, heldVars>>

\* persistCompletedTurn threw: finalizeTurn rejects before it reaches
\* complete(), the coordinator ends the run and frees the slot.
TurnLost(b) ==
    /\ phase[b] = "turn"
    /\ phase' = [phase EXCEPT ![b] = "done"]
    /\ running' = NoBuild
    /\ UNCHANGED <<active, pending, latest, shared, closedVars, storeVars, heldVars>>

\* Mutant: a protected file is stored with the name of its policy.
AfterCapturedByPolicy(b, S) ==
    /\ phase[b] = "after"
    /\ phase' = [phase EXCEPT ![b] = "done"]
    /\ running' = NoBuild
    /\ changes' = [changes EXCEPT ![b] =
          [c \in Changes |-> IF c \notin S THEN "absent"
                             ELSE IF c \in Blocked THEN "blocked" ELSE "pending"]]
    /\ setStatus' = [setStatus EXCEPT ![b] = "pending"]
    /\ pending' = pending \cup {b}
    /\ UNCHANGED <<active, latest, shared, closedVars, heldVars>>

\* The ChangeSet a capture saves that found the files S changed
SaveChangeSet(b, S) ==
    /\ changes' = [changes EXCEPT ![b] =
          [c \in Changes |-> IF c \notin S THEN "absent"
                             ELSE IF c \in Blocked THEN "conflicted"
                             ELSE "pending"]]
    /\ setStatus' = [setStatus EXCEPT ![b] =
          IF S = {} THEN "accepted" ELSE "pending"]

\* The AFTER capture found the files S changed and saved their ChangeSet.
AfterCaptured(b, S) ==
    /\ phase[b] = "after"
    /\ phase' = [phase EXCEPT ![b] = "done"]
    /\ running' = NoBuild
    /\ SaveChangeSet(b, S)
    /\ IF S = {}
       THEN /\ ReleaseWhenIdle(WorkspaceOf[b], active, pending)
            /\ UNCHANGED pending
       ELSE /\ pending' = pending \cup {b}
            /\ UNCHANGED heldVars
    /\ UNCHANGED <<active, latest, shared, closedVars>>

\* Mutant: a failed AFTER capture does not release the gate.
AfterFailsHolding(b) ==
    /\ phase[b] = "after"
    /\ phase' = [phase EXCEPT ![b] = "done"]
    /\ running' = NoBuild
    /\ UNCHANGED <<active, pending, latest, shared, closedVars, storeVars, heldVars>>

AfterFails(b) ==
    /\ phase[b] = "after"
    /\ phase' = [phase EXCEPT ![b] = "done"]
    /\ running' = NoBuild
    /\ ReleaseWhenIdle(WorkspaceOf[b], active, pending)
    /\ UNCHANGED <<active, pending, latest, shared, closedVars, storeVars>>

\* The same two ends of a capture whose window is closed: the maps and the
\* gate they work on are the closed window's.
DrainCaptured(b, S) ==
    /\ phase[b] = "draining"
    /\ phase' = [phase EXCEPT ![b] = "done"]
    /\ SaveChangeSet(b, S)
    /\ orphaned' = IF S = {} THEN orphaned ELSE orphaned \cup {b}
    /\ UNCHANGED <<running, active, pending, latest, shared, crossing, heldVars>>

DrainFails(b) ==
    /\ phase[b] = "draining"
    /\ phase' = [phase EXCEPT ![b] = "done"]
    /\ UNCHANGED <<running, active, pending, latest, shared, closedVars,
                   storeVars, heldVars>>

-----------------------------------------------------------------------------
\* The rows of a Build become `decided`, and its set what follows from them.
SaveDecided(b, decided) ==
    /\ changes' = [changes EXCEPT ![b] = decided]
    /\ setStatus' = [setStatus EXCEPT ![b] = AggregateStatus(decided)]

\* The decide handler, when the decision was applied: it resolves the
\* execution once every change of the set is accepted or rejected.
Decide(b, c, s) ==
    LET decided == [changes[b] EXCEPT ![c] = s] IN
    /\ changes[b][c] = "pending"
    /\ c \notin Blocked
    /\ SaveDecided(b, decided)
    /\ IF AllDecided(decided)
       THEN Resolve(b)
       ELSE UNCHANGED <<pending, heldVars>>
    /\ UNCHANGED <<phase, running, active, latest, shared, closedVars>>

\* The decide handler, when the file no longer is what AFTER recorded or its
\* rollback failed: the decision throws and nothing is resolved.
DecideConflicts(b, c) ==
    /\ changes[b][c] = "pending"
    /\ c \notin Blocked
    /\ changes' = [changes EXCEPT ![b][c] = "conflicted"]
    /\ setStatus' = [setStatus EXCEPT ![b] = "conflicted"]
    /\ UNCHANGED <<controlVars, heldVars>>

\* BuildRollbackService.status(): the last Build of the conversation ended, has
\* a file left to revert and nothing blocked or in conflict.
Revertible(b) ==
    /\ latest[ConversationOf[b]] = b
    /\ phase[b] \in Ended
    /\ Present(changes[b]) \ With(changes[b], "rejected") # {}
    /\ With(changes[b], "conflicted") = {}
    /\ Present(changes[b]) \cap Blocked = {}

Reverted(b) == [c \in Changes |-> IF c \in Present(changes[b])
                                  THEN "rejected" ELSE "absent"]

\* ai.rollback: every file left is rejected, then the execution resolved.
RevertBuild(b) ==
    /\ Revertible(b)
    /\ SaveDecided(b, Reverted(b))
    /\ Resolve(b)
    /\ UNCHANGED <<phase, running, active, latest, shared, closedVars>>

\* ai.rollback stopped at the file c, after it had reverted the files in S:
\* the handler throws and nothing is resolved.
RevertFails(b, S, c) ==
    /\ Revertible(b)
    /\ S \cup {c} \subseteq Present(changes[b]) \ With(changes[b], "rejected")
    /\ c \notin S
    /\ changes' = [changes EXCEPT ![b] =
          [d \in Changes |-> IF d \in S THEN "rejected"
                             ELSE IF d = c THEN "conflicted"
                             ELSE changes[b][d]]]
    /\ setStatus' = [setStatus EXCEPT ![b] = "conflicted"]
    /\ UNCHANGED <<controlVars, heldVars>>

-----------------------------------------------------------------------------
\* The watcher's flush: paths, an overflow, or the error that ends it.
WatcherEvents ==
    {ev \in Events : /\ ev.paths # {} \/ ev.overflow \/ ev.error
                     /\ ev.error => WatcherFails /\ ev.paths = {} /\ ~ev.overflow}

Watch(w, ev) ==
    /\ GateEnqueue(w, ev)
    /\ forgotten' = [forgotten EXCEPT ![w] =
          IF w \in held THEN (@ \cup ev.paths) \ Named(batch'[w])
          ELSE IF ev.error THEN @ ELSE @ \ Named(ev)]
    /\ UNCHANGED <<controlVars, storeVars>>

\* A decision or a revert that was past its last look at the closed window when
\* that closed: its rows are saved, and what it resolves is the maps of the
\* closed window's service.
CrossDecision(b) ==
    /\ b \in crossing
    /\ crossing' = crossing \ {b}
    /\ \/ \E c \in With(changes[b], "pending") \ Blocked, s \in {"accepted", "rejected"} :
             SaveDecided(b, [changes[b] EXCEPT ![c] = s])
       \/ Revertible(b) /\ SaveDecided(b, Reverted(b))
    /\ UNCHANGED <<phase, running, active, pending, latest, shared, orphaned, heldVars>>

\* registerIpc builds control and gate anew: the maps from the stored
\* ChangeSets that await a decision, and the gate from them.
Rebuild ==
    LET awaiting == {b \in Builds : AwaitingDecision(setStatus[b])} IN
    /\ running' = NoBuild
    /\ active' = {}
    /\ pending' = awaiting
    /\ orphaned' = {}
    /\ shared' = [w \in Workspaces |-> FALSE]
    /\ GateRestart({WorkspaceOf[b] : b \in awaiting})
    /\ forgotten' = [w \in Workspaces |-> {}]
    /\ UNCHANGED <<latest, storeVars>>

\* The application stops and starts: what was in flight has failed.
Restart ==
    /\ Rebuild
    /\ phase' = [b \in Builds |-> IF phase[b] \in InFlight \cup {"draining"}
                                  THEN "failed" ELSE phase[b]]
    /\ crossing' = {}

\* The window is closed and another opened.  A capture for a Build that has not
\* started finds the coordinator disposed, and a turn is cancelled and passed
\* over when it ends: neither reaches complete().  An AFTER capture goes on, and
\* so may one decision of each workspace, the first of its queue.
Reopen ==
    /\ Rebuild
    /\ phase' = [b \in Builds |-> CASE phase[b] = "after" -> "draining"
                                    [] phase[b] \in InFlight \ {"after"} -> "failed"
                                    [] OTHER -> phase[b]]
    /\ \E X \in SUBSET {b \in Builds : Undecided(changes[b]) # {} \/ Revertible(b)} :
          /\ \A w \in Workspaces : Cardinality(In(w, X)) <= 1
          /\ crossing' = X

-----------------------------------------------------------------------------
Capture(b) ==
    \/ BeforeReady(b) \/ StartRefused(b) \/ BeforeFails(b)
    \/ \E S \in SUBSET Changes : AfterCaptured(b, S)
    \/ AfterFails(b)
    \/ \E S \in SUBSET Changes : DrainCaptured(b, S)
    \/ DrainFails(b)

Turn(b) == TurnStarts(b) \/ StartFails(b) \/ TurnEnds(b) \/ TurnLost(b)

Review(b) ==
    \/ \E c \in Changes : \/ \E s \in {"accepted", "rejected"} : Decide(b, c, s)
                          \/ DecideConflicts(b, c)

Revert(b) ==
    \/ RevertBuild(b)
    \/ \E S \in SUBSET Changes, c \in Changes : RevertFails(b, S, c)

Next ==
    \/ \E b \in Builds : Send(b) \/ Capture(b) \/ Turn(b) \/ Review(b) \/ Revert(b)
    \/ \E w \in Workspaces, ev \in WatcherEvents : Watch(w, ev)
    \/ \E b \in Builds : CrossDecision(b)
    \/ Restart \/ Reopen

\* Captures and turns end (each has its own deadline or cancellation), and
\* the developer keeps answering what is open.
Fairness ==
    \A b \in Builds : WF_vars(Capture(b)) /\ WF_vars(Turn(b)) /\ WF_vars(Review(b))

Spec == Init /\ [][Next]_vars /\ Fairness

-----------------------------------------------------------------------------
\* Unless the last begin of the workspace found another Build in it, a Build
\* that captures, runs or awaits a decision keeps the workspace's events back
\* from the Project Index.
HoldUnlessShared ==
    \A b \in Builds :
        Unsettled(b) /\ ~shared[WorkspaceOf[b]] => WorkspaceOf[b] \in held

\* A held workspace always has a Build that can still release it, so that no
\* path through captures, aborts and failures starves the Project Index.
HoldHasReason ==
    \A w \in held : \E b \in In(w, Builds) : Unsettled(b)

\* Every stored change that still waits for an answer is tracked in memory,
\* through restarts and windows that close, unless its ChangeSet was saved by
\* the capture of a window that was closed before.
UndecidedIsTracked ==
    \A b \in Builds : Undecided(changes[b]) # {} => b \in pending \cup orphaned

\* No path the watcher reported is forgotten between the gate's batches: the
\* index was told of it, the batch that will be released names it or asks for a
\* reconciliation, or it is one of those the code lets go (forgotten).
NothingForgotten ==
    \A w \in Workspaces :
        batch[w].overflow \/ owed[w] \subseteq batch[w].paths \cup forgotten[w]

\* A hold ends, unless a Build is left that no answer can close: a conflict,
\* a turn that could not be persisted, or a closed ChangeSet tracked again
\* after a restart.
HoldEnds ==
    \A w \in Workspaces :
        w \in held ~> \/ w \notin held
                      \/ \E b \in In(w, active \cup pending) :
                            phase[b] \in Ended /\ Undecided(changes[b]) = {}

-----------------------------------------------------------------------------


=============================================================================
