-------------------------- MODULE ChangeDecision ---------------------------
(***************************************************************************)
(* How one file decision is carried out: ChangeDecisionService over the    *)
(* serialized queue of its workspace, the rollback of a rejected file      *)
(* through SnapshotRollbackService and its native worker, the journal and  *)
(* the database rows left behind, BuildRollbackService deciding a whole    *)
(* Build through the same queue, and startup reconciliation.               *)
(*                                                                         *)
(* Another program may write or delete a file at any point, the worker may *)
(* die or outlive its deadline, a write to the database may fail, the      *)
(* window may close and the process may end between any two steps.         *)
(*                                                                         *)
(* One ChangeSet of one workspace, without the files the policy blocks:    *)
(* no operation of this module gets past them.                             *)
(***************************************************************************)
EXTENDS Naturals, Sequences, ChangeSets

CONSTANTS Changes,      \* the files of the ChangeSet
          Contents,     \* what a path can hold
          Missing,      \* no file
          Before,       \* what the BEFORE checkpoint recorded of each file
          After,        \* what the AFTER checkpoint recorded
          MaxQueued,    \* bound: decisions waiting or in progress
          MaxWrites,    \* bound: writes of other programs
          MaxExits      \* bound: ends of the process

ASSUME ChangesAssumption == Changes # {}
ASSUME ContentsAssumption == Missing \in Contents
ASSUME CheckpointsAssumption ==
    /\ Before \in [Changes -> Contents]
    /\ After \in [Changes -> Contents]
    /\ \A c \in Changes : Before[c] # After[c]
ASSUME BoundsAssumption == MaxQueued \in Nat /\ MaxWrites \in Nat /\ MaxExits \in Nat

VARIABLES app,        \* whether the window is open, closed, or no process runs
          queue,      \* the decision:<workspace> queue, the one in progress first
          step,       \* how far that one is
          revert,     \* the whole-Build rollback
          status,     \* stored status of each change
          setStatus,  \* stored status of the ChangeSet
          intents,    \* changes with a 'running' row no decision works on any more
          failures,   \* changes with a 'conflicted' operation row
          journal,    \* steps the journals of a change's rollbacks recorded
          worker,     \* what the native worker of a change is doing
          disk,       \* what each path holds
          kept,       \* displaced contents, under their .nocturne-rollback names
          peer,       \* history: the last content not written by this program
          writes,     \* writes of other programs so far
          exits       \* ends of the process so far

requestVars == <<app, queue, step, revert>>
storeVars   == <<status, setStatus, intents, failures>>
fileVars    == <<disk, kept, peer, writes>>
vars == <<requestVars, storeVars, journal, worker, fileVars, exits>>

\* stale: the native admission epoch moved on since the request was admitted,
\* and the SnapshotRollbackService it was admitted to is disposed.
Requests == [change : Changes, decision : {"accepted", "rejected"},
             reverting : BOOLEAN, stale : BOOLEAN]

\* The steps of a decision while its operation row is 'running'; from
\* "observed" to "published" a rollback worker serves it.
RollbackSteps == {"observed", "displacing", "displaced", "publishing", "published"}
ReservedSteps == {"verify", "restore", "commit", "failed"} \cup RollbackSteps
Steps == {"idle", "recorded"} \cup ReservedSteps

NoRevert == [at |-> "idle", files |-> {}, stale |-> FALSE]

JournalSteps == {"displace-intent", "publish-intent", "verified"}

\* "rename" is between DISPLACE's check and its rename, "check" between the
\* publication and its verification; "ok" and "err" are answers.
WorkerStates == {"none", "open", "displace", "rename", "publish", "check", "ok", "err"}

\* The rows, the queue, the journals and the files hold what the code writes.
TypeOK ==
    /\ app \in {"open", "closed", "down"}
    /\ queue \in Seq(Requests)
    /\ step \in Steps
    /\ step # "idle" => queue # <<>>
    /\ revert \in [at : {"idle", "verify", "next", "waiting"},
                   files : SUBSET Changes, stale : BOOLEAN]
    /\ status \in [Changes -> ChangeStatuses]
    /\ setStatus \in SetStatuses
    /\ intents \subseteq Changes
    /\ failures \subseteq Changes
    /\ journal \in [Changes -> SUBSET JournalSteps]
    /\ worker \in [Changes -> WorkerStates]
    /\ disk \in [Changes -> Contents]
    /\ kept \in [Changes -> SUBSET Contents]
    /\ peer \in [Changes -> Contents]
    /\ writes \in 0..MaxWrites
    /\ exits \in 0..MaxExits

Init ==
    /\ app = "open"
    /\ queue = <<>>
    /\ step = "idle"
    /\ revert = NoRevert
    /\ status = [c \in Changes |-> "pending"]
    /\ setStatus = "pending"
    /\ intents = {}
    /\ failures = {}
    /\ journal = [c \in Changes |-> {}]
    /\ worker = [c \in Changes |-> "none"]
    /\ disk = After
    /\ kept = [c \in Changes |-> {}]
    /\ peer = After
    /\ writes = 0
    /\ exits = 0

-----------------------------------------------------------------------------
job  == Head(queue)
this == job.change

\* The decision in progress has its answer; a failed one ends the rollback of
\* the Build it belongs to.
Answer(ok) ==
    LET left == revert.files \ {this} IN
    /\ queue' = Tail(queue)
    /\ step' = "idle"
    /\ revert' = IF ~job.reverting THEN revert
                 ELSE IF ok /\ left # {}
                      THEN [revert EXCEPT !.at = "next", !.files = left]
                      ELSE NoRevert

Advance(from, to) ==
    /\ step = from
    /\ step' = to
    /\ UNCHANGED <<app, queue, revert>>

\* The worker's answer is "ok" and its owner still holds the capability.
Served == worker[this] = "ok" /\ ~job.stale

\* A worker that executes no command ends with its input.
Closing(w) == IF w \in {"open", "ok", "err"} THEN "none" ELSE w

Journal(s) == journal' = [journal EXCEPT ![this] = @ \cup {s}]
Command(s) == worker' = [worker EXCEPT ![this] = s]

-----------------------------------------------------------------------------
\* changeControl.decide: the request enters the queue of its workspace.
Decide(c, s) ==
    /\ app = "open"
    /\ Len(queue) < MaxQueued
    /\ queue' = Append(queue, [change |-> c, decision |-> s,
                               reverting |-> FALSE, stale |-> FALSE])
    /\ UNCHANGED <<app, step, revert, storeVars, journal, worker, fileVars, exits>>

\* Mutant: an accepted file can be rejected on its own.
DecidableTwice(r) ==
    \/ status[r.change] = "pending"
    \/ status[r.change] = "accepted" /\ r.decision = "rejected"

\* apply: only an open change takes a decision, and an accepted one the
\* rejection of its whole Build.
Decidable(r) ==
    \/ status[r.change] = "pending"
    \/ status[r.change] = "accepted" /\ r.reverting /\ r.decision = "rejected"

Reserve ==
    /\ queue # <<>> /\ Decidable(job)
    /\ Advance("idle", "verify")
    /\ UNCHANGED <<storeVars, journal, worker, fileVars, exits>>

Refuse ==
    /\ queue # <<>> /\ ~Decidable(job)
    /\ step = "idle"
    /\ Answer(FALSE)
    /\ UNCHANGED <<app, storeVars, journal, worker, fileVars, exits>>

\* verifyPaths: the file still is what AFTER recorded.
Verify ==
    /\ Advance("verify", IF job.decision = "accepted" THEN "commit" ELSE "restore")
    /\ ~job.stale
    /\ disk[this] = After[this]
    /\ UNCHANGED <<storeVars, journal, worker, fileVars, exits>>

\* Mutant: a request of a closed window still gets a worker.
ObserveStale ==
    /\ Advance("restore", "observed")
    /\ disk[this] = After[this]
    /\ worker[this] = "none"
    /\ Command("open")
    /\ UNCHANGED <<storeVars, journal, fileVars, exits>>

\* restoreFiles up to the staged content: the file is inspected again, the
\* worker is created and opens it.
Observe ==
    /\ Advance("restore", "observed")
    /\ ~job.stale
    /\ disk[this] = After[this]
    /\ worker[this] = "none"
    /\ Command("open")
    /\ UNCHANGED <<storeVars, journal, fileVars, exits>>

\* Mutant: the command goes out before its intent is durable.
DisplaceUnannounced ==
    /\ Advance("observed", "displacing")
    /\ ~job.stale
    /\ worker[this] = "open"
    /\ Command("displace")
    /\ UNCHANGED <<storeVars, journal, fileVars, exits>>

\* The intent is in the journal before the worker is told to displace.
IntendDisplace ==
    /\ Advance("observed", "displacing")
    /\ ~job.stale
    /\ worker[this] = "open"
    /\ Journal("displace-intent")
    /\ Command("displace")
    /\ UNCHANGED <<storeVars, fileVars, exits>>

Displaced ==
    /\ Advance("displacing", "displaced")
    /\ Served
    /\ UNCHANGED <<storeVars, journal, worker, fileVars, exits>>

IntendPublish ==
    /\ Advance("displaced", "publishing")
    /\ Served
    /\ Journal("publish-intent")
    /\ Command("publish")
    /\ UNCHANGED <<storeVars, fileVars, exits>>

Published ==
    /\ Advance("publishing", "published")
    /\ Served
    /\ UNCHANGED <<storeVars, journal, worker, fileVars, exits>>

\* The verified step is in the journal, the worker is closed.
Restored ==
    /\ Advance("published", "commit")
    /\ Served
    /\ Journal("verified")
    /\ Command("none")
    /\ UNCHANGED <<storeVars, fileVars, exits>>

\* Mutant: the set is computed from the changes as they were.
CommitStaleSet ==
    /\ step = "commit"
    /\ status' = [status EXCEPT ![this] = job.decision]
    /\ setStatus' = AggregateStatus(status)
    /\ Answer(TRUE)
    /\ UNCHANGED <<app, intents, failures, journal, worker, fileVars, exits>>

\* saveDecision: one transaction closes the change, its set and its row.
Commit ==
    LET decided == [status EXCEPT ![this] = job.decision] IN
    /\ step = "commit"
    /\ status' = decided
    /\ setStatus' = AggregateStatus(decided)
    /\ Answer(TRUE)
    /\ UNCHANGED <<app, intents, failures, journal, worker, fileVars, exits>>

\* Mutants: a rollback that is not 'restored' goes on to the commit; no
\* deadline on the worker's answers.
ThrowIgnored ==
    /\ step \in ReservedSteps \ {"failed"}
    /\ step' = IF step \in RollbackSteps THEN "commit" ELSE "failed"
    /\ worker' = [worker EXCEPT ![this] = Closing(@)]
    /\ UNCHANGED <<app, queue, revert, storeVars, journal, fileVars, exits>>

ThrowWithoutDeadline ==
    /\ step \in ReservedSteps \ {"failed"}
    /\ step \in {"displacing", "publishing"} => worker[this] = "err"
    /\ step' = "failed"
    /\ worker' = [worker EXCEPT ![this] = Closing(@)]
    /\ UNCHANGED <<app, queue, revert, storeVars, journal, fileVars, exits>>

\* Any of these steps throws: the file changed, a checkpoint or the root is
\* gone, the worker answered an error, died or missed its deadline, a journal
\* or database write failed, a shutdown revoked the operation.  The worker is
\* closed or killed: one that executes a command may still finish it.
Throw ==
    /\ step \in ReservedSteps \ {"failed"}
    /\ step' = "failed"
    /\ worker' = [worker EXCEPT ![this] = Closing(@)]
    /\ UNCHANGED <<app, queue, revert, storeVars, journal, fileVars, exits>>

\* failDecision closes the row ...
FailDecision ==
    /\ Advance("failed", "recorded")
    /\ failures' = failures \cup {this}
    /\ UNCHANGED <<status, setStatus, intents, journal, worker, fileVars, exits>>

\* Mutant: the set of a conflicted change keeps its status.
SaveConflictAlone ==
    /\ step = "recorded"
    /\ status' = [status EXCEPT ![this] = "conflicted"]
    /\ Answer(FALSE)
    /\ UNCHANGED <<app, setStatus, intents, failures, journal, worker, fileVars, exits>>

\* ... and a second transaction the change and its set.
SaveConflict ==
    /\ step = "recorded"
    /\ status' = [status EXCEPT ![this] = "conflicted"]
    /\ setStatus' = "conflicted"
    /\ Answer(FALSE)
    /\ UNCHANGED <<app, intents, failures, journal, worker, fileVars, exits>>

\* Either of the two may throw in its turn, and the rest is not reached.
FailureUnrecorded ==
    /\ step \in {"failed", "recorded"}
    /\ intents' = IF step = "failed" THEN intents \cup {this} ELSE intents
    /\ Answer(FALSE)
    /\ UNCHANGED <<app, status, setStatus, failures, journal, worker, fileVars, exits>>

-----------------------------------------------------------------------------
\* rollback-boundary.cpp.  DISPLACE checks the file it observed, renames
\* whatever has its name, and checks what it renamed.
WorkerVerifies(c) ==
    /\ worker[c] = "displace"
    /\ worker' = [worker EXCEPT ![c] =
          IF disk[c] # After[c] THEN "err"
          ELSE IF After[c] = Missing THEN "ok" ELSE "rename"]
    /\ UNCHANGED <<requestVars, storeVars, journal, fileVars, exits>>

WorkerRenames(c) ==
    /\ worker[c] = "rename"
    /\ worker' = [worker EXCEPT ![c] = IF disk[c] = After[c] THEN "ok" ELSE "err"]
    /\ disk' = [disk EXCEPT ![c] = Missing]
    /\ kept' = [kept EXCEPT ![c] = @ \cup ({disk[c]} \ {Missing})]
    /\ UNCHANGED <<requestVars, storeVars, journal, peer, writes, exits>>

\* Mutant: the publication replaces what is there.
WorkerOverwrites(c) ==
    /\ worker[c] = "publish"
    /\ worker' = [worker EXCEPT ![c] = IF Before[c] = Missing THEN "ok" ELSE "check"]
    /\ disk' = [disk EXCEPT ![c] = Before[c]]
    /\ UNCHANGED <<requestVars, storeVars, journal, kept, peer, writes, exits>>

\* PUBLISH links BEFORE exclusively, or checks that the path stays absent.
WorkerPublishes(c) ==
    /\ worker[c] = "publish"
    /\ IF disk[c] # Missing
       THEN /\ worker' = [worker EXCEPT ![c] = "err"]
            /\ UNCHANGED disk
       ELSE /\ worker' = [worker EXCEPT ![c] =
                  IF Before[c] = Missing THEN "ok" ELSE "check"]
            /\ disk' = [disk EXCEPT ![c] = Before[c]]
    /\ UNCHANGED <<requestVars, storeVars, journal, kept, peer, writes, exits>>

WorkerChecks(c) ==
    /\ worker[c] = "check"
    /\ worker' = [worker EXCEPT ![c] = IF disk[c] = Before[c] THEN "ok" ELSE "err"]
    /\ UNCHANGED <<requestVars, storeVars, journal, fileVars, exits>>

\* The worker exits, is killed, or reads the end of its input.
WorkerEnds(c) ==
    /\ worker[c] # "none"
    /\ worker' = [worker EXCEPT ![c] = "none"]
    /\ UNCHANGED <<requestVars, storeVars, journal, fileVars, exits>>

\* Another program writes the file or deletes it.
PeerWrites(c, v) ==
    /\ writes < MaxWrites
    /\ disk[c] # v
    /\ writes' = writes + 1
    /\ disk' = [disk EXCEPT ![c] = v]
    /\ peer' = [peer EXCEPT ![c] = v]
    /\ UNCHANGED <<requestVars, storeVars, journal, worker, kept, exits>>

-----------------------------------------------------------------------------
\* Mutant: the files already accepted are left out.
ConfirmPending ==
    /\ app = "open"
    /\ revert = NoRevert
    /\ With(status, "pending") # {} /\ With(status, "conflicted") = {}
    /\ revert' = [at |-> "verify", files |-> With(status, "pending"), stale |-> FALSE]
    /\ UNCHANGED <<app, queue, step, storeVars, journal, worker, fileVars, exits>>

\* BuildRollbackService.rollback, confirmed while status() finds it available.
ConfirmRevert ==
    LET files == Changes \ With(status, "rejected") IN
    /\ app = "open"
    /\ revert = NoRevert
    /\ files # {} /\ With(status, "conflicted") = {}
    /\ revert' = [at |-> "verify", files |-> files, stale |-> FALSE]
    /\ UNCHANGED <<app, queue, step, storeVars, journal, worker, fileVars, exits>>

\* Every file is compared with AFTER before the first is decided.
VerifyRevert ==
    /\ revert.at = "verify"
    /\ revert' = IF ~revert.stale /\ \A c \in revert.files : disk[c] = After[c]
                 THEN [revert EXCEPT !.at = "next"] ELSE NoRevert
    /\ UNCHANGED <<app, queue, step, storeVars, journal, worker, fileVars, exits>>

RevertNext(c) ==
    /\ revert.at = "next" /\ c \in revert.files
    /\ revert' = [revert EXCEPT !.at = "waiting"]
    /\ queue' = Append(queue, [change |-> c, decision |-> "rejected",
                               reverting |-> TRUE, stale |-> revert.stale])
    /\ UNCHANGED <<app, step, storeVars, journal, worker, fileVars, exits>>

-----------------------------------------------------------------------------
\* Mutant: the queue is dropped under the decision in progress.
CloseWindowDropsQueue ==
    /\ app = "open"
    /\ app' = "closed"
    /\ queue' = <<>>
    /\ revert' = NoRevert
    /\ UNCHANGED <<step, storeVars, journal, worker, fileVars, exits>>

\* The window closes: the rollback service is disposed, the admission epoch
\* moves on and the workers are closed; the queue is left to drain.
CloseWindow ==
    /\ app = "open"
    /\ app' = "closed"
    /\ queue' = [i \in DOMAIN queue |-> [queue[i] EXCEPT !.stale = TRUE]]
    /\ revert' = IF revert = NoRevert THEN NoRevert ELSE [revert EXCEPT !.stale = TRUE]
    /\ UNCHANGED <<step, storeVars, journal, worker, fileVars, exits>>

\* A new window, with new services, over the same database.
OpenWindow ==
    /\ app = "closed"
    /\ app' = "open"
    /\ UNCHANGED <<queue, step, revert, storeVars, journal, worker, fileVars, exits>>

\* Mutant: the operation rows of unfinished decisions are not durable.
ExitForgets ==
    /\ app # "down"
    /\ exits < MaxExits
    /\ exits' = exits + 1
    /\ app' = "down"
    /\ queue' = <<>>
    /\ step' = "idle"
    /\ revert' = NoRevert
    /\ worker' = [c \in Changes |-> Closing(worker[c])]
    /\ UNCHANGED <<status, setStatus, intents, failures, journal, fileVars>>

\* The process ends, between any two steps.
Exit ==
    /\ app # "down"
    /\ exits < MaxExits
    /\ exits' = exits + 1
    /\ app' = "down"
    /\ queue' = <<>>
    /\ step' = "idle"
    /\ revert' = NoRevert
    /\ intents' = IF step \in ReservedSteps THEN intents \cup {this} ELSE intents
    /\ worker' = [c \in Changes |-> Closing(worker[c])]
    /\ UNCHANGED <<status, setStatus, failures, journal, fileVars>>

\* OperationRecoveryRepository.reconcile: a row found 'running' is a conflict.
Start ==
    /\ app = "down"
    /\ app' = "open"
    /\ status' = [c \in Changes |-> IF c \in intents THEN "conflicted" ELSE status[c]]
    /\ setStatus' = IF intents = {} THEN setStatus ELSE "conflicted"
    /\ intents' = {}
    /\ UNCHANGED <<queue, step, revert, failures, journal, worker, fileVars, exits>>

-----------------------------------------------------------------------------
Decision ==
    \/ Reserve \/ Refuse \/ Verify \/ Observe \/ IntendDisplace \/ Displaced
    \/ IntendPublish \/ Published \/ Restored \/ Commit
    \/ Throw \/ FailDecision \/ SaveConflict \/ FailureUnrecorded

Worker(c) ==
    \/ WorkerVerifies(c) \/ WorkerRenames(c) \/ WorkerPublishes(c)
    \/ WorkerChecks(c) \/ WorkerEnds(c)

Revert == ConfirmRevert \/ VerifyRevert \/ \E c \in Changes : RevertNext(c)

Life == CloseWindow \/ OpenWindow \/ Exit \/ Start

Next ==
    \/ \E c \in Changes, s \in {"accepted", "rejected"} : Decide(c, s)
    \/ Decision
    \/ \E c \in Changes : Worker(c) \/ \E v \in Contents : PeerWrites(c, v)
    \/ Revert
    \/ Life

\* A decision always goes on or throws: every wait on the worker has a
\* deadline of fifteen seconds.
Fairness == WF_vars(Decision)

Spec == Init /\ [][Next]_vars /\ Fairness

-----------------------------------------------------------------------------
\* Whatever was last in the file that this program did not write itself is
\* still there or kept beside it: neither a rollback, nor one that races an
\* editor, nor a worker that outlives its decision destroys bytes.
PeerBytesSurvive ==
    \A c \in Changes : peer[c] \in {disk[c], Missing} \cup kept[c]

\* Nothing is displaced or published that a journal on disk does not announce.
MutationsAreJournaled ==
    \A c \in Changes :
        /\ disk[c] # peer[c] => "displace-intent" \in journal[c]
        /\ disk[c] \notin {peer[c], Missing} => "publish-intent" \in journal[c]
        /\ kept[c] # {} => "displace-intent" \in journal[c]

\* A change is rejected only when the restoration of its file was verified.
RejectedIsRestored ==
    \A c \in With(status, "rejected") : "verified" \in journal[c]

\* A file this program moved or wrote is rejected or in conflict, or the
\* database still has the operation that did it, in progress or failed.
MutationsLeaveTrace ==
    \A c \in Changes :
        journal[c] # {} =>
            \/ status[c] \in {"rejected", "conflicted"}
            \/ c \in intents \cup failures
            \/ step # "idle" /\ c = this

\* The set says what its changes say.
SetFollowsChanges == setStatus = AggregateStatus(status)

\* A decision is final: a rejected or conflicted change keeps its status, and
\* an accepted one only leaves it when its whole Build is reverted or when a
\* row was left 'running' at startup.
DecisionsAreFinal ==
    [][\A c \in Changes :
          status'[c] # status[c] =>
              \/ status[c] = "pending"
              \/ c \in intents /\ app = "down"
              \/ /\ status[c] = "accepted" /\ step # "idle"
                 /\ c = this /\ job.reverting]_vars

\* After a window is closed no command is sent for a request it had admitted.
NoCommandAfterClose ==
    [][\A c \in Changes :
          worker'[c] # worker[c] /\ worker'[c] \in {"open", "displace", "publish"}
          => step # "idle" /\ ~job.stale]_vars

\* Every decision is answered, whatever the worker does.
DecisionEnds == step # "idle" ~> step = "idle"

\* A rollback of the Build that ends well has rejected every file: its caller
\* then resolves the execution and opens the gate of the Project Index.
RevertIsComplete ==
    [][step = "commit" /\ step' = "idle" /\ app' # "down"
           /\ job.reverting /\ revert'.at = "idle"
       => With(status', "rejected") = Changes]_vars

\* A file counts as restored once the journal of its rollback says verified.
Contract == INSTANCE ReviewContract
                WITH restored <- {c \in Changes : "verified" \in journal[c]}

\* The stored statuses follow the contract of ReviewContract, where each
\* decision is one step, through crashes, failures and concurrent reverts.
FollowsContract == Contract!Spec

-----------------------------------------------------------------------------
\* docs/change-control.md:29-31: a filesystem or commit failure is a conflict,
\* and the persistent intent remains available for startup reconciliation; so
\* a file that was displaced is rejected, in conflict, or still has its intent.
FailureIsConflict ==
    \A c \in Changes :
        kept[c] # {} =>
            \/ status[c] \in {"rejected", "conflicted"}
            \/ c \in intents
            \/ step # "idle" /\ c = this

=============================================================================
