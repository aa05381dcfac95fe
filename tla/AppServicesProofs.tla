--------------------------- MODULE AppServicesProofs ---------------------------
(***************************************************************************)
(* Theorems about services, each by itself: the shutdown of the process,   *)
(* the files of the database over crashes, the validation runs, the        *)
(* credential vault, the updates, the captures, documents and their        *)
(* export, the providers.  They share nothing but this module.             *)
(***************************************************************************)
EXTENDS ProcessLife, DatabaseFiles, ValidationPipeline, CredentialVault, Updates,
        CheckpointCapture, Documents, Providers, FiniteSetTheorems, TLAPS

-----------------------------------------------------------------------------
(* ProcessLife.  Windows are numbered in the order they open.  What drains  *)
(* when the shutdown begins is what it waits for; a window whose IPC is     *)
(* disposed of later was opened later, because the shutdown took the IPC of *)
(* the window there was.                                                    *)

ReleaseStates == {"none", "draining", "disposing", "done", "failed"}

LifeTyped ==
    /\ LifeTypeOK
    /\ release \in ReleaseStates
    /\ startup \in {"recovering", "initializing", "up", "failed"}
    /\ opened \in 0..MaxWindows /\ win \in 0..opened /\ ipc \in 0..opened
    /\ late \in 0..opened /\ draining \subseteq 1..opened

\* While there is an IPC a window is shown, and before the services are there
\* neither a window nor a database is.
IpcInOrder ==
    /\ ipc # 0 => win # 0
    /\ startup = "recovering" => opened = 0 /\ ~dbOpen

\* What an old window still drains is waited for until the database closes.
ReleaseInOrder ==
    /\ release # "none" /\ ipc # 0 => ipc > late
    /\ release # "none" => \A w \in draining : w > late \/ w \in waits
    /\ release \in {"disposing", "done", "failed"} => \A w \in draining : w > late
    /\ ~dbOpen => opened = 0 \/ release \in {"disposing", "done", "failed"}
    /\ dbOpen /\ release \in {"disposing", "done", "failed"} => late = 0

QuitInOrder ==
    /\ normal = "quitting" => release = "done"
    /\ exited = "quit" => release = "done"

LifeInv == LifeTyped /\ IpcInOrder /\ ReleaseInOrder /\ QuitInOrder

\* The first call of shutdownResources waits for every IPC there is.
LEMMA ReleaseWaits ==
    ASSUME MaxWindows \in Nat, LifeTyped, IpcInOrder, ReleaseInOrder, Release
    PROVE  /\ ipc' \in 0..opened /\ late' \in 0..opened /\ draining' \subseteq 1..opened
           /\ release' \in ReleaseStates \ {"none"}
           /\ ipc' # 0 => ipc' = ipc /\ ipc' > late'
           /\ \A w \in draining' : w > late' \/ w \in waits'
           /\ release' \in {"disposing", "done", "failed"} =>
                 /\ release' = release /\ late' = late
                 /\ \A w \in draining' : w > late'
           /\ release = "none" => release' = "draining"
           /\ release # "none" => release' = release
<1> USE DEF LifeTyped, LifeTypeOK, ReleaseInOrder, ReleaseStates
<1>1. CASE release # "none"
  BY <1>1 DEF Release
<1>2. CASE release = "none"
  <2>1. /\ release' = "draining" /\ late' = opened /\ ipc' = 0
        /\ waits' = draining \cup ({ipc} \ {0}) /\ draining' = draining \cup ({ipc} \ {0})
    BY <1>2 DEF Release, Awaited, Pending
  <2>2. opened \in Nat /\ ipc \in 0..opened
    OBVIOUS
  <2>3. draining' \subseteq 1..opened
    BY <2>1, <2>2
  <2> QED  BY <1>2, <2>1, <2>2, <2>3
<1> QED  BY <1>1, <1>2

\* A step that begins the release, if it had not begun, and opens at most a window
\* that gets no IPC.
LEMMA ReleaseStep ==
    ASSUME MaxWindows \in Nat, LifeInv, Release, UNCHANGED <<dbOpen, exited>>,
           opened' \in opened..MaxWindows, win' \in 0..opened',
           win' = win \/ win' # 0, opened' = opened \/ dbOpen,
           startup' = startup \/ startup' = "failed", normal' # "quitting" \/ normal' = normal
    PROVE  LifeInv'
<1> USE DEF LifeInv
<1>1. LifeTyped'
  BY ReleaseWaits DEF LifeTyped, LifeTypeOK
<1>2. IpcInOrder'
  BY ReleaseWaits DEF LifeTyped, LifeTypeOK, IpcInOrder
<1>3. ReleaseInOrder'
  BY ReleaseWaits DEF LifeTyped, LifeTypeOK, ReleaseInOrder
<1>4. QuitInOrder'
  BY ReleaseWaits DEF LifeTyped, QuitInOrder, ReleaseInOrder
<1> QED  BY <1>1, <1>2, <1>3, <1>4

LEMMA LifeStep ==
    ASSUME MaxWindows \in Nat, LifeInv, [LifeNext]_lifeVars
    PROVE  LifeInv'
<1> USE DEF LifeInv
<1>0. CASE OpenServices
  BY <1>0 DEF OpenServices, LifeTyped, LifeTypeOK, IpcInOrder, ReleaseInOrder, QuitInOrder
<1>1. CASE FirstWindow
  <2>1. startup = "initializing" /\ UNCHANGED <<dbOpen, normal, fatal, exited>>
    BY <1>1 DEF FirstWindow
  <2>2. CASE fatal # "none"
    BY <1>1, <2>2 DEF FirstWindow, LifeTyped, LifeTypeOK, IpcInOrder, ReleaseInOrder,
                      QuitInOrder
  <2>3. CASE fatal = "none" /\ dbOpen /\ ipc = 0
    <3>1. /\ opened < MaxWindows /\ startup' = "up"
          /\ win' = opened + 1 /\ ipc' = opened + 1 /\ opened' = opened + 1
          /\ UNCHANGED <<draining, release, waits, late>>
      BY <1>1, <2>3 DEF FirstWindow, CreateWindow
    <3> QED
      BY <2>1, <2>3, <3>1 DEF LifeTyped, LifeTypeOK, IpcInOrder, ReleaseInOrder, QuitInOrder
  <2>4. CASE fatal = "none" /\ ~(dbOpen /\ ipc = 0)
    <3>1. /\ opened < MaxWindows /\ startup' = "failed" /\ Release
          /\ IF dbOpen THEN win' = opened + 1 /\ opened' = opened + 1
             ELSE UNCHANGED <<win, opened>>
      BY <1>1, <2>4 DEF FirstWindow
    <3>2. /\ opened' \in opened..MaxWindows /\ win' \in 0..opened' /\ (win = win' \/ win' # 0)
          /\ opened' = opened \/ dbOpen
      BY <3>1 DEF LifeTyped, LifeTypeOK
    <3> QED  BY <2>1, <3>1, <3>2, ReleaseStep
  <2> QED  BY <2>2, <2>3, <2>4
<1>2. CASE CloseWindow
  <2>1. /\ win' = 0 /\ ipc' = 0 /\ draining' = draining \cup ({ipc} \ {0})
        /\ UNCHANGED <<opened, dbOpen, release, waits, late, normal, fatal, startup, exited>>
    BY <1>2 DEF CloseWindow, Pending
  <2>2. LifeTyped'
    BY <2>1 DEF LifeTyped, LifeTypeOK
  <2>3. ReleaseInOrder'
    BY <2>1 DEF LifeTyped, LifeTypeOK, ReleaseInOrder
  <2> QED  BY <2>1, <2>2, <2>3 DEF IpcInOrder, QuitInOrder
<1>3. ASSUME Release, UNCHANGED <<win, opened, dbOpen, exited>>,
             startup' = startup \/ startup' = "failed", normal' # "quitting" \/ normal' = normal
      PROVE  LifeInv'
  <2>1. opened' \in opened..MaxWindows /\ win' \in 0..opened'
    BY <1>3 DEF LifeTyped, LifeTypeOK
  <2> QED  BY <1>3, <2>1, ReleaseStep
<1>4. CASE Fail \/ BeforeQuit \/ StartUpFails
  BY <1>3, <1>4 DEF Fail, HandleFatal, BeforeQuit, StartUpFails
<1>5. CASE Reopen
  <2>1. CASE dbOpen
    <3>1. /\ opened < MaxWindows /\ win = 0
          /\ win' = opened + 1 /\ ipc' = opened + 1 /\ opened' = opened + 1
          /\ UNCHANGED <<draining, release, waits, late, fatal, dbOpen, normal, startup, exited>>
      BY <1>5, <2>1 DEF Reopen, CreateWindow
    <3> QED
      BY <2>1, <3>1 DEF LifeTyped, LifeTypeOK, IpcInOrder, ReleaseInOrder, QuitInOrder
  <2>2. CASE ~dbOpen
    BY <1>3, <1>5, <2>2 DEF Reopen, HandleFatal
  <2> QED  BY <2>1, <2>2
<1>6. CASE Drained
  BY <1>6 DEF Drained, LifeTyped, LifeTypeOK, IpcInOrder, ReleaseInOrder, QuitInOrder
<1>7. CASE CloseDatabase
  <2>1. \A w \in draining : w > late
    BY <1>7 DEF CloseDatabase, ReleaseInOrder
  <2> QED
    BY <1>7, <2>1 DEF CloseDatabase, LifeTyped, LifeTypeOK, IpcInOrder, ReleaseInOrder,
       QuitInOrder, ReleaseStates
<1>8. CASE Released
  BY <1>8 DEF Released, LifeTyped, LifeTypeOK, IpcInOrder, ReleaseInOrder, QuitInOrder,
     ReleaseStates
<1>9. CASE NormalGoesOn
  BY <1>9 DEF NormalGoesOn, CleanupEnds, CleanupFails, LifeTyped, LifeTypeOK, IpcInOrder,
     ReleaseInOrder, QuitInOrder
<1>11. CASE NormalExits \/ FatalExits \/ StartUpExits
  <2>1. /\ UNCHANGED <<win, ipc, draining, opened, dbOpen, release, waits, late, normal, fatal,
                       startup>>
        /\ exited' \in {"quit", "failed", "fatal"}
        /\ exited' = "quit" => normal = "quitting"
    BY <1>11 DEF NormalExits, FatalExits, StartUpExits, Exit
  <2> QED  BY <2>1 DEF LifeTyped, LifeTypeOK, IpcInOrder, ReleaseInOrder, QuitInOrder
<1>10. CASE UNCHANGED lifeVars
  BY <1>10 DEF lifeVars, LifeTyped, LifeTypeOK, IpcInOrder, ReleaseInOrder, QuitInOrder
<1> QED
  BY <1>0, <1>1, <1>2, <1>4, <1>5, <1>6, <1>7, <1>8, <1>9, <1>10, <1>11
  DEF LifeNext, LifeTimers

\* However windows are opened and closed, whatever fails, and however far the
\* start had come when the quit or a second instance came: the database is closed
\* after the windows that were there when the shutdown began have drained, no IPC
\* is left without a window, and a clean quit has released what there was.  A
\* window opened after the shutdown began is not waited for.
THEOREM ShutdownInOrder ==
    ASSUME MaxWindows \in Nat
    PROVE  LifeSpec => [](LifeTypeOK /\ DatabaseOutlivesWindows /\ IpcFollowsWindow
                                     /\ CleanQuitReleased)
<1>1. LifeInit => LifeInv
  <2> SUFFICES ASSUME LifeInit PROVE LifeInv
    OBVIOUS
  <2> USE DEF LifeInit
  <2>1. LifeTyped
    <3>1. 0 \in 0..MaxWindows /\ {win, ipc, opened, late} = {0} /\ draining = {}
      OBVIOUS
    <3>2. LifeTypeOK
      BY <3>1 DEF LifeTypeOK
    <3> QED  BY <3>1, <3>2 DEF LifeTyped, ReleaseStates
  <2>2. IpcInOrder /\ ReleaseInOrder /\ QuitInOrder
    BY DEF IpcInOrder, ReleaseInOrder, QuitInOrder
  <2> QED  BY <2>1, <2>2 DEF LifeInv
<1>2. LifeInv /\ [LifeNext]_lifeVars => LifeInv'
  BY LifeStep
<1>3. LifeInv => LifeTypeOK /\ DatabaseOutlivesWindows /\ IpcFollowsWindow /\ CleanQuitReleased
  BY DEF LifeInv, LifeTyped, LifeTypeOK, Pending, DatabaseOutlivesWindows, IpcFollowsWindow, CleanQuitReleased,
     IpcInOrder, ReleaseInOrder, QuitInOrder
<1> QED  BY <1>1, <1>2, <1>3, PTL DEF LifeSpec

-----------------------------------------------------------------------------
(* DatabaseFiles.  The start recognizes an interrupted recovery by what it   *)
(* left behind.  Nothing is lost because a missing database has always left  *)
(* a quarantine behind when it held something or had a -wal, and because the *)
(* steps of a recovery find the files as the steps before them left them.    *)

Boots == {"off", "asking", "quarantining", "movingWal", "copying", "inspecting", "undoing",
          "undoingDatabase", "opening", "backingUp", "migrating", "running", "importing"}

Quarantines == [made : BOOLEAN, db : {"missing", "corrupt"}, wal : BOOLEAN,
                kept : SUBSET {"corrupt"}]

DbTyped ==
    /\ DbTypeOK /\ boot \in Boots /\ hadData \in BOOLEAN
    /\ db \in [holds : Contents, schema : {"old", "current"}, wal : {"none", "own", "foreign"}]
    /\ quarantine \in Quarantines

\* The quarantines hold a database that was moved there.
Quarantined == quarantine.db # "missing" \/ quarantine.kept # {}

\* Where the files are
FilesInOrder ==
    /\ NeverEmptied /\ NoForeignWal
    /\ Quarantined => quarantine.made
    /\ db.holds = "missing" /\ (hadData \/ db.wal # "none" \/ quarantine.wal) => Quarantined

\* What each step of a start may rely on
BootInOrder ==
    /\ boot = "asking" => db.holds \in {"missing", "corrupt"}
    /\ boot = "quarantining" => quarantine.made /\ quarantine.db = "missing" /\ ~quarantine.wal
                                /\ db.holds \in {"missing", "corrupt"}
    /\ boot \in {"movingWal", "copying", "inspecting"} => db.holds = "missing"
    /\ boot = "movingWal" => ~quarantine.wal
    /\ boot \in {"copying", "inspecting"} => db.wal = "none"
    /\ boot \in {"undoing", "undoingDatabase"} /\ quarantine.wal => db.holds = "missing"
    /\ boot = "opening" /\ db.holds = "missing" => ~hadData /\ db.wal = "none"
    /\ boot \in {"backingUp", "migrating", "running", "importing"} => db.holds # "missing"

CopiesInOrder ==
    /\ ChangedDatabaseHasCopy
    /\ boot = "importing" => "snapshot" \in copies

FilesInv == DbTyped /\ FilesInOrder /\ BootInOrder /\ CopiesInOrder

LEMMA QuarantineType ==
    ASSUME NEW made \in BOOLEAN, NEW kept \in SUBSET {"corrupt"}
    PROVE  [made |-> made, db |-> "missing", wal |-> FALSE, kept |-> kept] \in Quarantines
BY DEF Quarantines

\* The user agrees, and a new quarantine takes over what the last one holds, or
\* declines.
LEMMA AnswerStep ==
    ASSUME FilesInv, Answer PROVE FilesInv'
<1> USE DEF FilesInv
<1>1. CASE boot' = "off" /\ FilesSame /\ UNCHANGED faults
  BY <1>1 DEF FilesSame, DbTyped, DbTypeOK, Boots, FilesInOrder, NeverEmptied, NoForeignWal,
     Quarantined, BootInOrder, CopiesInOrder, ChangedDatabaseHasCopy
<1>2. CASE /\ boot' = "quarantining" /\ boot = "asking"
           /\ quarantine' = [Directory(quarantine.kept \cup ({quarantine.db} \ {"missing"}))
                              EXCEPT !.made = TRUE]
           /\ UNCHANGED <<db, temporary, copies, hadData, faults>>
  <2> DEFINE kept == quarantine.kept \cup ({quarantine.db} \ {"missing"})
  <2>1. quarantine' = [made |-> TRUE, db |-> "missing", wal |-> FALSE, kept |-> kept]
    BY <1>2 DEF Directory
  <2>2. kept \in SUBSET {"corrupt"} /\ (Quarantined => kept # {})
    BY DEF DbTyped, Quarantines, Quarantined
  <2>3. /\ quarantine'.made /\ quarantine'.db = "missing" /\ ~quarantine'.wal
        /\ quarantine'.kept = kept
    BY <2>1
  <2>4. DbTyped'
    <3>1. quarantine' \in Quarantines
      BY <2>1, <2>2, QuarantineType
    <3> QED  BY <1>2, <3>1 DEF DbTyped, DbTypeOK, Boots
  <2>5. FilesInOrder'
    BY <1>2, <2>2, <2>3 DEF FilesInOrder, NeverEmptied, NoForeignWal, Quarantined
  <2>6. BootInOrder' /\ CopiesInOrder'
    BY <1>2, <2>3 DEF BootInOrder, CopiesInOrder, ChangedDatabaseHasCopy
  <2> QED  BY <2>4, <2>5, <2>6
<1> QED  BY <1>1, <1>2 DEF Answer

LEMMA FilesStep ==
    ASSUME MaxFaults \in Nat, FilesInv, [DbNext]_dbVars
    PROVE  FilesInv'
<1> USE DEF FilesInv, DbTyped, DbTypeOK, Boots, Quarantines
<1> USE DEF FilesInOrder, NeverEmptied, NoForeignWal, Quarantined
<1> USE DEF BootInOrder, CopiesInOrder, ChangedDatabaseHasCopy
<1>1. CASE Start
  BY <1>1 DEF Start, Recovering, Artifacts, FilesSame
<1>2. CASE Answer
  BY <1>2, AnswerStep
<1>3. CASE MoveDatabase
  BY <1>3 DEF MoveDatabase, Contents
<1>4. CASE MoveWal
  BY <1>4 DEF MoveWal
<1>5. CASE CopyCandidate
  BY <1>5 DEF CopyCandidate
<1>6. CASE PutInPlace
  BY <1>6 DEF PutInPlace, Contents
<1>7. CASE StepFails
  BY <1>7 DEF StepFails, Fault
<1>8. CASE UndoWal
  BY <1>8 DEF UndoWal
<1>9. CASE UndoDatabase
  BY <1>9 DEF UndoDatabase, Directory, Contents
<1>10. CASE Open
  <2>1. CASE db.holds = "missing"
    <3>1. db' = [db EXCEPT !.holds = "empty"] /\ boot = "opening"
      BY <1>10, <2>1 DEF Open
    <3> QED  BY <1>10, <2>1, <3>1 DEF Open, Contents
  <2>2. CASE db.holds # "missing"
    <3>1. db' = [db EXCEPT !.wal = IF @ = "none" THEN "own" ELSE @]
      BY <1>10, <2>2 DEF Open
    <3> QED  BY <1>10, <2>2, <3>1 DEF Open, Contents
  <2> QED  BY <2>1, <2>2
<1>11. CASE BackUp
  BY <1>11 DEF BackUp
<1>12. CASE Migrate
  BY <1>12 DEF Migrate, Fault
<1>13. CASE Use \/ Upgrade
  BY <1>13 DEF Use, Upgrade, Contents, Data
<1>14. CASE Snapshot \/ Import
  BY <1>14 DEF Snapshot, Import, Contents, Data
<1>15. CASE Close \/ Crash
  BY <1>15 DEF Close, Crash, FilesSame, Fault
<1>16. CASE Corrupt
  BY <1>16 DEF Corrupt, Contents, Data, Fault
<1>17. CASE UNCHANGED dbVars
  BY <1>17 DEF dbVars
<1> QED
  BY <1>1, <1>2, <1>3, <1>4, <1>5, <1>6, <1>7, <1>8, <1>9, <1>10, <1>11, <1>12, <1>13, <1>14,
     <1>15, <1>16, <1>17 DEF DbNext, DbWork, RestoreStep

\* Wherever a start, a recovery, a migration or an import is cut off, and
\* however often: what the database held is still there, in its place or in a
\* quarantine, what replaced it left a copy, and no -wal of another database
\* lies beside it.
THEOREM RecoveryLosesNothing ==
    ASSUME MaxFaults \in Nat
    PROVE  DbSpec => [](DbTypeOK /\ NeverEmptied /\ OriginalIsKept /\ ChangedDatabaseHasCopy
                                 /\ NoForeignWal)
<1>1. DbInit => FilesInv
  <2> SUFFICES ASSUME DbInit PROVE FilesInv
    OBVIOUS
  <2> USE DEF DbInit, Directory
  <2>1. DbTyped
    <3>1. quarantine = [made |-> FALSE, db |-> "missing", wal |-> FALSE, kept |-> {}]
      OBVIOUS
    <3>2. faults \in 0..MaxFaults
      OBVIOUS
    <3>3. quarantine \in Quarantines
      BY <3>1, QuarantineType
    <3> QED  BY <3>2, <3>3 DEF DbTyped, DbTypeOK, Boots, Contents
  <2>2. FilesInOrder
    BY DEF FilesInOrder, NeverEmptied, NoForeignWal, Quarantined
  <2>3. BootInOrder /\ CopiesInOrder
    BY DEF BootInOrder, CopiesInOrder, ChangedDatabaseHasCopy
  <2> QED  BY <2>1, <2>2, <2>3 DEF FilesInv
<1>2. FilesInv /\ [DbNext]_dbVars => FilesInv'
  BY FilesStep
<1>3. FilesInv => DbTypeOK /\ NeverEmptied /\ OriginalIsKept /\ ChangedDatabaseHasCopy
                           /\ NoForeignWal
  BY DEF FilesInv, DbTyped, FilesInOrder, CopiesInOrder, OriginalIsKept, Quarantined
<1> QED  BY <1>1, <1>2, <1>3, PTL DEF DbSpec

-----------------------------------------------------------------------------
(* ValidationPipeline.  One run at a time has an open row, the last one; a   *)
(* group that outlives its runner was sent SIGKILL, because the timer that   *)
(* gives up fires after the one that kills.                                  *)

Processes == [parent : {"none", "alive", "exited"}, others : BOOLEAN, closed : BOOLEAN,
              zero : BOOLEAN, signal : {"none", "TERM", "KILL"}]
Runners == [win : BOOLEAN, begun : BOOLEAN, cancelled : BOOLEAN, timedOut : BOOLEAN,
            error : BOOLEAN, uncertain : BOOLEAN, killFired : BOOLEAN, settled : BOOLEAN]

ValTyped ==
    /\ ValTypeOK
    /\ proc \in Processes /\ runner \in Runners
    /\ active = None <=> active.run = 0

\* The open row is the last one; a row that moved stays as it was.
RowsInOrder ==
    /\ active.run # 0 => /\ active.run = Len(valRows)
                         /\ valRows[active.run].status \notin Final
    /\ OpenRowsAreActive

\* A signal is sent before its runner gives up.
GroupInOrder ==
    /\ runner.killFired => runner.begun
    /\ runner.killFired /\ GroupAlive => proc.signal = "KILL"
    /\ valStep = "checking" => proc = NoProc /\ runner = NewRunner
    /\ \/ valStep = "collecting"
       \/ valStep = "running" /\ runner.settled
       => (GroupAlive => runner.uncertain /\ proc.signal = "KILL")
    /\ EndedGroupsAreGone

ValInv == ValTyped /\ RowsInOrder /\ GroupInOrder /\ CancelledIsNotPassed

\* A step that leaves the slot and the rows alone.
SlotFrame ==
    /\ UNCHANGED <<active, valStep, valRows>>
    /\ manifest' \in [Names -> Texts] /\ stackEvidence' \in [Names -> Texts]
    /\ {pipelineDisposed', trusted'} \subseteq BOOLEAN

LEMMA TypedFrame ==
    ASSUME ValTyped, SlotFrame, aborted' \in BOOLEAN, proc' \in Processes, runner' \in Runners
    PROVE  ValTyped'
BY DEF ValTyped, SlotFrame, ValTypeOK, Processes

\* What a step that changes rows or slot has to keep.
LEMMA TypedStep ==
    ASSUME ValTyped, UNCHANGED <<stackEvidence, manifest, pipelineDisposed, trusted>>,
           valRows' \in Seq(RunRows), active'.run \in 0..Len(valRows'),
           active' = None <=> active'.run = 0, active' = None <=> valStep' = "idle",
           valStep' \in {"idle", "checking", "running", "collecting"},
           aborted' \in BOOLEAN, proc' \in Processes, runner' \in Runners
    PROVE  ValTyped'
BY DEF ValTyped, ValTypeOK, Processes

\* The signal that begins the end, or one more reason for it.
LEMMA TerminateStep ==
    ASSUME ValTyped, GroupInOrder, Running, NEW reason \in {"cancelled", "timedOut", "error"},
           NEW p \in Processes, p.parent = proc.parent, p.others = proc.others,
           p.signal = proc.signal, Terminate(reason, p), valStep' = valStep
    PROVE  proc' \in Processes /\ runner' \in Runners /\ GroupInOrder'
<1> USE DEF ValTyped
<1> DEFINE noted == [runner EXCEPT ![reason] = TRUE]
<1>1. /\ noted \in Runners /\ noted.killFired = runner.killFired /\ noted.win = runner.win
      /\ noted.begun = runner.begun /\ ~noted.settled
  BY DEF Runners, Running
<1>2. CASE runner.begun
  <2>1. runner' = noted /\ proc' = p
    BY <1>2 DEF Terminate
  <2> QED  BY <1>1, <2>1 DEF GroupInOrder, GroupAlive, Running, EndedGroupsAreGone
<1>3. CASE ~runner.begun
  <2>1. /\ runner' = Settle([noted EXCEPT !.begun = TRUE], p)
        /\ proc' = Signal(p, "TERM")
    BY <1>3 DEF Terminate
  <2>2. /\ runner' \in Runners /\ runner'.begun /\ ~runner'.killFired
        /\ runner'.win = runner.win /\ (runner'.settled => ~GroupAlive)
    <3> HIDE DEF noted
    <3>1. ~runner.killFired
      BY <1>3 DEF GroupInOrder
    <3>2. runner' = [[noted EXCEPT !.begun = TRUE] EXCEPT !.settled = p.closed /\ ~GroupAlive]
      BY <2>1 DEF Settle
    <3>3. (p.closed /\ ~GroupAlive) \in BOOLEAN
      BY DEF Processes
    <3> QED  BY <1>1, <3>1, <3>2, <3>3 DEF Runners
  <2>3. proc' \in Processes /\ proc'.parent = proc.parent /\ proc'.others = proc.others
    BY <2>1 DEF Signal, Processes
  <2> QED  BY <2>2, <2>3 DEF GroupInOrder, GroupAlive, Running, EndedGroupsAreGone
<1> QED  BY <1>2, <1>3

\* The steps of the runner and of the command it runs.
LEMMA RunnerStep ==
    ASSUME ValInv, valStep' = valStep,
           \/ /\ Running
              /\ \/ TimeoutFires \/ KillFires \/ UncertainFires \/ Closed
                 \/ Terminate("cancelled", proc)
           \/ UNCHANGED <<proc, runner, valRows>>
           \/ \E zero \in BOOLEAN : ParentExits(zero)
           \/ Forks \/ DescendantsExit
    PROVE  proc' \in Processes /\ runner' \in Runners /\ GroupInOrder'
<1> USE DEF ValInv, ValTyped
<1>1. CASE UNCHANGED <<proc, runner, valRows>>
  BY <1>1 DEF GroupInOrder, GroupAlive, EndedGroupsAreGone
<1>2. ASSUME Running, Terminate("cancelled", proc) \/ TimeoutFires
      PROVE  proc' \in Processes /\ runner' \in Runners /\ GroupInOrder'
  BY <1>2, TerminateStep DEF TimeoutFires
<1>3. ASSUME Running, KillFires
      PROVE  proc' \in Processes /\ runner' \in Runners /\ GroupInOrder'
  <2>1. /\ runner.begun /\ proc' = Signal(proc, "KILL")
        /\ runner' = [[runner EXCEPT !.killFired = TRUE]
                          EXCEPT !.settled = proc.closed /\ ~GroupAlive]
    BY <1>3 DEF KillFires, Settle
  <2>2. (proc.closed /\ ~GroupAlive) \in BOOLEAN
    BY DEF Processes
  <2>3. /\ runner' \in Runners /\ runner'.begun /\ runner'.win = runner.win
        /\ runner'.settled => ~GroupAlive
    BY <2>1, <2>2 DEF Runners
  <2>4. /\ proc' \in Processes /\ proc'.parent = proc.parent /\ proc'.others = proc.others
        /\ GroupAlive => proc'.signal = "KILL"
    BY <2>1 DEF Signal, Processes
  <2> QED  BY <1>3, <2>3, <2>4 DEF GroupInOrder, GroupAlive, Running, EndedGroupsAreGone
<1>4. ASSUME Running, UncertainFires
      PROVE  proc' \in Processes /\ runner' \in Runners /\ GroupInOrder'
  <2>1. /\ runner.killFired /\ proc' = proc
        /\ runner' = [runner EXCEPT !.uncertain = TRUE, !.error = TRUE, !.settled = TRUE]
    BY <1>4 DEF UncertainFires
  <2>2. /\ runner' \in Runners /\ runner'.begun = runner.begun /\ runner'.uncertain
        /\ runner'.win = runner.win
    BY <2>1 DEF Runners
  <2> QED  BY <1>4, <2>1, <2>2 DEF GroupInOrder, GroupAlive, Running, EndedGroupsAreGone
<1>5. ASSUME Running, Closed
      PROVE  proc' \in Processes /\ runner' \in Runners /\ GroupInOrder'
  <2> DEFINE p == [proc EXCEPT !.closed = TRUE]
  <2>1. /\ p \in Processes /\ p.parent = proc.parent /\ p.others = proc.others
        /\ p.signal = proc.signal
    BY DEF Processes
  <2>2. CASE Terminate("error", p)
    <3> HIDE DEF p
    <3> QED  BY <1>5, <2>1, <2>2, TerminateStep
  <2>3. CASE /\ runner' = [runner EXCEPT !.uncertain = runner.begun /\ runner.win,
                                         !.settled = ~GroupAlive]
             /\ proc' = p
    <3>1. (runner.begun /\ runner.win) \in BOOLEAN /\ (~GroupAlive) \in BOOLEAN
      BY DEF Runners
    <3>2. /\ runner' \in Runners /\ runner'.win = runner.win /\ runner'.begun = runner.begun
          /\ runner'.killFired = runner.killFired /\ (runner'.settled => ~GroupAlive)
      BY <2>3, <3>1 DEF Runners
    <3> HIDE DEF p
    <3> QED
      BY <1>5, <2>1, <2>3, <3>2 DEF GroupInOrder, GroupAlive, Running, EndedGroupsAreGone
  <2> QED  BY <1>5, <2>2, <2>3 DEF Closed
<1>6. ASSUME (\E zero \in BOOLEAN : ParentExits(zero)) \/ Forks \/ DescendantsExit
      PROVE  proc' \in Processes /\ runner' \in Runners /\ GroupInOrder'
  <2>1. /\ proc' \in Processes /\ proc'.signal = proc.signal
        /\ proc.parent = "alive" \/ proc.others
        /\ proc'.parent = "alive" => proc.parent = "alive"
        /\ UNCHANGED <<runner, valRows>>
    BY <1>6 DEF ParentExits, Forks, DescendantsExit, RunnerOnly, Processes
  <2>2. GroupAlive' => GroupAlive
    BY <2>1 DEF GroupAlive
  <2>3. proc # NoProc
    BY <2>1 DEF NoProc
  <2> QED  BY <2>1, <2>2, <2>3 DEF GroupInOrder, EndedGroupsAreGone
<1> QED  BY <1>1, <1>2, <1>3, <1>4, <1>5, <1>6

\* The rows of an ended run, whoever ends it, and those of others.
LEMMA SaveKeeps ==
    ASSUME NEW rows \in Seq(RunRows), NEW id \in DOMAIN rows,
           NEW status \in Final \cup {"queued", "running"}
    PROVE  /\ Save(rows, id, status) \in Seq(RunRows)
           /\ Len(Save(rows, id, status)) = Len(rows)
           /\ \A i \in 1..Len(rows) :
                 /\ Save(rows, id, status)[i].moved = rows[i].moved
                 /\ Save(rows, id, status)[i].status =
                       IF i = id /\ ~rows[i].moved THEN status ELSE rows[i].status
<1>1. CASE rows[id].moved
  BY <1>1 DEF Save
<1>2. CASE ~rows[id].moved
  <2>1. Save(rows, id, status) = [rows EXCEPT ![id].status = status]
    BY <1>2 DEF Save
  <2>2. \A i \in 1..Len(rows) : rows[i] \in RunRows
    OBVIOUS
  <2>3. [rows[id] EXCEPT !.status = status] \in RunRows
    BY <2>2 DEF RunRows
  <2>4. Save(rows, id, status) = [rows EXCEPT ![id] = [rows[id] EXCEPT !.status = status]]
    BY <2>1
  <2> QED  BY <1>2, <2>2, <2>3, <2>4 DEF RunRows
<1> QED  BY <1>1, <1>2

\* The slot is free again, and nothing of the run is alive.
LEMMA EndRunStep ==
    ASSUME ValInv, NEW status \in Final, EndRun(status), active.run # 0,
           status = "passed" => ~aborted, UNCHANGED <<proc, runner, aborted>>,
           proc = NoProc, runner = NewRunner,
           UNCHANGED <<stackEvidence, manifest, pipelineDisposed, trusted>>
    PROVE  ValInv'
<1> USE DEF ValInv
<1>1. /\ valRows \in Seq(RunRows) /\ active.run \in DOMAIN valRows
      /\ active.run = Len(valRows)
  BY DEF ValTyped, ValTypeOK, RowsInOrder
<1>2. /\ valRows' = Save(valRows, active.run, status)
      /\ active' = None /\ active'.run = 0 /\ valStep' = "idle"
  BY DEF EndRun, None
<1>3. /\ valRows' \in Seq(RunRows) /\ Len(valRows') = Len(valRows)
      /\ \A i \in DOMAIN valRows :
            /\ valRows'[i].moved = valRows[i].moved
            /\ valRows'[i].status = IF i = active.run /\ ~valRows[i].moved
                                    THEN status ELSE valRows[i].status
  <2>1. status \in Final \cup {"queued", "running"} /\ DOMAIN valRows = 1..Len(valRows)
    BY <1>1
  <2> DEFINE saved == Save(valRows, active.run, status)
  <2>2. /\ saved \in Seq(RunRows) /\ Len(saved) = Len(valRows)
        /\ \A i \in 1..Len(valRows) :
              /\ saved[i].moved = valRows[i].moved
              /\ saved[i].status = IF i = active.run /\ ~valRows[i].moved
                                    THEN status ELSE valRows[i].status
    BY <1>1, <2>1, SaveKeeps
  <2>3. valRows' = saved
    BY <1>2
  <2> HIDE DEF saved
  <2> QED  BY <2>1, <2>2, <2>3
<1>4. ValTyped'
  <2>1. active'.run \in 0..Len(valRows')
    BY <1>2, <1>3
  <2>2. aborted' \in BOOLEAN /\ proc' \in Processes /\ runner' \in Runners
    BY DEF ValTyped, ValTypeOK
  <2> QED  BY <1>2, <1>3, <2>1, <2>2, TypedStep
<1>5. RowsInOrder'
  BY <1>1, <1>2, <1>3 DEF RowsInOrder, OpenRowsAreActive
<1>6. GroupInOrder'
  BY <1>2 DEF GroupInOrder, GroupAlive, NoProc, NewRunner, EndedGroupsAreGone
<1>7. CancelledIsNotPassed'
  BY DEF CancelledIsNotPassed, NoProc
<1> QED  BY <1>4, <1>5, <1>6, <1>7

\* What such a step may do to the abort and to the process group.
LEMMA RowsFrame ==
    ASSUME ValInv, SlotFrame, aborted' \in BOOLEAN, proc' \in Processes,
           runner' \in Runners, GroupInOrder',
           active = None => aborted' = aborted /\ (proc'.parent # "none" => proc.parent # "none")
    PROVE  ValInv'
<1>1. ValTyped' /\ RowsInOrder'
  BY TypedFrame DEF ValInv, SlotFrame, RowsInOrder, OpenRowsAreActive
<1>2. CancelledIsNotPassed'
  BY DEF ValInv, SlotFrame, CancelledIsNotPassed
<1> QED  BY <1>1, <1>2 DEF ValInv

LEMMA RunStep ==
    ASSUME ValInv, NEW kind \in Kinds, Run(kind)
    PROVE  ValInv'
<1> USE DEF ValInv
<1> DEFINE plan == Plan(stackEvidence, kind)
           id   == Len(valRows) + 1
<1>1. /\ valRows \in Seq(RunRows) /\ active = None /\ active.run = 0 /\ valStep = "idle"
      /\ UNCHANGED <<stackEvidence, manifest, pipelineDisposed, trusted>>
  BY DEF Run, ValTyped, ValTypeOK
<1>2. CASE StopsAtOnce(plan)
  <2>1. /\ valRows' = Append(valRows, RunRow("blocked"))
        /\ UNCHANGED <<active, valStep, aborted, proc, runner>>
    BY <1>2 DEF Run
  <2>2. RunRow("blocked") \in RunRows /\ RunRow("blocked").status = "blocked"
    BY DEF RunRow, RunRows, Final
  <2>3. /\ valRows' \in Seq(RunRows) /\ Len(valRows') = Len(valRows) + 1
        /\ valRows'[Len(valRows')].status = "blocked"
        /\ \A i \in DOMAIN valRows : i \in DOMAIN valRows' /\ valRows'[i] = valRows[i]
        /\ \A i \in DOMAIN valRows' : i \in DOMAIN valRows \/ i = Len(valRows')
    BY <1>1, <2>1, <2>2
  <2>4. ValTyped'
    <3>1. active'.run \in 0..Len(valRows')
      BY <1>1, <2>1, <2>3
    <3>2. /\ aborted' \in BOOLEAN /\ proc' \in Processes /\ runner' \in Runners
          /\ active' = None /\ active'.run = 0 /\ valStep' = "idle"
      BY <1>1, <2>1 DEF ValTyped, ValTypeOK
    <3> QED  BY <1>1, <2>3, <3>1, <3>2, TypedStep
  <2>5. RowsInOrder'
    BY <1>1, <2>1, <2>3 DEF RowsInOrder, OpenRowsAreActive, Final
  <2>6. GroupInOrder'
    BY <1>1, <2>1, <2>3 DEF GroupInOrder, GroupAlive, EndedGroupsAreGone
  <2>7. CancelledIsNotPassed'
    BY <2>3 DEF CancelledIsNotPassed
  <2> QED  BY <2>4, <2>5, <2>6, <2>7
<1>3. CASE ~StopsAtOnce(plan)
  <2>1. /\ valRows' = Append(valRows, RunRow("queued"))
        /\ active'.run = id /\ active' # None
        /\ valStep' = "checking" /\ aborted' = FALSE
        /\ proc' = NoProc /\ runner' = NewRunner
    BY <1>1, <1>3 DEF Run, None
  <2>2. RunRow("queued") \in RunRows /\ RunRow("queued").status = "queued"
    BY DEF RunRow, RunRows
  <2>3. /\ valRows' \in Seq(RunRows) /\ Len(valRows') = id
        /\ valRows'[id].status = "queued"
        /\ \A i \in DOMAIN valRows' : i = id \/ (i \in DOMAIN valRows /\ valRows'[i] = valRows[i])
    BY <1>1, <2>1, <2>2
  <2>4. NoProc \in Processes /\ NewRunner \in Runners
    BY DEF NoProc, NewRunner, Processes, Runners
  <2>5. ValTyped'
    <3>1. active'.run \in 0..Len(valRows') /\ active'.run # 0
      BY <1>1, <2>1, <2>3
    <3> HIDE DEF id
    <3> QED  BY <1>1, <2>1, <2>3, <2>4, <3>1, TypedStep
  <2>6. RowsInOrder'
    BY <1>1, <2>1, <2>3 DEF RowsInOrder, OpenRowsAreActive, Final
  <2>7. GroupInOrder'
    BY <2>1 DEF GroupInOrder, GroupAlive, NoProc, NewRunner, EndedGroupsAreGone
  <2>8. CancelledIsNotPassed'
    BY <2>1 DEF CancelledIsNotPassed
  <2> QED  BY <2>5, <2>6, <2>7, <2>8
<1> QED  BY <1>2, <1>3

LEMMA RevalidatedStep ==
    ASSUME ValInv, NEW windows \in BOOLEAN, NEW spawns \in BOOLEAN, Revalidated(windows, spawns)
    PROVE  ValInv'
<1> USE DEF ValInv
<1>1. /\ valStep = "checking" /\ proc = NoProc /\ runner = NewRunner /\ active.run # 0
      /\ UNCHANGED <<stackEvidence, manifest, aborted, pipelineDisposed, trusted>>
      /\ active # None
  BY DEF Revalidated, GroupInOrder, ValTyped, ValTypeOK
<1>2. ASSUME NEW status \in {"blocked", "cancelled"}, EndRun(status), UNCHANGED <<proc, runner>>
      PROVE  ValInv'
  BY <1>1, <1>2, EndRunStep DEF Final
<1>3. CASE /\ valRows' = Save(valRows, active.run, "running")
           /\ valStep' = "running"
           /\ proc' = IF spawns THEN [NoProc EXCEPT !.parent = "alive"] ELSE NoProc
           /\ runner' = [NewRunner EXCEPT !.win = windows, !.error = ~spawns, !.settled = ~spawns]
           /\ UNCHANGED active
  <2>1. /\ valRows \in Seq(RunRows) /\ active.run \in DOMAIN valRows
        /\ active.run = Len(valRows)
    BY <1>1 DEF ValTyped, ValTypeOK, RowsInOrder
  <2>2. /\ valRows' \in Seq(RunRows) /\ Len(valRows') = Len(valRows)
        /\ \A i \in DOMAIN valRows :
              /\ valRows'[i].moved = valRows[i].moved
              /\ valRows'[i].status = IF i = active.run /\ ~valRows[i].moved
                                      THEN "running" ELSE valRows[i].status
    BY <1>3, <2>1, SaveKeeps
  <2>3. (~spawns) \in BOOLEAN
    OBVIOUS
  <2>4. /\ runner' \in Runners /\ ~runner'.killFired
        /\ runner'.settled => proc' = NoProc
    BY <1>3, <2>3 DEF NewRunner, Runners
  <2>5. proc' \in Processes
    BY <1>3 DEF NoProc, Processes
  <2>6. ValTyped'
    BY <1>1, <1>3, <2>2, <2>4, <2>5 DEF ValTyped, ValTypeOK, Processes
  <2>7. RowsInOrder'
    BY <1>1, <1>3, <2>1, <2>2 DEF RowsInOrder, OpenRowsAreActive, Final
  <2>8. GroupInOrder'
    BY <1>3, <2>4 DEF GroupInOrder, GroupAlive, NoProc, EndedGroupsAreGone
  <2>9. CancelledIsNotPassed'
    BY <1>1, <1>3 DEF CancelledIsNotPassed
  <2> QED  BY <2>6, <2>7, <2>8, <2>9
<1> QED  BY <1>2, <1>3 DEF Revalidated

\* The runner resolves, and the run is stored with its outcome.
LEMMA ResolvedStep ==
    ASSUME ValInv, Resolved
    PROVE  ValInv'
<1> USE DEF ValInv
<1>1. /\ valStep = "running" /\ runner.settled /\ valStep' = "collecting"
      /\ UNCHANGED <<stackEvidence, manifest, active, aborted, pipelineDisposed, trusted, valRows,
                     proc, runner>>
  BY DEF Resolved
<1>2. ValTyped'
  BY <1>1 DEF ValTyped, ValTypeOK
<1>3. RowsInOrder' /\ CancelledIsNotPassed'
  BY <1>1 DEF RowsInOrder, OpenRowsAreActive, CancelledIsNotPassed
<1>4. GroupInOrder'
  BY <1>1 DEF GroupInOrder, GroupAlive, EndedGroupsAreGone
<1> QED  BY <1>2, <1>3, <1>4

LEMMA CollectedStep ==
    ASSUME ValInv, Collected
    PROVE  ValInv'
<1> USE DEF ValInv
<1> DEFINE id == active.run
           rows == Save(valRows, id, Outcome)
<1>1. /\ valStep = "collecting" /\ id # 0 /\ valRows \in Seq(RunRows)
      /\ id = Len(valRows) /\ id \in DOMAIN valRows /\ DOMAIN valRows = 1..Len(valRows)
      /\ GroupAlive => runner.uncertain /\ proc.signal = "KILL"
  BY DEF Collected, ValTyped, ValTypeOK, RowsInOrder, GroupInOrder
<1>2. /\ valRows' = IF rows[id].moved THEN rows
                    ELSE [rows EXCEPT ![id].uncertain = runner.uncertain]
      /\ active' = None /\ active'.run = 0 /\ valStep' = "idle"
      /\ UNCHANGED <<stackEvidence, manifest, aborted, pipelineDisposed, trusted, proc, runner>>
  BY DEF Collected, None
<1>3. /\ Outcome \in Final /\ Outcome \in Final \cup {"queued", "running"}
      /\ aborted => Outcome # "passed"
      /\ runner.uncertain => Outcome = "failed"
  BY DEF Outcome, Final
<1>4. /\ rows \in Seq(RunRows) /\ Len(rows) = Len(valRows)
      /\ \A i \in 1..Len(valRows) :
            /\ rows[i].moved = valRows[i].moved
            /\ rows[i].status = IF i = id /\ ~valRows[i].moved THEN Outcome
                                ELSE valRows[i].status
  <2> HIDE DEF id
  <2>1. ASSUME NEW out \in Final \cup {"queued", "running"}, NEW n \in DOMAIN valRows
        PROVE  LET saved == Save(valRows, n, out)
               IN  /\ saved \in Seq(RunRows) /\ Len(saved) = Len(valRows)
                   /\ \A i \in 1..Len(valRows) :
                         /\ saved[i].moved = valRows[i].moved
                         /\ saved[i].status = IF i = n /\ ~valRows[i].moved THEN out
                                              ELSE valRows[i].status
    BY <1>1, SaveKeeps
  <2> QED  BY <1>1, <1>3, <2>1
<1>5. /\ valRows' \in Seq(RunRows) /\ Len(valRows') = Len(valRows)
      /\ \A i \in 1..Len(valRows) :
            /\ valRows'[i].moved = rows[i].moved /\ valRows'[i].status = rows[i].status
            /\ i = id /\ ~valRows'[i].moved => valRows'[i].uncertain = runner.uncertain
  <2> HIDE DEF rows, id
  <2>1. rows[id] \in RunRows /\ runner.uncertain \in BOOLEAN /\ DOMAIN rows = 1..Len(rows)
    <3>1. runner.uncertain \in BOOLEAN
      BY DEF ValInv, ValTyped, Runners
    <3>2. id \in 1..Len(rows)
      BY <1>1, <1>4
    <3> QED  BY <1>4, <3>1, <3>2
  <2>2. [rows[id] EXCEPT !.uncertain = runner.uncertain] \in RunRows
    BY <2>1 DEF RunRows
  <2>3. valRows' = IF rows[id].moved THEN rows
                   ELSE [rows EXCEPT ![id] = [rows[id] EXCEPT !.uncertain = runner.uncertain]]
    BY <1>2
  <2>4. /\ [rows[id] EXCEPT !.uncertain = runner.uncertain].moved = rows[id].moved
        /\ [rows[id] EXCEPT !.uncertain = runner.uncertain].status = rows[id].status
        /\ [rows[id] EXCEPT !.uncertain = runner.uncertain].uncertain = runner.uncertain
    BY <2>1 DEF RunRows
  <2>5. CASE rows[id].moved
    BY <1>1, <1>4, <2>1, <2>3, <2>5
  <2>6. CASE ~rows[id].moved
    BY <1>1, <1>4, <2>1, <2>2, <2>3, <2>4, <2>6
  <2> QED  BY <2>5, <2>6
<1> HIDE DEF rows
<1>6. ValTyped'
  <2>1. active'.run \in 0..Len(valRows')
    BY <1>2, <1>5
  <2>2. aborted' \in BOOLEAN /\ proc' \in Processes /\ runner' \in Runners
    BY <1>2 DEF ValTyped, ValTypeOK
  <2> QED  BY <1>2, <1>5, <2>1, <2>2, TypedStep
<1>7. DOMAIN valRows' = 1..Len(valRows)
  BY <1>5
<1>8. RowsInOrder'
  BY <1>1, <1>2, <1>3, <1>4, <1>5, <1>7 DEF RowsInOrder, OpenRowsAreActive
<1>9. GroupInOrder'
  <2>1. GroupAlive' = GroupAlive
    BY <1>2 DEF GroupAlive
  <2>2. valRows'[id].moved \/ (valRows'[id].uncertain = runner.uncertain
                                  /\ valRows'[id].status = Outcome)
    BY <1>1, <1>4, <1>5
  <2>3. EndedGroupsAreGone'
    BY <1>1, <1>2, <1>3, <1>7, <2>1, <2>2 DEF EndedGroupsAreGone
  <2> QED  BY <1>2, <2>1, <2>3 DEF GroupInOrder
<1>10. CancelledIsNotPassed'
  <2>1. ASSUME aborted PROVE valRows'[Len(valRows')].status # "passed"
    <3>1. CASE valRows[id].moved
      <4>1. valRows[id].status \notin Final
        BY <1>1 DEF RowsInOrder
      <4>2. valRows'[id].status = valRows[id].status
        BY <1>1, <1>4, <1>5, <3>1
      <4> QED  BY <1>1, <1>5, <4>1, <4>2 DEF Final
    <3>2. CASE ~valRows[id].moved
      BY <1>1, <1>3, <1>4, <1>5, <2>1, <3>2
    <3> QED  BY <3>1, <3>2
  <2> QED  BY <1>2, <2>1 DEF CancelledIsNotPassed
<1> QED  BY <1>6, <1>8, <1>9, <1>10

LEMMA RelocateStep ==
    ASSUME ValInv, Relocate
    PROVE  ValInv'
<1> USE DEF ValInv
<1>1. /\ valRows \in Seq(RunRows) /\ trusted' = FALSE
      /\ valRows' = [i \in DOMAIN valRows |-> [valRows[i] EXCEPT !.moved = TRUE]]
      /\ UNCHANGED <<stackEvidence, manifest, active, valStep, aborted, pipelineDisposed, proc,
                     runner>>
  BY DEF Relocate, ValTyped, ValTypeOK
<1>2. \A i \in 1..Len(valRows) :
          LET row == [valRows[i] EXCEPT !.moved = TRUE]
          IN  row \in RunRows /\ row.moved /\ row.status = valRows[i].status
  <2>1. \A r \in RunRows : LET row == [r EXCEPT !.moved = TRUE]
                           IN  row \in RunRows /\ row.moved /\ row.status = r.status
    BY DEF RunRows
  <2>2. \A i \in 1..Len(valRows) : valRows[i] \in RunRows
    BY <1>1
  <2> QED  BY <2>1, <2>2
<1>3. /\ valRows' \in Seq(RunRows) /\ Len(valRows') = Len(valRows)
      /\ \A i \in 1..Len(valRows) : valRows'[i].moved /\ valRows'[i].status = valRows[i].status
      /\ DOMAIN valRows' = DOMAIN valRows /\ DOMAIN valRows = 1..Len(valRows)
  <2>1. DOMAIN valRows = 1..Len(valRows) /\ Len(valRows) \in Nat
    BY <1>1
  <2>2. valRows' = [i \in 1..Len(valRows) |-> [valRows[i] EXCEPT !.moved = TRUE]]
    BY <1>1, <2>1
  <2>3. valRows' \in [1..Len(valRows) -> RunRows]
    BY <1>2, <2>2
  <2>4. valRows' \in Seq(RunRows) /\ Len(valRows') = Len(valRows)
    BY <2>1, <2>3
  <2> QED  BY <1>2, <2>1, <2>2, <2>4
<1>4. ValTyped'
  BY <1>1, <1>3 DEF ValTyped, ValTypeOK
<1>5. RowsInOrder'
  BY <1>1, <1>3 DEF RowsInOrder, OpenRowsAreActive, ValTyped, ValTypeOK
<1>6. GroupInOrder'
  BY <1>1, <1>3 DEF GroupInOrder, GroupAlive, EndedGroupsAreGone
<1>7. CancelledIsNotPassed'
  BY <1>1, <1>3 DEF CancelledIsNotPassed
<1> QED  BY <1>4, <1>5, <1>6, <1>7
\* The steps that leave the slot and the rows alone.
LEMMA AbortStep ==
    ASSUME ValInv, active # None, Abort, SlotFrame
    PROVE  ValInv'
<1>1. proc' \in Processes /\ runner' \in Runners /\ GroupInOrder'
  <2>1. CASE Running /\ ~aborted
    BY <2>1, RunnerStep DEF Abort, SlotFrame
  <2>2. CASE ~(Running /\ ~aborted)
    BY <2>2, RunnerStep DEF Abort, SlotFrame
  <2> QED  BY <2>1, <2>2
<1> QED  BY <1>1, RowsFrame DEF Abort

LEMMA SlotStep ==
    ASSUME ValInv,
           \/ Cancel \/ Dispose \/ Closed \/ TimeoutFires \/ KillFires \/ UncertainFires
           \/ \E zero \in BOOLEAN : ParentExits(zero)
           \/ Forks \/ DescendantsExit
           \/ \E n \in Names, text \in Texts : EditManifest(n, text)
           \/ Reindex \/ Revoke \/ UNCHANGED valVars
    PROVE  ValInv'
<1> USE DEF ValInv
<1>1. /\ manifest \in [Names -> Texts] /\ stackEvidence \in [Names -> Texts]
      /\ aborted \in BOOLEAN /\ pipelineDisposed \in BOOLEAN /\ trusted \in BOOLEAN
      /\ active = None <=> valStep = "idle"
  BY DEF ValTyped, ValTypeOK
<1>2. ASSUME UNCHANGED <<proc, runner>>, SlotFrame, aborted' \in BOOLEAN,
             active = None => aborted' = aborted
      PROVE  ValInv'
  <2>1. proc' \in Processes /\ runner' \in Runners /\ GroupInOrder'
    BY <1>2, RunnerStep DEF SlotFrame
  <2> QED  BY <1>2, <2>1, RowsFrame
<1>3. CASE Cancel
  BY <1>1, <1>3, AbortStep DEF Cancel, SlotFrame
<1>4. CASE Dispose
  <2>1. CASE active # None
    BY <1>1, <1>4, <2>1, AbortStep DEF Dispose, SlotFrame
  <2>2. CASE active = None
    BY <1>1, <1>2, <1>4, <2>2 DEF Dispose, SlotFrame
  <2> QED  BY <2>1, <2>2
<1>5. CASE Closed \/ TimeoutFires \/ KillFires \/ UncertainFires
  <2>1. Running /\ RunnerOnly
    BY <1>5 DEF Closed, TimeoutFires, KillFires, UncertainFires
  <2>2. SlotFrame /\ aborted' \in BOOLEAN /\ active # None /\ valStep' = valStep
    BY <1>1, <2>1 DEF RunnerOnly, SlotFrame, Running
  <2>3. proc' \in Processes /\ runner' \in Runners /\ GroupInOrder'
    BY <1>5, <2>1, <2>2, RunnerStep
  <2> QED  BY <2>2, <2>3, RowsFrame
<1>6. CASE (\E zero \in BOOLEAN : ParentExits(zero)) \/ Forks \/ DescendantsExit
  <2>1. RunnerOnly /\ (proc'.parent # "none" => proc.parent # "none")
    BY <1>6 DEF ParentExits, Forks, DescendantsExit, ValTyped, Processes
  <2>2. SlotFrame /\ aborted' \in BOOLEAN /\ aborted' = aborted /\ valStep' = valStep
    BY <1>1, <2>1 DEF RunnerOnly, SlotFrame
  <2>3. proc' \in Processes /\ runner' \in Runners /\ GroupInOrder'
    BY <1>6, <2>2, RunnerStep
  <2> QED  BY <2>1, <2>2, <2>3, RowsFrame
<1>7. CASE \E n \in Names, text \in Texts : EditManifest(n, text)
  BY <1>1, <1>2, <1>7 DEF EditManifest, SlotFrame
<1>8. CASE Reindex \/ Revoke \/ UNCHANGED valVars
  BY <1>1, <1>2, <1>8 DEF Reindex, Revoke, valVars, SlotFrame
<1> QED  BY <1>3, <1>4, <1>5, <1>6, <1>7, <1>8

LEMMA ValStep ==
    ASSUME ValInv, [ValNext]_valVars
    PROVE  ValInv'
<1>1. CASE \E kind \in Kinds : Run(kind)
  BY <1>1, RunStep
<1>2. CASE ValWork
  BY <1>2, RevalidatedStep, ResolvedStep, CollectedStep, SlotStep DEF ValWork
<1>3. CASE Relocate
  BY <1>3, RelocateStep
<1>4. CASE \/ Cancel \/ Dispose \/ Forks \/ DescendantsExit \/ Reindex \/ Revoke
           \/ \E zero \in BOOLEAN : ParentExits(zero)
           \/ \E n \in Names, text \in Texts : EditManifest(n, text)
           \/ UNCHANGED valVars
  BY <1>4, SlotStep
<1> QED  BY <1>1, <1>2, <1>3, <1>4 DEF ValNext

\* Every row but that of the run under way is final.  Of a run that ended, no
\* process lives on, unless its group was sent SIGKILL and the row says that
\* its end could not be confirmed.  A run that was asked to stop is not stored
\* as passed (ValidationPipeline.execute, CancellableProcessRunner.run).
THEOREM RunsEndTruthfully ==
    ValSpec => [](ValTypeOK /\ OpenRowsAreActive /\ EndedGroupsAreGone /\ CancelledIsNotPassed)
<1>1. ValInit => ValInv
  <2> SUFFICES ASSUME ValInit PROVE ValInv
    OBVIOUS
  <2>1. /\ manifest \in [Names -> Texts] /\ stackEvidence = manifest
        /\ active = None /\ active.run = 0 /\ valStep = "idle"
        /\ aborted = FALSE /\ pipelineDisposed = FALSE /\ trusted = TRUE
        /\ valRows = <<>> /\ proc = NoProc /\ runner = NewRunner
    BY DEF ValInit, None, Texts
  <2>2. valRows \in Seq(RunRows) /\ 0 \in 0..Len(valRows) /\ DOMAIN valRows = {}
    BY <2>1
  <2>3. proc \in Processes /\ runner \in Runners
    BY <2>1 DEF NoProc, NewRunner, Processes, Runners
  <2>4. ValTyped
    BY <2>1, <2>2, <2>3 DEF ValTyped, ValTypeOK, Processes
  <2>5. RowsInOrder /\ CancelledIsNotPassed
    BY <2>1, <2>2 DEF RowsInOrder, OpenRowsAreActive, CancelledIsNotPassed
  <2>6. GroupInOrder
    BY <2>1 DEF GroupInOrder, GroupAlive, NoProc, NewRunner, EndedGroupsAreGone
  <2> QED  BY <2>4, <2>5, <2>6 DEF ValInv
<1>2. ValInv /\ [ValNext]_valVars => ValInv'
  BY ValStep
<1>3. ValInv => ValTypeOK /\ OpenRowsAreActive /\ EndedGroupsAreGone /\ CancelledIsNotPassed
  BY DEF ValInv, ValTyped, RowsInOrder, GroupInOrder
<1> QED  BY <1>1, <1>2, <1>3, PTL DEF ValSpec
-----------------------------------------------------------------------------
(* CredentialVault.  Only the first call has begun; until its rename the file  *)
(* has what the answered calls left, after it what it is about to answer for.  *)

Stores == [kind : {"missing", "damaged", "store"}, entries : Entries]
Places == {"waiting", "read", "opening", "writing", "renamed"}
ReferenceSets == SUBSET References
VaultCalls == [op : {"create", "replace", "resolve", "has", "delete", "prune"},
               reference : References, secret : Secrets, allowed : ReferenceSets,
               at : Places, entries : Entries]

\* The first call is at this place.
First(place) == calls # <<>> /\ calls[1].at = place

VaultTyped ==
    /\ credentials \in Stores
    /\ promised \in Entries /\ calls \in Seq(VaultCalls)
    /\ temporaries \in Nat /\ called \in 0..MaxCalls /\ vaultFaults \in 0..MaxVaultFaults

TurnsInOrder ==
    /\ \A i \in 2..Len(calls) : calls[i].at = "waiting"
    /\ ~First("renamed") => ~Readable(credentials) \/ credentials.entries = promised
    /\ First("read") => calls[1].entries = promised
    /\ First("opening") \/ First("writing") => calls[1].entries = Effect(calls[1], promised)
    /\ First("renamed") => \/ ~Readable(credentials)
                           \/ credentials.entries = Effect(calls[1], promised)

\* A call has at most one temporary file, and leaves it only when it is answered.
TemporariesInBounds ==
    /\ temporaries + Len(calls) <= called + (IF First("writing") THEN 1 ELSE 0)
    /\ First("writing") => temporaries >= 1

VaultInv == VaultTyped /\ TurnsInOrder /\ TemporariesInBounds

\* A call moves on: only its place and the entries it has read change.
Moved(c, e, place) == [c EXCEPT !.entries = e, !.at = place]

LEMMA CallMoves ==
    ASSUME NEW c \in VaultCalls, NEW e \in Entries,
           NEW place \in Places
    PROVE  LET d == Moved(c, e, place)
           IN  /\ d \in VaultCalls /\ d.at = place /\ d.entries = e
               /\ d.op = c.op /\ d.reference = c.reference /\ d.secret = c.secret
               /\ d.allowed = c.allowed
<1>1. Moved(c, e, place) \in VaultCalls
  BY DEF VaultCalls, Moved
<1>2. Moved(c, e, place).at = place /\ Moved(c, e, place).entries = e
  BY DEF VaultCalls, Moved
<1>3. /\ Moved(c, e, place).op = c.op /\ Moved(c, e, place).reference = c.reference
      /\ Moved(c, e, place).secret = c.secret /\ Moved(c, e, place).allowed = c.allowed
  BY DEF VaultCalls, Moved
<1> QED  BY <1>1, <1>2, <1>3

\* What a call leaves are entries again.
LEMMA EffectTyped ==
    ASSUME NEW c \in VaultCalls, NEW e \in Entries
    PROVE  Effect(c, e) \in Entries
<1>1. /\ c.reference \in References /\ c.secret \in Secrets
      /\ DOMAIN e \subseteq References /\ e \in [DOMAIN e -> Secrets]
  BY DEF VaultCalls, Entries
<1>2. ASSUME NEW f, NEW S \in SUBSET References, f \in [S -> Secrets]
      PROVE  f \in Entries
  BY <1>2 DEF Entries
<1>3. \A S : Kept(e, S) \in Entries
  <2> TAKE S
  <2>1. Kept(e, S) \in [DOMAIN e \cap S -> Secrets] /\ DOMAIN e \cap S \in SUBSET References
    BY <1>1 DEF Kept
  <2> QED  BY <1>2, <2>1
<1>4. Stored(e, c.reference, c.secret) \in Entries
  <2>1. /\ Stored(e, c.reference, c.secret) \in [DOMAIN e \cup {c.reference} -> Secrets]
        /\ DOMAIN e \cup {c.reference} \in SUBSET References
    BY <1>1 DEF Stored
  <2> QED  BY <1>2, <2>1
<1> QED  BY <1>3, <1>4 DEF Effect

\* The first call is answered: the next ones move up, and have not begun.
LEMMA AnsweredStep ==
    ASSUME calls \in Seq(VaultCalls), calls # <<>>, Answered(1),
           \A i \in 2..Len(calls) : calls[i].at = "waiting"
    PROVE  /\ calls' \in Seq(VaultCalls) /\ Len(calls') = Len(calls) - 1
           /\ \A i \in 1..Len(calls') : calls'[i].at = "waiting"
           /\ \A place : First(place)' => place = "waiting"
<1>1. /\ Len(calls) \in Nat \ {0} /\ Len(calls) - 1 \in Nat
      /\ \A i \in 1..Len(calls) : calls[i] \in VaultCalls
  OBVIOUS
<1>2. calls' = [k \in 1..(Len(calls) - 1) |-> calls[k + 1]]
  BY <1>1 DEF Answered, Without
<1>3. \A k \in 1..(Len(calls) - 1) : k + 1 \in 2..Len(calls) /\ k + 1 \in 1..Len(calls)
  BY <1>1
<1>4. calls' \in [1..(Len(calls) - 1) -> VaultCalls]
  BY <1>1, <1>2, <1>3
<1>5. calls' \in Seq(VaultCalls) /\ Len(calls') = Len(calls) - 1
  BY <1>1, <1>4
<1>6. \A i \in 1..Len(calls') : calls'[i].at = "waiting"
  BY <1>2, <1>3, <1>5
<1>7. calls' # <<>> => 1 \in 1..Len(calls')
  BY <1>5
<1> QED  BY <1>5, <1>6, <1>7 DEF First

\* The first call is somewhere else, the others wait.
LEMMA MovedStep ==
    ASSUME calls \in Seq(VaultCalls), calls # <<>>, NEW e \in Entries,
           NEW place \in Places,
           calls' = [calls EXCEPT ![1] = Moved(calls[1], e, place)],
           \A i \in 2..Len(calls) : calls[i].at = "waiting"
    PROVE  /\ calls' \in Seq(VaultCalls) /\ Len(calls') = Len(calls) /\ calls' # <<>>
           /\ \A i \in 2..Len(calls') : calls'[i].at = "waiting"
           /\ calls'[1].at = place /\ calls'[1].entries = e
           /\ \A f : Effect(calls'[1], f) = Effect(calls[1], f)
<1> DEFINE d == Moved(calls[1], e, place)
<1>1. 1 \in 1..Len(calls) /\ calls[1] \in VaultCalls
  OBVIOUS
<1>2. /\ d \in VaultCalls /\ d.at = place /\ d.entries = e
      /\ d.op = calls[1].op /\ d.reference = calls[1].reference
      /\ d.secret = calls[1].secret /\ d.allowed = calls[1].allowed
  BY <1>1, CallMoves
<1>3. calls' = [calls EXCEPT ![1] = d]
  OBVIOUS
<1> HIDE DEF d
<1>4. /\ calls' \in Seq(VaultCalls) /\ Len(calls') = Len(calls) /\ calls'[1] = d
      /\ \A i \in 2..Len(calls) : calls'[i] = calls[i]
  <2>1. DOMAIN calls = 1..Len(calls) /\ Len(calls) \in Nat
    OBVIOUS
  <2>2. DOMAIN calls' = 1..Len(calls) /\ calls'[1] = d
        /\ \A i \in 1..Len(calls) : i # 1 => calls'[i] = calls[i]
    BY <1>1, <1>3, <2>1
  <2>3. calls' \in [1..Len(calls) -> VaultCalls]
    BY <1>2, <1>3, <2>1
  <2> QED  BY <2>1, <2>2, <2>3
<1>5. \A f : Effect(d, f) = Effect(calls[1], f)
  BY <1>2 DEF Effect, Refused
<1>6. calls' # <<>> /\ \A i \in 2..Len(calls') : calls'[i].at = "waiting"
  BY <1>1, <1>4
<1> QED  BY <1>2, <1>4, <1>5, <1>6
LEMMA AtMoves ==
    \A c \in VaultCalls, place \in Places : [c EXCEPT !.at = place] = Moved(c, c.entries, place)
BY DEF VaultCalls, Moved

LEMMA NoEntriesTyped == NoEntries \in Entries
<1>1. NoEntries \in [{} -> Secrets] /\ {} \in SUBSET References
  BY DEF NoEntries
<1> QED  BY <1>1 DEF Entries

\* The first call is answered.
LEMMA EndsStep ==
    ASSUME VaultInv, calls # <<>>, Answered(1), UNCHANGED <<credentials, called, vaultFaults>>,
           promised' \in Entries, ~Readable(credentials) \/ credentials.entries = promised',
           temporaries' \in Nat, temporaries' + Len(calls) <= called + 1
    PROVE  VaultInv'
<1>1. /\ calls' \in Seq(VaultCalls) /\ Len(calls') = Len(calls) - 1
      /\ \A i \in 1..Len(calls') : calls'[i].at = "waiting"
      /\ \A place : First(place)' => place = "waiting"
  BY AnsweredStep DEF VaultInv, VaultTyped, TurnsInOrder
<1>2. Len(calls) \in Nat /\ called \in Nat /\ Len(calls') \in Nat
  BY <1>1 DEF VaultInv, VaultTyped
<1>3. ~First("read")' /\ ~First("opening")' /\ ~First("writing")' /\ ~First("renamed")'
  BY <1>1
<1>4. VaultTyped'
  BY <1>1 DEF VaultInv, VaultTyped
<1>5. TurnsInOrder'
  <2>1. \A i \in 2..Len(calls') : calls'[i].at = "waiting"
    BY <1>1, <1>2
  <2> QED  BY <1>3, <2>1 DEF TurnsInOrder
<1>6. TemporariesInBounds'
  BY <1>1, <1>2, <1>3 DEF TemporariesInBounds
<1> QED  BY <1>4, <1>5, <1>6 DEF VaultInv

\* The first call goes on to `place`, with these entries.
GoesOn(e, place) ==
    /\ calls' = [calls EXCEPT ![1] = Moved(calls[1], e, place)]
    /\ UNCHANGED <<called, vaultFaults, promised>>
    /\ credentials' \in Stores
    /\ temporaries' \in Nat
    /\ temporaries' + Len(calls) <= called + (IF place = "writing" THEN 1 ELSE 0)
    /\ place = "writing" => temporaries' >= 1
    /\ place # "renamed" => ~Readable(credentials') \/ credentials'.entries = promised
    /\ place = "read" => e = promised
    /\ place \in {"opening", "writing"} => e = Effect(calls[1], promised)
    /\ place = "renamed" => credentials'.entries = Effect(calls[1], promised)

LEMMA GoesOnStep ==
    ASSUME VaultInv, calls # <<>>, NEW e \in Entries, NEW place \in Places, GoesOn(e, place)
    PROVE  VaultInv'
<1> USE DEF GoesOn
<1>1. /\ calls' \in Seq(VaultCalls) /\ Len(calls') = Len(calls) /\ calls' # <<>>
      /\ \A i \in 2..Len(calls') : calls'[i].at = "waiting"
      /\ calls'[1].at = place /\ calls'[1].entries = e
      /\ \A f : Effect(calls'[1], f) = Effect(calls[1], f)
  BY MovedStep DEF VaultInv, VaultTyped, TurnsInOrder
<1>2. \A p : First(p)' <=> p = place
  BY <1>1 DEF First
<1>3. VaultTyped'
  BY <1>1 DEF VaultInv, VaultTyped
<1>4. TurnsInOrder'
  BY <1>1, <1>2 DEF TurnsInOrder
<1>5. TemporariesInBounds'
  BY <1>1, <1>2 DEF TemporariesInBounds
<1> QED  BY <1>3, <1>4, <1>5 DEF VaultInv

\* A new call waits behind the others.
LEMMA CallStep ==
    ASSUME MaxCalls \in Nat, VaultInv, NEW reference \in References, NEW secret \in Secrets,
           NEW op \in {"create", "replace", "resolve", "has", "delete", "prune"},
           NEW allowed \in SUBSET References, Call(op, reference, secret, allowed)
    PROVE  VaultInv'
<1> DEFINE c == [op |-> op, reference |-> reference, secret |-> secret, allowed |-> allowed,
                 at |-> "waiting", entries |-> NoEntries]
<1>1. c \in VaultCalls /\ c.at = "waiting"
  <2>1. allowed \in ReferenceSets
    BY DEF ReferenceSets
  <2> QED  BY <2>1, NoEntriesTyped DEF VaultCalls, Places
<1>2. /\ calls' = Append(calls, c) /\ called < MaxCalls /\ called' = called + 1
      /\ UNCHANGED <<credentials, temporaries, vaultFaults, promised>>
  BY DEF Call
<1> HIDE DEF c
<1>3. /\ calls \in Seq(VaultCalls) /\ Len(calls) \in Nat /\ called \in 0..MaxCalls
      /\ temporaries \in Nat /\ (calls # <<>> => Len(calls) >= 1)
      /\ DOMAIN calls = 1..Len(calls)
  BY DEF VaultInv, VaultTyped
<1>4. /\ calls' \in Seq(VaultCalls) /\ Len(calls') = Len(calls) + 1 /\ calls' # <<>>
      /\ calls'[Len(calls) + 1] = c
      /\ \A i \in 1..Len(calls) : calls'[i] = calls[i]
  BY <1>1, <1>2, <1>3
<1>5. CASE calls = <<>>
  <2>1. Len(calls) = 0 /\ calls'[1].at = "waiting"
    BY <1>1, <1>4, <1>5
  <2>2. \A p : First(p)' => p = "waiting"
    BY <2>1 DEF First
  <2>3. ~First("writing") /\ ~First("renamed")
    BY <1>5 DEF First
  <2>4. VaultTyped'
    BY <1>2, <1>3, <1>4 DEF VaultInv, VaultTyped
  <2>5. TurnsInOrder'
    BY <1>2, <1>4, <2>1, <2>2, <2>3 DEF VaultInv, TurnsInOrder
  <2>6. TemporariesInBounds'
    BY <1>2, <1>3, <1>4, <2>1, <2>2, <2>3 DEF VaultInv, TemporariesInBounds
  <2> QED  BY <2>4, <2>5, <2>6 DEF VaultInv
<1>6. CASE calls # <<>>
  <2>1. calls'[1] = calls[1]
    BY <1>3, <1>4, <1>6
  <2>2. \A p : First(p)' <=> First(p)
    BY <1>4, <1>6, <2>1 DEF First
  <2>3. \A i \in 2..Len(calls') : calls'[i].at = "waiting"
    <3> TAKE i \in 2..Len(calls')
    <3>1. CASE i = Len(calls) + 1
      BY <1>1, <1>4, <3>1
    <3>2. CASE i # Len(calls) + 1
      <4>1. i \in 2..Len(calls) /\ i \in 1..Len(calls)
        BY <1>3, <1>4, <3>2
      <4> QED  BY <1>4, <4>1 DEF VaultInv, TurnsInOrder
    <3> QED  BY <3>1, <3>2
  <2>4. VaultTyped'
    BY <1>2, <1>3, <1>4 DEF VaultInv, VaultTyped
  <2>5. TurnsInOrder'
    BY <1>2, <2>1, <2>2, <2>3 DEF VaultInv, TurnsInOrder
  <2>6. TemporariesInBounds'
    BY <1>2, <1>3, <1>4, <2>2 DEF VaultInv, TemporariesInBounds
  <2> QED  BY <2>4, <2>5, <2>6 DEF VaultInv
<1> QED  BY <1>5, <1>6

\* A step of the call whose turn it is.
LEMMA TurnStep ==
    ASSUME VaultInv, VaultStep
    PROVE  VaultInv'
<1>1. /\ calls # <<>> /\ UNCHANGED <<called, vaultFaults>>
      /\ \/ RefusedAtOnce(1) \/ ReadStore(1) \/ Reply(1) \/ OpenTemporary(1)
         \/ RenameTemporary(1) \/ WriteFails(1) \/ Acknowledge(1)
  BY DEF VaultStep, Runs, VaultInv, VaultTyped
<1>2. /\ calls \in Seq(VaultCalls) /\ calls[1] \in VaultCalls /\ Len(calls) \in Nat
      /\ called \in Nat /\ temporaries \in Nat /\ promised \in Entries
      /\ credentials \in Stores
      /\ Len(calls) >= 1 /\ calls[1].entries \in Entries
  <2>1. /\ calls \in Seq(VaultCalls) /\ called \in Nat /\ temporaries \in Nat
        /\ promised \in Entries /\ credentials \in Stores
    BY DEF VaultInv, VaultTyped
  <2>2. Len(calls) \in Nat /\ Len(calls) >= 1 /\ calls[1] \in VaultCalls
    BY <1>1, <2>1
  <2> QED  BY <2>1, <2>2 DEF VaultCalls
<1>3. /\ temporaries + Len(calls) <= called + 1
      /\ ~First("writing") => temporaries + Len(calls) <= called
      /\ First("writing") => temporaries - 1 \in Nat
  BY <1>2 DEF VaultInv, TemporariesInBounds
<1>4. ASSUME Answered(1), UNCHANGED <<credentials, temporaries, promised>>, ~First("renamed")
      PROVE  VaultInv'
  BY <1>1, <1>2, <1>3, <1>4, EndsStep DEF VaultInv, TurnsInOrder
<1>5. CASE RefusedAtOnce(1) \/ Reply(1)
  BY <1>1, <1>4, <1>5 DEF RefusedAtOnce, Reply, First
<1>6. CASE ReadStore(1)
  <2>1. calls[1].at = "waiting" /\ UNCHANGED <<credentials, temporaries, promised>>
    BY <1>6 DEF ReadStore
  <2>2. /\ ~First("renamed") /\ ~First("writing")
        /\ ~Readable(credentials) \/ credentials.entries = promised
    BY <2>1 DEF First, VaultInv, TurnsInOrder
  <2>3. CASE Answered(1)
    BY <1>4, <2>1, <2>2, <2>3
  <2>4. CASE /\ Readable(credentials) /\ ~Writes(calls[1], promised)
             /\ calls' = [calls EXCEPT ![1] = Moved(calls[1], promised, "read")]
    <3>1. "read" \in Places
      BY DEF Places
    <3>2. GoesOn(promised, "read")
      BY <1>1, <1>2, <1>3, <2>1, <2>2, <2>4 DEF GoesOn
    <3> QED  BY <1>1, <1>2, <3>1, <3>2, GoesOnStep
  <2>5. CASE /\ Readable(credentials) /\ Writes(calls[1], promised)
             /\ calls' = [calls EXCEPT ![1] = Moved(calls[1], Effect(calls[1], promised),
                                                    "opening")]
    <3>1. "opening" \in Places /\ Effect(calls[1], promised) \in Entries
      BY <1>2, EffectTyped DEF Places
    <3>2. GoesOn(Effect(calls[1], promised), "opening")
      BY <1>1, <1>2, <1>3, <2>1, <2>2, <2>5 DEF GoesOn
    <3> QED  BY <1>1, <3>1, <3>2, GoesOnStep
  <2> QED
    <3>1. 1 \in DOMAIN calls
      BY <1>2
    <3> QED  BY <1>6, <2>2, <2>3, <2>4, <2>5, <3>1 DEF ReadStore, Moved
<1>7. CASE OpenTemporary(1)
  <2>1. calls[1].at = "opening" /\ UNCHANGED <<credentials, promised>>
    BY <1>7 DEF OpenTemporary
  <2>2. /\ ~First("renamed") /\ ~First("writing") /\ First("opening")
        /\ ~Readable(credentials) \/ credentials.entries = promised
        /\ calls[1].entries = Effect(calls[1], promised)
    BY <1>1, <2>1 DEF First, VaultInv, TurnsInOrder
  <2>3. CASE UNCHANGED temporaries /\ Answered(1)
    BY <1>4, <2>1, <2>2, <2>3
  <2>4. CASE temporaries' = temporaries + 1 /\ At(1, "writing")
    <3>1. /\ "writing" \in Places
          /\ calls' = [calls EXCEPT ![1] = Moved(calls[1], calls[1].entries, "writing")]
      BY <1>2, <2>4, AtMoves DEF At, Places
    <3>2. GoesOn(calls[1].entries, "writing")
      BY <1>1, <1>2, <1>3, <2>1, <2>2, <2>4, <3>1 DEF GoesOn
    <3> QED  BY <1>1, <1>2, <3>1, <3>2, GoesOnStep
  <2> QED  BY <1>7, <2>3, <2>4 DEF OpenTemporary
<1>8. CASE RenameTemporary(1)
  <2>1. /\ calls[1].at = "writing" /\ UNCHANGED promised
        /\ credentials' = StoreFile("store", calls[1].entries)
        /\ temporaries' = temporaries - 1 /\ At(1, "renamed")
    BY <1>8 DEF RenameTemporary
  <2>2. First("writing") /\ calls[1].entries = Effect(calls[1], promised)
    BY <1>1, <2>1 DEF First, VaultInv, TurnsInOrder
  <2>3. /\ "renamed" \in Places
        /\ calls' = [calls EXCEPT ![1] = Moved(calls[1], calls[1].entries, "renamed")]
    BY <1>2, <2>1, AtMoves DEF At, Places
  <2>4. /\ credentials' \in Stores
        /\ credentials'.entries = calls[1].entries
    BY <1>2, <2>1 DEF StoreFile, Stores
  <2>5. GoesOn(calls[1].entries, "renamed")
    BY <1>1, <1>2, <1>3, <2>1, <2>2, <2>3, <2>4 DEF GoesOn
  <2> QED  BY <1>1, <1>2, <2>3, <2>5, GoesOnStep
<1>9. CASE WriteFails(1)
  <2>1. /\ calls[1].at = "writing" /\ temporaries' \in {temporaries, temporaries - 1}
        /\ Answered(1) /\ UNCHANGED <<credentials, promised>>
    BY <1>9 DEF WriteFails
  <2>2. First("writing") /\ (~Readable(credentials) \/ credentials.entries = promised)
    BY <1>1, <2>1 DEF First, VaultInv, TurnsInOrder
  <2> QED  BY <1>1, <1>2, <1>3, <2>1, <2>2, EndsStep DEF Readable
<1>10. CASE Acknowledge(1)
  <2>1. /\ calls[1].at = "renamed" /\ promised' = Effect(calls[1], promised)
        /\ Answered(1) /\ UNCHANGED <<credentials, temporaries>>
    BY <1>10 DEF Acknowledge
  <2>2. ~Readable(credentials) \/ credentials.entries = Effect(calls[1], promised)
    BY <1>1, <2>1 DEF First, VaultInv, TurnsInOrder
  <2>3. promised' \in Entries
    BY <1>2, <2>1, EffectTyped
  <2> QED  BY <1>1, <1>2, <1>3, <2>1, <2>2, <2>3, EndsStep
<1> QED  BY <1>1, <1>5, <1>6, <1>7, <1>8, <1>9, <1>10
\* The end of the process, and damage from outside.
LEMMA FaultStep ==
    ASSUME MaxVaultFaults \in Nat, VaultInv, VaultCrash \/ Damage
    PROVE  VaultInv'
<1>1. /\ calls \in Seq(VaultCalls) /\ Len(calls) \in Nat /\ called \in 0..MaxCalls
      /\ temporaries \in Nat /\ promised \in Entries /\ credentials \in Stores
      /\ vaultFaults' \in 0..MaxVaultFaults /\ UNCHANGED <<temporaries, called>>
      /\ calls # <<>> => Len(calls) >= 1
  BY DEF VaultInv, VaultTyped, VaultCrash, Damage
<1>2. CASE VaultCrash
  <2>1. /\ calls' = <<>> /\ credentials' = credentials
        /\ promised' = IF Readable(credentials) THEN credentials.entries ELSE promised
    BY <1>2 DEF VaultCrash
  <2>2. \A p : ~First(p)'
    BY <2>1 DEF First
  <2>3. calls' \in Seq(VaultCalls) /\ Len(calls') = 0
    BY <2>1
  <2>4. VaultTyped'
    BY <1>1, <2>1, <2>3 DEF VaultTyped, Stores
  <2>5. TurnsInOrder'
    BY <2>1, <2>2, <2>3 DEF TurnsInOrder, Readable
  <2>6. temporaries <= called
    BY <1>1 DEF VaultInv, TemporariesInBounds, First
  <2>7. TemporariesInBounds'
    BY <1>1, <2>2, <2>3, <2>6 DEF TemporariesInBounds
  <2> QED  BY <2>4, <2>5, <2>7 DEF VaultInv
<1>3. CASE Damage
  <2>1. credentials' = Damaged /\ promised' = promised /\ calls' = calls
    BY <1>3 DEF Damage
  <2>2. \A p : First(p)' <=> First(p)
    BY <2>1 DEF First
  <2>3. credentials' \in Stores /\ ~Readable(credentials)'
    BY <2>1, NoEntriesTyped DEF Damaged, StoreFile, Stores, Readable
  <2>4. VaultTyped'
    BY <1>1, <2>1, <2>3 DEF VaultTyped
  <2>5. TurnsInOrder'
    BY <2>1, <2>2, <2>3 DEF VaultInv, TurnsInOrder
  <2>6. TemporariesInBounds'
    BY <1>1, <2>1, <2>2 DEF VaultInv, TemporariesInBounds
  <2> QED  BY <2>4, <2>5, <2>6 DEF VaultInv
<1> QED  BY <1>2, <1>3

LEMMA VaultNextStep ==
    ASSUME MaxCalls \in Nat, MaxVaultFaults \in Nat, VaultInv, [VaultNext]_vaultVars
    PROVE  VaultInv'
<1>1. CASE CallSome
  <2>1. PICK r \in References, s \in Secrets :
            \E op \in {"create", "replace", "resolve", "has", "delete", "prune"},
               allowed \in {{}, {r}} : Call(op, r, s, allowed)
    BY <1>1 DEF CallSome
  <2> QED  BY <2>1, CallStep
<1>2. CASE VaultStep
  BY <1>2, TurnStep
<1>3. CASE VaultCrash \/ Damage
  BY <1>3, FaultStep
<1>4. CASE UNCHANGED vaultVars
  BY <1>4 DEF vaultVars, VaultInv, VaultTyped, TurnsInOrder, TemporariesInBounds, First
<1> QED  BY <1>1, <1>2, <1>3, <1>4 DEF VaultNext

LEMMA VaultStarts ==
    ASSUME MaxCalls \in Nat, MaxVaultFaults \in Nat, VaultInit
    PROVE  VaultInv
<1>1. /\ credentials \in Stores /\ promised \in Entries
      /\ ~Readable(credentials) \/ credentials.entries = promised
      /\ temporaries = 0 /\ calls = <<>> /\ called = 0 /\ vaultFaults = 0
  BY NoEntriesTyped DEF VaultInit, Missing, Damaged, StoreFile, Stores, Readable
<1>2. calls \in Seq(VaultCalls) /\ Len(calls) = 0 /\ \A p : ~First(p)
  BY <1>1 DEF First
<1>3. 0 \in 0..MaxCalls /\ 0 \in 0..MaxVaultFaults
  OBVIOUS
<1>4. VaultTyped
  BY <1>1, <1>2, <1>3, NoEntriesTyped DEF VaultTyped
<1>5. TurnsInOrder /\ TemporariesInBounds
  BY <1>1, <1>2 DEF TurnsInOrder, TemporariesInBounds
<1> QED  BY <1>4, <1>5 DEF VaultInv

\* Calls of the vault, however many are made at once, take effect one after the
\* other: the file has what the answered calls left, or that and the call about
\* to be answered, and a reader saw what the calls before it left, whatever
\* fails and wherever the process ends (ProviderCredentialVault.exclusive).
THEOREM VaultCallsTakeTurns ==
    ASSUME MaxCalls \in Nat, MaxVaultFaults \in Nat
    PROVE  VaultSpec => [](VaultTypeOK /\ CallsTakeTurns)
<1>1. VaultInit => VaultInv
  BY VaultStarts
<1>2. VaultInv /\ [VaultNext]_vaultVars => VaultInv'
  BY VaultNextStep
<1>3. VaultInv => VaultTypeOK /\ CallsTakeTurns
  <2> SUFFICES ASSUME VaultInv PROVE VaultTypeOK /\ CallsTakeTurns
    OBVIOUS
  <2>1. /\ calls \in Seq(VaultCalls) /\ Len(calls) \in Nat /\ called \in 0..MaxCalls
        /\ temporaries \in Nat /\ DOMAIN calls = 1..Len(calls)
        /\ calls # <<>> => Len(calls) >= 1
    BY DEF VaultInv, VaultTyped
  <2>2. temporaries \in 0..MaxCalls
    BY <2>1 DEF VaultInv, TemporariesInBounds, First
  <2>3. VaultTypeOK
    BY <2>1, <2>2 DEF VaultInv, VaultTyped, VaultTypeOK, Stores
  <2>4. ASSUME NEW i \in DOMAIN calls, calls[i].at = "read" PROVE calls[i].entries = promised
    <3>1. i = 1 /\ First("read")
      <4>1. i \notin 2..Len(calls)
        BY <2>4 DEF VaultInv, TurnsInOrder
      <4>2. i = 1 /\ calls # <<>>
        BY <2>1, <2>4, <4>1
      <4> QED  BY <2>4, <4>2 DEF First
    <3> QED  BY <3>1 DEF VaultInv, TurnsInOrder
  <2>5. CASE First("renamed")
    <3>1. 1 \in DOMAIN calls /\ calls[1].at = "renamed"
      BY <2>1, <2>5 DEF First
    <3> QED  BY <2>3, <2>4, <2>5, <3>1 DEF VaultInv, TurnsInOrder, CallsTakeTurns
  <2>6. CASE ~First("renamed")
    BY <2>3, <2>4, <2>6 DEF VaultInv, TurnsInOrder, CallsTakeTurns
  <2> QED  BY <2>5, <2>6
<1> QED  BY <1>1, <1>2, <1>3, PTL DEF VaultSpec

\* A file damaged at any point, also between the readStore and the rename of a
\* call, is never taken for an empty store: no call that reads it damaged gets to
\* its rename, and the call that had read it before the damage puts back, with
\* its own change, every entry the answered calls left.
THEOREM DamagedVaultIsKept ==
    ASSUME MaxCalls \in Nat, MaxVaultFaults \in Nat
    PROVE  VaultSpec => [][DamageIsKept]_vaultVars
<1>1. VaultSpec => []VaultInv
  <2>1. VaultInit => VaultInv
    BY VaultStarts
  <2>2. VaultInv /\ [VaultNext]_vaultVars => VaultInv'
    BY VaultNextStep
  <2> QED  BY <2>1, <2>2, PTL DEF VaultSpec
<1>2. VaultInv /\ [VaultNext]_vaultVars => [DamageIsKept]_vaultVars
  <2> SUFFICES ASSUME VaultInv, VaultNext, credentials = Damaged, credentials' # Damaged
               PROVE  \E i \in DOMAIN calls :
                         calls[i].at = "writing"
                         /\ credentials' = StoreFile("store", Effect(calls[i], promised))
    BY DEF DamageIsKept
  <2>1. VaultStep
    BY DEF VaultNext, CallSome, Call, VaultCrash, Damage
  <2>2. 1 \in DOMAIN calls /\ RenameTemporary(1)
    BY <2>1 DEF VaultStep, Runs, RefusedAtOnce, ReadStore, Reply, OpenTemporary, WriteFails,
                Acknowledge
  <2>3. First("writing") /\ credentials' = StoreFile("store", calls[1].entries)
    BY <2>2 DEF RenameTemporary, First
  <2>4. calls[1].entries = Effect(calls[1], promised)
    BY <2>3 DEF VaultInv, TurnsInOrder
  <2> QED  BY <2>2, <2>3, <2>4 DEF First
<1> QED  BY <1>1, <1>2, PTL DEF VaultSpec
-----------------------------------------------------------------------------
(* Updates.  The last message on its way to the renderer says what the service *)
(* says, once the state a mounted store asked for is among them; a download   *)
(* starts, and an installation fails, only where no call is under way.        *)

UpdMessages == [kind : {"event", "check", "state"}, state : Statuses]
UpdStores == [state : Statuses \cup {"none"}, initialized : BOOLEAN]

UpdTyped ==
    /\ updState \in Statuses /\ checkCall \in {"none", "asked", "found", "nothing"}
    /\ replies \subseteq {"check", "state"} /\ consumers \in 0..MaxConsumers
    /\ downloadCall \in BOOLEAN /\ availableUpdate \in BOOLEAN /\ installRequested \in BOOLEAN
    /\ updDisposed \in BOOLEAN /\ bridge \in BOOLEAN /\ hydrating \in BOOLEAN
    /\ store \in UpdStores /\ toRenderer \in Seq(UpdMessages)

CallsInOrder ==
    /\ BusyStatusHasCall
    /\ ~updDisposed /\ installRequested => updState = "ready"

MessagesInOrder ==
    /\ bridge <=> consumers > 0
    /\ hydrating => bridge
    /\ consumers > 0 /\ "state" \notin replies =>
           IF toRenderer = <<>> THEN store.state = updState
           ELSE toRenderer[Len(toRenderer)].state = updState

UpdInv == UpdTyped /\ CallsInOrder /\ MessagesInOrder

\* The last message of a queue.
LEMMA PutLast ==
    ASSUME NEW s \in Seq(UpdMessages), NEW m \in UpdMessages
    PROVE  /\ s \o <<m>> \in Seq(UpdMessages) /\ s \o <<m>> # <<>>
           /\ (s \o <<m>>)[Len(s \o <<m>>)] = m
<1>1. <<m>> \in Seq(UpdMessages) /\ Len(<<m>>) = 1 /\ <<m>>[1] = m
  OBVIOUS
<1>2. s \o <<m>> \in Seq(UpdMessages) /\ Len(s \o <<m>>) = Len(s) + 1
  BY <1>1
<1>3. (s \o <<m>>)[Len(s) + 1] = m
  BY <1>1
<1> QED  BY <1>2, <1>3

LEMMA MessageTyped ==
    ASSUME NEW kind \in {"event", "check", "state"}, NEW state \in Statuses
    PROVE  Message(kind, state) \in UpdMessages /\ Message(kind, state).state = state
BY DEF Message, UpdMessages

\* Whatever is published and answered, the last message tells the status.
LEMMA PublishStep ==
    ASSUME UpdTyped, MessagesInOrder, NEW next \in Statuses,
           NEW answered \in SUBSET {"check", "state"}, Publish(next, answered),
           UNCHANGED rendererVars
    PROVE  /\ updState' = IF updDisposed THEN updState ELSE next
           /\ updState' \in Statuses /\ toRenderer' \in Seq(UpdMessages)
           /\ replies' \subseteq {"check", "state"} /\ MessagesInOrder'
<1> USE DEF UpdTyped
<1>1. /\ updState' = IF updDisposed THEN updState ELSE next
      /\ updState' \in Statuses
      /\ replies' = replies \ answered /\ replies' \subseteq {"check", "state"}
  BY DEF Publish
<1>2. ASSUME NEW s \in Seq(UpdMessages), s # <<>>, s[Len(s)].state = updState',
             toRenderer' = s \o Replies(answered, updState')
      PROVE  /\ toRenderer' \in Seq(UpdMessages) /\ toRenderer' # <<>>
             /\ toRenderer'[Len(toRenderer')].state = updState'
  <2>1. CASE answered = {}
    <3>1. toRenderer' = s
      BY <1>2, <2>1 DEF Replies
    <3> QED  BY <1>2, <3>1
  <2>2. CASE answered # {}
    <3> DEFINE m == Message(CHOOSE k \in answered : TRUE, updState')
    <3>1. (CHOOSE k \in answered : TRUE) \in {"event", "check", "state"}
      BY <2>2
    <3>2. m \in UpdMessages /\ m.state = updState'
      BY <1>1, <3>1, MessageTyped
    <3>3. toRenderer' = s \o <<m>>
      BY <1>2, <2>2 DEF Replies
    <3> HIDE DEF m
    <3> QED  BY <3>2, <3>3, PutLast
  <2> QED  BY <2>1, <2>2
<1>3. CASE updDisposed \/ next = updState
  <2>1. updState' = updState /\ toRenderer' = toRenderer \o Replies(answered, updState')
    BY <1>3 DEF Publish
  <2>2. CASE answered = {}
    <3>1. toRenderer' = toRenderer
      BY <2>1, <2>2 DEF Replies
    <3>2. replies' = replies
      BY <1>1, <2>2
    <3> QED  BY <1>1, <2>1, <3>1, <3>2 DEF MessagesInOrder, rendererVars
  <2>3. CASE answered # {}
    <3> DEFINE m == Message(CHOOSE k \in answered : TRUE, updState')
    <3>1. (CHOOSE k \in answered : TRUE) \in {"event", "check", "state"}
      BY <2>3
    <3>2. m \in UpdMessages /\ m.state = updState'
      BY <1>1, <3>1, MessageTyped
    <3>3. toRenderer' = toRenderer \o <<m>>
      BY <2>1, <2>3 DEF Replies
    <3> HIDE DEF m
    <3>4. /\ toRenderer' \in Seq(UpdMessages) /\ toRenderer' # <<>>
          /\ toRenderer'[Len(toRenderer')].state = updState'
      BY <3>2, <3>3, PutLast
    <3> QED  BY <1>1, <3>4 DEF MessagesInOrder, rendererVars
  <2> QED  BY <2>2, <2>3
<1>4. CASE ~updDisposed /\ next # updState
  <2> DEFINE s == toRenderer \o <<Message("event", next)>>
  <2>1. updState' = next /\ toRenderer' = s \o Replies(answered, updState')
    BY <1>4 DEF Publish
  <2>2. /\ s \in Seq(UpdMessages) /\ s # <<>> /\ s[Len(s)].state = updState'
    BY <2>1, MessageTyped, PutLast
  <2> HIDE DEF s
  <2>3. /\ toRenderer' \in Seq(UpdMessages) /\ toRenderer' # <<>>
        /\ toRenderer'[Len(toRenderer')].state = updState'
    BY <1>2, <2>1, <2>2
  <2> QED  BY <1>1, <2>3 DEF MessagesInOrder, rendererVars
<1> QED  BY <1>3, <1>4

\* A step of the service that publishes a status.
LEMMA ServiceStep ==
    ASSUME UpdInv,
           \/ \E asks \in BOOLEAN : CheckForUpdates(asks)
           \/ \E updateFound \in BOOLEAN : UpdaterAnswers(updateFound)
           \/ CheckSettles \/ Download \/ Downloaded \/ DownloadFails \/ InstallFails
           \/ AnswerState
    PROVE  UpdInv'
<1> USE DEF UpdInv
<1>1. ASSUME NEW next \in Statuses, NEW answered \in SUBSET {"check", "state"},
             Publish(next, answered), UNCHANGED <<updDisposed, rendererVars>>,
             checkCall' \in {"none", "asked", "found", "nothing"}, downloadCall' \in BOOLEAN,
             availableUpdate' \in BOOLEAN, installRequested' \in BOOLEAN,
             ~updDisposed => /\ next = "checking" => checkCall' # "none"
                             /\ next = "downloading" <=> downloadCall'
                             /\ installRequested' => next = "ready"
      PROVE  UpdInv'
  <2>1. /\ updState' = IF updDisposed THEN updState ELSE next
        /\ updState' \in Statuses /\ toRenderer' \in Seq(UpdMessages)
        /\ replies' \subseteq {"check", "state"} /\ MessagesInOrder'
    BY <1>1, PublishStep
  <2>2. UpdTyped'
    BY <1>1, <2>1 DEF UpdTyped, rendererVars
  <2>3. CallsInOrder'
    BY <1>1, <2>1 DEF CallsInOrder, BusyStatusHasCall
  <2> QED  BY <2>1, <2>2, <2>3
<1>2. /\ updState \in Statuses /\ checkCall \in {"none", "asked", "found", "nothing"}
      /\ downloadCall \in BOOLEAN /\ availableUpdate \in BOOLEAN /\ installRequested \in BOOLEAN
      /\ {} \in SUBSET {"check", "state"} /\ {"check"} \in SUBSET {"check", "state"}
      /\ {"state"} \in SUBSET {"check", "state"}
      /\ replies \cap {"check"} \in SUBSET {"check", "state"}
      /\ updDisposed \in BOOLEAN
  BY DEF UpdTyped
<1>3. ~updDisposed => /\ updState = "checking" => checkCall # "none"
                      /\ updState = "downloading" <=> downloadCall
                      /\ installRequested => updState = "ready"
  BY DEF CallsInOrder, BusyStatusHasCall
<1>4. /\ \A s \in {"checking", "available", "downloading", "ready", "up-to-date", "error-check",
                   "error-download", "error-install"} : s \in Statuses
      /\ AfterAvailable \in Statuses /\ AfterNotAvailable \in Statuses
  BY <1>2 DEF Statuses, AfterAvailable, AfterNotAvailable
<1>5. ASSUME NEW asks \in BOOLEAN, CheckForUpdates(asks) PROVE UpdInv'
  <2>1. CASE updDisposed \/ checkCall # "none" \/ updState \in Busy
    BY <1>1, <1>2, <1>3, <1>5, <2>1 DEF CheckForUpdates
  <2>2. CASE ~(updDisposed \/ checkCall # "none" \/ updState \in Busy)
    BY <1>1, <1>2, <1>3, <1>4, <1>5, <2>2 DEF CheckForUpdates, Busy
  <2> QED  BY <2>1, <2>2
<1>6. ASSUME NEW updateFound \in BOOLEAN, UpdaterAnswers(updateFound) PROVE UpdInv'
  <2> DEFINE next == IF updateFound THEN AfterAvailable ELSE AfterNotAvailable
  <2>1. /\ next \in Statuses /\ next # "checking"
        /\ next = "downloading" <=> updState = "downloading"
        /\ updState = "ready" => next = "ready"
    BY <1>4 DEF AfterAvailable, AfterNotAvailable, Busy
  <2>2. Publish(next, {}) /\ checkCall' \in {"none", "asked", "found", "nothing"}
        /\ availableUpdate' \in BOOLEAN
        /\ UNCHANGED <<downloadCall, installRequested, updDisposed, rendererVars>>
    BY <1>2, <1>6 DEF UpdaterAnswers
  <2> HIDE DEF next
  <2> QED  BY <1>1, <1>2, <1>3, <2>1, <2>2
<1>7. CASE CheckSettles
  <2> DEFINE next == IF updState = "checking" THEN "error-check" ELSE updState
  <2>1. /\ next \in Statuses /\ next # "checking"
        /\ next = "downloading" <=> updState = "downloading"
        /\ updState = "ready" => next = "ready"
    BY <1>2, <1>4
  <2>2. Publish(next, replies \cap {"check"}) /\ checkCall' = "none"
        /\ UNCHANGED <<downloadCall, availableUpdate, installRequested, updDisposed, rendererVars>>
    BY <1>7 DEF CheckSettles
  <2> HIDE DEF next
  <2> QED  BY <1>1, <1>2, <1>3, <2>1, <2>2
<1>8. CASE Download
  BY <1>1, <1>2, <1>3, <1>4, <1>8 DEF Download, CanDownload
<1>9. CASE Downloaded
  BY <1>1, <1>2, <1>3, <1>4, <1>9 DEF Downloaded
<1>10. CASE DownloadFails
  <2> DEFINE next == IF updState = "downloading" THEN "error-download" ELSE updState
  <2>1. /\ next \in Statuses /\ next # "downloading"
        /\ updState # "downloading" => next = updState
        /\ updState = "downloading" => next = "error-download"
    BY <1>2, <1>4
  <2>2. Publish(next, {}) /\ downloadCall /\ downloadCall' = FALSE
        /\ UNCHANGED <<checkCall, availableUpdate, installRequested, updDisposed, rendererVars>>
    BY <1>10 DEF DownloadFails
  <2> HIDE DEF next
  <2> QED  BY <1>1, <1>2, <1>3, <2>1, <2>2
<1>11. CASE InstallFails
  BY <1>1, <1>2, <1>3, <1>4, <1>11 DEF InstallFails
<1>12. CASE AnswerState
  BY <1>1, <1>2, <1>3, <1>12 DEF AnswerState
<1> QED  BY <1>5, <1>6, <1>7, <1>8, <1>9, <1>10, <1>11, <1>12
\* A message arrives at the renderer.
LEMMA DeliverStep ==
    ASSUME UpdInv, Deliver
    PROVE  UpdInv'
<1> USE DEF UpdInv, UpdTyped
<1>1. /\ toRenderer # <<>> /\ toRenderer' = Tail(toRenderer)
      /\ store' = IF Head(toRenderer).kind # "event" \/ bridge
                  THEN [state |-> Head(toRenderer).state, initialized |-> TRUE] ELSE store
      /\ hydrating' = (hydrating /\ Head(toRenderer).kind # "state")
      /\ UNCHANGED <<updState, checkCall, downloadCall, availableUpdate, installRequested,
                     updDisposed, replies, bridge, consumers>>
  BY DEF Deliver
<1>2. /\ Len(toRenderer) \in Nat /\ Len(toRenderer) >= 1
      /\ Head(toRenderer) = toRenderer[1] /\ Head(toRenderer) \in UpdMessages
      /\ toRenderer' \in Seq(UpdMessages) /\ Len(toRenderer') = Len(toRenderer) - 1
  BY <1>1
<1>3. Head(toRenderer).state \in Statuses
  BY <1>2 DEF UpdMessages
<1>4. store' \in UpdStores
  BY <1>1, <1>3 DEF UpdStores
<1>5. UpdTyped'
  BY <1>1, <1>2, <1>4
<1>6. CallsInOrder'
  BY <1>1 DEF CallsInOrder, BusyStatusHasCall
<1>7. CASE toRenderer' = <<>>
  <2>1. Len(toRenderer) = 1
    BY <1>2, <1>7
  <2>2. bridge => store'.state = toRenderer[Len(toRenderer)].state
    BY <1>1, <1>2, <2>1
  <2> QED  BY <1>1, <1>5, <1>6, <1>7, <2>2 DEF MessagesInOrder
<1>8. CASE toRenderer' # <<>>
  <2>1. Len(toRenderer') >= 1
    BY <1>2, <1>8
  <2>2. toRenderer'[Len(toRenderer')] = toRenderer[Len(toRenderer)]
    <3>1. /\ Len(toRenderer') \in 1..Len(toRenderer')
          /\ Len(toRenderer') + 1 = Len(toRenderer)
      BY <1>2, <2>1
    <3>2. \A i \in 1..Len(Tail(toRenderer)) : Tail(toRenderer)[i] = toRenderer[i + 1]
      BY <1>1
    <3> QED  BY <1>1, <3>1, <3>2
  <2> QED  BY <1>1, <1>5, <1>6, <1>8, <2>2 DEF MessagesInOrder
<1> QED  BY <1>7, <1>8

LEMMA UpdStep ==
    ASSUME MaxConsumers \in Nat, UpdInv, [UpdNext]_updVars
    PROVE  UpdInv'
<1> USE DEF UpdInv
<1>1. CASE JoinCheck \/ Install \/ DisposeUpdates \/ UNCHANGED updVars
  <2>1. /\ UNCHANGED <<updState, checkCall, downloadCall, availableUpdate, toRenderer, store,
                       bridge, hydrating, consumers>>
        /\ updDisposed' \in BOOLEAN /\ installRequested' \in BOOLEAN
        /\ updDisposed => updDisposed'
        /\ installRequested' => installRequested \/ updState = "ready"
        /\ replies' \in {replies, replies \cup {"check"}}
    <3>1. /\ updDisposed \in BOOLEAN /\ installRequested \in BOOLEAN
          /\ replies \in {replies, replies \cup {"check"}}
      BY DEF UpdTyped
    <3>2. CASE JoinCheck
      BY <3>1, <3>2 DEF JoinCheck, rendererVars
    <3>3. CASE Install
      BY <3>1, <3>3 DEF Install, rendererVars
    <3>4. CASE DisposeUpdates
      BY <3>1, <3>4 DEF DisposeUpdates, rendererVars
    <3>5. CASE UNCHANGED updVars
      BY <3>1, <3>5 DEF updVars
    <3> QED  BY <1>1, <3>2, <3>3, <3>4, <3>5
  <2>2. UpdTyped'
    BY <2>1 DEF UpdTyped
  <2>3. CallsInOrder'
    BY <2>1 DEF CallsInOrder, BusyStatusHasCall, UpdTyped
  <2>4. MessagesInOrder'
    BY <2>1 DEF MessagesInOrder
  <2> QED  BY <2>2, <2>3, <2>4
<1>2. CASE Mount
  <2>1. /\ consumers' = consumers + 1 /\ consumers' \in 1..MaxConsumers
        /\ bridge' = TRUE /\ hydrating' = TRUE
        /\ replies' = IF hydrating THEN replies ELSE replies \cup {"state"}
        /\ UNCHANGED <<updState, checkCall, downloadCall, availableUpdate, installRequested,
                       updDisposed, toRenderer, store>>
    BY <1>2 DEF Mount, UpdTyped
  <2>2. UpdTyped' /\ CallsInOrder'
    BY <2>1 DEF UpdTyped, CallsInOrder, BusyStatusHasCall
  <2>3. MessagesInOrder'
    BY <2>1 DEF MessagesInOrder, UpdTyped
  <2> QED  BY <2>2, <2>3
<1>3. CASE Unmount
  <2>1. /\ consumers > 0 /\ consumers' = consumers - 1 /\ consumers' \in 0..MaxConsumers
        /\ consumers \in Nat
        /\ IF consumers = 1
           THEN /\ bridge' = FALSE /\ hydrating' = FALSE
                /\ store' = [store EXCEPT !.initialized = FALSE]
           ELSE UNCHANGED <<bridge, hydrating, store>>
        /\ UNCHANGED <<updState, checkCall, downloadCall, availableUpdate, installRequested,
                       updDisposed, replies, toRenderer>>
    BY <1>3 DEF Unmount, UpdTyped
  <2>2. store' \in UpdStores
    BY <2>1 DEF UpdTyped, UpdStores
  <2>3. UpdTyped' /\ CallsInOrder'
    BY <2>1, <2>2 DEF UpdTyped, CallsInOrder, BusyStatusHasCall
  <2>4. MessagesInOrder'
    BY <2>1 DEF MessagesInOrder
  <2> QED  BY <2>3, <2>4
<1>4. CASE (\E asks \in BOOLEAN : CheckForUpdates(asks)) \/ UpdaterWork \/ Download \/ InstallFails
  BY <1>4, ServiceStep DEF UpdaterWork
<1>5. CASE UpdWork
  BY <1>5, ServiceStep, DeliverStep DEF UpdWork
<1> QED  BY <1>1, <1>2, <1>3, <1>4, <1>5 DEF UpdNext

\* A status that shows work has the updater's call behind it, and a mounted
\* store that has nothing on its way shows the status of the service, however
\* events, replies and remounts cross (UpdateService.publish, useUpdateStore).
THEOREM StatusReachesTheScreen ==
    ASSUME MaxConsumers \in Nat
    PROVE  UpdSpec => [](UpdTypeOK /\ BusyStatusHasCall /\ StoreIsCurrent)
<1>1. UpdInit => UpdInv
  <2> SUFFICES ASSUME UpdInit PROVE UpdInv
    OBVIOUS
  <2>1. store \in UpdStores /\ toRenderer \in Seq(UpdMessages) /\ consumers \in 0..MaxConsumers
    BY DEF UpdInit, UpdStores
  <2>2. UpdTyped
    BY <2>1 DEF UpdInit, UpdTyped, Statuses
  <2>3. CallsInOrder /\ MessagesInOrder
    BY DEF UpdInit, CallsInOrder, BusyStatusHasCall, MessagesInOrder
  <2> QED  BY <2>2, <2>3 DEF UpdInv
<1>2. UpdInv /\ [UpdNext]_updVars => UpdInv'
  BY UpdStep
<1>3. UpdInv => UpdTypeOK /\ BusyStatusHasCall /\ StoreIsCurrent
  <2> SUFFICES ASSUME UpdInv PROVE UpdTypeOK /\ BusyStatusHasCall /\ StoreIsCurrent
    OBVIOUS
  <2>1. UpdTyped /\ BusyStatusHasCall /\ StoreIsCurrent
    BY DEF UpdInv, CallsInOrder, MessagesInOrder, StoreIsCurrent
  <2>2. /\ store.state \in Statuses \cup {"none"}
        /\ \A i \in DOMAIN toRenderer : toRenderer[i].state \in Statuses
    <3>1. \A m \in UpdMessages : m.state \in Statuses
      BY DEF UpdMessages
    <3>2. \A i \in DOMAIN toRenderer : toRenderer[i] \in UpdMessages
      BY <2>1 DEF UpdTyped
    <3> QED  BY <2>1, <3>1, <3>2 DEF UpdTyped, UpdStores
  <2> QED  BY <2>1, <2>2 DEF UpdTyped, UpdTypeOK
<1> QED  BY <1>1, <1>2, <1>3, PTL DEF UpdSpec
-----------------------------------------------------------------------------
(* CheckpointCapture.  A file that still has the identity it had before it was *)
(* read has not been written since, and what was read is what it has.  What    *)
(* the walk did not list was missing when it passed.                           *)

PathSets == SUBSET Paths
FileMaps == UNION {[known -> States] : known \in SUBSET Paths}
CaptureRows == [status : {"none", "capturing", "ready", "failed"}, files : FileMaps]
Works == [step : {"idle", "collect", "stat", "read", "rest", "check", "complete"},
          phase : Phases, path : Nat, candidates : PathSets, identity : 0..MaxWrites,
          content : FileTexts]

CapTyped ==
    /\ disk \in [Paths -> [state : States, identity : 0..MaxWrites]]
    /\ writes \in 0..MaxWrites
    /\ checkpoints \in [Phases -> CaptureRows]
    /\ work \in Works /\ (work.step = "idle" => work = Idle)
    /\ DOMAIN bytes = Phases
    /\ \A p \in Paths : disk[p].identity <= writes
    /\ \A f \in Phases : checkpoints[f].status \in {"none", "failed"} =>
           checkpoints[f].files = NoFiles
    /\ DOMAIN was = Phases /\ \A f \in Phases : DOMAIN was[f] = Paths

\* One capture at a time, of the phase it is for.
OneCapture ==
    /\ \A f \in Phases : checkpoints[f].status = "capturing"
                           <=> work.step # "idle" /\ work.phase = f
    /\ checkpoints["after"].status \in {"capturing", "ready"} =>
           checkpoints["before"].status = "ready"
    /\ work.step \in {"collect", "stat", "read", "rest", "check"} => work.path \in Paths
    /\ work.identity <= writes

\* What was read so far is what the file has, unless it was written meanwhile.
ReadsAreTrue ==
    work.step \in {"rest", "check"} /\ SameIdentity(work.path) =>
        /\ work.content[1] = disk[work.path].state.text[1]
        /\ work.step = "check" => work.content[2] = disk[work.path].state.text[2]

\* Every path is accounted for by the walk or by its absence.
WalkIsComplete ==
    work.step # "idle" =>
        LET f == work.phase
        IN  /\ \A p \in Paths : disk[p].state \in was[f][p]
            /\ work.step = "collect" =>
                   \A p \in Paths : p < work.path => p \in work.candidates \/ Absent \in was[f][p]
            /\ work.step # "collect" =>
                   \A p \in Paths : p \in work.candidates \/ Absent \in was[f][p]
            /\ work.step \in {"stat", "read", "rest", "check"} =>
                   \A p \in work.candidates : p < work.path => p \in DOMAIN checkpoints[f].files
            /\ work.step = "complete" => work.candidates \subseteq DOMAIN checkpoints[f].files

\* What a manifest names the file had, and the store has its bytes.
NamedFilesAreTrue ==
    \A f \in Phases : \A p \in DOMAIN checkpoints[f].files :
        LET state == checkpoints[f].files[p]
        IN  /\ state \in was[f][p]
            /\ state # Absent => p \in DOMAIN bytes[f] /\ bytes[f][p] = state.text

ReadyIsTrue ==
    \A f \in Phases : checkpoints[f].status = "ready" => \A p \in Paths : Known(f, p) \in was[f][p]

ChangesFollowManifests ==
    changes.saved => /\ checkpoints["before"].status = "ready"
                     /\ checkpoints["after"].status = "ready"
                     /\ DOMAIN changes.ops = Changed

CapInv == CapTyped /\ OneCapture /\ ReadsAreTrue /\ WalkIsComplete /\ NamedFilesAreTrue
             /\ ReadyIsTrue /\ ChangesFollowManifests

\* What Following changes of the capture under way.
LEMMA FollowingStep ==
    ASSUME NEW n \in Nat \ {0}, Paths = 1..n, work \in Works, work.path \in Paths,
           NEW step \in {"collect", "stat"}
    PROVE  LET w == Following(work.path, step)
           IN  /\ w \in Works /\ w.phase = work.phase /\ w.candidates = work.candidates
               /\ w.identity = work.identity
               /\ \/ w.step = step /\ w.path = work.path + 1 /\ w.path \in Paths
                  \/ /\ w.step = IF step = "collect" THEN "stat" ELSE "complete"
                     /\ w.path = 1 /\ w.path \in Paths
                     /\ \A p \in Paths : p <= work.path
<1>1. CASE work.path + 1 \in Paths
  <2>1. Following(work.path, step) = [work EXCEPT !.step = step, !.path = work.path + 1]
    BY <1>1 DEF Following
  <2> DEFINE w == [work EXCEPT !.step = step, !.path = work.path + 1]
  <2>2. w \in Works
    <3>1. work.path + 1 \in Nat
      BY DEF Works
    <3> QED  BY <3>1, Zenon, SMT DEF Works
  <2>3. /\ w.step = step /\ w.path = work.path + 1 /\ w.phase = work.phase
        /\ w.candidates = work.candidates /\ w.identity = work.identity
    BY DEF Works
  <2> QED  BY <1>1, <2>1, <2>2, <2>3
<1>2. CASE work.path + 1 \notin Paths
  <2> DEFINE next == IF step = "collect" THEN "stat" ELSE "complete"
  <2>1. Following(work.path, step) = [work EXCEPT !.step = next, !.path = 1]
    BY <1>2 DEF Following
  <2>2. 1 \in Paths /\ \A p \in Paths : p <= work.path
    BY <1>2
  <2>3. next \in {"stat", "complete"}
    OBVIOUS
  <2> HIDE DEF next
  <2>4. [work EXCEPT !.step = next, !.path = 1] \in Works
    BY <2>3 DEF Works
  <2>5. /\ [work EXCEPT !.step = next, !.path = 1].step = next
        /\ [work EXCEPT !.step = next, !.path = 1].path = 1
        /\ [work EXCEPT !.step = next, !.path = 1].phase = work.phase
        /\ [work EXCEPT !.step = next, !.path = 1].candidates = work.candidates
        /\ [work EXCEPT !.step = next, !.path = 1].identity = work.identity
    BY DEF Works
  <2> QED  BY <2>1, <2>2, <2>4, <2>5 DEF next
<1> QED  BY <1>1, <1>2

LEMMA NoFilesTyped == NoFiles \in FileMaps /\ DOMAIN NoFiles = {}
<1>1. NoFiles \in [{} -> States] /\ {} \in SUBSET Paths /\ DOMAIN NoFiles = {}
  BY DEF NoFiles
<1> QED  BY <1>1 DEF FileMaps

LEMMA FileMapGrows ==
    ASSUME NEW files \in FileMaps, NEW p \in Paths, NEW state \in States
    PROVE  [q \in DOMAIN files \cup {p} |-> IF q = p THEN state ELSE files[q]] \in FileMaps
<1>1. DOMAIN files \in SUBSET Paths /\ files \in [DOMAIN files -> States]
  BY DEF FileMaps
<1>2. /\ [q \in DOMAIN files \cup {p} |-> IF q = p THEN state ELSE files[q]]
             \in [DOMAIN files \cup {p} -> States]
      /\ DOMAIN files \cup {p} \in SUBSET Paths
  BY <1>1
<1> QED  BY <1>2 DEF FileMaps

\* Somebody writes: what a file had so far stays in its history, and nobody can
\* take what was read of it for its content any more.
LEMMA BecomesStep ==
    ASSUME MaxWrites \in Nat, CapInv, NEW p \in Paths, NEW state \in States, Becomes(p, state)
    PROVE  CapInv'
<1> USE DEF CapInv
<1>1. /\ writes < MaxWrites /\ writes' = writes + 1 /\ writes' \in 0..MaxWrites
      /\ disk' = [disk EXCEPT ![p] = [state |-> state, identity |-> writes + 1]]
      /\ UNCHANGED <<checkpoints, bytes, work, changes>>
      /\ writes \in 0..MaxWrites
  BY DEF Becomes, CapTyped
<1>2. /\ DOMAIN was' = Phases
      /\ \A f \in Phases : DOMAIN was'[f] = Paths
      /\ \A f \in Phases, q \in Paths : was[f][q] \subseteq was'[f][q]
      /\ \A f \in Phases : checkpoints[f].status = "capturing" => state \in was'[f][p]
  BY DEF Becomes, CapTyped, Capturing
<1>3. /\ disk' \in [Paths -> [state : States, identity : 0..MaxWrites]]
      /\ disk'[p].state = state /\ disk'[p].identity = writes + 1
      /\ \A q \in Paths : q # p => disk'[q] = disk[q]
  BY <1>1 DEF CapTyped
<1>4. CapTyped'
  <2>1. \A q \in Paths : disk'[q].identity <= writes'
    BY <1>1, <1>3 DEF CapTyped
  <2> QED  BY <1>1, <1>2, <1>3, <2>1 DEF CapTyped
<1>5. OneCapture'
  <2>1. work.identity \in 0..MaxWrites
    BY DEF CapTyped, Works
  <2> QED  BY <1>1, <2>1 DEF OneCapture
<1>6. ReadsAreTrue'
  <2> SUFFICES ASSUME work.step \in {"rest", "check"}, SameIdentity(work.path)'
               PROVE  ReadsAreTrue'
    BY <1>1 DEF ReadsAreTrue
  <2>1. work.path \in Paths /\ work.identity <= writes /\ work.identity \in 0..MaxWrites
    BY DEF OneCapture, CapTyped, Works
  <2>2. disk'[work.path].identity = work.identity /\ disk'[work.path].state # Absent
    BY <1>1 DEF SameIdentity
  <2>3. work.path # p
    BY <1>1, <1>3, <2>1, <2>2
  <2>4. disk'[work.path] = disk[work.path]
    BY <1>3, <2>1, <2>3
  <2> QED  BY <1>1, <2>2, <2>4 DEF ReadsAreTrue, SameIdentity
<1>7. WalkIsComplete'
  <2> SUFFICES ASSUME work.step # "idle" PROVE WalkIsComplete'
    BY <1>1 DEF WalkIsComplete
  <2>1. work.phase \in Phases /\ checkpoints[work.phase].status = "capturing"
    BY DEF OneCapture, CapTyped, Works
  <2>2. \A q \in Paths : disk'[q].state \in was'[work.phase][q]
    BY <1>2, <1>3, <2>1 DEF WalkIsComplete
  <2>3. \A q \in Paths : Absent \in was[work.phase][q] => Absent \in was'[work.phase][q]
    BY <1>2, <2>1
  <2> QED  BY <1>1, <2>2, <2>3 DEF WalkIsComplete
<1>8. NamedFilesAreTrue'
  <2>1. \A f \in Phases : DOMAIN checkpoints[f].files \subseteq Paths
    BY DEF CapTyped, CaptureRows, FileMaps
  <2> QED  BY <1>1, <1>2, <2>1 DEF NamedFilesAreTrue
<1>9. ReadyIsTrue' /\ ChangesFollowManifests'
  BY <1>1, <1>2 DEF ReadyIsTrue, ChangesFollowManifests, Known, Changed, Differs
<1> QED  BY <1>4, <1>5, <1>6, <1>7, <1>8, <1>9

LEMMA WriteStep ==
    ASSUME MaxWrites \in Nat, CapInv, NEW p \in Paths,
           Unlink(p) \/ \E half \in Halves : WriteHalf(p, half)
    PROVE  CapInv'
<1>1. CASE Unlink(p)
  <2>1. Absent \in States
    BY DEF States
  <2> QED  BY <1>1, <2>1, BecomesStep DEF Unlink
<1>2. ASSUME NEW half \in Halves, WriteHalf(p, half) PROVE CapInv'
  <2> DEFINE text == [disk[p].state.text EXCEPT ![half] = writes + 1]
  <2>1. writes + 1 \in 0..MaxWrites
    BY <1>2 DEF WriteHalf, Becomes, CapInv, CapTyped
  <2>2. disk[p].state.text \in FileTexts
    <3>1. disk[p].state \in States
      BY DEF CapInv, CapTyped
    <3>2. Blank \in FileTexts
      BY DEF Blank, FileTexts
    <3> QED  BY <3>1, <3>2 DEF States, Absent, File
  <2>3. text \in FileTexts
    BY <2>1, <2>2 DEF FileTexts
  <2>4. File(text) \in States
    BY <2>3 DEF States
  <2>5. Becomes(p, File(text))
    BY <1>2 DEF WriteHalf
  <2> HIDE DEF text
  <2> QED  BY <2>4, <2>5, BecomesStep
<1> QED  BY <1>1, <1>2
LEMMA CaptureConstants ==
    ASSUME MaxWrites \in Nat
    PROVE  /\ Blank \in FileTexts /\ Absent \in States /\ {} \in PathSets
           /\ Idle \in Works /\ Idle.step = "idle" /\ 0 \in 0..MaxWrites
<1>1. Blank \in FileTexts
  BY DEF Blank, FileTexts
<1>2. Absent \in States
  BY DEF States
<1>3. {} \in PathSets
  BY DEF PathSets
<1>4. 0 \in 0..MaxWrites /\ "before" \in Phases
  BY DEF Phases
<1>5. Idle \in Works
  BY <1>1, <1>3, <1>4 DEF Idle, Works
<1> QED  BY <1>1, <1>2, <1>3, <1>4, <1>5 DEF Idle

\* The row is there before the first file is listed, and its history starts.
LEMMA BeginCaptureStep ==
    ASSUME MaxWrites \in Nat, NEW n \in Nat \ {0}, Paths = 1..n, CapInv,
           NEW f \in Phases, BeginCapture(f)
    PROVE  CapInv'
<1> USE DEF CapInv
<1>1. /\ work = Idle /\ checkpoints[f].status = "none" /\ work.step = "idle"
      /\ f = "after" => checkpoints["before"].status = "ready"
      /\ checkpoints' = [checkpoints EXCEPT ![f].status = "capturing"]
      /\ was' = [was EXCEPT ![f] = [p \in Paths |-> {disk[p].state}]]
      /\ UNCHANGED <<disk, writes, bytes, changes>>
  BY DEF BeginCapture, Idle
<1>2. /\ work'.step = "collect" /\ work'.phase = f /\ work'.path = 1
      /\ work'.identity = 0 /\ work'.candidates = {}
  BY DEF BeginCapture, Idle
<1>3. work' \in Works
  <2>1. work' = [step |-> "collect", phase |-> f, path |-> 1, candidates |-> {},
                 identity |-> 0, content |-> Blank]
    BY DEF BeginCapture, Idle
  <2> QED  BY <2>1, CaptureConstants DEF Works
<1>4. /\ checkpoints[f].files = NoFiles
      /\ \A g \in Phases : checkpoints[g] \in CaptureRows
      /\ NoFiles \in FileMaps /\ DOMAIN NoFiles = {}
  BY <1>1, NoFilesTyped DEF CapTyped
<1>5. /\ checkpoints' \in [Phases -> CaptureRows]
      /\ checkpoints'[f].status = "capturing" /\ checkpoints'[f].files = NoFiles
      /\ \A g \in Phases : g # f => checkpoints'[g] = checkpoints[g]
  BY <1>1, <1>4 DEF CapTyped, CaptureRows
<1>6. /\ DOMAIN was' = Phases
      /\ \A g \in Phases : g # f => was'[g] = was[g]
      /\ DOMAIN was'[f] = Paths /\ \A p \in Paths : was'[f][p] = {disk[p].state}
  BY <1>1 DEF CapTyped
<1>7. \A g \in Phases : checkpoints[g].status # "capturing"
  BY <1>1 DEF OneCapture
<1>8. CapTyped'
  <2>1. \A g \in Phases : checkpoints'[g].status \in {"none", "failed"} =>
            checkpoints'[g].files = NoFiles
    BY <1>5 DEF CapTyped
  <2>2. \A g \in Phases : DOMAIN was'[g] = Paths
    BY <1>6 DEF CapTyped
  <2> QED  BY <1>1, <1>2, <1>3, <1>5, <1>6, <2>1, <2>2 DEF CapTyped
<1>9. OneCapture'
  <2>1. \A g \in Phases : checkpoints'[g].status = "capturing"
                            <=> work'.step # "idle" /\ work'.phase = g
    BY <1>2, <1>5, <1>7
  <2>2. checkpoints'["after"].status \in {"capturing", "ready"} =>
            checkpoints'["before"].status = "ready"
    <3>1. CASE f = "after"
      BY <1>1, <1>5, <3>1 DEF Phases
    <3>2. CASE f = "before"
      BY <1>1, <1>5, <3>2 DEF Phases, OneCapture
    <3> QED  BY <3>1, <3>2 DEF Phases
  <2>3. 1 \in Paths /\ 0 <= writes' /\ writes' = writes
    BY <1>1 DEF CapTyped
  <2> QED  BY <1>2, <2>1, <2>2, <2>3 DEF OneCapture
<1>10. ReadsAreTrue' /\ WalkIsComplete'
  <2>1. \A p \in Paths : disk'[p].state \in was'[f][p] /\ ~(p < 1)
    BY <1>1, <1>6
  <2> QED  BY <1>2, <2>1 DEF ReadsAreTrue, WalkIsComplete
<1>11. NamedFilesAreTrue'
  <2>1. \A g \in Phases : DOMAIN checkpoints'[g].files # {} => g # f
    BY <1>4, <1>5
  <2> QED  BY <1>1, <1>5, <1>6, <2>1 DEF NamedFilesAreTrue
<1>12. ReadyIsTrue'
  BY <1>5, <1>6 DEF ReadyIsTrue, Known
<1>13. ~changes.saved
  BY <1>1 DEF ChangesFollowManifests, Phases
<1>14. ChangesFollowManifests'
  BY <1>1, <1>13 DEF ChangesFollowManifests
<1> QED  BY <1>8, <1>9, <1>10, <1>11, <1>12, <1>14

\* A path is listed or was missing when the directory was read.
LEMMA CollectStep ==
    ASSUME MaxWrites \in Nat, NEW n \in Nat \ {0}, Paths = 1..n, CapInv, Collect
    PROVE  CapInv'
<1> USE DEF CapInv
<1> DEFINE f == work.phase
           w == Following(work.path, "collect")
<1>1. /\ work.step = "collect" /\ work.path \in Paths /\ work \in Works
      /\ work.candidates \in PathSets /\ f \in Phases
      /\ UNCHANGED <<disk, writes, checkpoints, bytes, changes, was>>
  BY DEF Collect, OneCapture, CapTyped, Works
<1>2. /\ w \in Works /\ w.phase = f /\ w.candidates = work.candidates
      /\ w.identity = work.identity
      /\ \/ w.step = "collect" /\ w.path = work.path + 1 /\ w.path \in Paths
         \/ /\ w.step = "stat" /\ w.path = 1 /\ w.path \in Paths
            /\ \A p \in Paths : p <= work.path
  BY <1>1, FollowingStep
<1>3. /\ work' \in Works /\ work'.phase = f /\ work'.identity = work.identity
      /\ work'.step = w.step /\ work'.path = w.path
      /\ work.candidates \subseteq work'.candidates
      /\ disk[work.path].state = Absent \/ work.path \in work'.candidates
  <2>1. CASE disk[work.path].state = Absent
    <3>1. work' = w
      BY <2>1 DEF Collect
    <3> HIDE DEF w
    <3> QED  BY <1>2, <2>1, <3>1
  <2>2. CASE disk[work.path].state # Absent
    <3>1. work' = [w EXCEPT !.candidates = @ \cup {work.path}]
      BY <2>2 DEF Collect
    <3>2. w.candidates \cup {work.path} \in PathSets
      BY <1>1, <1>2 DEF PathSets
    <3> HIDE DEF w
    <3> QED  BY <1>2, <3>1, <3>2 DEF Works
  <2> QED  BY <2>1, <2>2
<1> HIDE DEF w
<1>4. work'.step \in {"collect", "stat"} /\ work'.path \in Paths
  BY <1>2, <1>3
<1>5. CapTyped'
  BY <1>1, <1>3, <1>4 DEF CapTyped
<1>6. OneCapture'
  BY <1>1, <1>3, <1>4 DEF OneCapture
<1>7. ReadsAreTrue'
  BY <1>4 DEF ReadsAreTrue
<1>8. WalkIsComplete'
  <2>1. \A p \in Paths : disk'[p].state \in was'[f][p]
    BY <1>1 DEF WalkIsComplete
  <2>2. \A p \in Paths : p <= work.path => p \in work'.candidates \/ Absent \in was'[f][p]
    <3> SUFFICES ASSUME NEW p \in Paths, p <= work.path
                 PROVE  p \in work'.candidates \/ Absent \in was[f][p]
      BY <1>1
    <3>1. CASE p = work.path
      BY <1>1, <1>3, <3>1 DEF WalkIsComplete
    <3>2. CASE p # work.path
      <4>1. p < work.path
        BY <1>1, <3>2
      <4> QED  BY <1>1, <1>3, <4>1 DEF WalkIsComplete
    <3> QED  BY <3>1, <3>2
  <2>3. CASE work'.step = "collect"
    <3>1. \A p \in Paths : p < work'.path => p <= work.path
      BY <1>1, <1>2, <1>3, <2>3
    <3> QED  BY <1>3, <2>1, <2>2, <2>3, <3>1 DEF WalkIsComplete
  <2>4. CASE work'.step = "stat"
    <3>1. \A p \in Paths : p <= work.path /\ ~(p < work'.path)
      BY <1>2, <1>3, <2>4
    <3>2. \A p \in work'.candidates : p \in Paths
      BY <1>3 DEF Works, PathSets
    <3> QED  BY <1>3, <2>1, <2>2, <2>4, <3>1, <3>2 DEF WalkIsComplete
  <2> QED  BY <1>4, <2>3, <2>4
<1>9. NamedFilesAreTrue' /\ ReadyIsTrue' /\ ChangesFollowManifests'
  BY <1>1 DEF NamedFilesAreTrue, ReadyIsTrue, ChangesFollowManifests, Known, Changed, Differs
<1> QED  BY <1>5, <1>6, <1>7, <1>8, <1>9
LEMMA RecordedStep ==
    ASSUME CapInv, work.step # "idle", work.path \in Paths,
           NEW state \in States, Recorded(work.path, state)
    PROVE  /\ checkpoints' \in [Phases -> CaptureRows]
           /\ \A g \in Phases : checkpoints'[g].status = checkpoints[g].status
           /\ \A g \in Phases : g # work.phase => checkpoints'[g] = checkpoints[g]
           /\ DOMAIN checkpoints'[work.phase].files
                 = DOMAIN checkpoints[work.phase].files \cup {work.path}
           /\ checkpoints'[work.phase].files[work.path] = state
           /\ \A q \in DOMAIN checkpoints[work.phase].files : q # work.path =>
                 checkpoints'[work.phase].files[q] = checkpoints[work.phase].files[q]
<1> DEFINE f == work.phase
           files == checkpoints[f].files
           more == [q \in DOMAIN files \cup {work.path} |->
                       IF q = work.path THEN state ELSE files[q]]
<1>1. f \in Phases /\ checkpoints[f] \in CaptureRows /\ checkpoints \in [Phases -> CaptureRows]
  BY DEF CapInv, CapTyped, Works
<1>2. checkpoints' = [checkpoints EXCEPT ![f].files = more]
  BY DEF Recorded
<1>3. files \in FileMaps
  BY <1>1 DEF CaptureRows
<1>4. more \in FileMaps
  BY <1>3, FileMapGrows
<1>5. /\ DOMAIN more = DOMAIN files \cup {work.path} /\ more[work.path] = state
      /\ \A q \in DOMAIN files : q # work.path => more[q] = files[q]
  OBVIOUS
<1> HIDE DEF more
<1>6. /\ checkpoints'[f].files = more /\ checkpoints'[f].status = checkpoints[f].status
      /\ checkpoints'[f] \in CaptureRows
      /\ \A g \in Phases : g # f => checkpoints'[g] = checkpoints[g]
      /\ checkpoints' \in [Phases -> CaptureRows]
  BY <1>1, <1>2, <1>4 DEF CaptureRows
<1> QED  BY <1>5, <1>6

\* The walk goes on to the next path once the one it was at is accounted for.
LEMMA WalkGoesOn ==
    ASSUME MaxWrites \in Nat, NEW n \in Nat \ {0}, Paths = 1..n, CapInv,
           work.step \in {"stat", "check"},
           work' = Following(work.path, "stat"),
           UNCHANGED <<disk, writes, changes, was>>,
           checkpoints' \in [Phases -> CaptureRows],
           \A g \in Phases : checkpoints'[g].status = checkpoints[g].status,
           \A g \in Phases : g # work.phase => checkpoints'[g] = checkpoints[g],
           DOMAIN checkpoints[work.phase].files \subseteq DOMAIN checkpoints'[work.phase].files,
           work.path \in work.candidates => work.path \in DOMAIN checkpoints'[work.phase].files,
           DOMAIN bytes' = Phases
    PROVE  /\ CapTyped' /\ OneCapture' /\ ReadsAreTrue' /\ WalkIsComplete'
           /\ ReadyIsTrue' /\ ChangesFollowManifests'
<1> USE DEF CapInv
<1> DEFINE f == work.phase
<1>1. /\ work.path \in Paths /\ work \in Works /\ f \in Phases
      /\ work.candidates \in PathSets /\ checkpoints[f].status = "capturing"
  BY DEF OneCapture, CapTyped, Works
<1>2. /\ work' \in Works /\ work'.phase = f /\ work'.candidates = work.candidates
      /\ work'.identity = work.identity
      /\ \/ work'.step = "stat" /\ work'.path = work.path + 1 /\ work'.path \in Paths
         \/ /\ work'.step = "complete" /\ work'.path = 1
            /\ \A p \in Paths : p <= work.path
  BY <1>1, FollowingStep
<1>3. CapTyped'
  <2>1. \A g \in Phases : checkpoints'[g].status \in {"none", "failed"} =>
            checkpoints'[g].files = NoFiles
    BY <1>1 DEF CapTyped
  <2> QED  BY <1>2, <2>1 DEF CapTyped
<1>4. OneCapture'
  <2>1. work.step # "idle" /\ work'.step # "idle" /\ "before" \in Phases /\ "after" \in Phases
    BY <1>2 DEF Phases
  <2> QED  BY <1>2, <2>1 DEF OneCapture
<1>5. ReadsAreTrue'
  BY <1>2 DEF ReadsAreTrue
<1>6. WalkIsComplete'
  <2>1. /\ \A p \in Paths : disk'[p].state \in was'[f][p]
        /\ \A p \in Paths : p \in work.candidates \/ Absent \in was'[f][p]
        /\ \A p \in work.candidates : p < work.path => p \in DOMAIN checkpoints[f].files
    BY DEF WalkIsComplete
  <2>2. \A p \in work.candidates : p \in Paths
    BY <1>1 DEF PathSets
  <2>3. \A p \in work.candidates : p <= work.path => p \in DOMAIN checkpoints'[f].files
    <3> SUFFICES ASSUME NEW p \in work.candidates, p <= work.path
                 PROVE  p \in DOMAIN checkpoints'[f].files
      OBVIOUS
    <3>1. CASE p = work.path
      BY <3>1
    <3>2. CASE p # work.path
      <4>1. p < work.path
        BY <1>1, <2>2, <3>2
      <4> QED  BY <2>1, <4>1
    <3> QED  BY <3>1, <3>2
  <2>4. CASE work'.step = "stat"
    <3>1. \A p \in work.candidates : p < work'.path => p <= work.path
      BY <1>1, <1>2, <2>2, <2>4
    <3> QED  BY <1>2, <2>1, <2>3, <2>4, <3>1 DEF WalkIsComplete
  <2>5. CASE work'.step = "complete"
    <3>1. work.candidates \subseteq DOMAIN checkpoints'[f].files
      BY <1>2, <2>2, <2>3, <2>5
    <3> QED  BY <1>2, <2>1, <2>5, <3>1 DEF WalkIsComplete
  <2> QED  BY <1>2, <2>4, <2>5
<1>7. ReadyIsTrue'
  <2> SUFFICES ASSUME NEW g \in Phases, checkpoints'[g].status = "ready"
               PROVE  \A p \in Paths : Known(g, p)' \in was'[g][p]
    BY DEF ReadyIsTrue
  <2>1. checkpoints'[g] = checkpoints[g] /\ checkpoints[g].status = "ready"
    BY <1>1
  <2> QED  BY <2>1 DEF ReadyIsTrue, Known
<1>8. ChangesFollowManifests'
  <2>1. ~changes.saved
    BY <1>1 DEF ChangesFollowManifests, Phases
  <2> QED  BY <2>1 DEF ChangesFollowManifests
<1> QED  BY <1>3, <1>4, <1>5, <1>6, <1>7, <1>8

\* A path that was not listed is passed over; one that is gone is recorded as
\* missing; the identity of any other is taken before its bytes are read.
LEMMA StatStep ==
    ASSUME MaxWrites \in Nat, NEW n \in Nat \ {0}, Paths = 1..n, CapInv, Stat
    PROVE  CapInv'
<1> USE DEF CapInv
<1> DEFINE f == work.phase
<1>1. /\ work.step = "stat" /\ work.path \in Paths /\ work \in Works /\ f \in Phases
      /\ work.step # "idle"
      /\ UNCHANGED <<disk, writes, bytes, changes, was>>
      /\ checkpoints \in [Phases -> CaptureRows] /\ DOMAIN bytes = Phases
  BY DEF Stat, OneCapture, CapTyped, Works
<1>2. CASE work.path \notin work.candidates /\ work' = Following(work.path, "stat")
             /\ UNCHANGED checkpoints
  <2>1. NamedFilesAreTrue'
    BY <1>1, <1>2 DEF NamedFilesAreTrue
  <2> QED  BY <1>1, <1>2, <2>1, WalkGoesOn
<1>3. CASE /\ work.path \in work.candidates /\ disk[work.path].state = Absent
           /\ Recorded(work.path, Absent) /\ work' = Following(work.path, "stat")
  <2>1. /\ checkpoints' \in [Phases -> CaptureRows]
        /\ \A g \in Phases : checkpoints'[g].status = checkpoints[g].status
        /\ \A g \in Phases : g # f => checkpoints'[g] = checkpoints[g]
        /\ DOMAIN checkpoints'[f].files = DOMAIN checkpoints[f].files \cup {work.path}
        /\ checkpoints'[f].files[work.path] = Absent
        /\ \A q \in DOMAIN checkpoints[f].files : q # work.path =>
              checkpoints'[f].files[q] = checkpoints[f].files[q]
    BY <1>1, <1>3, RecordedStep, CaptureConstants
  <2>2. Absent \in was[f][work.path]
    BY <1>1, <1>3 DEF WalkIsComplete
  <2>3. NamedFilesAreTrue'
    <3> SUFFICES ASSUME NEW g \in Phases, NEW p \in DOMAIN checkpoints'[g].files
                 PROVE  LET state == checkpoints'[g].files[p]
                        IN  /\ state \in was[g][p]
                            /\ state # Absent => p \in DOMAIN bytes[g] /\ bytes[g][p] = state.text
      BY <1>1 DEF NamedFilesAreTrue
    <3>1. CASE g = f /\ p = work.path
      BY <2>1, <2>2, <3>1
    <3>2. CASE ~(g = f /\ p = work.path)
      <4>1. /\ p \in DOMAIN checkpoints[g].files
            /\ checkpoints'[g].files[p] = checkpoints[g].files[p]
        BY <2>1, <3>2
      <4> QED  BY <4>1 DEF NamedFilesAreTrue
    <3> QED  BY <3>1, <3>2
  <2>4. /\ DOMAIN checkpoints[f].files \subseteq DOMAIN checkpoints'[f].files
        /\ work.path \in DOMAIN checkpoints'[f].files
    BY <2>1
  <2> QED  BY <1>1, <1>3, <2>1, <2>3, <2>4, WalkGoesOn
<1>4. CASE /\ work.path \in work.candidates /\ UNCHANGED checkpoints
           /\ work' = [work EXCEPT !.step = "read", !.identity = disk[work.path].identity]
  <2>1. /\ disk[work.path].identity \in 0..MaxWrites
        /\ disk[work.path].identity <= writes
    BY <1>1 DEF CapTyped
  <2>2. /\ work' \in Works /\ work'.step = "read" /\ work'.phase = f
        /\ work'.path = work.path /\ work'.candidates = work.candidates
        /\ work'.identity = disk[work.path].identity
    <3>1. work \in Works
      BY <1>1
    <3> QED  BY <1>4, <2>1, <3>1 DEF Works
  <2>3. CapTyped' /\ OneCapture'
    BY <1>1, <1>4, <2>1, <2>2 DEF CapTyped, OneCapture
  <2>4. ReadsAreTrue' /\ WalkIsComplete'
    BY <1>1, <1>4, <2>2 DEF ReadsAreTrue, WalkIsComplete
  <2>5. NamedFilesAreTrue' /\ ReadyIsTrue' /\ ChangesFollowManifests'
    BY <1>1, <1>4 DEF NamedFilesAreTrue, ReadyIsTrue, ChangesFollowManifests, Known,
                      Changed, Differs
  <2> QED  BY <2>3, <2>4, <2>5
<1> QED  BY <1>2, <1>3, <1>4 DEF Stat
\* Half of the bytes, as they are at that moment.
LEMMA ReadStep ==
    ASSUME MaxWrites \in Nat, NEW n \in Nat \ {0}, Paths = 1..n, CapInv, Read
    PROVE  CapInv'
<1> USE DEF CapInv
<1> DEFINE text == disk[work.path].state.text
<1>1. /\ work.step \in {"read", "rest"} /\ work.path \in Paths /\ work \in Works
      /\ disk[work.path].state # Absent
      /\ UNCHANGED <<disk, writes, checkpoints, bytes, changes, was>>
  BY DEF Read, OneCapture, CapTyped
<1>2. text \in FileTexts
  <2>1. disk[work.path].state \in States
    BY <1>1 DEF CapTyped
  <2>2. PICK t \in FileTexts : disk[work.path].state = File(t)
    BY <1>1, <2>1 DEF States
  <2> QED  BY <2>2 DEF File
<1>3. /\ work' \in Works /\ work'.phase = work.phase /\ work'.path = work.path
      /\ work'.candidates = work.candidates /\ work'.identity = work.identity
      /\ \/ work.step = "read" /\ work'.step = "rest" /\ work'.content[1] = text[1]
         \/ /\ work.step = "rest" /\ work'.step = "check"
            /\ work'.content[1] = work.content[1] /\ work'.content[2] = text[2]
  <2>0. /\ text[1] \in 0..MaxWrites /\ text[2] \in 0..MaxWrites
        /\ work.content \in FileTexts /\ 1 \in Halves /\ 2 \in Halves
    BY <1>1, <1>2 DEF FileTexts, Halves, Works
  <2>1. CASE work.step = "read"
    <3> DEFINE half == [work.content EXCEPT ![1] = text[1]]
    <3>1. work' = [work EXCEPT !.step = "rest", !.content = half]
      BY <2>1 DEF Read
    <3>2. half \in FileTexts /\ half[1] = text[1]
      BY <2>0 DEF FileTexts
    <3> HIDE DEF half
    <3> QED  BY <1>1, <2>1, <3>1, <3>2 DEF Works
  <2>2. CASE work.step = "rest"
    <3> DEFINE whole == [work.content EXCEPT ![2] = text[2]]
    <3>1. work' = [work EXCEPT !.step = "check", !.content = whole]
      BY <2>2 DEF Read
    <3>2. whole \in FileTexts /\ whole[2] = text[2] /\ whole[1] = work.content[1]
      BY <2>0 DEF FileTexts
    <3> HIDE DEF whole
    <3> QED  BY <1>1, <2>2, <3>1, <3>2 DEF Works
  <2> QED  BY <1>1, <2>1, <2>2
<1>4. CapTyped' /\ OneCapture'
  BY <1>1, <1>3 DEF CapTyped, OneCapture
<1>5. ReadsAreTrue'
  <2>1. SameIdentity(work.path)' <=> SameIdentity(work.path)
    BY <1>1, <1>3 DEF SameIdentity
  <2>2. CASE work.step = "read"
    BY <1>1, <1>3, <2>2 DEF ReadsAreTrue
  <2>3. CASE work.step = "rest"
    BY <1>1, <1>3, <2>1, <2>3 DEF ReadsAreTrue
  <2> QED  BY <1>1, <2>2, <2>3
<1>6. WalkIsComplete'
  BY <1>1, <1>3 DEF WalkIsComplete
<1>7. NamedFilesAreTrue' /\ ReadyIsTrue' /\ ChangesFollowManifests'
  BY <1>1 DEF NamedFilesAreTrue, ReadyIsTrue, ChangesFollowManifests, Known, Changed, Differs
<1> QED  BY <1>4, <1>5, <1>6, <1>7

\* A file that still has its identity is copied: the copy is a version it had.
LEMMA CheckStep ==
    ASSUME MaxWrites \in Nat, NEW n \in Nat \ {0}, Paths = 1..n, CapInv, Check
    PROVE  CapInv'
<1> USE DEF CapInv
<1> DEFINE f == work.phase
           state == File(work.content)
           copied == [q \in DOMAIN bytes[f] \cup {work.path} |->
                         IF q = work.path THEN work.content ELSE bytes[f][q]]
<1>1. /\ work.step = "check" /\ work.path \in Paths /\ work \in Works /\ f \in Phases
      /\ work.step # "idle" /\ SameIdentity(work.path)
      /\ work' = Following(work.path, "stat")
      /\ Recorded(work.path, state) /\ WriteBytes(work.path)
      /\ UNCHANGED <<disk, writes, changes, was>>
      /\ work.content \in FileTexts /\ state \in States
  BY DEF Check, OneCapture, CapTyped, Works, States
<1>2. disk[work.path].state = state
  <2>1. disk[work.path].state \in States /\ disk[work.path].state # Absent
    BY <1>1 DEF CapTyped, SameIdentity
  <2>2. PICK t \in FileTexts : disk[work.path].state = File(t)
    BY <2>1 DEF States
  <2>3. work.content[1] = t[1] /\ work.content[2] = t[2]
    BY <1>1, <2>2 DEF ReadsAreTrue, File
  <2>4. \A h \in Halves : work.content[h] = t[h]
    BY <2>3 DEF Halves
  <2>5. work.content = t
    BY <1>1, <2>2, <2>4 DEF FileTexts
  <2> QED  BY <2>2, <2>5
<1>3. /\ DOMAIN bytes' = Phases /\ bytes'[f] = copied
      /\ \A g \in Phases : g # f => bytes'[g] = bytes[g]
  BY <1>1 DEF WriteBytes, CapTyped
<1>4. /\ work.path \in DOMAIN copied /\ copied[work.path] = work.content
      /\ \A q \in DOMAIN bytes[f] : q \in DOMAIN copied
      /\ \A q \in DOMAIN bytes[f] : q # work.path => copied[q] = bytes[f][q]
  OBVIOUS
<1> HIDE DEF copied
<1>5. /\ checkpoints' \in [Phases -> CaptureRows]
      /\ \A g \in Phases : checkpoints'[g].status = checkpoints[g].status
      /\ \A g \in Phases : g # f => checkpoints'[g] = checkpoints[g]
      /\ DOMAIN checkpoints'[f].files = DOMAIN checkpoints[f].files \cup {work.path}
      /\ checkpoints'[f].files[work.path] = state
      /\ \A q \in DOMAIN checkpoints[f].files : q # work.path =>
            checkpoints'[f].files[q] = checkpoints[f].files[q]
  BY <1>1, RecordedStep
<1>6. state \in was[f][work.path] /\ state.text = work.content
  BY <1>1, <1>2 DEF WalkIsComplete, File
<1>7. NamedFilesAreTrue'
  <2> HIDE DEF state
  <2> SUFFICES ASSUME NEW g \in Phases, NEW p \in DOMAIN checkpoints'[g].files
               PROVE  LET s == checkpoints'[g].files[p]
                      IN  /\ s \in was[g][p]
                          /\ s # Absent => p \in DOMAIN bytes'[g] /\ bytes'[g][p] = s.text
    BY <1>1 DEF NamedFilesAreTrue
  <2>1. CASE g = f /\ p = work.path
    BY <1>3, <1>4, <1>5, <1>6, <2>1
  <2>2. CASE ~(g = f /\ p = work.path)
    <3>1. /\ p \in DOMAIN checkpoints[g].files
          /\ checkpoints'[g].files[p] = checkpoints[g].files[p]
      BY <1>5, <2>2
    <3>2. p \in DOMAIN bytes[g] => p \in DOMAIN bytes'[g] /\ bytes'[g][p] = bytes[g][p]
      BY <1>3, <1>4, <2>2
    <3> QED  BY <3>1, <3>2 DEF NamedFilesAreTrue
  <2> QED  BY <2>1, <2>2
<1>8. /\ DOMAIN checkpoints[f].files \subseteq DOMAIN checkpoints'[f].files
      /\ work.path \in DOMAIN checkpoints'[f].files
  BY <1>5
<1> QED  BY <1>1, <1>3, <1>5, <1>7, <1>8, WalkGoesOn

\* A capture given up, whatever of its copies is left.
LEMMA GiveUpStep ==
    ASSUME MaxWrites \in Nat, CapInv, work.step # "idle", work' = Idle,
           checkpoints' = [checkpoints EXCEPT ![work.phase] =
                              [status |-> "failed", files |-> NoFiles]],
           UNCHANGED <<disk, writes, changes, was>>, DOMAIN bytes' = Phases,
           \A g \in Phases : g # work.phase => bytes'[g] = bytes[g]
    PROVE  CapInv'
<1> USE DEF CapInv
<1> DEFINE f == work.phase
<1>1. f \in Phases /\ checkpoints[f].status = "capturing"
  BY DEF OneCapture, CapTyped, Works
<1>2. /\ work'.step = "idle" /\ work' \in Works /\ work'.identity = 0
  BY CaptureConstants DEF Idle
<1>3. [status |-> "failed", files |-> NoFiles] \in CaptureRows /\ DOMAIN NoFiles = {}
  BY NoFilesTyped DEF CaptureRows
<1>4. /\ checkpoints' \in [Phases -> CaptureRows]
      /\ checkpoints'[f].status = "failed" /\ checkpoints'[f].files = NoFiles
      /\ \A g \in Phases : g # f => checkpoints'[g] = checkpoints[g]
  BY <1>1, <1>3 DEF CapTyped
<1>5. CapTyped'
  <2>1. \A g \in Phases : checkpoints'[g].status \in {"none", "failed"} =>
            checkpoints'[g].files = NoFiles
    BY <1>4 DEF CapTyped
  <2> QED  BY <1>2, <1>4, <2>1 DEF CapTyped
<1>6. OneCapture'
  <2>1. \A g \in Phases : checkpoints'[g].status # "capturing"
    BY <1>4 DEF OneCapture
  <2>2. checkpoints'["after"].status = "ready" => checkpoints'["before"].status = "ready"
    <3>1. f = "before" => checkpoints["after"].status # "ready"
      BY <1>1 DEF OneCapture
    <3> QED  BY <1>1, <1>4, <3>1 DEF OneCapture, Phases
  <2>3. 0 <= writes' /\ "after" \in Phases
    BY DEF CapTyped, Phases
  <2> QED  BY <1>2, <2>1, <2>2, <2>3 DEF OneCapture
<1>7. ReadsAreTrue' /\ WalkIsComplete'
  BY <1>2 DEF ReadsAreTrue, WalkIsComplete
<1>8. NamedFilesAreTrue'
  <2>1. \A g \in Phases : DOMAIN checkpoints'[g].files # {} => g # f
    BY <1>3, <1>4
  <2> QED  BY <1>4, <2>1 DEF NamedFilesAreTrue
<1>9. ReadyIsTrue'
  BY <1>4 DEF ReadyIsTrue, Known
<1>10. ~changes.saved
  BY <1>1 DEF ChangesFollowManifests, Phases
<1> QED  BY <1>5, <1>6, <1>7, <1>8, <1>9, <1>10 DEF ChangesFollowManifests

\* The manifest closes; the AFTER manifest gives the change set.
LEMMA CompleteStep ==
    ASSUME MaxWrites \in Nat, CapInv, Complete
    PROVE  CapInv'
<1> USE DEF CapInv
<1> DEFINE f == work.phase
<1>1. /\ work.step = "complete" /\ work \in Works /\ f \in Phases
      /\ checkpoints[f].status = "capturing" /\ work' = Idle
      /\ checkpoints' = [checkpoints EXCEPT ![f].status = "ready"]
      /\ UNCHANGED <<disk, writes, bytes, was>>
  BY DEF Complete, OneCapture, CapTyped, Works
<1>2. work'.step = "idle" /\ work' \in Works /\ work'.identity = 0
  BY <1>1, CaptureConstants DEF Idle
<1>3. /\ checkpoints' \in [Phases -> CaptureRows] /\ checkpoints'[f].status = "ready"
      /\ \A g \in Phases : checkpoints'[g].files = checkpoints[g].files
      /\ \A g \in Phases : g # f => checkpoints'[g] = checkpoints[g]
  BY <1>1 DEF CapTyped, CaptureRows
<1>4. CapTyped'
  <2>1. \A g \in Phases : checkpoints'[g].status \in {"none", "failed"} =>
            checkpoints'[g].files = NoFiles
    BY <1>3 DEF CapTyped
  <2> QED  BY <1>1, <1>2, <1>3, <2>1 DEF CapTyped
<1>5. OneCapture'
  <2>1. \A g \in Phases : checkpoints'[g].status # "capturing"
    BY <1>1, <1>3 DEF OneCapture
  <2>2. checkpoints'["after"].status = "ready" => checkpoints'["before"].status = "ready"
    BY <1>1, <1>3 DEF OneCapture, Phases
  <2>3. 0 <= writes' /\ "after" \in Phases
    BY <1>1 DEF CapTyped, Phases
  <2> QED  BY <1>2, <2>1, <2>2, <2>3 DEF OneCapture
<1>6. ReadsAreTrue' /\ WalkIsComplete'
  BY <1>2 DEF ReadsAreTrue, WalkIsComplete
<1>7. NamedFilesAreTrue'
  BY <1>1, <1>3 DEF NamedFilesAreTrue
<1>8. \A g \in Phases, p \in Paths : Known(g, p)' = Known(g, p)
  BY <1>3 DEF Known
<1>9. ReadyIsTrue'
  <2>1. \A p \in Paths : Known(f, p) \in was[f][p]
    <3> SUFFICES ASSUME NEW p \in Paths PROVE Known(f, p) \in was[f][p]
      OBVIOUS
    <3>1. CASE p \in DOMAIN checkpoints[f].files
      BY <1>1, <3>1 DEF NamedFilesAreTrue, Known
    <3>2. CASE p \notin DOMAIN checkpoints[f].files
      BY <1>1, <3>2 DEF WalkIsComplete, Known
    <3> QED  BY <3>1, <3>2
  <2> QED  BY <1>1, <1>3, <1>8, <2>1 DEF ReadyIsTrue
<1>10. ChangesFollowManifests'
  <2>1. Changed' = Changed
    BY <1>8 DEF Changed, Differs, Phases
  <2>2. CASE f = "before"
    <3>1. ~changes.saved /\ changes' = changes
      BY <1>1, <2>2 DEF Complete, ChangesFollowManifests
    <3> QED  BY <3>1 DEF ChangesFollowManifests
  <2>3. CASE f = "after"
    <3>1. DOMAIN changes'.ops = Changed
      BY <2>3 DEF Complete, SaveChanges
    <3>2. checkpoints["before"].status = "ready"
      BY <1>1, <2>3 DEF OneCapture
    <3> QED  BY <1>3, <2>1, <2>3, <3>1, <3>2 DEF ChangesFollowManifests, Phases
  <2> QED  BY <1>1, <2>2, <2>3 DEF Phases
<1> QED  BY <1>4, <1>5, <1>6, <1>7, <1>9, <1>10

LEMMA CapStep ==
    ASSUME MaxWrites \in Nat, NEW n \in Nat \ {0}, Paths = 1..n, CapInv, [CapNext]_capVars
    PROVE  CapInv'
<1>1. CASE \E p \in Paths : Unlink(p) \/ \E half \in Halves : WriteHalf(p, half)
  BY <1>1, WriteStep
<1>2. CASE \E f \in Phases : BeginCapture(f)
  BY <1>2, BeginCaptureStep
<1>3. CASE Collect \/ Stat \/ Read \/ Check
  BY <1>3, CollectStep, StatStep, ReadStep, CheckStep
<1>4. CASE Complete
  BY <1>4, CompleteStep
<1>5. CASE StoreFails \/ CompleteFails \/ CrashCapture
  <2>1. DOMAIN bytes = Phases /\ work.phase \in Phases
    BY DEF CapInv, CapTyped, Works
  <2>2. /\ work.step # "idle" /\ work' = Idle
        /\ checkpoints' = [checkpoints EXCEPT ![work.phase] =
                              [status |-> "failed", files |-> NoFiles]]
        /\ UNCHANGED <<disk, writes, changes, was>>
        /\ bytes' = bytes \/ bytes' = [bytes EXCEPT ![work.phase] = <<>>]
    BY <1>5 DEF StoreFails, CompleteFails, CrashCapture, CapInv, CapTyped
  <2>3. DOMAIN bytes' = Phases /\ \A g \in Phases : g # work.phase => bytes'[g] = bytes[g]
    BY <2>1, <2>2
  <2> QED  BY <2>2, <2>3, GiveUpStep
<1>6. CASE UNCHANGED capVars
  BY <1>6 DEF capVars, CapInv, CapTyped, OneCapture, ReadsAreTrue, WalkIsComplete,
              NamedFilesAreTrue, ReadyIsTrue, ChangesFollowManifests, SameIdentity,
              Known, Changed, Differs
<1> QED  BY <1>1, <1>2, <1>3, <1>4, <1>5, <1>6 DEF CapNext

(* Whoever writes while the files are copied: a manifest that is ready names,  *)
(* of every path, a state the file had during the capture, never a mixture of  *)
(* two versions, with its bytes in the store; and the change set of the two    *)
(* manifests leaves out a file that stood still and holds one that had no      *)
(* state in common (WorkspaceCheckpointStore.ts, ChangeCaptureService.ts).       *)
THEOREM ManifestsTellTheDisk ==
    ASSUME MaxWrites \in Nat, NEW n \in Nat \ {0}, Paths = 1..n
    PROVE  CapSpec => [](CapTypeOK /\ ManifestsAreTrue /\ ChangesAreTrue)
<1>1. CapInit => CapInv
  <2> SUFFICES ASSUME CapInit PROVE CapInv
    OBVIOUS
  <2>1. /\ \A f \in Phases : checkpoints[f].status = "none" /\ checkpoints[f].files = NoFiles
        /\ checkpoints = [f \in Phases |-> [status |-> "none", files |-> NoFiles]]
        /\ work = Idle /\ writes = 0 /\ changes = NoChanges
        /\ "before" \in Phases /\ "after" \in Phases
    BY DEF CapInit, Phases
  <2>2. /\ disk \in [Paths -> [state : States, identity : 0..MaxWrites]]
        /\ \A p \in Paths : disk[p].identity = 0
    <3>1. /\ [state |-> Absent, identity |-> 0] \in [state : States, identity : 0..MaxWrites]
          /\ [state |-> File(Blank), identity |-> 0] \in [state : States, identity : 0..MaxWrites]
      BY CaptureConstants DEF States
    <3> DEFINE missing == [state |-> Absent, identity |-> 0]
               blank == [state |-> File(Blank), identity |-> 0]
               Files == [state : States, identity : 0..MaxWrites]
    <3>2. disk \in [Paths -> {missing, blank}]
      BY DEF CapInit
    <3>3. missing.identity = 0 /\ blank.identity = 0
      OBVIOUS
    <3>4. missing \in Files /\ blank \in Files
      BY <3>1
    <3> HIDE DEF missing, blank, Files
    <3>5. disk \in [Paths -> Files] /\ \A p \in Paths : disk[p].identity = 0
      BY <3>2, <3>3, <3>4
    <3> QED  BY <3>5 DEF Files
  <2>3. /\ DOMAIN NoFiles = {}
        /\ checkpoints \in [Phases -> CaptureRows]
    BY <2>1, NoFilesTyped DEF CaptureRows
  <2>4. /\ DOMAIN bytes = Phases /\ DOMAIN was = Phases
        /\ \A f \in Phases : DOMAIN was[f] = Paths
    BY DEF CapInit
  <2>5. CapTyped
    BY <2>1, <2>2, <2>3, <2>4, CaptureConstants DEF CapTyped
  <2>6. OneCapture
    BY <2>1, CaptureConstants DEF OneCapture, Idle
  <2>7. ReadsAreTrue /\ WalkIsComplete /\ NamedFilesAreTrue /\ ReadyIsTrue
    BY <2>1, <2>3, CaptureConstants DEF ReadsAreTrue, WalkIsComplete, NamedFilesAreTrue,
                                        ReadyIsTrue
  <2> QED  BY <2>1, <2>5, <2>6, <2>7 DEF CapInv, ChangesFollowManifests, NoChanges
<1>2. CapInv /\ [CapNext]_capVars => CapInv'
  BY CapStep
<1>3. CapInv => CapTypeOK /\ ManifestsAreTrue /\ ChangesAreTrue
  <2> SUFFICES ASSUME CapInv PROVE CapTypeOK /\ ManifestsAreTrue /\ ChangesAreTrue
    OBVIOUS
  <2>1. CapTypeOK
    <3>1. \A f \in Phases : checkpoints[f] \in CheckpointRows
      BY DEF CapInv, CapTyped, CheckpointRows, CaptureRows, FileMaps
    <3> QED  BY <3>1 DEF CapInv, CapTyped, CapTypeOK, Works
  <2>2. ManifestsAreTrue
    <3> SUFFICES ASSUME NEW f \in Phases, checkpoints[f].status = "ready", NEW p \in Paths
                 PROVE  /\ Known(f, p) \in was[f][p]
                        /\ Known(f, p) # Absent => /\ p \in DOMAIN bytes[f]
                                                   /\ bytes[f][p] = Known(f, p).text
      BY DEF ManifestsAreTrue
    <3>1. Known(f, p) \in was[f][p]
      BY DEF CapInv, ReadyIsTrue
    <3>2. Known(f, p) # Absent => /\ p \in DOMAIN checkpoints[f].files
                                  /\ Known(f, p) = checkpoints[f].files[p]
      BY DEF Known
    <3> QED  BY <3>1, <3>2 DEF CapInv, NamedFilesAreTrue
  <2>3. ChangesAreTrue
    <3> SUFFICES ASSUME changes.saved, NEW p \in Paths
                 PROVE  /\ \A s \in was["after"][p] :
                              was["before"][p] = {s} /\ was["after"][p] = {s} =>
                                 p \notin DOMAIN changes.ops
                        /\ was["before"][p] \cap was["after"][p] = {} => p \in DOMAIN changes.ops
      BY DEF ChangesAreTrue
    <3>1. /\ Known("before", p) \in was["before"][p] /\ Known("after", p) \in was["after"][p]
          /\ DOMAIN changes.ops = Changed
      BY DEF CapInv, ChangesFollowManifests, ReadyIsTrue, Phases
    <3> QED  BY <3>1 DEF Changed, Differs
  <2> QED  BY <2>1, <2>2, <2>3
<1> QED  BY <1>1, <1>2, <1>3, PTL DEF CapSpec

-----------------------------------------------------------------------------
(* Documents.  An update whose last look is behind it replaces what it saw    *)
(* then, or its mark says that the document changed since.                    *)

Pieces == Seq(Updates \cup {"text", "edit"})
MarkdownFiles == [exists : BOOLEAN, pieces : Pieces]
DocUpdates == [step : {"idle", "previewed", "written", "checked", "applied", "refused"},
               strategy : {"append", "replace"}, expected : MarkdownFiles,
               content : Pieces, overtaken : BOOLEAN]

DocTyped == document \in MarkdownFiles /\ updates \in [Updates -> DocUpdates]

ChecksAreFresh ==
    \A u \in Updates : updates[u].step = "checked" /\ ~updates[u].overtaken
                       => document = updates[u].expected

DocInv == DocTyped /\ ChecksAreFresh

LEMMA DocConstants ==
    /\ <<>> \in Pieces /\ <<"text">> \in Pieces
    /\ NoDocument \in MarkdownFiles
    /\ \A ps \in Pieces : Append(ps, "edit") \in Pieces /\ Document(ps) \in MarkdownFiles
    /\ \A ps \in Pieces, u \in Updates, strategy \in {"append", "replace"} :
           Merge(ps, u, strategy) \in Pieces
<1>1. <<>> \in Pieces /\ <<"text">> \in Pieces
  BY DEF Pieces
<1>2. \A ps \in Pieces : Append(ps, "edit") \in Pieces
  BY DEF Pieces
<1>3. ASSUME NEW ps \in Pieces, NEW u \in Updates
      PROVE  <<u>> \in Pieces /\ Append(ps, u) \in Pieces
  BY DEF Pieces
<1>4. NoDocument \in MarkdownFiles /\ \A ps \in Pieces : Document(ps) \in MarkdownFiles
  <2>1. FALSE \in BOOLEAN /\ TRUE \in BOOLEAN
    OBVIOUS
  <2> QED  BY <1>1, <2>1 DEF NoDocument, Document, MarkdownFiles
<1> QED  BY <1>1, <1>2, <1>3, <1>4 DEF Merge

\* What marks the updates behind their last look marks exactly those.
LEMMA OvertakingMarks ==
    ASSUME DocTyped
    PROVE  /\ Overtaking("checked") \in [Updates -> DocUpdates]
           /\ \A u \in Updates :
                  /\ Overtaking("checked")[u].step = updates[u].step
                  /\ updates[u].step = "checked" => Overtaking("checked")[u].overtaken
BY DEF DocTyped, Overtaking, DocUpdates

\* A step of update u that leaves the document alone.
LEMMA OwnStep ==
    ASSUME DocInv, NEW u \in Updates, NEW next \in DocUpdates,
           updates' = [updates EXCEPT ![u] = next], document' = document,
           next.step = "checked" /\ ~next.overtaken => document = next.expected
    PROVE  DocInv'
<1>1. /\ updates' \in [Updates -> DocUpdates] /\ updates'[u] = next
      /\ \A v \in Updates : v # u => updates'[v] = updates[v]
  BY DEF DocInv, DocTyped
<1> QED  BY <1>1 DEF DocInv, DocTyped, ChecksAreFresh

LEMMA DocStep ==
    ASSUME DocInv, DocNext PROVE DocInv'
<1> USE DEF DocInv
<1>1. ASSUME EditDocument PROVE DocInv'
  <2>1. updates' = Overtaking("checked") /\ document' \in MarkdownFiles
    <3>1. document.pieces \in Pieces
      BY DEF DocTyped, MarkdownFiles
    <3> QED  BY <1>1, <3>1, DocConstants DEF EditDocument
  <2> QED  BY <2>1, OvertakingMarks DEF DocTyped, ChecksAreFresh
<1>2. ASSUME NEW u \in Updates, Preview(u) PROVE DocInv'
  <2> DEFINE next == [updates[u] EXCEPT !.step = "previewed", !.expected = document]
  <2>1. next \in DocUpdates /\ next.step = "previewed"
    BY DEF DocTyped, DocUpdates
  <2>2. updates' = [updates EXCEPT ![u] = next] /\ document' = document
    BY <1>2 DEF Preview
  <2> HIDE DEF next
  <2> QED  BY <2>1, <2>2, OwnStep
<1>3. ASSUME NEW u \in Updates, NEW strategy \in {"append", "replace"}, Apply(u, strategy)
      PROVE  DocInv'
  <2> DEFINE next == IF document # updates[u].expected
                     THEN [updates[u] EXCEPT !.step = "refused"]
                     ELSE [updates[u] EXCEPT !.step = "written", !.strategy = strategy,
                               !.content = Merge(document.pieces, u, strategy)]
  <2>1. next \in DocUpdates /\ next.step # "checked"
    <3>1. document.pieces \in Pieces /\ updates[u] \in DocUpdates
      BY DEF DocTyped, MarkdownFiles
    <3>2. Merge(document.pieces, u, strategy) \in Pieces
      BY <3>1, DocConstants
    <3> QED  BY <3>1, <3>2 DEF DocUpdates
  <2>2. updates' = [updates EXCEPT ![u] = next] /\ document' = document
    BY <1>3 DEF Apply
  <2> HIDE DEF next
  <2> QED  BY <2>1, <2>2, OwnStep
<1>4. ASSUME NEW u \in Updates, CheckAgain(u) PROVE DocInv'
  <2> DEFINE next == [updates[u] EXCEPT
                         !.step = IF UnchangedDocument(u) THEN "checked" ELSE "refused"]
  <2>1. next \in DocUpdates /\ (next.step = "checked" => document = next.expected)
    BY DEF DocTyped, DocUpdates, UnchangedDocument
  <2>2. updates' = [updates EXCEPT ![u] = next] /\ document' = document
    BY <1>4 DEF CheckAgain
  <2> HIDE DEF next
  <2> QED  BY <2>1, <2>2, OwnStep
<1>5. ASSUME NEW u \in Updates, ReplaceDocument(u) PROVE DocInv'
  <2> DEFINE next == [updates[u] EXCEPT !.step = "applied"]
  <2>1. /\ next \in DocUpdates /\ next.step = "applied"
        /\ updates[u].content \in Pieces
    BY DEF DocTyped, DocUpdates
  <2>2. updates' = [Overtaking("checked") EXCEPT ![u] = next]
        /\ document' = Document(updates[u].content)
    BY <1>5 DEF ReplaceDocument
  <2> HIDE DEF next
  <2>3. /\ updates' \in [Updates -> DocUpdates] /\ updates'[u] = next
        /\ \A v \in Updates : v # u => updates'[v] = Overtaking("checked")[v]
    BY <2>1, <2>2, OvertakingMarks
  <2>4. document' \in MarkdownFiles
    BY <2>1, <2>2, DocConstants
  <2> QED  BY <2>1, <2>3, <2>4, OvertakingMarks DEF DocTyped, ChecksAreFresh
<1>6. ASSUME NEW u \in Updates, UpdateFails(u) PROVE DocInv'
  <2> DEFINE next == [updates[u] EXCEPT !.step = "refused"]
  <2>1. next \in DocUpdates /\ next.step = "refused"
    BY DEF DocTyped, DocUpdates
  <2>2. updates' = [updates EXCEPT ![u] = next] /\ document' = document
    BY <1>6 DEF UpdateFails
  <2> HIDE DEF next
  <2> QED  BY <2>1, <2>2, OwnStep
<1> QED  BY <1>1, <1>2, <1>3, <1>4, <1>5, <1>6 DEF DocNext

LEMMA DocumentsHold == DocSpec => []DocInv
<1>1. DocInit => DocInv
  <2> SUFFICES ASSUME DocInit PROVE DocInv
    OBVIOUS
  <2>1. NotAsked \in DocUpdates /\ NotAsked.step = "idle"
    BY DocConstants DEF NotAsked, DocUpdates
  <2>2. document \in MarkdownFiles
    BY DocConstants DEF DocInit
  <2>3. updates \in [Updates -> DocUpdates] /\ \A u \in Updates : updates[u] = NotAsked
    BY <2>1 DEF DocInit
  <2> QED  BY <2>1, <2>2, <2>3 DEF DocInv, DocTyped, ChecksAreFresh
<1>2. DocInv /\ [DocNext]_docVars => DocInv'
  BY DocStep DEF docVars, DocInv, DocTyped, ChecksAreFresh
<1> QED  BY <1>1, <1>2, PTL DEF DocSpec

(* Whoever edits the document and however many updates are previewed at once:  *)
(* an update replaces the text its preview showed and no other, unless the     *)
(* document changed between its last look and the rename                       *)
(* (DocumentUpdateService.ts).                                                 *)
THEOREM PreviewsAreReplaced == DocSpec => [][PreviewedTextReplaced]_docVars
<1>1. DocInv => PreviewedTextReplaced
  BY DEF DocInv, ChecksAreFresh, PreviewedTextReplaced
<1> QED  BY <1>1, DocumentsHold, PTL

-----------------------------------------------------------------------------
(* The export: only the whole output of a command that ended is produced.      *)

ExpInv ==
    /\ export \in [step : {"idle", "waiting", "produced", "failed", "done", "ended"},
                   process : {"none", "running", "gone"},
                   output : {"none", "part", "whole"}, timedOut : BOOLEAN]
    /\ target \in {"none", "whole"}
    /\ export.step = "idle" => export.process = "none"
    /\ export.step = "produced" => export.process = "gone" /\ export.output = "whole"

LEMMA ExpStep == ASSUME ExpInv, ExpNext PROVE ExpInv'
<1> USE DEF ExpInv
<1>1. ASSUME StartExport PROVE ExpInv'
  BY <1>1 DEF StartExport
<1>2. ASSUME WriteOutput PROVE ExpInv'
  BY <1>2 DEF WriteOutput
<1>3. ASSUME NEW code \in 0 .. 1, ExportCloses(code) PROVE ExpInv'
  BY <1>3 DEF ExportCloses, Success
<1>4. ASSUME ExportErrs PROVE ExpInv'
  BY <1>4 DEF ExportErrs
<1>5. ASSUME ExportTimesOut PROVE ExpInv'
  BY <1>5 DEF ExportTimesOut
<1>6. ASSUME ExportKilled PROVE ExpInv'
  BY <1>6 DEF ExportKilled
<1>7. ASSUME ExportRenames PROVE ExpInv'
  BY <1>7 DEF ExportRenames
<1>8. ASSUME ExportUnlinks PROVE ExpInv'
  BY <1>8 DEF ExportUnlinks
<1> QED  BY <1>1, <1>2, <1>3, <1>4, <1>5, <1>6, <1>7, <1>8 DEF ExpNext

(* Whatever the command does, whenever it ends and whichever timer fires, the  *)
(* exported file is absent or the whole output (registerDocumentsIpc.ts).      *)
THEOREM OnlyWholeExports == ExpSpec => [](ExpTypeOK /\ ExportsAreWhole)
<1>1. ExpInit => ExpInv
  BY DEF ExpInit, NotExporting, ExpInv
<1>2. ExpInv /\ [ExpNext]_expVars => ExpInv'
  BY ExpStep DEF expVars, ExpInv
<1>3. ExpInv => ExpTypeOK /\ ExportsAreWhole
  BY DEF ExpInv, ExpTypeOK, ExportsAreWhole
<1> QED  BY <1>1, <1>2, <1>3, PTL DEF ExpSpec

-----------------------------------------------------------------------------
(* Providers.  While an operation goes on, the vault holds at most one        *)
(* reference more than the rows: the one it made, or the one it will delete.  *)

ModelListings == [adapter : Nat, number : 0..MaxListings]
ModelRefreshes == [id : ProviderIds, latest : BOOLEAN, listing : ModelListings]
OperationSteps == {"validating", "storing", "saving", "undoing", "replacing", "disposing",
                   "forgetting"}
Operations == [kind : {"create", "update", "remove"}, id : ProviderIds, step : OperationSteps,
               change : {"set", "clear", "keep"}, old : 0..MaxRefs, new : 0..MaxRefs]
Initializing == [kind |-> "initialize", step |-> "pruning"]

ProvTyped ==
    /\ provRows \in [ProviderIds -> ProviderRows] /\ vault \subseteq 1..MaxRefs
    /\ adapters \in [ProviderIds -> Nat]
    /\ models \in [ProviderIds -> ModelListings] /\ catalog \in [ProviderIds -> ModelListings]
    /\ drawn \in [adapter : Nat, reference : 0..MaxRefs, listing : 0..MaxListings]
    /\ refreshes \subseteq ModelRefreshes
    /\ untidy \subseteq {"vault", "import", "models"}
    /\ operation \in {NoOperation, Initializing} \cup Operations

OperationInOrder ==
    /\ operation = Initializing => "vault" \in untidy
    /\ operation \in Operations =>
        /\ operation.kind = "create" =>
               /\ operation.step \in {"validating", "storing", "saving", "undoing"}
               /\ operation.change # "clear"
        /\ operation.kind = "update" =>
               operation.step \in {"validating", "storing", "saving", "undoing", "replacing"}
        /\ operation.kind = "remove" => operation.step \in {"disposing", "forgetting"}
        /\ operation.step = "storing" => operation.change = "set"
        /\ operation.step \in {"validating", "storing"} => operation.new = 0
        /\ operation.step \in {"saving", "undoing"} /\ operation.change # "set" =>
               operation.new = 0

\* The old credential of this operation is not, or no longer, of its row.
Exchanged(op) == op.step = "disposing" \/ (op.step = "replacing" /\ op.change # "keep")

CredentialsInOrder ==
    /\ RowsHaveCredentials
    /\ \A i, j \in ProviderIds :
           provRows[i] = provRows[j] /\ provRows[i] \notin {0, NoRow} => i = j
    /\ \A i \in ProviderIds : provRows[i] <= drawn.reference
    /\ operation \in Operations =>
        /\ operation.old <= drawn.reference
        /\ operation.step \in {"saving", "undoing"} /\ operation.new # 0 =>
               /\ operation.new \in vault /\ operation.new <= drawn.reference
               /\ operation.new # operation.old
               /\ \A j \in ProviderIds : provRows[j] # operation.new
        /\ operation.kind = "update" /\ operation.step \in {"validating", "storing", "saving"} =>
               \A j \in ProviderIds \ {operation.id} :
                   provRows[j] = operation.old => operation.old = 0
        /\ Exchanged(operation) =>
               \A j \in ProviderIds : provRows[j] = operation.old => operation.old = 0

Spare(op) ==
    IF op.step \in {"saving", "undoing"} THEN {op.new} \ {0}
    ELSE IF Exchanged(op) THEN {op.old} \ {0} ELSE {}

VaultIsTidy ==
    "vault" \notin untidy =>
        /\ operation = NoOperation => vault = HeldReferences
        /\ operation \in Operations =>
            /\ vault = HeldReferences \cup Spare(operation)
            /\ operation.kind = "update"
               /\ operation.step \in {"validating", "storing", "saving"} =>
                   provRows[operation.id] = operation.old
            /\ operation.kind = "create" => provRows[operation.id] = NoRow

AdaptersFollowRows ==
    "import" \notin untidy => \A id \in ProviderIds : adapters[id] # 0 <=> provRows[id] # NoRow

ListingsInOrder ==
    /\ \A id \in ProviderIds :
           models[id].number <= drawn.listing /\ catalog[id].number <= drawn.listing
    /\ \A r \in refreshes :
           /\ r.listing.adapter # 0 /\ r.listing.number \in 1..drawn.listing
           /\ r.latest => r.listing.number > models[r.id].number
    /\ \A r, s \in refreshes : r.id = s.id /\ r.latest /\ s.latest => r = s

CatalogInOrder ==
    "import" \notin untidy =>
        /\ models = catalog
        /\ "models" \notin untidy =>
               \A id \in ProviderIds : catalog[id] # NoListing =>
                   \/ provRows[id] # NoRow
                   \/ operation \in Operations /\ operation.kind = "remove" /\ operation.id = id

StoresInv == CredentialsInOrder /\ VaultIsTidy /\ AdaptersFollowRows
CatalogInv == ListingsInOrder /\ CatalogInOrder
ProvInv == ProvTyped /\ OperationInOrder /\ StoresInv /\ CatalogInv

ProvConstants == MaxAdapters \in Nat /\ MaxRefs \in Nat /\ MaxListings \in Nat

LEMMA OperationsDiffer ==
    /\ NoOperation \notin Operations /\ Initializing \notin Operations
    /\ NoOperation # Initializing
BY DEF NoOperation, Initializing, Operations

\* An operation with a step of its own is one of the developer's.
LEMMA AtWork ==
    ASSUME ProvTyped, operation # NoOperation, operation.step # "pruning"
    PROVE  operation \in Operations
BY DEF ProvTyped, Initializing

LEMMA OperationMoves ==
    ASSUME NEW op \in Operations, NEW step \in OperationSteps
    PROVE  LET next == [op EXCEPT !.step = step]
           IN  /\ next \in Operations /\ next.step = step /\ next.kind = op.kind
               /\ next.id = op.id /\ next.change = op.change
               /\ next.old = op.old /\ next.new = op.new
BY DEF Operations

\* The listings are not touched, and no row goes.
LEMMA CatalogFrame ==
    ASSUME CatalogInv, UNCHANGED <<models, catalog, refreshes>>,
           drawn'.listing = drawn.listing, untidy \subseteq untidy',
           \A id \in ProviderIds : provRows[id] # NoRow => provRows'[id] # NoRow,
           operation \in Operations /\ operation.kind = "remove" =>
               operation' \in Operations /\ operation'.kind = "remove"
               /\ operation'.id = operation.id
    PROVE  CatalogInv'
BY DEF CatalogInv, ListingsInOrder, CatalogInOrder

LEMMA HeldType ==
    ASSUME ProvTyped PROVE HeldReferences \subseteq 1..MaxRefs /\ 0 \notin vault
BY DEF ProvTyped, HeldReferences, Rows, ProviderRows, NoRow

LEMMA CreateStep ==
    ASSUME ProvConstants, ProvInv, NEW id \in ProviderIds, Create(id)
    PROVE  ProvInv'
<1> USE DEF ProvInv
<1>1. PICK credential \in {"set", "keep"} :
          operation' = [kind |-> "create", id |-> id, step |-> "validating",
                        change |-> credential, old |-> 0, new |-> 0]
  BY DEF Create
<1>2. /\ operation = NoOperation /\ provRows[id] = NoRow
      /\ UNCHANGED <<provRows, vault, adapters, models, catalog, refreshes, drawn, untidy>>
  BY DEF Create, StoresSame, Rows
<1>3. /\ operation' \in Operations /\ operation'.kind = "create" /\ operation'.id = id
      /\ operation'.step = "validating" /\ operation'.change = credential
      /\ operation'.old = 0 /\ operation'.new = 0
  BY <1>1 DEF Operations, OperationSteps, ProvConstants
<1>4. ProvTyped' /\ OperationInOrder'
  BY <1>2, <1>3, OperationsDiffer DEF ProvTyped, OperationInOrder
<1>5. CredentialsInOrder'
  BY <1>2, <1>3 DEF StoresInv, CredentialsInOrder, RowsHaveCredentials, HeldReferences, Rows,
                    Exchanged, ProvTyped
<1>6. VaultIsTidy' /\ AdaptersFollowRows'
  BY <1>2, <1>3, OperationsDiffer
     DEF StoresInv, VaultIsTidy, HeldReferences, Rows, Exchanged, Spare, AdaptersFollowRows
<1>7. CatalogInv'
  BY <1>2, OperationsDiffer, CatalogFrame
<1> QED  BY <1>4, <1>5, <1>6, <1>7 DEF StoresInv

LEMMA UpdateStep ==
    ASSUME ProvConstants, ProvInv, NEW id \in ProviderIds, Update(id)
    PROVE  ProvInv'
<1> USE DEF ProvInv
<1>1. PICK credential \in {"set", "clear", "keep"} :
          operation' = [kind |-> "update", id |-> id, step |-> "validating",
                        change |-> credential, old |-> provRows[id], new |-> 0]
  BY DEF Update
<1>2. /\ operation = NoOperation /\ provRows[id] # NoRow /\ provRows[id] \in 0..MaxRefs
      /\ UNCHANGED <<provRows, vault, adapters, models, catalog, refreshes, drawn, untidy>>
  BY DEF Update, StoresSame, Rows, ProvTyped, ProviderRows
<1>3. /\ operation' \in Operations /\ operation'.kind = "update" /\ operation'.id = id
      /\ operation'.step = "validating" /\ operation'.change = credential
      /\ operation'.old = provRows[id] /\ operation'.new = 0
  BY <1>1, <1>2 DEF Operations, OperationSteps, ProvConstants
<1>4. ProvTyped' /\ OperationInOrder'
  BY <1>2, <1>3, OperationsDiffer DEF ProvTyped, OperationInOrder
<1>5. CredentialsInOrder'
  BY <1>2, <1>3 DEF StoresInv, CredentialsInOrder, RowsHaveCredentials, HeldReferences, Rows,
                    Exchanged
<1>6. VaultIsTidy' /\ AdaptersFollowRows'
  BY <1>2, <1>3, OperationsDiffer
     DEF StoresInv, VaultIsTidy, HeldReferences, Rows, Exchanged, Spare, AdaptersFollowRows
<1>7. CatalogInv'
  BY <1>2, OperationsDiffer, CatalogFrame
<1> QED  BY <1>4, <1>5, <1>6, <1>7 DEF StoresInv

\* An operation that ends leaves the stores of its spare reference only.
LEMMA EndsOperation ==
    ASSUME ProvInv, operation \in Operations, EndOperation,
           UNCHANGED <<provRows, adapters, models, catalog, refreshes, drawn>>,
           vault' \subseteq vault, HeldReferences \subseteq vault', untidy \subseteq untidy',
           untidy' \subseteq untidy \cup {"vault"},
           "vault" \notin untidy' => vault' = HeldReferences,
           operation.kind # "remove"
    PROVE  ProvInv'
<1> USE DEF ProvInv
<1>1. operation' = NoOperation /\ operation' \notin Operations /\ operation' # Initializing
  BY OperationsDiffer DEF EndOperation
<1>2. ProvTyped' /\ OperationInOrder'
  BY <1>1 DEF ProvTyped, OperationInOrder
<1>3. CredentialsInOrder'
  BY <1>1 DEF StoresInv, CredentialsInOrder, RowsHaveCredentials, HeldReferences, Rows
<1>4. VaultIsTidy' /\ AdaptersFollowRows'
  BY <1>1 DEF StoresInv, VaultIsTidy, HeldReferences, Rows, AdaptersFollowRows
<1>5. CatalogInv'
  BY CatalogFrame
<1> QED  BY <1>2, <1>3, <1>4, <1>5 DEF StoresInv

LEMMA ValidatedStep ==
    ASSUME ProvConstants, ProvInv, Validated PROVE ProvInv'
<1> USE DEF ProvInv
<1> DEFINE next == IF operation.change = "set" THEN "storing" ELSE "saving"
<1>1. /\ operation.step = "validating" /\ operation \in Operations
      /\ UNCHANGED <<provRows, vault, adapters, models, catalog, refreshes, drawn, untidy>>
  BY AtWork DEF Validated, StoresSame
<1>2. operation.new = 0 /\ operation.kind # "remove" /\ Spare(operation) = {}
  BY <1>1 DEF OperationInOrder, Spare, Exchanged, Operations
<1>3. CASE EndOperation
  <2>1. "vault" \notin untidy => vault = HeldReferences
    BY <1>1, <1>2 DEF StoresInv, VaultIsTidy
  <2>2. HeldReferences \subseteq vault
    BY DEF StoresInv, CredentialsInOrder, RowsHaveCredentials
  <2> QED  BY <1>1, <1>2, <1>3, <2>1, <2>2, EndsOperation
<1>4. CASE OperationStep(next)
  <2>1. /\ operation' = [operation EXCEPT !.step = next] /\ next \in OperationSteps
        /\ next \in {"storing", "saving"} /\ (next = "storing" <=> operation.change = "set")
    BY <1>4 DEF OperationStep, OperationSteps
  <2> HIDE DEF next
  <2>2. /\ operation' \in Operations /\ operation'.step = next
        /\ operation'.kind = operation.kind /\ operation'.id = operation.id
        /\ operation'.change = operation.change /\ operation'.old = operation.old
        /\ operation'.new = 0
    BY <1>1, <1>2, <2>1, OperationMoves
  <2>3. ProvTyped' /\ OperationInOrder'
    BY <1>1, <1>2, <2>1, <2>2, OperationsDiffer DEF ProvTyped, OperationInOrder
  <2>4. CredentialsInOrder'
    BY <1>1, <2>1, <2>2 DEF StoresInv, CredentialsInOrder, RowsHaveCredentials, HeldReferences,
                            Rows, Exchanged
  <2>5. VaultIsTidy' /\ AdaptersFollowRows'
    <3>1. Spare(operation)' = {}
      BY <2>1, <2>2 DEF Spare, Exchanged
    <3> QED  BY <1>1, <1>2, <2>1, <2>2, <3>1, OperationsDiffer
             DEF StoresInv, VaultIsTidy, HeldReferences, Rows, AdaptersFollowRows
  <2>6. CatalogInv'
    BY <1>1, <1>2, CatalogFrame
  <2> QED  BY <2>3, <2>4, <2>5, <2>6 DEF StoresInv
<1> QED  BY <1>3, <1>4 DEF Validated

LEMMA StoreCredentialStep ==
    ASSUME ProvConstants, ProvInv, StoreCredential PROVE ProvInv'
<1> USE DEF ProvInv
<1>1. /\ operation.step = "storing" /\ operation \in Operations
      /\ UNCHANGED <<provRows, adapters, models, catalog, refreshes, untidy>>
  BY AtWork DEF StoreCredential
<1>2. /\ operation.new = 0 /\ operation.kind # "remove" /\ Spare(operation) = {}
      /\ operation.change = "set"
  BY <1>1 DEF OperationInOrder, Spare, Exchanged, Operations
<1>3. CASE EndOperation /\ UNCHANGED <<vault, drawn>>
  <2>1. "vault" \notin untidy => vault = HeldReferences
    BY <1>1, <1>2 DEF StoresInv, VaultIsTidy
  <2>2. HeldReferences \subseteq vault
    BY DEF StoresInv, CredentialsInOrder, RowsHaveCredentials
  <2> QED  BY <1>1, <1>2, <1>3, <2>1, <2>2, EndsOperation
<1>4. CASE /\ drawn.reference < MaxRefs
           /\ drawn' = [drawn EXCEPT !.reference = @ + 1]
           /\ vault' = vault \cup {drawn'.reference}
           /\ operation' = [operation EXCEPT !.step = "saving", !.new = drawn'.reference]
  <2> DEFINE n == drawn.reference + 1
  <2>1. /\ drawn' \in [adapter : Nat, reference : 0..MaxRefs, listing : 0..MaxListings]
        /\ drawn'.reference = n /\ n \in 1..MaxRefs /\ drawn.reference \in Nat
        /\ drawn'.listing = drawn.listing /\ drawn'.adapter = drawn.adapter
    BY <1>4 DEF ProvTyped, ProvConstants
  <2>2. operation' = [operation EXCEPT !.step = "saving", !.new = n] /\ vault' = vault \cup {n}
    BY <1>4, <2>1
  <2>3. /\ operation' \in Operations /\ operation'.step = "saving"
        /\ operation'.kind = operation.kind /\ operation'.id = operation.id
        /\ operation'.change = "set" /\ operation'.old = operation.old
        /\ operation'.new = n /\ operation.old \in Nat
    <3>1. n \in 0..MaxRefs
      BY <2>1
    <3> HIDE DEF n
    <3>2. operation.old \in Nat
      BY <1>1 DEF Operations, ProvConstants
    <3> QED  BY <1>1, <1>2, <2>2, <3>1, <3>2 DEF Operations, OperationSteps
  <2>4. ProvTyped' /\ OperationInOrder'
    BY <1>1, <1>2, <2>1, <2>2, <2>3, OperationsDiffer DEF ProvTyped, OperationInOrder
  <2>5. CredentialsInOrder'
    <3>1. /\ operation.old < n /\ n # 0
          /\ \A j \in ProviderIds : provRows[j] \in Int /\ provRows[j] < n
      BY <1>1, <2>1, <2>3 DEF StoresInv, CredentialsInOrder, ProvTyped, ProviderRows, NoRow
    <3>2. /\ ~Exchanged(operation)' /\ HeldReferences' = HeldReferences
          /\ HeldReferences \subseteq vault
      BY <1>1, <2>3
         DEF Exchanged, HeldReferences, Rows, StoresInv, CredentialsInOrder, RowsHaveCredentials
    <3>3. \A j \in ProviderIds : provRows'[j] <= drawn'.reference /\ provRows'[j] # n
      BY <1>1, <2>1, <3>1
    <3>4. operation'.old <= drawn'.reference /\ operation'.old # n
      BY <2>1, <2>3, <3>1
    <3> QED  BY <1>1, <2>1, <2>2, <2>3, <3>1, <3>2, <3>3, <3>4
             DEF StoresInv, CredentialsInOrder, RowsHaveCredentials
  <2>6. VaultIsTidy' /\ AdaptersFollowRows'
    <3>1. Spare(operation)' = {n}
      BY <2>1, <2>3 DEF Spare
    <3> QED  BY <1>1, <1>2, <2>2, <2>3, <3>1, OperationsDiffer
             DEF StoresInv, VaultIsTidy, HeldReferences, Rows, AdaptersFollowRows
  <2>7. CatalogInv'
    BY <1>1, <1>2, <2>1, CatalogFrame
  <2> QED  BY <2>4, <2>5, <2>6, <2>7 DEF StoresInv
<1> QED  BY <1>3, <1>4 DEF StoreCredential

\* The row gets its reference, and the adapter its number.
LEMMA SaveStep ==
    ASSUME ProvConstants, ProvInv, SaveConfiguration PROVE ProvInv'
<1> USE DEF ProvInv
<1> DEFINE id == operation.id
           kept == operation.kind = "update" /\ operation.change = "keep"
           reference == IF kept THEN provRows[id] ELSE operation.new
<1>1. /\ operation.step = "saving" /\ operation \in Operations
      /\ UNCHANGED <<vault, models, catalog, refreshes, untidy>>
      /\ operation.kind # "remove" /\ Spare(operation) = {operation.new} \ {0}
      /\ id \in ProviderIds /\ operation.old \in 0..MaxRefs /\ operation.new \in 0..MaxRefs
  <2>1. /\ operation.step = "saving" /\ operation \in Operations
        /\ UNCHANGED <<vault, models, catalog, refreshes, untidy>>
    BY AtWork DEF SaveConfiguration, StoresSame
  <2> QED  BY <2>1 DEF OperationInOrder, Spare, Operations
<1>2. CASE OperationStep("undoing") /\ UNCHANGED <<provRows, adapters, drawn>>
  <2>1. /\ operation' \in Operations /\ operation'.step = "undoing"
        /\ operation'.kind = operation.kind /\ operation'.id = operation.id
        /\ operation'.change = operation.change /\ operation'.old = operation.old
        /\ operation'.new = operation.new
    <3>1. "undoing" \in OperationSteps
      BY DEF OperationSteps
    <3> QED  BY <1>1, <1>2, <3>1, OperationMoves DEF OperationStep
  <2>2. ProvTyped' /\ OperationInOrder'
    BY <1>1, <1>2, <2>1, OperationsDiffer DEF ProvTyped, OperationInOrder
  <2>3. CredentialsInOrder'
    BY <1>1, <1>2, <2>1 DEF StoresInv, CredentialsInOrder, RowsHaveCredentials, HeldReferences,
                            Rows, Exchanged
  <2>4. VaultIsTidy' /\ AdaptersFollowRows'
    <3>1. Spare(operation)' = Spare(operation)
      BY <1>1, <2>1 DEF Spare
    <3> QED  BY <1>1, <1>2, <2>1, <3>1, OperationsDiffer
             DEF StoresInv, VaultIsTidy, HeldReferences, Rows, AdaptersFollowRows
  <2>5. CatalogInv'
    BY <1>1, <1>2, CatalogFrame
  <2> QED  BY <2>2, <2>3, <2>4, <2>5 DEF StoresInv
<1>3. CASE /\ operation.kind = "create" \/ id \in Rows
           /\ Register(id) /\ provRows' = [provRows EXCEPT ![id] = reference]
           /\ IF operation.kind = "create" THEN EndOperation ELSE OperationStep("replacing")
  <2>1. /\ drawn' \in [adapter : Nat, reference : 0..MaxRefs, listing : 0..MaxListings]
        /\ drawn'.reference = drawn.reference /\ drawn'.listing = drawn.listing
        /\ drawn'.adapter # 0 /\ drawn'.adapter \in Nat
        /\ adapters' = [adapters EXCEPT ![id] = drawn'.adapter]
    BY <1>3 DEF Register, ProvTyped, ProvConstants
  <2>2. /\ reference \in ProviderRows /\ reference # NoRow
        /\ kept => reference = provRows[id] /\ operation.new = 0
        /\ ~kept => reference = operation.new
    <3>1. kept => provRows[id] # NoRow /\ provRows[id] \in ProviderRows
      BY <1>1, <1>3 DEF Rows, ProvTyped
    <3>2. operation.new \in ProviderRows /\ operation.new # NoRow
      BY <1>1 DEF ProviderRows, NoRow, ProvConstants
    <3>3. kept => operation.new = 0
      BY <1>1 DEF OperationInOrder
    <3> QED  BY <3>1, <3>2, <3>3
  <2> HIDE DEF reference
  <2>3. /\ provRows' \in [ProviderIds -> ProviderRows] /\ provRows'[id] = reference
        /\ \A j \in ProviderIds : j # id => provRows'[j] = provRows[j]
        /\ adapters' \in [ProviderIds -> Nat] /\ adapters'[id] # 0
        /\ \A j \in ProviderIds : j # id => adapters'[j] = adapters[j]
    BY <1>1, <1>3, <2>1, <2>2 DEF ProvTyped
  <2> HIDE DEF id
  <2>4. /\ operation.kind = "create" => operation' = NoOperation
        /\ operation.kind = "update" =>
             /\ operation' \in Operations /\ operation'.step = "replacing"
             /\ operation'.kind = "update" /\ operation'.id = id
             /\ operation'.change = operation.change /\ operation'.old = operation.old
             /\ operation'.new = operation.new
        /\ operation.kind \in {"create", "update"}
    <3>1. "replacing" \in OperationSteps /\ operation.kind \in {"create", "update"}
      BY <1>1 DEF OperationSteps, Operations
    <3> DEFINE next == [operation EXCEPT !.step = "replacing"]
    <3>2. /\ next \in Operations /\ next.step = "replacing" /\ next.kind = operation.kind
          /\ next.id = id /\ next.change = operation.change
          /\ next.old = operation.old /\ next.new = operation.new
      BY <1>1, <3>1, OperationMoves DEF id
    <3>3. operation' = IF operation.kind = "create" THEN NoOperation ELSE next
      BY <1>3 DEF OperationStep, EndOperation
    <3> HIDE DEF next
    <3> QED  BY <3>1, <3>2, <3>3
  <2>5. ProvTyped' /\ OperationInOrder'
    <3>1. ProvTyped'
      BY <1>1, <2>1, <2>3, <2>4 DEF ProvTyped
    <3>2. OperationInOrder'
      BY <1>1, <2>4, OperationsDiffer DEF OperationInOrder
    <3> QED  BY <3>1, <3>2
  \* What the row refers to now.
  <2>6. /\ reference \in {0, provRows[id]} \cup (vault \cap {operation.new})
        /\ reference # 0 => \A j \in ProviderIds : j # id => provRows[j] # reference
        /\ reference <= drawn.reference
    <3>1. CASE kept
      BY <1>1, <2>2, <3>1 DEF StoresInv, CredentialsInOrder, id
    <3>2. CASE ~kept /\ operation.new # 0
      BY <1>1, <2>2, <3>2 DEF StoresInv, CredentialsInOrder
    <3>3. CASE ~kept /\ operation.new = 0
      <4>1. drawn.reference \in Nat
        BY DEF ProvTyped, ProvConstants
      <4> QED  BY <2>2, <3>3, <4>1
    <3> QED  BY <3>1, <3>2, <3>3
  <2>7. RowsHaveCredentials'
    <3> SUFFICES ASSUME NEW j \in ProviderIds, provRows'[j] \notin {0, NoRow}
                 PROVE  provRows'[j] \in vault
      BY <1>1 DEF RowsHaveCredentials, HeldReferences, Rows
    <3>1. \A i \in ProviderIds : provRows[i] \notin {0, NoRow} => provRows[i] \in vault
      BY DEF StoresInv, CredentialsInOrder, RowsHaveCredentials, HeldReferences, Rows
    <3> QED  BY <2>2, <2>3, <2>6, <3>1
  <2>8. Exchanged(operation)' /\ operation' \in Operations =>
            \A j \in ProviderIds : provRows'[j] = operation'.old => operation'.old = 0
    <3> SUFFICES ASSUME operation.kind = "update", operation.change # "keep",
                        NEW j \in ProviderIds, provRows'[j] = operation.old
                 PROVE  operation.old = 0
      BY <2>4, OperationsDiffer DEF Exchanged
    <3>1. CASE j = id
      BY <1>1, <2>2, <2>3, <3>1 DEF StoresInv, CredentialsInOrder
    <3>2. CASE j # id
      BY <1>1, <2>3, <3>2 DEF StoresInv, CredentialsInOrder, id
    <3> QED  BY <3>1, <3>2
  <2>9. CredentialsInOrder'
    <3>1. \A i, j \in ProviderIds :
              provRows'[i] = provRows'[j] /\ provRows'[i] \notin {0, NoRow} => i = j
      BY <2>3, <2>6 DEF StoresInv, CredentialsInOrder
    <3>2. \A i \in ProviderIds : provRows'[i] <= drawn'.reference
      BY <2>1, <2>3, <2>6 DEF StoresInv, CredentialsInOrder
    <3>3. operation' \in Operations => /\ operation'.old <= drawn'.reference
                                       /\ operation'.step = "replacing"
      BY <1>1, <2>1, <2>4, OperationsDiffer DEF StoresInv, CredentialsInOrder
    <3> QED  BY <2>7, <2>8, <3>1, <3>2, <3>3 DEF CredentialsInOrder
  <2>10. VaultIsTidy'
    <3> SUFFICES ASSUME "vault" \notin untidy
                 PROVE  /\ operation' = NoOperation => vault = HeldReferences'
                        /\ operation' \in Operations =>
                               vault = HeldReferences' \cup Spare(operation)'
      BY <1>1, <2>4, OperationsDiffer DEF VaultIsTidy
    <3>1. /\ vault = HeldReferences \cup ({operation.new} \ {0})
          /\ operation.kind = "update" => provRows[id] = operation.old
          /\ operation.kind = "create" => provRows[id] = NoRow
      BY <1>1 DEF StoresInv, VaultIsTidy, id
    <3> DEFINE Others == {provRows[j] : j \in Rows \ {id}} \ {0}
    <3>2. HeldReferences' = Others \cup ({reference} \ {0})
      <4>1. Rows' = Rows \cup {id} /\ \A j \in Rows \ {id} : provRows'[j] = provRows[j]
        BY <1>1, <2>2, <2>3 DEF Rows, id
      <4>2. {provRows'[j] : j \in Rows'} = {provRows[j] : j \in Rows \ {id}} \cup {reference}
        BY <2>3, <4>1
      <4> QED  BY <4>2 DEF HeldReferences
    <3>3. HeldReferences = Others \cup ({provRows[id]} \ {0, NoRow})
      <4>1. CASE id \in Rows
        BY <4>1 DEF HeldReferences, Rows
      <4>2. CASE id \notin Rows
        <5>1. provRows[id] = NoRow
          BY <1>1, <4>2 DEF Rows, id
        <5> QED  BY <4>2, <5>1 DEF HeldReferences
      <4> QED  BY <4>1, <4>2
    <3> HIDE DEF Others
    <3>4. CASE operation.kind = "create"
      <4>1. reference = operation.new
        BY <2>2, <3>4
      <4> QED  BY <2>4, <3>1, <3>2, <3>3, <3>4, <4>1, OperationsDiffer
    <3>5. CASE operation.kind = "update"
      <4>1. Spare(operation)' = IF operation.change # "keep" THEN {operation.old} \ {0} ELSE {}
        BY <2>4, <3>5 DEF Spare, Exchanged
      <4>2. operation.old # NoRow
        BY <1>1 DEF NoRow, ProvConstants
      <4> QED  BY <2>2, <2>4, <3>1, <3>2, <3>3, <3>5, <4>1, <4>2, OperationsDiffer
    <3> QED  BY <2>4, <3>4, <3>5
  <2>11. AdaptersFollowRows'
    BY <1>1, <2>2, <2>3 DEF StoresInv, AdaptersFollowRows
  <2>12. CatalogInv'
    BY <1>1, <2>1, <2>2, <2>3, CatalogFrame
  <2> QED  BY <2>5, <2>9, <2>10, <2>11, <2>12 DEF StoresInv
<1> QED  BY <1>2, <1>3 DEF SaveConfiguration

\* After a reference is deleted, the vault holds what the rows hold.
LEMMA SpareDeleted ==
    ASSUME ProvInv, operation \in Operations, NEW reference \in 0..MaxRefs,
           Spare(operation) = {reference} \ {0}, DeleteReference(reference),
           reference # 0 => \A j \in ProviderIds : provRows[j] # reference
    PROVE  /\ vault' \subseteq vault /\ HeldReferences \subseteq vault'
           /\ untidy \subseteq untidy' /\ untidy' \subseteq untidy \cup {"vault"}
           /\ "vault" \notin untidy' => vault' = HeldReferences
<1> USE DEF ProvInv
<1>1. HeldReferences \subseteq vault /\ 0 \notin vault
  BY HeldType DEF StoresInv, CredentialsInOrder, RowsHaveCredentials
<1>2. reference \notin HeldReferences
  BY DEF HeldReferences, Rows
<1>3. "vault" \notin untidy => vault = HeldReferences \cup Spare(operation)
  BY DEF StoresInv, VaultIsTidy
<1> QED  BY <1>1, <1>2, <1>3 DEF DeleteReference

LEMMA UndoStep ==
    ASSUME ProvConstants, ProvInv, UndoCredential PROVE ProvInv'
<1> USE DEF ProvInv
<1>1. /\ operation.step = "undoing" /\ operation \in Operations /\ EndOperation
      /\ DeleteReference(operation.new)
      /\ UNCHANGED <<provRows, adapters, models, catalog, refreshes, drawn>>
  BY AtWork DEF UndoCredential
<1>2. /\ operation.kind # "remove" /\ operation.new \in 0..MaxRefs
      /\ Spare(operation) = {operation.new} \ {0}
      /\ operation.new # 0 => \A j \in ProviderIds : provRows[j] # operation.new
  BY <1>1 DEF OperationInOrder, Operations, Spare, StoresInv, CredentialsInOrder
<1>3. /\ vault' \subseteq vault /\ HeldReferences \subseteq vault'
      /\ untidy \subseteq untidy' /\ untidy' \subseteq untidy \cup {"vault"}
      /\ "vault" \notin untidy' => vault' = HeldReferences
  BY <1>1, <1>2, SpareDeleted
<1> QED  BY <1>1, <1>2, <1>3, EndsOperation

LEMMA DropOldStep ==
    ASSUME ProvConstants, ProvInv, DropOldCredential PROVE ProvInv'
<1> USE DEF ProvInv
<1> DEFINE reference == IF operation.change = "keep" THEN 0 ELSE operation.old
<1>1. /\ operation.step = "replacing" /\ operation \in Operations /\ EndOperation
      /\ DeleteReference(reference)
      /\ UNCHANGED <<provRows, adapters, models, catalog, refreshes, drawn>>
  BY AtWork DEF DropOldCredential
<1>2. /\ operation.kind # "remove" /\ reference \in 0..MaxRefs
      /\ Spare(operation) = {reference} \ {0}
      /\ reference # 0 => \A j \in ProviderIds : provRows[j] # reference
  BY <1>1 DEF OperationInOrder, Operations, Spare, Exchanged, StoresInv, CredentialsInOrder,
              ProvConstants
<1> HIDE DEF reference
<1>3. /\ vault' \subseteq vault /\ HeldReferences \subseteq vault'
      /\ untidy \subseteq untidy' /\ untidy' \subseteq untidy \cup {"vault"}
      /\ "vault" \notin untidy' => vault' = HeldReferences
  BY <1>1, <1>2, SpareDeleted
<1> QED  BY <1>1, <1>2, <1>3, EndsOperation

LEMMA RemoveStep ==
    ASSUME ProvConstants, ProvInv, NEW id \in ProviderIds, Remove(id) PROVE ProvInv'
<1> USE DEF ProvInv
<1>1. /\ operation = NoOperation /\ provRows[id] # NoRow /\ provRows[id] \in 0..MaxRefs
      /\ provRows' = [provRows EXCEPT ![id] = NoRow]
      /\ adapters' = [adapters EXCEPT ![id] = 0]
      /\ UNCHANGED <<vault, models, catalog, refreshes, drawn, untidy>>
  BY DEF Remove, StoresSame, Rows, ProvTyped, ProviderRows
<1>2. /\ operation' \in Operations /\ operation'.kind = "remove" /\ operation'.id = id
      /\ operation'.step = "disposing" /\ operation'.change = "clear"
      /\ operation'.old = provRows[id] /\ operation'.new = 0
  BY <1>1 DEF Remove, Operations, OperationSteps, ProvConstants
<1>3. /\ provRows' \in [ProviderIds -> ProviderRows] /\ provRows'[id] = NoRow
      /\ \A j \in ProviderIds : j # id => provRows'[j] = provRows[j]
      /\ adapters' \in [ProviderIds -> Nat] /\ adapters'[id] = 0
      /\ \A j \in ProviderIds : j # id => adapters'[j] = adapters[j]
  BY <1>1 DEF ProvTyped, ProviderRows
<1>4. ProvTyped' /\ OperationInOrder'
  BY <1>1, <1>2, <1>3, OperationsDiffer DEF ProvTyped, OperationInOrder
<1>5. HeldReferences' \subseteq HeldReferences
      /\ HeldReferences = HeldReferences' \cup ({provRows[id]} \ {0})
  BY <1>1, <1>3 DEF HeldReferences, Rows
<1>6. CredentialsInOrder'
  <2>1. RowsHaveCredentials'
    BY <1>1, <1>5 DEF StoresInv, CredentialsInOrder, RowsHaveCredentials
  <2>2. \A i, j \in ProviderIds :
            provRows'[i] = provRows'[j] /\ provRows'[i] \notin {0, NoRow} => i = j
    BY <1>3 DEF StoresInv, CredentialsInOrder
  <2>3. \A i \in ProviderIds : provRows'[i] <= drawn'.reference
    <3>1. drawn.reference \in Nat
      BY DEF ProvTyped, ProvConstants
    <3> QED  BY <1>1, <1>3, <3>1 DEF StoresInv, CredentialsInOrder, NoRow
  <2>4. \A j \in ProviderIds : provRows'[j] = operation'.old => operation'.old = 0
    BY <1>1, <1>2, <1>3 DEF StoresInv, CredentialsInOrder
  <2>5. operation'.old <= drawn'.reference
    BY <1>1, <1>2 DEF StoresInv, CredentialsInOrder
  <2> QED  BY <1>2, <2>1, <2>2, <2>3, <2>4, <2>5 DEF CredentialsInOrder
<1>7. VaultIsTidy' /\ AdaptersFollowRows'
  <2>1. Spare(operation)' = {provRows[id]} \ {0}
    BY <1>2 DEF Spare, Exchanged
  <2> QED  BY <1>1, <1>2, <1>3, <1>5, <2>1, OperationsDiffer
           DEF StoresInv, VaultIsTidy, AdaptersFollowRows
<1>8. CatalogInv'
  <2>1. ListingsInOrder'
    BY <1>1 DEF CatalogInv, ListingsInOrder
  <2>2. CatalogInOrder'
    BY <1>1, <1>2, <1>3, OperationsDiffer DEF CatalogInv, CatalogInOrder
  <2> QED  BY <2>1, <2>2 DEF CatalogInv
<1> QED  BY <1>4, <1>6, <1>7, <1>8 DEF StoresInv

LEMMA RemoveCredentialStep ==
    ASSUME ProvConstants, ProvInv, RemoveCredential PROVE ProvInv'
<1> USE DEF ProvInv
<1>1. /\ operation.step = "disposing" /\ operation \in Operations
      /\ OperationStep("forgetting") /\ DeleteReference(operation.old)
      /\ UNCHANGED <<provRows, adapters, models, catalog, refreshes, drawn>>
  BY AtWork DEF RemoveCredential
<1>2. /\ operation.kind = "remove" /\ operation.old \in 0..MaxRefs
      /\ Spare(operation) = {operation.old} \ {0}
      /\ operation.old # 0 => \A j \in ProviderIds : provRows[j] # operation.old
  BY <1>1 DEF OperationInOrder, Operations, Spare, Exchanged, StoresInv, CredentialsInOrder
<1>3. /\ vault' \subseteq vault /\ HeldReferences \subseteq vault'
      /\ untidy \subseteq untidy' /\ untidy' \subseteq untidy \cup {"vault"}
      /\ "vault" \notin untidy' => vault' = HeldReferences
  BY <1>1, <1>2, SpareDeleted
<1>4. /\ operation' \in Operations /\ operation'.step = "forgetting"
      /\ operation'.kind = "remove" /\ operation'.id = operation.id
      /\ operation'.change = operation.change /\ operation'.old = operation.old
      /\ operation'.new = operation.new
  <2>1. "forgetting" \in OperationSteps
    BY DEF OperationSteps
  <2> QED  BY <1>1, <1>2, <2>1, OperationMoves DEF OperationStep
<1>5. ProvTyped' /\ OperationInOrder'
  BY <1>1, <1>2, <1>3, <1>4, OperationsDiffer DEF ProvTyped, OperationInOrder
<1>6. CredentialsInOrder'
  BY <1>1, <1>3, <1>4 DEF StoresInv, CredentialsInOrder, RowsHaveCredentials, HeldReferences,
                          Rows, Exchanged
<1>7. VaultIsTidy' /\ AdaptersFollowRows'
  <2>1. Spare(operation)' = {}
    BY <1>4 DEF Spare, Exchanged
  <2> QED  BY <1>1, <1>3, <1>4, <2>1, OperationsDiffer
           DEF StoresInv, VaultIsTidy, HeldReferences, Rows, AdaptersFollowRows
<1>8. CatalogInv'
  BY <1>1, <1>3, <1>4, CatalogFrame
<1> QED  BY <1>5, <1>6, <1>7, <1>8 DEF StoresInv

LEMMA ListingType ==
    ASSUME ProvConstants PROVE NoListing \in ModelListings /\ NoListing.number = 0
BY DEF ProvConstants, NoListing, ModelListings

\* The listing of one provider is replaced, in memory and in the table.
LEMMA ReplacedModels ==
    ASSUME ProvTyped, NEW id \in ProviderIds, NEW listing \in ModelListings,
           ReplaceModels(id, listing), StoreModels(id, listing)
    PROVE  /\ models' \in [ProviderIds -> ModelListings] /\ models'[id] = listing
           /\ catalog' \in [ProviderIds -> ModelListings] /\ catalog'[id] = listing
           /\ \A j \in ProviderIds : j # id => models'[j] = models[j] /\ catalog'[j] = catalog[j]
           /\ models = catalog => models' = catalog'
BY DEF ProvTyped, ReplaceModels, StoreModels

LEMMA ForgetStep ==
    ASSUME ProvConstants, ProvInv, ForgetModels PROVE ProvInv'
<1> USE DEF ProvInv
<1> DEFINE id == operation.id
<1>1. /\ operation.step = "forgetting" /\ operation \in Operations /\ EndOperation
      /\ ReplaceModels(id, NoListing) /\ StoreModels(id, NoListing) /\ id \in ProviderIds
      /\ UNCHANGED <<provRows, vault, adapters, refreshes, drawn, untidy>>
  <2>1. operation.step = "forgetting" /\ operation \in Operations
    BY AtWork DEF ForgetModels
  <2> QED  BY <2>1 DEF ForgetModels, Operations
<1>2. /\ operation.kind = "remove" /\ Spare(operation) = {}
      /\ operation' = NoOperation /\ operation' \notin Operations /\ operation' # Initializing
  BY <1>1, OperationsDiffer DEF OperationInOrder, Operations, Spare, Exchanged, EndOperation
<1>3. /\ models' \in [ProviderIds -> ModelListings] /\ models'[id] = NoListing
      /\ catalog' \in [ProviderIds -> ModelListings] /\ catalog'[id] = NoListing
      /\ \A j \in ProviderIds : j # id => models'[j] = models[j] /\ catalog'[j] = catalog[j]
      /\ models = catalog => models' = catalog'
      /\ NoListing.number = 0
  BY <1>1, ListingType, ReplacedModels
<1> HIDE DEF id
<1>4. ProvTyped' /\ OperationInOrder'
  BY <1>1, <1>2, <1>3 DEF ProvTyped, OperationInOrder
<1>5. CredentialsInOrder'
  BY <1>1, <1>2 DEF StoresInv, CredentialsInOrder, RowsHaveCredentials, HeldReferences, Rows
<1>6. VaultIsTidy' /\ AdaptersFollowRows'
  BY <1>1, <1>2 DEF StoresInv, VaultIsTidy, HeldReferences, Rows, AdaptersFollowRows
<1>7. ListingsInOrder'
  <2>1. drawn.listing \in Nat /\ \A r \in refreshes : r.id \in ProviderIds
    BY DEF ProvTyped, ProvConstants, ModelRefreshes
  <2>2. \A j \in ProviderIds :
            models'[j].number <= drawn'.listing /\ catalog'[j].number <= drawn'.listing
    BY <1>1, <1>3, <2>1 DEF CatalogInv, ListingsInOrder
  <2>3. \A r \in refreshes' :
            /\ r.listing.adapter # 0 /\ r.listing.number \in 1..drawn'.listing
            /\ r.latest => r.listing.number > models'[r.id].number
    BY <1>1, <1>3, <2>1 DEF CatalogInv, ListingsInOrder
  <2>4. \A r, s \in refreshes' : r.id = s.id /\ r.latest /\ s.latest => r = s
    BY <1>1 DEF CatalogInv, ListingsInOrder
  <2> QED  BY <2>2, <2>3, <2>4 DEF ListingsInOrder
<1>8. CatalogInOrder'
  BY <1>1, <1>2, <1>3 DEF CatalogInv, CatalogInOrder, id
<1> QED  BY <1>4, <1>5, <1>6, <1>7, <1>8 DEF StoresInv, CatalogInv

LEMMA StoresFrame ==
    ASSUME StoresInv, UNCHANGED <<provRows, vault, adapters, operation, untidy>>,
           drawn'.reference = drawn.reference
    PROVE  StoresInv'
<1>1. CredentialsInOrder'
  BY DEF StoresInv, CredentialsInOrder, RowsHaveCredentials, HeldReferences, Rows
<1>2. VaultIsTidy' /\ AdaptersFollowRows'
  BY DEF StoresInv, VaultIsTidy, HeldReferences, Rows, AdaptersFollowRows
<1> QED  BY <1>1, <1>2 DEF StoresInv

\* A new refresh has a higher number, and the ones before it are not the latest.
LEMMA RefreshStep ==
    ASSUME ProvConstants, ProvInv, NEW id \in ProviderIds, Refresh(id) PROVE ProvInv'
<1> USE DEF ProvInv
<1> DEFINE n == drawn.listing + 1
           fresh == [id |-> id, latest |-> TRUE,
                     listing |-> [adapter |-> adapters[id], number |-> n]]
           old(r) == IF r.id = id THEN [r EXCEPT !.latest = FALSE] ELSE r
<1>1. /\ adapters[id] # 0 /\ adapters[id] \in Nat /\ drawn.listing \in Nat
      /\ drawn' \in [adapter : Nat, reference : 0..MaxRefs, listing : 0..MaxListings]
      /\ drawn'.listing = n /\ drawn'.reference = drawn.reference /\ n \in 1..MaxListings
      /\ UNCHANGED <<provRows, vault, adapters, models, catalog, operation, untidy>>
  BY DEF Refresh, ProvTyped, ProvConstants
<1>2. refreshes' = {old(r) : r \in refreshes} \cup {fresh}
  BY <1>1 DEF Refresh
<1>3. fresh \in ModelRefreshes
  <2>1. [adapter |-> adapters[id], number |-> n] \in ModelListings
    <3>1. n \in 0..MaxListings
      BY <1>1
    <3> HIDE DEF n
    <3> QED  BY <1>1, <3>1 DEF ModelListings
  <2> QED  BY <2>1 DEF ModelRefreshes
<1>4. ASSUME NEW r \in refreshes
      PROVE  /\ old(r) \in ModelRefreshes /\ old(r).id = r.id /\ old(r).listing = r.listing
             /\ old(r).latest <=> r.latest /\ r.id # id
             /\ r \in ModelRefreshes /\ (r.id # id => old(r) = r)
  <2>1. r \in ModelRefreshes
    BY DEF ProvTyped
  <2> QED  BY <2>1 DEF ModelRefreshes
<1>5. fresh.id = id /\ fresh.latest /\ fresh.listing.adapter = adapters[id]
      /\ fresh.listing.number = n
  OBVIOUS
<1> HIDE DEF fresh, old
<1>6. ProvTyped'
  BY <1>1, <1>2, <1>3, <1>4 DEF ProvTyped
<1>7. OperationInOrder' /\ StoresInv'
  BY <1>1, StoresFrame DEF OperationInOrder
<1>8. ListingsInOrder'
  <2>1. \A i \in ProviderIds :
            models'[i].number <= drawn'.listing /\ catalog'[i].number <= drawn'.listing
    <3>1. \A i \in ProviderIds : models[i].number \in Nat /\ catalog[i].number \in Nat
      BY DEF ProvTyped, ModelListings, ProvConstants
    <3> QED  BY <1>1, <3>1 DEF CatalogInv, ListingsInOrder
  <2>2. ASSUME NEW r \in refreshes'
        PROVE  /\ r.listing.adapter # 0 /\ r.listing.number \in 1..drawn'.listing
               /\ r.latest => r.listing.number > models'[r.id].number
    <3>1. CASE r = fresh
      <4>1. models[id].number <= drawn.listing /\ models[id].number \in Nat
        BY DEF CatalogInv, ListingsInOrder, ProvTyped, ModelListings, ProvConstants
      <4> QED  BY <1>1, <1>5, <3>1, <4>1
    <3>2. CASE r # fresh
      <4>1. PICK q \in refreshes : r = old(q)
        BY <1>2, <3>2
      <4>2. /\ q.listing.adapter # 0 /\ q.listing.number \in 1..drawn.listing
            /\ q.latest => q.listing.number > models[q.id].number
        BY DEF CatalogInv, ListingsInOrder
      <4>3. q.listing.number \in 1..n
        BY <1>1, <4>2
      <4> QED  BY <1>1, <1>4, <4>1, <4>2, <4>3
    <3> QED  BY <3>1, <3>2
  <2>3. ASSUME NEW r \in refreshes', NEW s \in refreshes', r.id = s.id, r.latest, s.latest
        PROVE  r = s
    <3>1. \A q \in refreshes' :
              \/ q = fresh
              \/ q \in refreshes /\ q.id # id
              \/ ~q.latest
      BY <1>2, <1>4
    <3> QED  BY <1>5, <2>3, <3>1 DEF CatalogInv, ListingsInOrder
  <2> QED  BY <2>1, <2>2, <2>3 DEF ListingsInOrder
<1>9. CatalogInOrder'
  BY <1>1 DEF CatalogInv, CatalogInOrder
<1> QED  BY <1>6, <1>7, <1>8, <1>9 DEF CatalogInv

LEMMA AnswersStep ==
    ASSUME ProvConstants, ProvInv, NEW r \in refreshes, RefreshAnswers(r) PROVE ProvInv'
<1> USE DEF ProvInv
<1>1. /\ refreshes' = refreshes \ {r} /\ r \in ModelRefreshes /\ r.id \in ProviderIds
      /\ r.listing \in ModelListings
      /\ UNCHANGED <<provRows, vault, adapters, operation, drawn, untidy>>
  BY DEF RefreshAnswers, ProvTyped, ModelRefreshes
<1>2. OperationInOrder' /\ StoresInv'
  BY <1>1, StoresFrame DEF OperationInOrder
<1>3. CASE UNCHANGED <<models, catalog>>
  BY <1>1, <1>2, <1>3 DEF ProvTyped, CatalogInv, ListingsInOrder, CatalogInOrder
<1>4. CASE Applies(r) /\ ReplaceModels(r.id, r.listing) /\ StoreModels(r.id, r.listing)
  <2>1. /\ models' \in [ProviderIds -> ModelListings] /\ models'[r.id] = r.listing
        /\ catalog' \in [ProviderIds -> ModelListings] /\ catalog'[r.id] = r.listing
        /\ \A j \in ProviderIds : j # r.id => models'[j] = models[j] /\ catalog'[j] = catalog[j]
        /\ models = catalog => models' = catalog'
    BY <1>1, <1>4, ReplacedModels
  <2>2. /\ r.latest /\ adapters[r.id] = r.listing.adapter /\ r.listing.adapter # 0
        /\ r.listing.number \in 1..drawn.listing
        /\ \A s \in refreshes \ {r} : s.id = r.id => ~s.latest
    BY <1>4 DEF Applies, CatalogInv, ListingsInOrder
  <2>3. ProvTyped'
    BY <1>1, <2>1 DEF ProvTyped
  <2>4. ListingsInOrder'
    <3>1. drawn.listing \in Nat /\ \A q \in refreshes : q.id \in ProviderIds
      BY DEF ProvTyped, ProvConstants, ModelRefreshes
    <3>2. \A j \in ProviderIds :
              models'[j].number <= drawn'.listing /\ catalog'[j].number <= drawn'.listing
      BY <1>1, <2>1, <2>2, <3>1 DEF CatalogInv, ListingsInOrder
    <3>3. \A q \in refreshes' :
              /\ q.listing.adapter # 0 /\ q.listing.number \in 1..drawn'.listing
              /\ q.latest => q.listing.number > models'[q.id].number
      BY <1>1, <2>1, <2>2, <3>1 DEF CatalogInv, ListingsInOrder
    <3>4. \A q, s \in refreshes' : q.id = s.id /\ q.latest /\ s.latest => q = s
      BY <1>1 DEF CatalogInv, ListingsInOrder
    <3> QED  BY <3>2, <3>3, <3>4 DEF ListingsInOrder
  <2>5. CatalogInOrder'
    <3>1. "import" \notin untidy => provRows[r.id] # NoRow
      BY <1>1, <2>2 DEF StoresInv, AdaptersFollowRows
    <3> QED  BY <1>1, <2>1, <3>1 DEF CatalogInv, CatalogInOrder
  <2> QED  BY <1>2, <2>3, <2>4, <2>5 DEF CatalogInv
<1> QED  BY <1>3, <1>4 DEF RefreshAnswers

\* A full import: rows without credentials, and a mark until the next start.
LEMMA ImportStep ==
    ASSUME ProvConstants, ProvInv, ImportProviders PROVE ProvInv'
<1> USE DEF ProvInv
<1>1. PICK imported \in SUBSET ProviderIds :
          provRows' = [id \in ProviderIds |-> IF id \in imported THEN 0 ELSE NoRow]
  BY DEF ImportProviders
<1>2. /\ catalog' = [id \in ProviderIds |-> NoListing]
      /\ untidy' = untidy \cup {"vault", "import"}
      /\ UNCHANGED <<vault, adapters, models, operation, refreshes, drawn>>
      /\ operation # Initializing
  BY DEF ImportProviders, Initializing, NoOperation
<1>3. /\ provRows' \in [ProviderIds -> ProviderRows]
      /\ \A id \in ProviderIds : provRows'[id] \in {0, NoRow}
      /\ HeldReferences' = {}
  BY <1>1 DEF ProviderRows, ProvConstants, HeldReferences, Rows
<1>4. catalog' \in [ProviderIds -> ModelListings] /\ NoListing.number = 0
  BY <1>2, ListingType
<1>5. ProvTyped' /\ OperationInOrder'
  <2>1. untidy' \subseteq {"vault", "import", "models"}
    BY <1>2 DEF ProvTyped
  <2> QED  BY <1>2, <1>3, <1>4, <2>1 DEF ProvTyped, OperationInOrder
<1>6. CredentialsInOrder'
  <2>1. drawn.reference \in Nat
    BY DEF ProvTyped, ProvConstants
  <2>2. RowsHaveCredentials' /\ \A i \in ProviderIds : provRows'[i] <= drawn'.reference
    BY <1>2, <1>3, <2>1 DEF RowsHaveCredentials, NoRow
  <2>3. operation \in Operations => operation.old # NoRow /\ operation.new # NoRow
    BY DEF Operations, NoRow, ProvConstants
  <2> QED  BY <1>2, <1>3, <2>2, <2>3, OperationsDiffer
           DEF StoresInv, CredentialsInOrder, Exchanged
<1>7. VaultIsTidy' /\ AdaptersFollowRows' /\ CatalogInOrder'
  BY <1>2 DEF VaultIsTidy, AdaptersFollowRows, CatalogInOrder
<1>8. ListingsInOrder'
  <2>1. drawn.listing \in Nat
    BY DEF ProvTyped, ProvConstants
  <2> QED  BY <1>2, <1>4, <2>1 DEF CatalogInv, ListingsInOrder
<1> QED  BY <1>5, <1>6, <1>7, <1>8 DEF StoresInv, CatalogInv

\* The next start: what is in memory is made from the tables again.
LEMMA RestartProvidersStep ==
    ASSUME ProvConstants, ProvInv, RestartProviders PROVE ProvInv'
<1> USE DEF ProvInv
<1> DEFINE n == drawn.adapter + 1
           tidy == \A id \in ProviderIds : catalog[id] # NoListing => id \in Rows
<1>1. /\ drawn' \in [adapter : Nat, reference : 0..MaxRefs, listing : 0..MaxListings]
      /\ drawn'.reference = drawn.reference /\ drawn'.listing = drawn.listing
      /\ n \in Nat /\ n # 0
      /\ adapters' = [id \in ProviderIds |-> IF id \in Rows THEN n ELSE 0]
      /\ models' = catalog /\ refreshes' = {}
      /\ operation' = Initializing /\ UNCHANGED <<provRows, vault, catalog>>
  BY DEF RestartProviders, ProvTyped, ProvConstants, Initializing
<1>2. untidy' = IF tidy THEN {"vault"} ELSE {"vault", "models"}
  BY DEF RestartProviders
<1> HIDE DEF n, tidy
<1>3. /\ adapters' \in [ProviderIds -> Nat]
      /\ \A id \in ProviderIds : adapters'[id] # 0 <=> id \in Rows
  BY <1>1
<1>4. ProvTyped' /\ OperationInOrder'
  BY <1>1, <1>2, <1>3, OperationsDiffer DEF ProvTyped, OperationInOrder
<1>5. CredentialsInOrder'
  BY <1>1, OperationsDiffer DEF StoresInv, CredentialsInOrder, RowsHaveCredentials,
                                HeldReferences, Rows
<1>6. VaultIsTidy' /\ AdaptersFollowRows'
  BY <1>1, <1>2, <1>3 DEF VaultIsTidy, AdaptersFollowRows, Rows
<1>7. ListingsInOrder'
  BY <1>1 DEF CatalogInv, ListingsInOrder
<1>8. CatalogInOrder'
  BY <1>1, <1>2 DEF CatalogInOrder, Rows, tidy
<1> QED  BY <1>4, <1>5, <1>6, <1>7, <1>8 DEF StoresInv, CatalogInv

LEMMA PruneStep ==
    ASSUME ProvConstants, ProvInv, Prune PROVE ProvInv'
<1> USE DEF ProvInv
<1>1. /\ operation.step = "pruning" /\ operation' = NoOperation
      /\ operation' \notin Operations /\ operation' # Initializing
      /\ UNCHANGED <<provRows, adapters, models, catalog, refreshes, drawn>>
  BY OperationsDiffer DEF Prune, EndOperation
<1>2. operation \notin Operations /\ "vault" \in untidy
  <2>1. operation \notin Operations
    BY <1>1 DEF Operations, OperationSteps
  <2> QED  BY <2>1 DEF Prune, ProvTyped, OperationInOrder
<1>3. HeldReferences \subseteq vault /\ HeldReferences' = HeldReferences
  BY <1>1 DEF StoresInv, CredentialsInOrder, RowsHaveCredentials, HeldReferences, Rows
<1>4. \/ vault' = HeldReferences /\ untidy' = untidy \ {"vault"}
      \/ UNCHANGED <<vault, untidy>>
  BY <1>3 DEF Prune
<1>5. ProvTyped' /\ OperationInOrder'
  <2>1. vault' \subseteq vault /\ untidy' \subseteq untidy
    BY <1>3, <1>4
  <2> QED  BY <1>1, <2>1 DEF ProvTyped, OperationInOrder
<1>6. CredentialsInOrder'
  BY <1>1, <1>3, <1>4 DEF StoresInv, CredentialsInOrder, RowsHaveCredentials
<1>7. VaultIsTidy' /\ AdaptersFollowRows'
  BY <1>1, <1>2, <1>3, <1>4 DEF StoresInv, VaultIsTidy, AdaptersFollowRows
<1>8. ListingsInOrder' /\ CatalogInOrder'
  BY <1>1, <1>2, <1>4 DEF CatalogInv, ListingsInOrder, CatalogInOrder
<1> QED  BY <1>5, <1>6, <1>7, <1>8 DEF StoresInv, CatalogInv

LEMMA ProvStep ==
    ASSUME ProvConstants, ProvInv, [ProvNext]_provVars PROVE ProvInv'
<1>1. CASE UNCHANGED provVars
  BY <1>1 DEF provVars, ProvInv, ProvTyped, OperationInOrder, StoresInv, CredentialsInOrder,
              RowsHaveCredentials, HeldReferences, Rows, Exchanged, VaultIsTidy, Spare,
              AdaptersFollowRows, CatalogInv, ListingsInOrder, CatalogInOrder
<1>2. CASE ProvWork
  BY <1>2, ValidatedStep, StoreCredentialStep, SaveStep, UndoStep, DropOldStep,
     RemoveCredentialStep, ForgetStep, PruneStep DEF ProvWork
<1>3. CASE \E id \in ProviderIds : Create(id) \/ Update(id) \/ Remove(id) \/ Refresh(id)
  BY <1>3, CreateStep, UpdateStep, RemoveStep, RefreshStep
<1>4. CASE \E r \in refreshes : RefreshAnswers(r)
  BY <1>4, AnswersStep
<1>5. CASE ImportProviders \/ RestartProviders
  BY <1>5, ImportStep, RestartProvidersStep
<1> QED  BY <1>1, <1>2, <1>3, <1>4, <1>5 DEF ProvNext

LEMMA ProvidersHold == ASSUME ProvConstants PROVE ProvSpec => []ProvInv
<1>1. ProvInit => ProvInv
  <2> SUFFICES ASSUME ProvInit PROVE ProvInv
    OBVIOUS
  <2>1. /\ provRows \in [ProviderIds -> ProviderRows] /\ \A id \in ProviderIds : provRows[id] = NoRow
        /\ Rows = {} /\ HeldReferences = {} /\ vault = {} /\ refreshes = {} /\ untidy = {}
    BY DEF ProvInit, ProviderRows, Rows, HeldReferences
  <2>2. /\ models \in [ProviderIds -> ModelListings] /\ catalog = models
        /\ \A id \in ProviderIds : models[id] = NoListing
        /\ adapters \in [ProviderIds -> Nat] /\ \A id \in ProviderIds : adapters[id] = 0
    BY ListingType DEF ProvInit
  <2>3. /\ operation = NoOperation /\ operation \notin Operations /\ operation # Initializing
        /\ drawn \in [adapter : Nat, reference : 0..MaxRefs, listing : 0..MaxListings]
        /\ drawn.reference = 0 /\ drawn.listing = 0
    BY OperationsDiffer DEF ProvInit, ProvConstants
  <2>4. ProvTyped /\ OperationInOrder
    BY <2>1, <2>2, <2>3 DEF ProvTyped, OperationInOrder
  <2>5. StoresInv
    BY <2>1, <2>2, <2>3 DEF StoresInv, CredentialsInOrder, RowsHaveCredentials, VaultIsTidy,
                            AdaptersFollowRows, NoRow
  <2>6. CatalogInv
    BY <2>1, <2>2, <2>3, ListingType DEF CatalogInv, ListingsInOrder, CatalogInOrder
  <2> QED  BY <2>4, <2>5, <2>6 DEF ProvInv
<1>2. ProvInv /\ [ProvNext]_provVars => ProvInv'
  BY ProvStep
<1> QED  BY <1>1, <1>2, PTL DEF ProvSpec

(* Through saves, replacements, removals, imports, failures and restarts: no    *)
(* row refers to a credential the vault lost; between operations the vault, the *)
(* rows and the adapters agree but for what an import or a failed deletion left *)
(* to the next start; and memory and table hold the same listings, none of a    *)
(* provider that is gone (ProviderConfigurationService.ts,                      *)
(* ModelCatalogService.ts).                                                     *)
THEOREM ProviderStoresAgree ==
    ASSUME ProvConstants
    PROVE  ProvSpec => [](ProvTypeOK /\ RowsHaveCredentials /\ StoresAgree
                                     /\ CatalogFollowsProviders)
<1>1. ProvInv => ProvTypeOK
  <2> SUFFICES ASSUME ProvInv PROVE ProvTypeOK
    OBVIOUS
  <2>1. \A id \in ProviderIds : models[id].number \in 0..MaxListings
                                /\ catalog[id].number \in 0..MaxListings
    BY DEF ProvInv, ProvTyped, ModelListings
  <2>2. \A r \in refreshes : r.id \in ProviderIds
    BY DEF ProvInv, ProvTyped, ModelRefreshes
  <2> QED  BY <2>1, <2>2 DEF ProvInv, ProvTyped, ProvTypeOK
<1>2. ProvInv => RowsHaveCredentials /\ StoresAgree
  BY DEF ProvInv, StoresInv, CredentialsInOrder, VaultIsTidy, AdaptersFollowRows, StoresAgree,
         Rows
<1>3. ProvInv => CatalogFollowsProviders
  BY OperationsDiffer DEF ProvInv, CatalogInv, CatalogInOrder, CatalogFollowsProviders, Rows
<1> QED  BY <1>1, <1>2, <1>3, ProvidersHold, PTL

(* Refreshes answer in any order: the listing of a provider is replaced by a    *)
(* later one of the adapter in use, never by an older one                       *)
(* (ModelCatalogService.ts).                                                    *)
THEOREM ListingsStayInOrder ==
    ASSUME ProvConstants
    PROVE  ProvSpec => [][ListingsMoveForward]_provVars
<1>1. ProvInv /\ [ProvNext]_provVars => [ListingsMoveForward]_provVars
  <2> SUFFICES ASSUME ProvInv, ProvNext PROVE ListingsMoveForward
    OBVIOUS
  <2>1. CASE UNCHANGED models
    BY <2>1 DEF ListingsMoveForward
  <2>2. ASSUME NEW r \in refreshes, Applies(r), ReplaceModels(r.id, r.listing),
               StoreModels(r.id, r.listing)
        PROVE  ListingsMoveForward
    <3>1. r.id \in ProviderIds /\ r.listing \in ModelListings
      BY DEF ProvInv, ProvTyped, ModelRefreshes
    <3>2. /\ models'[r.id] = r.listing
          /\ \A j \in ProviderIds : j # r.id => models'[j] = models[j]
      BY <2>2, <3>1, ReplacedModels DEF ProvInv
    <3>3. r.listing.adapter = adapters[r.id] /\ r.listing.number > models[r.id].number
      BY <2>2 DEF Applies, ProvInv, CatalogInv, ListingsInOrder
    <3> QED  BY <3>2, <3>3 DEF ListingsMoveForward
  <2>3. CASE ForgetModels
    <3>1. operation \in Operations
      BY <2>3, AtWork DEF ProvInv, ForgetModels
    <3>2. operation.id \in ProviderIds
      BY <3>1 DEF Operations
    <3> QED  BY <2>3, <3>2 DEF ForgetModels, ReplaceModels, ListingsMoveForward, ProvInv, ProvTyped
  <2>4. CASE RestartProviders
    BY <2>4 DEF RestartProviders, ListingsMoveForward
  <2> QED  BY <2>1, <2>2, <2>3, <2>4
           DEF ProvNext, ProvWork, Create, Update, Remove, Refresh, RefreshAnswers, Validated,
               StoreCredential, SaveConfiguration, UndoCredential, DropOldCredential,
               RemoveCredential, ImportProviders, Prune, StoresSame
<1> QED  BY <1>1, ProvidersHold, PTL DEF ProvSpec
=============================================================================
