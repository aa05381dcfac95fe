------------------------------ MODULE ProcessLife ------------------------------
(* The main process from its start to its exit: windows and their IPC, the       *)
(* shared release of resources, the normal and the fatal shutdown with their    *)
(* deadlines (main.ts and runtime/).  Deadlines are timers that may fire at any  *)
(* time; what the application waits for may never end.                         *)
EXTENDS Naturals

CONSTANT MaxWindows   \* bound: windows ever opened

VARIABLES win,        \* the window shown, 0: none
          ipc,        \* WindowIpcLifecycle.current: the window that owns the IPC, 0: none
          draining,   \* its pending operations
          opened,     \* windows opened so far
          dbOpen,
          release,    \* shutdownResources: what it waits for
          waits,      \* the drains it waits for
          late,       \* history: windows opened before it began are 1..late
          normal,     \* createNormalShutdownHandler
          fatal,      \* FatalShutdownController
          startup,    \* "recovering" until the database is opened, "initializing" while the
                      \* providers are, "up", or "failed" while its cleanup runs
          exited      \* how the process ended

lifeVars == <<win, ipc, draining, opened, dbOpen, release, waits, late, normal, fatal,
              startup, exited>>

LifeInit ==
    /\ win = 0 /\ ipc = 0 /\ draining = {} /\ opened = 0 /\ dbOpen = FALSE
    /\ release = "none" /\ waits = {} /\ late = 0
    /\ normal = "none" /\ fatal = "none" /\ startup = "recovering" /\ exited = "no"

(* WindowIpcLifecycle.dispose: the current window joins the pending ones. *)
Pending == draining \cup ({ipc} \ {0})
AwaitedCurrentOnly == {ipc} \ {0}
Awaited == Pending

(* shutdownResources; everyone shares the first call. *)
Release ==
    IF release # "none" THEN UNCHANGED <<ipc, draining, release, waits, late>>
    ELSE /\ release' = "draining" /\ waits' = Awaited /\ late' = opened
         /\ ipc' = 0 /\ draining' = Pending

CreateWindow(w) == win' = w /\ ipc' = w /\ opened' = w

(* FatalShutdownController.handle: its first call begins the cleanup. *)
HandleFatal == fatal = "none" /\ fatal' = "cleaning" /\ Release

(* initializeServices: what a shutdown released before it is opened all the same. *)
OpenServices ==
    /\ startup = "recovering" /\ exited = "no"
    /\ startup' = "initializing" /\ dbOpen' = TRUE
    /\ UNCHANGED <<win, ipc, draining, opened, release, waits, late, normal, fatal, exited>>

(* The first window, which a fatal failure leaves out. Without the services, or   *)
(* with the IPC of a window that 'second-instance' opened before it, createWindow *)
(* throws; the window itself stays.                                             *)
FirstWindow ==
    /\ startup = "initializing" /\ exited = "no" /\ (fatal = "none" => opened < MaxWindows)
    /\ IF fatal # "none"
       THEN startup' = "up" /\ UNCHANGED <<win, opened, ipc, draining, release, waits, late>>
       ELSE IF dbOpen /\ ipc = 0
       THEN /\ startup' = "up" /\ CreateWindow(opened + 1)
            /\ UNCHANGED <<draining, release, waits, late>>
       ELSE /\ startup' = "failed" /\ Release
            /\ IF dbOpen THEN win' = opened + 1 /\ opened' = opened + 1
               ELSE UNCHANGED <<win, opened>>
    /\ UNCHANGED <<dbOpen, normal, fatal, exited>>

(* A failure at any other point of the start. *)
StartUpFails ==
    /\ startup \in {"recovering", "initializing"} /\ exited = "no"
    /\ startup' = "failed" /\ Release
    /\ UNCHANGED <<win, opened, dbOpen, normal, fatal, exited>>

(* 'closed'. *)
CloseWindow ==
    /\ win # 0 /\ exited = "no" /\ win' = 0 /\ ipc' = 0 /\ draining' = Pending
    /\ UNCHANGED <<opened, dbOpen, release, waits, late, normal, fatal, startup, exited>>

(* An exception or a rejection nobody caught. *)
Fail ==
    /\ exited = "no" /\ HandleFatal
    /\ UNCHANGED <<win, opened, dbOpen, normal, startup, exited>>

(* 'activate' and 'second-instance' without a window, also while the application  *)
(* starts: createWindow, which throws before the services are there and once they *)
(* are gone.                                                                    *)
Reopen ==
    /\ win = 0 /\ fatal = "none" /\ exited = "no"
    /\ IF dbOpen
       THEN /\ opened < MaxWindows /\ CreateWindow(opened + 1)
            /\ UNCHANGED <<draining, release, waits, late, fatal>>
       ELSE HandleFatal /\ UNCHANGED <<win, opened>>
    /\ UNCHANGED <<dbOpen, normal, startup, exited>>

(* The IPC of a window has stopped all it owned. *)
Drained ==
    /\ exited = "no"
    /\ \E w \in draining : draining' = draining \ {w}
    /\ UNCHANGED <<win, ipc, opened, dbOpen, release, waits, late, normal, fatal, startup, exited>>

(* shutdownResources after its await, then after the providers and the log. *)
CloseDatabase ==
    /\ release = "draining" /\ waits \cap draining = {} /\ exited = "no"
    /\ dbOpen' = FALSE /\ release' = "disposing"
    /\ UNCHANGED <<win, ipc, draining, opened, waits, late, normal, fatal, startup, exited>>
Released ==
    /\ release = "disposing" /\ exited = "no" /\ release' \in {"done", "failed"}
    /\ UNCHANGED <<win, ipc, draining, opened, dbOpen, waits, late, normal, fatal, startup, exited>>

(* 'before-quit', the end of the cleanup, its deadline, the report's deadline.    *)
BeforeQuit ==
    /\ normal = "none" /\ exited = "no" /\ normal' = "cleaning" /\ Release
    /\ UNCHANGED <<win, opened, dbOpen, fatal, startup, exited>>
CleanupEnds == release = "done" /\ normal' = "quitting"
CleanupFails == release # "done" /\ normal' = "reporting"  \* failed, or the deadline passed
NormalGoesOn ==
    /\ normal = "cleaning" /\ exited = "no" /\ (CleanupEnds \/ CleanupFails)
    /\ UNCHANGED <<win, ipc, draining, opened, dbOpen, release, waits, late, fatal, startup, exited>>
Exit(how) ==
    /\ exited = "no" /\ exited' = how
    /\ UNCHANGED <<win, ipc, draining, opened, dbOpen, release, waits, late, normal, fatal, startup>>
NormalExits ==
    \/ normal = "quitting" /\ Exit("quit")
    \/ normal = "reporting" /\ Exit("failed")

(* FatalShutdownController.run: at the end of the cleanup or after its timeout. *)
FatalExits == fatal = "cleaning" /\ Exit("fatal")
StartUpExits == startup = "failed" /\ release \in {"done", "failed"} /\ Exit("failed")

LifeTimers == NormalGoesOn \/ NormalExits \/ FatalExits
LifeNext ==
    \/ OpenServices \/ FirstWindow \/ StartUpFails \/ CloseWindow \/ Fail \/ Reopen \/ Drained \/ CloseDatabase \/ Released
    \/ BeforeQuit \/ StartUpExits \/ LifeTimers

(* The process, whatever its timers do. *)
LifeSpec == LifeInit /\ [][LifeNext]_lifeVars

-----------------------------------------------------------------------------
LifeTypeOK ==
    /\ {win, ipc, opened, late} \subseteq 0..MaxWindows /\ draining \subseteq 1..MaxWindows
    /\ dbOpen \in BOOLEAN /\ exited \in {"no", "quit", "failed", "fatal"}

(* The database is not closed while a window that was there when the shutdown     *)
(* began has its IPC or still drains, however many were closed and reopened      *)
(* before it and however far the start had come. A window opened while the       *)
(* shutdown runs is not waited for.                                            *)
DatabaseOutlivesWindows ==
    ~dbOpen => \A w \in Pending : w > late

(* A window that reopens always finds the IPC free: install refuses only the     *)
(* first window of a start, when another one was opened before it.             *)
IpcFollowsWindow == win = 0 => ipc = 0

(* A quit is clean only when every resource was released without a failure; the  *)
(* database is open then only where the start opened it behind the release,      *)
(* before there was any window.                                                *)
CleanQuitReleased == exited = "quit" => release = "done" /\ (dbOpen => late = 0)
=============================================================================
