---------------------- MODULE WorkspaceChangeWatcher ----------------------
(***************************************************************************)
(* workspaces/WorkspaceChangeWatcher.ts for one workspace: chokidar's      *)
(* events are collected for the debounce time and emitted as one event;    *)
(* what changed while the watcher came up is found by comparing a snapshot *)
(* taken before with one taken after.                                      *)
(*                                                                         *)
(* A component module: the modules that EXTEND it conjoin its operations   *)
(* with theirs, and decide where an emitted event goes.                    *)
(***************************************************************************)
EXTENDS WorkspaceChangeGate

CONSTANT ChangeLimit   \* MAX_CHANGED_PATHS: paths one event names (100)

ASSUME WatcherAssumption == ChangeLimit \in Nat

VARIABLES watch,    \* "off", "starting" (until chokidar is ready) or "on"
          touched,  \* paths that differ from the snapshot `beforeWatch`
          changed,  \* changedPaths: collected, not emitted yet
          dropped   \* overflow: a change was seen that changed does not name

watchVars == <<watch, touched, changed, dropped>>

WatcherTypeOK ==
    /\ watch \in {"off", "starting", "on"}
    /\ touched \subseteq Paths
    /\ changed \subseteq Paths
    /\ Cardinality(changed) <= ChangeLimit
    /\ dropped \in BOOLEAN

WatcherInit ==
    /\ watch = "off"
    /\ touched = {}
    /\ changed = {}
    /\ dropped = FALSE

-----------------------------------------------------------------------------
\* Mutant: no limit on the paths of an event.
WatcherQueueUnbounded(ps) ==
    /\ changed' = changed \cup ps
    /\ UNCHANGED dropped

\* queue(filename) for each path of ps: named until the limit, then only
\* remembered as an overflow.
WatcherQueue(ps) ==
    \E named \in SUBSET ps :
        /\ Cardinality(changed \cup named) <= ChangeLimit
        /\ \/ named \cup changed = ps \cup changed
           \/ Cardinality(changed \cup named) = ChangeLimit
        /\ changed' = changed \cup named
        /\ dropped' = (dropped \/ ~(ps \subseteq changed \cup named))

\* start(workspace): the snapshot is taken, the watcher is created.
WatcherStart ==
    /\ watch = "off"
    /\ watch' = "starting"
    /\ UNCHANGED <<touched, changed, dropped>>

\* The paths the second snapshot will show to differ from the first
Differing(ps) == touched \cup ps

\* A file changed.  While the watcher comes up the change shows in the second
\* snapshot; what chokidar tells before that is told again, and is left out.
WatcherSees(p) ==
    \/ /\ watch = "off"
       /\ UNCHANGED watchVars
    \/ /\ watch = "starting"
       /\ touched' = Differing({p})
       /\ UNCHANGED <<watch, changed, dropped>>
    \/ /\ watch = "on"
       /\ WatcherQueue({p})
       /\ UNCHANGED <<watch, touched>>

\* Mutant: the second snapshot is not compared with the first.
WatcherReadyWithoutReconciling ==
    /\ watch = "starting"
    /\ watch' = "on"
    /\ touched' = {}
    /\ UNCHANGED <<changed, dropped>>

\* The rest of start: ready, second snapshot, reconcileSnapshots.
WatcherReady ==
    /\ watch = "starting"
    /\ watch' = "on"
    /\ touched' = {}
    /\ WatcherQueue(touched)

\* flush(): the event handed to emit, and the collected state reset
WatcherEvent == [paths |-> changed, overflow |-> dropped, error |-> FALSE]

WatcherFlush ==
    /\ watch # "off"
    /\ changed # {} \/ dropped
    /\ changed' = {}
    /\ dropped' = FALSE
    /\ UNCHANGED <<watch, touched>>

\* stop(): also what a chokidar error and the choice of another workspace do
WatcherStop ==
    /\ watch # "off"
    /\ watch' = "off"
    /\ touched' = {}
    /\ changed' = {}
    /\ dropped' = FALSE

\* The process ends.
WatcherRestart ==
    /\ watch' = "off"
    /\ touched' = {}
    /\ changed' = {}
    /\ dropped' = FALSE

=============================================================================
