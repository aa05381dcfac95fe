------------------------ MODULE WorkspaceChangeGate ------------------------
(***************************************************************************)
(* change-control/WorkspaceChangeGate.ts: holds the watcher's events of a  *)
(* workspace while a Build is under review, coalesces them into one batch, *)
(* and hands that batch to ProjectIndexService.enqueueChange on release.   *)
(*                                                                         *)
(* A component module: it has no Next of its own, the modules that EXTEND  *)
(* it conjoin its operations with theirs.                                  *)
(***************************************************************************)
EXTENDS Naturals, FiniteSets

CONSTANTS Workspaces,   \* normalised workspace roots
          Paths,        \* relative paths of a workspace
          GateLimit     \* paths one batch keeps (2000 in the code)

ASSUME GateLimitAssumption == GateLimit \in Nat

VARIABLES held,   \* heldWorkspaces: the workspaces whose events are kept back
          batch,  \* pending: the coalesced event of each workspace
          owed    \* paths the watcher reported and the index was not told of

gateVars == <<held, batch, owed>>

Events  == [paths : SUBSET Paths, overflow : BOOLEAN, error : BOOLEAN]
NoBatch == [paths |-> {}, overflow |-> FALSE, error |-> FALSE]

GateTypeOK ==
    /\ held \subseteq Workspaces
    /\ batch \in [Workspaces -> Events]
    /\ owed \in [Workspaces -> SUBSET Paths]

GateInit ==
    /\ held = {}
    /\ batch = [w \in Workspaces |-> NoBatch]
    /\ owed = [w \in Workspaces |-> {}]

-----------------------------------------------------------------------------
\* What the index still does not know of `due` once it was handed ev:
\* enqueueChange returns at once for an event that carries an error, and an
\* overflow makes it reconcile the whole workspace.
StillOwed(due, ev) ==
    IF ev.error THEN due
    ELSE IF ev.overflow THEN {} ELSE due \ ev.paths

\* What the watcher's event makes the index owe: an overflow names no path
\* but means that any of them may have changed.
Due(due, ev) == IF ev.overflow THEN Paths ELSE due \cup ev.paths

\* begin(workspace)
GateBegin(w) ==
    /\ held' = held \cup {w}
    /\ UNCHANGED <<batch, owed>>

\* release(workspace)
GateRelease(w) ==
    /\ held' = held \ {w}
    /\ batch' = [batch EXCEPT ![w] = NoBatch]
    /\ owed' = [owed EXCEPT ![w] = StillOwed(@, batch[w])]

\* Mutant: an overflow lasts until the next event only.
CoalescedLosingOverflow(prev, ev) ==
    {[paths |-> prev.paths \cup ev.paths, overflow |-> ev.overflow,
      error |-> ev.error]}

\* The coalesced event: the union of the paths cut at GateLimit, the older
\* paths first, and every other field from the last event.
Coalesced(prev, ev) ==
    {[paths    |-> prev.paths \cup kept,
      overflow |-> prev.overflow \/ ev.overflow,
      error    |-> ev.error] :
        kept \in {k \in SUBSET (ev.paths \ prev.paths) :
                    \/ k = ev.paths \ prev.paths
                       /\ Cardinality(prev.paths \cup k) <= GateLimit
                    \/ Cardinality(prev.paths \cup k) = GateLimit}}

\* enqueue(event): straight through when the workspace is not held
GateEnqueue(w, ev) ==
    /\ IF w \in held
       THEN /\ \E merged \in Coalesced(batch[w], ev) :
                  batch' = [batch EXCEPT ![w] = merged]
            /\ owed' = [owed EXCEPT ![w] = Due(@, ev)]
       ELSE /\ owed' = [owed EXCEPT ![w] = StillOwed(Due(@, ev), ev)]
            /\ UNCHANGED batch
    /\ UNCHANGED held

\* Mutant: the restored reviews do not close the gate.
GateRestartOpen(reopened) ==
    /\ held' = {}
    /\ batch' = [w \in Workspaces |-> NoBatch]
    /\ owed' = [w \in Workspaces |-> {}]

\* A new process: nothing held back but `reopened`, and the initial indexing
\* run of each workspace reads all of its paths.
GateRestart(reopened) ==
    /\ held' = reopened
    /\ batch' = [w \in Workspaces |-> NoBatch]
    /\ owed' = [w \in Workspaces |-> {}]

=============================================================================
