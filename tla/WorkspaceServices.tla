------------------------- MODULE WorkspaceServices -------------------------
(***************************************************************************)
(* What registerIpc.ts wires together for one workspace: the watcher's     *)
(* event goes to the gate of change control and, gate or no gate, to the   *)
(* Semantic Index; the gate hands it to the Project Index; each file and   *)
(* each run of the Project Index is reported to the Semantic Index.        *)
(*                                                                         *)
(* `lost` is history: the paths whose last change nothing will bring to    *)
(* the index by itself, put there at the known places where the code lets  *)
(* a change go.  `unread` is history: the changes handed to enqueueChange  *)
(* that a run is still to read.  `torn` is history: the indexes whose work  *)
(* was cut off or let go before its end.                                   *)
(***************************************************************************)
EXTENDS SemanticIndex

CONSTANTS Home,       \* the workspace
          MaxEdits,   \* bound: changes of files, without and with the Semantic
                      \* Index in the run
          MaxFaults   \* bound: cancellations, failures, stops, restarts

ASSUME ServicesAssumption ==
    /\ Home \in Workspaces
    /\ MaxEdits \in [BOOLEAN -> Nat] /\ MaxFaults \in Nat

VARIABLES edits, faults, lost, unread, torn

history == <<edits, faults, lost, unread, torn>>
vars == <<held, batch, owed, watch, touched, changed, dropped, disk, rows,
          links, latest, ix, pending, initialized, wired, units, semantic, semPending,
          ensuring, following, edits, faults, lost, unread, torn>>

TypeOK ==
    /\ GateTypeOK
    /\ WatcherTypeOK
    /\ IndexTypeOK
    /\ SemTypeOK
    /\ edits \in 0..MaxEdits[wired]
    /\ faults \in 0..MaxFaults
    /\ lost \subseteq Paths
    /\ unread \subseteq Paths
    /\ torn \subseteq {"index", "semantic"}

Init ==
    /\ GateInit
    /\ WatcherInit
    /\ disk = [p \in Paths |-> 1]
    /\ IndexInit
    /\ SemInit
    /\ edits = 0
    /\ faults = 0
    /\ lost = Paths
    /\ unread = {}
    /\ torn = {}

Fault == faults < MaxFaults /\ faults' = faults + 1

\* The pending change of the Project Index names p.
Waits(p) == pending.overflow \/ p \in pending.paths

\* A run has read the paths of ps or gives them up; a newer change of one of
\* them may wait for the next run.
Finish(ps) == unread' = {p \in unread : p \notin ps \/ Waits(p)}

-----------------------------------------------------------------------------
\* A file is written, created or removed, by anyone.
Edit(p, content) ==
    /\ edits < MaxEdits[wired]
    /\ content # disk[p]
    /\ disk' = [disk EXCEPT ![p] = content]
    /\ WatcherSees(p)
    /\ lost' = IF watch = "off" THEN lost \cup {p} ELSE lost \ {p}
    /\ edits' = edits + 1
    /\ UNCHANGED <<gateVars, indexVars, semVars, faults, unread, torn>>

\* The changes an event names, and what is left of them when a batch is cut
Named(ev) == IF ev.overflow THEN Paths ELSE ev.paths

\* onWorkspaceChanged(ev): gate first, then the Semantic Index.
Deliver(ev) ==
    /\ GateEnqueue(Home, ev)
    /\ IF Home \in held
       THEN /\ UNCHANGED indexVars
            /\ lost' = IF batch'[Home].overflow THEN lost
                       ELSE lost \cup (ev.paths \ batch'[Home].paths)
            /\ UNCHANGED unread
       ELSE /\ IxEnqueue(ev)
            /\ unread' = IF ev.error THEN unread ELSE unread \cup Named(ev)
            /\ UNCHANGED lost
    /\ SemEnqueue(ev.paths, latest'.status = "running")
    /\ UNCHANGED units

\* flush() of the watcher
Flush ==
    /\ WatcherFlush
    /\ Deliver(WatcherEvent)
    /\ UNCHANGED <<disk, edits, faults, torn>>

\* What the watcher drops when it stops
Collected == IF dropped THEN Paths ELSE touched \cup changed

\* workspace.watch with no workspace or another one
StopWatching ==
    /\ Fault
    /\ WatcherStop
    /\ lost' = lost \cup Collected
    /\ UNCHANGED <<gateVars, disk, indexVars, semVars, edits, unread, torn>>

\* chokidar's error listener: an event with the error, then stop().  The event
\* has no paths, but it marks the batch of a held workspace.
WatcherError ==
    /\ Fault
    /\ WatcherStop
    /\ GateEnqueue(Home, [paths |-> {}, overflow |-> FALSE, error |-> TRUE])
    /\ lost' = lost \cup Collected
    /\ UNCHANGED <<disk, indexVars, semVars, edits, unread, torn>>

StartWatching ==
    /\ WatcherStart
    /\ UNCHANGED <<gateVars, disk, indexVars, semVars, history>>

\* workspace.watch once the watcher is ready: both indexes are ensured.
Ready ==
    /\ WatcherReady
    /\ IxEnsure
    /\ lost' = IF initialized \/ Running THEN lost ELSE {}
    /\ SemWatch
    /\ UNCHANGED <<gateVars, disk, edits, faults, unread, torn>>

\* A Build starts, or its review is over.
Hold ==
    /\ held = {}
    /\ GateBegin(Home)
    /\ UNCHANGED <<watchVars, disk, indexVars, semVars, history>>

Release ==
    /\ held # {}
    /\ GateRelease(Home)
    /\ IF batch[Home] = NoBatch THEN UNCHANGED indexVars ELSE IxEnqueue(batch[Home])
    /\ lost' = IF batch[Home].error THEN lost \cup Named(batch[Home]) ELSE lost
    /\ unread' = IF batch[Home].error THEN unread
                 ELSE unread \cup Named(batch[Home])
    /\ UNCHANGED <<watchVars, disk, semVars, edits, faults, torn>>

-----------------------------------------------------------------------------
\* The Project Index, on its own and on request
Stat(p) == IxStat(p) /\ UNCHANGED <<gateVars, watchVars, disk, semVars, history>>

Rediscover ==
    IxRediscover /\ UNCHANGED <<gateVars, watchVars, disk, semVars, history>>

\* Discovery gives up the rest of its work.
Truncate ==
    /\ Fault
    /\ IxTruncate
    /\ LET cut == Ahead(ix) \ (ix.found \cup ix.missing) IN
       lost' = lost \cup cut /\ Finish(cut)
    /\ torn' = torn \cup {"index"}
    /\ UNCHANGED <<gateVars, watchVars, disk, semVars, edits>>

\* Importers are not looked for again after the second look: those of a file
\* that came or went between the two are passed over.
Apply ==
    /\ IxApply
    /\ SemEnqueue(Deleted(ix), TRUE)
    /\ UnitsCascade(Removed(ix))
    /\ lost' = lost \ {p \in Removed(ix) : disk[p] = 0}
    /\ Finish(Removed(ix))
    /\ torn' = IF Full(ix) \/ AffectedImporters = {} THEN torn
               ELSE torn \cup {"index"}
    /\ UNCHANGED <<gateVars, watchVars, disk, edits, faults>>

ProcessFile(p) ==
    /\ IxFile(p, TRUE)
    /\ SemEnqueue(IF Reports(p, TRUE) THEN {p} ELSE {}, TRUE)
    /\ UNCHANGED units
    /\ lost' = IF disk[p] = 0 THEN lost ELSE lost \ {p}
    /\ unread' = unread \ {p}
    /\ UNCHANGED <<gateVars, watchVars, disk, edits, faults, torn>>

ProcessFails(p) ==
    /\ Fault
    /\ IxFile(p, FALSE)
    /\ SemEnqueue({p}, TRUE)
    /\ UNCHANGED units
    /\ unread' = unread \ {p}
    /\ UNCHANGED <<gateVars, watchVars, disk, edits, lost, torn>>

\* A terminal status is published: the Semantic Index follows.
Complete ==
    /\ IxComplete
    /\ SemFollow
    /\ UNCHANGED <<gateVars, watchVars, disk, history>>

RunEnds(status) ==
    /\ IF status = "failed" THEN Fault ELSE UNCHANGED faults
    /\ IxEnd(status)
    /\ SemFollow
    /\ lost' = lost \cup Ahead(ix)
    /\ Finish(Ahead(ix))
    /\ torn' = torn \cup {"index"}
    /\ UNCHANGED <<gateVars, watchVars, disk, edits>>

Cancel ==
    /\ Fault
    /\ IxCancel
    /\ UNCHANGED <<gateVars, watchVars, disk, semVars, edits, lost, unread, torn>>

Manual ==
    /\ faults < MaxFaults /\ faults' = faults + 1
    /\ IxManual
    /\ UNCHANGED <<gateVars, watchVars, disk, semVars, edits, lost, unread, torn>>

Retry ==
    /\ ~Running
    /\ IxRetry
    /\ UNCHANGED <<gateVars, watchVars, disk, semVars, history>>

-----------------------------------------------------------------------------
\* The Semantic Index
SemStep ==
    /\ \/ \E p \in semantic.work : SemTake(p)
       \/ SemRead(TRUE)
       \/ SemVerify(TRUE)
       \/ SemCancelled
    /\ torn' = IF semantic.aborted THEN torn \cup {"semantic"} ELSE torn
    /\ UNCHANGED <<gateVars, watchVars, disk, indexVars, wired, ensuring, following,
                   edits, faults, lost, unread>>

Ensured ==
    /\ SemEnsured
    /\ torn' = IF Forgotten = {} THEN torn ELSE torn \cup {"semantic"}
    /\ UNCHANGED <<gateVars, watchVars, disk, indexVars, edits, faults, lost, unread>>

SemFault ==
    /\ Fault
    /\ SemRead(FALSE) \/ SemVerify(FALSE) \/ SemCancel
    /\ UNCHANGED <<gateVars, watchVars, disk, indexVars, wired, ensuring, following,
                   edits, lost, unread, torn>>

\* The process ends and starts again; reviews may be reopened.
Restart(reopened) ==
    /\ Fault
    /\ GateRestart(reopened)
    /\ WatcherRestart
    /\ IxRestart
    /\ SemRestart
    /\ lost' = Paths
    /\ unread' = {}
    /\ torn' = {"index", "semantic"}
    /\ UNCHANGED <<disk, edits>>

IndexStep ==
    \/ \E p \in Paths : Stat(p) \/ ProcessFile(p)
    \/ Rediscover \/ Apply \/ Complete
    \/ RunEnds("cancelled")

Next ==
    \/ \E p \in Paths, content \in Contents \cup {0} : Edit(p, content)
    \/ Flush \/ StopWatching \/ WatcherError \/ StartWatching \/ Ready
    \/ Hold \/ Release
    \/ IndexStep \/ Truncate \/ (\E p \in Paths : ProcessFails(p))
    \/ RunEnds("failed") \/ Cancel \/ Manual \/ Retry
    \/ SemStep \/ Ensured \/ SemFault
    \/ \E reopened \in SUBSET held : Restart(reopened)

\* The debounce timer fires, file operations and provider requests return.
\* Nothing makes a user watch, release a review or retry.
Fairness ==
    /\ WF_vars(Flush)
    /\ WF_vars(Ready)
    /\ WF_vars(IndexStep)
    /\ WF_vars(SemStep)
    /\ WF_vars(Ensured)

Spec == Init /\ [][Next]_vars /\ Fairness

-----------------------------------------------------------------------------
\* The index does not say of p what is on disk.  A failed row says so itself.
Stale(p) ==
    IF disk[p] = 0 THEN Present(p)
    ELSE rows[p].state # "failed" /\ rows[p].analyzed # disk[p]

\* Something is under way that will make the index look at p.
Owed(p) ==
    \/ watch # "off" /\ (dropped \/ p \in changed \cup touched)
    \/ held # {} /\ (batch[Home].overflow \/ p \in batch[Home].paths)
    \/ Waits(p)
    \/ p \in Ahead(ix)

\* A change of a file is never forgotten between the watcher, the gate, the
\* pending change and the run, whatever arrives meanwhile, except where the
\* code is known to let it go (lost).
StaleIsOwed == \A p \in Paths : Stale(p) => p \in lost \/ Owed(p)

\* A change that was handed to the Project Index is reported to the model as
\* "potentially outdated" until a run has read it or gave it up.
UnreadIsReported == unread # {} => PotentiallyOutdated

Resting == ~Running /\ latest = [status |-> "completed", error |-> FALSE]

RelationsCurrent ==
    \A p \in Parsable :
        rows[p].state = "indexed" /\ Import[p] # NoPath =>
            IF Present(Import[p])
            THEN links[p] = [to |-> Import[p], hash |-> rows[Import[p]].analyzed]
            ELSE links[p] = NoLink

\* After a run that completed without a remark, an import leads to the row its
\* specifier names, with the hash of that row, and nowhere when there is none:
\* the importers of a file that appears or goes are read again, except after a
\* run that was cut off or found other files when it looked again.
RelationsFollowFiles == Resting /\ "index" \notin torn => RelationsCurrent

\* The same without those exceptions: what
\* docs/code-intelligence.md says of an unchanged importer.
ImportersReprocessed == Resting /\ lost = {} => RelationsCurrent

\* Units presented as current carry the hash of the row they were made from,
\* or the file is queued to be looked at again, unless a queue was let go.
UnitsFollowRows ==
    \A p \in Paths :
        units[p].status = "current" /\ units[p].hash # rows[p].analyzed =>
            "semantic" \in torn \/ p \in semPending \cup semantic.work

\* Again and again the index has read every change but those that were let go,
\* unless the watcher stops or a review holds the changes back.
IndexCatchesUp ==
    []<>(held # {} \/ watch = "off" \/ \A p \in Paths : Stale(p) => p \in lost)

\* Once every row agrees with its file the Semantic Index comes to rest: it
\* queues a file that is ahead of the Project Index again and again until then.
SemanticSettles ==
    <>[](\A p \in Paths : rows[p].analyzed = disk[p]) =>
        <>[](~semantic.on /\ semPending = {} /\ ensuring = <<>>)

=============================================================================
