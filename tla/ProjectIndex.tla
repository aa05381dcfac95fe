---------------------------- MODULE ProjectIndex ----------------------------
(***************************************************************************)
(* The Project Index of one workspace: project-index/ProjectIndexService   *)
(* (queue, runs, files), WorkspaceDiscoveryService (which paths a run      *)
(* finds), ProjectRelationResolver (where an import leads) and             *)
(* database/ProjectIndexRepository (the rows).                             *)
(*                                                                         *)
(* A path is a number, in the order discovery sorts paths; the content of  *)
(* a file is a number too, 0 for a file that is not there.  Each action is *)
(* the code between two awaits.                                            *)
(***************************************************************************)
EXTENDS WorkspaceChangeWatcher

CONSTANTS Contents,   \* contents a file can have (0 is: no file)
          Parsable,   \* the paths the parser registry has an adapter for
          Import      \* the path each path's import names, NoPath for none

NoPath == 0

ASSUME IndexAssumption ==
    /\ Paths \subseteq Nat \ {NoPath} /\ Parsable \subseteq Paths
    /\ Import \in [Paths -> Paths \cup {NoPath}]
    /\ 1 \in Contents /\ 0 \notin Contents

VARIABLES disk,         \* the files of the workspace
          rows,         \* project_index_files
          links,        \* project_index_imports: target path and target hash
          latest,       \* the last row of project_index_runs
          ix,           \* the run in progress, or phase "idle"
          pending,      \* pending: the changes that wait for the next run
          initialized   \* initialized: the first run was scheduled

indexVars == <<rows, links, latest, ix, pending, initialized>>

FullKinds == {"initial", "manual", "reconcile"}
RunKinds  == FullKinds \cup {"incremental", "retry"}

NoRow     == [state |-> "none", analyzed |-> 0]
NoLink    == [to |-> NoPath, hash |-> 0]
NoChange  == [paths |-> {}, overflow |-> FALSE]
Idle      == [phase |-> "idle", kind |-> "initial", asked |-> {}, todo |-> {},
              found |-> {}, missing |-> {}, forced |-> {}, work |-> {},
              truncated |-> FALSE, failures |-> FALSE, aborted |-> FALSE]

\* The rows of the tables, as far as the index reads them back
FileRows == [state : {"none", "indexed", "unsupported", "failed"},
             analyzed : Contents \cup {0}]
Links == [to : Paths \cup {NoPath}, hash : Contents \cup {0}]
RunRows == [status : {"none", "running", "completed", "failed", "cancelled"},
            error : BOOLEAN]
Runs == [phase : {"idle", "discover", "rediscover", "files"},
         kind : RunKinds, asked : SUBSET Paths, todo : SUBSET Paths,
         found : SUBSET Paths, missing : SUBSET Paths, forced : SUBSET Paths,
         work : SUBSET Paths, truncated : BOOLEAN, failures : BOOLEAN,
         aborted : BOOLEAN]

IndexTypeOK ==
    /\ disk \in [Paths -> Contents \cup {0}]
    /\ rows \in [Paths -> FileRows]
    /\ links \in [Paths -> Links]
    /\ latest \in RunRows
    /\ ix \in Runs
    /\ pending \in [paths : SUBSET Paths, overflow : BOOLEAN]
    /\ initialized \in BOOLEAN

IndexInit ==
    /\ rows = [p \in Paths |-> NoRow]
    /\ links = [p \in Paths |-> NoLink]
    /\ latest = [status |-> "none", error |-> FALSE]
    /\ ix = Idle
    /\ pending = NoChange
    /\ initialized = FALSE

-----------------------------------------------------------------------------
Present(p)   == rows[p].state # "none"
HasPending   == pending # NoChange
Running      == ix.phase # "idle"
Full(run)    == run.kind \in FullKinds

\* ParserRegistry.find: an adapter supports the file
Supported(p) == p \in Parsable
\* relationMayResolveToPath: the import of p could lead to q
MayResolve(p, q) == Import[p] # NoPath /\ Import[p] = q

\* buildAiContext: what the prompt says of the index
PotentiallyOutdated ==
    \/ latest.status # "completed"
    \/ latest.error
    \/ HasPending
    \/ held # {}

\* run(kind, paths) up to its first await: the row of the run, and what
\* discovery is going to look at.  A full discovery reads the directory.
NewRun(kind, ps) ==
    [Idle EXCEPT !.phase = "discover", !.kind = kind, !.asked = ps,
                 !.todo = IF kind \in FullKinds
                          THEN {p \in Paths : disk[p] # 0} ELSE ps]

\* updateRun, and createRun of a run that begins
Stored(status, error) == [status |-> status, error |-> error]
Started == Stored("running", FALSE)

\* The run the loop of schedule (or schedulePending) makes of the pending
\* change.
NextRun ==
    IF pending.overflow THEN NewRun("reconcile", pending.paths)
    ELSE NewRun("incremental", pending.paths)

\* schedule(kind, paths): whoever asks while a run is going on gets that run.
IxSchedule(kind, ps) ==
    IF Running THEN UNCHANGED <<ix, latest>>
    ELSE /\ ix' = NewRun(kind, ps)
         /\ latest' = Started

\* ensureIndexed(workspace)
IxEnsure ==
    /\ initialized' = TRUE
    /\ IF initialized THEN UNCHANGED <<ix, latest>> ELSE IxSchedule("initial", {})
    /\ UNCHANGED <<rows, links, pending>>

\* startManual(workspace)
IxManual ==
    /\ IxSchedule("manual", {})
    /\ UNCHANGED <<rows, links, pending, initialized>>

\* retryFailed(workspace)
IxRetry ==
    LET failed == {p \in Paths : rows[p].state = "failed"} IN
    /\ IF failed = {} THEN UNCHANGED <<ix, latest>> ELSE IxSchedule("retry", failed)
    /\ UNCHANGED <<rows, links, pending, initialized>>

\* Mutant: a change replaces the one that waits.
IxEnqueueReplacing(ev) ==
    /\ pending' = [paths |-> ev.paths, overflow |-> ev.overflow]
    /\ UNCHANGED <<ix, latest, rows, links, initialized>>

\* enqueueChange(event): nothing for an event with an error; otherwise merged
\* into the pending change, which starts at once when nothing runs.
IxEnqueue(ev) ==
    /\ IF ev.error THEN UNCHANGED <<ix, latest, pending>>
       ELSE LET merged == [paths |-> pending.paths \cup ev.paths,
                           overflow |-> pending.overflow \/ ev.overflow] IN
            IF initialized /\ ~Running
            THEN /\ pending' = NoChange
                 /\ ix' = NewRun(IF merged.overflow THEN "reconcile" ELSE "incremental",
                                 merged.paths)
                 /\ latest' = Started
            ELSE /\ pending' = merged
                 /\ UNCHANGED <<ix, latest>>
    /\ UNCHANGED <<rows, links, initialized>>

\* cancel(workspace)
IxCancel ==
    /\ Running
    /\ ~ix.aborted
    /\ ix' = [ix EXCEPT !.aborted = TRUE]
    /\ UNCHANGED <<rows, links, latest, pending, initialized>>

-----------------------------------------------------------------------------
\* Discovery: addFile's lstat of the next path
IxStat(p) ==
    /\ ix.phase \in {"discover", "rediscover"}
    /\ p \in ix.todo
    /\ ~ix.aborted
    /\ ix' = IF disk[p] = 0
             THEN [ix EXCEPT !.todo = @ \ {p}, !.missing = @ \cup {p}]
             ELSE [ix EXCEPT !.todo = @ \ {p}, !.found = @ \cup {p}]
    /\ UNCHANGED <<rows, links, latest, pending, initialized>>

\* Discovery stops at one of its budgets with paths left to look at.
IxTruncate ==
    /\ ix.phase \in {"discover", "rediscover"}
    /\ ix.todo # {}
    /\ ix' = [ix EXCEPT !.todo = {}, !.truncated = TRUE]
    /\ UNCHANGED <<rows, links, latest, pending, initialized>>

\* Mutant: a file that appears re-resolves no import.
AffectedByMissingOnly ==
    {p \in Paths :
        /\ Import[p] # NoPath /\ rows[p].state = "indexed"
        /\ links[p].to \in ix.missing}

\* findAffectedImporters: the importers whose import would resolve otherwise
\* now, unless they were asked for anyway.
AffectedImporters ==
    {p \in Paths :
        /\ Present(p) /\ Import[p] # NoPath /\ Supported(p)
        /\ Full(ix) \/ p \notin ix.asked
        /\ \/ /\ links[p].to # NoPath
              /\ \/ links[p].to \in ix.missing
                 \/ /\ ~ix.truncated /\ links[p].to \notin ix.found
                    /\ ix.asked = {} \/ Full(ix) \/ links[p].to \in ix.asked
           \/ \E q \in ix.found : ~Present(q) /\ MayResolve(p, q)}

\* removeMissingFiles, removeMissingForChange
RemoveMissingFiles(found) == Paths \ found
RemoveMissingForChange(asked, found) == asked \ found

\* A truncated discovery only removes what lstat proved missing.
Removed(run) ==
    IF run.truncated THEN RemoveMissingForChange(run.missing, run.found)
    ELSE IF Full(run) THEN RemoveMissingFiles(run.found)
    ELSE RemoveMissingForChange(run.asked \cup run.missing, run.found)

\* Discovery has returned and importers must be read again: look at them too.
IxRediscover ==
    /\ ix.phase = "discover" /\ ix.todo = {} /\ ~ix.aborted
    /\ ~Full(ix) /\ AffectedImporters # {}
    /\ ix' = [ix EXCEPT !.phase = "rediscover",
                        !.asked = @ \cup AffectedImporters,
                        !.forced = AffectedImporters,
                        !.todo = ix.asked \cup AffectedImporters,
                        !.found = {}, !.missing = {}, !.truncated = FALSE]
    /\ UNCHANGED <<rows, links, latest, pending, initialized>>

\* The rows onFileProcessed reports as deleted
Deleted(run) == {p \in Removed(run) : Present(p)}

\* Discovery is over: rows of files that are gone are removed (their
\* relations with them), the files found are next.
IxApply ==
    /\ \/ ix.phase = "rediscover"
       \/ ix.phase = "discover" /\ (Full(ix) \/ AffectedImporters = {})
    /\ ix.todo = {} /\ ~ix.aborted
    /\ rows' = [p \in Paths |-> IF p \in Removed(ix) THEN NoRow ELSE rows[p]]
    /\ links' = [p \in Paths |-> IF p \in Removed(ix) THEN NoLink ELSE links[p]]
    /\ ix' = [ix EXCEPT !.phase = "files", !.work = ix.found,
                        !.forced = IF Full(ix) THEN AffectedImporters ELSE @]
    /\ UNCHANGED <<latest, pending, initialized>>

-----------------------------------------------------------------------------
\* processFile's test for rows it may keep
Reusable(p) ==
    /\ ix.kind # "incremental" /\ p \notin ix.forced
    /\ rows[p].analyzed = disk[p]
    /\ rows[p].state = IF Supported(p) THEN "indexed" ELSE "unsupported"

\* resolveLocalTarget against the rows there are and the files just found
Resolve(p) ==
    LET to == Import[p] IN
    IF to # NoPath /\ (Present(to) \/ to \in ix.found)
    THEN [to |-> to, hash |-> rows[to].analyzed]
    ELSE NoLink

\* saveFileAnalysis: the row and its relations, in one transaction
SaveFileAnalysis(p) ==
    /\ rows' = [rows EXCEPT ![p] =
          [state |-> IF Supported(p) THEN "indexed" ELSE "unsupported",
           analyzed |-> disk[p]]]
    /\ links' = IF Reusable(p) THEN links
                ELSE [links EXCEPT ![p] =
                        IF Supported(p) THEN Resolve(p) ELSE NoLink]

\* processFile of the next file, with what it stores: reading, parsing or
\* saving may fail (`ok`), and then the old analysis stays.
IxFile(p, ok) ==
    /\ ix.phase = "files"
    /\ p \in ix.work
    /\ \A q \in ix.work : p <= q
    /\ ~ix.aborted
    /\ IF ok /\ disk[p] # 0
       THEN /\ SaveFileAnalysis(p)
            /\ ix' = [ix EXCEPT !.work = @ \ {p}]
       ELSE /\ rows' = [rows EXCEPT ![p].state = "failed"]
            /\ ix' = [ix EXCEPT !.work = @ \ {p}, !.failures = TRUE]
            /\ UNCHANGED links
    /\ UNCHANGED <<latest, pending, initialized>>

\* Whether processFile reports the file to onFileProcessed
Reports(p, ok) == ~(ok /\ disk[p] # 0 /\ Reusable(p))

\* Mutant: the loop ends after one run.
IxGoOnResting ==
    /\ ix' = Idle
    /\ UNCHANGED <<pending, initialized>>

\* The loop of schedule after a run: the pending change, or the end
IxGoOn ==
    /\ ix' = IF HasPending THEN NextRun ELSE Idle
    /\ pending' = NoChange
    /\ UNCHANGED initialized

\* refreshRelationHashes
RefreshRelationHashes ==
    links' = [p \in Paths |->
          IF links[p].to = NoPath THEN links[p]
          ELSE [links[p] EXCEPT !.hash = rows[links[p].to].analyzed]]

\* The hashes are refreshed, and the run is stored as completed.
IxComplete ==
    /\ ix.phase = "files" /\ ix.work = {}
    /\ RefreshRelationHashes
    /\ latest' = IF HasPending THEN Started
                 ELSE Stored("completed", ix.truncated \/ ix.failures)
    /\ IxGoOn
    /\ UNCHANGED rows

\* The catch of run: cancelled, or failed for another reason.  What the run
\* had not read is not asked for again.  A cancellation after the last file is
\* seen by the stack detection, or by nobody (IxComplete).
IxEnd(status) ==
    /\ Running
    /\ status = "cancelled" => ix.aborted
    /\ latest' = IF HasPending THEN Started ELSE Stored(status, TRUE)
    /\ IxGoOn
    /\ UNCHANGED <<rows, links>>

\* The paths the run has still to look at
Ahead(run) ==
    CASE run.phase = "idle"  -> {}
      [] run.phase = "files" -> run.work
      [] OTHER -> IF Full(run) THEN Paths ELSE run.asked

\* A new process finds the rows as they were.
IxRestart ==
    /\ ix' = Idle
    /\ pending' = NoChange
    /\ initialized' = FALSE
    /\ UNCHANGED <<rows, links, latest>>

=============================================================================
