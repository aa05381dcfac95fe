--------------------------- MODULE SemanticIndex ---------------------------
(***************************************************************************)
(* semantic-index/SemanticIndexService.ts of one workspace: a queue of     *)
(* paths and a loop that turns the rows of the Project Index into units,   *)
(* with a check of the file's bytes before and after the request to the    *)
(* embedding provider; SemanticIndexRepository and SemanticPrivacyPolicy.  *)
(***************************************************************************)
EXTENDS ProjectIndex, Sequences

CONSTANTS Private,     \* paths the privacy policy keeps out
          Embeds,      \* an embedding binding is configured and allowed
          MaxEnsures   \* bound: calls of ensureIndexed under way

ASSUME SemAssumption == MaxEnsures \in Nat

VARIABLES wired,     \* the service exists (registerIpc calls semanticIndex?.)
          units,     \* semantic_units of each path: what hash they are of
          semantic,  \* the loop of schedule: its work and the file in hand
          semPending,\* pending: paths for the next run
          ensuring,  \* calls of ensureIndexed that wait for the embedding to be
                     \* resolved, each with the rows it has listed
          following  \* a workspace.watch waits for the Project Index before it
                     \* calls ensureIndexed

semVars == <<wired, units, semantic, semPending, ensuring, following>>

NoUnits == [status |-> "none", hash |-> 0]
SemIdle == [on |-> FALSE, work |-> {}, step |-> "next", file |-> NoPath,
            hash |-> 0, aborted |-> FALSE]

\* What semantic_units holds of a file
FileUnits == [status : {"none", "current", "stale"}, hash : Contents \cup {0}]
SemRuns == [on : BOOLEAN, work : SUBSET Paths, step : {"next", "read", "embed"},
            file : Paths \cup {NoPath}, hash : Contents \cup {0}, aborted : BOOLEAN]

SemTypeOK ==
    /\ wired \in BOOLEAN
    /\ units \in [Paths -> FileUnits]
    /\ semantic \in SemRuns
    /\ semPending \subseteq Paths
    /\ ensuring \in Seq(SUBSET (Paths \X (Contents \cup {0})))
    /\ Len(ensuring) <= MaxEnsures
    /\ following \in BOOLEAN

SemInit ==
    /\ wired \in BOOLEAN
    /\ units = [p \in Paths |-> NoUnits]
    /\ semantic = SemIdle
    /\ semPending = {}
    /\ ensuring = <<>>
    /\ following = FALSE

-----------------------------------------------------------------------------
\* SemanticPrivacyPolicy.evaluate, and whether resolveEmbedding finds a provider
\* that may be asked
Excluded(p) == p \in Private
EmbeddingResolved == Embeds

SemRun(ps) == [SemIdle EXCEPT !.on = TRUE, !.work = ps]

\* pathsNeedingProcessing: the rows listed before the await, the units after
NeedUnits(listed) ==
    {p \in Paths : \E h \in Contents \cup {0} :
        /\ <<p, h>> \in listed
        /\ units[p].status # "current" \/ units[p].hash # h}

Listed == {<<p, rows[p].analyzed>> : p \in {q \in Paths : Present(q)}}

\* `calls` calls of ensureIndexed(workspace), up to its await
SemEnsure(calls) ==
    IF semantic.on \/ ~wired THEN UNCHANGED ensuring
    ELSE /\ Len(ensuring) + calls <= MaxEnsures
         /\ ensuring' = ensuring \o [i \in 1..calls |-> Listed]

\* Mutant: what waits is left to the next event.
SemEnsuredIgnoringPending ==
    /\ ensuring # <<>>
    /\ ensuring' = Tail(ensuring)
    /\ LET ps == NeedUnits(Head(ensuring)) IN
       semantic' = IF semantic.on \/ ps = {} THEN semantic ELSE SemRun(ps)
    /\ UNCHANGED <<wired, units, semPending, following>>

\* The rest of it: what waits is taken along, and given to schedule, which
\* has no use for it when a run has begun in the meantime.
SemEnsured ==
    /\ ensuring # <<>>
    /\ ensuring' = Tail(ensuring)
    /\ LET ps == NeedUnits(Head(ensuring)) \cup semPending IN
       semantic' = IF semantic.on \/ ps = {} THEN semantic ELSE SemRun(ps)
    /\ semPending' = {}
    /\ UNCHANGED <<wired, units, following>>

\* What SemEnsured lets go
Forgotten ==
    IF semantic.on THEN NeedUnits(Head(ensuring)) \cup semPending ELSE {}

\* onWorkspaceWatch: ensureIndexed once the Project Index has nothing to do
SemWatch ==
    /\ IF initialized /\ ~Running
       THEN SemEnsure(1) /\ UNCHANGED following
       ELSE following' = wired /\ UNCHANGED ensuring
    /\ UNCHANGED <<wired, units, semantic, semPending>>

\* onStatus of a run of the Project Index that is over, and the call that
\* waited for the index when its loop is over too
SemFollow ==
    /\ IF following /\ ix'.phase = "idle"
       THEN SemEnsure(2) /\ following' = FALSE
       ELSE SemEnsure(1) /\ UNCHANGED following
    /\ UNCHANGED <<wired, units, semantic, semPending>>

\* Mutant: a file that arrives during a run is not kept for the next one.
SemEnqueueDropped(ps, busy) ==
    /\ IF ps = {} \/ ~wired \/ semantic.on \/ busy THEN UNCHANGED <<semantic, semPending>>
       ELSE /\ semantic' = SemRun(semPending \cup ps)
            /\ semPending' = {}
    /\ UNCHANGED <<wired, ensuring, following>>

\* enqueueFile, enqueuePaths: started at once unless a run of this index or of
\* the Project Index (`busy`) is going on; the end of either starts it then.
SemEnqueue(ps, busy) ==
    /\ IF ps = {} \/ ~wired THEN UNCHANGED <<semantic, semPending>>
       ELSE IF semantic.on \/ busy
       THEN /\ semPending' = semPending \cup ps
            /\ UNCHANGED semantic
       ELSE /\ semantic' = SemRun(semPending \cup ps)
            /\ semPending' = {}
    /\ UNCHANGED <<wired, ensuring, following>>

\* The file in hand is done, and `again` is queued: the next file, the next
\* run (the loop of schedule), or the end.
SemDone(p, again) ==
    IF semantic.work \ {p} # {}
    THEN /\ semantic' = [semantic EXCEPT !.work = @ \ {p}, !.step = "next",
                                         !.file = NoPath, !.hash = 0]
         /\ semPending' = semPending \cup again
    ELSE /\ semantic' = IF semPending \cup again = {} THEN SemIdle
                        ELSE SemRun(semPending \cup again)
         /\ semPending' = {}

MarkStale(p) ==
    units' = [units EXCEPT ![p].status = IF @ = "none" THEN @ ELSE "stale"]

\* processFile: the row of the file decides, or its bytes must be read
SemTake(p) ==
    /\ semantic.on /\ ~semantic.aborted
    /\ semantic.step = "next"
    /\ p \in semantic.work
    /\ IF ~Present(p) \/ Excluded(p)
       THEN /\ units' = [units EXCEPT ![p] = NoUnits]
            /\ SemDone(p, {})
       ELSE IF rows[p].state = "failed" \/ rows[p].analyzed = 0
       THEN MarkStale(p) /\ SemDone(p, {})
       ELSE IF units[p] = [status |-> "current", hash |-> rows[p].analyzed]
       THEN UNCHANGED units /\ SemDone(p, {})
       ELSE /\ semantic' = [semantic EXCEPT !.step = "read", !.file = p,
                                            !.hash = rows[p].analyzed]
            /\ UNCHANGED <<units, semPending>>

\* replaceFileUnits; without a row of the file the foreign key refuses the
\* units, and the loop marks what there is.
SemSave ==
    /\ IF Present(semantic.file)
       THEN units' = [units EXCEPT ![semantic.file] =
                        [status |-> "current", hash |-> semantic.hash]]
       ELSE MarkStale(semantic.file)
    /\ SemDone(semantic.file, {})

\* The rows of the Project Index that are removed take their units with them
\* (ON DELETE CASCADE).
UnitsCascade(ps) == units' = [p \in Paths |-> IF p \in ps THEN NoUnits ELSE units[p]]

\* The first read: bytes the Project Index has not analysed are left to it,
\* and the file is queued again.  A file that cannot be read is marked.
SemRead(ok) ==
    /\ semantic.on /\ semantic.step = "read"
    /\ ~semantic.aborted \/ disk[semantic.file] \notin {0, semantic.hash}
    /\ LET p == semantic.file IN
       IF ~ok \/ disk[p] = 0 THEN MarkStale(p) /\ SemDone(p, {})
       ELSE IF disk[p] # semantic.hash THEN MarkStale(p) /\ SemDone(p, {p})
       ELSE IF EmbeddingResolved
       THEN /\ semantic' = [semantic EXCEPT !.step = "embed"]
            /\ UNCHANGED <<units, semPending>>
       ELSE SemSave

\* The provider has answered (or failed: lexical units are kept), and the
\* bytes are compared once more.
SemVerify(ok) ==
    /\ semantic.on /\ semantic.step = "embed"
    /\ LET p == semantic.file IN
       IF ok /\ disk[p] # 0 /\ disk[p] # semantic.hash
       THEN MarkStale(p) /\ SemDone(p, {p})
       ELSE SemSave

\* cancel(workspace), and the catch of run
SemCancel ==
    /\ semantic.on /\ ~semantic.aborted
    /\ semantic' = [semantic EXCEPT !.aborted = TRUE]
    /\ UNCHANGED <<units, semPending>>

SemCancelled ==
    /\ semantic.on /\ semantic.aborted
    /\ semantic' = IF semPending = {} THEN SemIdle ELSE SemRun(semPending)
    /\ semPending' = {}
    /\ UNCHANGED units

\* A new process finds the units as they were.
SemRestart ==
    /\ semantic' = SemIdle
    /\ semPending' = {}
    /\ ensuring' = <<>>
    /\ following' = FALSE
    /\ UNCHANGED <<wired, units>>

=============================================================================
