---------------------- MODULE WorkspaceServicesProofs ----------------------
(***************************************************************************)
(* The safety of WorkspaceServices for every workspace, every number of    *)
(* files, imports, edits and faults, and every limit; and, each by itself, *)
(* of the findings that EngineeringHealth derives from the index.          *)
(***************************************************************************)
EXTENDS WorkspaceServices, EngineeringHealth, WellFoundedInduction, FiniteSetTheorems, TLAPS

-----------------------------------------------------------------------------
(* Types.                                                                  *)

LEMMA NewRunType ==
    ASSUME NEW kind \in RunKinds, NEW ps \in SUBSET Paths
    PROVE  NewRun(kind, ps) \in Runs
BY DEF NewRun, Idle, Runs

LEMMA IdleType == Idle \in Runs
BY DEF Idle, Runs, RunKinds, FullKinds

LEMMA StoredType ==
    /\ Started \in RunRows
    /\ \A status \in {"completed", "failed", "cancelled"}, error \in BOOLEAN :
          Stored(status, error) \in RunRows
BY DEF Started, Stored, RunRows

\* Each operation of the gate keeps the types of the gate.
LEMMA GateTypes ==
    ASSUME GateTypeOK
    PROVE  /\ GateBegin(Home) => GateTypeOK'
           /\ GateRelease(Home) => GateTypeOK'
           /\ \A ev \in Events : GateEnqueue(Home, ev) => GateTypeOK'
           /\ \A S \in SUBSET held : GateRestart(S) => GateTypeOK'
<1> USE ServicesAssumption DEF GateTypeOK
<1>1. NoBatch \in Events
  BY DEF NoBatch, Events
<1>2. \A due \in SUBSET Paths, ev \in Events :
         Due(due, ev) \in SUBSET Paths /\ StillOwed(due, ev) \in SUBSET Paths
  BY DEF Due, StillOwed, Events
<1>3. ASSUME NEW prev \in Events, NEW ev \in Events, NEW merged \in Coalesced(prev, ev)
      PROVE  merged \in Events
  <2>1. PICK kept \in SUBSET (ev.paths \ prev.paths) :
            merged = [paths    |-> prev.paths \cup kept,
                      overflow |-> prev.overflow \/ ev.overflow,
                      error    |-> ev.error]
    BY DEF Coalesced
  <2>2. prev.paths \cup kept \in SUBSET Paths
    BY DEF Events
  <2> QED  BY <2>1, <2>2 DEF Events
<1>4. GateBegin(Home) => GateTypeOK'
  BY DEF GateBegin
<1>5. GateRelease(Home) => GateTypeOK'
  BY <1>1, <1>2 DEF GateRelease
<1>6. ASSUME NEW ev \in Events, GateEnqueue(Home, ev) PROVE GateTypeOK'
  <2>1. CASE Home \in held
    <3>1. PICK merged \in Coalesced(batch[Home], ev) :
              batch' = [batch EXCEPT ![Home] = merged]
      BY <1>6, <2>1 DEF GateEnqueue
    <3>2. owed' = [owed EXCEPT ![Home] = Due(@, ev)] /\ held' = held
      BY <1>6, <2>1 DEF GateEnqueue
    <3> QED  BY <1>2, <1>3, <3>1, <3>2
  <2>2. CASE Home \notin held
    <3>1. Due(owed[Home], ev) \in SUBSET Paths
      BY <1>2
    <3>2. StillOwed(Due(owed[Home], ev), ev) \in SUBSET Paths
      BY <1>2, <3>1
    <3> QED  BY <1>6, <2>2, <3>2 DEF GateEnqueue
  <2> QED  BY <2>1, <2>2
<1>7. \A S \in SUBSET held : GateRestart(S) => GateTypeOK'
  BY <1>1 DEF GateRestart
<1> QED  BY <1>4, <1>5, <1>6, <1>7

\* Each operation of the watcher keeps the types of the watcher.
LEMMA WatcherTypes ==
    ASSUME WatcherTypeOK,
           \/ WatcherStart \/ WatcherReady \/ WatcherFlush \/ WatcherStop
           \/ WatcherRestart
           \/ \E p \in Paths : WatcherSees(p)
    PROVE  WatcherTypeOK'
<1> USE WatcherAssumption DEF WatcherTypeOK
<1>1. Cardinality({}) <= ChangeLimit
  <2>1. Cardinality({}) = 0
    BY FS_EmptySet
  <2> QED  BY <2>1
<1>2. ASSUME NEW ps \in SUBSET Paths, WatcherQueue(ps)
      PROVE  /\ changed' \subseteq Paths /\ Cardinality(changed') <= ChangeLimit
             /\ dropped' \in BOOLEAN
  BY <1>2 DEF WatcherQueue
<1>3. CASE WatcherStart
  BY <1>3 DEF WatcherStart
<1>4. CASE WatcherReady
  BY <1>2, <1>4 DEF WatcherReady
<1>5. CASE WatcherFlush \/ WatcherStop \/ WatcherRestart
  BY <1>1, <1>5 DEF WatcherFlush, WatcherStop, WatcherRestart
<1>6. ASSUME NEW p \in Paths, WatcherSees(p) PROVE WatcherTypeOK'
  BY <1>2, <1>6 DEF WatcherSees, watchVars, Differing
<1> QED  BY <1>3, <1>4, <1>5, <1>6

\* The event of a flush is one the gate and the indexes expect.
LEMMA WatcherEventType ==
    ASSUME WatcherTypeOK PROVE WatcherEvent \in Events
BY DEF WatcherTypeOK, WatcherEvent, Events

\* Each operation of the Project Index keeps its types.
LEMMA IndexTypes ==
    ASSUME IndexTypeOK, disk' \in [Paths -> Contents \cup {0}],
           \/ IxEnsure \/ IxManual \/ IxRetry \/ IxCancel \/ IxTruncate
           \/ IxRediscover \/ IxApply \/ IxComplete \/ IxRestart
           \/ \E ev \in Events : IxEnqueue(ev)
           \/ \E p \in Paths : IxStat(p)
           \/ \E p \in Paths, ok \in BOOLEAN : IxFile(p, ok)
           \/ \E status \in {"failed", "cancelled"} : IxEnd(status)
    PROVE  IndexTypeOK'
<1> USE DEF IndexTypeOK
<1>1. NoChange \in [paths : SUBSET Paths, overflow : BOOLEAN]
  BY DEF NoChange
<1>2. ASSUME NEW kind \in RunKinds, NEW ps \in SUBSET Paths, IxSchedule(kind, ps)
      PROVE  ix' \in Runs /\ latest' \in RunRows
  BY <1>2, NewRunType, StoredType DEF IxSchedule
<1>3. CASE IxEnsure
  BY <1>2, <1>3 DEF IxEnsure, RunKinds, FullKinds
<1>4. CASE IxManual
  BY <1>2, <1>4 DEF IxManual, RunKinds, FullKinds
<1>5. CASE IxRetry
  BY <1>2, <1>5 DEF IxRetry, RunKinds
<1>6. CASE IxCancel \/ IxTruncate
  BY <1>6 DEF IxCancel, IxTruncate, Runs
<1>7. AffectedImporters \in SUBSET Paths /\ Removed(ix) \in SUBSET Paths
  BY DEF AffectedImporters, Removed, RemoveMissingForChange, RemoveMissingFiles, Runs
<1>8. CASE IxRediscover
  BY <1>7, <1>8 DEF IxRediscover, Runs
<1>9. CASE IxApply
  <2>1. ix' \in Runs
    BY <1>7, <1>9 DEF IxApply, Runs
  <2>2. NoRow \in FileRows /\ NoLink \in Links
    BY DEF NoRow, FileRows, NoLink, Links
  <2> QED  BY <1>9, <2>1, <2>2 DEF IxApply
<1>10. ASSUME HasPending PROVE NextRun \in Runs
  BY NewRunType DEF NextRun, RunKinds, FullKinds
<1>11. ASSUME IxGoOn PROVE ix' \in Runs /\ pending' = NoChange /\ initialized' = initialized
  BY <1>10, <1>11, IdleType DEF IxGoOn
<1>12. CASE IxComplete
  <2>1. links' \in [Paths -> Links]
    BY <1>12 DEF IxComplete, RefreshRelationHashes, Links, FileRows
  <2>2. latest' \in RunRows
    BY <1>12, StoredType DEF IxComplete, Runs
  <2> QED  BY <1>1, <1>11, <1>12, <2>1, <2>2 DEF IxComplete
<1>13. CASE IxRestart
  BY <1>1, <1>13, IdleType DEF IxRestart
<1>14. ASSUME NEW ev \in Events, IxEnqueue(ev) PROVE IndexTypeOK'
  <2> DEFINE merged == [paths |-> pending.paths \cup ev.paths,
                        overflow |-> pending.overflow \/ ev.overflow]
  <2>1. merged \in [paths : SUBSET Paths, overflow : BOOLEAN]
    BY DEF Events
  <2>2. \A kind \in RunKinds : NewRun(kind, merged.paths) \in Runs
    BY <2>1, NewRunType
  <2>3. NewRun(IF merged.overflow THEN "reconcile" ELSE "incremental", merged.paths) \in Runs
    BY <2>2 DEF RunKinds, FullKinds
  <2>4. CASE ev.error
    BY <1>14, <2>4 DEF IxEnqueue
  <2>5. CASE ~ev.error /\ initialized /\ ~Running
    BY <1>1, <1>14, <2>3, <2>5, StoredType DEF IxEnqueue
  <2>6. CASE ~ev.error /\ ~(initialized /\ ~Running)
    BY <1>14, <2>1, <2>6 DEF IxEnqueue
  <2> QED  BY <2>4, <2>5, <2>6
<1>15. ASSUME NEW p \in Paths, IxStat(p) PROVE IndexTypeOK'
  BY <1>15 DEF IxStat, Runs
<1>16. ASSUME NEW p \in Paths, NEW ok \in BOOLEAN, IxFile(p, ok) PROVE IndexTypeOK'
  <2>1. [state |-> IF Supported(p) THEN "indexed" ELSE "unsupported",
         analyzed |-> disk[p]] \in FileRows
    BY DEF FileRows
  <2>2. Resolve(p) \in Links /\ NoLink \in Links
    BY IndexAssumption DEF Resolve, NoLink, Links, FileRows
  <2>3. CASE ok /\ disk[p] # 0
    <3>1. SaveFileAnalysis(p) /\ ix' = [ix EXCEPT !.work = @ \ {p}]
      BY <1>16, <2>3 DEF IxFile
    <3>2. rows' \in [Paths -> FileRows] /\ links' \in [Paths -> Links]
      BY <2>1, <2>2, <3>1 DEF SaveFileAnalysis
    <3> QED  BY <1>16, <3>1, <3>2 DEF IxFile, Runs
  <2>4. CASE ~(ok /\ disk[p] # 0)
    <3>1. /\ rows' = [rows EXCEPT ![p].state = "failed"] /\ links' = links
          /\ ix' = [ix EXCEPT !.work = @ \ {p}, !.failures = TRUE]
      BY <1>16, <2>4 DEF IxFile
    <3>2. rows' \in [Paths -> FileRows]
      BY <3>1 DEF FileRows
    <3> QED  BY <1>16, <3>1, <3>2 DEF IxFile, Runs
  <2> QED  BY <2>3, <2>4
<1>17. ASSUME NEW status \in {"failed", "cancelled"}, IxEnd(status) PROVE IndexTypeOK'
  BY <1>1, <1>11, <1>17, StoredType DEF IxEnd
<1> QED
  BY <1>3, <1>4, <1>5, <1>6, <1>8, <1>9, <1>12, <1>13, <1>14, <1>15, <1>16, <1>17

-----------------------------------------------------------------------------
\* The file in hand is a path, and without a run there is no work.
FileInHand ==
    /\ semantic.step # "next" => semantic.file \in Paths
    /\ ~semantic.on => semantic = SemIdle

\* What the loop of the Semantic Index changes.
SemWorkTyped ==
    /\ units \in [Paths -> FileUnits]
    /\ semantic \in SemRuns
    /\ semPending \in SUBSET Paths
    /\ FileInHand

LEMMA SemRunType ==
    /\ SemIdle \in SemRuns /\ SemIdle.step = "next" /\ ~SemIdle.on
    /\ \A ps \in SUBSET Paths :
          /\ SemRun(ps) \in SemRuns
          /\ SemRun(ps).step = "next" /\ SemRun(ps).on /\ SemRun(ps).work = ps
          /\ ~SemRun(ps).aborted
BY DEF SemRuns, SemIdle, SemRun

LEMMA SemDoneType ==
    ASSUME SemWorkTyped, semantic.on, NEW p, NEW again \in SUBSET Paths, SemDone(p, again)
    PROVE  semantic' \in SemRuns /\ semPending' \in SUBSET Paths /\ FileInHand'
<1> USE DEF SemWorkTyped, FileInHand
<1>1. CASE semantic.work \ {p} # {}
  <2>1. /\ semantic' = [semantic EXCEPT !.work = @ \ {p}, !.step = "next",
                                        !.file = NoPath, !.hash = 0]
        /\ semPending' = semPending \cup again
    BY <1>1 DEF SemDone
  <2>2. semantic' \in SemRuns /\ semantic'.step = "next" /\ semantic'.on
    BY <2>1 DEF SemRuns
  <2> QED  BY <2>1, <2>2
<1>2. CASE semantic.work \ {p} = {}
  BY <1>2, SemRunType DEF SemDone
<1> QED  BY <1>1, <1>2

\* The steps of the loop keep its types.
LEMMA SemStepTypes ==
    ASSUME SemWorkTyped, IndexTypeOK,
           \/ \E p \in Paths : SemTake(p)
           \/ \E ok \in BOOLEAN : SemRead(ok) \/ SemVerify(ok)
           \/ SemCancelled \/ SemCancel
    PROVE  SemWorkTyped'
<1> USE DEF SemWorkTyped
<1>1. \A p \in Paths : MarkStale(p) => units' \in [Paths -> FileUnits]
  BY DEF MarkStale, FileUnits
<1>2. NoUnits \in FileUnits
  BY DEF NoUnits, FileUnits
<1>3. ASSUME NEW p \in Paths, SemTake(p) PROVE SemWorkTyped'
  <2>1. CASE ~Present(p) \/ Excluded(p)
    BY <1>2, <1>3, <2>1, SemDoneType DEF SemTake
  <2>2. CASE /\ ~(~Present(p) \/ Excluded(p))
             /\ rows[p].state = "failed" \/ rows[p].analyzed = 0
    BY <1>1, <1>3, <2>2, SemDoneType DEF SemTake
  <2>3. CASE /\ ~(~Present(p) \/ Excluded(p))
             /\ ~(rows[p].state = "failed" \/ rows[p].analyzed = 0)
             /\ units[p] = [status |-> "current", hash |-> rows[p].analyzed]
    BY <1>3, <2>3, SemDoneType DEF SemTake
  <2>4. CASE /\ ~(~Present(p) \/ Excluded(p))
             /\ ~(rows[p].state = "failed" \/ rows[p].analyzed = 0)
             /\ units[p] # [status |-> "current", hash |-> rows[p].analyzed]
    <3>1. rows[p].analyzed \in Contents \cup {0}
      BY DEF IndexTypeOK, FileRows
    <3>2. /\ semantic' = [semantic EXCEPT !.step = "read", !.file = p,
                                          !.hash = rows[p].analyzed]
          /\ UNCHANGED <<units, semPending>>
          /\ semantic.on
      BY <1>3, <2>4 DEF SemTake
    <3> QED  BY <3>1, <3>2 DEF SemRuns, FileInHand
  <2> QED  BY <2>1, <2>2, <2>3, <2>4
<1>4. ASSUME SemSave, semantic.on, semantic.file \in Paths PROVE SemWorkTyped'
  <2>1. units' \in [Paths -> FileUnits]
    <3>1. CASE Present(semantic.file)
      BY <1>4, <3>1 DEF SemSave, SemRuns, FileUnits
    <3> QED  BY <1>1, <1>4, <3>1 DEF SemSave
  <2>2. SemDone(semantic.file, {})
    BY <1>4 DEF SemSave
  <2> QED  BY <1>4, <2>1, <2>2, SemDoneType
<1>5. ASSUME NEW again \in SUBSET Paths, semantic.on, semantic.file \in Paths,
             MarkStale(semantic.file), SemDone(semantic.file, again)
      PROVE  SemWorkTyped'
  BY <1>1, <1>5, SemDoneType
<1>6. ASSUME NEW ok \in BOOLEAN, SemRead(ok) PROVE SemWorkTyped'
  <2> DEFINE p == semantic.file
  <2>1. p \in Paths /\ semantic.on
    BY <1>6 DEF SemRead, FileInHand
  <2>2. CASE ~ok \/ disk[p] = 0
    BY <1>5, <1>6, <2>1, <2>2 DEF SemRead
  <2>3. CASE ok /\ disk[p] # 0 /\ disk[p] # semantic.hash
    BY <1>5, <1>6, <2>1, <2>3 DEF SemRead
  <2>4. CASE ok /\ disk[p] # 0 /\ disk[p] = semantic.hash
    <3>1. CASE EmbeddingResolved
      BY <1>6, <2>1, <2>4, <3>1 DEF SemRead, SemRuns, FileInHand
    <3>2. CASE ~EmbeddingResolved
      BY <1>4, <1>6, <2>1, <2>4, <3>2 DEF SemRead
    <3> QED  BY <3>1, <3>2
  <2> QED  BY <1>6, <2>2, <2>3, <2>4
<1>7. ASSUME NEW ok \in BOOLEAN, SemVerify(ok) PROVE SemWorkTyped'
  <2>1. semantic.file \in Paths /\ semantic.on
    BY <1>7 DEF SemVerify, FileInHand
  <2> QED  BY <1>4, <1>5, <1>7, <2>1 DEF SemVerify
<1>8. CASE SemCancelled
  BY <1>8, SemRunType DEF SemCancelled, FileInHand
<1>9. CASE SemCancel
  BY <1>9 DEF SemCancel, SemRuns, FileInHand
<1> QED  BY <1>3, <1>6, <1>7, <1>8, <1>9

\* The calls of ensureIndexed under way are a sequence of listings.
Listings == SUBSET (Paths \X (Contents \cup {0}))

LEMMA EnsureType ==
    ASSUME IndexTypeOK, SemTypeOK, NEW calls \in {1, 2}, SemEnsure(calls)
    PROVE  ensuring' \in Seq(Listings) /\ Len(ensuring') <= MaxEnsures
<1> USE SemAssumption DEF SemTypeOK, Listings
<1>1. Listed \in Listings
  BY DEF Listed, IndexTypeOK, FileRows
<1> DEFINE more == [i \in 1..calls |-> Listed]
<1>2. more \in Seq(Listings) /\ Len(more) = calls
  BY <1>1
<1>3. CASE semantic.on \/ ~wired
  BY <1>3 DEF SemEnsure
<1>4. CASE ~(semantic.on \/ ~wired)
  <2>1. ensuring' = ensuring \o more /\ Len(ensuring) + calls <= MaxEnsures
    BY <1>4 DEF SemEnsure
  <2>2. ensuring \o more \in Seq(Listings) /\ Len(ensuring \o more) = Len(ensuring) + Len(more)
    BY <1>2
  <2> QED  BY <1>2, <2>1, <2>2
<1> QED  BY <1>3, <1>4

\* Each operation of the Semantic Index that others call keeps its types.
LEMMA SemTypes ==
    ASSUME IndexTypeOK, SemTypeOK, FileInHand
    PROVE  /\ SemWatch => (SemTypeOK /\ FileInHand)'
           /\ SemFollow => (SemTypeOK /\ FileInHand)'
           /\ SemEnsured => (SemTypeOK /\ FileInHand)'
           /\ SemRestart => (SemTypeOK /\ FileInHand)'
           /\ \A ps \in SUBSET Paths, busy \in BOOLEAN :
                 SemEnqueue(ps, busy) /\ UNCHANGED units => (SemTypeOK /\ FileInHand)'
           /\ \A ps, q \in SUBSET Paths :
                 SemEnqueue(ps, TRUE) /\ UnitsCascade(q) => (SemTypeOK /\ FileInHand)'
<1> USE SemAssumption DEF SemTypeOK, FileInHand, Listings
<1>1. SemWatch => (SemTypeOK /\ FileInHand)'
  BY EnsureType DEF SemWatch
<1>2. SemFollow => (SemTypeOK /\ FileInHand)'
  BY EnsureType DEF SemFollow
<1>3. ASSUME SemEnsured PROVE (SemTypeOK /\ FileInHand)'
  <2>1. ensuring' \in Seq(Listings) /\ Len(ensuring') <= MaxEnsures
    BY <1>3 DEF SemEnsured
  <2>2. NeedUnits(Head(ensuring)) \cup semPending \in SUBSET Paths
    BY DEF NeedUnits
  <2>3. /\ semantic' \in SemRuns /\ FileInHand'
    BY <1>3, <2>2, SemRunType DEF SemEnsured
  <2> QED  BY <1>3, <2>1, <2>3 DEF SemEnsured
<1>4. ASSUME SemRestart PROVE (SemTypeOK /\ FileInHand)'
  <2>1. <<>> \in Seq(Listings) /\ Len(<<>>) <= MaxEnsures
    OBVIOUS
  <2> QED  BY <1>4, <2>1, SemRunType DEF SemRestart
<1>5. ASSUME NEW ps \in SUBSET Paths, NEW busy, SemEnqueue(ps, busy)
      PROVE  /\ semantic' \in SemRuns /\ semPending' \in SUBSET Paths /\ FileInHand'
             /\ wired' = wired /\ ensuring' = ensuring /\ following' = following
  <2>1. semPending \cup ps \in SUBSET Paths
    OBVIOUS
  <2> QED  BY <1>5, <2>1, SemRunType DEF SemEnqueue
<1>6. \A q : UnitsCascade(q) => units' \in [Paths -> FileUnits]
  BY DEF UnitsCascade, NoUnits, FileUnits
<1> QED  BY <1>1, <1>2, <1>3, <1>4, <1>5, <1>6

-----------------------------------------------------------------------------
(* The type invariant.                                                     *)

TypeInv == TypeOK /\ FileInHand

LEMMA AheadType ==
    ASSUME IndexTypeOK PROVE Ahead(ix) \in SUBSET Paths /\ Removed(ix) \in SUBSET Paths
BY DEF IndexTypeOK, Ahead, Removed, RemoveMissingForChange, RemoveMissingFiles, Runs

LEMMA CollectedType ==
    ASSUME WatcherTypeOK PROVE Collected \in SUBSET Paths
BY DEF WatcherTypeOK, Collected

\* What a step leaves alone keeps its type.
LEMMA FrameTypes ==
    ASSUME TypeInv
    PROVE  /\ UNCHANGED gateVars => GateTypeOK'
           /\ UNCHANGED watchVars => WatcherTypeOK'
           /\ UNCHANGED indexVars /\ UNCHANGED disk => IndexTypeOK'
           /\ UNCHANGED semVars => SemTypeOK' /\ FileInHand'
           /\ disk \in [Paths -> Contents \cup {0}]
BY DEF TypeInv, TypeOK, gateVars, watchVars, indexVars, semVars, GateTypeOK,
   WatcherTypeOK, IndexTypeOK, SemTypeOK, FileInHand

\* An event that comes through the gate, or one the gate kept.
LEMMA DeliverTypes ==
    ASSUME TypeInv, NEW ev \in Events, Deliver(ev), disk' = disk
    PROVE  /\ GateTypeOK' /\ IndexTypeOK' /\ SemTypeOK' /\ FileInHand'
           /\ lost' \in SUBSET Paths /\ unread' \in SUBSET Paths
<1> USE DEF TypeInv, TypeOK
<1>1. GateTypeOK'
  BY GateTypes DEF Deliver
<1>2. IndexTypeOK'
  BY IndexTypes, FrameTypes DEF Deliver
<1>3. ev.paths \in SUBSET Paths /\ Named(ev) \in SUBSET Paths
  BY DEF Events, Named
<1>4. SemTypeOK' /\ FileInHand'
  BY <1>3, SemTypes DEF Deliver
<1> QED  BY <1>1, <1>2, <1>3, <1>4 DEF Deliver

LEMMA TypeInvStep ==
    ASSUME TypeInv, [Next]_vars PROVE TypeInv'
<1> USE ServicesAssumption
<1> DEFINE Others == /\ edits' \in 0..MaxEdits[wired]' /\ faults' \in 0..MaxFaults
                     /\ lost' \subseteq Paths /\ unread' \subseteq Paths
                     /\ torn' \subseteq {"index", "semantic"}
<1>1. ASSUME GateTypeOK', WatcherTypeOK', IndexTypeOK', SemTypeOK', FileInHand', Others
      PROVE  TypeInv'
  BY <1>1 DEF TypeInv, TypeOK
<1>2. /\ GateTypeOK /\ WatcherTypeOK /\ IndexTypeOK /\ SemTypeOK /\ FileInHand
      /\ edits \in 0..MaxEdits[wired] /\ faults \in 0..MaxFaults
      /\ lost \subseteq Paths /\ unread \subseteq Paths
      /\ torn \subseteq {"index", "semantic"} /\ wired \in BOOLEAN
  BY DEF TypeInv, TypeOK, SemTypeOK
<1>3. /\ Ahead(ix) \in SUBSET Paths /\ Removed(ix) \in SUBSET Paths
      /\ Collected \in SUBSET Paths
  BY <1>2, AheadType, CollectedType
<1>4. ASSUME Fault PROVE faults' \in 0..MaxFaults
  BY <1>2, <1>4 DEF Fault
<1>5. \A ps : Finish(ps) => unread' \subseteq Paths
  BY <1>2 DEF Finish
<1>6. SemWorkTyped
  BY <1>2 DEF SemWorkTyped, SemTypeOK
<1>7. wired' = wired
  BY DEF Next, Edit, Flush, Deliver, StopWatching, WatcherError, StartWatching, Ready,
     Hold, Release, IndexStep, Stat, ProcessFile, Rediscover, Apply, Complete, RunEnds,
     Truncate, ProcessFails, Cancel, Manual, Retry, SemStep, Ensured, SemFault, Restart,
     semVars, vars, SemEnqueue, SemWatch, SemFollow, SemEnsured, SemRestart
<1>8. ASSUME NEW p \in Paths, NEW content \in Contents \cup {0}, Edit(p, content)
      PROVE  TypeInv'
  <2>1. WatcherTypeOK' /\ GateTypeOK' /\ SemTypeOK' /\ FileInHand'
    BY <1>2, <1>8, WatcherTypes, FrameTypes DEF Edit
  <2>2. IndexTypeOK'
    BY <1>2, <1>8 DEF Edit, indexVars, IndexTypeOK
  <2>3. Others
    BY <1>2, <1>7, <1>8 DEF Edit
  <2> QED  BY <2>1, <2>2, <2>3, <1>1
<1>9. CASE Flush
  <2>1. WatcherEvent \in Events
    BY <1>2, WatcherEventType
  <2>2. /\ GateTypeOK' /\ IndexTypeOK' /\ SemTypeOK' /\ FileInHand'
        /\ lost' \in SUBSET Paths /\ unread' \in SUBSET Paths
    BY <1>9, <2>1, DeliverTypes DEF Flush
  <2>3. WatcherTypeOK'
    BY <1>2, <1>9, WatcherTypes DEF Flush
  <2> QED  BY <1>1, <1>2, <1>7, <1>9, <2>2, <2>3 DEF Flush
<1>10. CASE StopWatching
  <2>1. WatcherTypeOK' /\ GateTypeOK' /\ IndexTypeOK' /\ SemTypeOK' /\ FileInHand'
    BY <1>2, <1>10, WatcherTypes, FrameTypes DEF StopWatching
  <2> QED  BY <1>1, <1>2, <1>3, <1>4, <1>7, <1>10, <2>1 DEF StopWatching
<1>11. CASE WatcherError
  <2>1. [paths |-> {}, overflow |-> FALSE, error |-> TRUE] \in Events
    BY DEF Events
  <2>2. WatcherTypeOK' /\ GateTypeOK' /\ IndexTypeOK' /\ SemTypeOK' /\ FileInHand'
    BY <1>2, <1>11, <2>1, WatcherTypes, GateTypes, FrameTypes DEF WatcherError
  <2> QED  BY <1>1, <1>2, <1>3, <1>4, <1>7, <1>11, <2>2 DEF WatcherError
<1>12. CASE StartWatching
  BY <1>1, <1>2, <1>7, <1>12, WatcherTypes, FrameTypes DEF StartWatching, history
<1>13. CASE Ready
  <2>1. WatcherTypeOK' /\ GateTypeOK' /\ IndexTypeOK' /\ SemTypeOK' /\ FileInHand'
    BY <1>2, <1>13, WatcherTypes, FrameTypes, IndexTypes, SemTypes DEF Ready
  <2> QED  BY <1>1, <1>2, <1>7, <1>13, <2>1 DEF Ready
<1>14. CASE Hold
  BY <1>1, <1>2, <1>7, <1>14, GateTypes, FrameTypes DEF Hold, history
<1>15. CASE Release
  <2>1. batch[Home] \in Events
    BY <1>2 DEF GateTypeOK
  <2>2. WatcherTypeOK' /\ GateTypeOK' /\ IndexTypeOK' /\ SemTypeOK' /\ FileInHand'
    BY <1>2, <1>15, <2>1, GateTypes, FrameTypes, IndexTypes DEF Release
  <2>3. Named(batch[Home]) \in SUBSET Paths
    BY <2>1 DEF Named, Events
  <2> QED  BY <1>1, <1>2, <1>7, <1>15, <2>2, <2>3 DEF Release
<1>16. ASSUME NEW p \in Paths, Stat(p) PROVE TypeInv'
  BY <1>1, <1>2, <1>7, <1>16, IndexTypes, FrameTypes DEF Stat, history
<1>17. CASE Rediscover
  BY <1>1, <1>2, <1>7, <1>17, IndexTypes, FrameTypes DEF Rediscover, history
<1>18. CASE Truncate
  <2>1. WatcherTypeOK' /\ GateTypeOK' /\ IndexTypeOK' /\ SemTypeOK' /\ FileInHand'
    BY <1>2, <1>18, IndexTypes, FrameTypes DEF Truncate
  <2> QED  BY <1>1, <1>2, <1>3, <1>4, <1>5, <1>7, <1>18, <2>1 DEF Truncate
<1>19. CASE Apply
  <2>1. Deleted(ix) \in SUBSET Paths
    BY <1>3 DEF Deleted
  <2>2. WatcherTypeOK' /\ GateTypeOK' /\ IndexTypeOK' /\ SemTypeOK' /\ FileInHand'
    BY <1>2, <1>3, <1>19, <2>1, IndexTypes, SemTypes, FrameTypes DEF Apply
  <2>3. torn' \subseteq {"index", "semantic"} /\ unread' \subseteq Paths
    BY <1>2, <1>5, <1>19 DEF Apply
  <2> QED  BY <1>1, <1>2, <1>7, <1>19, <2>2, <2>3 DEF Apply
<1>20. ASSUME NEW p \in Paths, ProcessFile(p) \/ ProcessFails(p) PROVE TypeInv'
  <2>1. (IF Reports(p, TRUE) THEN {p} ELSE {}) \in SUBSET Paths /\ {p} \in SUBSET Paths
    OBVIOUS
  <2>2. SemTypeOK' /\ FileInHand'
    BY <1>2, <1>20, <2>1, SemTypes DEF ProcessFile, ProcessFails
  <2>3. WatcherTypeOK' /\ GateTypeOK' /\ IndexTypeOK'
    BY <1>2, <1>20, IndexTypes, FrameTypes DEF ProcessFile, ProcessFails
  <2> QED  BY <1>1, <1>2, <1>4, <1>7, <1>20, <2>2, <2>3 DEF ProcessFile, ProcessFails
<1>21. CASE Complete
  <2>1. WatcherTypeOK' /\ GateTypeOK' /\ IndexTypeOK' /\ SemTypeOK' /\ FileInHand'
    BY <1>2, <1>21, IndexTypes, SemTypes, FrameTypes DEF Complete
  <2> QED  BY <1>1, <1>2, <1>7, <1>21, <2>1 DEF Complete, history
<1>22. ASSUME NEW status \in {"failed", "cancelled"}, RunEnds(status) PROVE TypeInv'
  <2>1. WatcherTypeOK' /\ GateTypeOK' /\ IndexTypeOK' /\ SemTypeOK' /\ FileInHand'
    BY <1>2, <1>22, IndexTypes, SemTypes, FrameTypes DEF RunEnds
  <2> QED  BY <1>1, <1>2, <1>3, <1>4, <1>5, <1>7, <1>22, <2>1 DEF RunEnds
<1>23. CASE Cancel \/ Manual
  <2>1. faults' \in 0..MaxFaults
    BY <1>2, <1>23 DEF Cancel, Manual, Fault
  <2> QED  BY <1>1, <1>2, <1>7, <1>23, <2>1, IndexTypes, FrameTypes DEF Cancel, Manual
<1>24. CASE Retry
  BY <1>1, <1>2, <1>7, <1>24, IndexTypes, FrameTypes DEF Retry, history
<1>25. CASE SemStep \/ SemFault
  <2>1. SemWorkTyped'
    <3>1. semantic.work \subseteq Paths
      BY <1>2 DEF SemTypeOK, SemRuns
    <3>2. CASE SemStep
      BY <1>2, <1>6, <3>1, <3>2, SemStepTypes DEF SemStep
    <3>3. CASE SemFault
      BY <1>2, <1>6, <3>3, SemStepTypes DEF SemFault
    <3> QED  BY <1>25, <3>2, <3>3
  <2>2. SemTypeOK' /\ FileInHand'
    BY <1>2, <1>25, <2>1 DEF SemStep, SemFault, SemWorkTyped, SemTypeOK
  <2>3. WatcherTypeOK' /\ GateTypeOK' /\ IndexTypeOK'
    BY <1>25, FrameTypes DEF SemStep, SemFault
  <2> QED  BY <1>1, <1>2, <1>4, <1>7, <1>25, <2>2, <2>3 DEF SemStep, SemFault
<1>26. CASE Ensured
  BY <1>1, <1>2, <1>7, <1>26, SemTypes, FrameTypes DEF Ensured
<1>27. ASSUME NEW reopened \in SUBSET held, Restart(reopened) PROVE TypeInv'
  <2>1. WatcherTypeOK' /\ GateTypeOK' /\ IndexTypeOK' /\ SemTypeOK' /\ FileInHand'
    BY <1>2, <1>27, GateTypes, WatcherTypes, IndexTypes, SemTypes, FrameTypes DEF Restart
  <2> QED  BY <1>1, <1>2, <1>4, <1>7, <1>27, <2>1 DEF Restart
<1>28. CASE UNCHANGED vars
  BY <1>28 DEF vars, TypeInv, TypeOK, GateTypeOK, WatcherTypeOK, IndexTypeOK, SemTypeOK,
     FileInHand
<1> QED
  BY <1>8, <1>9, <1>10, <1>11, <1>12, <1>13, <1>14, <1>15, <1>16, <1>17, <1>18, <1>19,
     <1>20, <1>21, <1>22, <1>23, <1>24, <1>25, <1>26, <1>27, <1>28 DEF Next, IndexStep

LEMMA TypeInvInit == ASSUME Init PROVE TypeInv
<1> USE IndexAssumption, ServicesAssumption
<1>1. GateTypeOK
  BY DEF Init, GateInit, GateTypeOK, NoBatch, Events
<1>2. WatcherTypeOK
  <2>1. Cardinality({}) = 0
    BY FS_EmptySet
  <2>2. Cardinality({}) <= ChangeLimit
    BY <2>1, WatcherAssumption
  <2> QED  BY <2>2 DEF Init, WatcherInit, WatcherTypeOK
<1>3. IndexTypeOK
  BY IdleType DEF Init, IndexInit, IndexTypeOK, NoRow, FileRows, NoLink, Links, RunRows,
     NoChange
<1>4. SemTypeOK /\ FileInHand
  <2>1. NoUnits \in FileUnits
    BY DEF NoUnits, FileUnits
  <2>2. <<>> \in Seq(SUBSET (Paths \X (Contents \cup {0}))) /\ Len(<<>>) <= MaxEnsures
    BY SemAssumption
  <2> QED  BY <2>1, <2>2, SemRunType DEF Init, SemInit, SemTypeOK, FileInHand
<1> QED  BY <1>1, <1>2, <1>3, <1>4 DEF Init, TypeInv, TypeOK, SemTypeOK

LEMMA TypeInvariance == Spec => []TypeInv
BY TypeInvInit, TypeInvStep, PTL DEF Spec

\* Every variable keeps to its type.
THEOREM TypeCorrect == Spec => []TypeOK
<1>1. TypeInv => TypeOK
  BY DEF TypeInv
<1> QED  BY <1>1, TypeInvariance, PTL

-----------------------------------------------------------------------------
(* StaleIsOwed.  A change is on its way to the index outside the run in    *)
(* progress, or the run still agrees with the file where it has looked.    *)

\* p will come before the index again, or was let go.
Elsewhere(p) ==
    \/ p \in lost
    \/ watch # "off" /\ (dropped \/ p \in changed \cup touched)
    \/ held # {} /\ (batch[Home].overflow \/ p \in batch[Home].paths)
    \/ Waits(p)

Looking == ix.phase \in {"discover", "rediscover"}

\* What the run has seen of p is still so, or p comes up again; and nothing a
\* run is to read leaves it unseen.
Followed(p) ==
    /\ Stale(p) => Elsewhere(p) \/ p \in Ahead(ix)
    /\ Looking =>
          /\ p \in ix.found => disk[p] # 0 \/ Elsewhere(p)
          /\ p \in ix.missing => disk[p] = 0 \/ Elsewhere(p)
          /\ p \in Ahead(ix) =>
                disk[p] = 0 \/ p \in ix.todo \cup ix.found \/ Elsewhere(p)
          /\ p \in Ahead(ix) /\ ix.truncated =>
                p \in ix.found \cup ix.missing \/ Elsewhere(p)
    /\ ix.phase = "files" => (p \in ix.work => disk[p] # 0 \/ Elsewhere(p))

HeldIsHome == held \subseteq {Home}

FollowInv == TypeInv /\ HeldIsHome /\ \A p \in Paths : Followed(p)

LEMMA ElsewhereSuffices ==
    ASSUME NEW p \in Paths, Elsewhere(p)' PROVE Followed(p)'
BY DEF Followed

\* Where neither the file, its row nor the run changes, it is enough that what
\* is on its way stays there.
LEMMA FollowedFrame ==
    ASSUME NEW p \in Paths, Followed(p), Elsewhere(p) => Elsewhere(p)',
           disk'[p] = disk[p], rows'[p] = rows[p], ix' = ix
    PROVE  Followed(p)'
BY DEF Followed, Stale, Present, Looking, Ahead, Full

LEMMA NewRunAhead ==
    ASSUME NEW kind \in RunKinds, NEW ps
    PROVE  /\ Ahead(NewRun(kind, ps)) = (IF kind \in FullKinds THEN Paths ELSE ps)
           /\ NewRun(kind, ps).phase = "discover" /\ NewRun(kind, ps).kind = kind
           /\ NewRun(kind, ps).found = {} /\ NewRun(kind, ps).missing = {}
           /\ NewRun(kind, ps).forced = {} /\ NewRun(kind, ps).work = {}
           /\ NewRun(kind, ps).asked = ps /\ ~NewRun(kind, ps).truncated
           /\ NewRun(kind, ps).todo =
                 (IF kind \in FullKinds THEN {p \in Paths : disk[p] # 0} ELSE ps)
BY DEF NewRun, Idle, Ahead, Full

\* A run that begins with the change of p in what it was asked for
LEMMA NewRunFollows ==
    ASSUME NEW p \in Paths, NEW kind \in RunKinds, NEW ps, ix' = NewRun(kind, ps),
           rows' = rows, disk' = disk,
           Stale(p) => Elsewhere(p)' \/ kind \in FullKinds \/ p \in ps
    PROVE  Followed(p)'
<1> DEFINE todo == IF kind \in FullKinds THEN {x \in Paths : disk[x] # 0} ELSE ps
<1>1. /\ ix'.phase = "discover" /\ ix'.kind = kind /\ ix'.asked = ps
      /\ ix'.found = {} /\ ix'.missing = {} /\ ~ix'.truncated /\ ix'.todo = todo
  BY NewRunAhead
<1>2. Ahead(ix)' = (IF kind \in FullKinds THEN Paths ELSE ps)
  BY <1>1 DEF Ahead, Full
<1>3. Stale(p)' = Stale(p)
  BY DEF Stale, Present
<1>4. p \in Ahead(ix)' => disk'[p] = 0 \/ p \in todo
  BY <1>2
<1> QED  BY <1>2, <1>3, <1>1, <1>4 DEF Followed, Looking

LEMMA IdleFollows ==
    ASSUME NEW p \in Paths, ix' = Idle, rows' = rows, disk' = disk,
           Stale(p) => Elsewhere(p)'
    PROVE  Followed(p)'
<1>1. ix'.phase = "idle" /\ Ahead(ix)' = {}
  BY DEF Idle, Ahead
<1>2. Stale(p)' = Stale(p)
  BY DEF Stale, Present
<1> QED  BY <1>1, <1>2 DEF Followed, Looking

\* A held batch keeps what it has.
LEMMA BatchGrows ==
    ASSUME GateTypeOK, NEW ev \in Events, GateEnqueue(Home, ev), Home \in held
    PROVE  /\ batch[Home].paths \subseteq batch'[Home].paths /\ held' = held
           /\ batch'[Home].overflow = (batch[Home].overflow \/ ev.overflow)
<1>1. PICK merged \in Coalesced(batch[Home], ev) : batch' = [batch EXCEPT ![Home] = merged]
  BY DEF GateEnqueue
<1>2. /\ batch[Home].paths \subseteq merged.paths
      /\ merged.overflow = (batch[Home].overflow \/ ev.overflow)
  <2>1. PICK kept \in SUBSET (ev.paths \ batch[Home].paths) :
            merged = [paths    |-> batch[Home].paths \cup kept,
                      overflow |-> batch[Home].overflow \/ ev.overflow,
                      error    |-> ev.error]
    BY <1>1 DEF Coalesced
  <2> QED  BY <2>1
<1> QED  BY <1>1, <1>2, ServicesAssumption DEF GateTypeOK, GateEnqueue

\* What an event hands to the index waits or begins a run that looks at it.
LEMMA EnqueueFollows ==
    ASSUME TypeInv, NEW ev \in Events, ~ev.error, IxEnqueue(ev), disk' = disk,
           NEW p \in Paths, Followed(p),
           Elsewhere(p) => Elsewhere(p)' \/ p \in Named(ev) \/ Waits(p)
    PROVE  Followed(p)'
<1> DEFINE merged == [paths |-> pending.paths \cup ev.paths,
                      overflow |-> pending.overflow \/ ev.overflow]
           kind == IF merged.overflow THEN "reconcile" ELSE "incremental"
<1>1. kind \in RunKinds
  BY DEF RunKinds, FullKinds
<1>2. p \in Named(ev) \/ Waits(p) => merged.overflow \/ p \in merged.paths
  BY DEF Named, Waits
<1>3. CASE initialized /\ ~Running
  <2>1. ix' = NewRun(kind, merged.paths) /\ rows' = rows
    BY <1>3 DEF IxEnqueue
  <2>2. Ahead(ix) = {}
    BY <1>3 DEF Running, Ahead
  <2>3. Stale(p) => Elsewhere(p)' \/ kind \in FullKinds \/ p \in merged.paths
    BY <1>2, <2>2 DEF Followed, FullKinds
  <2> QED  BY <1>1, <2>1, <2>3, NewRunFollows
<1>4. CASE ~(initialized /\ ~Running)
  <2>1. pending' = merged /\ ix' = ix /\ rows' = rows
    BY <1>4 DEF IxEnqueue
  <2>2. Elsewhere(p) => Elsewhere(p)'
    BY <1>2, <2>1 DEF Elsewhere, Waits
  <2> QED  BY <2>1, <2>2, FollowedFrame
<1> QED  BY <1>3, <1>4

\* The loop goes on with what waits.
LEMMA GoOnFollows ==
    ASSUME TypeInv, IxGoOn, rows' = rows, disk' = disk, NEW p \in Paths,
           Stale(p) => Elsewhere(p), Elsewhere(p) => Elsewhere(p)' \/ Waits(p)
    PROVE  Followed(p)'
<1>1. CASE HasPending
  <2> DEFINE kind == IF pending.overflow THEN "reconcile" ELSE "incremental"
  <2>1. ix' = NewRun(kind, pending.paths) /\ kind \in RunKinds
    BY <1>1 DEF IxGoOn, NextRun, RunKinds, FullKinds
  <2>2. Stale(p) => Elsewhere(p)' \/ kind \in FullKinds \/ p \in pending.paths
    BY DEF Waits, FullKinds
  <2> QED  BY <2>1, <2>2, NewRunFollows
<1>2. CASE ~HasPending
  <2>1. ~Waits(p)
    BY <1>2 DEF HasPending, NoChange, Waits
  <2> QED  BY <1>2, <2>1, IdleFollows DEF IxGoOn
<1> QED  BY <1>1, <1>2

\* What is on its way to the gate, at the gate or let go
LEMMA RouteFollows ==
    ASSUME FollowInv, NEW p \in Paths,
           \/ \E q \in Paths, content \in Contents \cup {0} : Edit(q, content)
           \/ StopWatching \/ WatcherError \/ StartWatching \/ Hold
    PROVE  Followed(p)'
<1> USE DEF FollowInv, TypeInv, TypeOK
<1>1. ASSUME NEW q \in Paths, NEW content \in Contents \cup {0}, Edit(q, content)
      PROVE  Followed(p)'
  <2>1. UNCHANGED <<held, batch, rows, ix, pending>> /\ watch' = watch
    BY <1>1 DEF Edit, gateVars, indexVars, WatcherSees, watchVars
  <2>2. p = q \/ Elsewhere(p) => Elsewhere(p)'
    <3>1. CASE watch = "off"
      BY <1>1, <2>1, <3>1 DEF Edit, WatcherSees, watchVars, Elsewhere, Waits
    <3>2. CASE watch = "starting"
      BY <1>1, <2>1, <3>2 DEF Edit, WatcherSees, Differing, Elsewhere, Waits
    <3>3. CASE watch = "on"
      <4>1. /\ changed \subseteq changed' /\ (dropped => dropped')
            /\ (dropped' \/ q \in changed') /\ touched' = touched
            /\ lost' = lost \ {q}
        BY <1>1, <3>3 DEF Edit, WatcherSees, WatcherQueue
      <4> QED  BY <2>1, <3>3, <4>1 DEF Elsewhere, Waits
    <3> QED  BY <3>1, <3>2, <3>3 DEF WatcherTypeOK
  <2>3. CASE p = q
    BY <2>2, <2>3, ElsewhereSuffices
  <2>4. CASE p # q
    <3>1. disk'[p] = disk[p]
      BY <1>1, <2>4 DEF Edit, IndexTypeOK
    <3> QED  BY <2>1, <2>2, <3>1, FollowedFrame
  <2> QED  BY <2>3, <2>4
<1>2. CASE StopWatching
  <2>1. Elsewhere(p) => Elsewhere(p)'
    BY <1>2 DEF StopWatching, Collected, Elsewhere, Waits, gateVars, indexVars
  <2> QED  BY <1>2, <2>1, FollowedFrame DEF StopWatching, indexVars
<1>3. CASE WatcherError
  <2> DEFINE ev == [paths |-> {}, overflow |-> FALSE, error |-> TRUE]
  <2>1. ev \in Events /\ GateEnqueue(Home, ev)
    BY <1>3 DEF WatcherError, Events
  <2>2. /\ held' = held
        /\ held # {} => /\ batch[Home].paths \subseteq batch'[Home].paths
                        /\ batch[Home].overflow => batch'[Home].overflow
    BY <2>1, BatchGrows DEF HeldIsHome, GateEnqueue
  <2>3. Elsewhere(p) => Elsewhere(p)'
    BY <1>3, <2>2 DEF WatcherError, Collected, Elsewhere, Waits, indexVars
  <2> QED  BY <1>3, <2>3, FollowedFrame DEF WatcherError, indexVars
<1>4. CASE StartWatching
  <2>1. watch = "off" /\ UNCHANGED <<changed, touched, dropped>>
    BY <1>4 DEF StartWatching, WatcherStart
  <2>2. Elsewhere(p) => Elsewhere(p)'
    BY <1>4, <2>1 DEF StartWatching, WatcherStart, Elsewhere, Waits, gateVars, indexVars, history
  <2> QED  BY <1>4, <2>2, FollowedFrame DEF StartWatching, indexVars
<1>5. CASE Hold
  <2>1. Elsewhere(p) => Elsewhere(p)'
    BY <1>5 DEF Hold, GateBegin, Elsewhere, Waits, watchVars, indexVars, history
  <2> QED  BY <1>5, <2>1, FollowedFrame DEF Hold, indexVars
<1> QED  BY <1>1, <1>2, <1>3, <1>4, <1>5

\* What reaches the index or the batch
LEMMA ArrivalFollows ==
    ASSUME FollowInv, NEW p \in Paths, Flush \/ Release \/ Ready
    PROVE  Followed(p)'
<1> USE DEF FollowInv, TypeInv, TypeOK
<1>1. CASE Flush
  <2> DEFINE ev == WatcherEvent
  <2>1. /\ ev \in Events /\ ~ev.error /\ ev.paths = changed /\ ev.overflow = dropped
        /\ GateEnqueue(Home, ev)
        /\ UNCHANGED <<watch, touched, disk>>
    BY <1>1, WatcherEventType DEF Flush, Deliver, WatcherEvent, WatcherFlush
  <2>2. CASE Home \in held
    <3>1. /\ UNCHANGED indexVars
          /\ lost' = IF batch'[Home].overflow THEN lost
                     ELSE lost \cup (ev.paths \ batch'[Home].paths)
      BY <1>1, <2>2 DEF Flush, Deliver
    <3>2. Elsewhere(p) => Elsewhere(p)'
      BY <2>1, <2>2, <3>1, BatchGrows DEF Elsewhere, Waits, indexVars
    <3> QED  BY <2>1, <3>1, <3>2, FollowedFrame DEF indexVars
  <2>3. CASE Home \notin held
    <3>1. IxEnqueue(ev) /\ lost' = lost
      BY <1>1, <2>3 DEF Flush, Deliver
    <3>2. held = {}
      BY <2>3 DEF HeldIsHome
    <3>3. Elsewhere(p) => Elsewhere(p)' \/ p \in Named(ev) \/ Waits(p)
      BY <2>1, <3>1, <3>2 DEF Elsewhere, Named
    <3> QED  BY <2>1, <3>1, <3>3, EnqueueFollows
  <2> QED  BY <2>2, <2>3
<1>2. CASE Release
  <2> DEFINE ev == batch[Home]
  <2>1. /\ ev \in Events /\ UNCHANGED <<disk, watch, touched, changed, dropped>>
        /\ lost' = IF ev.error THEN lost \cup Named(ev) ELSE lost
        /\ IF ev = NoBatch THEN UNCHANGED indexVars ELSE IxEnqueue(ev)
    BY <1>2, ServicesAssumption DEF Release, watchVars, GateTypeOK
  <2>2. Elsewhere(p) => Elsewhere(p)' \/ p \in Named(ev) \/ Waits(p)
    BY <2>1 DEF Elsewhere, Named
  <2>3. CASE ev = NoBatch
    <3>1. UNCHANGED indexVars /\ ~ev.overflow /\ ev.paths = {}
      BY <2>1, <2>3 DEF NoBatch
    <3>2. Elsewhere(p) => Elsewhere(p)'
      BY <2>1, <3>1 DEF Elsewhere, Waits, indexVars
    <3> QED  BY <2>1, <3>1, <3>2, FollowedFrame DEF indexVars
  <2>4. CASE ev # NoBatch /\ ev.error
    <3>1. UNCHANGED <<ix, pending, rows>>
      BY <2>1, <2>4 DEF IxEnqueue
    <3>2. Elsewhere(p) => Elsewhere(p)'
      BY <2>1, <2>4, <3>1 DEF Elsewhere, Waits, Named
    <3> QED  BY <2>1, <3>1, <3>2, FollowedFrame
  <2>5. CASE ev # NoBatch /\ ~ev.error
    BY <2>1, <2>2, <2>5, EnqueueFollows
  <2> QED  BY <2>3, <2>4, <2>5
<1>3. CASE Ready
  <2>1. /\ changed \subseteq changed' /\ (dropped => dropped')
        /\ (dropped' \/ touched \subseteq changed')
        /\ watch = "starting" /\ watch' = "on"
        /\ UNCHANGED <<held, batch, disk>>
    BY <1>3 DEF Ready, WatcherReady, WatcherQueue, gateVars
  <2>2. UNCHANGED <<rows, pending>>
    BY <1>3 DEF Ready, IxEnsure
  <2>3. CASE initialized \/ Running
    <3>1. ix' = ix /\ lost' = lost
      BY <1>3, <2>3 DEF Ready, IxEnsure, IxSchedule
    <3>2. Elsewhere(p) => Elsewhere(p)'
      BY <2>1, <2>2, <3>1 DEF Elsewhere, Waits
    <3> QED  BY <2>1, <2>2, <3>1, <3>2, FollowedFrame
  <2>4. CASE ~(initialized \/ Running)
    <3>1. ix' = NewRun("initial", {})
      BY <1>3, <2>4 DEF Ready, IxEnsure, IxSchedule
    <3> QED  BY <2>1, <2>2, <3>1, NewRunFollows DEF RunKinds, FullKinds
  <2> QED  BY <2>3, <2>4
<1> QED  BY <1>1, <1>2, <1>3

\* Requests to the index, and what the Semantic Index does on its own
LEMMA RequestFollows ==
    ASSUME FollowInv, NEW p \in Paths,
           \/ Cancel \/ Manual \/ Retry \/ SemStep \/ Ensured \/ SemFault
           \/ UNCHANGED vars
    PROVE  Followed(p)'
<1> USE DEF FollowInv, TypeInv, TypeOK
<1>1. /\ UNCHANGED <<held, batch, watch, touched, changed, dropped, disk, lost, pending, rows>>
  BY DEF Cancel, Manual, Retry, SemStep, Ensured, SemFault, vars, gateVars, watchVars,
     history, indexVars, IxCancel, IxManual, IxRetry
<1>2. Elsewhere(p)' = Elsewhere(p)
  BY <1>1 DEF Elsewhere, Waits
<1>3. CASE ix' = ix
  BY <1>1, <1>2, <1>3, FollowedFrame
<1>4. CASE Cancel
  <2>1. ix' = [ix EXCEPT !.aborted = TRUE] /\ ix \in Runs
    BY <1>4 DEF Cancel, IxCancel, IndexTypeOK
  <2>2. Ahead(ix)' = Ahead(ix)
    BY <2>1 DEF Ahead, Full, Runs
  <2> QED  BY <1>1, <1>2, <2>1, <2>2 DEF Followed, Looking, Stale, Present, Runs
<1>5. ASSUME NEW kind \in RunKinds, NEW ps, IxSchedule(kind, ps) PROVE Followed(p)'
  <2>1. CASE Running
    BY <1>3, <1>5, <2>1 DEF IxSchedule
  <2>2. CASE ~Running
    <3>1. Ahead(ix) = {}
      BY <2>2 DEF Running, Ahead
    <3> QED  BY <1>1, <1>2, <1>5, <2>2, <3>1, NewRunFollows DEF IxSchedule, Followed
  <2> QED  BY <2>1, <2>2
<1>6. CASE Manual \/ Retry
  BY <1>3, <1>5, <1>6 DEF Manual, Retry, IxManual, IxRetry, RunKinds, FullKinds
<1>7. CASE SemStep \/ Ensured \/ SemFault \/ UNCHANGED vars
  BY <1>3, <1>7 DEF SemStep, Ensured, SemFault, vars, indexVars
<1> QED  BY <1>4, <1>6, <1>7

\* The run looks at the files and settles what it found.
LEMMA DiscoveryFollows ==
    ASSUME FollowInv, NEW p \in Paths,
           \/ \E q \in Paths : Stat(q)
           \/ Rediscover \/ Truncate \/ Apply
    PROVE  Followed(p)'
<1> USE DEF FollowInv, TypeInv, TypeOK
<1>1. ix \in Runs
  BY DEF IndexTypeOK
<1>2. ASSUME NEW q \in Paths, Stat(q) PROVE Followed(p)'
  <2>1. /\ Looking /\ q \in ix.todo
        /\ ix' = IF disk[q] = 0
                 THEN [ix EXCEPT !.todo = @ \ {q}, !.missing = @ \cup {q}]
                 ELSE [ix EXCEPT !.todo = @ \ {q}, !.found = @ \cup {q}]
        /\ UNCHANGED <<rows, disk>>
    BY <1>2 DEF Stat, IxStat, Looking
  <2>2. /\ Ahead(ix)' = Ahead(ix) /\ Looking' /\ ix'.phase # "files"
        /\ ix'.truncated = ix.truncated
    BY <1>1, <2>1 DEF Ahead, Full, Looking, Runs
  <2>3. Elsewhere(p)' = Elsewhere(p) /\ Stale(p)' = Stale(p)
    BY <1>2, <2>1 DEF Stat, IxStat, Elsewhere, Waits, gateVars, watchVars, history, Stale, Present
  <2>4. CASE disk[q] = 0
    <3>1. /\ ix'.todo = ix.todo \ {q} /\ ix'.missing = ix.missing \cup {q}
          /\ ix'.found = ix.found
      BY <1>1, <2>1, <2>4 DEF Runs
    <3> QED  BY <2>1, <2>2, <2>3, <2>4, <3>1 DEF Followed
  <2>5. CASE disk[q] # 0
    <3>1. /\ ix'.todo = ix.todo \ {q} /\ ix'.missing = ix.missing
          /\ ix'.found = ix.found \cup {q}
      BY <1>1, <2>1, <2>5 DEF Runs
    <3> QED  BY <2>1, <2>2, <2>3, <2>5, <3>1 DEF Followed
  <2> QED  BY <2>4, <2>5
<1>3. CASE Rediscover
  <2>1. /\ ix.phase = "discover" /\ ~Full(ix) /\ UNCHANGED <<rows, disk>>
        /\ ix' = [ix EXCEPT !.phase = "rediscover",
                            !.asked = @ \cup AffectedImporters,
                            !.forced = AffectedImporters,
                            !.todo = ix.asked \cup AffectedImporters,
                            !.found = {}, !.missing = {}, !.truncated = FALSE]
    BY <1>3 DEF Rediscover, IxRediscover
  <2>2. /\ ix'.phase = "rediscover" /\ ix'.kind = ix.kind /\ ix'.todo = ix'.asked
        /\ ix.asked \subseteq ix'.asked /\ ix'.found = {} /\ ix'.missing = {}
        /\ ~ix'.truncated
    BY <1>1, <2>1 DEF Runs
  <2>3. Ahead(ix) = ix.asked /\ Ahead(ix)' = ix'.todo
    BY <2>1, <2>2 DEF Ahead, Full
  <2>4. Elsewhere(p)' = Elsewhere(p) /\ Stale(p)' = Stale(p)
    BY <1>3, <2>1 DEF Rediscover, IxRediscover, Elsewhere, Waits, gateVars, watchVars, history,
       Stale, Present
  <2> QED  BY <2>2, <2>3, <2>4 DEF Followed, Looking
<1>4. CASE Truncate
  <2>1. /\ Looking /\ UNCHANGED <<rows, disk>>
        /\ ix' = [ix EXCEPT !.todo = {}, !.truncated = TRUE]
        /\ lost' = lost \cup (Ahead(ix) \ (ix.found \cup ix.missing))
    BY <1>4 DEF Truncate, IxTruncate, Looking
  <2>2. /\ Looking' /\ ix'.phase # "files" /\ Ahead(ix)' = Ahead(ix)
        /\ ix'.found = ix.found /\ ix'.missing = ix.missing
    BY <1>1, <2>1 DEF Ahead, Full, Looking, Runs
  <2>3. Stale(p)' = Stale(p)
    BY <2>1 DEF Stale, Present
  <2>4. /\ Elsewhere(p) => Elsewhere(p)'
        /\ p \in Ahead(ix) => p \in ix.found \cup ix.missing \/ Elsewhere(p)'
    BY <1>4, <2>1 DEF Truncate, IxTruncate, Elsewhere, Waits, gateVars, watchVars
  <2> QED  BY <2>1, <2>2, <2>3, <2>4 DEF Followed
<1>5. CASE Apply
  <2>1. /\ Looking /\ ix.todo = {} /\ UNCHANGED disk
        /\ rows' = [x \in Paths |-> IF x \in Removed(ix) THEN NoRow ELSE rows[x]]
        /\ ix' = [ix EXCEPT !.phase = "files", !.work = ix.found,
                            !.forced = IF Full(ix) THEN AffectedImporters ELSE @]
        /\ lost' = lost \ {x \in Removed(ix) : disk[x] = 0}
    BY <1>5 DEF Apply, IxApply, Looking
  <2>2. ix'.phase = "files" /\ ix'.work = ix.found /\ Ahead(ix)' = ix.found
    BY <1>1, <2>1 DEF Ahead, Runs
  <2>3. Elsewhere(p) => Elsewhere(p)' \/ (p \in Removed(ix) /\ disk[p] = 0)
    BY <1>5, <2>1 DEF Apply, IxApply, Elsewhere, Waits, gateVars, watchVars
  <2>4. p \in Removed(ix) => p \notin ix.found /\ rows'[p] = NoRow
    BY <2>1 DEF Removed, RemoveMissingForChange, RemoveMissingFiles
  <2>5. CASE p \in ix.found
    <3>1. Elsewhere(p) => Elsewhere(p)'
      BY <2>3, <2>4, <2>5
    <3> QED  BY <2>1, <2>2, <2>5, <3>1 DEF Followed, Looking
  <2>6. CASE p \in Removed(ix) /\ disk[p] = 0
    <3>1. ~Stale(p)'
      BY <2>1, <2>4, <2>6 DEF Stale, Present, NoRow
    <3> QED  BY <2>2, <2>4, <2>6, <3>1 DEF Followed, Looking
  <2>7. CASE p \in Removed(ix) /\ disk[p] # 0
    <3>1. p \in ix.missing \/ p \in Ahead(ix)
      BY <1>1, <2>1, <2>7 DEF Removed, RemoveMissingForChange, Ahead, Full, Looking, Runs
    <3>2. Elsewhere(p)
      BY <2>1, <2>4, <2>7, <3>1 DEF Followed
    <3> QED  BY <2>3, <2>7, <3>2, ElsewhereSuffices
  <2>8. CASE p \notin ix.found /\ p \notin Removed(ix)
    <3>1. rows'[p] = rows[p]
      BY <2>1, <2>8
    <3>2. p \in Ahead(ix) => ix.truncated /\ p \notin ix.missing
      BY <1>1, <2>1, <2>8 DEF Removed, RemoveMissingForChange, RemoveMissingFiles, Ahead, Full,
         Looking, Runs
    <3>3. Stale(p) => Elsewhere(p)
      BY <2>1, <2>8, <3>2 DEF Followed
    <3>4. Stale(p)' = Stale(p)
      BY <2>1, <3>1 DEF Stale, Present
    <3> QED  BY <2>2, <2>3, <2>8, <3>3, <3>4 DEF Followed, Looking
  <2> QED  BY <2>5, <2>6, <2>7, <2>8
<1> QED  BY <1>2, <1>3, <1>4, <1>5

\* The run reads the files it found, and ends.
LEMMA FilesFollow ==
    ASSUME FollowInv, NEW p \in Paths,
           \/ \E q \in Paths : ProcessFile(q) \/ ProcessFails(q)
           \/ Complete
           \/ \E status \in {"failed", "cancelled"} : RunEnds(status)
    PROVE  Followed(p)'
<1> USE DEF FollowInv, TypeInv, TypeOK
<1>1. ix \in Runs /\ rows \in [Paths -> FileRows]
  BY DEF IndexTypeOK
<1>2. ASSUME NEW q \in Paths, ProcessFile(q) \/ ProcessFails(q) PROVE Followed(p)'
  <2>1. /\ ix.phase = "files" /\ q \in ix.work
        /\ UNCHANGED <<held, batch, watch, touched, changed, dropped, disk, pending>>
    BY <1>2 DEF ProcessFile, ProcessFails, IxFile, gateVars, watchVars
  <2>2. ix'.phase = "files" /\ ix'.work = ix.work \ {q}
    BY <1>1, <1>2, <2>1 DEF ProcessFile, ProcessFails, IxFile, Runs
  <2>3. Ahead(ix) = ix.work /\ Ahead(ix)' = ix'.work
    BY <2>1, <2>2 DEF Ahead
  <2>4. p # q => rows'[p] = rows[p]
    BY <1>1, <1>2 DEF ProcessFile, ProcessFails, IxFile, SaveFileAnalysis
  <2>5. p # q \/ disk[p] = 0 => (Elsewhere(p) => Elsewhere(p)')
    BY <1>2, <2>1 DEF ProcessFile, ProcessFails, Elsewhere, Waits
  <2>6. CASE p # q
    <3>1. Stale(p)' = Stale(p)
      BY <2>1, <2>4, <2>6 DEF Stale, Present
    <3> QED  BY <2>1, <2>2, <2>3, <2>5, <2>6, <3>1 DEF Followed, Looking
  <2>7. CASE p = q /\ disk[p] = 0
    <3>1. Elsewhere(p)
      BY <2>1, <2>7 DEF Followed
    <3> QED  BY <2>5, <2>7, <3>1, ElsewhereSuffices
  <2>8. CASE p = q /\ disk[p] # 0
    <3>1. rows'[p].state = "failed" \/ rows'[p].analyzed = disk[p]
      <4>1. CASE SaveFileAnalysis(p)
        BY <1>1, <2>8, <4>1 DEF SaveFileAnalysis
      <4>2. CASE rows' = [rows EXCEPT ![p].state = "failed"]
        BY <1>1, <2>8, <4>2 DEF FileRows
      <4> QED  BY <1>2, <2>8, <4>1, <4>2 DEF ProcessFile, ProcessFails, IxFile
    <3>2. ~Stale(p)'
      BY <2>1, <2>8, <3>1 DEF Stale
    <3> QED  BY <2>2, <2>3, <2>8, <3>2 DEF Followed, Looking
  <2> QED  BY <2>6, <2>7, <2>8
<1>3. CASE Complete
  <2>1. /\ IxGoOn /\ Ahead(ix) = {}
        /\ UNCHANGED <<rows, held, batch, watch, touched, changed, dropped, disk, lost>>
    BY <1>3 DEF Complete, IxComplete, Ahead, gateVars, watchVars, history
  <2>2. Stale(p) => Elsewhere(p)
    BY <2>1 DEF Followed
  <2>3. Elsewhere(p) => Elsewhere(p)' \/ Waits(p)
    BY <2>1 DEF Elsewhere
  <2> QED  BY <2>1, <2>2, <2>3, GoOnFollows
<1>4. ASSUME NEW status \in {"failed", "cancelled"}, RunEnds(status) PROVE Followed(p)'
  <2>1. /\ IxGoOn /\ lost' = lost \cup Ahead(ix)
        /\ UNCHANGED <<rows, held, batch, watch, touched, changed, dropped, disk>>
    BY <1>4 DEF RunEnds, IxEnd, gateVars, watchVars
  <2>2. CASE p \in Ahead(ix)
    BY <2>1, <2>2, ElsewhereSuffices DEF Elsewhere
  <2>3. CASE p \notin Ahead(ix)
    <3>1. Stale(p) => Elsewhere(p)
      BY <2>3 DEF Followed
    <3>2. Elsewhere(p) => Elsewhere(p)' \/ Waits(p)
      BY <2>1 DEF Elsewhere
    <3> QED  BY <2>1, <3>1, <3>2, GoOnFollows
  <2> QED  BY <2>2, <2>3
<1> QED  BY <1>2, <1>3, <1>4

LEMMA FollowStep ==
    ASSUME FollowInv, [Next]_vars PROVE FollowInv'
<1>1. TypeInv'
  BY TypeInvStep DEF FollowInv
<1>2. HeldIsHome'
  BY DEF FollowInv, HeldIsHome, Next, Edit, Flush, Deliver, StopWatching, WatcherError,
     StartWatching, Ready, Hold, Release, IndexStep, Stat, ProcessFile, Rediscover, Apply,
     Complete, RunEnds, Truncate, ProcessFails, Cancel, Manual, Retry, SemStep, Ensured,
     SemFault, Restart, vars, gateVars, GateEnqueue, GateBegin, GateRelease, GateRestart
<1>3. ASSUME NEW p \in Paths PROVE Followed(p)'
  <2>1. ASSUME NEW reopened \in SUBSET held, Restart(reopened) PROVE Followed(p)'
    BY <2>1, ElsewhereSuffices DEF Restart, Elsewhere
  <2> QED
    BY <2>1, RouteFollows, ArrivalFollows, RequestFollows, DiscoveryFollows, FilesFollow
       DEF Next, IndexStep
<1> QED  BY <1>1, <1>2, <1>3 DEF FollowInv

LEMMA FollowInvariance == Spec => []FollowInv
<1>1. Init => FollowInv
  <2> SUFFICES ASSUME Init PROVE FollowInv
    OBVIOUS
  <2>1. TypeInv /\ HeldIsHome
    BY TypeInvInit DEF Init, GateInit, HeldIsHome
  <2>2. \A p \in Paths : Followed(p)
    BY DEF Init, IndexInit, Idle, Followed, Looking, Elsewhere
  <2> QED  BY <2>1, <2>2 DEF FollowInv
<1> QED  BY <1>1, FollowStep, PTL DEF Spec

\* No change of a file is forgotten between the watcher, the gate, the pending
\* change and the run, but where the code lets it go.
THEOREM ChangesAreFollowed == Spec => []StaleIsOwed
<1>1. FollowInv => StaleIsOwed
  BY DEF FollowInv, Followed, StaleIsOwed, Elsewhere, Owed
<1> QED  BY <1>1, FollowInvariance, PTL

-----------------------------------------------------------------------------
(* UnreadIsReported.  What was handed to the index waits, or is ahead of   *)
(* the run, and a run has its row.                                         *)

Awaited(p) ==
    p \in unread =>
        /\ Waits(p) \/ p \in Ahead(ix)
        /\ Looking /\ ix.truncated => p \in ix.found \cup ix.missing \/ Waits(p)

RunIsStored == Running => latest = Started

ReportInv == TypeInv /\ RunIsStored /\ \A p \in Paths : Awaited(p)

\* A run that begins with the pending change and another
LEMMA NewRunAwaits ==
    ASSUME NEW p \in Paths, NEW kind \in RunKinds, NEW ps, ix' = NewRun(kind, ps),
           p \in unread' => Waits(p)' \/ kind \in FullKinds \/ p \in ps
    PROVE  Awaited(p)'
<1>1. ix'.kind = kind /\ ix'.asked = ps /\ ix'.phase = "discover" /\ ~ix'.truncated
  BY DEF NewRun, Idle
<1>2. Ahead(ix)' = (IF kind \in FullKinds THEN Paths ELSE ps)
  BY <1>1 DEF Ahead, Full
<1> QED  BY <1>1, <1>2 DEF Awaited

LEMMA EnqueueAwaits ==
    ASSUME TypeInv, NEW ev \in Events, ~ev.error, IxEnqueue(ev), NEW p \in Paths,
           Awaited(p), p \in unread' => p \in unread \cup Named(ev)
    PROVE  Awaited(p)'
<1> DEFINE merged == [paths |-> pending.paths \cup ev.paths,
                      overflow |-> pending.overflow \/ ev.overflow]
           kind == IF merged.overflow THEN "reconcile" ELSE "incremental"
<1>1. p \in Named(ev) \/ Waits(p) => merged.overflow \/ p \in merged.paths
  BY DEF Named, Waits
<1>2. CASE initialized /\ ~Running
  <2>1. ix' = NewRun(kind, merged.paths) /\ kind \in RunKinds
    BY <1>2 DEF IxEnqueue, RunKinds, FullKinds
  <2>2. Ahead(ix) = {}
    BY <1>2 DEF Running, Ahead
  <2>3. p \in unread' => kind \in FullKinds \/ p \in merged.paths
    BY <1>1, <2>2 DEF Awaited, FullKinds
  <2> QED  BY <2>1, <2>3, NewRunAwaits
<1>3. CASE ~(initialized /\ ~Running)
  <2>1. pending' = merged /\ ix' = ix
    BY <1>3 DEF IxEnqueue
  <2>2. Ahead(ix)' = Ahead(ix)
    BY <2>1 DEF Ahead, Full
  <2> QED  BY <1>1, <2>1, <2>2 DEF Awaited, Waits, Looking
<1> QED  BY <1>2, <1>3

LEMMA GoOnAwaits ==
    ASSUME TypeInv, IxGoOn, NEW p \in Paths, p \in unread' => Waits(p)
    PROVE  Awaited(p)'
<1>1. CASE HasPending
  <2> DEFINE kind == IF pending.overflow THEN "reconcile" ELSE "incremental"
  <2>1. ix' = NewRun(kind, pending.paths) /\ kind \in RunKinds
    BY <1>1 DEF IxGoOn, NextRun, RunKinds, FullKinds
  <2>2. p \in unread' => kind \in FullKinds \/ p \in pending.paths
    BY DEF Waits, FullKinds
  <2> QED  BY <2>1, <2>2, NewRunAwaits
<1>2. CASE ~HasPending
  <2>1. ~Waits(p)
    BY <1>2 DEF HasPending, NoChange, Waits
  <2> QED  BY <2>1 DEF Awaited
<1> QED  BY <1>1, <1>2

\* The row of the run says "running" as long as the run goes on.
LEMMA RunIsStoredStep ==
    ASSUME RunIsStored, [Next]_vars PROVE RunIsStored'
<1>1. \/ latest' = latest /\ (ix' = ix \/ Running)
      \/ latest' = Started
      \/ ix' = Idle
  <2>1. CASE Complete \/ \E status \in {"failed", "cancelled"} : RunEnds(status)
    BY <2>1 DEF Complete, RunEnds, IxComplete, IxEnd, IxGoOn
  <2>2. CASE Flush \/ Release \/ Ready \/ Manual \/ Retry
    BY <2>2 DEF Flush, Deliver, Release, Ready, Manual, Retry, IxEnqueue, IxEnsure, IxManual,
       IxRetry, IxSchedule, indexVars
  <2>3. CASE \/ \E q \in Paths : Stat(q) \/ ProcessFile(q) \/ ProcessFails(q)
             \/ Rediscover \/ Truncate \/ Apply \/ Cancel
    BY <2>3 DEF Stat, ProcessFile, ProcessFails, Rediscover, Truncate, Apply, Cancel, IxStat,
       IxFile, IxRediscover, IxTruncate, IxApply, IxCancel, Running
  <2>4. CASE \E reopened \in SUBSET held : Restart(reopened)
    BY <2>4 DEF Restart, IxRestart
  <2>5. CASE \/ \E q \in Paths, content \in Contents \cup {0} : Edit(q, content)
             \/ StopWatching \/ WatcherError \/ StartWatching \/ Hold
             \/ SemStep \/ Ensured \/ SemFault \/ UNCHANGED vars
    BY <2>5 DEF Edit, StopWatching, WatcherError, StartWatching, Hold, SemStep, Ensured,
       SemFault, vars, indexVars
  <2> QED  BY <2>1, <2>2, <2>3, <2>4, <2>5 DEF Next, IndexStep
<1> QED  BY <1>1 DEF RunIsStored, Running, Idle

LEMMA AwaitedStep ==
    ASSUME ReportInv, [Next]_vars, NEW p \in Paths PROVE Awaited(p)'
<1> USE DEF ReportInv, TypeInv, TypeOK
<1>1. ix \in Runs
  BY DEF IndexTypeOK
<1>2. ASSUME UNCHANGED <<ix, pending>>, p \in unread' => p \in unread PROVE Awaited(p)'
  BY <1>2 DEF Awaited, Waits, Looking, Ahead, Full
<1>3. CASE \/ \E q \in Paths, content \in Contents \cup {0} : Edit(q, content)
           \/ StopWatching \/ WatcherError \/ StartWatching \/ Hold
           \/ SemStep \/ Ensured \/ SemFault \/ UNCHANGED vars
  BY <1>2, <1>3 DEF Edit, StopWatching, WatcherError, StartWatching, Hold, SemStep, Ensured,
     SemFault, vars, indexVars, history
<1>4. CASE Flush
  <2> DEFINE ev == WatcherEvent
  <2>1. ev \in Events /\ ~ev.error
    BY WatcherEventType DEF WatcherEvent
  <2>2. CASE Home \in held
    BY <1>2, <1>4, <2>2 DEF Flush, Deliver, indexVars
  <2>3. CASE Home \notin held
    BY <1>4, <2>1, <2>3, EnqueueAwaits DEF Flush, Deliver
  <2> QED  BY <2>2, <2>3
<1>5. CASE Release
  <2> DEFINE ev == batch[Home]
  <2>1. /\ ev \in Events
        /\ unread' = IF ev.error THEN unread ELSE unread \cup Named(ev)
        /\ IF ev = NoBatch THEN UNCHANGED indexVars ELSE IxEnqueue(ev)
    BY <1>5, ServicesAssumption DEF Release, GateTypeOK
  <2>2. CASE ev = NoBatch \/ ev.error
    <3>1. p \in unread' => p \in unread
      BY <2>1, <2>2 DEF NoBatch, Named
    <3>2. UNCHANGED <<ix, pending>>
      BY <2>1, <2>2 DEF indexVars, IxEnqueue
    <3> QED  BY <1>2, <3>1, <3>2
  <2>3. CASE ev # NoBatch /\ ~ev.error
    BY <2>1, <2>3, EnqueueAwaits
  <2> QED  BY <2>2, <2>3
<1>6. ASSUME NEW kind \in RunKinds, NEW ps, IxSchedule(kind, ps), UNCHANGED <<pending, unread>>
      PROVE  Awaited(p)'
  <2>1. CASE Running
    BY <1>2, <1>6, <2>1 DEF IxSchedule
  <2>2. CASE ~Running
    <3>1. Ahead(ix) = {}
      BY <2>2 DEF Running, Ahead
    <3> QED  BY <1>6, <2>2, <3>1, NewRunAwaits DEF IxSchedule, Awaited, Waits
  <2> QED  BY <2>1, <2>2
<1>7. CASE Ready \/ Manual \/ Retry
  BY <1>2, <1>6, <1>7 DEF Ready, Manual, Retry, IxEnsure, IxManual, IxRetry, RunKinds, FullKinds,
     history
<1>8. ASSUME NEW q \in Paths, Stat(q) PROVE Awaited(p)'
  <2>1. UNCHANGED <<pending, unread>>
    BY <1>8 DEF Stat, IxStat, history
  <2>2. /\ Ahead(ix)' = Ahead(ix) /\ Looking /\ ix'.truncated = ix.truncated
        /\ ix.found \cup ix.missing \subseteq ix'.found \cup ix'.missing
    BY <1>1, <1>8 DEF Stat, IxStat, Ahead, Full, Looking, Runs
  <2> QED  BY <2>1, <2>2 DEF Awaited, Waits
<1>9. CASE Cancel
  <2>1. ix' = [ix EXCEPT !.aborted = TRUE] /\ UNCHANGED <<pending, unread>>
    BY <1>9 DEF Cancel, IxCancel
  <2>2. Ahead(ix)' = Ahead(ix)
    BY <1>1, <2>1 DEF Ahead, Full, Runs
  <2> QED  BY <1>1, <2>1, <2>2 DEF Awaited, Waits, Looking, Runs
<1>10. CASE Rediscover
  <2>1. /\ ix.phase = "discover" /\ ~Full(ix) /\ UNCHANGED <<pending, unread>>
        /\ ix'.phase = "rediscover" /\ ix'.kind = ix.kind /\ ~ix'.truncated
        /\ ix.asked \subseteq ix'.asked
    BY <1>1, <1>10 DEF Rediscover, IxRediscover, history, Runs
  <2>2. Ahead(ix) = ix.asked /\ Ahead(ix)' = ix'.asked
    BY <2>1 DEF Ahead, Full
  <2> QED  BY <2>1, <2>2 DEF Awaited, Waits
<1>11. CASE Truncate
  <2>1. /\ Looking /\ pending' = pending
        /\ ix' = [ix EXCEPT !.todo = {}, !.truncated = TRUE]
        /\ Finish(Ahead(ix) \ (ix.found \cup ix.missing))
    BY <1>11 DEF Truncate, IxTruncate, Looking
  <2>2. /\ Ahead(ix)' = Ahead(ix) /\ ix'.found = ix.found /\ ix'.missing = ix.missing
    BY <1>1, <2>1 DEF Ahead, Full, Looking, Runs
  <2>3. /\ p \in unread' => p \in unread
        /\ p \in unread' /\ p \in Ahead(ix) => p \in ix.found \cup ix.missing \/ Waits(p)
    BY <2>1 DEF Finish
  <2> QED  BY <2>1, <2>2, <2>3 DEF Awaited, Waits
<1>12. CASE Apply
  <2>1. /\ Looking /\ pending' = pending /\ Finish(Removed(ix))
        /\ ix' = [ix EXCEPT !.phase = "files", !.work = ix.found,
                            !.forced = IF Full(ix) THEN AffectedImporters ELSE @]
    BY <1>12 DEF Apply, IxApply, Looking
  <2>2. ix'.phase = "files" /\ Ahead(ix)' = ix.found
    BY <1>1, <2>1 DEF Ahead, Runs
  <2>3. p \in unread' => p \in unread /\ (p \notin Removed(ix) \/ Waits(p))
    BY <2>1 DEF Finish
  <2>4. /\ p \in Ahead(ix) /\ p \notin Removed(ix) /\ ~ix.truncated => p \in ix.found
        /\ p \in ix.missing /\ p \notin Removed(ix) /\ ix.truncated => p \in ix.found
    BY <1>1, <2>1 DEF Removed, RemoveMissingForChange, RemoveMissingFiles, Ahead, Full, Looking,
       Runs
  <2> QED  BY <2>1, <2>2, <2>3, <2>4 DEF Awaited, Waits, Looking
<1>13. ASSUME NEW q \in Paths, ProcessFile(q) \/ ProcessFails(q) PROVE Awaited(p)'
  <2>1. /\ ix.phase = "files" /\ pending' = pending /\ unread' = unread \ {q}
    BY <1>13 DEF ProcessFile, ProcessFails, IxFile
  <2>2. ix'.phase = "files" /\ ix'.work = ix.work \ {q}
    BY <1>1, <1>13, <2>1 DEF ProcessFile, ProcessFails, IxFile, Runs
  <2>3. Ahead(ix) = ix.work /\ Ahead(ix)' = ix'.work
    BY <2>1, <2>2 DEF Ahead
  <2> QED  BY <2>1, <2>2, <2>3 DEF Awaited, Waits, Looking
<1>14. CASE Complete
  <2>1. IxGoOn /\ Ahead(ix) = {} /\ unread' = unread
    BY <1>14 DEF Complete, IxComplete, Ahead, history
  <2> QED  BY <2>1, GoOnAwaits DEF Awaited
<1>15. ASSUME NEW status \in {"failed", "cancelled"}, RunEnds(status) PROVE Awaited(p)'
  <2>1. IxGoOn /\ Finish(Ahead(ix))
    BY <1>15 DEF RunEnds, IxEnd
  <2> QED  BY <2>1, GoOnAwaits DEF Awaited, Finish
<1>16. ASSUME NEW reopened \in SUBSET held, Restart(reopened) PROVE Awaited(p)'
  BY <1>16 DEF Restart, Awaited
<1> QED
  BY <1>3, <1>4, <1>5, <1>7, <1>8, <1>9, <1>10, <1>11, <1>12, <1>13, <1>14, <1>15, <1>16
     DEF Next, IndexStep

LEMMA ReportInvariance == Spec => []ReportInv
<1>1. Init => ReportInv
  <2> SUFFICES ASSUME Init PROVE ReportInv
    OBVIOUS
  <2>1. TypeInv
    BY TypeInvInit
  <2> QED  BY <2>1 DEF Init, IndexInit, Idle, ReportInv, RunIsStored, Running, Awaited
<1>2. ReportInv /\ [Next]_vars => ReportInv'
  BY TypeInvStep, RunIsStoredStep, AwaitedStep DEF ReportInv
<1> QED  BY <1>1, <1>2, PTL DEF Spec

\* What the index was told of and has not read is reported to the model.
THEOREM OutdatedIsReported == Spec => []UnreadIsReported
<1>1. ReportInv => UnreadIsReported
  <2> SUFFICES ASSUME ReportInv, NEW p \in unread PROVE PotentiallyOutdated
    BY DEF UnreadIsReported
  <2>1. Awaited(p)
    BY DEF ReportInv, TypeInv, TypeOK
  <2>2. CASE Waits(p)
    BY <2>2 DEF Waits, PotentiallyOutdated, HasPending, NoChange
  <2>3. CASE ~Waits(p)
    <3>1. Running
      BY <2>1, <2>3 DEF Awaited, Ahead, Running
    <3> QED  BY <3>1 DEF ReportInv, RunIsStored, Started, Stored, PotentiallyOutdated
  <2> QED  BY <2>2, <2>3
<1> QED  BY <1>1, ReportInvariance, PTL

-----------------------------------------------------------------------------
(* RelationsFollowFiles.  Where a relation leads depends on the rows there *)
(* are, and during a run also on the rows the files still to be read will  *)
(* have; where it does not lead there yet, its importer is to be read too, *)
(* and not to be passed over.                                              *)

Importing(p) == p \in Parsable /\ rows[p].state = "indexed" /\ Import[p] # NoPath

\* The relation of p leads where its specifier says, as far as Import[p] has
\* a row or will have one.
Led(p) == links[p].to = IF Present(Import[p]) \/ Import[p] \in ix.work
                        THEN Import[p] ELSE NoPath

ReadAgain(p) == p \in ix.work /\ (ix.kind = "incremental" \/ p \in ix.forced)

\* The steps of a run, as far as relations depend on them
RunInOrder ==
    /\ ix.phase # "files" => ix.work = {}
    /\ ix.phase = "files" => ix.work \subseteq ix.found
    /\ ix.phase = "discover" => ix.forced = {}

LinksInOrder == \A p \in Paths : links[p].to = NoPath => links[p] = NoLink

\* What holds unless a run of the index was cut off
Related ==
    /\ ~ix.truncated
    /\ ix.phase = "files" => \A q \in ix.found \ ix.work : Present(q)
    /\ ix.kind = "retry" /\ Looking =>
          \A p \in ix.asked \ ix.forced : rows[p].state = "failed"
    /\ \A p \in Paths : Importing(p) => Led(p) \/ ReadAgain(p)
    /\ ~Running => \A p \in Paths :
          Importing(p) /\ Present(Import[p]) => links[p].hash = rows[Import[p]].analyzed

RelationInv ==
    /\ TypeInv /\ RunInOrder /\ LinksInOrder
    /\ "index" \notin torn => Related

LEMMA TornStays ==
    ASSUME [Next]_vars, "index" \in torn PROVE "index" \in torn'
BY DEF Next, Edit, Flush, Deliver, StopWatching, WatcherError, StartWatching, Ready, Hold,
   Release, IndexStep, Stat, ProcessFile, Rediscover, Apply, Complete, RunEnds, Truncate,
   ProcessFails, Cancel, Manual, Retry, SemStep, Ensured, SemFault, Restart, vars, history

\* A run that begins when no work is left knows no more than the rows.
LEMMA NewRunRelates ==
    ASSUME RelationInv, NEW kind \in RunKinds, NEW ps, ix' = NewRun(kind, ps),
           ix.work = {}, UNCHANGED rows, LinksInOrder',
           \A p \in Paths : links'[p].to = links[p].to,
           kind = "retry" => \A p \in ps : rows[p].state = "failed"
    PROVE  RunInOrder' /\ ("index" \notin torn => Related')
<1>1. /\ ix'.kind = kind /\ ix'.asked = ps /\ ix'.phase = "discover" /\ ~ix'.truncated
      /\ ix'.forced = {} /\ ix'.work = {}
  BY DEF NewRun, Idle
<1>2. RunInOrder'
  BY <1>1 DEF RunInOrder
<1>3. ASSUME "index" \notin torn PROVE Related'
  <2>1. ASSUME NEW p \in Paths, Importing(p)' PROVE Led(p)'
    <3>1. Importing(p)
      BY <2>1 DEF Importing
    <3>2. Led(p)
      BY <1>3, <3>1 DEF RelationInv, Related, ReadAgain
    <3> QED  BY <1>1, <3>2 DEF Led, Present
  <2> QED  BY <1>1, <2>1 DEF Related, Running
<1> QED  BY <1>2, <1>3

\* So does no run, if the hashes are those of the rows.
LEMMA IdleRelates ==
    ASSUME RelationInv, ix' = Idle, ix.work = {}, UNCHANGED rows,
           \A p \in Paths : links'[p].to = links[p].to,
           "index" \notin torn => \A p \in Paths :
              Importing(p) /\ Present(Import[p]) => links'[p].hash = rows[Import[p]].analyzed
    PROVE  RunInOrder' /\ ("index" \notin torn => Related')
<1>1. /\ ix'.kind = "initial" /\ ix'.phase = "idle" /\ ~ix'.truncated /\ ix'.work = {}
  BY DEF Idle
<1>2. RunInOrder'
  BY <1>1 DEF RunInOrder
<1>3. ASSUME "index" \notin torn PROVE Related'
  <2>1. ASSUME NEW p \in Paths, Importing(p)'
        PROVE  /\ Led(p)'
               /\ Present(Import[p])' => links'[p].hash = rows'[Import[p]].analyzed
    <3>1. Importing(p)
      BY <2>1 DEF Importing
    <3>2. Led(p)
      BY <1>3, <3>1 DEF RelationInv, Related, ReadAgain
    <3> QED  BY <1>1, <1>3, <3>1, <3>2 DEF Led, Present
  <2> QED  BY <1>1, <2>1 DEF Related, Running, Looking
<1> QED  BY <1>2, <1>3

LEMMA EnqueueRelates ==
    ASSUME RelationInv, NEW ev, IxEnqueue(ev)
    PROVE  RunInOrder' /\ LinksInOrder' /\ ("index" \notin torn => Related')
<1>1. UNCHANGED <<rows, links>>
  BY DEF IxEnqueue
<1>2. LinksInOrder'
  BY <1>1 DEF RelationInv, LinksInOrder
<1>3. CASE ix' = ix
  BY <1>1, <1>3 DEF RelationInv, LinksInOrder, RunInOrder, Related, Importing, Led, ReadAgain,
     Present, Running, Looking
<1>4. ASSUME NEW kind \in {"reconcile", "incremental"}, NEW ps, ix' = NewRun(kind, ps), ~Running
      PROVE  RunInOrder' /\ ("index" \notin torn => Related')
  BY <1>1, <1>2, <1>4, NewRunRelates DEF RelationInv, RunInOrder, Running, RunKinds, FullKinds
<1> QED  BY <1>2, <1>3, <1>4 DEF IxEnqueue

LEMMA ScheduleRelates ==
    ASSUME RelationInv, NEW kind \in RunKinds, NEW ps, IxSchedule(kind, ps),
           UNCHANGED <<rows, links>>,
           kind = "retry" => \A p \in ps : rows[p].state = "failed"
    PROVE  RunInOrder' /\ LinksInOrder' /\ ("index" \notin torn => Related')
<1>1. LinksInOrder'
  BY DEF RelationInv, LinksInOrder
<1>2. CASE Running
  BY <1>1, <1>2 DEF IxSchedule, RelationInv, RunInOrder, Related, Importing, Led, ReadAgain,
     Present, Running, Looking
<1>3. CASE ~Running
  BY <1>1, <1>3, NewRunRelates DEF IxSchedule, RelationInv, RunInOrder, Running
<1> QED  BY <1>1, <1>2, <1>3

\* The loop of schedule: all files are read, or the run was cut off.
LEMMA GoOnRelates ==
    ASSUME RelationInv, IxGoOn, UNCHANGED rows, LinksInOrder', ix.work = {},
           \A p \in Paths : links'[p].to = links[p].to,
           "index" \notin torn => \A p \in Paths :
              Importing(p) /\ Present(Import[p]) => links'[p].hash = rows[Import[p]].analyzed
    PROVE  RunInOrder' /\ ("index" \notin torn => Related')
<1>1. CASE HasPending
  <2> DEFINE kind == IF pending.overflow THEN "reconcile" ELSE "incremental"
  <2>1. ix' = NewRun(kind, pending.paths) /\ kind \in RunKinds /\ kind # "retry"
    BY <1>1 DEF IxGoOn, NextRun, RunKinds, FullKinds
  <2> QED  BY <2>1, NewRunRelates
<1>2. CASE ~HasPending
  BY <1>2, IdleRelates DEF IxGoOn
<1> QED  BY <1>1, <1>2

\* The removal of rows and the choice of files to read: an importer whose
\* relation would lead elsewhere now is read again.
LEMMA ApplyRelates ==
    ASSUME RelationInv, Apply, "index" \notin torn' PROVE Related'
<1> USE DEF RelationInv, TypeInv, TypeOK
<1>1. /\ Looking /\ Finish(Removed(ix)) /\ ix \in Runs
      /\ rows' = [x \in Paths |-> IF x \in Removed(ix) THEN NoRow ELSE rows[x]]
      /\ links' = [x \in Paths |-> IF x \in Removed(ix) THEN NoLink ELSE links[x]]
      /\ ix' = [ix EXCEPT !.phase = "files", !.work = ix.found,
                          !.forced = IF Full(ix) THEN AffectedImporters ELSE @]
  BY DEF Apply, IxApply, Looking, IndexTypeOK
<1>2. /\ Full(ix) \/ AffectedImporters = {}
      /\ "index" \notin torn /\ Related /\ ~ix.truncated /\ ix.work = {}
  BY <1>1 DEF Apply, Looking, RunInOrder, Related
<1>3. /\ ix'.phase = "files" /\ ix'.work = ix.found /\ ix'.found = ix.found
      /\ ix'.kind = ix.kind /\ ~ix'.truncated
      /\ ix'.forced = IF Full(ix) THEN AffectedImporters ELSE ix.forced
  BY <1>1, <1>2 DEF Runs
<1>4. Removed(ix) = IF Full(ix) THEN Paths \ ix.found ELSE (ix.asked \cup ix.missing) \ ix.found
  BY <1>2 DEF Removed, RemoveMissingFiles, RemoveMissingForChange
<1>5. ASSUME NEW p \in Paths, Importing(p)', ~Led(p)' PROVE ReadAgain(p)'
  <2> DEFINE q == Import[p]
  <2>1. p \notin Removed(ix) /\ Importing(p) /\ links'[p] = links[p] /\ q \in Paths
    BY <1>1, <1>5, IndexAssumption DEF Importing, NoRow
  <2>2. links[p].to = IF Present(q) THEN q ELSE NoPath
    BY <1>2, <2>1 DEF Related, Led, ReadAgain
  <2>3. Present(q)' <=> Present(q) /\ q \notin Removed(ix)
    BY <1>1, <2>1 DEF Present, NoRow
  <2>4. \/ Present(q) /\ q \in Removed(ix) /\ q \notin ix.found
        \/ ~Present(q) /\ q \in ix.found
    BY <1>3, <1>5, <2>1, <2>2, <2>3 DEF Led
  <2>5. Full(ix) \/ p \notin ix.asked => p \in AffectedImporters
    <3>1. Present(p) /\ Supported(p) /\ q # NoPath
      BY <2>1 DEF Importing, Present, Supported
    <3>2. \/ /\ links[p].to # NoPath
             /\ \/ links[p].to \in ix.missing
                \/ /\ ~ix.truncated /\ links[p].to \notin ix.found
                   /\ ix.asked = {} \/ Full(ix) \/ links[p].to \in ix.asked
          \/ \E x \in ix.found : ~Present(x) /\ MayResolve(p, x)
      BY <1>2, <1>4, <2>2, <2>4, <3>1 DEF MayResolve
    <3> QED  BY <3>1, <3>2 DEF AffectedImporters
  <2>6. CASE Full(ix)
    BY <1>3, <1>4, <2>1, <2>5, <2>6 DEF ReadAgain
  <2>7. CASE ~Full(ix)
    <3>1. p \in ix.asked /\ p \in ix.found
      BY <1>2, <1>4, <2>1, <2>5, <2>7
    <3>2. ix.kind \in {"incremental", "retry"}
      BY <1>1, <2>7 DEF Full, Runs, RunKinds
    <3>3. ix.kind = "retry" => p \in ix.forced
      BY <1>1, <1>2, <2>1, <3>1 DEF Related, Importing
    <3> QED  BY <1>3, <2>7, <3>1, <3>2, <3>3 DEF ReadAgain
  <2> QED  BY <2>6, <2>7
<1> QED  BY <1>3, <1>5 DEF Related, Looking, Running

\* One file is read, or its reading fails.
LEMMA FileRelates ==
    ASSUME RelationInv, NEW q \in Paths, NEW ok \in BOOLEAN, IxFile(q, ok),
           UNCHANGED <<disk, torn>>
    PROVE  RunInOrder' /\ LinksInOrder' /\ ("index" \notin torn => Related')
<1> USE DEF RelationInv, TypeInv, TypeOK
<1>1. /\ ix \in Runs /\ rows \in [Paths -> FileRows] /\ links \in [Paths -> Links]
      /\ ix.phase = "files" /\ q \in ix.work
  BY DEF IxFile, IndexTypeOK
<1>2. /\ ix'.phase = "files" /\ ix'.work = ix.work \ {q} /\ ix'.found = ix.found
      /\ ix'.kind = ix.kind /\ ix'.forced = ix.forced /\ ix'.truncated = ix.truncated
  BY <1>1 DEF IxFile, Runs
<1>3. RunInOrder'
  BY <1>1, <1>2 DEF RunInOrder
<1>4. /\ \A p \in Paths \ {q} : rows'[p] = rows[p] /\ links'[p] = links[p]
      /\ rows'[q].state # "none"
      /\ rows'[q].state # "failed" => SaveFileAnalysis(q)
      /\ \/ links'[q] = links[q]
         \/ links'[q] = NoLink
         \/ links'[q] = Resolve(q)
  <2>1. CASE SaveFileAnalysis(q)
    BY <1>1, <2>1 DEF SaveFileAnalysis
  <2>2. CASE rows' = [rows EXCEPT ![q].state = "failed"] /\ links' = links
    BY <1>1, <2>2 DEF FileRows
  <2> QED  BY <2>1, <2>2 DEF IxFile
<1>5. LinksInOrder'
  BY <1>4, IndexAssumption DEF LinksInOrder, Resolve, NoLink
<1>6. ASSUME "index" \notin torn PROVE Related'
  <2>1. Related
    BY <1>6
  <2>2. \A x \in Paths : Present(x)' \/ x \in ix'.work <=> Present(x) \/ x \in ix.work
    BY <1>1, <1>2, <1>4 DEF Present
  <2>3. ASSUME NEW p \in Paths, Importing(p)', p # q PROVE Led(p)' \/ ReadAgain(p)'
    <3>1. Importing(p) /\ links'[p] = links[p] /\ Import[p] \in Paths
      BY <1>4, <2>3, IndexAssumption DEF Importing
    <3>2. Led(p) => Led(p)'
      BY <2>2, <3>1 DEF Led
    <3> QED  BY <1>2, <2>1, <2>3, <3>1, <3>2 DEF Related, ReadAgain
  <2>4. ASSUME Importing(q)' PROVE Led(q)'
    <3>1. SaveFileAnalysis(q) /\ Supported(q) /\ Import[q] \in Paths /\ Import[q] # NoPath
      BY <1>4, <2>4, IndexAssumption DEF Importing, Supported
    <3>2. CASE Reusable(q)
      <4>1. links' = links /\ Importing(q) /\ ~ReadAgain(q)
        BY <3>1, <3>2 DEF SaveFileAnalysis, Reusable, Importing, Supported, ReadAgain
      <4> QED  BY <2>1, <2>2, <3>1, <4>1 DEF Related, Led
    <3>3. CASE ~Reusable(q)
      <4>1. links'[q] = Resolve(q)
        BY <1>1, <3>1, <3>3 DEF SaveFileAnalysis
      <4>2. Import[q] \in ix.found => Present(Import[q]) \/ Import[q] \in ix.work
        BY <1>1, <2>1 DEF Related
      <4>3. Import[q] \in ix.work => Import[q] \in ix.found
        BY <1>1 DEF RunInOrder
      <4> QED  BY <2>2, <3>1, <4>1, <4>2, <4>3 DEF Resolve, Led, NoLink
    <3> QED  BY <3>2, <3>3
  <2>5. \A x \in ix'.found \ ix'.work : Present(x)'
    <3>1. ix.found \subseteq Paths
      BY <1>1 DEF Runs
    <3> QED  BY <1>1, <1>2, <2>1, <2>2, <3>1 DEF Related
  <2> QED  BY <1>2, <2>1, <2>3, <2>4, <2>5 DEF Related, Looking, Running
<1> QED  BY <1>3, <1>5, <1>6

LEMMA RelationStep ==
    ASSUME RelationInv, [Next]_vars PROVE RelationInv'
<1> USE DEF RelationInv, TypeInv, TypeOK
<1>1. TypeInv'
  BY TypeInvStep
<1>2. SUFFICES RunInOrder' /\ LinksInOrder' /\ ("index" \notin torn' => Related')
  BY <1>1
<1>3. ix \in Runs /\ links \in [Paths -> Links]
  BY DEF IndexTypeOK
<1>4. "index" \notin torn' => "index" \notin torn
  BY TornStays
<1>5. ASSUME UNCHANGED <<ix, rows, links>>
      PROVE  RunInOrder' /\ LinksInOrder' /\ ("index" \notin torn => Related')
  BY <1>5 DEF LinksInOrder, RunInOrder, Related, Importing, Led, ReadAgain, Present, Running,
     Looking
<1>6. CASE \/ \E q \in Paths, content \in Contents \cup {0} : Edit(q, content)
           \/ StopWatching \/ WatcherError \/ StartWatching \/ Hold
           \/ SemStep \/ Ensured \/ SemFault \/ UNCHANGED vars
  BY <1>4, <1>5, <1>6 DEF Edit, StopWatching, WatcherError, StartWatching, Hold, SemStep, Ensured,
     SemFault, vars, indexVars
<1>7. CASE Flush
  BY <1>4, <1>5, <1>7, EnqueueRelates DEF Flush, Deliver, indexVars
<1>8. CASE Release
  BY <1>4, <1>5, <1>8, EnqueueRelates DEF Release, indexVars
<1>9. CASE Ready \/ Manual
  BY <1>4, <1>5, <1>9, ScheduleRelates DEF Ready, Manual, IxEnsure, IxManual, RunKinds, FullKinds
<1>10. CASE Retry
  BY <1>4, <1>5, <1>10, ScheduleRelates DEF Retry, IxRetry, RunKinds
<1>11. CASE Cancel \/ \E q \in Paths : Stat(q)
  <2>1. /\ UNCHANGED <<rows, links>>
        /\ ix'.phase = ix.phase /\ ix'.kind = ix.kind /\ ix'.work = ix.work
        /\ ix'.asked = ix.asked /\ ix'.forced = ix.forced /\ ix'.truncated = ix.truncated
        /\ ix.phase = "files" => ix'.found = ix.found
    BY <1>3, <1>11 DEF Cancel, IxCancel, Stat, IxStat, Runs
  <2>2. RunInOrder' /\ LinksInOrder'
    BY <2>1 DEF RunInOrder, LinksInOrder
  <2>3. ASSUME Related PROVE Related'
    BY <2>1, <2>3 DEF Related, Importing, Led, ReadAgain, Present, Running, Looking
  <2> QED  BY <1>4, <2>2, <2>3
<1>12. CASE Rediscover
  <2>1. /\ UNCHANGED <<rows, links>>
        /\ ix.phase = "discover" /\ ix'.phase = "rediscover"
        /\ ix'.kind = ix.kind /\ ix'.work = ix.work
        /\ ix'.asked = ix.asked \cup AffectedImporters /\ ix'.forced = AffectedImporters
        /\ ~ix'.truncated
    BY <1>3, <1>12 DEF Rediscover, IxRediscover, Runs
  <2>2. RunInOrder' /\ LinksInOrder'
    BY <2>1 DEF RunInOrder, LinksInOrder
  <2>3. ASSUME Related PROVE Related'
    BY <2>1, <2>3 DEF Related, Importing, Led, ReadAgain, Present, Running, Looking, RunInOrder
  <2> QED  BY <1>4, <2>2, <2>3
<1>13. CASE Truncate
  <2>1. /\ UNCHANGED <<rows, links>> /\ "index" \in torn'
        /\ ix.phase # "files" /\ ix'.phase = ix.phase /\ ix'.work = ix.work
        /\ ix'.forced = ix.forced
    BY <1>3, <1>13 DEF Truncate, IxTruncate, Runs
  <2> QED  BY <2>1 DEF RunInOrder, LinksInOrder
<1>14. CASE Apply
  <2>1. ix'.phase = "files" /\ ix'.work = ix.found /\ ix'.found = ix.found
    BY <1>3, <1>14 DEF Apply, IxApply, Runs
  <2>2. \A p \in Paths : links'[p] = links[p] \/ links'[p] = NoLink
    BY <1>14 DEF Apply, IxApply
  <2> QED  BY <1>14, <2>1, <2>2, ApplyRelates DEF RunInOrder, LinksInOrder
<1>15. ASSUME NEW q \in Paths, ProcessFile(q) \/ ProcessFails(q)
       PROVE  RunInOrder' /\ LinksInOrder' /\ ("index" \notin torn' => Related')
  BY <1>4, <1>15, FileRelates DEF ProcessFile, ProcessFails
<1>16. CASE Complete
  <2>1. ix.phase = "files" /\ ix.work = {} /\ RefreshRelationHashes /\ IxGoOn /\ rows' = rows
    BY <1>16 DEF Complete, IxComplete
  <2>2. \A p \in Paths :
           IF links[p].to = NoPath THEN links'[p] = links[p]
           ELSE links'[p].to = links[p].to /\ links'[p].hash = rows[links[p].to].analyzed
    BY <1>3, <2>1 DEF RefreshRelationHashes, Links
  <2>3. LinksInOrder'
    BY <2>2 DEF LinksInOrder
  <2>4. ASSUME "index" \notin torn, NEW p \in Paths, Importing(p), Present(Import[p])
        PROVE  links'[p].hash = rows[Import[p]].analyzed
    <3>1. links[p].to = Import[p] /\ Import[p] # NoPath
      BY <2>1, <2>4 DEF Related, Led, ReadAgain, Importing
    <3> QED  BY <2>2, <3>1
  <2> QED  BY <1>4, <2>1, <2>2, <2>3, <2>4, GoOnRelates
<1>17. ASSUME NEW status \in {"failed", "cancelled"}, RunEnds(status)
       PROVE  RunInOrder' /\ LinksInOrder' /\ ("index" \notin torn' => Related')
  <2>1. IxGoOn /\ UNCHANGED <<rows, links>> /\ "index" \in torn'
    BY <1>17 DEF RunEnds, IxEnd
  <2>2. ix'.phase \in {"idle", "discover"} /\ ix'.work = {} /\ ix'.forced = {}
    BY <2>1 DEF IxGoOn, NextRun, NewRun, Idle
  <2> QED  BY <2>1, <2>2 DEF RunInOrder, LinksInOrder
<1>18. ASSUME NEW reopened \in SUBSET held, Restart(reopened)
       PROVE  RunInOrder' /\ LinksInOrder' /\ ("index" \notin torn' => Related')
  BY <1>18 DEF Restart, IxRestart, Idle, RunInOrder, LinksInOrder
<1> QED
  BY <1>6, <1>7, <1>8, <1>9, <1>10, <1>11, <1>12, <1>13, <1>14, <1>15, <1>16, <1>17, <1>18
     DEF Next, IndexStep

LEMMA RelationInvariance == Spec => []RelationInv
<1>1. Init => RelationInv
  <2> SUFFICES ASSUME Init PROVE RelationInv
    OBVIOUS
  <2>1. TypeInv
    BY TypeInvInit
  <2>2. RunInOrder /\ LinksInOrder /\ Related
    BY DEF Init, IndexInit, Idle, NoRow, NoLink, RunInOrder, LinksInOrder, Related, Importing,
       Looking
  <2> QED  BY <2>1, <2>2 DEF RelationInv
<1>2. RelationInv /\ [Next]_vars => RelationInv'
  BY RelationStep
<1> QED  BY <1>1, <1>2, PTL DEF Spec

\* At rest, an import leads to the row its specifier names, and nowhere when
\* there is none, as long as no run was cut off or looked twice and differently.
THEOREM ImportsLeadToRows == Spec => []RelationsFollowFiles
<1>1. RelationInv => RelationsFollowFiles
  <2> SUFFICES ASSUME RelationInv, Resting, "index" \notin torn,
                      NEW p \in Parsable, rows[p].state = "indexed", Import[p] # NoPath
               PROVE  IF Present(Import[p])
                      THEN links[p] = [to |-> Import[p], hash |-> rows[Import[p]].analyzed]
                      ELSE links[p] = NoLink
    BY DEF RelationsFollowFiles, RelationsCurrent
  <2>1. /\ p \in Paths /\ Importing(p) /\ ~Running /\ Related /\ ix.work = {} /\ LinksInOrder
        /\ links[p] \in Links
    BY IndexAssumption
       DEF Importing, Resting, Running, RelationInv, RunInOrder, TypeInv, TypeOK, IndexTypeOK
  <2>2. links[p].to = IF Present(Import[p]) THEN Import[p] ELSE NoPath
    BY <2>1 DEF Related, Led, ReadAgain
  <2>3. CASE Present(Import[p])
    <3>1. links[p].to = Import[p] /\ links[p].hash = rows[Import[p]].analyzed
      BY <2>1, <2>2, <2>3 DEF Related
    <3> QED  BY <2>1, <2>3, <3>1 DEF Links
  <2>4. CASE ~Present(Import[p])
    BY <2>1, <2>2, <2>4 DEF LinksInOrder
  <2> QED  BY <2>3, <2>4
<1> QED  BY <1>1, RelationInvariance, PTL

-----------------------------------------------------------------------------
(* UnitsFollowRows.  The units saved at the end of a request carry the hash *)
(* the row had before it, so the file in hand must be queued again as soon  *)
(* as its row changes; and until the service exists there are no units.     *)

UnitsQueued ==
    \A p \in Paths : units[p].status = "current" /\ units[p].hash # rows[p].analyzed =>
        p \in semPending \cup semantic.work

HandQueued ==
    semantic.step # "next" =>
        semantic.hash = rows[semantic.file].analyzed \/ semantic.file \in semPending

\* What is removed had a row, or had no content and no units to speak of.
NothingAnalyzed == \A p \in Paths : ~Present(p) => rows[p].analyzed = 0

Unwired ==
    ~wired => /\ \A p \in Paths : units[p] = NoUnits
              /\ semantic = SemIdle /\ semPending = {} /\ ensuring = <<>>

UnitInv ==
    /\ TypeInv /\ NothingAnalyzed /\ Unwired
    /\ "semantic" \notin torn => UnitsQueued /\ HandQueued

\* The rows of queued paths change, and no others; units only go.
LEMMA EnqueueKeepsUnits ==
    ASSUME UnitInv, NEW ps \in SUBSET Paths, NEW busy \in BOOLEAN, SemEnqueue(ps, busy),
           \A p \in Paths : units'[p] = units[p] \/ units'[p] = NoUnits,
           \A p \in Paths : rows'[p].analyzed = rows[p].analyzed \/ p \in ps,
           "semantic" \in torn => "semantic" \in torn'
    PROVE  Unwired' /\ ("semantic" \notin torn' => (UnitsQueued /\ HandQueued)')
<1> USE DEF UnitInv, TypeInv
<1>1. CASE ~wired
  <2>1. Unwired'
    BY <1>1 DEF SemEnqueue, Unwired
  <2>2. UnitsQueued' /\ HandQueued'
    BY <1>1, <2>1 DEF SemEnqueue, Unwired, UnitsQueued, HandQueued, NoUnits, SemIdle
  <2> QED  BY <2>1, <2>2
<1>2. CASE wired
  <2>1. wired'
    BY <1>2 DEF SemEnqueue
  <2>2. /\ semPending \cup semantic.work \cup ps \subseteq semPending' \cup semantic'.work
        /\ \/ semantic'.step = "next"
           \/ semantic' = semantic /\ semPending \cup ps \subseteq semPending'
    <3>1. CASE ps = {}
      BY <3>1 DEF SemEnqueue
    <3>2. CASE ps # {} /\ (semantic.on \/ busy)
      BY <1>2, <3>2 DEF SemEnqueue
    <3>3. CASE ps # {} /\ ~semantic.on /\ ~busy
      <4>1. semantic' = SemRun(semPending \cup ps) /\ semantic.work = {}
        BY <1>2, <3>3 DEF SemEnqueue, FileInHand, SemIdle
      <4> QED  BY <4>1 DEF SemRun, SemIdle
    <3> QED  BY <3>1, <3>2, <3>3
  <2>3. ASSUME UnitsQueued, HandQueued PROVE UnitsQueued' /\ HandQueued'
    <3>1. UnitsQueued'
      BY <2>2, <2>3 DEF UnitsQueued, NoUnits
    <3>2. HandQueued'
      BY <2>2, <2>3 DEF HandQueued, FileInHand
    <3> QED  BY <3>1, <3>2
  <2> QED  BY <2>1, <2>3 DEF Unwired
<1> QED  BY <1>1, <1>2

\* A file is done: its units are right, or it waits.
LEMMA DoneKeepsUnits ==
    ASSUME SemWorkTyped, semantic.on, UnitsQueued, UNCHANGED rows,
           NEW p \in Paths, NEW again \in SUBSET Paths, SemDone(p, again),
           \A q \in Paths \ {p} : units'[q] = units[q],
           units'[p].status = "current" =>
               units'[p].hash = rows[p].analyzed \/ p \in semPending
    PROVE  UnitsQueued' /\ HandQueued'
<1>1. CASE semantic.work \ {p} # {}
  <2>1. /\ semantic' = [semantic EXCEPT !.work = @ \ {p}, !.step = "next",
                                        !.file = NoPath, !.hash = 0]
        /\ semPending' = semPending \cup again
    BY <1>1 DEF SemDone
  <2>2. semantic'.step = "next" /\ semantic'.work = semantic.work \ {p}
    BY <2>1 DEF SemWorkTyped, SemRuns
  <2> QED  BY <2>1, <2>2 DEF UnitsQueued, HandQueued
<1>2. CASE semantic.work \ {p} = {}
  <2>1. CASE semPending \cup again = {}
    <3>1. semantic' = SemIdle /\ semPending = {}
      BY <1>2, <2>1 DEF SemDone
    <3> QED  BY <1>2, <3>1, SemRunType DEF UnitsQueued, HandQueued
  <2>2. CASE semPending \cup again # {}
    <3>1. semantic' = SemRun(semPending \cup again)
      BY <1>2, <2>2 DEF SemDone
    <3>2. semantic'.step = "next" /\ semantic'.work = semPending \cup again
      BY <3>1, SemRunType DEF SemWorkTyped
    <3> QED  BY <1>2, <3>2 DEF UnitsQueued, HandQueued
  <2> QED  BY <2>1, <2>2 DEF UnitsQueued, HandQueued
<1> QED  BY <1>1, <1>2

\* The steps of the loop, but for the end of a cancelled run.
LEMMA LoopKeepsUnits ==
    ASSUME SemWorkTyped, IndexTypeOK, UnitsQueued, HandQueued, UNCHANGED rows,
           \/ \E p \in Paths : SemTake(p)
           \/ \E ok \in BOOLEAN : SemRead(ok) \/ SemVerify(ok)
           \/ SemCancel
    PROVE  UnitsQueued' /\ HandQueued'
<1> USE DEF SemWorkTyped
<1>1. ASSUME NEW p \in Paths, MarkStale(p)
      PROVE  units'[p].status # "current" /\ \A q \in Paths \ {p} : units'[q] = units[q]
  BY <1>1 DEF MarkStale, FileUnits
<1>2. ASSUME NEW p \in Paths, SemTake(p) PROVE UnitsQueued' /\ HandQueued'
  <2>0. semantic.on
    BY <1>2 DEF SemTake
  <2>1. CASE ~Present(p) \/ Excluded(p)
    <3>1. units' = [units EXCEPT ![p] = NoUnits] /\ SemDone(p, {})
      BY <1>2, <2>1 DEF SemTake
    <3>2. units'[p].status # "current" /\ \A q \in Paths \ {p} : units'[q] = units[q]
      BY <3>1 DEF NoUnits
    <3> QED  BY <2>0, <3>1, <3>2, DoneKeepsUnits
  <2>2. CASE /\ ~(~Present(p) \/ Excluded(p))
             /\ rows[p].state = "failed" \/ rows[p].analyzed = 0
    <3>1. MarkStale(p) /\ SemDone(p, {})
      BY <1>2, <2>2 DEF SemTake
    <3> QED  BY <1>1, <2>0, <3>1, DoneKeepsUnits
  <2>3. CASE /\ ~(~Present(p) \/ Excluded(p))
             /\ ~(rows[p].state = "failed" \/ rows[p].analyzed = 0)
             /\ units[p] = [status |-> "current", hash |-> rows[p].analyzed]
    <3>1. UNCHANGED units /\ SemDone(p, {})
      BY <1>2, <2>3 DEF SemTake
    <3>2. units'[p].hash = rows[p].analyzed
      BY <2>3, <3>1
    <3> QED  BY <2>0, <3>1, <3>2, DoneKeepsUnits
  <2>4. CASE /\ ~(~Present(p) \/ Excluded(p))
             /\ ~(rows[p].state = "failed" \/ rows[p].analyzed = 0)
             /\ units[p] # [status |-> "current", hash |-> rows[p].analyzed]
    <3>1. /\ semantic' = [semantic EXCEPT !.step = "read", !.file = p,
                                          !.hash = rows[p].analyzed]
          /\ UNCHANGED <<units, semPending>>
      BY <1>2, <2>4 DEF SemTake
    <3>2. /\ semantic'.work = semantic.work /\ semantic'.file = p
          /\ semantic'.hash = rows[p].analyzed
      BY <3>1 DEF SemRuns
    <3> QED  BY <3>1, <3>2 DEF UnitsQueued, HandQueued
  <2> QED  BY <2>1, <2>2, <2>3, <2>4
<1>3. ASSUME SemSave, semantic.on, semantic.step # "next" PROVE UnitsQueued' /\ HandQueued'
  <2>1. semantic.file \in Paths /\ SemDone(semantic.file, {})
    BY <1>3 DEF SemSave, FileInHand
  <2>2. CASE Present(semantic.file)
    <3>1. units' = [units EXCEPT ![semantic.file] =
                        [status |-> "current", hash |-> semantic.hash]]
      BY <1>3, <2>2 DEF SemSave
    <3>2. /\ units'[semantic.file].hash = semantic.hash
          /\ \A q \in Paths \ {semantic.file} : units'[q] = units[q]
      BY <2>1, <3>1
    <3> QED  BY <1>3, <2>1, <3>2, DoneKeepsUnits DEF HandQueued
  <2>3. CASE ~Present(semantic.file)
    BY <1>1, <1>3, <2>1, <2>3, DoneKeepsUnits DEF SemSave
  <2> QED  BY <2>2, <2>3
<1>4. ASSUME NEW again \in SUBSET Paths, semantic.on, semantic.step # "next",
             MarkStale(semantic.file), SemDone(semantic.file, again)
      PROVE  UnitsQueued' /\ HandQueued'
  BY <1>1, <1>4, DoneKeepsUnits DEF FileInHand
<1>5. ASSUME NEW ok \in BOOLEAN, SemRead(ok) PROVE UnitsQueued' /\ HandQueued'
  <2> DEFINE p == semantic.file
  <2>1. p \in Paths /\ semantic.on /\ semantic.step = "read"
    BY <1>5 DEF SemRead, FileInHand
  <2>2. CASE ~ok \/ disk[p] = 0
    BY <1>4, <1>5, <2>1, <2>2 DEF SemRead
  <2>3. CASE ok /\ disk[p] # 0 /\ disk[p] # semantic.hash
    BY <1>4, <1>5, <2>1, <2>3 DEF SemRead
  <2>4. CASE ok /\ disk[p] # 0 /\ disk[p] = semantic.hash /\ EmbeddingResolved
    <3>1. semantic' = [semantic EXCEPT !.step = "embed"] /\ UNCHANGED <<units, semPending>>
      BY <1>5, <2>1, <2>4 DEF SemRead
    <3>2. /\ semantic'.work = semantic.work /\ semantic'.file = semantic.file
          /\ semantic'.hash = semantic.hash
      BY <3>1 DEF SemRuns
    <3> QED  BY <2>1, <3>1, <3>2 DEF UnitsQueued, HandQueued
  <2>5. CASE ok /\ disk[p] # 0 /\ disk[p] = semantic.hash /\ ~EmbeddingResolved
    BY <1>3, <1>5, <2>1, <2>5 DEF SemRead
  <2> QED  BY <1>5, <2>2, <2>3, <2>4, <2>5
<1>6. ASSUME NEW ok \in BOOLEAN, SemVerify(ok) PROVE UnitsQueued' /\ HandQueued'
  <2>1. semantic.file \in Paths /\ semantic.on /\ semantic.step # "next"
    BY <1>6 DEF SemVerify, FileInHand
  <2> QED  BY <1>3, <1>4, <1>6, <2>1 DEF SemVerify
<1>7. CASE SemCancel
  <2>1. /\ semantic'.work = semantic.work /\ semantic'.file = semantic.file
        /\ semantic'.hash = semantic.hash /\ semantic'.step = semantic.step
        /\ UNCHANGED <<units, semPending>>
    BY <1>7 DEF SemCancel, SemRuns
  <2> QED  BY <2>1 DEF UnitsQueued, HandQueued
<1> QED  BY <1>2, <1>5, <1>6, <1>7

LEMMA UnitStep ==
    ASSUME UnitInv, [Next]_vars PROVE UnitInv'
<1> USE DEF UnitInv
<1>1. TypeInv'
  BY TypeInvStep
<1>2. /\ rows \in [Paths -> FileRows] /\ units \in [Paths -> FileUnits]
      /\ ix \in Runs /\ SemWorkTyped /\ IndexTypeOK
  BY DEF TypeInv, TypeOK, IndexTypeOK, SemTypeOK, SemWorkTyped
<1>3. ASSUME UNCHANGED <<rows, wired, units, semantic, semPending>>, Unwired',
             torn \subseteq torn'
      PROVE  UnitInv'
  BY <1>1, <1>3 DEF NothingAnalyzed, Present, UnitsQueued, HandQueued
<1>4. CASE \/ \E q \in Paths, content \in Contents \cup {0} : Edit(q, content)
           \/ StopWatching \/ WatcherError \/ StartWatching \/ Hold \/ Release
           \/ \E q \in Paths : Stat(q)
           \/ Rediscover \/ Truncate \/ Cancel \/ Manual \/ Retry \/ UNCHANGED vars
  <2>1. UNCHANGED <<rows, wired, units, semantic, semPending, ensuring>> /\ torn \subseteq torn'
    BY <1>4 DEF Edit, StopWatching, WatcherError, StartWatching, Hold, Release, Stat, Rediscover,
       Truncate, Cancel, Manual, Retry, vars, indexVars, semVars, history, IxStat, IxRediscover,
       IxTruncate, IxCancel, IxManual, IxRetry, IxEnqueue
  <2> QED  BY <1>3, <2>1 DEF Unwired
<1>5. CASE Ready \/ Complete \/ \E status \in {"failed", "cancelled"} : RunEnds(status)
  <2>1. UNCHANGED <<rows, wired, units, semantic, semPending>> /\ torn \subseteq torn'
    BY <1>5 DEF Ready, Complete, RunEnds, SemWatch, SemFollow, IxEnsure, IxComplete, IxEnd, history
  <2>2. ~wired => ensuring' = ensuring
    BY <1>5 DEF Ready, Complete, RunEnds, SemWatch, SemFollow, SemEnsure
  <2> QED  BY <1>3, <2>1, <2>2 DEF Unwired
<1>6. CASE Flush
  <2>1. UNCHANGED <<rows, units, torn>>
    BY <1>6 DEF Flush, Deliver, IxEnqueue, indexVars
  <2>2. /\ WatcherEvent \in Events /\ WatcherEvent.paths \in SUBSET Paths
        /\ SemEnqueue(WatcherEvent.paths, latest'.status = "running")
    BY <1>6, WatcherEventType DEF Flush, Deliver, TypeInv, TypeOK, Events
  <2>3. Unwired' /\ ("semantic" \notin torn' => (UnitsQueued /\ HandQueued)')
    BY <2>1, <2>2, EnqueueKeepsUnits
  <2> QED  BY <1>1, <2>1, <2>3 DEF NothingAnalyzed, Present
<1>7. CASE Apply
  <2>1. /\ Removed(ix) \in SUBSET Paths /\ Deleted(ix) \in SUBSET Paths
        /\ SemEnqueue(Deleted(ix), TRUE) /\ torn \subseteq torn'
    BY <1>2, <1>7, AheadType DEF Apply, Deleted
  <2>2. /\ rows' = [p \in Paths |-> IF p \in Removed(ix) THEN NoRow ELSE rows[p]]
        /\ units' = [p \in Paths |-> IF p \in Removed(ix) THEN NoUnits ELSE units[p]]
    BY <1>7 DEF Apply, IxApply, UnitsCascade
  <2>3. NothingAnalyzed'
    BY <2>2 DEF NothingAnalyzed, Present, NoRow
  <2>4. ASSUME NEW p \in Paths PROVE rows'[p].analyzed = rows[p].analyzed \/ p \in Deleted(ix)
    BY <2>1, <2>2 DEF NothingAnalyzed, Deleted, NoRow
  <2>5. Unwired' /\ ("semantic" \notin torn' => (UnitsQueued /\ HandQueued)')
    BY <2>1, <2>2, <2>4, EnqueueKeepsUnits
  <2> QED  BY <1>1, <2>3, <2>5
<1>8. ASSUME NEW q \in Paths, ProcessFile(q) \/ ProcessFails(q) PROVE UnitInv'
  <2>1. PICK ok \in BOOLEAN :
            /\ IxFile(q, ok)
            /\ SemEnqueue(IF Reports(q, ok) THEN {q} ELSE {}, TRUE)
            /\ UNCHANGED <<units, torn>>
    <3>1. Reports(q, FALSE)
      BY DEF Reports
    <3> QED  BY <1>8, <3>1 DEF ProcessFile, ProcessFails
  <2>2. /\ \A p \in Paths \ {q} : rows'[p] = rows[p]
        /\ rows'[q].state # "none"
        /\ rows'[q].analyzed = rows[q].analyzed \/ Reports(q, ok)
    <3>1. CASE ok /\ disk[q] # 0
      <4>1. rows' = [rows EXCEPT ![q] =
                        [state |-> IF Supported(q) THEN "indexed" ELSE "unsupported",
                         analyzed |-> disk[q]]]
        BY <2>1, <3>1 DEF IxFile, SaveFileAnalysis
      <4>2. rows'[q].analyzed = disk[q] /\ rows'[q].state \in {"indexed", "unsupported"}
        BY <1>2, <4>1
      <4> QED  BY <1>2, <3>1, <4>1, <4>2 DEF Reports, Reusable
    <3>2. CASE ~(ok /\ disk[q] # 0)
      <4>1. rows' = [rows EXCEPT ![q].state = "failed"]
        BY <2>1, <3>2 DEF IxFile
      <4> QED  BY <1>2, <4>1 DEF FileRows
    <3> QED  BY <3>1, <3>2
  <2>3. NothingAnalyzed'
    BY <2>2 DEF NothingAnalyzed, Present
  <2>4. (IF Reports(q, ok) THEN {q} ELSE {}) \in SUBSET Paths
    OBVIOUS
  <2>5. ASSUME NEW p \in Paths
        PROVE  \/ rows'[p].analyzed = rows[p].analyzed
               \/ p \in (IF Reports(q, ok) THEN {q} ELSE {})
    BY <2>2
  <2>6. Unwired' /\ ("semantic" \notin torn' => (UnitsQueued /\ HandQueued)')
    BY <2>1, <2>4, <2>5, EnqueueKeepsUnits
  <2> QED  BY <1>1, <2>3, <2>6
<1>9. CASE SemStep \/ SemFault
  <2>1. UNCHANGED <<rows, wired, ensuring>> /\ torn \subseteq torn'
    BY <1>9 DEF SemStep, SemFault, indexVars
  <2>2. semantic.on
    BY <1>9 DEF SemStep, SemFault, SemTake, SemRead, SemVerify, SemCancelled, SemCancel
  <2>3. wired
    BY <2>2 DEF Unwired, SemIdle
  <2>4. ASSUME "semantic" \notin torn' PROVE UnitsQueued' /\ HandQueued'
    <3>1. \/ \E p \in Paths : SemTake(p)
          \/ \E ok \in BOOLEAN : SemRead(ok) \/ SemVerify(ok)
          \/ SemCancel
      BY <1>2, <1>9, <2>4 DEF SemStep, SemFault, SemCancelled, SemWorkTyped, SemRuns
    <3> QED  BY <1>2, <2>1, <2>4, <3>1, LoopKeepsUnits
  <2> QED  BY <1>1, <2>1, <2>3, <2>4 DEF NothingAnalyzed, Present, Unwired
<1>10. CASE Ensured
  <2>1. UNCHANGED <<rows, wired, units>> /\ torn \subseteq torn' /\ ensuring # <<>>
    BY <1>10 DEF Ensured, SemEnsured, indexVars
  <2>2. wired
    BY <2>1 DEF Unwired
  <2>3. ASSUME "semantic" \notin torn', semantic.on PROVE UnitsQueued' /\ HandQueued'
    <3>1. semPending = {} /\ semantic' = semantic /\ semPending' = {}
      BY <1>10, <2>3 DEF Ensured, SemEnsured, Forgotten
    <3> QED  BY <2>1, <2>3, <3>1 DEF UnitsQueued, HandQueued
  <2>4. ASSUME "semantic" \notin torn', ~semantic.on PROVE UnitsQueued' /\ HandQueued'
    <3>1. semantic = SemIdle /\ semantic.work = {}
      BY <2>4 DEF TypeInv, FileInHand, SemIdle
    <3> DEFINE ps == NeedUnits(Head(ensuring)) \cup semPending
    <3>2. ps \in SUBSET Paths
      BY <1>2 DEF NeedUnits, SemWorkTyped
    <3>3. semantic' = IF ps = {} THEN semantic ELSE SemRun(ps)
      BY <1>10, <2>4 DEF Ensured, SemEnsured
    <3>4. CASE ps = {}
      <4>1. semantic' = SemIdle /\ semPending = {}
        BY <3>1, <3>3, <3>4
      <4> QED  BY <2>1, <2>4, <3>1, <4>1, SemRunType DEF UnitsQueued, HandQueued
    <3>5. CASE ps # {}
      <4>1. semantic'.step = "next" /\ semPending \subseteq semantic'.work
        BY <3>2, <3>3, <3>5, SemRunType
      <4> QED  BY <2>1, <2>4, <3>1, <4>1 DEF UnitsQueued, HandQueued
    <3> QED  BY <3>4, <3>5
  <2> QED  BY <1>1, <2>1, <2>2, <2>3, <2>4 DEF NothingAnalyzed, Present, Unwired
<1>11. ASSUME NEW reopened \in SUBSET held, Restart(reopened) PROVE UnitInv'
  <2>1. UNCHANGED <<rows, units, wired>> /\ "semantic" \in torn'
    BY <1>11 DEF Restart, IxRestart, SemRestart
  <2>2. semantic' = SemIdle /\ semPending' = {} /\ ensuring' = <<>>
    BY <1>11 DEF Restart, SemRestart
  <2> QED  BY <1>1, <2>1, <2>2 DEF NothingAnalyzed, Present, Unwired
<1> QED
  BY <1>4, <1>5, <1>6, <1>7, <1>8, <1>9, <1>10, <1>11 DEF Next, IndexStep

LEMMA UnitInvariance == Spec => []UnitInv
<1>1. Init => UnitInv
  <2> SUFFICES ASSUME Init PROVE UnitInv
    OBVIOUS
  <2>1. TypeInv
    BY TypeInvInit
  <2>2. NothingAnalyzed /\ Unwired /\ UnitsQueued /\ HandQueued
    BY DEF Init, IndexInit, SemInit, NoRow, NoUnits, SemIdle, NothingAnalyzed, Unwired,
       UnitsQueued, HandQueued
  <2> QED  BY <2>1, <2>2 DEF UnitInv
<1>2. UnitInv /\ [Next]_vars => UnitInv'
  BY UnitStep
<1> QED  BY <1>1, <1>2, PTL DEF Spec

\* Units presented as current are of the row there is, or their file waits to
\* be looked at again, whatever became of the row while the provider was
\* asked, as long as no queue was let go.
THEOREM UnitsAreFollowed == Spec => []UnitsFollowRows
<1>1. UnitInv => UnitsFollowRows
  BY DEF UnitInv, UnitsQueued, UnitsFollowRows
<1> QED  BY <1>1, UnitInvariance, PTL

-----------------------------------------------------------------------------
(* EngineeringHealth: the findings derived from the index and the validations.   *)
(* A set of natural numbers that is not empty has a least element. *)
LEMMA LeastOfSet ==
  ASSUME NEW T \in SUBSET Nat, T # {}
  PROVE  \E x \in T : \A y \in T : ~(y < x)
<1>1. IsWellFoundedOn(OpToRel(<, Nat), Nat) BY NatLessThanWellFounded
<1>2. \E x \in T : \A y \in T : ~(<<y, x>> \in OpToRel(<, Nat)) BY <1>1, WFMin
<1>3. \A x, y \in Nat : y < x => <<y, x>> \in OpToRel(<, Nat) BY DEF OpToRel
<1> QED BY <1>2, <1>3

(* What the fingerprints are made of. *)
Tested == {FailureOf(k) : k \in Kinds}
Blocked == {EnvironmentOf(k) : k \in Kinds}

LEMMA FingerprintsAre ==
  /\ \A f \in Fingerprints : f[1] = "testing" => f[2] \in Kinds /\ f = FailureOf(f[2])
  /\ \A f \in Fingerprints : f[1] = "developer-experience" => f[2] \in Kinds /\ f = EnvironmentOf(f[2])
  /\ \A f \in Fingerprints : f[1] = "architecture" => f \in {FailedFiles, Unresolved}
  /\ \A f \in Fingerprints : f[1] \in {"testing", "developer-experience", "architecture"}
  /\ FailedFiles # Unresolved
  /\ FailedFiles[1] = "architecture" /\ Unresolved[1] = "architecture"
  /\ \A k : FailureOf(k)[1] = "testing" /\ FailureOf(k)[2] = k
  /\ \A k : EnvironmentOf(k)[1] = "developer-experience" /\ EnvironmentOf(k)[2] = k
  /\ FailedFiles \in Fingerprints /\ Unresolved \in Fingerprints
  /\ \A k \in Kinds : FailureOf(k) \in Fingerprints /\ EnvironmentOf(k) \in Fingerprints
BY DEF Fingerprints, FailedFiles, Unresolved, FailureOf, EnvironmentOf

(* Rows of validations, and the state of the index. *)
ValidationRows == [request : Requests, status : {"passed", "failed", "environment"},
            validity : {"current", "unknown", "stale"}]
IndexStates == [status : {"none", "running", "completed", "partial"}, failed : BOOLEAN,
                imports : {"none", "few", "many"}, runs : Nat]

Seen == [severity : {"info", "low", "medium"}, run : 0 .. MaxRuns]

LEMMA OldestIs ==
  ASSUME NEW S \in SUBSET Nat, S # {}
  PROVE  Oldest(S) \in S
<1>1. PICK x \in S : \A y \in S : ~(y < x) BY LeastOfSet
<1>2. \A y \in S : x <= y
  <2> SUFFICES ASSUME NEW y \in S PROVE x <= y OBVIOUS
  <2>1. x \in Nat /\ y \in Nat /\ ~(y < x) BY <1>1
  <2> QED BY <2>1
<1> QED BY <1>2 DEF Oldest

LEMMA ShowingIs ==
  ASSUME NEW valRows, NEW status, NEW kind, NEW n \in Showing(valRows, status, kind)
  PROVE  /\ n \in Latest(valRows) /\ valRows[n].request.kind = kind
         /\ valRows[n].status = status /\ valRows[n].validity # "stale"
<1>1. \A set : Foremost(set) \subseteq set BY DEF Foremost
<1>2. n \in Shown(valRows, status) /\ valRows[n].request.kind = kind BY DEF Showing
<1>3. n \in WithStatus(valRows, status) /\ valRows[n].validity # "stale"
  BY <1>1, <1>2 DEF Shown, Fresh
<1> QED BY <1>2, <1>3 DEF WithStatus

LEMMA LatestAre ==
  ASSUME NEW valRows \in Seq(ValidationRows)
  PROVE  /\ Latest(valRows) \subseteq 1 .. Len(valRows)
         /\ \A n, m \in Latest(valRows) : valRows[n].request = valRows[m].request => n = m
         /\ \A status, kind : Showing(valRows, status, kind) \subseteq Latest(valRows)
<1>1. Len(valRows) \in Nat /\ DOMAIN valRows = 1 .. Len(valRows) OBVIOUS
<1>2. Latest(valRows) \subseteq 1 .. Len(valRows) BY <1>1 DEF Latest, Recent
<1>3. ASSUME NEW n \in Latest(valRows), NEW m \in Latest(valRows),
             valRows[n].request = valRows[m].request
      PROVE  n = m
  <2>1. n \in 1 .. Len(valRows) /\ m \in 1 .. Len(valRows) BY <1>2
  <2>2. ~(m \in n + 1 .. Len(valRows)) BY <1>3 DEF Latest
  <2>3. ~(n \in m + 1 .. Len(valRows)) BY <1>3 DEF Latest
  <2> QED BY <2>1, <2>2, <2>3, <1>1
<1>4. \A status, kind : Showing(valRows, status, kind) \subseteq Latest(valRows) BY ShowingIs
<1> QED BY <1>2, <1>3, <1>4

(* As long as not too many fail, each that does is shown. *)
LEMMA FewAreShown ==
  ASSUME NEW valRows \in Seq(ValidationRows), ObservationsKept \in Nat, ~TooManyFail(valRows),
         NEW n \in Fresh(valRows, WithStatus(valRows, "failed"))
  PROVE  n \in Showing(valRows, "failed", valRows[n].request.kind)
<1> DEFINE all == WithStatus(valRows, "failed")
           fresh == Fresh(valRows, all)
           newer == {m \in fresh : m > n}
<1>1. fresh \subseteq all /\ newer \subseteq all /\ n \in all BY DEF Fresh
<1>2. all \subseteq 1 .. Len(valRows) BY LatestAre DEF WithStatus
<1>3. Len(valRows) \in Nat /\ n \in Nat BY <1>1, <1>2
<1>4. IsFiniteSet(all)
  <2>1. IsFiniteSet(1 .. Len(valRows))
    <3>1. 1 \in Int /\ Len(valRows) \in Int BY <1>3
    <3> QED BY <3>1, FS_Interval
  <2> HIDE DEF all
  <2> QED BY <1>2, <2>1, FS_Subset
<1>5. newer # all BY <1>1, <1>3
<1>6. Cardinality(newer) \in Nat /\ Cardinality(all) \in Nat /\ Cardinality(newer) < Cardinality(all)
  <2> HIDE DEF newer, all, fresh
  <2>1. IsFiniteSet(newer) /\ Cardinality(newer) <= Cardinality(all) /\ Cardinality(newer) # Cardinality(all)
    BY <1>1, <1>4, <1>5, FS_Subset
  <2>2. Cardinality(newer) \in Nat /\ Cardinality(all) \in Nat BY <1>4, <2>1, FS_CardinalityType
  <2> QED BY <2>1, <2>2
<1>7. Cardinality(newer) < ObservationsKept BY <1>6 DEF TooManyFail
<1>8. n \in Foremost(fresh) BY <1>7 DEF Foremost
<1> QED BY <1>8 DEF Showing, Shown

(* The signals an evaluation observes, with their evidence. *)
LEMMA ObservedAre ==
  ASSUME NEW valRows \in Seq(ValidationRows), NEW indexed \in IndexStates, Len(valRows) <= MaxRuns,
         MaxRuns \in Nat, NEW seen, seen = Observed(valRows, indexed)
  PROVE  /\ DOMAIN seen \subseteq Fingerprints
         /\ \A f \in DOMAIN seen : seen[f] \in Seen
         /\ FailedFiles \in DOMAIN seen <=> indexed.status # "none" /\ indexed.failed
         /\ \A k \in Kinds : FailureOf(k) \in DOMAIN seen <=> Showing(valRows, "failed", k) # {}
         /\ \A k \in Kinds : FailureOf(k) \in DOMAIN seen =>
               seen[FailureOf(k)].run \in Showing(valRows, "failed", k)
         /\ \A k \in Kinds : EnvironmentOf(k) \in DOMAIN seen =>
               seen[EnvironmentOf(k)].run \in Showing(valRows, "environment", k)
<1> DEFINE architecture ==
               IF indexed.status = "none" THEN {}
               ELSE (IF indexed.failed THEN {FailedFiles} ELSE {})
                      \cup (IF indexed.imports # "none" THEN {Unresolved} ELSE {})
           failing == {k \in Kinds : Showing(valRows, "failed", k) # {}}
           blocked == {k \in Kinds : Showing(valRows, "environment", k) # {}}
           found == architecture \cup {FailureOf(k) : k \in failing}
                      \cup {EnvironmentOf(k) : k \in blocked}
           Value(f) ==
               CASE f = FailedFiles -> [severity |-> "medium", run |-> 0]
                 [] f = Unresolved -> [severity |-> Severity(indexed.imports), run |-> 0]
                 [] f[1] = "testing" ->
                       [severity |-> "medium", run |-> Oldest(Showing(valRows, "failed", f[2]))]
                 [] OTHER ->
                       [severity |-> "info", run |-> Oldest(Showing(valRows, "environment", f[2]))]
<1>1. seen = [f \in found |-> Value(f)] BY DEF Observed
<1>2. \A status, kind : Showing(valRows, status, kind) \in SUBSET (1 .. Len(valRows)) BY LatestAre
<1>3. Len(valRows) \in Nat /\ \A n \in 1 .. Len(valRows) : n \in Nat /\ n \in 0 .. MaxRuns OBVIOUS
<1>4. \A status, kind : Showing(valRows, status, kind) # {} =>
         /\ Oldest(Showing(valRows, status, kind)) \in Showing(valRows, status, kind)
         /\ Oldest(Showing(valRows, status, kind)) \in 0 .. MaxRuns
  <2> SUFFICES ASSUME NEW status, NEW kind, Showing(valRows, status, kind) # {}
               PROVE  /\ Oldest(Showing(valRows, status, kind)) \in Showing(valRows, status, kind)
                      /\ Oldest(Showing(valRows, status, kind)) \in 0 .. MaxRuns
    OBVIOUS
  <2>1. Showing(valRows, status, kind) \in SUBSET Nat BY <1>2, <1>3
  <2>2. Oldest(Showing(valRows, status, kind)) \in Showing(valRows, status, kind) BY <2>1, OldestIs
  <2> QED BY <2>2, <1>2, <1>3
<1>5. architecture \subseteq {FailedFiles, Unresolved} OBVIOUS
<1>6. FailedFiles \in architecture <=> indexed.status # "none" /\ indexed.failed
  BY FingerprintsAre DEF IndexStates
<1>7. \A f \in found : \/ f \in architecture
                       \/ \E k \in failing : f = FailureOf(k)
                       \/ \E k \in blocked : f = EnvironmentOf(k)
  OBVIOUS
<1>8. /\ \A k \in failing : FailureOf(k) \in found
      /\ \A k \in blocked : EnvironmentOf(k) \in found
      /\ architecture \subseteq found
  OBVIOUS
<1>9. Value(FailedFiles) = [severity |-> "medium", run |-> 0] BY FingerprintsAre
<1>10. Value(Unresolved) = [severity |-> Severity(indexed.imports), run |-> 0] BY FingerprintsAre
<1>11. \A k : Value(FailureOf(k)) =
                 [severity |-> "medium", run |-> Oldest(Showing(valRows, "failed", k))]
  BY FingerprintsAre
<1>12. \A k : Value(EnvironmentOf(k)) =
                 [severity |-> "info", run |-> Oldest(Showing(valRows, "environment", k))]
  BY FingerprintsAre
<1> HIDE DEF Value, found, architecture
<1>13. DOMAIN seen = found /\ \A f \in found : seen[f] = Value(f) BY <1>1
<1>14. 0 \in 0 .. MaxRuns OBVIOUS
<1>15. \A f \in found : f \in Fingerprints /\ Value(f) \in Seen
  <2> SUFFICES ASSUME NEW f \in found PROVE f \in Fingerprints /\ Value(f) \in Seen OBVIOUS
  <2>1. CASE f = FailedFiles BY <2>1, <1>9, <1>14, FingerprintsAre DEF Seen
  <2>2. CASE f = Unresolved
    <3>1. Severity(indexed.imports) \in {"low", "medium"} BY DEF Severity
    <3> QED BY <2>2, <3>1, <1>10, <1>14, FingerprintsAre DEF Seen
  <2>3. CASE \E k \in failing : f = FailureOf(k)
    <3>1. PICK k \in failing : f = FailureOf(k) BY <2>3
    <3>2. Oldest(Showing(valRows, "failed", k)) \in 0 .. MaxRuns BY <1>4, <3>1
    <3> QED BY <3>1, <3>2, <1>11, FingerprintsAre DEF Seen
  <2>4. CASE \E k \in blocked : f = EnvironmentOf(k)
    <3>1. PICK k \in blocked : f = EnvironmentOf(k) BY <2>4
    <3>2. Oldest(Showing(valRows, "environment", k)) \in 0 .. MaxRuns BY <1>4, <3>1
    <3> QED BY <3>1, <3>2, <1>12, FingerprintsAre DEF Seen
  <2> QED BY <2>1, <2>2, <2>3, <2>4, <1>5, <1>7
<1>16. FailedFiles \in found <=> indexed.status # "none" /\ indexed.failed
  BY <1>5, <1>6, <1>7, <1>8, FingerprintsAre
<1>17. \A k \in Kinds : FailureOf(k) \in found <=> k \in failing
  BY <1>5, <1>7, <1>8, FingerprintsAre
<1>18. \A k \in Kinds : EnvironmentOf(k) \in found => k \in blocked
  BY <1>5, <1>7, FingerprintsAre
<1>19. ASSUME NEW k \in Kinds, FailureOf(k) \in found
       PROVE  seen[FailureOf(k)].run \in Showing(valRows, "failed", k)
  <2>1. seen[FailureOf(k)].run = Oldest(Showing(valRows, "failed", k)) BY <1>11, <1>13, <1>19
  <2>2. Showing(valRows, "failed", k) # {} BY <1>17, <1>19
  <2> QED BY <1>4, <2>1, <2>2
<1>20. ASSUME NEW k \in Kinds, EnvironmentOf(k) \in found
       PROVE  seen[EnvironmentOf(k)].run \in Showing(valRows, "environment", k)
  <2>1. seen[EnvironmentOf(k)].run = Oldest(Showing(valRows, "environment", k)) BY <1>12, <1>13, <1>20
  <2>2. Showing(valRows, "environment", k) # {} BY <1>18, <1>20
  <2> QED BY <1>4, <2>1, <2>2
<1> QED BY <1>13, <1>15, <1>16, <1>17, <1>19, <1>20

-----------------------------------------------------------------------------
(* The inductive invariant: what a finding of a kind of validation rests on is a  *)
(* run of a request of that kind, and what the latest snapshot shows is active.   *)
EvidenceIsTheirs ==
    \A f \in DOMAIN signals : f[1] = "testing" =>
       signals[f].run \in DOMAIN valRuns /\ valRuns[signals[f].run].request.kind = f[2]

SnapshotIsActive ==
    \A s \in snapshot.states : s[1] \in DOMAIN signals /\ signals[s[1]].status = "active"

EngRowsOK == valRuns \in Seq(ValidationRows) /\ Len(valRuns) <= MaxRuns /\ index \in IndexStates

EngInv ==
    /\ EngRowsOK /\ EngTypeOK
    /\ EvidenceIsTheirs /\ SnapshotIsActive
    /\ FindingsMatchEvidence /\ InsightsHaveFindings

(* What an evaluation makes of the signals. *)
SignalsFollow(next, seen, ended) ==
    /\ DOMAIN next = DOMAIN signals \cup DOMAIN seen
    /\ DOMAIN next \subseteq Fingerprints
    /\ \A f \in DOMAIN next : next[f] \in SignalRows
    /\ \A f \in DOMAIN seen : next[f].status = "active" /\ next[f].run = seen[f].run
    /\ \A f \in DOMAIN signals \ DOMAIN seen :
          /\ next[f].run = signals[f].run
          /\ f \in ended => next[f].status = "resolved"
          /\ f \notin ended => next[f].status = signals[f].status

SeenOK(seen) == DOMAIN seen \subseteq Fingerprints /\ \A f \in DOMAIN seen : seen[f] \in Seen

LEMMA SignalsAre ==
  ASSUME EngTypeOK, NEW seen, NEW ended, SeenOK(seen)
  PROVE  SignalsFollow(SavedSignals(seen, ended), seen, ended)
<1>0. PICK next : next = SavedSignals(seen, ended) OBVIOUS
<1>1. next = [f \in DOMAIN signals \cup DOMAIN seen |->
                 IF f \in DOMAIN seen THEN Upserted(seen[f])
                 ELSE IF f \in ended THEN [signals[f] EXCEPT !.status = "resolved"]
                 ELSE signals[f]]
  BY <1>0 DEF SavedSignals
<1>2. DOMAIN next = DOMAIN signals \cup DOMAIN seen BY <1>1
<1>3. \A f \in DOMAIN seen : next[f] = Upserted(seen[f]) BY <1>1
<1>4. \A f \in DOMAIN signals \ DOMAIN seen :
         next[f] = IF f \in ended THEN [signals[f] EXCEPT !.status = "resolved"] ELSE signals[f]
  BY <1>1
<1>5. DOMAIN signals \subseteq Fingerprints /\ \A f \in DOMAIN signals : signals[f] \in SignalRows
  BY DEF EngTypeOK
<1>6. ASSUME NEW f \in DOMAIN seen
      PROVE  /\ next[f] \in SignalRows
             /\ next[f].status = "active" /\ next[f].run = seen[f].run
  <2>1. next[f] = [status |-> "active", severity |-> seen[f].severity, run |-> seen[f].run]
    BY <1>3 DEF Upserted
  <2>2. seen[f].severity \in {"info", "low", "medium"} /\ seen[f].run \in 0 .. MaxRuns
    <3>1. seen[f] \in Seen BY DEF SeenOK
    <3> QED BY <3>1 DEF Seen
  <2> QED BY <2>1, <2>2 DEF SignalRows
<1>7. ASSUME NEW f \in DOMAIN signals \ DOMAIN seen
      PROVE  /\ next[f] \in SignalRows
             /\ next[f].run = signals[f].run
             /\ f \in ended => next[f].status = "resolved"
             /\ f \notin ended => next[f].status = signals[f].status
  <2>1. signals[f] \in SignalRows BY <1>5
  <2>2. next[f] = IF f \in ended THEN [signals[f] EXCEPT !.status = "resolved"] ELSE signals[f]
    BY <1>4
  <2>3. CASE f \in ended BY <2>1, <2>2, <2>3 DEF SignalRows
  <2>4. CASE f \notin ended BY <2>1, <2>2, <2>4
  <2> QED BY <2>3, <2>4
<1>8. ASSUME NEW f \in DOMAIN next PROVE next[f] \in SignalRows
  <2>1. CASE f \in DOMAIN seen BY <2>1, <1>6
  <2>2. CASE f \notin DOMAIN seen BY <2>2, <1>2, <1>7
  <2> QED BY <2>1, <2>2
<1>9. DOMAIN next \subseteq Fingerprints BY <1>2, <1>5 DEF SeenOK
<1>10. SignalsFollow(next, seen, ended) BY <1>2, <1>6, <1>7, <1>8, <1>9 DEF SignalsFollow
<1> QED BY <1>0, <1>10

(* The insights of an evaluation. *)
InsightsFollow(next, saved) ==
    /\ next \subseteq InsightRows
    /\ \A i \in next : i.related \subseteq DOMAIN saved
    /\ \A i \in next : i.status = "active" => \E f \in i.related : saved[f].status = "active"

LEMMA InsightsAre ==
  ASSUME EngTypeOK, NEW seen, SeenOK(seen), NEW saved, NEW ended,
         SignalsFollow(saved, seen, ended)
  PROVE  InsightsFollow(SavedInsights(saved, seen), saved)
<1>a. PICK next : next = SavedInsights(saved, seen) OBVIOUS
<1>b. /\ DOMAIN seen \subseteq Fingerprints
      /\ DOMAIN saved = DOMAIN signals \cup DOMAIN seen
      /\ \A f \in DOMAIN seen : saved[f].status = "active"
  BY DEF SeenOK, SignalsFollow
<1>c. ASSUME NEW f \in DOMAIN saved PROVE saved[f].status \in {"active", "resolved"}
  <2>1. saved[f] \in SignalRows BY DEF SignalsFollow
  <2> QED BY <2>1 DEF SignalRows
<1> DEFINE architecture == {f \in DOMAIN seen : f[1] = "architecture"}
           testing == {f \in DOMAIN seen : f[1] = "testing"}
           generated == Correlate(seen)
           Key(i) == [about |-> i.about, related |-> i.related]
           kept == {j \in insights : Key(j) \notin generated}
           Left(i) == IF Explained(i, saved, seen) THEN [i EXCEPT !.status = "resolved"] ELSE i
<1>1. generated = (IF architecture # {} /\ testing # {}
                   THEN {[about |-> "co-occurrence", related |-> architecture \cup testing]}
                   ELSE {})
                  \cup (IF Cardinality(testing) >= 2
                        THEN {[about |-> "several-failures", related |-> testing]} ELSE {})
  BY DEF Correlate
<1>2. Cardinality(testing) >= 2 => testing # {}
  <2> SUFFICES ASSUME testing = {} PROVE ~(Cardinality(testing) >= 2) OBVIOUS
  <2>1. Cardinality({}) = 0 BY FS_EmptySet
  <2>2. Cardinality(testing) = 0
    <3> HIDE DEF testing
    <3> QED BY <2>1
  <2> QED BY <2>2
<1>3. \A g \in generated : /\ g.about \in Correlations /\ g.related \subseteq DOMAIN seen
                           /\ g.related # {}
  <2>1. architecture \subseteq DOMAIN seen /\ testing \subseteq DOMAIN seen OBVIOUS
  <2> HIDE DEF architecture, testing, generated
  <2> QED BY <1>1, <1>2, <2>1 DEF Correlations
<1>4. next = {SavedInsight(g) : g \in generated} \cup {Left(i) : i \in kept} BY <1>a DEF SavedInsights
<1> HIDE DEF generated, architecture, testing
<1>5. ASSUME NEW g \in generated
      PROVE  /\ SavedInsight(g) \in InsightRows
             /\ SavedInsight(g).related \subseteq DOMAIN saved
             /\ \E f \in SavedInsight(g).related : saved[f].status = "active"
  <2>1. g.about \in Correlations /\ g.related \subseteq DOMAIN seen /\ g.related # {} BY <1>3
  <2>2. SavedInsight(g) = [about |-> g.about, related |-> g.related, status |-> "active"]
    BY DEF SavedInsight
  <2>3. g.related \in SUBSET Fingerprints BY <1>b, <2>1
  <2>4. SavedInsight(g).related = g.related BY <2>2
  <2>5. SavedInsight(g) \in InsightRows BY <2>1, <2>2, <2>3 DEF InsightRows
  <2>6. PICK f \in g.related : TRUE BY <2>1
  <2> QED BY <1>b, <2>1, <2>4, <2>5, <2>6
<1>6. ASSUME NEW i \in insights
      PROVE  /\ Left(i) \in InsightRows
             /\ Left(i).related \subseteq DOMAIN saved
             /\ Left(i).status = "active" => \E f \in Left(i).related : saved[f].status = "active"
  <2>1. i \in InsightRows /\ i.related \subseteq DOMAIN signals BY DEF EngTypeOK
  <2>2. CASE Explained(i, saved, seen)
    <3>1. Left(i) = [i EXCEPT !.status = "resolved"] BY <2>2
    <3>2. /\ Left(i) \in InsightRows /\ Left(i).related = i.related
          /\ Left(i).status = "resolved"
      BY <2>1, <3>1 DEF InsightRows
    <3> HIDE DEF Left
    <3> QED BY <1>b, <2>1, <3>2
  <2>3. CASE ~Explained(i, saved, seen)
    <3>1. Left(i) = i BY <2>3
    <3>2. PICK f \in i.related : saved[f].status # "resolved" /\ f \notin DOMAIN seen
      BY <2>3 DEF Explained
    <3>3. f \in DOMAIN saved /\ saved[f].status = "active" BY <1>b, <1>c, <2>1, <3>2
    <3> HIDE DEF Left
    <3> QED BY <1>b, <2>1, <3>1, <3>2, <3>3
  <2> QED BY <2>2, <2>3
<1> HIDE DEF Left
<1>7. \A i \in next : \/ \E g \in generated : i = SavedInsight(g)
                      \/ \E j \in insights : i = Left(j)
  BY <1>4
<1> HIDE DEF kept
<1>8. ASSUME NEW i \in next
      PROVE  /\ i \in InsightRows /\ i.related \subseteq DOMAIN saved
             /\ i.status = "active" => \E f \in i.related : saved[f].status = "active"
  BY <1>5, <1>6, <1>7
<1>9. InsightsFollow(next, saved) BY <1>8 DEF InsightsFollow
<1> QED BY <1>a, <1>9

(* What an evaluation ends: with a current run of the request a finding of a       *)
(* validation rests on, and architecture findings with a completed index.         *)
EndedBy(f, valRows, seen) ==
    /\ signals[f].run \in Recent(valRows)
    /\ \E n \in Latest(valRows) :
       /\ valRows[n].request = valRows[signals[f].run].request
       /\ Concrete(valRows[n])
       /\ ~(n = signals[f].run /\ f \in DOMAIN seen)
       /\ valRows[n].validity = "current"

EndsAre(ended, valRows, indexed, seen) ==
    \A f \in DOMAIN signals :
       f \in ended <=>
          \/ signals[f].status = "active" /\ f[1] # "architecture" /\ EndedBy(f, valRows, seen)
          \/ f[1] = "architecture" /\ indexed.status = "completed"

LEMMA EndedAre ==
  ASSUME NEW valRows, NEW indexed \in IndexStates, NEW seen
  PROVE  EndsAre(ResolvedByRuns(valRows, seen) \cup ResolvedByIndex(Assessment(valRows, indexed)),
                 valRows, indexed, seen)
<1>1. Assessment(valRows, indexed).architecture = "assessed" <=> indexed.status = "completed"
  BY DEF Assessment, IndexStates
<1>2. \A f \in DOMAIN signals :
         f \in ResolvedByIndex(Assessment(valRows, indexed)) <=>
            f[1] = "architecture" /\ indexed.status = "completed"
  BY <1>1 DEF ResolvedByIndex
<1>3. \A f \in DOMAIN signals :
         f \in ResolvedByRuns(valRows, seen) <=>
            signals[f].status = "active" /\ f[1] # "architecture" /\ EndedBy(f, valRows, seen)
  BY DEF ResolvedByRuns, EndedBy
<1> QED BY <1>2, <1>3 DEF EndsAre

(* The state an evaluation of these rows leaves. *)
Evaluated(valRows, indexed, seen, ended) ==
    /\ seen = Observed(valRows, indexed)
    /\ ended = ResolvedByRuns(valRows, seen) \cup ResolvedByIndex(Assessment(valRows, indexed))
    /\ signals' = SavedSignals(seen, ended)
    /\ insights' = SavedInsights(signals', seen)
    /\ snapshot' = Snapshot(valRows, indexed, seen, Assessment(valRows, indexed))

LEMMA EvaluationIs ==
  ASSUME NEW valRows, NEW indexed, Evaluate(valRows, indexed)
  PROVE  \E seen, ended : Evaluated(valRows, indexed, seen, ended)
<1>1. PICK seen : seen = Observed(valRows, indexed) OBVIOUS
<1>2. PICK ended : ended = ResolvedByRuns(valRows, seen) \cup ResolvedByIndex(Assessment(valRows, indexed))
  OBVIOUS
<1>3. /\ signals' = SavedSignals(seen, ended)
      /\ insights' = SavedInsights(SavedSignals(seen, ended), seen)
      /\ StoreSnapshot(Snapshot(valRows, indexed, seen, Assessment(valRows, indexed)))
  BY <1>1, <1>2 DEF Evaluate
<1>4. snapshot' = Snapshot(valRows, indexed, seen, Assessment(valRows, indexed)) BY <1>3 DEF StoreSnapshot
<1>5. Evaluated(valRows, indexed, seen, ended) BY <1>1, <1>2, <1>3, <1>4 DEF Evaluated
<1> QED BY <1>5

(* An evaluation follows the rows it reads: they are those of before, with the     *)
(* validation that has just ended.                                                *)
Reads(valRows, indexed) ==
    /\ valRows \in Seq(ValidationRows) /\ Len(valRows) <= MaxRuns /\ indexed \in IndexStates
    /\ Len(valRuns) <= Len(valRows)
    /\ \A n \in 1 .. Len(valRuns) : valRows[n].request = valRuns[n].request

LEMMA EvaluationKeeps ==
  ASSUME EngInv, MaxRuns \in Nat, ObservationsKept \in Nat, NEW valRows, NEW indexed, NEW seen, NEW ended,
         Reads(valRows, indexed), Evaluated(valRows, indexed, seen, ended),
         valRuns' = valRows, index' = indexed
  PROVE  EngInv'
<1>1. /\ valRows \in Seq(ValidationRows) /\ Len(valRows) <= MaxRuns /\ indexed \in IndexStates
      /\ Len(valRuns) <= Len(valRows)
      /\ \A n \in 1 .. Len(valRuns) : valRows[n].request = valRuns[n].request
  BY DEF Reads
<1>2. /\ DOMAIN seen \subseteq Fingerprints
      /\ \A f \in DOMAIN seen : seen[f] \in Seen
      /\ FailedFiles \in DOMAIN seen <=> indexed.status # "none" /\ indexed.failed
      /\ \A k \in Kinds : FailureOf(k) \in DOMAIN seen <=> Showing(valRows, "failed", k) # {}
      /\ \A k \in Kinds : FailureOf(k) \in DOMAIN seen =>
            seen[FailureOf(k)].run \in Showing(valRows, "failed", k)
  <2>1. seen = Observed(valRows, indexed) BY DEF Evaluated
  <2> QED BY <2>1, <1>1, ObservedAre
<1>b. SeenOK(seen) BY <1>2 DEF SeenOK
<1>3. EngTypeOK /\ EngRowsOK BY DEF EngInv
<1>4. PICK saved : saved = SavedSignals(seen, ended) OBVIOUS
<1>5. signals' = saved BY <1>4 DEF Evaluated
<1>c. SignalsFollow(saved, seen, ended) BY <1>b, <1>3, <1>4, SignalsAre
<1>6. /\ DOMAIN saved = DOMAIN signals \cup DOMAIN seen
      /\ DOMAIN saved \subseteq Fingerprints
      /\ \A f \in DOMAIN saved : saved[f] \in SignalRows
      /\ \A f \in DOMAIN seen : saved[f].status = "active" /\ saved[f].run = seen[f].run
      /\ \A f \in DOMAIN signals \ DOMAIN seen :
            /\ saved[f].run = signals[f].run
            /\ f \in ended => saved[f].status = "resolved"
            /\ f \notin ended => saved[f].status = signals[f].status
  BY <1>c DEF SignalsFollow
<1>7. \A f \in DOMAIN signals :
         f \in ended <=>
            \/ signals[f].status = "active" /\ f[1] # "architecture" /\ EndedBy(f, valRows, seen)
            \/ f[1] = "architecture" /\ indexed.status = "completed"
  <2>1. ended = ResolvedByRuns(valRows, seen) \cup ResolvedByIndex(Assessment(valRows, indexed))
    BY DEF Evaluated
  <2>2. EndsAre(ended, valRows, indexed, seen) BY <2>1, <1>1, EndedAre
  <2> QED BY <2>2 DEF EndsAre
<1>8. /\ insights' \subseteq InsightRows
      /\ \A i \in insights' : i.related \subseteq DOMAIN saved
      /\ \A i \in insights' : i.status = "active" => \E f \in i.related : saved[f].status = "active"
  <2>1. insights' = SavedInsights(saved, seen) BY <1>5 DEF Evaluated
  <2>2. InsightsFollow(insights', saved) BY <1>b, <1>c, <1>3, <2>1, InsightsAre
  <2> QED BY <2>2 DEF InsightsFollow
<1>9. \A s \in snapshot'.states : s[1] \in DOMAIN seen
  <2>1. snapshot' = Snapshot(valRows, indexed, seen, Assessment(valRows, indexed)) BY DEF Evaluated
  <2>2. snapshot'.states = {<<f, seen[f].severity>> : f \in DOMAIN seen} BY <2>1 DEF Snapshot
  <2> QED BY <2>2
<1>10. EngRowsOK' BY <1>1 DEF EngRowsOK
<1>11. EngTypeOK'
  BY <1>2, <1>5, <1>6, <1>8, <1>9 DEF EngTypeOK
<1>12. SnapshotIsActive' BY <1>5, <1>6, <1>9 DEF SnapshotIsActive
<1>13. InsightsHaveFindings' BY <1>5, <1>8 DEF InsightsHaveFindings
<1>14. EvidenceIsTheirs'
  <2> SUFFICES ASSUME NEW f \in DOMAIN saved, f[1] = "testing"
               PROVE  saved[f].run \in DOMAIN valRows /\ valRows[saved[f].run].request.kind = f[2]
    BY <1>5 DEF EvidenceIsTheirs
  <2>1. CASE f \in DOMAIN seen
    <3>1. f[2] \in Kinds /\ f = FailureOf(f[2]) BY <1>6, FingerprintsAre
    <3>2. seen[f].run \in Showing(valRows, "failed", f[2]) BY <1>2, <2>1, <3>1
    <3>3. seen[f].run \in 1 .. Len(valRows) BY <1>1, <3>2, LatestAre
    <3>4. valRows[seen[f].run].request.kind = f[2] BY <3>2, ShowingIs
    <3> QED BY <1>1, <1>6, <2>1, <3>3, <3>4
  <2>2. CASE f \notin DOMAIN seen
    <3>1. f \in DOMAIN signals \ DOMAIN seen BY <1>6, <2>2
    <3>2. signals[f].run \in DOMAIN valRuns /\ valRuns[signals[f].run].request.kind = f[2]
      BY <3>1 DEF EngInv, EvidenceIsTheirs
    <3>3. valRuns \in Seq(ValidationRows) BY <1>3 DEF EngRowsOK
    <3>4. signals[f].run \in 1 .. Len(valRuns) /\ signals[f].run \in 1 .. Len(valRows)
      BY <1>1, <3>2, <3>3
    <3>5. valRows[signals[f].run].request.kind = f[2] BY <1>1, <3>2, <3>4
    <3>6. saved[f].run = signals[f].run BY <1>6, <3>1
    <3> QED BY <1>1, <3>4, <3>5, <3>6
  <2> QED BY <2>1, <2>2
<1>15. FindingsMatchEvidence'
  <2>1. ASSUME ~TooManyFail(valRows), NEW n \in Fresh(valRows, WithStatus(valRows, "failed"))
        PROVE  saved[FailureOf(valRows[n].request.kind)].status = "active"
    <3>1. n \in Showing(valRows, "failed", valRows[n].request.kind) BY <1>1, <2>1, FewAreShown
    <3>2. valRows[n] \in ValidationRows
      <4>1. n \in Latest(valRows) BY <3>1, ShowingIs
      <4> QED BY <1>1, <4>1, LatestAre
    <3>3. valRows[n].request.kind \in Kinds BY <3>2 DEF ValidationRows, Kinds
    <3> QED BY <1>2, <1>6, <3>1, <3>3
  <2>2. ASSUME NEW f \in DOMAIN saved, f[1] = "testing", saved[f].status = "active",
               saved[f].run \in Recent(valRows),
               NEW n \in Latest(valRows), valRows[n].request = valRows[saved[f].run].request,
               valRows[n].status = "passed", valRows[n].validity = "current"
        PROVE  FALSE
    <3>1. CASE f \in DOMAIN seen
      <4>1. f[2] \in Kinds /\ f = FailureOf(f[2]) BY <1>6, <2>2, FingerprintsAre
      <4>2. saved[f].run \in Showing(valRows, "failed", f[2]) BY <1>2, <1>6, <3>1, <4>1
      <4>3. saved[f].run \in Latest(valRows) /\ valRows[saved[f].run].status = "failed"
        BY <4>2, ShowingIs
      <4>4. n = saved[f].run BY <1>1, <2>2, <4>3, LatestAre
      <4> QED BY <2>2, <4>3, <4>4
    <3>2. CASE f \notin DOMAIN seen
      <4>1. f \in DOMAIN signals \ DOMAIN seen BY <1>6, <3>2
      <4>2. f \notin ended /\ signals[f].status = "active" /\ saved[f].run = signals[f].run
        BY <1>6, <2>2, <4>1
      <4>3. EndedBy(f, valRows, seen)
        BY <2>2, <3>2, <4>2 DEF EndedBy, Concrete
      <4> QED BY <1>7, <2>2, <4>1, <4>2, <4>3
    <3> QED BY <3>1, <3>2
  <2>3. ASSUME indexed.status = "completed"
        PROVE  indexed.failed <=> FailedFiles \in DOMAIN saved /\ saved[FailedFiles].status = "active"
    <3>1. CASE FailedFiles \in DOMAIN seen BY <1>2, <1>6, <2>3, <3>1
    <3>2. CASE FailedFiles \notin DOMAIN seen
      <4>1. ~indexed.failed BY <1>2, <2>3, <3>2
      <4>2. ASSUME FailedFiles \in DOMAIN saved PROVE saved[FailedFiles].status = "resolved"
        <5>1. FailedFiles \in DOMAIN signals \ DOMAIN seen BY <1>6, <3>2, <4>2
        <5>2. FailedFiles \in ended BY <1>7, <2>3, <5>1, FingerprintsAre
        <5> QED BY <1>6, <5>1, <5>2
      <4> QED BY <4>1, <4>2
    <3> QED BY <3>1, <3>2
  <2> QED BY <1>5, <2>1, <2>2, <2>3 DEF FindingsMatchEvidence
<1> QED BY <1>10, <1>11, <1>12, <1>13, <1>14, <1>15 DEF EngInv

(* An evaluation ends a finding only by a run that passed, and its trends tell what *)
(* it changed.                                                                    *)
LEMMA EvaluationTells ==
  ASSUME EngInv, MaxRuns \in Nat, ObservationsKept \in Nat, NEW valRows, NEW indexed, NEW seen, NEW ended,
         Reads(valRows, indexed), Evaluated(valRows, indexed, seen, ended),
         valRuns' = valRows, index' = indexed
  PROVE  FindingsEndByEvidence /\ TrendsTellChanges
<1>1. /\ valRows \in Seq(ValidationRows) /\ Len(valRows) <= MaxRuns /\ indexed \in IndexStates
      /\ Len(valRuns) <= Len(valRows)
      /\ \A n \in 1 .. Len(valRuns) : valRows[n].request = valRuns[n].request
  BY DEF Reads
<1>2. /\ DOMAIN seen \subseteq Fingerprints
      /\ \A f \in DOMAIN seen : seen[f] \in Seen
      /\ \A k \in Kinds : FailureOf(k) \in DOMAIN seen <=> Showing(valRows, "failed", k) # {}
  <2>1. seen = Observed(valRows, indexed) BY DEF Evaluated
  <2> QED BY <2>1, <1>1, ObservedAre
<1>3. EngTypeOK /\ EngRowsOK BY DEF EngInv
<1>4. PICK saved : saved = SavedSignals(seen, ended) OBVIOUS
<1>5. signals' = saved BY <1>4 DEF Evaluated
<1>6. /\ DOMAIN saved = DOMAIN signals \cup DOMAIN seen
      /\ DOMAIN saved \subseteq Fingerprints
      /\ \A f \in DOMAIN seen : saved[f].status = "active"
      /\ \A f \in DOMAIN signals \ DOMAIN seen :
            /\ saved[f].run = signals[f].run
            /\ f \in ended => saved[f].status = "resolved"
            /\ f \notin ended => saved[f].status = signals[f].status
  <2>1. SeenOK(seen) BY <1>2 DEF SeenOK
  <2>2. SignalsFollow(saved, seen, ended) BY <2>1, <1>3, <1>4, SignalsAre
  <2> QED BY <2>2 DEF SignalsFollow
<1>7. \A f \in DOMAIN signals :
         f \in ended <=>
            \/ signals[f].status = "active" /\ f[1] # "architecture" /\ EndedBy(f, valRows, seen)
            \/ f[1] = "architecture" /\ indexed.status = "completed"
  <2>1. ended = ResolvedByRuns(valRows, seen) \cup ResolvedByIndex(Assessment(valRows, indexed))
    BY DEF Evaluated
  <2>2. EndsAre(ended, valRows, indexed, seen) BY <2>1, <1>1, EndedAre
  <2> QED BY <2>2 DEF EndsAre
<1>8. /\ \A s \in snapshot'.states : s[1] \in DOMAIN seen
      /\ \A f \in DOMAIN seen : \E s \in snapshot'.states : s[1] = f
  <2>1. snapshot' = Snapshot(valRows, indexed, seen, Assessment(valRows, indexed)) BY DEF Evaluated
  <2>2. snapshot'.states = {<<f, seen[f].severity>> : f \in DOMAIN seen} BY <2>1 DEF Snapshot
  <2>3. \A f \in DOMAIN seen : <<f, seen[f].severity>> \in snapshot'.states BY <2>2
  <2>4. \A f : <<f, seen[f].severity>>[1] = f OBVIOUS
  <2>5. \A f \in DOMAIN seen : \E s \in snapshot'.states : s[1] = f BY <2>3, <2>4
  <2>6. \A s \in snapshot'.states : s[1] \in DOMAIN seen BY <2>2
  <2> QED BY <2>5, <2>6
<1>9. FindingsEndByEvidence
  <2> SUFFICES ASSUME NEW f \in DOMAIN signals, f[1] = "testing",
                      signals[f].status = "active", saved[f].status = "resolved"
               PROVE  \E n \in Latest(valRows) : /\ valRows[n].request.kind = f[2]
                                                 /\ valRows[n].status = "passed" \/ TooManyFail(valRows)
                                                 /\ valRows[n].validity = "current"
    BY <1>5 DEF FindingsEndByEvidence
  <2>1. f \notin DOMAIN seen BY <1>6
  <2>2. f \in ended BY <1>6, <2>1
  <2>3. PICK n \in Latest(valRows) : /\ valRows[n].request = valRows[signals[f].run].request
                                     /\ Concrete(valRows[n]) /\ valRows[n].validity = "current"
    BY <1>7, <2>2 DEF EndedBy
  <2>4. signals[f].run \in DOMAIN valRuns /\ valRuns[signals[f].run].request.kind = f[2]
    BY DEF EngInv, EvidenceIsTheirs
  <2>5. signals[f].run \in 1 .. Len(valRuns)
    <3>1. valRuns \in Seq(ValidationRows) BY <1>3 DEF EngRowsOK
    <3> QED BY <2>4, <3>1
  <2>6. valRows[n].request.kind = f[2] BY <1>1, <2>3, <2>4, <2>5
  <2>7. ~TooManyFail(valRows) => valRows[n].status # "failed"
    <3> SUFFICES ASSUME ~TooManyFail(valRows), valRows[n].status = "failed" PROVE FALSE OBVIOUS
    <3>1. n \in Showing(valRows, "failed", f[2])
      <4>1. n \in Fresh(valRows, WithStatus(valRows, "failed")) BY <2>3 DEF Fresh, WithStatus
      <4> QED BY <1>1, <2>6, <4>1, FewAreShown
    <3>2. f[2] \in Kinds /\ f = FailureOf(f[2]) BY <1>6, FingerprintsAre
    <3> QED BY <1>2, <2>1, <3>1, <3>2
  <2>8. valRows[n].status = "passed" \/ TooManyFail(valRows) BY <2>3, <2>7 DEF Concrete
  <2> QED BY <2>3, <2>6, <2>8
<1>10. TrendsTellChanges
  <2> DEFINE Active(table, f) == f \in DOMAIN table /\ table[f].status = "active"
             trends == Compare(snapshot, snapshot')
             was == {s[1] : s \in snapshot.states}
             is == {s[1] : s \in snapshot'.states}
             moved == {p \in snapshot.states \X snapshot'.states :
                          p[1][1] = p[2][1] /\ p[1][2] # p[2][2]}
             how(p) == IF SeverityRank(p[2][2]) < SeverityRank(p[1][2])
                       THEN "improved" ELSE "worsened"
  <2> SUFFICES ASSUME snapshot # NoSnapshot, NEW f \in DOMAIN saved
               PROVE  /\ ~Active(signals, f) /\ Active(saved, f) => <<f, "new">> \in trends
                      /\ (\E s \in snapshot.states : s[1] = f) /\ ~Active(saved, f)
                            => <<f, "resolved">> \in trends
                      /\ <<f, "resolved">> \in trends /\ Active(saved, f) =>
                            \/ f[1] = "architecture" /\ indexed.status # "completed"
                            \/ f[1] # "architecture" /\ saved[f].run \notin Recent(valRows)
                            \/ /\ f[1] # "architecture"
                               /\ \A n \in Latest(valRows) :
                                     valRows[n].request = valRows[saved[f].run].request
                                     => ~Concrete(valRows[n]) \/ valRows[n].validity # "current"
    BY <1>5 DEF TrendsTellChanges
  <2>1. trends = {<<g, "new">> : g \in is \ was} \cup {<<g, "resolved">> : g \in was \ is}
                    \cup {<<p[1][1], how(p)>> : p \in moved}
    BY DEF Compare
  <2>2. \A g : g \in is <=> g \in DOMAIN seen BY <1>8
  <2>3. ASSUME NEW g \in was PROVE g \in DOMAIN signals /\ signals[g].status = "active"
    BY DEF EngInv, SnapshotIsActive
  <2>4. \A p : how(p) # "resolved" OBVIOUS
  <2>5. \A g : g \in is \ was => <<g, "new">> \in trends BY <2>1
  <2>6. \A g : g \in was \ is => <<g, "resolved">> \in trends BY <2>1
  <2> HIDE DEF how
  <2>7. ASSUME <<f, "resolved">> \in trends PROVE f \in was \ is
    <3>1. \/ \E g \in is \ was : <<f, "resolved">> = <<g, "new">>
          \/ \E g \in was \ is : <<f, "resolved">> = <<g, "resolved">>
          \/ \E p \in moved : <<f, "resolved">> = <<p[1][1], how(p)>>
      BY <2>1, <2>7
    <3> QED BY <3>1, <2>4
  <2>8. (\E s \in snapshot.states : s[1] = f) => f \in was OBVIOUS
  <2> HIDE DEF trends, was, is
  <2>9. ~Active(signals, f) /\ Active(saved, f) => <<f, "new">> \in trends
    <3> SUFFICES ASSUME ~Active(signals, f), Active(saved, f) PROVE f \in is \ was BY <2>5
    <3>1. f \in DOMAIN seen
      <4> SUFFICES ASSUME f \notin DOMAIN seen PROVE FALSE OBVIOUS
      <4>1. f \in DOMAIN signals \ DOMAIN seen BY <1>6
      <4> QED BY <1>6, <4>1
    <3> QED BY <2>2, <2>3, <3>1
  <2>10. (\E s \in snapshot.states : s[1] = f) /\ ~Active(saved, f) => <<f, "resolved">> \in trends
    <3> SUFFICES ASSUME f \in was, ~Active(saved, f) PROVE f \in was \ is BY <2>6, <2>8
    <3>1. f \notin DOMAIN seen BY <1>6
    <3> QED BY <2>2, <3>1
  <2>11. ASSUME <<f, "resolved">> \in trends, Active(saved, f)
         PROVE  \/ f[1] = "architecture" /\ indexed.status # "completed"
                \/ f[1] # "architecture" /\ saved[f].run \notin Recent(valRows)
                \/ /\ f[1] # "architecture"
                   /\ \A n \in Latest(valRows) :
                         valRows[n].request = valRows[saved[f].run].request
                         => ~Concrete(valRows[n]) \/ valRows[n].validity # "current"
    <3>1. f \in DOMAIN signals /\ signals[f].status = "active" /\ f \notin DOMAIN seen
      BY <2>2, <2>3, <2>7, <2>11
    <3>2. f \notin ended /\ saved[f].run = signals[f].run BY <1>6, <2>11, <3>1
    <3>3. f[1] = "architecture" => indexed.status # "completed" BY <1>7, <3>1, <3>2
    <3>4. ASSUME f[1] # "architecture", saved[f].run \in Recent(valRows), NEW n \in Latest(valRows),
                 valRows[n].request = valRows[saved[f].run].request, Concrete(valRows[n]),
                 valRows[n].validity = "current"
          PROVE  FALSE
      <4>1. EndedBy(f, valRows, seen) BY <3>1, <3>2, <3>4 DEF EndedBy
      <4> QED BY <1>7, <3>1, <3>2, <3>4, <4>1
    <3> QED BY <3>3, <3>4
  <2> HIDE DEF Active
  <2> QED BY <2>9, <2>10, <2>11
<1> QED BY <1>9, <1>10

(* The other steps leave the findings alone; a change takes what is current away,  *)
(* and so shows less and ends nothing.                                            *)
LEMMA EngInitInv ==
  ASSUME EngInit, MaxRuns \in Nat
  PROVE  EngInv
<1>1. valRuns \in Seq(ValidationRows) /\ Len(valRuns) = 0 /\ DOMAIN valRuns = {} BY DEF EngInit
<1>2. index \in IndexStates /\ index.status = "none" BY DEF EngInit, NoIndex, IndexStates
<1>3. DOMAIN signals = {} /\ insights = {} BY DEF EngInit
<1>4. snapshot.states = {} BY DEF EngInit, NoSnapshot
<1>5. Fresh(valRuns, WithStatus(valRuns, "failed")) = {} BY <1>1 DEF Fresh, WithStatus, Latest, Recent
<1>6. EngRowsOK BY <1>1, <1>2 DEF EngRowsOK
<1>7. EngTypeOK BY <1>3, <1>4 DEF EngTypeOK
<1>8. EvidenceIsTheirs /\ SnapshotIsActive BY <1>3, <1>4 DEF EvidenceIsTheirs, SnapshotIsActive
<1>9. InsightsHaveFindings BY <1>3 DEF InsightsHaveFindings
<1>10. FindingsMatchEvidence BY <1>2, <1>3, <1>5 DEF FindingsMatchEvidence
<1> QED BY <1>6, <1>7, <1>8, <1>9, <1>10 DEF EngInv

LEMMA FindingsStay ==
  ASSUME UNCHANGED <<signals, insights, snapshot>>
  PROVE  FindingsEndByEvidence /\ TrendsTellChanges
<1>1. FindingsEndByEvidence
  <2>1. \A f \in DOMAIN signals : signals'[f].status = signals[f].status OBVIOUS
  <2> QED BY <2>1 DEF FindingsEndByEvidence
<1>2. TrendsTellChanges BY DEF TrendsTellChanges
<1> QED BY <1>1, <1>2

LEMMA ChangedKeeps ==
  ASSUME EngInv, Changed
  PROVE  EngInv'
<1>1. /\ valRuns \in Seq(ValidationRows) /\ Len(valRuns) <= MaxRuns /\ index \in IndexStates
      /\ EngTypeOK
  BY DEF EngInv, EngRowsOK
<1>2. /\ valRuns' = [n \in DOMAIN valRuns |->
                IF valRuns[n].validity = "current" THEN [valRuns[n] EXCEPT !.validity = "stale"]
                ELSE valRuns[n]]
      /\ UNCHANGED <<index, signals, insights, snapshot>>
  BY DEF Changed
<1>3. DOMAIN valRuns = 1 .. Len(valRuns) /\ Len(valRuns) \in Nat BY <1>1
<1>4. ASSUME NEW n \in DOMAIN valRuns
      PROVE  /\ valRuns'[n] \in ValidationRows
             /\ valRuns'[n].request = valRuns[n].request
             /\ valRuns'[n].status = valRuns[n].status
             /\ valRuns'[n].validity # "current"
             /\ valRuns[n].validity = "stale" => valRuns'[n].validity = "stale"
  <2>1. valRuns[n] \in ValidationRows BY <1>1
  <2>2. CASE valRuns[n].validity = "current"
    <3>1. valRuns'[n] = [valRuns[n] EXCEPT !.validity = "stale"] BY <1>2, <2>2
    <3> QED BY <2>1, <2>2, <3>1 DEF ValidationRows
  <2>3. CASE valRuns[n].validity # "current"
    <3>1. valRuns'[n] = valRuns[n] BY <1>2, <2>3
    <3> QED BY <2>1, <2>3, <3>1
  <2> QED BY <2>2, <2>3
<1>5. DOMAIN valRuns' = 1 .. Len(valRuns) BY <1>2, <1>3
<1>6. valRuns' \in Seq(ValidationRows) /\ Len(valRuns') = Len(valRuns) BY <1>2, <1>3, <1>4, <1>5
<1>7. Latest(valRuns') = Latest(valRuns)
  <2>1. \A n \in DOMAIN valRuns : \A m \in n + 1 .. Len(valRuns) : m \in DOMAIN valRuns
    BY <1>3
  <2>2. DOMAIN valRuns' = DOMAIN valRuns BY <1>3, <1>5
  <2>3. Recent(valRuns') = Recent(valRuns) /\ Recent(valRuns) \subseteq DOMAIN valRuns
    BY <1>6, <2>2 DEF Recent
  <2> QED BY <1>4, <1>6, <2>1, <2>2, <2>3 DEF Latest
<1>8. /\ WithStatus(valRuns', "failed") = WithStatus(valRuns, "failed")
      /\ Fresh(valRuns', WithStatus(valRuns', "failed")) \subseteq Fresh(valRuns, WithStatus(valRuns, "failed"))
  <2>1. Latest(valRuns) \subseteq DOMAIN valRuns BY DEF Latest, Recent
  <2>2. WithStatus(valRuns', "failed") = WithStatus(valRuns, "failed")
    BY <1>4, <1>7, <2>1 DEF WithStatus
  <2> QED BY <1>4, <2>1, <2>2 DEF Fresh, WithStatus
<1>9. \A n \in Latest(valRuns') : valRuns'[n].validity # "current"
  BY <1>4, <1>7 DEF Latest, Recent
<1>10. EngRowsOK' BY <1>1, <1>2, <1>6 DEF EngRowsOK
<1>11. EngTypeOK' BY <1>1, <1>2 DEF EngTypeOK
<1>12. EvidenceIsTheirs'
  <2> SUFFICES ASSUME NEW f \in DOMAIN signals, f[1] = "testing"
               PROVE  signals[f].run \in DOMAIN valRuns' /\ valRuns'[signals[f].run].request.kind = f[2]
    BY <1>2 DEF EvidenceIsTheirs
  <2>1. signals[f].run \in DOMAIN valRuns /\ valRuns[signals[f].run].request.kind = f[2]
    BY DEF EngInv, EvidenceIsTheirs
  <2> QED BY <1>3, <1>4, <1>5, <2>1
<1>13. SnapshotIsActive' BY <1>2 DEF EngInv, SnapshotIsActive
<1>14. InsightsHaveFindings' BY <1>2 DEF EngInv, InsightsHaveFindings
<1>15. FindingsMatchEvidence'
  <2>1. ASSUME ~TooManyFail(valRuns'), NEW n \in Fresh(valRuns', WithStatus(valRuns', "failed"))
        PROVE  signals'[FailureOf(valRuns'[n].request.kind)].status = "active"
    <3>1. ~TooManyFail(valRuns) /\ n \in Fresh(valRuns, WithStatus(valRuns, "failed"))
      BY <1>8, <2>1 DEF TooManyFail
    <3>2. n \in DOMAIN valRuns BY <3>1 DEF Fresh, WithStatus, Latest, Recent
    <3> QED BY <1>2, <1>4, <3>1, <3>2 DEF EngInv, FindingsMatchEvidence
  <2> QED BY <1>2, <1>9, <2>1 DEF EngInv, FindingsMatchEvidence
<1> QED BY <1>10, <1>11, <1>12, <1>13, <1>14, <1>15 DEF EngInv

IndexRowsOK == IndexRows \subseteq [failed : BOOLEAN, imports : {"none", "few", "many"}]

LEMMA IndexStartedKeeps ==
  ASSUME EngInv, IndexRowsOK, NEW valRows \in IndexRows, IndexStarted(valRows)
  PROVE  EngInv'
<1>1. /\ index' = [status |-> "running", failed |-> valRows.failed, imports |-> valRows.imports,
                   runs |-> index.runs + 1]
      /\ UNCHANGED <<valRuns, signals, insights, snapshot>>
  BY DEF IndexStarted
<1>2. EngRowsOK /\ EngTypeOK BY DEF EngInv
<1>3. index.runs \in Nat BY <1>2 DEF EngRowsOK, IndexStates
<1>4. valRows.failed \in BOOLEAN /\ valRows.imports \in {"none", "few", "many"} BY DEF IndexRowsOK
<1>5. index' \in IndexStates /\ index'.status = "running" BY <1>1, <1>3, <1>4 DEF IndexStates
<1>6. EngRowsOK' BY <1>1, <1>2, <1>5 DEF EngRowsOK
<1>7. EngTypeOK' BY <1>1, <1>2 DEF EngTypeOK
<1>8. EvidenceIsTheirs' /\ SnapshotIsActive'
  BY <1>1 DEF EngInv, EvidenceIsTheirs, SnapshotIsActive
<1>9. InsightsHaveFindings' BY <1>1 DEF EngInv, InsightsHaveFindings
<1>10. FindingsMatchEvidence' BY <1>1, <1>5 DEF EngInv, FindingsMatchEvidence
<1> QED BY <1>6, <1>7, <1>8, <1>9, <1>10 DEF EngInv

LEMMA EngUnchangedKeeps ==
  ASSUME EngInv, UNCHANGED engVars
  PROVE  EngInv'
BY DEF EngInv, engVars, EngRowsOK, EngTypeOK, EvidenceIsTheirs, SnapshotIsActive,
       FindingsMatchEvidence, InsightsHaveFindings

LEMMA EvaluateStep ==
  ASSUME EngInv, MaxRuns \in Nat, ObservationsKept \in Nat, NEW valRows, NEW indexed,
         Reads(valRows, indexed), Evaluate(valRows, indexed),
         valRuns' = valRows, index' = indexed
  PROVE  EngInv' /\ FindingsEndByEvidence /\ TrendsTellChanges
<1>1. PICK seen, ended : Evaluated(valRows, indexed, seen, ended) BY EvaluationIs
<1>2. EngInv' BY <1>1, EvaluationKeeps
<1>3. FindingsEndByEvidence /\ TrendsTellChanges BY <1>1, EvaluationTells
<1> QED BY <1>2, <1>3

LEMMA EngStepKeeps ==
  ASSUME EngInv, MaxRuns \in Nat, ObservationsKept \in Nat, IndexRowsOK, EngNext
  PROVE  EngInv' /\ FindingsEndByEvidence /\ TrendsTellChanges
<1>1. /\ valRuns \in Seq(ValidationRows) /\ Len(valRuns) <= MaxRuns /\ index \in IndexStates
  BY DEF EngInv, EngRowsOK
<1>2. ASSUME NEW r \in Requests, NEW s \in {"passed", "failed", "environment"},
             NEW v \in {"current", "unknown"}, ValidationEnded(r, s, v)
      PROVE  EngInv' /\ FindingsEndByEvidence /\ TrendsTellChanges
  <2>1. PICK valRows : valRows = Append(valRuns, [request |-> r, status |-> s, validity |-> v])
    OBVIOUS
  <2>2. PICK indexed : indexed = index OBVIOUS
  <2>3. /\ Len(valRuns) < MaxRuns /\ valRuns' = valRows /\ index' = indexed /\ Evaluate(valRows, indexed)
    BY <1>2, <2>1, <2>2 DEF ValidationEnded
  <2>4. [request |-> r, status |-> s, validity |-> v] \in ValidationRows BY DEF ValidationRows
  <2>5. /\ valRows \in Seq(ValidationRows) /\ Len(valRows) = Len(valRuns) + 1
        /\ \A n \in 1 .. Len(valRuns) : valRows[n] = valRuns[n]
    BY <1>1, <2>1, <2>4
  <2>6. Reads(valRows, indexed) BY <1>1, <2>2, <2>3, <2>5 DEF Reads
  <2> QED BY <2>3, <2>6, EvaluateStep
<1>3. ASSUME NEW valRows \in IndexRows, IndexStarted(valRows)
      PROVE  EngInv' /\ FindingsEndByEvidence /\ TrendsTellChanges
  <2>1. UNCHANGED <<signals, insights, snapshot>> BY <1>3 DEF IndexStarted
  <2> QED BY <1>3, <2>1, IndexStartedKeeps, FindingsStay
<1>4. ASSUME NEW s \in {"completed", "partial"}, NEW valRows \in IndexRows, IndexEnded(s, valRows)
      PROVE  EngInv' /\ FindingsEndByEvidence /\ TrendsTellChanges
  <2>1. PICK indexed : indexed = [index EXCEPT !.status = s, !.failed = valRows.failed,
                                     !.imports = valRows.imports]
    OBVIOUS
  <2>2. PICK kept : kept = valRuns OBVIOUS
  <2>3. valRuns' = kept /\ index' = indexed /\ Evaluate(kept, indexed)
    BY <1>4, <2>1, <2>2 DEF IndexEnded
  <2>4. valRows.failed \in BOOLEAN /\ valRows.imports \in {"none", "few", "many"} BY DEF IndexRowsOK
  <2>5. indexed \in IndexStates BY <1>1, <2>1, <2>4 DEF IndexStates
  <2>6. Reads(kept, indexed) BY <1>1, <2>2, <2>5 DEF Reads
  <2> QED BY <2>3, <2>6, EvaluateStep
<1>5. CASE Changed
  <2>1. UNCHANGED <<signals, insights, snapshot>> BY <1>5 DEF Changed
  <2> QED BY <1>5, <2>1, ChangedKeeps, FindingsStay
<1>6. CASE ReportOpened
  <2>1. PICK kept, indexed : kept = valRuns /\ indexed = index OBVIOUS
  <2>2. valRuns' = kept /\ index' = indexed /\ Evaluate(kept, indexed) BY <1>6, <2>1 DEF ReportOpened
  <2>3. Reads(kept, indexed) BY <1>1, <2>1 DEF Reads
  <2> QED BY <2>2, <2>3, EvaluateStep
<1> QED BY <1>2, <1>3, <1>4, <1>5, <1>6 DEF EngNext

(* The findings of a workspace are what the evidence an evaluation reads shows,    *)
(* whatever the number of validations, of those it reads (RunsRead) and of those  *)
(* it keeps (ObservationsKept).  A request whose latest run failed on the         *)
(* workspace as it is has its finding, as long as no more fail than are kept; one  *)
(* that passed on it has none, as long as the run its finding rests on is read; a  *)
(* completed index has exactly the findings its rows show, and no insight          *)
(* outlives what it explains.  A finding of a validation ends only with a current  *)
(* run of its kind, which passed unless too many fail, and the trends report what  *)
(* started and what ended.                                                        *)
THEOREM FindingsFollowEvidence ==
  ASSUME MaxRuns \in Nat, ObservationsKept \in Nat, IndexRowsOK
  PROVE  EngSpec => /\ [](EngTypeOK /\ FindingsMatchEvidence /\ InsightsHaveFindings)
                    /\ [][FindingsEndByEvidence /\ TrendsTellChanges]_engVars
<1>1. EngInit => EngInv BY EngInitInv
<1>2. EngInv /\ [EngNext]_engVars =>
         EngInv' /\ [FindingsEndByEvidence /\ TrendsTellChanges]_engVars
  <2> SUFFICES ASSUME EngInv, [EngNext]_engVars
               PROVE  EngInv' /\ [FindingsEndByEvidence /\ TrendsTellChanges]_engVars
    OBVIOUS
  <2>1. CASE EngNext BY <2>1, EngStepKeeps
  <2>2. CASE UNCHANGED engVars BY <2>2, EngUnchangedKeeps
  <2> QED BY <2>1, <2>2
<1>3. EngInv => EngTypeOK /\ FindingsMatchEvidence /\ InsightsHaveFindings BY DEF EngInv
<1> QED BY <1>1, <1>2, <1>3, PTL DEF EngSpec

=============================================================================
