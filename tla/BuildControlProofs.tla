------------------------ MODULE BuildControlProofs -------------------------
(***************************************************************************)
(* The invariants of BuildControl for every number of Builds, workspaces   *)
(* and files.                                                              *)
(***************************************************************************)
EXTENDS BuildControl, TLAPS

-----------------------------------------------------------------------------
(* The strengthening.                                                      *)

\* The control's maps agree with how far each Build is.
MapsFollowPhase ==
    \A b \in Builds :
        /\ b \in active  => phase[b] \in {"starting", "turn", "done"}
        /\ b \in pending => phase[b] \in Ended
        /\ phase[b] \in {"starting", "turn"} => b \in active

\* A Build has a ChangeSet only once it ended, and one with a change left to
\* decide is stored with a status that a restart looks for.
ChangesFollowPhase ==
    \A b \in Builds :
        /\ setStatus[b] # "none" => phase[b] \in Ended
        /\ Undecided(changes[b]) # {} => AwaitingDecision(setStatus[b])

\* In a workspace whose last begin found nothing else, a Build in flight has
\* no company: this is what lets begin's error path release unconditionally.
Alone ==
    \A b \in Builds :
        phase[b] \in InFlight /\ ~shared[WorkspaceOf[b]] =>
            \A o \in In(WorkspaceOf[b], Builds) : Unsettled(o) => o = b

IInv ==
    /\ TypeOK
    /\ MapsFollowPhase
    /\ ChangesFollowPhase
    /\ Alone
    /\ HoldUnlessShared
    /\ HoldHasReason
    /\ UndecidedIsTracked

-----------------------------------------------------------------------------
(* Types.                                                                  *)

\* Each operation of the gate keeps the types of the gate.
LEMMA GateTypes ==
    ASSUME GateTypeOK
    PROVE  /\ \A w \in Workspaces : GateBegin(w) => GateTypeOK'
           /\ \A w \in Workspaces : GateRelease(w) => GateTypeOK'
           /\ \A w \in Workspaces, ev \in Events : GateEnqueue(w, ev) => GateTypeOK'
           /\ \A S \in SUBSET Workspaces : GateRestart(S) => GateTypeOK'
<1>1. NoBatch \in Events
  BY DEF NoBatch, Events
<1>2. \A due \in SUBSET Paths, ev \in Events :
         Due(due, ev) \in SUBSET Paths /\ StillOwed(due, ev) \in SUBSET Paths
  BY DEF Due, StillOwed, Events
<1>3. ASSUME NEW prev \in Events, NEW ev \in Events, NEW merged \in Coalesced(prev, ev)
      PROVE  merged \in Events
  <2>1. PICK kept \in SUBSET (ev.paths \ prev.paths) :
            merged = [paths    |-> prev.paths \cup kept,
                      overflow |-> prev.overflow \/ ev.overflow,
                      error    |-> ev.error]
    BY DEF Coalesced
  <2>2. /\ prev.paths \cup kept \in SUBSET Paths
        /\ (prev.overflow \/ ev.overflow) \in BOOLEAN
        /\ ev.error \in BOOLEAN
    BY DEF Events
  <2>. QED  BY <2>1, <2>2 DEF Events
<1>4. \A w \in Workspaces : GateBegin(w) => GateTypeOK'
  BY DEF GateBegin, GateTypeOK
<1>5. \A w \in Workspaces : GateRelease(w) => GateTypeOK'
  BY <1>1, <1>2 DEF GateRelease, GateTypeOK
<1>6. ASSUME NEW w \in Workspaces, NEW ev \in Events, GateEnqueue(w, ev)
      PROVE  GateTypeOK'
  <2>1. batch' \in [Workspaces -> Events]
    BY <1>3, <1>6 DEF GateEnqueue, GateTypeOK
  <2>2. owed' \in [Workspaces -> SUBSET Paths]
    BY <1>2, <1>6 DEF GateEnqueue, GateTypeOK
  <2>. QED  BY <2>1, <2>2, <1>6 DEF GateEnqueue, GateTypeOK
<1>7. \A S \in SUBSET Workspaces : GateRestart(S) => GateTypeOK'
  BY <1>1 DEF GateRestart, GateTypeOK
<1>. QED  BY <1>4, <1>5, <1>6, <1>7

\* What a release remembers of the paths it lets go
LEMMA ReleaseForgets ==
    ASSUME GateTypeOK, forgotten \in [Workspaces -> SUBSET Paths],
           NEW w \in Workspaces, Release(w)
    PROVE  GateTypeOK' /\ forgotten' \in [Workspaces -> SUBSET Paths]
<1>1. Named(batch[w]) \in SUBSET Paths
  BY DEF Named, GateTypeOK, Events
<1>2. forgotten' \in [Workspaces -> SUBSET Paths]
  BY <1>1 DEF Release
<1>. QED  BY <1>2, GateTypes DEF Release

\* What releaseWhenIdle does to the gate, whichever way it goes.
LEMMA ReleaseTypes ==
    ASSUME GateTypeOK, forgotten \in [Workspaces -> SUBSET Paths],
           NEW w \in Workspaces, NEW A, NEW P, ReleaseWhenIdle(w, A, P)
    PROVE  /\ GateTypeOK'
           /\ forgotten' \in [Workspaces -> SUBSET Paths]
           /\ held' \subseteq held
           /\ held \ {w} \subseteq held'
           /\ In(w, A \cup P) # {} => held' = held
           /\ In(w, A \cup P) = {} => w \notin held'
<1>1. CASE In(w, A \cup P) = {}
  BY <1>1, ReleaseForgets DEF ReleaseWhenIdle, Release, GateRelease
<1>2. CASE In(w, A \cup P) # {}
  BY <1>2 DEF ReleaseWhenIdle, heldVars, gateVars, GateTypeOK
<1>. QED  BY <1>1, <1>2

\* aggregateStatus yields a set status, and one that a restart looks for while
\* a change is undecided.
LEMMA AggregateTypes ==
    ASSUME NEW st \in [Changes -> ChangeStatuses \cup {"absent"}]
    PROVE  /\ AggregateStatus(st) \in SetStatuses
           /\ Undecided(st) # {} => AwaitingDecision(AggregateStatus(st))
BY DEF AggregateStatus, SetStatuses, ChangeStatuses, Undecided, AwaitingDecision,
       With, Present

-----------------------------------------------------------------------------
(* The two ways a step treats the holds.                                   *)

\* It settles nothing and starts nothing.
LEMMA HoldsKept ==
    ASSUME IInv, shared' = shared, held' = held,
           \A o \in Builds : Unsettled(o)' <=> Unsettled(o),
           \A o \in Builds : (phase[o] \in InFlight)' => phase[o] \in InFlight
    PROVE  Alone' /\ HoldUnlessShared' /\ HoldHasReason'
BY DEF IInv, Alone, HoldUnlessShared, HoldHasReason, In

\* It takes the Build b off the maps and releases the gate if that leaves
\* them without a Build of the workspace.
LEMMA HoldsSettled ==
    ASSUME IInv, NEW b \in Builds, shared' = shared,
           NEW A, NEW P, active' = A, pending' = P,
           ReleaseWhenIdle(WorkspaceOf[b], A, P),
           active \ {b} \subseteq A, A \subseteq active,
           pending \ {b} \subseteq P, P \subseteq pending,
           phase[b] \in InFlight \/ b \in pending,
           (phase[b] \notin InFlight)',
           \A o \in Builds \ {b} : phase'[o] = phase[o]
    PROVE  Alone' /\ HoldUnlessShared' /\ HoldHasReason'
<1>. USE WorkspaceOfAssumption
<1>. DEFINE w == WorkspaceOf[b]
<1>1. w \in Workspaces /\ GateTypeOK /\ forgotten \in [Workspaces -> SUBSET Paths]
  BY DEF IInv, TypeOK
<1>2. /\ held' \subseteq held
      /\ held \ {w} \subseteq held'
      /\ In(w, A \cup P) # {} => held' = held
      /\ In(w, A \cup P) = {} => w \notin held'
  BY <1>1, ReleaseTypes
<1>3. Unsettled(b)
  BY DEF Unsettled
<1>4. \A o \in Builds : Unsettled(o)' => Unsettled(o)
  BY <1>3 DEF Unsettled
<1>5. \A o \in Builds \ {b} : Unsettled(o) => Unsettled(o)'
  BY DEF Unsettled
<1>6. \A o \in Builds : (phase[o] \in InFlight)' => o # b /\ phase[o] \in InFlight
  OBVIOUS
<1>7. Alone'
  BY <1>4, <1>6 DEF IInv, Alone, In
<1>8. ASSUME NEW o \in Builds, Unsettled(o)', ~shared'[WorkspaceOf[o]]
      PROVE  WorkspaceOf[o] \in held'
  <2>1. WorkspaceOf[o] \in held
    BY <1>4, <1>8 DEF IInv, HoldUnlessShared
  <2>2. CASE WorkspaceOf[o] = w /\ In(w, A \cup P) = {}
    <3>1. phase[o] \in InFlight /\ o # b
      BY <1>6, <1>8, <2>2 DEF Unsettled, In
    <3>2. o = b
      BY <1>3, <1>8, <2>2, <3>1 DEF IInv, Alone, In
    <3>. QED  BY <3>1, <3>2
  <2>. QED  BY <1>2, <2>1, <2>2
<1>9. ASSUME NEW x \in held'
      PROVE  \E o \in In(x, Builds) : Unsettled(o)'
  <2>1. PICK o \in In(x, Builds) : Unsettled(o)
    BY <1>2, <1>9 DEF IInv, HoldHasReason
  <2>2. CASE o = b
    <3>1. In(w, A \cup P) # {} /\ x = w
      BY <1>2, <1>9, <2>1, <2>2 DEF In
    <3>. QED  BY <3>1 DEF In, Unsettled, IInv, TypeOK
  <2>. QED  BY <1>5, <2>1, <2>2 DEF In
<1>. QED  BY <1>7, <1>8, <1>9 DEF HoldUnlessShared, HoldHasReason, In

-----------------------------------------------------------------------------
(* One lemma per action.                                                   *)

\* The invariant holds before the first Build.
LEMMA InitIInv == Init => IInv
BY WorkspaceOfAssumption DEF Init, GateInit, IInv, TypeOK, GateTypeOK, MapsFollowPhase,
   ChangesFollowPhase, Alone, HoldUnlessShared, HoldHasReason, UndecidedIsTracked,
   Unsettled, InFlight, Ended, Phases, Undecided, With, In, Events, NoBatch

\* ai.send: the Build joins the workspace and closes its gate.
LEMMA SendIInv == ASSUME IInv, NEW b \in Builds, Send(b) PROVE IInv'
<1>. USE WorkspaceOfAssumption
<1>. DEFINE w == WorkspaceOf[b]
<1>0. w \in Workspaces
  OBVIOUS
<1>1. TypeOK'
  BY <1>0, GateTypes DEF IInv, TypeOK, Send, Phases, InFlight, storeVars, closedVars
<1>2. \A o \in Builds : o # b => (Unsettled(o)' <=> Unsettled(o))
  BY DEF Send, Unsettled, IInv, TypeOK
<1>3. MapsFollowPhase' /\ ChangesFollowPhase'
  BY DEF IInv, TypeOK, MapsFollowPhase, ChangesFollowPhase, Send, InFlight, Ended, storeVars, closedVars
<1>4. ASSUME NEW e \in Builds, (phase[e] \in InFlight)', ~shared'[WorkspaceOf[e]],
             NEW o \in In(WorkspaceOf[e], Builds), Unsettled(o)'
      PROVE  o = e
  <2>1. CASE WorkspaceOf[e] = w
    <3>1. \A u \in In(w, Builds) : ~Unsettled(u)
      BY <1>0, <1>4, <2>1 DEF Send, IInv, TypeOK
    <3>2. o = b
      BY <1>2, <1>4, <2>1, <3>1 DEF In
    <3>3. e = b
      BY <1>4, <2>1, <3>1 DEF Send, IInv, TypeOK, In, Unsettled
    <3>. QED  BY <3>2, <3>3
  <2>2. CASE WorkspaceOf[e] # w
    <3>1. o # b /\ e # b /\ ~shared[WorkspaceOf[e]] /\ phase[e] \in InFlight
      BY <1>0, <1>4, <2>2 DEF Send, IInv, TypeOK, In
    <3>. QED  BY <1>2, <1>4, <3>1 DEF IInv, Alone, In
  <2>. QED  BY <2>1, <2>2
<1>5. Alone'
  BY <1>4 DEF Alone, In
<1>6. HoldUnlessShared' /\ HoldHasReason'
  BY <1>2 DEF IInv, TypeOK, HoldUnlessShared, HoldHasReason, Send, GateBegin, In,
     Unsettled, InFlight
<1>7. UndecidedIsTracked'
  BY DEF IInv, UndecidedIsTracked, Send, storeVars, closedVars
<1>. QED  BY <1>1, <1>3, <1>5, <1>6, <1>7 DEF IInv

\* begin() returned and the slot was free.
LEMMA BeforeReadyIInv == ASSUME IInv, NEW b \in Builds, BeforeReady(b) PROVE IInv'
<1>. USE WorkspaceOfAssumption
<1>1. TypeOK'
  BY DEF IInv, TypeOK, GateTypeOK, BeforeReady, Phases, InFlight, storeVars, closedVars, heldVars, gateVars
<1>2. \A o \in Builds : Unsettled(o)' <=> Unsettled(o)
  BY DEF BeforeReady, Unsettled, InFlight, IInv, TypeOK
<1>3. MapsFollowPhase' /\ ChangesFollowPhase'
  BY DEF IInv, TypeOK, MapsFollowPhase, ChangesFollowPhase, BeforeReady, Ended, storeVars, closedVars
<1>4. Alone' /\ HoldUnlessShared' /\ HoldHasReason'
  BY <1>2, HoldsKept DEF BeforeReady, InFlight, heldVars, gateVars, IInv, TypeOK
<1>5. UndecidedIsTracked'
  BY DEF IInv, UndecidedIsTracked, BeforeReady, storeVars, closedVars
<1>. QED  BY <1>1, <1>3, <1>4, <1>5 DEF IInv

\* begin() returned and the slot was taken: abort().
LEMMA StartRefusedIInv == ASSUME IInv, NEW b \in Builds, StartRefused(b) PROVE IInv'
<1>. USE WorkspaceOfAssumption
<1>1. TypeOK'
  BY ReleaseTypes DEF IInv, TypeOK, StartRefused, Phases, Ended, storeVars, closedVars
<1>2. MapsFollowPhase' /\ ChangesFollowPhase'
  BY DEF IInv, TypeOK, MapsFollowPhase, ChangesFollowPhase, StartRefused, Ended, storeVars, closedVars
<1>3. Alone' /\ HoldUnlessShared' /\ HoldHasReason'
  <2>1. ReleaseWhenIdle(WorkspaceOf[b], active, pending \ {b})
    BY DEF StartRefused
  <2>2. /\ shared' = shared /\ active' = active /\ pending' = pending \ {b}
        /\ phase[b] \in InFlight /\ (phase[b] \notin InFlight)'
        /\ \A o \in Builds \ {b} : phase'[o] = phase[o]
    BY DEF StartRefused, InFlight, IInv, TypeOK
  <2>. QED  BY <2>1, <2>2, HoldsSettled
<1>4. UndecidedIsTracked'
  BY DEF IInv, UndecidedIsTracked, ChangesFollowPhase, AwaitingDecision, StartRefused,
     Ended, storeVars, closedVars
<1>. QED  BY <1>1, <1>2, <1>3, <1>4 DEF IInv

\* The provider could not be resolved: abort().
LEMMA StartFailsIInv == ASSUME IInv, NEW b \in Builds, StartFails(b) PROVE IInv'
<1>. USE WorkspaceOfAssumption
<1>1. TypeOK'
  BY ReleaseTypes DEF IInv, TypeOK, StartFails, Phases, Ended, storeVars, closedVars
<1>2. MapsFollowPhase' /\ ChangesFollowPhase'
  BY DEF IInv, TypeOK, MapsFollowPhase, ChangesFollowPhase, StartFails, Ended, storeVars, closedVars
<1>3. Alone' /\ HoldUnlessShared' /\ HoldHasReason'
  <2>1. ReleaseWhenIdle(WorkspaceOf[b], active \ {b}, pending \ {b})
    BY DEF StartFails
  <2>2. /\ shared' = shared /\ active' = active \ {b} /\ pending' = pending \ {b}
        /\ phase[b] \in InFlight /\ (phase[b] \notin InFlight)'
        /\ \A o \in Builds \ {b} : phase'[o] = phase[o]
    BY DEF StartFails, InFlight, IInv, TypeOK
  <2>. QED  BY <2>1, <2>2, HoldsSettled
<1>4. UndecidedIsTracked'
  BY DEF IInv, UndecidedIsTracked, ChangesFollowPhase, AwaitingDecision, StartFails,
     Ended, storeVars, closedVars
<1>. QED  BY <1>1, <1>2, <1>3, <1>4 DEF IInv

\* complete()'s error path.
LEMMA AfterFailsIInv == ASSUME IInv, NEW b \in Builds, AfterFails(b) PROVE IInv'
<1>. USE WorkspaceOfAssumption
<1>1. TypeOK'
  BY ReleaseTypes DEF IInv, TypeOK, AfterFails, Phases, Ended, storeVars, closedVars
<1>2. MapsFollowPhase' /\ ChangesFollowPhase'
  BY DEF IInv, TypeOK, MapsFollowPhase, ChangesFollowPhase, AfterFails, Ended, storeVars, closedVars
<1>3. Alone' /\ HoldUnlessShared' /\ HoldHasReason'
  BY HoldsSettled DEF AfterFails, InFlight, IInv, TypeOK
<1>4. UndecidedIsTracked'
  BY DEF IInv, UndecidedIsTracked, AfterFails, storeVars, closedVars
<1>. QED  BY <1>1, <1>2, <1>3, <1>4 DEF IInv

\* The provider answers.
LEMMA TurnStartsIInv == ASSUME IInv, NEW b \in Builds, TurnStarts(b) PROVE IInv'
<1>1. TypeOK'
  BY DEF IInv, TypeOK, GateTypeOK, TurnStarts, Phases, InFlight, storeVars, closedVars, heldVars, gateVars
<1>2. \A o \in Builds : Unsettled(o)' <=> Unsettled(o)
  BY DEF TurnStarts, Unsettled, InFlight, IInv, TypeOK
<1>3. MapsFollowPhase' /\ ChangesFollowPhase'
  BY DEF IInv, TypeOK, MapsFollowPhase, ChangesFollowPhase, TurnStarts, Ended, storeVars, closedVars
<1>4. Alone' /\ HoldUnlessShared' /\ HoldHasReason'
  BY <1>2, HoldsKept DEF TurnStarts, InFlight, heldVars, gateVars, IInv, TypeOK
<1>5. UndecidedIsTracked'
  BY DEF IInv, UndecidedIsTracked, TurnStarts, storeVars, closedVars
<1>. QED  BY <1>1, <1>3, <1>4, <1>5 DEF IInv

\* complete() takes the Build off the active map.
LEMMA TurnEndsIInv == ASSUME IInv, NEW b \in Builds, TurnEnds(b) PROVE IInv'
<1>1. TypeOK'
  BY DEF IInv, TypeOK, GateTypeOK, TurnEnds, Phases, InFlight, storeVars, closedVars, heldVars, gateVars
<1>2. \A o \in Builds : Unsettled(o)' <=> Unsettled(o)
  BY DEF TurnEnds, Unsettled, InFlight, IInv, TypeOK
<1>3. MapsFollowPhase' /\ ChangesFollowPhase'
  BY DEF IInv, TypeOK, MapsFollowPhase, ChangesFollowPhase, TurnEnds, Ended, storeVars, closedVars
<1>4. Alone' /\ HoldUnlessShared' /\ HoldHasReason'
  BY <1>2, HoldsKept DEF TurnEnds, InFlight, heldVars, gateVars, IInv, TypeOK
<1>5. UndecidedIsTracked'
  BY DEF IInv, UndecidedIsTracked, TurnEnds, storeVars, closedVars
<1>. QED  BY <1>1, <1>3, <1>4, <1>5 DEF IInv

\* finalizeTurn rejected: the Build stays on the active map.
LEMMA TurnLostIInv == ASSUME IInv, NEW b \in Builds, TurnLost(b) PROVE IInv'
<1>1. TypeOK'
  BY DEF IInv, TypeOK, GateTypeOK, TurnLost, Phases, Ended, storeVars, closedVars, heldVars, gateVars
<1>2. \A o \in Builds : Unsettled(o)' <=> Unsettled(o)
  BY DEF TurnLost, Unsettled, InFlight, IInv, TypeOK, MapsFollowPhase
<1>3. MapsFollowPhase' /\ ChangesFollowPhase'
  BY DEF IInv, TypeOK, MapsFollowPhase, ChangesFollowPhase, TurnLost, Ended, storeVars, closedVars
<1>4. Alone' /\ HoldUnlessShared' /\ HoldHasReason'
  BY <1>2, HoldsKept DEF TurnLost, InFlight, heldVars, gateVars, IInv, TypeOK
<1>5. UndecidedIsTracked'
  BY DEF IInv, UndecidedIsTracked, TurnLost, storeVars, closedVars
<1>. QED  BY <1>1, <1>3, <1>4, <1>5 DEF IInv

\* begin()'s error path: the unconditional release is sound, because the
\* Build is alone in its workspace or shared says that it is not.
LEMMA BeforeFailsIInv == ASSUME IInv, NEW b \in Builds, BeforeFails(b) PROVE IInv'
<1>. USE WorkspaceOfAssumption
<1>. DEFINE w == WorkspaceOf[b]
<1>1. TypeOK'
  BY ReleaseForgets DEF IInv, TypeOK, BeforeFails, Phases, Ended, storeVars, closedVars
<1>2. MapsFollowPhase' /\ ChangesFollowPhase'
  BY DEF IInv, TypeOK, MapsFollowPhase, ChangesFollowPhase, BeforeFails, Ended, storeVars, closedVars
<1>3. ~Unsettled(b)' /\ Unsettled(b) /\ phase[b] \in InFlight
  BY DEF BeforeFails, Unsettled, IInv, TypeOK, MapsFollowPhase, InFlight, Ended
<1>4. \A o \in Builds \ {b} : Unsettled(o)' <=> Unsettled(o)
  BY DEF BeforeFails, Unsettled, IInv, TypeOK
<1>5. \A o \in Builds \ {b} : phase'[o] = phase[o]
  BY DEF BeforeFails, IInv, TypeOK
<1>6. held' = held \ {w} /\ shared' = shared
  BY DEF BeforeFails, Release, GateRelease
<1>7. Alone'
  BY <1>3, <1>4, <1>5, <1>6 DEF IInv, Alone, In, Unsettled
<1>8. HoldUnlessShared'
  BY <1>3, <1>4, <1>6 DEF IInv, Alone, HoldUnlessShared, In
<1>9. HoldHasReason'
  BY <1>3, <1>4, <1>6 DEF IInv, HoldHasReason, In
<1>10. UndecidedIsTracked'
  BY DEF IInv, UndecidedIsTracked, BeforeFails, storeVars, closedVars
<1>. QED  BY <1>1, <1>2, <1>7, <1>8, <1>9, <1>10 DEF IInv

\* complete() with and without changes.
LEMMA AfterCapturedIInv ==
    ASSUME IInv, NEW b \in Builds, NEW S \in SUBSET Changes, AfterCaptured(b, S)
    PROVE  IInv'
<1>. USE WorkspaceOfAssumption
<1>. DEFINE captured == [c \in Changes |-> IF c \notin S THEN "absent"
                                           ELSE IF c \in Blocked THEN "conflicted"
                                           ELSE "pending"]
<1>1. captured \in [Changes -> ChangeStatuses \cup {"absent"}]
  BY DEF ChangeStatuses
<1>2. changes' = [changes EXCEPT ![b] = captured]
  BY DEF AfterCaptured, SaveChangeSet
<1>3. S = {} => Undecided(captured) = {}
  BY DEF Undecided, With
<1>4. TypeOK'
  <2>1. changes' \in [Builds -> [Changes -> ChangeStatuses \cup {"absent"}]]
    BY <1>1, <1>2 DEF IInv, TypeOK
  <2>2. setStatus' \in [Builds -> SetStatuses \cup {"none"}]
    BY DEF AfterCaptured, SaveChangeSet, IInv, TypeOK, SetStatuses, ChangeStatuses
  <2>3. GateTypeOK' /\ forgotten' \in [Workspaces -> SUBSET Paths] /\ pending' \subseteq Builds
    BY ReleaseTypes DEF AfterCaptured, IInv, TypeOK, heldVars, gateVars, GateTypeOK
  <2>. QED  BY <2>1, <2>2, <2>3 DEF AfterCaptured, closedVars, IInv, TypeOK, Phases, Ended
<1>5. MapsFollowPhase'
  BY DEF IInv, TypeOK, MapsFollowPhase, AfterCaptured, Ended
<1>6. ChangesFollowPhase'
  <2>1. Undecided(changes'[b]) # {} => AwaitingDecision(setStatus'[b])
    BY <1>1, <1>2, <1>3 DEF IInv, TypeOK, AfterCaptured, SaveChangeSet, AwaitingDecision
  <2>2. phase'[b] \in Ended
    BY DEF IInv, TypeOK, AfterCaptured, Ended
  <2>. QED  BY <1>1, <1>2, <2>1, <2>2 DEF IInv, TypeOK, ChangesFollowPhase, AfterCaptured,
                SaveChangeSet
<1>7. Alone' /\ HoldUnlessShared' /\ HoldHasReason'
  <2>1. CASE S = {}
    <3>1. ReleaseWhenIdle(WorkspaceOf[b], active, pending)
      BY <2>1 DEF AfterCaptured
    <3>2. /\ shared' = shared /\ active' = active /\ pending' = pending
          /\ phase[b] \in InFlight /\ (phase[b] \notin InFlight)'
          /\ \A o \in Builds \ {b} : phase'[o] = phase[o]
      BY <2>1 DEF AfterCaptured, InFlight, IInv, TypeOK
    <3>. QED  BY <3>1, <3>2, HoldsSettled
  <2>2. CASE S # {}
    <3>1. \A o \in Builds : Unsettled(o)' <=> Unsettled(o)
      BY <2>2 DEF AfterCaptured, Unsettled, InFlight, IInv, TypeOK
    <3>. QED  BY <2>2, <3>1, HoldsKept DEF AfterCaptured, InFlight, heldVars, gateVars, IInv, TypeOK
  <2>. QED  BY <2>1, <2>2
<1>8. UndecidedIsTracked'
  BY <1>1, <1>2, <1>3 DEF IInv, TypeOK, UndecidedIsTracked, AfterCaptured, closedVars
<1>. QED  BY <1>4, <1>5, <1>6, <1>7, <1>8 DEF IInv

\* resolve(), in a step that leaves the rest of the control alone.
LEMMA ResolveHolds ==
    ASSUME IInv, NEW b \in Builds, Resolve(b),
           phase' = phase, active' = active, shared' = shared
    PROVE  /\ Alone' /\ HoldUnlessShared' /\ HoldHasReason' /\ MapsFollowPhase'
           /\ GateTypeOK' /\ forgotten' \in [Workspaces -> SUBSET Paths]
           /\ pending \ {b} \subseteq pending' /\ pending' \subseteq pending
<1>1. CASE b \in pending
  <2>1. ReleaseWhenIdle(WorkspaceOf[b], active, pending \ {b}) /\ pending' = pending \ {b}
    BY <1>1 DEF Resolve
  <2>2. phase[b] \notin InFlight
    BY <1>1 DEF IInv, MapsFollowPhase, Ended, InFlight
  <2>3. Alone' /\ HoldUnlessShared' /\ HoldHasReason'
    BY <1>1, <2>1, <2>2, HoldsSettled
  <2>4. GateTypeOK' /\ forgotten' \in [Workspaces -> SUBSET Paths]
    BY <2>1, ReleaseTypes, WorkspaceOfAssumption DEF IInv, TypeOK
  <2>. QED  BY <2>1, <2>3, <2>4 DEF IInv, MapsFollowPhase
<1>2. CASE b \notin pending
  <2>1. pending' = pending /\ UNCHANGED heldVars
    BY <1>2 DEF Resolve
  <2>2. \A o \in Builds : Unsettled(o)' <=> Unsettled(o)
    BY <2>1 DEF Unsettled
  <2>3. Alone' /\ HoldUnlessShared' /\ HoldHasReason'
    BY <2>1, <2>2, HoldsKept DEF heldVars, gateVars
  <2>. QED  BY <2>1, <2>3 DEF IInv, TypeOK, MapsFollowPhase, GateTypeOK, heldVars, gateVars
<1>. QED  BY <1>1, <1>2

\* A step of the review that gives the changes of b the statuses st.
LEMMA ReviewIInv ==
    ASSUME IInv, NEW b \in Builds, phase[b] \in Ended,
           NEW st \in [Changes -> ChangeStatuses \cup {"absent"}],
           changes' = [changes EXCEPT ![b] = st],
           NEW newStatus \in SetStatuses,
           setStatus' = [setStatus EXCEPT ![b] = newStatus],
           Undecided(st) # {} => AwaitingDecision(newStatus),
           Undecided(st) \subseteq Undecided(changes[b]),
           UNCHANGED <<phase, running, active, latest, shared, orphaned>>,
           crossing' \subseteq Builds,
           \/ Resolve(b) /\ Undecided(st) = {}
           \/ UNCHANGED <<pending, heldVars>>
    PROVE  IInv'
<1>1. /\ Alone' /\ HoldUnlessShared' /\ HoldHasReason' /\ MapsFollowPhase'
      /\ GateTypeOK' /\ forgotten' \in [Workspaces -> SUBSET Paths]
      /\ pending \ {b} \subseteq pending' /\ pending' \subseteq pending
      /\ Undecided(st) # {} => pending' = pending
  <2>1. CASE Resolve(b) /\ Undecided(st) = {}
    BY <2>1, ResolveHolds
  <2>2. CASE UNCHANGED <<pending, heldVars>>
    <3>1. \A o \in Builds : Unsettled(o)' <=> Unsettled(o)
      BY <2>2 DEF Unsettled
    <3>2. Alone' /\ HoldUnlessShared' /\ HoldHasReason'
      BY <2>2, <3>1, HoldsKept DEF heldVars, gateVars
    <3>. QED  BY <2>2, <3>2 DEF IInv, TypeOK, MapsFollowPhase, GateTypeOK, heldVars, gateVars
  <2>. QED  BY <2>1, <2>2
<1>2. TypeOK'
  BY <1>1 DEF IInv, TypeOK
<1>3. ChangesFollowPhase'
  BY DEF IInv, TypeOK, ChangesFollowPhase
<1>4. UndecidedIsTracked'
  BY <1>1 DEF IInv, TypeOK, UndecidedIsTracked
<1>. QED  BY <1>1, <1>2, <1>3, <1>4 DEF IInv

\* The AFTER capture of a closed window ends.
LEMMA DrainIInv ==
    ASSUME IInv, NEW b \in Builds,
           DrainFails(b) \/ \E S \in SUBSET Changes : DrainCaptured(b, S)
    PROVE  IInv'
<1>1. /\ phase[b] = "draining" /\ phase' = [phase EXCEPT ![b] = "done"]
      /\ UNCHANGED <<running, active, pending, latest, shared, crossing, heldVars>>
  BY DEF DrainFails, DrainCaptured, closedVars
<1>2. \A o \in Builds : Unsettled(o)' <=> Unsettled(o)
  BY <1>1 DEF Unsettled, InFlight, IInv, TypeOK
<1>3. Alone' /\ HoldUnlessShared' /\ HoldHasReason'
  BY <1>1, <1>2, HoldsKept DEF InFlight, heldVars, gateVars, IInv, TypeOK
<1>4. MapsFollowPhase'
  BY <1>1 DEF IInv, TypeOK, MapsFollowPhase, Ended
<1>5. CASE DrainFails(b)
  BY <1>1, <1>3, <1>4, <1>5 DEF DrainFails, IInv, TypeOK, GateTypeOK, Phases, Ended, storeVars,
     closedVars, heldVars, gateVars, ChangesFollowPhase, UndecidedIsTracked
<1>6. ASSUME NEW S \in SUBSET Changes, DrainCaptured(b, S)
      PROVE  IInv'
  <2>. DEFINE captured == [c \in Changes |-> IF c \notin S THEN "absent"
                                             ELSE IF c \in Blocked THEN "conflicted"
                                             ELSE "pending"]
  <2>1. captured \in [Changes -> ChangeStatuses \cup {"absent"}]
    BY DEF ChangeStatuses
  <2>2. changes' = [changes EXCEPT ![b] = captured]
    BY <1>6 DEF DrainCaptured, SaveChangeSet
  <2>3. S = {} => Undecided(captured) = {}
    BY DEF Undecided, With
  <2>4. setStatus' = [setStatus EXCEPT ![b] = IF S = {} THEN "accepted" ELSE "pending"]
    BY <1>6 DEF DrainCaptured, SaveChangeSet
  <2>5. orphaned' = IF S = {} THEN orphaned ELSE orphaned \cup {b}
    BY <1>6 DEF DrainCaptured
  <2>. HIDE DEF captured
  <2>6. TypeOK'
    BY <1>1, <2>1, <2>2, <2>4, <2>5 DEF IInv, TypeOK, GateTypeOK, Phases, Ended, SetStatuses,
       ChangeStatuses, heldVars, gateVars
  <2>7. ChangesFollowPhase'
    BY <1>1, <2>1, <2>2, <2>3, <2>4 DEF IInv, TypeOK, ChangesFollowPhase, Ended, AwaitingDecision
  <2>8. UndecidedIsTracked'
    BY <1>1, <2>1, <2>2, <2>3, <2>5 DEF IInv, TypeOK, UndecidedIsTracked
  <2>. QED  BY <1>3, <1>4, <2>6, <2>7, <2>8 DEF IInv
<1>. QED  BY <1>5, <1>6

\* A decision or a revert saves the rows st of an ended Build.
LEMMA SavedRows ==
    ASSUME IInv, NEW b \in Builds, NEW st, SaveDecided(b, st),
           \/ \E c \in Changes, s \in {"accepted", "rejected"} :
                  changes[b][c] = "pending" /\ st = [changes[b] EXCEPT ![c] = s]
           \/ Revertible(b) /\ st = Reverted(b)
    PROVE  /\ st \in [Changes -> ChangeStatuses \cup {"absent"}]
           /\ changes' = [changes EXCEPT ![b] = st]
           /\ setStatus' = [setStatus EXCEPT ![b] = AggregateStatus(st)]
           /\ AggregateStatus(st) \in SetStatuses
           /\ Undecided(st) # {} => AwaitingDecision(AggregateStatus(st))
           /\ Undecided(st) \subseteq Undecided(changes[b])
           /\ phase[b] \in Ended
<1>1. CASE \E c \in Changes, s \in {"accepted", "rejected"} :
                  changes[b][c] = "pending" /\ st = [changes[b] EXCEPT ![c] = s]
  <2>1. PICK c \in Changes, s \in {"accepted", "rejected"} :
             changes[b][c] = "pending" /\ st = [changes[b] EXCEPT ![c] = s]
    BY <1>1
  <2>2. st \in [Changes -> ChangeStatuses \cup {"absent"}]
    BY <2>1 DEF IInv, TypeOK, ChangeStatuses
  <2>3. Undecided(st) \subseteq Undecided(changes[b])
    BY <2>1 DEF Undecided, With, IInv, TypeOK
  <2>4. phase[b] \in Ended
    BY <2>1 DEF IInv, ChangesFollowPhase, Undecided, With, AwaitingDecision, TypeOK
  <2>. QED  BY <2>2, <2>3, <2>4, AggregateTypes DEF SaveDecided
<1>2. CASE Revertible(b) /\ st = Reverted(b)
  <2>1. st \in [Changes -> ChangeStatuses \cup {"absent"}] /\ Undecided(st) = {}
    BY <1>2 DEF Reverted, ChangeStatuses, Undecided, With
  <2>2. phase[b] \in Ended
    BY <1>2 DEF Revertible
  <2>. QED  BY <2>1, <2>2, AggregateTypes DEF SaveDecided
<1>. QED  BY <1>1, <1>2

\* A decision of a closed window is saved and resolves nothing of this one's.
LEMMA CrossDecisionIInv ==
    ASSUME IInv, NEW b \in Builds, CrossDecision(b)
    PROVE  IInv'
<1>1. PICK st : /\ SaveDecided(b, st)
                /\ \/ \E c \in Changes, s \in {"accepted", "rejected"} :
                          changes[b][c] = "pending" /\ st = [changes[b] EXCEPT ![c] = s]
                   \/ Revertible(b) /\ st = Reverted(b)
  BY DEF CrossDecision, With, IInv, TypeOK
<1>2. /\ UNCHANGED <<phase, running, active, latest, shared, orphaned>>
      /\ crossing' \subseteq Builds
      /\ UNCHANGED <<pending, heldVars>>
  BY DEF CrossDecision, IInv, TypeOK
<1>. QED  BY <1>1, <1>2, SavedRows, ReviewIInv

\* The decide handler, answered.
LEMMA DecideIInv ==
    ASSUME IInv, NEW b \in Builds, NEW c \in Changes,
           NEW s \in {"accepted", "rejected"}, Decide(b, c, s)
    PROVE  IInv'
<1>. DEFINE st == [changes[b] EXCEPT ![c] = s]
<1>1. SaveDecided(b, st) /\ changes[b][c] = "pending"
  BY DEF Decide
<1>2. AllDecided(st) => Undecided(st) = {}
  BY DEF AllDecided, Undecided, With, Present
<1>3. /\ \/ Resolve(b) /\ Undecided(st) = {}
         \/ UNCHANGED <<pending, heldVars>>
      /\ UNCHANGED <<phase, running, active, latest, shared, orphaned>>
      /\ crossing' \subseteq Builds
  BY <1>2 DEF Decide, closedVars, IInv, TypeOK
<1>4. \/ \E d \in Changes, r \in {"accepted", "rejected"} :
             changes[b][d] = "pending" /\ st = [changes[b] EXCEPT ![d] = r]
      \/ Revertible(b) /\ st = Reverted(b)
  BY <1>1
<1>. HIDE DEF st
<1>. QED  BY <1>1, <1>3, <1>4, SavedRows, ReviewIInv

\* The decide handler, in conflict.
LEMMA DecideConflictsIInv ==
    ASSUME IInv, NEW b \in Builds, NEW c \in Changes, DecideConflicts(b, c)
    PROVE  IInv'
<1>. DEFINE st == [changes[b] EXCEPT ![c] = "conflicted"]
<1>1. st \in [Changes -> ChangeStatuses \cup {"absent"}]
  BY DEF IInv, TypeOK, ChangeStatuses
<1>2. "conflicted" \in SetStatuses /\ AwaitingDecision("conflicted")
  BY DEF SetStatuses, ChangeStatuses, AwaitingDecision
<1>3. Undecided(st) \subseteq Undecided(changes[b])
  BY DEF Undecided, With, IInv, TypeOK
<1>4. /\ changes' = [changes EXCEPT ![b] = st]
      /\ setStatus' = [setStatus EXCEPT ![b] = "conflicted"]
      /\ UNCHANGED <<pending, heldVars>>
      /\ UNCHANGED <<phase, running, active, latest, shared, orphaned>>
      /\ crossing' \subseteq Builds
  BY DEF DecideConflicts, IInv, TypeOK, controlVars, closedVars
<1>5. phase[b] \in Ended
  BY DEF DecideConflicts, IInv, ChangesFollowPhase, Undecided, With, AwaitingDecision, TypeOK
<1>. HIDE DEF st
<1>. QED  BY <1>1, <1>2, <1>3, <1>4, <1>5, ReviewIInv

\* ai.rollback, done.
LEMMA RevertBuildIInv ==
    ASSUME IInv, NEW b \in Builds, RevertBuild(b)
    PROVE  IInv'
<1>1. Undecided(Reverted(b)) = {}
  BY DEF Undecided, With, Reverted
<1>2. /\ SaveDecided(b, Reverted(b)) /\ Revertible(b) /\ Resolve(b)
      /\ UNCHANGED <<phase, running, active, latest, shared, orphaned>>
      /\ crossing' \subseteq Builds
  BY DEF RevertBuild, closedVars, IInv, TypeOK
<1>. QED  BY <1>1, <1>2, SavedRows, ReviewIInv

\* ai.rollback, stopped at a file.
LEMMA RevertFailsIInv ==
    ASSUME IInv, NEW b \in Builds, NEW S \in SUBSET Changes, NEW c \in Changes,
           RevertFails(b, S, c)
    PROVE  IInv'
<1>. DEFINE st == [d \in Changes |-> IF d \in S THEN "rejected"
                                     ELSE IF d = c THEN "conflicted"
                                     ELSE changes[b][d]]
<1>1. st \in [Changes -> ChangeStatuses \cup {"absent"}]
  BY DEF IInv, TypeOK, ChangeStatuses
<1>2. "conflicted" \in SetStatuses /\ AwaitingDecision("conflicted")
  BY DEF SetStatuses, ChangeStatuses, AwaitingDecision
<1>3. Undecided(st) \subseteq Undecided(changes[b])
  BY DEF Undecided, With, IInv, TypeOK
<1>4. /\ changes' = [changes EXCEPT ![b] = st]
      /\ setStatus' = [setStatus EXCEPT ![b] = "conflicted"]
      /\ UNCHANGED <<pending, heldVars>>
      /\ UNCHANGED <<phase, running, active, latest, shared, orphaned>>
      /\ crossing' \subseteq Builds
  BY DEF RevertFails, controlVars, closedVars, IInv, TypeOK
<1>5. phase[b] \in Ended
  BY DEF RevertFails, Revertible
<1>. HIDE DEF st
<1>. QED  BY <1>1, <1>2, <1>3, <1>4, <1>5, ReviewIInv

\* The watcher changes the batch only.
LEMMA WatchIInv ==
    ASSUME IInv, NEW w \in Workspaces, NEW ev \in WatcherEvents, Watch(w, ev)
    PROVE  IInv'
<1>1. GateTypeOK'
  BY GateTypes DEF IInv, TypeOK, Watch, WatcherEvents
<1>2. /\ UNCHANGED <<phase, running, active, pending, latest, shared, crossing, orphaned>>
      /\ UNCHANGED <<changes, setStatus>> /\ held' = held
  BY DEF Watch, GateEnqueue, controlVars, storeVars, closedVars
<1>3. \A o \in Builds : Unsettled(o)' <=> Unsettled(o)
  BY <1>2 DEF Unsettled
<1>4. Alone' /\ HoldUnlessShared' /\ HoldHasReason'
  BY <1>2, <1>3, HoldsKept
<1>5. forgotten' \in [Workspaces -> SUBSET Paths]
  <2>1. ev.paths \in SUBSET Paths
    BY DEF WatcherEvents, Events
  <2>2. forgotten[w] \in SUBSET Paths
    BY DEF IInv, TypeOK
  <2>. QED  BY <2>1, <2>2 DEF Watch, IInv, TypeOK
<1>. QED  BY <1>1, <1>2, <1>4, <1>5 DEF IInv, TypeOK, MapsFollowPhase, ChangesFollowPhase,
             UndecidedIsTracked

\* restorePending() holds exactly the workspaces of the Builds it tracks, and
\* nothing is in flight for the new services.
LEMMA RebuildIInv ==
    ASSUME IInv, Rebuild, crossing' \subseteq Builds, phase' \in [Builds -> Phases],
           \A b \in Builds : /\ phase'[b] \notin InFlight
                             /\ phase[b] \in Ended => phase'[b] \in Ended
    PROVE  IInv'
<1>. USE WorkspaceOfAssumption
<1>. DEFINE awaiting == {b \in Builds : AwaitingDecision(setStatus[b])}
<1>1. /\ pending' = awaiting /\ active' = {} /\ orphaned' = {}
      /\ held' = {WorkspaceOf[b] : b \in awaiting}
      /\ UNCHANGED <<latest, changes, setStatus>>
  BY DEF Rebuild, GateRestart, storeVars
<1>2. TypeOK'
  <2>1. {WorkspaceOf[b] : b \in awaiting} \in SUBSET Workspaces
    OBVIOUS
  <2>2. GateTypeOK'
    BY <2>1, GateTypes DEF Rebuild, IInv, TypeOK
  <2>3. forgotten' \in [Workspaces -> SUBSET Paths] /\ shared' \in [Workspaces -> BOOLEAN]
    BY DEF Rebuild
  <2>. QED  BY <1>1, <2>2, <2>3 DEF Rebuild, IInv, TypeOK
<1>3. \A b \in Builds : AwaitingDecision(setStatus[b]) => phase[b] \in Ended
  BY DEF IInv, ChangesFollowPhase, AwaitingDecision
<1>4. MapsFollowPhase'
  BY <1>1, <1>3 DEF MapsFollowPhase, InFlight, Ended
<1>5. ChangesFollowPhase'
  BY <1>1 DEF IInv, ChangesFollowPhase
<1>6. Alone'
  BY DEF Alone
<1>7. HoldUnlessShared'
  BY <1>1 DEF HoldUnlessShared, Unsettled
<1>8. HoldHasReason'
  BY <1>1 DEF HoldHasReason, Unsettled, In
<1>9. UndecidedIsTracked'
  BY <1>1 DEF IInv, ChangesFollowPhase, UndecidedIsTracked
<1>. QED  BY <1>2, <1>4, <1>5, <1>6, <1>7, <1>8, <1>9 DEF IInv

\* The process ends and starts again.
LEMMA RestartIInv == ASSUME IInv, Restart PROVE IInv'
<1>1. /\ phase' \in [Builds -> Phases]
      /\ \A b \in Builds : /\ phase'[b] \notin InFlight
                           /\ phase[b] \in Ended => phase'[b] \in Ended
  BY DEF Restart, IInv, TypeOK, Phases, InFlight, Ended
<1>. QED  BY <1>1, RebuildIInv DEF Restart

\* The window is closed and another opened.
LEMMA ReopenIInv == ASSUME IInv, Reopen PROVE IInv'
<1>1. /\ phase' \in [Builds -> Phases]
      /\ \A b \in Builds : /\ phase'[b] \notin InFlight
                           /\ phase[b] \in Ended => phase'[b] \in Ended
  BY DEF Reopen, IInv, TypeOK, Phases, InFlight, Ended
<1>2. crossing' \subseteq Builds
  BY DEF Reopen
<1>. QED  BY <1>1, <1>2, RebuildIInv DEF Reopen

-----------------------------------------------------------------------------
(* The invariant and what follows from it.                                 *)

\* Every step keeps the invariant.
LEMMA NextIInv == IInv /\ [Next]_vars => IInv'
<1>. SUFFICES ASSUME IInv, [Next]_vars PROVE IInv'
  OBVIOUS
<1>1. ASSUME NEW b \in Builds, Send(b) PROVE IInv'
  BY <1>1, SendIInv
<1>2. ASSUME NEW b \in Builds, Capture(b) PROVE IInv'
  BY <1>2, BeforeReadyIInv, StartRefusedIInv, BeforeFailsIInv, AfterCapturedIInv,
     AfterFailsIInv, DrainIInv DEF Capture
<1>3. ASSUME NEW b \in Builds, Turn(b) PROVE IInv'
  BY <1>3, TurnStartsIInv, StartFailsIInv, TurnEndsIInv, TurnLostIInv DEF Turn
<1>4. ASSUME NEW b \in Builds, Review(b) PROVE IInv'
  BY <1>4, DecideIInv, DecideConflictsIInv DEF Review
<1>5. ASSUME NEW b \in Builds, Revert(b) PROVE IInv'
  BY <1>5, RevertBuildIInv, RevertFailsIInv DEF Revert
<1>6. ASSUME NEW w \in Workspaces, NEW ev \in WatcherEvents, Watch(w, ev) PROVE IInv'
  BY <1>6, WatchIInv
<1>7. CASE Restart \/ Reopen \/ \E b \in Builds : CrossDecision(b)
  BY <1>7, RestartIInv, ReopenIInv, CrossDecisionIInv
<1>8. CASE UNCHANGED vars
  BY <1>8 DEF vars, controlVars, storeVars, closedVars, heldVars, gateVars, IInv, TypeOK, GateTypeOK,
     MapsFollowPhase, ChangesFollowPhase, Alone, HoldUnlessShared, HoldHasReason,
     UndecidedIsTracked, Unsettled, In
<1>. QED  BY <1>1, <1>2, <1>3, <1>4, <1>5, <1>6, <1>7, <1>8 DEF Next

\* The invariant of every behaviour.
LEMMA Invariance == Spec => []IInv
BY InitIInv, NextIInv, PTL DEF Spec

\* Every variable of the control, the store and the gate keeps its type.
THEOREM TypeCorrect == Spec => []TypeOK
<1>1. IInv => TypeOK
  BY DEF IInv
<1>. QED  BY <1>1, Invariance, PTL

\* For any number of Builds: unless the workspace's last begin found another
\* Build in it, its events are kept from the Project Index for as long as a
\* Build captures, runs or awaits a decision.
THEOREM HoldIsKept == Spec => []HoldUnlessShared
<1>1. IInv => HoldUnlessShared
  BY DEF IInv
<1>. QED  BY <1>1, Invariance, PTL

\* No path through captures, aborts, failures and restarts leaves a held
\* workspace that no Build can release.
THEOREM HoldIsReleasable == Spec => []HoldHasReason
<1>1. IInv => HoldHasReason
  BY DEF IInv
<1>. QED  BY <1>1, Invariance, PTL

\* A stored change without an answer is always tracked, also by the process
\* that starts after a crash.
THEOREM OpenDecisionsAreTracked == Spec => []UndecidedIsTracked
<1>1. IInv => UndecidedIsTracked
  BY DEF IInv
<1>. QED  BY <1>1, Invariance, PTL

-----------------------------------------------------------------------------
(* The batch.                                                              *)

\* The coalesced event keeps the paths it had and an overflow.
LEMMA CoalescedKeeps ==
    ASSUME NEW prev, NEW ev, NEW merged \in Coalesced(prev, ev)
    PROVE  /\ prev.paths \subseteq merged.paths
           /\ prev.overflow \/ ev.overflow => merged.overflow
<1>1. PICK kept : merged = [paths    |-> prev.paths \cup kept,
                            overflow |-> prev.overflow \/ ev.overflow,
                            error    |-> ev.error]
  BY DEF Coalesced
<1>. QED  BY <1>1

\* For any limit of the batch and a watcher that may fail at any point: what the
\* watcher reported and the index was not told of is in the batch to come, or
\* the gate cut it at its limit or released it with an error.
THEOREM BatchIsComplete == Spec => []NothingForgotten
<1>1. Init => NothingForgotten
  BY DEF Init, GateInit, NoBatch, NothingForgotten
<1>2. TypeOK /\ NothingForgotten /\ [Next]_vars => NothingForgotten'
  <2>. SUFFICES ASSUME TypeOK, NothingForgotten, [Next]_vars PROVE NothingForgotten'
    OBVIOUS
  <2>. USE WorkspaceOfAssumption DEF TypeOK, GateTypeOK
  <2>1. ASSUME NEW w \in Workspaces, Release(w) PROVE NothingForgotten'
    BY <2>1 DEF Release, GateRelease, StillOwed, NoBatch, NothingForgotten, Named, Events
  <2>2. CASE UNCHANGED heldVars
    BY <2>2 DEF heldVars, gateVars, NothingForgotten
  <2>3. ASSUME NEW w \in Workspaces, NEW A, NEW P, ReleaseWhenIdle(w, A, P)
        PROVE  NothingForgotten'
    BY <2>1, <2>2, <2>3 DEF ReleaseWhenIdle
  <2>4. ASSUME NEW b \in Builds, Resolve(b) PROVE NothingForgotten'
    BY <2>2, <2>3, <2>4 DEF Resolve
  <2>5. ASSUME NEW b \in Builds, Send(b) PROVE NothingForgotten'
    BY <2>5 DEF Send, GateBegin, NothingForgotten
  <2>6. ASSUME NEW b \in Builds, Capture(b) PROVE NothingForgotten'
    BY <2>1, <2>2, <2>3, <2>6 DEF Capture, BeforeReady, StartRefused, BeforeFails,
       AfterCaptured, AfterFails, DrainCaptured, DrainFails
  <2>7. ASSUME NEW b \in Builds, Turn(b) PROVE NothingForgotten'
    BY <2>2, <2>3, <2>7 DEF Turn, TurnStarts, StartFails, TurnEnds, TurnLost
  <2>8. ASSUME NEW b \in Builds, Review(b) \/ Revert(b) \/ CrossDecision(b)
        PROVE  NothingForgotten'
    BY <2>2, <2>4, <2>8 DEF Review, Decide, DecideConflicts, Revert, RevertBuild, RevertFails,
       CrossDecision
  <2>9. ASSUME NEW w \in Workspaces, NEW ev \in WatcherEvents, Watch(w, ev)
        PROVE  NothingForgotten'
    <3>1. ev \in Events
      BY DEF WatcherEvents
    <3>2. CASE w \in held
      <4>1. PICK merged \in Coalesced(batch[w], ev) : batch' = [batch EXCEPT ![w] = merged]
        BY <2>9, <3>2 DEF Watch, GateEnqueue
      <4>2. owed' = [owed EXCEPT ![w] = Due(@, ev)]
        BY <2>9, <3>2 DEF Watch, GateEnqueue
      <4>3. forgotten' = [forgotten EXCEPT ![w] = (@ \cup ev.paths) \ Named(merged)]
        BY <2>9, <3>2, <4>1 DEF Watch
      <4>4. /\ batch[w].paths \subseteq merged.paths
            /\ batch[w].overflow \/ ev.overflow => merged.overflow
        BY CoalescedKeeps
      <4>. QED  BY <3>1, <4>1, <4>2, <4>3, <4>4 DEF Due, NothingForgotten, Named, Events
    <3>3. CASE w \notin held
      <4>1. /\ batch' = batch
            /\ owed' = [owed EXCEPT ![w] = StillOwed(Due(@, ev), ev)]
            /\ forgotten' = [forgotten EXCEPT ![w] = IF ev.error THEN @ ELSE @ \ Named(ev)]
        BY <2>9, <3>3 DEF Watch, GateEnqueue
      <4>2. ev.error => ev.paths = {} /\ ~ev.overflow
        BY DEF WatcherEvents
      <4>3. CASE ev.error
        BY <3>1, <4>1, <4>2, <4>3 DEF StillOwed, Due, NothingForgotten
      <4>4. CASE ~ev.error
        BY <3>1, <4>1, <4>4 DEF StillOwed, Due, Named, NothingForgotten, Events
      <4>. QED  BY <4>3, <4>4
    <3>. QED  BY <3>2, <3>3
  <2>10. CASE Restart \/ Reopen
    BY <2>10 DEF Restart, Reopen, Rebuild, GateRestart, NoBatch, NothingForgotten
  <2>11. CASE UNCHANGED vars
    BY <2>2, <2>11 DEF vars
  <2>. QED  BY <2>5, <2>6, <2>7, <2>8, <2>9, <2>10, <2>11 DEF Next
<1>. QED  BY <1>1, <1>2, TypeCorrect, PTL DEF Spec

=============================================================================
