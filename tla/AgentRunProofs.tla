-------------------------- MODULE AgentRunProofs ---------------------------
(***************************************************************************)
(* The safety of AgentRun for every number of runs, tool calls, faults and *)
(* restarts.                                                               *)
(***************************************************************************)
EXTENDS AgentRun, TLAPS

-----------------------------------------------------------------------------
(* The strengthening.                                                      *)

\* EffectIsApproved, of one run.
Approved(r) ==
    at[r] = "effect" /\ NeedsApproval(tool[r]) => granted[r] = calls[r]

\* What the slot, the row and the renderer know of a run follows where it is,
\* whether or not a write of it threw.
Placed(r) ==
    /\ at[r] = "idle" <=> row[r] = "none"
    /\ at[r] = "preparing" => row[r] = "created"
    /\ at[r] \in {"idle", "preparing"} =>
          /\ active # r /\ life[r] = "none" /\ r \notin faulted
          /\ shown[r] = "none" /\ pending[r] = {}
    /\ active = r => r \notin dropped
    /\ shown[r] \in {"failed", "end"} =>
          active # r /\ at[r] \in {"over"} \cup Turning
    /\ shown[r] = "cancelling" /\ active = r =>
          life[r] = "cancelling" \/ (life[r] \in Ended /\ at[r] = "over")

\* A run of which every write succeeded: its turn is at work only in the slot
\* or told to stop, and its life cycle says what the turn does.
Sound(r) ==
    /\ at[r] \in Turning /\ active # r => stopping[r] /\ at[r] # "asking"
    /\ active = r => at[r] # "over"
    /\ at[r] \in {"resolving", "model", "effect", "finalizing"} =>
          pending[r] = {}
    /\ at[r] = "asking" =>
          /\ pending[r] = {calls[r]} /\ ~stopping[r]
          /\ life[r] = "waiting-approval"
    /\ at[r] \in {"model", "effect"} /\ life[r] = "cancelling" => stopping[r]
    /\ at[r] = "resolving" => life[r] \in {"planning", "cancelling"}
    /\ at[r] = "resolving" /\ life[r] = "cancelling" => stopping[r]
    /\ at[r] = "finalizing" =>
          life[r] \in {"running", "cancelling"} /\ outcome[r] \in Ended
    /\ at[r] \in {"model", "effect"} /\ active = r =>
          life[r] \in {"running", "cancelling"}
    /\ at[r] \in Turning \cup {"resolving", "finalizing"} /\ active # r =>
          r \in dropped
    /\ at[r] = "over" => row[r] \in Ended \/ r \in dropped
    /\ shown[r] = "end" =>
          row[r] = outcome[r] /\ life[r] = outcome[r] /\ outcome[r] \in Ended

Kept(r) == Approved(r) /\ Placed(r) /\ (r \notin faulted => Sound(r))

IInv == TypeOK /\ \A r \in Runs : Kept(r)

-----------------------------------------------------------------------------
(* A step of a run leaves the others alone.                                *)

\* Nothing that IInv says of s is touched.
Same(s) ==
    /\ at'[s] = at[s] /\ life'[s] = life[s] /\ stopping'[s] = stopping[s]
    /\ tool'[s] = tool[s] /\ calls'[s] = calls[s] /\ pending'[s] = pending[s]
    /\ outcome'[s] = outcome[s] /\ row'[s] = row[s] /\ shown'[s] = shown[s]
    /\ granted'[s] = granted[s]
    /\ active' = s <=> active = s
    /\ s \in faulted' <=> s \in faulted
    /\ s \in dropped' <=> s \in dropped

Alone(r) == \A s \in Runs \ {r} : Same(s)

\* A run the step leaves alone stays as the invariant wants it.
LEMMA SameIsKept ==
    ASSUME NEW s \in Runs, Kept(s), Same(s)
    PROVE  Kept(s)'
<1>1. Approved(s)'
  BY DEF Kept, Same, Approved, NeedsApproval
<1>2. Placed(s)'
  BY DEF Kept, Same, Placed
<1>3. s \notin faulted' => Sound(s)'
  BY DEF Kept, Same, Sound
<1> QED
  BY <1>1, <1>2, <1>3 DEF Kept

\* So the step of one run keeps the invariant if it keeps that of its run.
LEMMA OneRunIsEnough ==
    ASSUME NEW r \in Runs, IInv, TypeOK', Alone(r), Kept(r)'
    PROVE  IInv'
<1>1. ASSUME NEW s \in Runs, s # r PROVE Kept(s)'
  BY <1>1, SameIsKept DEF IInv, Alone
<1> QED
  BY <1>1 DEF IInv

-----------------------------------------------------------------------------
(* Types.                                                                  *)

\* A write stores a status of the row and marks the run it fails for.
LEMMA WriteType ==
    ASSUME TypeOK, NEW r \in Runs, NEW s \in Rows, NEW ok, Write(r, s, ok)
    PROVE  /\ row' \in [Runs -> Rows] /\ faulted' \subseteq Runs
           /\ \A x \in Runs \ {r} :
                 row'[x] = row[x] /\ (x \in faulted' <=> x \in faulted)
           /\ r \notin faulted' => ok /\ row'[r] = s /\ r \notin faulted
           /\ row'[r] \in {s, row[r]}
           /\ row[r] \in Ended => row'[r] = row[r]
           /\ ok \in BOOLEAN
<1>1. ok \in BOOLEAN
  BY DEF Write, Writes
<1>2. ok => row[r] \notin Ended \/ row[r] = s
  BY DEF Write, Writes
<1> QED
  BY <1>1, <1>2 DEF Write, TypeOK

\* A change of the life cycle, with the write that follows it.
LEMMA EnterType ==
    ASSUME TypeOK, NEW r \in Runs, NEW s \in Lives, NEW ok, Enter(r, s, ok)
    PROVE  /\ life' \in [Runs -> Lives \cup {"none"}]
           /\ row' \in [Runs -> Rows] /\ faulted' \subseteq Runs
           /\ \A x \in Runs \ {r} :
                 /\ life'[x] = life[x]
                 /\ row'[x] = row[x] /\ (x \in faulted' <=> x \in faulted)
           /\ life'[r] = s /\ s \in Following(life[r])
           /\ r \notin faulted' =>
                 ok /\ row'[r] = Stored(s) /\ r \notin faulted
           /\ row'[r] \in {Stored(s), row[r]}
           /\ row[r] \in Ended => row'[r] = row[r]
           /\ ok \in BOOLEAN
<1>1. Stored(s) \in Rows
  BY DEF Stored, Lives, Rows, Ended
<1>2. /\ row' \in [Runs -> Rows] /\ faulted' \subseteq Runs
      /\ \A x \in Runs \ {r} :
            row'[x] = row[x] /\ (x \in faulted' <=> x \in faulted)
      /\ r \notin faulted' => ok /\ row'[r] = Stored(s) /\ r \notin faulted
      /\ row'[r] \in {Stored(s), row[r]}
      /\ row[r] \in Ended => row'[r] = row[r]
      /\ ok \in BOOLEAN
  BY <1>1, WriteType DEF Enter
<1> QED
  BY <1>2 DEF Enter, TypeOK

\* What the renderer is shown is a message of the run.
LEMMA ShowType ==
    ASSUME TypeOK, NEW r \in Runs, NEW m \in Shows, Show(r, m)
    PROVE  /\ shown' \in [Runs -> Shows]
           /\ \A x \in Runs \ {r} : shown'[x] = shown[x]
           /\ shown'[r] \in {m, shown[r]}
           /\ r \notin dropped => shown'[r] = m
  BY DEF Show, TypeOK

-----------------------------------------------------------------------------
(* The handler and the start of the turn.                                  *)

\* Sending keeps the invariant: a fresh run has a row and nothing else.
LEMMA SendKeeps ==
    ASSUME NEW r \in Runs, TypeOK, Kept(r), Send(r)
    PROVE  TypeOK' /\ Alone(r) /\ Kept(r)'
<1>1. TypeOK'
  BY DEF TypeOK, Send, appVars, histVars, Places, Busy, Rows
<1>2. Alone(r)
  BY DEF TypeOK, Send, appVars, histVars, Alone, Same
<1>3. Approved(r)'
  BY DEF TypeOK, Send, Approved
<1>4. Placed(r)'
  BY DEF TypeOK, Send, appVars, histVars, Placed, Kept
<1>5. r \notin faulted' => Sound(r)'
  BY DEF TypeOK, Send, appVars, histVars, Placed, Kept, Sound, Turning, Ended
<1> QED
  BY <1>1, <1>2, <1>3, <1>4, <1>5 DEF Kept

\* A run that could not be started is over, and its failure is stored.
LEMMA NotStartedKeeps ==
    ASSUME NEW r \in Runs, TypeOK, Kept(r), NEW ok, NotStarted(r, ok)
    PROVE  TypeOK' /\ Alone(r) /\ Kept(r)'
<1>1. Write(r, "failed", ok) /\ "failed" \in Rows
  BY DEF NotStarted, Rows, Ended
<1>w. /\ row' \in [Runs -> Rows] /\ faulted' \subseteq Runs
      /\ \A x \in Runs \ {r} :
            row'[x] = row[x] /\ (x \in faulted' <=> x \in faulted)
      /\ r \notin faulted' => row'[r] = "failed" /\ r \notin faulted
      /\ row'[r] \in {"failed", row[r]}
  BY <1>1, WriteType
<1>2. TypeOK'
  BY <1>w DEF TypeOK, NotStarted, appVars, Places
<1>3. Alone(r)
  BY <1>w DEF TypeOK, NotStarted, Alone, Same
<1>4. Approved(r)'
  BY DEF TypeOK, NotStarted, Approved
<1>5. Placed(r)'
  BY <1>w DEF TypeOK, NotStarted, Placed, Kept, Rows
<1>6. r \notin faulted' => Sound(r)'
  BY <1>w DEF TypeOK, NotStarted, Placed, Kept, Sound, Turning, Ended
<1> QED
  BY <1>2, <1>3, <1>4, <1>5, <1>6 DEF Kept

\* A run that takes the slot is planned.
LEMMA ReserveKeeps ==
    ASSUME NEW r \in Runs, TypeOK, Kept(r), Reserve(r)
    PROVE  TypeOK' /\ Alone(r) /\ Kept(r)'
<1>1. Write(r, "planning", TRUE) /\ Show(r, "planning")
      /\ "planning" \in Rows /\ "planning" \in Shows
  BY DEF Reserve, Rows, Shows
<1>w. /\ row' \in [Runs -> Rows] /\ faulted' \subseteq Runs
      /\ \A x \in Runs \ {r} :
            row'[x] = row[x] /\ (x \in faulted' <=> x \in faulted)
      /\ row'[r] \in {"planning", row[r]}
  BY <1>1, WriteType
<1>s. /\ shown' \in [Runs -> Shows]
      /\ \A x \in Runs \ {r} : shown'[x] = shown[x]
      /\ shown'[r] = "planning"
  BY <1>1, ShowType DEF Reserve
<1>2. TypeOK'
  BY <1>w, <1>s DEF TypeOK, Reserve, appVars, Places, Busy, Lives
<1>3. Alone(r)
  BY <1>w, <1>s, NoRunAssumption DEF TypeOK, Reserve, Alone, Same
<1>4. Approved(r)'
  BY DEF TypeOK, Reserve, Approved
<1>5. Placed(r)'
  BY <1>w, <1>s DEF TypeOK, Reserve, Placed, Kept
<1>6. r \notin faulted' => Sound(r)'
  BY <1>s DEF TypeOK, Reserve, Placed, Kept, Sound, Turning, Ended
<1> QED
  BY <1>2, <1>3, <1>4, <1>5, <1>6 DEF Kept

\* A reserve that threw leaves a run that is over and in the slot.
LEMMA ReserveThrowsKeeps ==
    ASSUME NEW r \in Runs, TypeOK, Kept(r), NEW ok, ReserveThrows(r, ok)
    PROVE  TypeOK' /\ Alone(r) /\ Kept(r)'
<1>1. TypeOK'
  BY DEF TypeOK, ReserveThrows, appVars, Places, Lives, Rows, Ended
<1>2. Alone(r)
  BY NoRunAssumption DEF TypeOK, ReserveThrows, Alone, Same
<1>3. Approved(r)'
  BY DEF TypeOK, ReserveThrows, Approved
<1>4. Placed(r)' /\ r \in faulted'
  BY DEF TypeOK, ReserveThrows, Placed, Kept, Rows
<1> QED
  BY <1>1, <1>2, <1>3, <1>4 DEF Kept

\* The turn of the run in the slot starts, told to stop if it was cancelled.
LEMMA TurnStartsKeeps ==
    ASSUME NEW r \in Runs, TypeOK, Kept(r), TurnStarts(r)
    PROVE  TypeOK' /\ Alone(r) /\ Kept(r)'
<1>1. CASE life[r] = "planning"
  <2>1. Enter(r, "running", TRUE) /\ Show(r, "running")
        /\ "running" \in Lives /\ "running" \in Shows
    BY <1>1 DEF TurnStarts, Lives, Shows
  <2>e. /\ life' \in [Runs -> Lives \cup {"none"}]
        /\ row' \in [Runs -> Rows] /\ faulted' \subseteq Runs
        /\ \A x \in Runs \ {r} :
              /\ life'[x] = life[x]
              /\ row'[x] = row[x] /\ (x \in faulted' <=> x \in faulted)
        /\ life'[r] = "running"
        /\ r \notin faulted' => r \notin faulted
        /\ row'[r] \in {"running", row[r]}
    BY <2>1, EnterType, Stored("running") = "running" DEF Stored
  <2>s. /\ shown' \in [Runs -> Shows]
        /\ \A x \in Runs \ {r} : shown'[x] = shown[x]
        /\ shown'[r] = "running"
    BY <2>1, ShowType DEF TurnStarts, Kept, Placed
  <2>2. TypeOK'
    BY <2>e, <2>s DEF TypeOK, TurnStarts, appVars, Places, Busy, Turning
  <2>3. Alone(r)
    BY <2>e, <2>s DEF TypeOK, TurnStarts, Alone, Same
  <2>4. Approved(r)'
    BY DEF TypeOK, TurnStarts, Approved
  <2>5. Placed(r)'
    BY <2>e, <2>s DEF TypeOK, TurnStarts, Placed, Kept
  <2>6. r \notin faulted' => Sound(r)'
    BY <2>e, <2>s DEF TypeOK, TurnStarts, Kept, Sound, Turning, Ended
  <2> QED
    BY <2>2, <2>3, <2>4, <2>5, <2>6 DEF Kept
<1>2. CASE life[r] # "planning"
  <2>1. UNCHANGED <<life, row, shown, faulted>>
    BY <1>2 DEF TurnStarts
  <2>2. TypeOK'
    BY <2>1 DEF TypeOK, TurnStarts, appVars, Places, Busy, Turning
  <2>3. Alone(r)
    BY <2>1 DEF TypeOK, TurnStarts, Alone, Same
  <2>4. Approved(r)'
    BY DEF TypeOK, TurnStarts, Approved
  <2>5. Placed(r)'
    BY <2>1 DEF TypeOK, TurnStarts, Placed, Kept, Turning
  <2>6. r \notin faulted' => Sound(r)'
    BY <2>1, <1>2 DEF TypeOK, TurnStarts, Kept, Sound, Turning, Ended
  <2> QED
    BY <2>2, <2>3, <2>4, <2>5, <2>6 DEF Kept
<1> QED
  BY <1>1, <1>2

\* A failed start faults the run, and leaves the slot or tells nobody.
LEMMA TurnStartThrowsKeeps ==
    ASSUME NEW r \in Runs, TypeOK, Kept(r), NEW ok, TurnStartThrows(r, ok)
    PROVE  TypeOK' /\ Alone(r) /\ Kept(r)'
<1>s. /\ shown' \in [Runs -> Shows]
      /\ \A x \in Runs \ {r} : shown'[x] = shown[x]
      /\ shown'[r] = shown[r] \/ (shown'[r] = "failed" /\ active' = NoRun)
      /\ active' \in {NoRun, r}
  BY DEF TypeOK, TurnStartThrows, Show, Shows
<1>1. TypeOK'
  BY <1>s DEF TypeOK, TurnStartThrows, appVars, Places, Busy, Turning, Lives,
              Rows, Ended
<1>2. Alone(r)
  BY <1>s, NoRunAssumption DEF TypeOK, TurnStartThrows, Alone, Same
<1>3. Approved(r)'
  BY DEF TypeOK, TurnStartThrows, Approved
<1>4. Placed(r)' /\ r \in faulted'
  <2>1. row'[r] # "none" /\ at'[r] = "model" /\ life'[r] = "failed"
        /\ r \in faulted' /\ r \notin dropped'
    BY DEF TypeOK, TurnStartThrows, Kept, Placed
  <2> QED
    BY <1>s, <2>1, NoRunAssumption
    DEF TypeOK, TurnStartThrows, Kept, Placed, Turning, Ended
<1> QED
  BY <1>1, <1>2, <1>3, <1>4 DEF Kept

\* A turn whose window closed starts and is told to stop.
LEMMA TurnStartsDroppedKeeps ==
    ASSUME NEW r \in Runs, TypeOK, Kept(r), TurnStartsDropped(r)
    PROVE  TypeOK' /\ Alone(r) /\ Kept(r)'
<1>1. TypeOK'
  BY DEF TypeOK, TurnStartsDropped, appVars, histVars, Places, Busy, Turning
<1>2. Alone(r)
  BY DEF TypeOK, TurnStartsDropped, histVars, Alone, Same
<1>3. Approved(r)'
  BY DEF TypeOK, TurnStartsDropped, Approved
<1>4. Placed(r)'
  BY DEF TypeOK, TurnStartsDropped, histVars, Placed, Kept, Turning
<1>5. r \notin faulted' => Sound(r)'
  BY DEF TypeOK, TurnStartsDropped, histVars, Kept, Sound, Turning
<1> QED
  BY <1>1, <1>2, <1>3, <1>4, <1>5 DEF Kept

\* A run without a model is over: failed in the slot, or dropped.
LEMMA ResolveFailsKeeps ==
    ASSUME NEW r \in Runs, TypeOK, Kept(r), NEW ok, ResolveFails(r, ok)
    PROVE  TypeOK' /\ Alone(r) /\ Kept(r)'
<1>1. CASE active = r
  <2>1. Enter(r, "failed", ok) /\ "failed" \in Lives
    BY <1>1 DEF ResolveFails, Lives, Ended
  <2>e. /\ life' \in [Runs -> Lives \cup {"none"}]
        /\ row' \in [Runs -> Rows] /\ faulted' \subseteq Runs
        /\ \A x \in Runs \ {r} :
              /\ life'[x] = life[x]
              /\ row'[x] = row[x] /\ (x \in faulted' <=> x \in faulted)
        /\ life'[r] = "failed" /\ "failed" \in Following(life[r])
        /\ r \notin faulted' => ok /\ row'[r] = "failed" /\ r \notin faulted
        /\ row'[r] \in {"failed", row[r]}
    BY <2>1, EnterType, Stored("failed") = "failed" DEF Stored
  <2>s. /\ shown' \in [Runs -> Shows]
        /\ \A x \in Runs \ {r} : shown'[x] = shown[x]
        /\ \/ ok /\ shown'[r] = "failed" /\ active' = NoRun
           \/ ~ok /\ shown'[r] = shown[r] /\ active' = r
    BY <1>1 DEF TypeOK, ResolveFails, Show, Shows, Kept, Placed
  <2>2. TypeOK'
    BY <2>e, <2>s DEF TypeOK, ResolveFails, appVars, Places
  <2>3. Alone(r)
    BY <1>1, <2>e, <2>s, NoRunAssumption DEF TypeOK, ResolveFails, Alone, Same
  <2>4. Approved(r)'
    BY DEF TypeOK, ResolveFails, Approved
  <2>5. Placed(r)'
    BY <1>1, <2>e, <2>s, NoRunAssumption
    DEF TypeOK, ResolveFails, Placed, Kept, Ended
  <2>6. r \notin faulted' => Sound(r)'
    BY <1>1, <2>e, <2>s, NoRunAssumption
    DEF TypeOK, ResolveFails, Kept, Sound, Turning, Ended
  <2> QED
    BY <2>2, <2>3, <2>4, <2>5, <2>6 DEF Kept
<1>2. CASE active # r
  <2>1. UNCHANGED <<active, life, row, faulted, shown>>
    BY <1>2 DEF ResolveFails
  <2>2. TypeOK'
    BY <2>1 DEF TypeOK, ResolveFails, appVars, Places
  <2>3. Alone(r)
    BY <2>1 DEF TypeOK, ResolveFails, Alone, Same
  <2>4. Approved(r)'
    BY DEF TypeOK, ResolveFails, Approved
  <2>5. Placed(r)'
    BY <1>2, <2>1 DEF TypeOK, ResolveFails, Placed, Kept
  <2>6. r \notin faulted' => Sound(r)'
    BY <1>2, <2>1 DEF TypeOK, ResolveFails, Kept, Sound, Turning
  <2> QED
    BY <2>2, <2>3, <2>4, <2>5, <2>6 DEF Kept
<1> QED
  BY <1>1, <1>2

-----------------------------------------------------------------------------
(* The loop.                                                               *)

\* Text is shown only of a run that is not cancelled and has not ended.
LEMMA DeltaKeeps ==
    ASSUME NEW r \in Runs, TypeOK, Kept(r), Delta(r)
    PROVE  TypeOK' /\ Alone(r) /\ Kept(r)'
<1>s. /\ shown' \in [Runs -> Shows]
      /\ \A x \in Runs \ {r} : shown'[x] = shown[x]
      /\ shown'[r] = "text"
  BY DEF TypeOK, Delta, Forwarded, Show, Shows, Kept, Placed
<1>1. TypeOK'
  BY <1>s DEF TypeOK, Delta, appVars, runVars
<1>2. Alone(r)
  BY <1>s DEF TypeOK, Delta, runVars, Alone, Same
<1>3. Approved(r)'
  BY DEF Kept, Delta, runVars, Approved, NeedsApproval
<1>4. Placed(r)'
  BY <1>s DEF Delta, runVars, Placed, Kept
<1>5. r \notin faulted' => Sound(r)'
  BY <1>s DEF Delta, runVars, Kept, Sound
<1> QED
  BY <1>1, <1>2, <1>3, <1>4, <1>5 DEF Kept

\* A turn with an outcome goes on to finalizeTurn in the slot, and is over
\* outside it; either way the invariant is kept.
LEMMA TurnEndKeeps ==
    ASSUME NEW r \in Runs, TypeOK, Kept(r), NEW o \in Ended,
           at[r] \in {"model", "effect"}, EndTurn(r, o), LoopEnds(r),
           UNCHANGED <<app, restarts, active, life, stopping, pending, row,
                       faulted, dropped>>
    PROVE  TypeOK' /\ Alone(r) /\ Kept(r)'
<1>s. /\ shown' \in [Runs -> Shows]
      /\ \A x \in Runs \ {r} : shown'[x] = shown[x]
      /\ shown'[r] = shown[r] \/ (active = r /\ life[r] # "cancelling"
                                  /\ shown'[r] = "error")
  BY DEF TypeOK, EndTurn, Forwarded, Show, Shows
<1>a. /\ at' \in [Runs -> Places] /\ outcome' \in [Runs -> Ended \cup {"none"}]
      /\ \A x \in Runs \ {r} : at'[x] = at[x] /\ outcome'[x] = outcome[x]
      /\ \/ active = r /\ at'[r] = "finalizing" /\ outcome'[r] = o
         \/ active # r /\ at'[r] = "over" /\ outcome'[r] = outcome[r]
  BY DEF TypeOK, EndTurn, Places, Busy
<1>l. /\ calls' \in [Runs -> 0 .. MaxCalls]
      /\ granted' \in [Runs -> 0 .. MaxCalls]
      /\ tool' \in [Runs -> Tools \cup {"none"}]
      /\ \A x \in Runs \ {r} :
            /\ calls'[x] = calls[x] /\ granted'[x] = granted[x]
            /\ tool'[x] = tool[x]
  BY MaxCallsAssumption DEF TypeOK, LoopEnds
<1>1. TypeOK'
  BY <1>s, <1>a, <1>l DEF TypeOK
<1>2. Alone(r)
  BY <1>s, <1>a, <1>l DEF Alone, Same
<1>3. Approved(r)'
  BY <1>a DEF Approved
<1>4. Placed(r)'
  BY <1>s, <1>a DEF Placed, Kept, Turning, Ended
<1>5. r \notin faulted' => Sound(r)'
  BY <1>s, <1>a DEF Kept, Placed, Sound, Turning, Ended
<1> QED
  BY <1>1, <1>2, <1>3, <1>4, <1>5 DEF Kept

\* The turn that ends with the adapter's answer.
LEMMA ModelEndsKeeps ==
    ASSUME NEW r \in Runs, TypeOK, Kept(r), NEW o \in Ended, ModelEnds(r, o)
    PROVE  TypeOK' /\ Alone(r) /\ Kept(r)'
  BY TurnEndKeeps DEF ModelEnds, appVars

\* What going to the next call changes and leaves alone.
LEMMA NextCallType ==
    ASSUME NEW r \in Runs, TypeOK, NextCall(r)
    PROVE  /\ at[r] = "model" /\ ~stopping[r]
           /\ calls' \in [Runs -> 0 .. MaxCalls]
           /\ calls'[r] = calls[r] + 1 /\ calls'[r] \in 1 .. MaxCalls
           /\ \A x \in Runs \ {r} : calls'[x] = calls[x]
           /\ UNCHANGED <<app, restarts, active, stopping, outcome, granted,
                          dropped>>
  BY MaxCallsAssumption DEF TypeOK, NextCall, appVars

\* What moving between the places of the loop changes and leaves alone.
LEMMA ToolingType ==
    ASSUME NEW r \in Runs, TypeOK, NEW p \in Turning,
           NEW t \in Tools \cup {"none"}, Tooling(r, p, t)
    PROVE  /\ at' \in [Runs -> Places] /\ tool' \in [Runs -> Tools \cup {"none"}]
           /\ at'[r] = p /\ tool'[r] = t
           /\ \A x \in Runs \ {r} : at'[x] = at[x] /\ tool'[x] = tool[x]
  BY DEF TypeOK, Tooling, Places, Busy

\* A tool that needs no decision starts in a turn not told to stop.
LEMMA CallsToolKeeps ==
    ASSUME NEW r \in Runs, TypeOK, Kept(r), NEW t \in Tools, CallsTool(r, t)
    PROVE  TypeOK' /\ Alone(r) /\ Kept(r)'
<1>c. /\ at[r] = "model" /\ ~stopping[r]
      /\ calls' \in [Runs -> 0 .. MaxCalls]
      /\ \A x \in Runs \ {r} : calls'[x] = calls[x]
      /\ UNCHANGED <<app, restarts, active, stopping, outcome, granted, dropped>>
  BY NextCallType DEF CallsTool
<1>t. /\ at' \in [Runs -> Places] /\ tool' \in [Runs -> Tools \cup {"none"}]
      /\ at'[r] = "effect" /\ tool'[r] = t /\ ~NeedsApproval(t)
      /\ \A x \in Runs \ {r} : at'[x] = at[x] /\ tool'[x] = tool[x]
  BY ToolingType, "effect" \in Turning DEF CallsTool, Turning
<1>1. TypeOK'
  BY <1>c, <1>t DEF TypeOK, CallsTool
<1>2. Alone(r)
  BY <1>c, <1>t DEF Alone, Same, CallsTool
<1>3. Approved(r)'
  BY <1>t DEF Approved, NeedsApproval
<1>4. Placed(r)'
  BY <1>c, <1>t DEF CallsTool, Placed, Kept, Turning
<1>5. r \notin faulted' => Sound(r)'
  BY <1>c, <1>t DEF CallsTool, Kept, Sound, Turning
<1> QED
  BY <1>1, <1>2, <1>3, <1>4, <1>5 DEF Kept

\* A run outside the slot is refused its tool and goes on.
LEMMA AsksInVainKeeps ==
    ASSUME NEW r \in Runs, TypeOK, Kept(r), NEW t \in Tools, AsksInVain(r, t)
    PROVE  TypeOK' /\ Alone(r) /\ Kept(r)'
<1>c. /\ at[r] = "model"
      /\ calls' \in [Runs -> 0 .. MaxCalls]
      /\ \A x \in Runs \ {r} : calls'[x] = calls[x]
      /\ UNCHANGED <<app, restarts, active, stopping, outcome, granted, dropped>>
      /\ UNCHANGED <<at, tool, life, pending, row, shown, faulted>>
  BY NextCallType DEF AsksInVain
<1>1. TypeOK'
  BY <1>c DEF TypeOK
<1>2. Alone(r)
  BY <1>c DEF Alone, Same
<1>3. Approved(r)'
  BY <1>c DEF Approved
<1>4. Placed(r)'
  BY <1>c DEF Placed, Kept
<1>5. r \notin faulted' => Sound(r)'
  BY <1>c DEF Kept, Sound
<1> QED
  BY <1>1, <1>2, <1>3, <1>4, <1>5 DEF Kept

\* A request is published with its key on the map and a life cycle that takes
\* the answer, or a write threw.
LEMMA AsksKeeps ==
    ASSUME NEW r \in Runs, TypeOK, Kept(r), NEW t \in Tools, NEW ok \in BOOLEAN,
           Asks(r, t, ok)
    PROVE  TypeOK' /\ Alone(r) /\ Kept(r)'
<1>c. /\ at[r] = "model" /\ ~stopping[r]
      /\ calls' \in [Runs -> 0 .. MaxCalls] /\ calls'[r] \in 1 .. MaxCalls
      /\ \A x \in Runs \ {r} : calls'[x] = calls[x]
      /\ UNCHANGED <<app, restarts, active, stopping, outcome, granted, dropped>>
  BY NextCallType DEF Asks
<1>p. /\ pending' \in [Runs -> SUBSET (1 .. MaxCalls)]
      /\ pending'[r] = pending[r] \cup {calls'[r]}
      /\ \A x \in Runs \ {r} : pending'[x] = pending[x]
  BY <1>c DEF TypeOK, Asks
<1>t. /\ at' \in [Runs -> Places] /\ tool' \in [Runs -> Tools \cup {"none"}]
      /\ at'[r] \in {"model", "asking"}
      /\ ok => at'[r] = "asking"
      /\ \A x \in Runs \ {r} : at'[x] = at[x] /\ tool'[x] = tool[x]
  <2>1. CASE ok
    BY <2>1, ToolingType, "asking" \in Turning DEF Asks, Turning
  <2>2. CASE ~ok
    BY <2>2, <1>c DEF TypeOK, Asks
  <2> QED
    BY <2>1, <2>2
<1>e. /\ life' \in [Runs -> Lives \cup {"none"}]
      /\ row' \in [Runs -> Rows] /\ faulted' \subseteq Runs
      /\ \A x \in Runs \ {r} :
            /\ life'[x] = life[x]
            /\ row'[x] = row[x] /\ (x \in faulted' <=> x \in faulted)
      /\ \/ life'[r] = "waiting-approval" /\ life[r] \notin {"cancelling"} \cup Ended
         \/ life'[r] = life[r] /\ life[r] \notin {"running", "waiting-approval"}
      /\ r \notin faulted' => ok /\ r \notin faulted
      /\ row'[r] \in {"running", row[r]}
  <2>1. CASE "waiting-approval" \in Following(life[r])
    <3>1. Enter(r, "waiting-approval", ok) /\ "waiting-approval" \in Lives
          /\ Stored("waiting-approval") = "running"
      BY <2>1 DEF Asks, Lives, Stored
    <3>2. life[r] \notin {"cancelling"} \cup Ended
      BY <2>1 DEF Following, Ended
    <3> QED
      BY <3>1, <3>2, EnterType
  <2>2. CASE "waiting-approval" \notin Following(life[r])
    <3>1. ok /\ UNCHANGED <<life, row, faulted>>
      BY <2>2 DEF Asks
    <3>2. life[r] \notin {"running", "waiting-approval"}
      BY <2>2 DEF Following, Lives
    <3> QED
      BY <3>1, <3>2 DEF TypeOK
  <2> QED
    BY <2>1, <2>2
<1>s. /\ shown' \in [Runs -> Shows]
      /\ \A x \in Runs \ {r} : shown'[x] = shown[x]
      /\ shown'[r] \in {"request", shown[r]}
  BY DEF TypeOK, Asks, Show, Shows
<1>1. TypeOK'
  BY <1>c, <1>p, <1>t, <1>e, <1>s DEF TypeOK
<1>2. Alone(r)
  BY <1>c, <1>p, <1>t, <1>e, <1>s DEF Alone, Same
<1>3. Approved(r)'
  BY <1>t DEF Approved
<1>4. Placed(r)'
  BY <1>c, <1>t, <1>e, <1>s DEF Asks, Placed, Kept, Turning
<1>5. r \notin faulted' => Sound(r)'
  <2>1. HAVE r \notin faulted'
  <2>2. /\ Sound(r) /\ at'[r] = "asking" /\ active = r /\ pending[r] = {}
        /\ life[r] = "running" /\ life'[r] = "waiting-approval"
    BY <2>1, <1>c, <1>t, <1>e DEF Asks, Kept, Sound
  <2> QED
    BY <2>2, <1>c, <1>p, <1>s DEF Sound, Turning, Placed, Kept
<1> QED
  BY <1>1, <1>2, <1>3, <1>4, <1>5 DEF Kept

\* The loop goes on after a tool, or ends with the turn told to stop.
LEMMA EffectEndsKeeps ==
    ASSUME NEW r \in Runs, TypeOK, Kept(r), EffectEnds(r)
    PROVE  TypeOK' /\ Alone(r) /\ Kept(r)'
<1>1. CASE stopping[r]
  BY <1>1, TurnEndKeeps DEF EffectEnds, appVars, Ended
<1>2. CASE ~stopping[r]
  <2>t. /\ at' \in [Runs -> Places] /\ tool' \in [Runs -> Tools \cup {"none"}]
        /\ at[r] = "effect" /\ at'[r] = "model"
        /\ \A x \in Runs \ {r} : at'[x] = at[x] /\ tool'[x] = tool[x]
        /\ UNCHANGED <<app, restarts, active, life, stopping, calls, pending,
                       outcome, row, shown, granted, faulted, dropped>>
    BY <1>2, ToolingType, "model" \in Turning DEF EffectEnds, Turning, appVars
  <2>1. TypeOK'
    BY <2>t DEF TypeOK
  <2>2. Alone(r)
    BY <2>t DEF Alone, Same
  <2>3. Approved(r)'
    BY <2>t DEF Approved
  <2>4. Placed(r)'
    BY <2>t DEF Placed, Kept, Turning
  <2>5. r \notin faulted' => Sound(r)'
    BY <2>t DEF Kept, Sound, Turning
  <2> QED
    BY <2>1, <2>2, <2>3, <2>4, <2>5 DEF Kept
<1> QED
  BY <1>1, <1>2

-----------------------------------------------------------------------------
(* The developer.                                                          *)

\* What an answer moves: the tool that waits for this key, and the grant.
LEMMA ResumeType ==
    ASSUME NEW r \in Runs, TypeOK, NEW k \in 1 .. MaxCalls, NEW yes \in BOOLEAN,
           Resume(r, k, yes)
    PROVE  /\ at' \in [Runs -> Places] /\ tool' \in [Runs -> Tools \cup {"none"}]
           /\ granted' \in [Runs -> 0 .. MaxCalls]
           /\ \A x \in Runs \ {r} :
                 /\ at'[x] = at[x] /\ tool'[x] = tool[x]
                 /\ granted'[x] = granted[x]
           /\ \/ /\ at[r] = "asking" /\ calls[r] = k
                 /\ \/ at'[r] = "effect" /\ granted'[r] = k
                    \/ at'[r] = "model"
              \/ /\ ~(at[r] = "asking" /\ calls[r] = k)
                 /\ at'[r] = at[r] /\ tool'[r] = tool[r]
                 /\ granted'[r] = granted[r] \/ granted'[r] = calls[r]
<1>1. CASE at[r] = "asking" /\ calls[r] = k
  <2>1. CASE yes
    <3>1. tool[r] \in Tools \cup {"none"} /\ Tooling(r, "effect", tool[r])
          /\ "effect" \in Turning
      BY <1>1, <2>1 DEF Resume, TypeOK, Turning
    <3> QED
      BY <1>1, <2>1, <3>1, ToolingType DEF Resume, TypeOK
  <2>2. CASE ~yes
    BY <1>1, <2>2, ToolingType, "model" \in Turning DEF Resume, Turning, TypeOK
  <2> QED
    BY <2>1, <2>2
<1>2. CASE ~(at[r] = "asking" /\ calls[r] = k)
  <2>1. at' = at /\ tool' = tool
    BY <1>2 DEF Resume
  <2>2. /\ granted' \in [Runs -> 0 .. MaxCalls]
        /\ \A x \in Runs \ {r} : granted'[x] = granted[x]
        /\ granted'[r] = granted[r] \/ granted'[r] = calls[r]
    BY MaxCallsAssumption DEF Resume, TypeOK
  <2> QED
    BY <1>2, <2>1, <2>2 DEF TypeOK
<1> QED
  BY <1>1, <1>2

\* An answer settles the request of the tool that waits; with the last one the
\* run goes on.
LEMMA AnswerKeeps ==
    ASSUME NEW r \in Runs, TypeOK, Kept(r), NEW k \in 1 .. MaxCalls,
           NEW yes \in BOOLEAN, Answer(r, k, yes)
    PROVE  TypeOK' /\ Alone(r) /\ Kept(r)'
<1>a. /\ active = r /\ life[r] = "waiting-approval" /\ k \in pending[r]
      /\ UNCHANGED <<app, restarts, active, stopping, calls, outcome, dropped>>
  BY DEF Answer, appVars
<1>p. /\ pending' \in [Runs -> SUBSET (1 .. MaxCalls)]
      /\ pending'[r] = pending[r] \ {k}
      /\ \A x \in Runs \ {r} : pending'[x] = pending[x]
  BY DEF TypeOK, Answer
<1>t. /\ at' \in [Runs -> Places] /\ tool' \in [Runs -> Tools \cup {"none"}]
      /\ granted' \in [Runs -> 0 .. MaxCalls]
      /\ \A x \in Runs \ {r} :
            at'[x] = at[x] /\ tool'[x] = tool[x] /\ granted'[x] = granted[x]
      /\ \/ /\ at[r] = "asking" /\ calls[r] = k
            /\ \/ at'[r] = "effect" /\ granted'[r] = k
               \/ at'[r] = "model"
         \/ /\ ~(at[r] = "asking" /\ calls[r] = k)
            /\ at'[r] = at[r] /\ tool'[r] = tool[r]
            /\ granted'[r] = granted[r] \/ granted'[r] = calls[r]
  BY ResumeType DEF Answer
<1>e. /\ life' \in [Runs -> Lives \cup {"none"}]
      /\ row' \in [Runs -> Rows] /\ faulted' \subseteq Runs
      /\ shown' \in [Runs -> Shows]
      /\ \A x \in Runs \ {r} :
            /\ life'[x] = life[x] /\ shown'[x] = shown[x]
            /\ row'[x] = row[x] /\ (x \in faulted' <=> x \in faulted)
      /\ pending[r] = {k} => life'[r] = "running"
      /\ r \notin faulted' => r \notin faulted
      /\ row'[r] \in {"running", row[r]}
      /\ shown'[r] \in {"running", shown[r]}
  <2>1. CASE pending[r] = {k}
    <3>1. Enter(r, "running", TRUE) /\ Show(r, "running") /\ "running" \in Lives
          /\ "running" \in Shows /\ Stored("running") = "running"
      BY <2>1 DEF Answer, Lives, Shows, Stored
    <3> QED
      BY <3>1, EnterType, ShowType
  <2>2. CASE pending[r] # {k}
    BY <2>2 DEF Answer, TypeOK
  <2> QED
    BY <2>1, <2>2
<1>1. TypeOK'
  BY <1>a, <1>p, <1>t, <1>e DEF TypeOK
<1>2. Alone(r)
  BY <1>a, <1>p, <1>t, <1>e DEF Alone, Same
<1>3. Approved(r)'
  BY <1>a, <1>t DEF Approved, Kept, NeedsApproval
<1>4. Placed(r)'
  BY <1>a, <1>t, <1>e DEF Placed, Kept, Turning, Ended
<1>5. r \notin faulted' => Sound(r)'
  <2>1. HAVE r \notin faulted'
  <2>2. at[r] = "asking" /\ pending[r] = {k} /\ calls[r] = k /\ Sound(r)
    <3>1. Sound(r) /\ at[r] \in Places
      BY <2>1, <1>e DEF Kept, TypeOK
    <3>2. at[r] = "asking"
      BY <3>1, <1>a DEF Sound, Kept, Placed, Places, Busy, Turning
    <3> QED
      BY <3>1, <3>2, <1>a DEF Sound
  <2> QED
    BY <2>2, <1>a, <1>p, <1>t, <1>e DEF Sound, Turning, Ended, Kept, Placed
<1> QED
  BY <1>1, <1>2, <1>3, <1>4, <1>5 DEF Kept

\* An answer whose write threw faults the run.
LEMMA AnswerThrowsKeeps ==
    ASSUME NEW r \in Runs, TypeOK, Kept(r), NEW k \in 1 .. MaxCalls,
           AnswerThrows(r, k)
    PROVE  TypeOK' /\ Alone(r) /\ Kept(r)'
<1>e. /\ life' \in [Runs -> Lives \cup {"none"}]
      /\ row' \in [Runs -> Rows] /\ faulted' \subseteq Runs
      /\ \A x \in Runs \ {r} :
            /\ life'[x] = life[x]
            /\ row'[x] = row[x] /\ (x \in faulted' <=> x \in faulted)
      /\ r \in faulted' /\ row'[r] \in {"running", row[r]}
  BY EnterType, "running" \in Lives, Stored("running") = "running"
  DEF AnswerThrows, Lives, Stored
<1>1. TypeOK'
  BY <1>e DEF TypeOK, AnswerThrows, appVars
<1>2. Alone(r)
  BY <1>e DEF TypeOK, AnswerThrows, Alone, Same
<1>3. Approved(r)'
  BY DEF AnswerThrows, Approved, Kept, NeedsApproval
<1>4. Placed(r)'
  BY <1>e DEF AnswerThrows, Placed, Kept, Ended
<1> QED
  BY <1>e, <1>1, <1>2, <1>3, <1>4 DEF Kept

\* Stopping settles the approvals, and with them the tool that waits.
LEMMA StopType ==
    ASSUME NEW r \in Runs, TypeOK, Stop(r)
    PROVE  /\ stopping' \in [Runs -> BOOLEAN] /\ stopping'[r]
           /\ pending' \in [Runs -> SUBSET (1 .. MaxCalls)] /\ pending'[r] = {}
           /\ at' \in [Runs -> Places] /\ tool' \in [Runs -> Tools \cup {"none"}]
           /\ \A x \in Runs \ {r} :
                 /\ stopping'[x] = stopping[x] /\ pending'[x] = pending[x]
                 /\ at'[x] = at[x] /\ tool'[x] = tool[x]
           /\ IF at[r] = "asking" /\ calls[r] \in pending[r]
              THEN at'[r] = "model"
              ELSE at'[r] = at[r] /\ tool'[r] = tool[r]
<1>1. /\ at' \in [Runs -> Places] /\ tool' \in [Runs -> Tools \cup {"none"}]
      /\ \A x \in Runs \ {r} : at'[x] = at[x] /\ tool'[x] = tool[x]
      /\ IF at[r] = "asking" /\ calls[r] \in pending[r]
         THEN at'[r] = "model"
         ELSE at'[r] = at[r] /\ tool'[r] = tool[r]
  <2>1. CASE at[r] = "asking" /\ calls[r] \in pending[r]
    BY <2>1, ToolingType, "model" \in Turning DEF Stop, Turning
  <2>2. CASE ~(at[r] = "asking" /\ calls[r] \in pending[r])
    BY <2>2 DEF Stop, TypeOK
  <2> QED
    BY <2>1, <2>2
<1>2. /\ stopping' \in [Runs -> BOOLEAN] /\ stopping'[r]
      /\ pending' \in [Runs -> SUBSET (1 .. MaxCalls)] /\ pending'[r] = {}
      /\ \A x \in Runs \ {r} :
            stopping'[x] = stopping[x] /\ pending'[x] = pending[x]
  BY DEF Stop, TypeOK
<1> QED
  BY <1>1, <1>2

\* A cancelled turn is told to stop, and no tool of it waits.
LEMMA CancelKeeps ==
    ASSUME NEW r \in Runs, TypeOK, Kept(r), Cancel(r)
    PROVE  TypeOK' /\ Alone(r) /\ Kept(r)'
<1>a. /\ active = r /\ at[r] # "finalizing"
      /\ UNCHANGED <<app, restarts, active, calls, outcome, granted, dropped>>
  BY DEF Cancel, appVars
<1>p. /\ stopping' \in [Runs -> BOOLEAN] /\ stopping'[r]
      /\ pending' \in [Runs -> SUBSET (1 .. MaxCalls)] /\ pending'[r] = {}
      /\ at' \in [Runs -> Places] /\ tool' \in [Runs -> Tools \cup {"none"}]
      /\ \A x \in Runs \ {r} :
            /\ stopping'[x] = stopping[x] /\ pending'[x] = pending[x]
            /\ at'[x] = at[x] /\ tool'[x] = tool[x]
      /\ IF at[r] = "asking" /\ calls[r] \in pending[r]
         THEN at'[r] = "model"
         ELSE at'[r] = at[r] /\ tool'[r] = tool[r]
  BY StopType DEF Cancel
<1>e. /\ life' \in [Runs -> Lives \cup {"none"}]
      /\ row' \in [Runs -> Rows] /\ faulted' \subseteq Runs
      /\ \A x \in Runs \ {r} :
            /\ life'[x] = life[x]
            /\ row'[x] = row[x] /\ (x \in faulted' <=> x \in faulted)
      /\ life'[r] = "cancelling"
      /\ r \notin faulted' => r \notin faulted
      /\ row'[r] \in {"running", row[r]}
  BY EnterType, "cancelling" \in Lives, Stored("cancelling") = "running"
  DEF Cancel, Lives, Stored
<1>s. /\ shown' \in [Runs -> Shows]
      /\ \A x \in Runs \ {r} : shown'[x] = shown[x]
      /\ shown'[r] = "cancelling"
  BY <1>a, ShowType, "cancelling" \in Shows DEF Cancel, Shows, Kept, Placed
<1>1. TypeOK'
  BY <1>a, <1>p, <1>e, <1>s DEF TypeOK
<1>2. Alone(r)
  BY <1>a, <1>p, <1>e, <1>s DEF Alone, Same
<1>3. Approved(r)'
  BY <1>a, <1>p DEF Approved, Kept, NeedsApproval
<1>4. Placed(r)'
  BY <1>a, <1>p, <1>e, <1>s DEF Placed, Kept
<1>5. r \notin faulted' => Sound(r)'
  BY <1>a, <1>p, <1>e, <1>s DEF Sound, Kept, Turning
<1> QED
  BY <1>1, <1>2, <1>3, <1>4, <1>5 DEF Kept

\* A cancellation whose write threw faults the run.
LEMMA CancelThrowsKeeps ==
    ASSUME NEW r \in Runs, TypeOK, Kept(r), CancelThrows(r)
    PROVE  TypeOK' /\ Alone(r) /\ Kept(r)'
<1>e. /\ life' \in [Runs -> Lives \cup {"none"}]
      /\ row' \in [Runs -> Rows] /\ faulted' \subseteq Runs
      /\ \A x \in Runs \ {r} :
            /\ life'[x] = life[x]
            /\ row'[x] = row[x] /\ (x \in faulted' <=> x \in faulted)
      /\ life'[r] = "cancelling"
      /\ r \in faulted' /\ row'[r] \in {"running", row[r]}
  BY EnterType, "cancelling" \in Lives, Stored("cancelling") = "running"
  DEF CancelThrows, Lives, Stored
<1>1. TypeOK'
  BY <1>e DEF TypeOK, CancelThrows, appVars
<1>2. Alone(r)
  BY <1>e DEF TypeOK, CancelThrows, Alone, Same
<1>3. Approved(r)'
  BY DEF CancelThrows, Approved, Kept, NeedsApproval
<1>4. Placed(r)'
  BY <1>e DEF CancelThrows, Placed, Kept
<1> QED
  BY <1>e, <1>1, <1>2, <1>3, <1>4 DEF Kept

-----------------------------------------------------------------------------
(* The end of a run.                                                       *)

\* The outcome enters the life cycle and the row, and the slot is free.
LEMMA CompletesKeeps ==
    ASSUME NEW r \in Runs, TypeOK, Kept(r), Completes(r)
    PROVE  TypeOK' /\ Alone(r) /\ Kept(r)'
<1>a. /\ at[r] = "finalizing" /\ at'[r] = "over" /\ at' \in [Runs -> Places]
      /\ \A x \in Runs \ {r} : at'[x] = at[x] /\ (active' = x <=> active = x)
      /\ active' \in Runs \cup {NoRun} /\ active' # r
      /\ UNCHANGED <<app, restarts, stopping, tool, calls, pending, outcome,
                     granted, dropped>>
  BY NoRunAssumption DEF Completes, appVars, TypeOK, Places
<1>e. /\ life' \in [Runs -> Lives \cup {"none"}]
      /\ row' \in [Runs -> Rows] /\ faulted' \subseteq Runs
      /\ \A x \in Runs \ {r} :
            /\ life'[x] = life[x]
            /\ row'[x] = row[x] /\ (x \in faulted' <=> x \in faulted)
      /\ r \notin faulted' => r \notin faulted
      /\ row'[r] # "none"
      /\ r \notin faulted' /\ outcome[r] \in Following(life[r]) =>
            life'[r] = outcome[r] /\ row'[r] = Stored(outcome[r])
  <2>1. CASE outcome[r] \in Following(life[r])
    <3>1. outcome[r] \in Lives /\ Enter(r, outcome[r], TRUE)
      BY <2>1 DEF Completes, Following, Lives, Ended
    <3>2. Stored(outcome[r]) # "none" /\ row[r] # "none"
      BY <3>1, <1>a DEF Stored, Lives, Ended, Kept, Placed
    <3> QED
      BY <3>1, <3>2, EnterType
  <2>2. CASE outcome[r] \notin Following(life[r])
    BY <2>2, <1>a DEF Completes, TypeOK, Kept, Placed
  <2> QED
    BY <2>1, <2>2
<1>s. /\ shown' \in [Runs -> Shows]
      /\ \A x \in Runs \ {r} : shown'[x] = shown[x]
      /\ shown'[r] \in {"end", shown[r]}
  BY ShowType, "end" \in Shows DEF Completes, Shows
<1>1. TypeOK'
  BY <1>a, <1>e, <1>s DEF TypeOK
<1>2. Alone(r)
  BY <1>a, <1>e, <1>s DEF Alone, Same
<1>3. Approved(r)'
  BY <1>a DEF Approved
<1>4. Placed(r)'
  BY <1>a, <1>e, <1>s DEF Placed, Kept
<1>5. r \notin faulted' => Sound(r)'
  <2>1. HAVE r \notin faulted'
  <2>2. life[r] \in {"running", "cancelling"} /\ outcome[r] \in Ended
    BY <2>1, <1>a, <1>e DEF Kept, Sound
  <2>3. outcome[r] \in Following(life[r]) /\ Stored(outcome[r]) = outcome[r]
    BY <2>2 DEF Following, Lives, Ended, Stored
  <2> QED
    BY <2>1, <2>2, <2>3, <1>a, <1>e DEF Sound, Turning
<1> QED
  BY <1>1, <1>2, <1>3, <1>4, <1>5 DEF Kept

\* An end whose write threw faults the run, and frees the slot all the same.
LEMMA CompletesThrowsKeeps ==
    ASSUME NEW r \in Runs, TypeOK, Kept(r), NEW told, CompletesThrows(r, told)
    PROVE  TypeOK' /\ Alone(r) /\ Kept(r)'
<1>a. /\ at[r] = "finalizing" /\ at'[r] = "over" /\ at' \in [Runs -> Places]
      /\ \A x \in Runs \ {r} : at'[x] = at[x] /\ (active' = x <=> active = x)
      /\ active' \in Runs \cup {NoRun} /\ active' # r
      /\ UNCHANGED <<app, restarts, stopping, tool, calls, pending, outcome,
                     granted, dropped>>
  BY NoRunAssumption DEF CompletesThrows, appVars, TypeOK, Places
<1>e. /\ life' \in [Runs -> Lives \cup {"none"}]
      /\ row' = row /\ faulted' = faulted \cup {r}
      /\ \A x \in Runs \ {r} : life'[x] = life[x]
  <2>1. outcome[r] \in Lives \cup {"none"} /\ Enter(r, outcome[r], FALSE)
    BY DEF CompletesThrows, TypeOK, Lives
  <2> QED
    BY <2>1 DEF Enter, Write, TypeOK
<1>s. /\ shown' \in [Runs -> Shows]
      /\ \A x \in Runs \ {r} : shown'[x] = shown[x]
      /\ shown'[r] \in {"end", shown[r]}
  BY DEF CompletesThrows, Show, TypeOK, Shows
<1>1. TypeOK'
  BY <1>a, <1>e, <1>s DEF TypeOK
<1>2. Alone(r)
  BY <1>a, <1>e, <1>s DEF Alone, Same
<1>3. Approved(r)'
  BY <1>a DEF Approved
<1>4. Placed(r)' /\ r \in faulted'
  BY <1>a, <1>e, <1>s DEF Placed, Kept
<1> QED
  BY <1>1, <1>2, <1>3, <1>4 DEF Kept

-----------------------------------------------------------------------------
(* The window and the process.                                             *)

\* Closing the window stops the run in the slot and drops what is in progress.
LEMMA DisposeKeeps ==
    ASSUME IInv, Dispose
    PROVE  IInv'
<1>a. /\ app' = "closing" /\ active' = NoRun
      /\ dropped' = dropped \cup InProgress
      /\ UNCHANGED <<restarts, life, calls, outcome, row, shown, granted, faulted>>
  BY DEF Dispose
<1>p. /\ stopping' \in [Runs -> BOOLEAN]
      /\ pending' \in [Runs -> SUBSET (1 .. MaxCalls)]
      /\ at' \in [Runs -> Places] /\ tool' \in [Runs -> Tools \cup {"none"}]
      /\ \A x \in Runs :
            IF active = x
            THEN /\ stopping'[x] /\ pending'[x] = {}
                 /\ IF at[x] = "asking" /\ calls[x] \in pending[x]
                    THEN at'[x] = "model"
                    ELSE at'[x] = at[x] /\ tool'[x] = tool[x]
            ELSE /\ stopping'[x] = stopping[x] /\ pending'[x] = pending[x]
                 /\ at'[x] = at[x] /\ tool'[x] = tool[x]
  <2>1. CASE active = NoRun
    BY <2>1, NoRunAssumption DEF IInv, Dispose, TypeOK
  <2>2. CASE active # NoRun
    <3>1. active \in Runs /\ Stop(active) /\ TypeOK
      BY <2>2 DEF IInv, Dispose, TypeOK
    <3> QED
      BY <3>1, StopType
  <2> QED
    BY <2>1, <2>2
<1>1. TypeOK'
  BY <1>a, <1>p DEF IInv, TypeOK, InProgress
<1>2. ASSUME NEW x \in Runs PROVE Kept(x)'
  <2>k. Kept(x) /\ active' # x /\ (x \in dropped' <=> x \in dropped \/ at[x] \in Busy)
    BY <1>a, NoRunAssumption DEF IInv, InProgress
  <2>1. Approved(x)'
    BY <2>k, <1>a, <1>p DEF Approved, Kept, NeedsApproval
  <2>2. Placed(x)'
    BY <2>k, <1>a, <1>p DEF Placed, Kept, Turning
  <2>3. x \notin faulted' => Sound(x)'
    BY <2>k, <1>a, <1>p DEF Sound, Kept, Turning, Busy
  <2> QED
    BY <2>1, <2>2, <2>3 DEF Kept
<1> QED
  BY <1>1, <1>2 DEF IInv

\* A new process has no run in progress, and no row is left open.
LEMMA RestartKeeps ==
    ASSUME IInv, Restart
    PROVE  IInv'
<1>a. /\ active' = NoRun
      /\ UNCHANGED <<life, outcome, shown, faulted, dropped>>
      /\ \A x \in Runs :
            /\ at'[x] = IF at[x] \in Busy THEN "over" ELSE at[x]
            /\ stopping'[x] = FALSE /\ pending'[x] = {}
            /\ row'[x] = IF row[x] \in {"created", "planning", "running"}
                         THEN "failed" ELSE row[x]
  BY DEF Restart
<1>1. TypeOK'
  <2>1. /\ app' = "open" /\ restarts' \in 0 .. MaxRestarts
        /\ at' \in [Runs -> Places] /\ row' \in [Runs -> Rows]
    BY MaxRestartsAssumption DEF IInv, TypeOK, Restart, Places, Rows, Ended
  <2>2. /\ stopping' \in [Runs -> BOOLEAN]
        /\ tool' \in [Runs -> Tools \cup {"none"}]
        /\ calls' \in [Runs -> 0 .. MaxCalls]
        /\ pending' \in [Runs -> SUBSET (1 .. MaxCalls)]
        /\ granted' \in [Runs -> 0 .. MaxCalls]
    BY MaxCallsAssumption DEF Restart
  <2> QED
    BY <1>a, <2>1, <2>2 DEF IInv, TypeOK
<1>2. ASSUME NEW x \in Runs PROVE Kept(x)'
  <2>t. Kept(x) /\ active' # x /\ row[x] \in Rows /\ at[x] \in Places
    BY <1>a, NoRunAssumption DEF IInv, TypeOK
  <2>a. at'[x] \in {"idle", "over"} /\ (at'[x] = "idle" <=> at[x] = "idle")
    BY <2>t, <1>a DEF Places, Busy, Turning
  <2>r. /\ row'[x] \in Ended \cup {"none"}
        /\ row'[x] = "none" <=> row[x] = "none"
        /\ row[x] \in Ended => row'[x] = row[x]
    BY <2>t, <1>a DEF Rows, Ended
  <2>1. Approved(x)'
    BY <2>t, <2>a, <2>r DEF Approved
  <2>2. Placed(x)'
    BY <2>t, <2>a, <2>r, <1>a DEF Placed, Kept, Turning, Ended
  <2>3. x \notin faulted' => Sound(x)'
    BY <2>t, <2>a, <2>r, <1>a DEF Sound, Kept, Turning, Ended, Placed
  <2> QED
    BY <2>1, <2>2, <2>3 DEF Kept
<1> QED
  BY <1>1, <1>2 DEF IInv

\* A step that leaves the runs and the slot alone keeps the invariant.
LEMMA OutsideKeeps ==
    ASSUME IInv, app' \in {"open", "closing", "closed"},
           UNCHANGED <<restarts, active, runVars, row, histVars>>
    PROVE  IInv'
<1>1. TypeOK'
  BY DEF IInv, TypeOK, runVars, histVars
<1>2. ASSUME NEW x \in Runs PROVE Kept(x)'
  <2>1. Kept(x) /\ Same(x)
    BY DEF IInv, Same, runVars, histVars
  <2> QED
    BY <2>1, SameIsKept
<1> QED
  BY <1>1, <1>2 DEF IInv

-----------------------------------------------------------------------------
(* The invariant.                                                          *)

\* The initial state satisfies the invariant.
LEMMA InitIInv == Init => IInv
<1> SUFFICES ASSUME Init PROVE IInv
  OBVIOUS
<1>1. TypeOK
  BY MaxCallsAssumption, MaxRestartsAssumption DEF Init, TypeOK, Places, Rows, Shows
<1>2. ASSUME NEW r \in Runs PROVE Kept(r)
  BY NoRunAssumption
  DEF Init, Kept, Approved, Placed, Sound, Turning
<1> QED
  BY <1>1, <1>2 DEF IInv

\* Every step of a run keeps the invariant.
LEMMA RunKeeps ==
    ASSUME IInv, NEW r \in Runs, Work(r) \/ Delta(r) \/ Developer(r)
    PROVE  TypeOK' /\ Alone(r) /\ Kept(r)'
<1> USE DEF IInv
<1>1. CASE Prepare(r)
  BY <1>1, ReserveKeeps, NotStartedKeeps, ReserveThrowsKeeps DEF Prepare
<1>2. CASE Start(r)
  BY <1>2, TurnStartsKeeps, TurnStartsDroppedKeeps, TurnStartThrowsKeeps,
     ResolveFailsKeeps DEF Start
<1>3. CASE Loop(r)
  BY <1>3, ModelEndsKeeps, CallsToolKeeps, AsksInVainKeeps, AsksKeeps,
     EffectEndsKeeps DEF Loop
<1>4. CASE Finish(r)
  BY <1>4, CompletesKeeps, CompletesThrowsKeeps DEF Finish
<1>5. CASE Delta(r)
  BY <1>5, DeltaKeeps
<1>6. CASE Developer(r)
  BY <1>6, SendKeeps, CancelKeeps, CancelThrowsKeeps, AnswerThrowsKeeps,
     AnswerKeeps DEF Developer
<1> QED
  BY <1>1, <1>2, <1>3, <1>4, <1>5, <1>6 DEF Work

\* Every step keeps the invariant.
LEMMA NextIInv == IInv /\ [Next]_vars => IInv'
<1> SUFFICES ASSUME IInv, [Next]_vars PROVE IInv'
  OBVIOUS
<1>1. ASSUME NEW r \in Runs, Work(r) \/ Delta(r) \/ Developer(r) PROVE IInv'
  BY <1>1, RunKeeps, OneRunIsEnough
<1>2. CASE Dispose
  BY <1>2, DisposeKeeps
<1>3. CASE Restart
  BY <1>3, RestartKeeps
<1>4. CASE Reopen
  BY <1>4, OutsideKeeps DEF Reopen
<1>5. CASE CloseDatabase
  BY <1>5, OutsideKeeps DEF CloseDatabase
<1>6. CASE UNCHANGED vars
  <2>1. /\ app' \in {"open", "closing", "closed"}
        /\ UNCHANGED <<restarts, active, runVars, row, histVars>>
    BY <1>6 DEF vars, appVars, IInv, TypeOK
  <2> QED
    BY <2>1, OutsideKeeps
<1> QED
  BY <1>1, <1>2, <1>3, <1>4, <1>5, <1>6 DEF Next

\* The strengthening holds in every reachable state.
THEOREM Strengthening == Spec => []IInv
  BY InitIInv, NextIInv, PTL DEF Spec

-----------------------------------------------------------------------------
(* The invariants the runs check.                                          *)

\* The coordinator, the runs and the rows always hold what the code puts in
\* them.
THEOREM TypeIsKept == Spec => []TypeOK
  BY Strengthening, PTL DEF IInv

\* No tool waits for an answer that the coordinator would refuse.
THEOREM WaitersAreAnswerable == Spec => []WaiterIsAnswerable
<1>1. IInv => WaiterIsAnswerable
  BY DEF IInv, Kept, Sound, WaiterIsAnswerable
<1> QED
  BY <1>1, Strengthening, PTL

\* No tool that needs an approval is at work without that very approval,
\* whatever throws and whichever window is open.
THEOREM EffectsAreApproved == Spec => []EffectIsApproved
<1>1. IInv => EffectIsApproved
  BY DEF IInv, Kept, Approved, EffectIsApproved
<1> QED
  BY <1>1, Strengthening, PTL

\* The end the renderer is told of is the one the row keeps.
THEOREM OutcomesAreStored == Spec => []OutcomeIsStored
<1>1. IInv => OutcomeIsStored
  BY DEF IInv, Kept, Sound, OutcomeIsStored
<1> QED
  BY <1>1, Strengthening, PTL

\* Of two turns at work one was told to stop, whatever window owns them.
THEOREM OneTurnIsLive == Spec => []OneLiveTurn
<1>1. IInv => OneLiveTurn
  <2> SUFFICES ASSUME IInv, NEW r \in Runs, NEW s \in Runs, r # s,
                      {r, s} \cap faulted = {}, {at[r], at[s]} \subseteq Turning
               PROVE  stopping[r] \/ stopping[s]
    BY DEF OneLiveTurn
  <2>1. Sound(r) /\ Sound(s)
    BY DEF IInv, Kept
  <2>2. active # r \/ active # s
    OBVIOUS
  <2> QED
    BY <2>1, <2>2 DEF Sound
<1> QED
  BY <1>1, Strengthening, PTL

\* Only a fault or a closed window leaves a row open behind a run that is over.
THEOREM OpenRowsHaveRuns == Spec => []OpenRowHasRun
<1>1. IInv => OpenRowHasRun
  <2> SUFFICES ASSUME IInv, NEW r \in Runs, r \notin faulted, r \notin dropped,
                      row[r] \in {"created", "planning", "running"}
               PROVE  at[r] \in Busy
    BY DEF OpenRowHasRun
  <2>1. Sound(r) /\ Placed(r) /\ at[r] \in Places
    BY DEF IInv, Kept, TypeOK
  <2> QED
    BY <2>1 DEF Sound, Placed, Places, Ended
<1> QED
  BY <1>1, Strengthening, PTL

-----------------------------------------------------------------------------
(* The action properties.                                                  *)

\* A step of a run does not change the row of a run that ended.
LEMMA RowStaysFinal ==
    ASSUME IInv, NEW r \in Runs, Work(r) \/ Delta(r) \/ Developer(r),
           row[r] \in Ended
    PROVE  row'[r] = row[r]
<1>t. TypeOK /\ Placed(r)
  BY DEF IInv, Kept
<1>e. ASSUME NEW s \in Lives, NEW ok, Enter(r, s, ok) PROVE row'[r] = row[r]
  BY <1>t, <1>e, EnterType
<1>w. ASSUME NEW s \in Rows, NEW ok, Write(r, s, ok) PROVE row'[r] = row[r]
  BY <1>t, <1>w, WriteType
<1>1. CASE Prepare(r)
  BY <1>1, <1>t DEF Prepare, Reserve, NotStarted, ReserveThrows, Placed, Ended
<1>2. CASE Start(r)
  <2>1. CASE TurnStarts(r)
    BY <2>1, <1>e, "running" \in Lives DEF TurnStarts, Lives
  <2>2. CASE TurnStartsDropped(r)
    BY <2>2 DEF TurnStartsDropped
  <2>3. ASSUME NEW ok, TurnStartThrows(r, ok) PROVE row'[r] = row[r]
    BY <2>3, <1>t DEF TurnStartThrows, Writes, TypeOK
  <2>4. ASSUME NEW ok, ResolveFails(r, ok) PROVE row'[r] = row[r]
    BY <2>4, <1>e, "failed" \in Lives DEF ResolveFails, Lives, Ended
  <2> QED
    BY <1>2, <2>1, <2>2, <2>3, <2>4 DEF Start
<1>3. CASE Loop(r)
  <2>1. ASSUME NEW t \in Tools, NEW ok \in BOOLEAN, Asks(r, t, ok)
        PROVE  row'[r] = row[r]
    BY <2>1, <1>e, "waiting-approval" \in Lives DEF Asks, Lives
  <2>2. CASE \E o \in Ended : ModelEnds(r, o)
    BY <2>2 DEF ModelEnds
  <2>3. ASSUME NEW t \in Tools, CallsTool(r, t) \/ AsksInVain(r, t)
        PROVE  row'[r] = row[r]
    BY <2>3 DEF CallsTool, AsksInVain
  <2>4. CASE EffectEnds(r)
    BY <2>4 DEF EffectEnds
  <2> QED
    BY <1>3, <2>1, <2>2, <2>3, <2>4 DEF Loop
<1>4. CASE Finish(r)
  <2>1. CASE Completes(r)
    <3>1. outcome[r] \in Lives \/ outcome[r] = "none"
      BY <1>t DEF TypeOK, Lives
    <3>2. "none" \notin Following(life[r])
      BY DEF Following, Lives, Ended
    <3> QED
      BY <2>1, <3>1, <3>2, <1>e DEF Completes
  <2>2. ASSUME NEW told, CompletesThrows(r, told) PROVE row'[r] = row[r]
    BY <2>2 DEF CompletesThrows, Enter, Write
  <2> QED
    BY <1>4, <2>1, <2>2 DEF Finish
<1>5. CASE Delta(r)
  BY <1>5 DEF Delta
<1>6. CASE Developer(r)
  <2>1. CASE Send(r)
    BY <2>1, <1>t DEF Send, Placed, Ended
  <2>2. CASE Cancel(r) \/ CancelThrows(r)
    BY <2>2, <1>e, "cancelling" \in Lives DEF Cancel, CancelThrows, Lives
  <2>3. ASSUME NEW k \in 1 .. MaxCalls, AnswerThrows(r, k) PROVE row'[r] = row[r]
    BY <2>3, <1>e, "running" \in Lives DEF AnswerThrows, Lives
  <2>4. ASSUME NEW k \in 1 .. MaxCalls, NEW yes \in BOOLEAN, Answer(r, k, yes)
        PROVE  row'[r] = row[r]
    BY <2>4, <1>e, "running" \in Lives DEF Answer, Lives
  <2> QED
    BY <1>6, <2>1, <2>2, <2>3, <2>4 DEF Developer
<1> QED
  BY <1>1, <1>2, <1>3, <1>4, <1>5, <1>6 DEF Work

\* The terminal result of an execution is immutable, across late turns,
\* windows and restarts.
THEOREM RowsStayFinal == Spec => RowsAreFinal
<1>1. ASSUME IInv, [Next]_vars, NEW r \in Runs, row[r] \in Ended
      PROVE  row'[r] = row[r]
  <2>1. ASSUME NEW s \in Runs, Work(s) \/ Delta(s) \/ Developer(s)
        PROVE  row'[r] = row[r]
    BY <1>1, <2>1, RowStaysFinal, RunKeeps DEF Alone, Same
  <2>2. CASE Dispose \/ Reopen \/ CloseDatabase \/ UNCHANGED vars
    BY <2>2 DEF Dispose, Reopen, CloseDatabase, vars
  <2>3. CASE Restart
    BY <1>1, <2>3 DEF Restart, Ended
  <2> QED
    BY <1>1, <2>1, <2>2, <2>3 DEF Next
<1>2. IInv /\ [Next]_vars =>
          [\A r \in Runs : row[r] \in Ended => row'[r] = row[r]]_vars
  BY <1>1
<1> QED
  BY <1>2, Strengthening, PTL DEF Spec, RowsAreFinal

\* What a step may show of a run.
ShownNext(r) ==
    /\ shown[r] \in {"failed", "end"} => shown'[r] = shown[r]
    /\ shown[r] = "cancelling" => shown'[r] \in {"cancelling", "failed", "end"}

\* A step of a run shows nothing of it that its cancellation or its end
\* excludes.
LEMMA ShowsInOrder ==
    ASSUME IInv, NEW r \in Runs, Work(r) \/ Delta(r) \/ Developer(r)
    PROVE  ShownNext(r)
<1>t. TypeOK /\ Placed(r)
  BY DEF IInv, Kept
<1>u. ASSUME UNCHANGED shown PROVE ShownNext(r)
  BY <1>u DEF ShownNext
\* Something new is shown only of a run that is not cancelled.
<1>n. ASSUME NEW m \in Shows, Show(r, m),
             active = r, life[r] # "cancelling", at[r] # "over"
      PROVE  ShownNext(r)
  BY <1>n, <1>t DEF ShownNext, Placed
<1>f. ASSUME NEW m \in {"cancelling", "failed", "end"}, Show(r, m),
             active = r \/ at[r] \in {"resolving", "finalizing"}
      PROVE  ShownNext(r)
  BY <1>f, <1>t DEF ShownNext, Placed, Show, TypeOK, Turning
<1>r. ASSUME NEW o, EndTurn(r, o), at[r] \in {"model", "effect"}
      PROVE  ShownNext(r)
  BY <1>r, <1>u, <1>n, "error" \in Shows DEF EndTurn, Forwarded, Shows
<1>1. CASE Prepare(r)
  <2>1. at[r] = "preparing"
    BY <1>1 DEF Prepare, Reserve, NotStarted, ReserveThrows
  <2> QED
    BY <2>1, <1>t DEF Placed, ShownNext
<1>2. CASE Start(r)
  <2>1. CASE TurnStarts(r)
    BY <2>1, <1>u, <1>n, "running" \in Shows DEF TurnStarts, Shows
  <2>2. CASE TurnStartsDropped(r)
    BY <2>2, <1>u DEF TurnStartsDropped, histVars
  <2>3. ASSUME NEW ok, TurnStartThrows(r, ok) PROVE ShownNext(r)
    BY <2>3, <1>u, <1>f DEF TurnStartThrows
  <2>4. ASSUME NEW ok, ResolveFails(r, ok) PROVE ShownNext(r)
    BY <2>4, <1>u, <1>f DEF ResolveFails
  <2> QED
    BY <1>2, <2>1, <2>2, <2>3, <2>4 DEF Start
<1>3. CASE Loop(r)
  <2>1. ASSUME NEW t \in Tools, NEW ok \in BOOLEAN, Asks(r, t, ok)
        PROVE  ShownNext(r)
    BY <2>1, <1>u, <1>n, "request" \in Shows, NextCallType, <1>t
    DEF Asks, Forwarded, Shows
  <2>2. ASSUME NEW o \in Ended, ModelEnds(r, o) PROVE ShownNext(r)
    BY <2>2, <1>r DEF ModelEnds
  <2>3. ASSUME NEW t \in Tools, CallsTool(r, t) \/ AsksInVain(r, t)
        PROVE  ShownNext(r)
    BY <2>3, <1>u DEF CallsTool, AsksInVain
  <2>4. CASE EffectEnds(r)
    BY <2>4, <1>u, <1>r DEF EffectEnds
  <2> QED
    BY <1>3, <2>1, <2>2, <2>3, <2>4 DEF Loop
<1>4. CASE Finish(r)
  <2>1. CASE Completes(r)
    BY <2>1, <1>f DEF Completes
  <2>2. ASSUME NEW told, CompletesThrows(r, told) PROVE ShownNext(r)
    BY <2>2, <1>u, <1>f DEF CompletesThrows
  <2> QED
    BY <1>4, <2>1, <2>2 DEF Finish
<1>5. CASE Delta(r)
  BY <1>5, <1>n, "text" \in Shows DEF Delta, Forwarded, Shows
<1>6. CASE Developer(r)
  <2>1. CASE Send(r) \/ CancelThrows(r)
    BY <2>1, <1>u DEF Send, CancelThrows, histVars
  <2>2. CASE Cancel(r)
    BY <2>2, <1>f DEF Cancel
  <2>3. ASSUME NEW k \in 1 .. MaxCalls, AnswerThrows(r, k) PROVE ShownNext(r)
    BY <2>3, <1>u DEF AnswerThrows
  <2>4. ASSUME NEW k \in 1 .. MaxCalls, NEW yes \in BOOLEAN, Answer(r, k, yes)
        PROVE  ShownNext(r)
    <3>1. shown[r] \notin {"failed", "end", "cancelling"}
      BY <2>4, <1>t DEF Answer, Placed, Ended
    <3> QED
      BY <3>1 DEF ShownNext
  <2> QED
    BY <1>6, <2>1, <2>2, <2>3, <2>4 DEF Developer
<1> QED
  BY <1>1, <1>2, <1>3, <1>4, <1>5, <1>6 DEF Work

\* After its cancellation a run shows nothing but its end, and after its end
\* nothing, also when late events arrive.
THEOREM ShowsStayInOrder == Spec => ShownInOrder
<1>1. ASSUME IInv, [Next]_vars, NEW r \in Runs PROVE ShownNext(r)
  <2>1. ASSUME NEW s \in Runs, Work(s) \/ Delta(s) \/ Developer(s)
        PROVE  ShownNext(r)
    BY <1>1, <2>1, ShowsInOrder, RunKeeps DEF Alone, Same, ShownNext
  <2>2. CASE Dispose \/ Reopen \/ CloseDatabase \/ Restart \/ UNCHANGED vars
    BY <2>2 DEF Dispose, Reopen, CloseDatabase, Restart, vars, histVars, ShownNext
  <2> QED
    BY <1>1, <2>1, <2>2 DEF Next
<1>2. IInv /\ [Next]_vars =>
          [\A r \in Runs :
              /\ shown[r] \in {"failed", "end"} => shown'[r] = shown[r]
              /\ shown[r] = "cancelling" =>
                    shown'[r] \in {"cancelling", "failed", "end"}]_vars
  BY <1>1 DEF ShownNext
<1> QED
  BY <1>2, Strengthening, PTL DEF Spec, ShownInOrder

\* A cancelled run starts no tool: the one that waits was refused, and the
\* loop finds the signal aborted.
THEOREM NoToolStartsAfterCancel == Spec => NoToolAfterCancel
<1>1. ASSUME IInv, [Next]_vars, NEW r \in Runs, life[r] = "cancelling",
             at'[r] = "effect", at[r] # "effect"
      PROVE  r \in faulted
  <2> SUFFICES ASSUME r \notin faulted PROVE FALSE
    OBVIOUS
  <2>t. TypeOK /\ Sound(r) /\ at[r] \in Places
    BY <1>1 DEF IInv, Kept, TypeOK
  <2>1. ASSUME NEW s \in Runs, s # r, Work(s) \/ Delta(s) \/ Developer(s)
        PROVE  FALSE
    BY <1>1, <2>1, RunKeeps DEF Alone, Same
  <2>2. CASE Prepare(r) \/ Start(r) \/ Finish(r)
    BY <1>1, <2>2, <2>t
    DEF Prepare, Start, Finish, Reserve, NotStarted, ReserveThrows, TurnStarts,
        TurnStartsDropped, TurnStartThrows, ResolveFails, Completes,
        CompletesThrows, TypeOK
  <2>3. CASE Loop(r)
    <3>1. ASSUME NEW t \in Tools, CallsTool(r, t) PROVE FALSE
      BY <3>1, <1>1, <2>t, NextCallType DEF CallsTool, Sound
    <3>2. CASE \/ EffectEnds(r) \/ \E o \in Ended : ModelEnds(r, o)
               \/ \E t \in Tools : AsksInVain(r, t)
      BY <3>2, <1>1, <2>t
      DEF EffectEnds, ModelEnds, AsksInVain, EndTurn, Tooling, TypeOK
    <3>3. ASSUME NEW t \in Tools, NEW ok \in BOOLEAN, Asks(r, t, ok) PROVE FALSE
      BY <3>3, <1>1, <2>t, NextCallType DEF Asks, Sound
    <3> QED
      BY <2>3, <3>1, <3>2, <3>3 DEF Loop
  <2>4. CASE Delta(r) \/ Developer(r)
    BY <1>1, <2>4, <2>t
    DEF Delta, Developer, Send, Cancel, CancelThrows, AnswerThrows, Answer,
        Stop, Tooling, runVars, TypeOK
  <2>5. CASE Dispose
    BY <1>1, <2>5, <2>t DEF Dispose, Stop, Tooling, TypeOK
  <2>6. CASE Reopen \/ CloseDatabase \/ Restart \/ UNCHANGED vars
    BY <1>1, <2>6, <2>t DEF Reopen, CloseDatabase, Restart, runVars, vars
  <2> QED
    BY <1>1, <2>1, <2>2, <2>3, <2>4, <2>5, <2>6 DEF Next, Work
<1>2. IInv /\ [Next]_vars =>
          [\A r \in Runs :
              life[r] = "cancelling" /\ at'[r] = "effect" =>
                  at[r] = "effect" \/ r \in faulted]_vars
  BY <1>1
<1> QED
  BY <1>2, Strengthening, PTL DEF Spec, NoToolAfterCancel

=============================================================================
