----------------------- MODULE ChangeDecisionProofs ------------------------
(***************************************************************************)
(* Proofs that the decisions of ChangeDecision keep bytes, journal and     *)
(* database consistent, for any files, contents, checkpoints and bounds,   *)
(* and that the panel which asks for them follows the database.            *)
(***************************************************************************)
EXTENDS ChangeDecision, ReviewPanel, SequenceTheorems, TLAPS

-----------------------------------------------------------------------------
\* The inductive invariant, part by part.

\* No process, no request.
DownIsQuiet == app = "down" => queue = <<>> /\ step = "idle" /\ revert = NoRevert

\* The change of the decision in progress is still open: nothing else can
\* decide it meanwhile.
JobIsOpen == step # "idle" => Decidable(job)

\* The worker executes only what a journal announced.
CommandsAnnounced ==
    /\ \A c \in Changes :
          /\ worker[c] \in {"displace", "rename", "publish", "check"}
                => "displace-intent" \in journal[c]
          /\ worker[c] \in {"publish", "check"} => "publish-intent" \in journal[c]
    /\ step \in {"displacing", "displaced", "publishing", "published"}
          => "displace-intent" \in journal[this]

\* A rejection gets to its commit through a verified restoration.
CommitIsVerified ==
    /\ step \in RollbackSteps \cup {"restore"} => job.decision = "rejected"
    /\ step = "commit" /\ job.decision = "rejected" => "verified" \in journal[this]

\* The decision in progress answers for its file from the intent on; before
\* that, a file with a journal has an earlier decision to answer for it.
Answered(c) == status[c] \in {"rejected", "conflicted"} \/ c \in intents \cup failures
InProgress ==
    \/ step \in RollbackSteps \cup {"failed", "recorded"}
    \/ step = "commit" /\ job.decision = "rejected"
TraceIsLeft ==
    /\ \A c \in Changes :
          journal[c] # {} => Answered(c) \/ (InProgress /\ c = this)
    /\ step = "recorded" => this \in failures

\* The Build revert has at most one request in the queue, and has rejected
\* every file it no longer lists.
OneRevertRequest ==
    /\ \A i \in DOMAIN queue : queue[i].reverting =>
          /\ revert.at = "waiting"
          /\ queue[i].decision = "rejected"
    /\ \A i, j \in DOMAIN queue :
          queue[i].reverting /\ queue[j].reverting => i = j
RevertCovers ==
    revert.at # "idle" => Changes \ revert.files \subseteq With(status, "rejected")

IInv ==
    /\ TypeOK
    /\ DownIsQuiet
    /\ JobIsOpen
    /\ PeerBytesSurvive
    /\ CommandsAnnounced
    /\ MutationsAreJournaled
    /\ CommitIsVerified
    /\ RejectedIsRestored
    /\ TraceIsLeft
    /\ SetFollowsChanges
    /\ OneRevertRequest
    /\ RevertCovers

-----------------------------------------------------------------------------
\* The queue.

\* The head is a request of the queue, the tail holds the others.
LEMMA Dequeued ==
    ASSUME NEW q \in Seq(Requests), q # <<>>
    PROVE  /\ Tail(q) \in Seq(Requests)
           /\ Head(q) \in Requests
           /\ 1 \in DOMAIN q /\ Head(q) = q[1]
           /\ \A i \in DOMAIN Tail(q) :
                 i + 1 \in DOMAIN q /\ i + 1 # 1 /\ Tail(q)[i] = q[i + 1]
PROOF OBVIOUS

\* Appending a request leaves the decision in progress at the head.
LEMMA Enqueued ==
    ASSUME NEW q \in Seq(Requests), NEW r \in Requests
    PROVE  /\ Append(q, r) \in Seq(Requests)
           /\ Append(q, r) # <<>>
           /\ \A i \in DOMAIN Append(q, r) :
                 \/ i \in DOMAIN q /\ Append(q, r)[i] = q[i]
                 \/ i = Len(q) + 1 /\ Append(q, r)[i] = r
           /\ q # <<>> => Head(Append(q, r)) = Head(q)
PROOF
<1>1. /\ Append(q, r) \in Seq(Requests)
      /\ Len(Append(q, r)) = Len(q) + 1
      /\ \A i \in 1 .. Len(q) : Append(q, r)[i] = q[i]
      /\ Append(q, r)[Len(q) + 1] = r
    BY AppendProperties
<1>2. Append(q, r) # <<>>
    BY <1>1, EmptySeq, LenProperties
<1>3. DOMAIN q = 1 .. Len(q) /\ DOMAIN Append(q, r) = 1 .. Len(q) + 1 /\ Len(q) \in Nat
    BY <1>1, LenProperties
<1>4. \A i \in 1 .. Len(q) + 1 : i \in 1 .. Len(q) \/ i = Len(q) + 1
    BY <1>3
<1>5. q # <<>> => Head(Append(q, r)) = Head(q)
    <2>1. SUFFICES ASSUME q # <<>> PROVE Head(Append(q, r)) = Head(q)
        OBVIOUS
    <2>2. 1 \in 1 .. Len(q)
        BY <2>1, <1>3, EmptySeq
    <2>3. Append(q, r)[1] = q[1]
        BY <2>2, <1>1
    <2> QED BY <2>1, <2>3, <1>1, <1>2, Dequeued
<1> QED BY <1>1, <1>2, <1>3, <1>4, <1>5

\* Closing the window marks every request and moves none.
LEMMA Marked ==
    ASSUME NEW q \in Seq(Requests)
    PROVE  LET m == [i \in DOMAIN q |-> [q[i] EXCEPT !.stale = TRUE]] IN
           /\ m \in Seq(Requests)
           /\ DOMAIN m = DOMAIN q
           /\ q # <<>> => m # <<>>
           /\ q = <<>> => m = <<>>
           /\ \A i \in DOMAIN q : m[i] = [q[i] EXCEPT !.stale = TRUE]
           /\ q # <<>> => Head(m) = [Head(q) EXCEPT !.stale = TRUE]
PROOF
<1> DEFINE m == [i \in DOMAIN q |-> [q[i] EXCEPT !.stale = TRUE]]
<1>1. DOMAIN q = 1 .. Len(q) /\ Len(q) \in Nat /\ \A i \in 1 .. Len(q) : q[i] \in Requests
    BY LenProperties, ElementOfSeq
<1>2. \A r \in Requests : [r EXCEPT !.stale = TRUE] \in Requests
    BY DEF Requests
<1>3. m \in [1 .. Len(q) -> Requests]
    BY <1>1, <1>2
<1>4. m \in Seq(Requests) /\ Len(m) = Len(q)
    BY <1>1, <1>3, SeqDef
<1>5. q # <<>> <=> m # <<>>
    BY <1>1, <1>4, EmptySeq
<1>6. q # <<>> => Head(m) = [Head(q) EXCEPT !.stale = TRUE]
    <2>1. SUFFICES ASSUME q # <<>> PROVE Head(m) = [Head(q) EXCEPT !.stale = TRUE]
        OBVIOUS
    <2>2. Head(q) = q[1] /\ 1 \in DOMAIN q
        BY <2>1, Dequeued
    <2>3. m[1] = [q[1] EXCEPT !.stale = TRUE]
        BY <2>2
    <2>4. Head(m) = m[1]
        BY <2>1, <1>4, <1>5, Dequeued
    <2> QED BY <2>2, <2>3, <2>4
<1> QED BY <1>4, <1>5, <1>6

-----------------------------------------------------------------------------
\* Type correctness.

\* The initial state is typed.
LEMMA InitTyped == Init => TypeOK
PROOF BY ContentsAssumption, CheckpointsAssumption, BoundsAssumption
      DEF Init, TypeOK, NoRevert, Steps, ReservedSteps, WorkerStates,
          ChangeStatuses, SetStatuses

\* The decision in progress is a request.
LEMMA JobTyped ==
    ASSUME TypeOK, queue # <<>>
    PROVE  job \in Requests /\ this \in Changes
PROOF BY Dequeued DEF TypeOK, job, this, Requests

\* Answering it keeps the types of the queue and the revert.
LEMMA AnswerTyped ==
    ASSUME TypeOK, queue # <<>>, NEW ok \in BOOLEAN, Answer(ok)
    PROVE  /\ queue' \in Seq(Requests) /\ step' = "idle"
           /\ revert' \in [at : {"idle", "verify", "next", "waiting"},
                           files : SUBSET Changes, stale : BOOLEAN]
PROOF BY Dequeued DEF TypeOK, Answer, NoRevert

\* The status of a set is one of the five.
LEMMA AggregateTyped == \A st : AggregateStatus(st) \in SetStatuses
PROOF BY DEF AggregateStatus, SetStatuses, ChangeStatuses

\* A step of a decision has a request to work on.
LEMMA DecisionBusy ==
    ASSUME TypeOK, Decision
    PROVE  queue # <<>>
PROOF
<1>1. CASE Reserve \/ Refuse
    BY <1>1 DEF Reserve, Refuse
<1>2. CASE step # "idle"
    BY <1>2 DEF TypeOK
<1>3. CASE Verify \/ Observe \/ IntendDisplace \/ Displaced
    BY <1>3, <1>2 DEF Verify, Observe, IntendDisplace, Displaced, Advance
<1>4. CASE IntendPublish \/ Published \/ Restored \/ Commit
    BY <1>4, <1>2 DEF IntendPublish, Published, Restored, Commit, Advance
<1>5. CASE Throw \/ FailDecision \/ SaveConflict \/ FailureUnrecorded
    BY <1>5, <1>2 DEF Throw, FailDecision, SaveConflict, FailureUnrecorded, Advance,
       ReservedSteps, RollbackSteps
<1> QED BY <1>1, <1>3, <1>4, <1>5 DEF Decision

\* Every step keeps the types.
LEMMA StepTyped == TypeOK /\ [Next]_vars => TypeOK'
PROOF
<1> SUFFICES ASSUME TypeOK, [Next]_vars PROVE TypeOK'
    OBVIOUS
<1> USE DEF requestVars, storeVars, fileVars
<1>1. ASSUME NEW c \in Changes, NEW s \in {"accepted", "rejected"}, Decide(c, s)
      PROVE  TypeOK'
    <2> DEFINE r == [change |-> c, decision |-> s, reverting |-> FALSE, stale |-> FALSE]
    <2>1. r \in Requests
        BY DEF Requests
    <2>2. queue' \in Seq(Requests) /\ queue' # <<>>
        BY <1>1, <2>1, Enqueued DEF TypeOK, Decide
    <2> QED BY <1>1, <2>2 DEF TypeOK, Decide
<1>2. ASSUME Decision PROVE TypeOK'
    <2>1. queue # <<>>
        BY <1>2, DecisionBusy
    <2>2. job \in Requests /\ this \in Changes
        BY <2>1, JobTyped
    <2> USE DEF Steps, ReservedSteps, RollbackSteps
    <2>3. CASE Reserve
        BY <2>1, <2>3 DEF TypeOK, Reserve, Advance
    <2>4. CASE Refuse
        BY <2>1, <2>4, AnswerTyped DEF TypeOK, Refuse
    <2>5. CASE Verify
        BY <2>1, <2>5 DEF TypeOK, Verify, Advance
    <2>6. CASE Observe
        BY <2>1, <2>2, <2>6 DEF TypeOK, Observe, Advance, Command, WorkerStates
    <2>7. CASE IntendDisplace
        BY <2>1, <2>2, <2>7 DEF TypeOK, IntendDisplace, Advance, Command, Journal,
            WorkerStates, JournalSteps
    <2>8. CASE Displaced
        BY <2>1, <2>8 DEF TypeOK, Displaced, Advance
    <2>9. CASE IntendPublish
        BY <2>1, <2>2, <2>9 DEF TypeOK, IntendPublish, Advance, Command, Journal,
            WorkerStates, JournalSteps
    <2>10. CASE Published
        BY <2>1, <2>10 DEF TypeOK, Published, Advance
    <2>11. CASE Restored
        BY <2>1, <2>2, <2>11 DEF TypeOK, Restored, Advance, Command, Journal,
            WorkerStates, JournalSteps
    <2>12. CASE Commit
        <3>1. status' \in [Changes -> ChangeStatuses] /\ setStatus' \in SetStatuses
            BY <2>2, <2>12, AggregateTyped DEF TypeOK, Commit, Requests, ChangeStatuses
        <3> QED BY <2>1, <2>12, <3>1, AnswerTyped DEF TypeOK, Commit
    <2>13. CASE Throw
        BY <2>1, <2>2, <2>13 DEF TypeOK, Throw, Closing, WorkerStates
    <2>14. CASE FailDecision
        BY <2>1, <2>2, <2>14 DEF TypeOK, FailDecision, Advance
    <2>15. CASE SaveConflict
        BY <2>1, <2>2, <2>15, AnswerTyped
        DEF TypeOK, SaveConflict, ChangeStatuses, SetStatuses
    <2>16. CASE FailureUnrecorded
        BY <2>1, <2>2, <2>16, AnswerTyped DEF TypeOK, FailureUnrecorded
    <2> QED BY <1>2, <2>3, <2>4, <2>5, <2>6, <2>7, <2>8, <2>9, <2>10, <2>11,
               <2>12, <2>13, <2>14, <2>15, <2>16 DEF Decision
<1>3. ASSUME NEW c \in Changes, Worker(c) PROVE TypeOK'
    <2>1. CASE WorkerVerifies(c)
        BY <2>1 DEF TypeOK, WorkerVerifies, WorkerStates
    <2>2. CASE WorkerRenames(c)
        BY <2>2, ContentsAssumption DEF TypeOK, WorkerRenames, WorkerStates
    <2>3. CASE WorkerPublishes(c)
        BY <2>3, CheckpointsAssumption DEF TypeOK, WorkerPublishes, WorkerStates
    <2>4. CASE WorkerChecks(c)
        BY <2>4 DEF TypeOK, WorkerChecks, WorkerStates
    <2>5. CASE WorkerEnds(c)
        BY <2>5 DEF TypeOK, WorkerEnds, WorkerStates
    <2> QED BY <1>3, <2>1, <2>2, <2>3, <2>4, <2>5 DEF Worker
<1>4. ASSUME NEW c \in Changes, NEW v \in Contents, PeerWrites(c, v) PROVE TypeOK'
    BY <1>4, BoundsAssumption DEF TypeOK, PeerWrites
<1>5. CASE ConfirmRevert
    BY <1>5 DEF TypeOK, ConfirmRevert, With
<1>6. CASE VerifyRevert
    BY <1>6 DEF TypeOK, VerifyRevert, NoRevert
<1>7. ASSUME NEW c \in Changes, RevertNext(c) PROVE TypeOK'
    <2> DEFINE r == [change |-> c, decision |-> "rejected",
                     reverting |-> TRUE, stale |-> revert.stale]
    <2>1. r \in Requests
        BY DEF Requests, TypeOK
    <2>2. queue' \in Seq(Requests) /\ queue' # <<>>
        BY <1>7, <2>1, Enqueued DEF TypeOK, RevertNext
    <2> QED BY <1>7, <2>2 DEF TypeOK, RevertNext
<1>8. CASE CloseWindow
    <2>1. queue' \in Seq(Requests) /\ (queue # <<>> => queue' # <<>>)
        BY <1>8, Marked DEF TypeOK, CloseWindow
    <2> QED BY <1>8, <2>1 DEF TypeOK, CloseWindow, NoRevert
<1>9. CASE OpenWindow
    BY <1>9 DEF TypeOK, OpenWindow
<1>10. CASE Exit
    <2>1. step \in ReservedSteps => this \in Changes
        BY JobTyped DEF TypeOK, ReservedSteps, RollbackSteps
    <2>2. queue' \in Seq(Requests)
        BY <1>10, EmptySeq DEF Exit
    <2>3. worker' \in [Changes -> WorkerStates]
        BY <1>10 DEF Exit, TypeOK, Closing, WorkerStates
    <2> QED BY <1>10, <2>1, <2>2, <2>3, BoundsAssumption DEF TypeOK, Exit, NoRevert, Steps
<1>11. CASE Start
    BY <1>11 DEF TypeOK, Start, ChangeStatuses, SetStatuses
<1>12. CASE UNCHANGED vars
    BY <1>12 DEF TypeOK, vars
<1> QED BY <1>1, <1>2, <1>3, <1>4, <1>5, <1>6, <1>7, <1>8, <1>9, <1>10, <1>11, <1>12
        DEF Next, Revert, Life

\* Every variable keeps its type.
THEOREM TypeCorrect == Spec => []TypeOK
PROOF
<1>1. Spec => Init /\ [][Next]_vars
    BY DEF Spec
<1> QED BY <1>1, InitTyped, StepTyped, PTL

-----------------------------------------------------------------------------
\* What the steps leave alone.

\* The steps that are neither of a decision, nor of a worker, nor of another
\* program.
Elsewhere ==
    \/ \E c \in Changes, s \in {"accepted", "rejected"} : Decide(c, s)
    \/ Revert
    \/ Life
    \/ UNCHANGED vars

\* The steps, grouped by what they can disturb.
LEMMA NextCases ==
    ASSUME [Next]_vars
    PROVE  \/ Elsewhere
           \/ Decision
           \/ \E c \in Changes : Worker(c)
           \/ \E c \in Changes, v \in Contents : PeerWrites(c, v)
PROOF BY DEF Next, Elsewhere

\* The decision in progress, as a later state sees it.
SameJob ==
    /\ queue # <<>>
    /\ job'.change = job.change
    /\ job'.decision = job.decision
    /\ job'.reverting = job.reverting

\* What requests, reverts and the life of the window leave alone.
LEMMA ElsewhereFrame ==
    ASSUME TypeOK, DownIsQuiet, Elsewhere
    PROVE  /\ journal' = journal /\ failures' = failures
           /\ disk' = disk /\ kept' = kept /\ peer' = peer
           /\ worker' = worker \/ worker' = [c \in Changes |-> Closing(worker[c])]
           /\ step' = step \/ (Exit /\ step' = "idle")
           /\ Start \/ (status' = status /\ setStatus' = setStatus)
           /\ step' # "idle" => SameJob /\ status' = status /\ intents' = intents
PROOF
<1> USE DEF requestVars, storeVars, fileVars, SameJob, job
<1>0. step # "idle" => queue # <<>>
    BY DEF TypeOK
<1>1. ASSUME NEW c \in Changes, NEW s \in {"accepted", "rejected"}, Decide(c, s)
      PROVE  Head(queue)' = Head(queue) \/ queue = <<>>
    <2> DEFINE r == [change |-> c, decision |-> s, reverting |-> FALSE, stale |-> FALSE]
    <2>1. r \in Requests
        BY DEF Requests
    <2> QED BY <1>1, <2>1, Enqueued DEF TypeOK, Decide
<1>2. ASSUME NEW c \in Changes, RevertNext(c)
      PROVE  Head(queue)' = Head(queue) \/ queue = <<>>
    <2> DEFINE r == [change |-> c, decision |-> "rejected",
                     reverting |-> TRUE, stale |-> revert.stale]
    <2>1. r \in Requests
        BY DEF Requests, TypeOK
    <2> QED BY <1>2, <2>1, Enqueued DEF TypeOK, RevertNext
<1>3. CASE \E c \in Changes, s \in {"accepted", "rejected"} : Decide(c, s)
    BY <1>0, <1>1, <1>3 DEF Decide
<1>4. CASE Revert
    BY <1>0, <1>2, <1>4 DEF Revert, ConfirmRevert, VerifyRevert, RevertNext
<1>5. CASE CloseWindow
    <2>1. queue # <<>> => Head(queue)' = [Head(queue) EXCEPT !.stale = TRUE]
                          /\ Head(queue) \in Requests
        BY <1>5, Marked, Dequeued DEF TypeOK, CloseWindow
    <2>2. queue # <<>> => SameJob
        BY <2>1 DEF Requests
    <2> QED BY <1>0, <1>5, <2>2 DEF CloseWindow
<1>6. CASE OpenWindow
    BY <1>0, <1>6 DEF OpenWindow
<1>7. CASE Exit
    BY <1>7 DEF Exit
<1>8. CASE Start
    BY <1>8 DEF Start, DownIsQuiet
<1>9. CASE UNCHANGED vars
    BY <1>0, <1>9 DEF vars
<1> QED BY <1>3, <1>4, <1>5, <1>6, <1>7, <1>8, <1>9 DEF Elsewhere, Life

\* A worker changes the disk and its own state.
LEMMA WorkerFrame ==
    ASSUME NEW c \in Changes, Worker(c)
    PROVE  /\ UNCHANGED <<app, queue, step, revert, journal>>
           /\ UNCHANGED <<status, setStatus, intents, failures>>
PROOF BY DEF Worker, WorkerVerifies, WorkerRenames, WorkerPublishes, WorkerChecks,
         WorkerEnds, requestVars, storeVars

\* Another program changes the disk.
LEMMA PeerFrame ==
    ASSUME NEW c \in Changes, NEW v \in Contents, PeerWrites(c, v)
    PROVE  /\ UNCHANGED <<app, queue, step, revert, journal, worker, kept>>
           /\ UNCHANGED <<status, setStatus, intents, failures>>
PROOF BY DEF PeerWrites, requestVars, storeVars

\* A decision never touches the disk itself.
LEMMA DecisionFrame ==
    ASSUME Decision
    PROVE  app' = app /\ UNCHANGED <<disk, kept, peer>>
PROOF BY DEF Decision, Reserve, Refuse, Verify, Observe, IntendDisplace, Displaced,
         IntendPublish, Published, Restored, Commit, Throw, FailDecision,
         SaveConflict, FailureUnrecorded, Advance, fileVars

\* Only a reservation takes a decision out of "idle".
LEMMA DecisionStarts ==
    ASSUME Decision, step' # "idle"
    PROVE  step # "idle" \/ Reserve
PROOF
<1>1. CASE Refuse
    BY <1>1 DEF Refuse, Answer
<1>2. CASE Verify \/ Observe \/ IntendDisplace \/ Displaced
    BY <1>2 DEF Verify, Observe, IntendDisplace, Displaced, Advance
<1>3. CASE IntendPublish \/ Published \/ Restored \/ Commit
    BY <1>3 DEF IntendPublish, Published, Restored, Commit, Advance
<1>4. CASE Throw \/ FailDecision \/ SaveConflict \/ FailureUnrecorded
    BY <1>4 DEF Throw, FailDecision, SaveConflict, FailureUnrecorded, Advance,
       ReservedSteps, RollbackSteps
<1> QED BY <1>1, <1>2, <1>3, <1>4 DEF Decision

\* A decision that goes on works on the request it had, and stores nothing
\* before its end.
LEMMA DecisionGoesOn ==
    ASSUME TypeOK, Decision, step' # "idle"
    PROVE  /\ SameJob /\ queue' = queue /\ revert' = revert
           /\ status' = status /\ setStatus' = setStatus /\ intents' = intents
PROOF
<1>1. queue # <<>>
    BY DecisionBusy
<1> USE DEF SameJob, job, storeVars
<1>2. CASE Reserve \/ Verify \/ Observe \/ IntendDisplace \/ Displaced
    BY <1>1, <1>2 DEF Reserve, Verify, Observe, IntendDisplace, Displaced, Advance
<1>3. CASE IntendPublish \/ Published \/ Restored \/ Throw \/ FailDecision
    BY <1>1, <1>3 DEF IntendPublish, Published, Restored, Throw, FailDecision, Advance
<1>4. CASE Refuse \/ Commit \/ SaveConflict \/ FailureUnrecorded
    BY <1>4 DEF Refuse, Commit, SaveConflict, FailureUnrecorded, Answer
<1> QED BY <1>2, <1>3, <1>4 DEF Decision

-----------------------------------------------------------------------------
\* Each part of the invariant is kept by every step.

\* No process, no queue.
LEMMA DownStaysQuiet ==
    ASSUME IInv, [Next]_vars
    PROVE  DownIsQuiet'
PROOF
<1> USE DEF IInv
<1>1. CASE Elsewhere
    <2>1. ASSUME NEW c \in Changes, NEW s \in {"accepted", "rejected"}, Decide(c, s)
          PROVE  DownIsQuiet'
        BY <2>1 DEF Decide, DownIsQuiet
    <2>2. CASE Revert
        <3>1. app' = app /\ app # "down"
            <4>1. revert.at # "idle" => revert # NoRevert
                BY DEF NoRevert
            <4> QED BY <2>2, <4>1 DEF Revert, ConfirmRevert, VerifyRevert, RevertNext,
                    DownIsQuiet
        <3> QED BY <3>1 DEF DownIsQuiet
    <2>3. CASE Life
        BY <2>3 DEF Life, CloseWindow, OpenWindow, Exit, Start, DownIsQuiet
    <2>4. CASE UNCHANGED vars
        BY <2>4 DEF vars, requestVars, DownIsQuiet
    <2> QED BY <1>1, <2>1, <2>2, <2>3, <2>4 DEF Elsewhere
<1>2. CASE Decision
    BY <1>2, DecisionBusy, DecisionFrame DEF DownIsQuiet
<1>3. ASSUME NEW c \in Changes, Worker(c) PROVE DownIsQuiet'
    BY <1>3, WorkerFrame DEF DownIsQuiet
<1>4. ASSUME NEW c \in Changes, NEW v \in Contents, PeerWrites(c, v) PROVE DownIsQuiet'
    BY <1>4, PeerFrame DEF DownIsQuiet
<1> QED BY <1>1, <1>2, <1>3, <1>4, NextCases

\* The change of the decision in progress is not decided by anyone else: this
\* is what the serialized queue is for.
LEMMA JobStaysOpen ==
    ASSUME IInv, [Next]_vars
    PROVE  JobIsOpen'
PROOF
<1> USE DEF IInv
<1> SUFFICES ASSUME step' # "idle" PROVE Decidable(job)'
    BY DEF JobIsOpen
<1>1. CASE Elsewhere
    <2>1. SameJob /\ status' = status /\ step # "idle"
        BY <1>1, ElsewhereFrame
    <2> QED BY <2>1 DEF JobIsOpen, Decidable, SameJob
<1>2. CASE Decision
    <2>1. SameJob /\ status' = status
        BY <1>2, DecisionGoesOn
    <2>2. step # "idle" \/ Reserve
        BY <1>2, DecisionStarts
    <2>3. Decidable(job)
        BY <2>2 DEF Reserve, JobIsOpen
    <2> QED BY <2>1, <2>3 DEF Decidable, SameJob
<1>3. ASSUME NEW c \in Changes, Worker(c) PROVE Decidable(job)'
    BY <1>3, WorkerFrame DEF JobIsOpen, Decidable, job
<1>4. ASSUME NEW c \in Changes, NEW v \in Contents, PeerWrites(c, v)
      PROVE  Decidable(job)'
    BY <1>4, PeerFrame DEF JobIsOpen, Decidable, job
<1> QED BY <1>1, <1>2, <1>3, <1>4, NextCases

\* DISPLACE renames what it finds and PUBLISH never replaces.
LEMMA BytesSurvive ==
    ASSUME IInv, [Next]_vars
    PROVE  PeerBytesSurvive'
PROOF
<1> USE DEF IInv
<1>1. CASE UNCHANGED <<disk, kept, peer>>
    BY <1>1 DEF PeerBytesSurvive
<1>2. ASSUME NEW c \in Changes, Worker(c) PROVE PeerBytesSurvive'
    <2>1. CASE WorkerRenames(c)
        BY <2>1 DEF WorkerRenames, PeerBytesSurvive, TypeOK
    <2>2. CASE WorkerPublishes(c)
        BY <2>2 DEF WorkerPublishes, PeerBytesSurvive, TypeOK
    <2>3. CASE WorkerVerifies(c) \/ WorkerChecks(c) \/ WorkerEnds(c)
        BY <2>3, <1>1 DEF WorkerVerifies, WorkerChecks, WorkerEnds, fileVars
    <2> QED BY <1>2, <2>1, <2>2, <2>3 DEF Worker
<1>3. ASSUME NEW c \in Changes, NEW v \in Contents, PeerWrites(c, v)
      PROVE  PeerBytesSurvive'
    BY <1>3 DEF PeerWrites, PeerBytesSurvive, TypeOK
<1> QED BY <1>1, <1>2, <1>3, NextCases, ElsewhereFrame, DecisionFrame

\* A worker executes only what its journal announces, also after its decision
\* ended.
LEMMA CommandsStayAnnounced ==
    ASSUME IInv, [Next]_vars
    PROVE  CommandsAnnounced'
PROOF
<1> USE DEF IInv
<1>1. CASE Elsewhere
    <2>1. /\ journal' = journal
          /\ worker' = worker \/ worker' = [c \in Changes |-> Closing(worker[c])]
          /\ step' # "idle" => step' = step /\ SameJob
        BY <1>1, ElsewhereFrame
    <2>2. \A c \in Changes : worker'[c] = worker[c] \/ worker'[c] = "none"
        BY <2>1 DEF Closing
    <2> QED BY <2>1, <2>2 DEF CommandsAnnounced, SameJob, this
<1>2. CASE Decision
    <2> USE DEF CommandsAnnounced, Advance, Command, Journal, this, job, storeVars, fileVars
    <2>1. this \in Changes
        BY <1>2, DecisionBusy, JobTyped
    <2>2. CASE Reserve \/ Verify \/ Observe \/ Displaced
        BY <2>1, <2>2 DEF Reserve, Verify, Observe, Displaced, TypeOK
    <2>3. CASE IntendDisplace
        BY <2>1, <2>3 DEF IntendDisplace, TypeOK
    <2>4. CASE IntendPublish
        BY <2>1, <2>4 DEF IntendPublish, TypeOK
    <2>5. CASE Published \/ Restored
        BY <2>1, <2>5 DEF Published, Restored, TypeOK
    <2>6. CASE Throw
        BY <2>1, <2>6 DEF Throw, Closing, TypeOK
    <2>7. CASE FailDecision \/ Refuse \/ Commit \/ SaveConflict \/ FailureUnrecorded
        BY <2>7 DEF FailDecision, Refuse, Commit, SaveConflict, FailureUnrecorded, Answer
    <2> QED BY <1>2, <2>2, <2>3, <2>4, <2>5, <2>6, <2>7 DEF Decision
<1>3. ASSUME NEW c \in Changes, Worker(c) PROVE CommandsAnnounced'
    <2>1. UNCHANGED <<queue, step, journal>>
        BY <1>3, WorkerFrame
    <2>2. \A d \in Changes :
             /\ worker'[d] = "rename" => worker[d] \in {"rename", "displace"}
             /\ worker'[d] = "displace" => worker[d] = "displace"
             /\ worker'[d] \in {"publish", "check"} => worker[d] \in {"publish", "check"}
        BY <1>3 DEF Worker, WorkerVerifies, WorkerRenames, WorkerPublishes,
            WorkerChecks, WorkerEnds, TypeOK
    <2> QED BY <2>1, <2>2 DEF CommandsAnnounced, this, job
<1>4. ASSUME NEW c \in Changes, NEW v \in Contents, PeerWrites(c, v)
      PROVE  CommandsAnnounced'
    BY <1>4, PeerFrame DEF CommandsAnnounced, this, job
<1> QED BY <1>1, <1>2, <1>3, <1>4, NextCases

\* A journal never loses a step.
LEMMA JournalGrows ==
    ASSUME IInv, [Next]_vars, NEW c \in Changes
    PROVE  journal[c] \subseteq journal'[c]
PROOF
<1> USE DEF IInv
<1>1. CASE Decision
    <2>1. CASE IntendDisplace \/ IntendPublish \/ Restored
        BY <2>1 DEF IntendDisplace, IntendPublish, Restored, Journal, TypeOK
    <2>2. CASE UNCHANGED journal
        BY <2>2
    <2> QED BY <1>1, <2>1, <2>2 DEF Decision, Reserve, Refuse, Verify, Observe,
            Displaced, Published, Commit, Throw, FailDecision, SaveConflict,
            FailureUnrecorded
<1> QED BY <1>1, NextCases, ElsewhereFrame, WorkerFrame, PeerFrame

\* Only an announced command moves or writes a file.
LEMMA MutationsStayJournaled ==
    ASSUME IInv, [Next]_vars
    PROVE  MutationsAreJournaled'
PROOF
<1> USE DEF IInv
<1>1. CASE UNCHANGED <<disk, kept, peer>>
    BY <1>1, JournalGrows DEF MutationsAreJournaled
<1>2. ASSUME NEW c \in Changes, Worker(c) PROVE MutationsAreJournaled'
    <2>1. CASE WorkerRenames(c)
        BY <2>1 DEF WorkerRenames, MutationsAreJournaled, CommandsAnnounced, TypeOK
    <2>2. CASE WorkerPublishes(c)
        BY <2>2 DEF WorkerPublishes, MutationsAreJournaled, CommandsAnnounced, TypeOK
    <2>3. CASE WorkerVerifies(c) \/ WorkerChecks(c) \/ WorkerEnds(c)
        BY <2>3, <1>1 DEF WorkerVerifies, WorkerChecks, WorkerEnds, fileVars
    <2> QED BY <1>2, <2>1, <2>2, <2>3 DEF Worker
<1>3. ASSUME NEW c \in Changes, NEW v \in Contents, PeerWrites(c, v)
      PROVE  MutationsAreJournaled'
    BY <1>3 DEF PeerWrites, MutationsAreJournaled, TypeOK
<1> QED BY <1>1, <1>2, <1>3, NextCases, ElsewhereFrame, DecisionFrame

\* A rejection reaches the commit only through the verified step.
LEMMA CommitStaysVerified ==
    ASSUME IInv, [Next]_vars
    PROVE  CommitIsVerified'
PROOF
<1> USE DEF IInv
<1> SUFFICES ASSUME step' # "idle" PROVE CommitIsVerified'
    BY DEF CommitIsVerified, RollbackSteps
<1> USE DEF SameJob, this
<1>1. CASE Elsewhere
    BY <1>1, ElsewhereFrame DEF CommitIsVerified
<1>2. CASE Decision
    <2>1. SameJob /\ this \in Changes /\ job \in Requests
        BY <1>2, DecisionGoesOn, DecisionBusy, JobTyped
    <2> USE DEF CommitIsVerified, RollbackSteps, Advance
    <2>2. CASE Restored
        BY <2>1, <2>2 DEF Restored, Journal, TypeOK
    <2>3. CASE Verify
        BY <2>1, <2>3 DEF Verify, Requests
    <2>4. CASE Reserve \/ Observe \/ IntendDisplace \/ Displaced
        BY <2>1, <2>4 DEF Reserve, Observe, IntendDisplace, Displaced
    <2>5. CASE IntendPublish \/ Published \/ Throw \/ FailDecision
        BY <2>1, <2>5 DEF IntendPublish, Published, Throw, FailDecision
    <2>6. CASE Refuse \/ Commit \/ SaveConflict \/ FailureUnrecorded
        BY <2>6 DEF Refuse, Commit, SaveConflict, FailureUnrecorded, Answer
    <2> QED BY <1>2, <2>2, <2>3, <2>4, <2>5, <2>6 DEF Decision
<1>3. ASSUME NEW c \in Changes, Worker(c) PROVE CommitIsVerified'
    BY <1>3, WorkerFrame DEF CommitIsVerified, job
<1>4. ASSUME NEW c \in Changes, NEW v \in Contents, PeerWrites(c, v)
      PROVE  CommitIsVerified'
    BY <1>4, PeerFrame DEF CommitIsVerified, job
<1> QED BY <1>1, <1>2, <1>3, <1>4, NextCases

\* Where the status of a change may change.
LEMMA StatusSteps ==
    ASSUME IInv, [Next]_vars
    PROVE  \/ status' = status
           \/ Commit /\ status' = [status EXCEPT ![this] = job.decision]
           \/ SaveConflict /\ status' = [status EXCEPT ![this] = "conflicted"]
           \/ Start /\ status' = [c \in Changes |->
                                  IF c \in intents THEN "conflicted" ELSE status[c]]
PROOF
<1> USE DEF IInv, storeVars
<1>1. CASE Elsewhere
    BY <1>1, ElsewhereFrame DEF Start
<1>2. CASE Decision
    BY <1>2 DEF Decision, Reserve, Refuse, Verify, Observe, IntendDisplace, Displaced,
       IntendPublish, Published, Restored, Commit, Throw, FailDecision, SaveConflict,
       FailureUnrecorded
<1> QED BY <1>1, <1>2, NextCases, WorkerFrame, PeerFrame

\* Only a commit rejects.
LEMMA RejectedStaysRestored ==
    ASSUME IInv, [Next]_vars
    PROVE  RejectedIsRestored'
PROOF
<1> USE DEF IInv
<1> SUFFICES ASSUME NEW c \in Changes, status'[c] = "rejected"
             PROVE  "verified" \in journal'[c]
    <2>1. DOMAIN status' = Changes
        BY StepTyped DEF TypeOK
    <2> QED BY <2>1 DEF RejectedIsRestored, With
<1>1. status[c] = "rejected" => "verified" \in journal[c]
    BY DEF RejectedIsRestored, With, TypeOK
<1>2. CASE status'[c] = status[c]
    BY <1>1, <1>2, JournalGrows
<1>3. CASE Commit /\ status' = [status EXCEPT ![this] = job.decision]
    <2>1. c # this => status'[c] = status[c]
        BY <1>3 DEF TypeOK
    <2>2. CASE c = this
        <3>1. job.decision = "rejected" /\ step = "commit"
            BY <1>3, <2>2 DEF Commit, TypeOK
        <3> QED BY <2>2, <3>1, JournalGrows DEF CommitIsVerified
    <2> QED BY <1>2, <2>1, <2>2
<1>4. CASE SaveConflict /\ status' = [status EXCEPT ![this] = "conflicted"]
    BY <1>2, <1>4 DEF TypeOK
<1>5. CASE Start /\ status' = [d \in Changes |->
                             IF d \in intents THEN "conflicted" ELSE status[d]]
    BY <1>2, <1>5
<1> QED BY <1>2, <1>3, <1>4, <1>5, StatusSteps

\* Every transaction that writes a change writes its set.
LEMMA SetKeepsFollowing ==
    ASSUME IInv, [Next]_vars
    PROVE  SetFollowsChanges'
PROOF
<1> USE DEF IInv, storeVars
<1>1. CASE UNCHANGED <<status, setStatus>>
    BY <1>1 DEF SetFollowsChanges, AggregateStatus, With, Present
<1>2. CASE Commit
    BY <1>2 DEF Commit, SetFollowsChanges, AggregateStatus, With, Present
<1>3. CASE SaveConflict
    <2>1. this \in Changes
        BY <1>3, JobTyped DEF SaveConflict, TypeOK
    <2>2. this \in With(status', "conflicted")
        BY <1>3, <2>1 DEF SaveConflict, With, TypeOK
    <2>3. AggregateStatus(status') = "conflicted"
        BY <2>2 DEF AggregateStatus
    <2>4. AggregateStatus(status)' = AggregateStatus(status')
        BY DEF AggregateStatus, With, Present
    <2> QED BY <1>3, <2>3, <2>4 DEF SaveConflict, SetFollowsChanges
<1>4. CASE Start
    <2>1. CASE intents = {}
        <3>1. status' = status /\ setStatus' = setStatus
            BY <1>4, <2>1 DEF Start, TypeOK
        <3> QED BY <1>1, <3>1
    <2>2. CASE intents # {}
        <3>1. PICK c \in intents : TRUE
            BY <2>2
        <3>2. c \in With(status', "conflicted")
            BY <1>4, <3>1 DEF Start, With, TypeOK
        <3>3. AggregateStatus(status') = "conflicted"
            BY <3>2 DEF AggregateStatus
        <3>4. AggregateStatus(status)' = AggregateStatus(status')
            BY DEF AggregateStatus, With, Present
        <3> QED BY <1>4, <2>2, <3>3, <3>4 DEF Start, SetFollowsChanges
    <2> QED BY <2>1, <2>2
<1>5. CASE Decision
    BY <1>1, <1>2, <1>3, <1>5 DEF Decision, Reserve, Refuse, Verify, Observe,
       IntendDisplace, Displaced, IntendPublish, Published, Restored, Throw,
       FailDecision, FailureUnrecorded
<1> QED BY <1>1, <1>4, <1>5, NextCases, ElsewhereFrame, WorkerFrame, PeerFrame

-----------------------------------------------------------------------------
\* A conflicted row is never removed.
LEMMA FailuresGrow ==
    ASSUME IInv, [Next]_vars
    PROVE  failures \subseteq failures'
PROOF
<1>1. CASE Decision
    BY <1>1 DEF Decision, Reserve, Refuse, Verify, Observe, IntendDisplace, Displaced,
       IntendPublish, Published, Restored, Commit, Throw, FailDecision, SaveConflict,
       FailureUnrecorded, storeVars
<1> QED BY <1>1, NextCases, ElsewhereFrame, WorkerFrame, PeerFrame DEF IInv

\* The trace of a file that a decision leaves, or a step away from it.
LEMMA TraceStaysLeft ==
    ASSUME IInv, [Next]_vars
    PROVE  TraceIsLeft'
PROOF
<1> USE DEF IInv
<1> DEFINE Left(c) == journal[c] # {} => Answered(c) \/ (InProgress /\ c = this)
           Listed  == step = "recorded" => this \in failures
<1>0. /\ failures \subseteq failures'
      /\ \A c \in Changes : Left(c)
      /\ Listed
    BY FailuresGrow DEF TraceIsLeft
<1> SUFFICES (\A c \in Changes : Left(c)') /\ Listed'
    BY DEF TraceIsLeft
<1> USE DEF SameJob, this
<1>1. CASE Elsewhere
    <2>1. /\ journal' = journal /\ failures' = failures
          /\ step' = step \/ (Exit /\ step' = "idle")
          /\ Start \/ status' = status
          /\ step' # "idle" => SameJob /\ status' = status /\ intents' = intents
        BY <1>1, ElsewhereFrame
    <2>2. CASE step' # "idle"
        BY <1>0, <2>1, <2>2 DEF Answered, InProgress
    <2>3. CASE Exit
        BY <1>0, <2>1, <2>3
        DEF Exit, Answered, InProgress, ReservedSteps, RollbackSteps
    <2>4. CASE Start
        <3>1. ~InProgress
            BY <2>4 DEF Start, DownIsQuiet, InProgress, RollbackSteps
        <3>2. \A c \in Changes : Answered(c) => Answered(c)'
            BY <2>1, <2>4 DEF Start, Answered
        <3> QED BY <1>0, <2>1, <2>4, <3>1, <3>2 DEF Start, DownIsQuiet
    <2>5. CASE step' = "idle" /\ ~Exit /\ ~Start
        <3>1. intents' = intents
            BY <1>1, <2>5 DEF Elsewhere, Decide, Revert, ConfirmRevert, VerifyRevert,
               RevertNext, Life, CloseWindow, OpenWindow, vars, storeVars
        <3>2. ~InProgress
            BY <2>1, <2>5 DEF InProgress, RollbackSteps
        <3> QED BY <1>0, <2>1, <2>5, <3>1, <3>2 DEF Answered
    <2> QED BY <2>2, <2>3, <2>4, <2>5
<1>2. CASE Decision
    <2>1. this \in Changes /\ job \in Requests
        BY <1>2, DecisionBusy, JobTyped
    <2>2. CASE step' # "idle"
        <3>1. SameJob /\ status' = status /\ intents' = intents
            BY <1>2, <2>2, DecisionGoesOn
        <3>2. /\ \A c \in Changes \ {this} : journal'[c] = journal[c]
              /\ InProgress => InProgress'
              /\ journal'[this] # journal[this] => InProgress'
            <4> USE DEF InProgress, RollbackSteps, Advance
            <4>1. CASE Reserve \/ Verify \/ Observe \/ Displaced
                BY <4>1 DEF Reserve, Verify, Observe, Displaced
            <4>2. CASE IntendDisplace \/ IntendPublish
                BY <2>1, <4>2 DEF IntendDisplace, IntendPublish, Journal, TypeOK
            <4>3. CASE Restored
                BY <2>1, <3>1, <4>3 DEF Restored, Journal, TypeOK, CommitIsVerified
            <4>4. CASE Published \/ Throw \/ FailDecision
                BY <4>4 DEF Published, Throw, FailDecision
            <4>5. CASE Refuse \/ Commit \/ SaveConflict \/ FailureUnrecorded
                BY <2>2, <4>5 DEF Refuse, Commit, SaveConflict, FailureUnrecorded, Answer
            <4> QED BY <1>2, <4>1, <4>2, <4>3, <4>4, <4>5 DEF Decision
        <3>3. step' = "recorded" => this \in failures'
            BY <1>2, <2>2 DEF Decision, Reserve, Refuse, Verify, Observe,
               IntendDisplace, Displaced, IntendPublish, Published, Restored, Commit,
               Throw, FailDecision, SaveConflict, FailureUnrecorded, Advance, Answer
        <3>4. \A c \in Changes : Answered(c) => Answered(c)'
            BY <1>0, <3>1 DEF Answered
        <3> QED BY <1>0, <2>1, <3>1, <3>2, <3>3, <3>4
    <2>3. CASE Refuse
        BY <1>0, <2>3 DEF Refuse, Answer, storeVars, InProgress, RollbackSteps, Answered
    <2>4. CASE Commit
        <3>1. /\ step = "commit" /\ step' = "idle" /\ journal' = journal
              /\ intents' = intents /\ failures' = failures
              /\ status' = [status EXCEPT ![this] = job.decision]
            BY <2>4 DEF Commit, Answer
        <3>2. \A c \in Changes \ {this} : Left(c)'
            BY <1>0, <3>1 DEF Answered, TypeOK
        <3>3. CASE job.decision = "rejected"
            BY <2>1, <3>1, <3>2, <3>3 DEF Answered, TypeOK
        <3>4. CASE job.decision # "rejected"
            <4>1. ~InProgress
                BY <3>1, <3>4 DEF InProgress, RollbackSteps
            <4>2. status[this] \notin {"rejected", "conflicted"}
                BY <3>1 DEF JobIsOpen, Decidable
            <4> QED BY <1>0, <2>1, <3>1, <3>2, <4>1, <4>2 DEF Answered
        <3> QED BY <3>3, <3>4
    <2>5. CASE SaveConflict
        BY <1>0, <2>1, <2>5 DEF SaveConflict, Answer, Answered, TypeOK
    <2>6. CASE FailureUnrecorded
        <3>1. /\ step' = "idle" /\ journal' = journal /\ status' = status
              /\ failures' = failures /\ intents \subseteq intents'
              /\ this \in intents' \cup failures
            BY <1>0, <2>6 DEF FailureUnrecorded, Answer
        <3> QED BY <1>0, <3>1 DEF Answered
    <2> QED BY <1>2, <2>2, <2>3, <2>4, <2>5, <2>6 DEF Decision, Reserve, Verify,
            Observe, IntendDisplace, Displaced, IntendPublish, Published, Restored,
            Throw, FailDecision, Advance
<1>3. ASSUME NEW c \in Changes, Worker(c)
      PROVE  (\A d \in Changes : Left(d)') /\ Listed'
    BY <1>0, <1>3, WorkerFrame DEF Answered, InProgress, job
<1>4. ASSUME NEW c \in Changes, NEW v \in Contents, PeerWrites(c, v)
      PROVE  (\A d \in Changes : Left(d)') /\ Listed'
    BY <1>0, <1>4, PeerFrame DEF Answered, InProgress, job
<1> QED BY <1>1, <1>2, <1>3, <1>4, NextCases

-----------------------------------------------------------------------------
\* The rollback of a whole Build.

\* A request of the queue comes from the queue before, or was just admitted.
LEMMA OneRequestStays ==
    ASSUME IInv, [Next]_vars
    PROVE  OneRevertRequest'
PROOF
<1> USE DEF IInv
<1>0. /\ queue \in Seq(Requests)
      /\ \A i \in DOMAIN queue : i \in Nat /\ queue[i] \in Requests
    BY LenProperties, ElementOfSeq DEF TypeOK
<1>1. CASE UNCHANGED <<queue, revert>>
    BY <1>1 DEF OneRevertRequest
<1>2. ASSUME NEW c \in Changes, NEW s \in {"accepted", "rejected"}, Decide(c, s)
      PROVE  OneRevertRequest'
    <2> DEFINE r == [change |-> c, decision |-> s, reverting |-> FALSE, stale |-> FALSE]
    <2>1. r \in Requests /\ r.reverting = FALSE
        BY DEF Requests
    <2>2. queue' = Append(queue, r) /\ revert' = revert
        BY <1>2 DEF Decide
    <2> HIDE DEF r
    <2>3. \A i \in DOMAIN queue' :
             queue'[i].reverting => i \in DOMAIN queue /\ queue'[i] = queue[i]
        BY <1>0, <2>1, <2>2, Enqueued
    <2> QED BY <2>2, <2>3 DEF OneRevertRequest
<1>3. ASSUME NEW c \in Changes, RevertNext(c)
      PROVE  OneRevertRequest'
    <2> DEFINE r == [change |-> c, decision |-> "rejected",
                     reverting |-> TRUE, stale |-> revert.stale]
    <2>1. r \in Requests /\ r.decision = "rejected"
        BY DEF Requests, TypeOK
    <2>2. queue' = Append(queue, r) /\ revert' = [revert EXCEPT !.at = "waiting"]
          /\ revert.at = "next"
        BY <1>3 DEF RevertNext
    <2> HIDE DEF r
    <2>3. \A i \in DOMAIN queue : ~queue[i].reverting
        BY <2>2 DEF OneRevertRequest
    <2>4. \A i \in DOMAIN queue' :
             queue'[i].reverting => i = Len(queue) + 1 /\ queue'[i] = r
        BY <1>0, <2>1, <2>2, <2>3, Enqueued
    <2>5. revert'.at = "waiting"
        BY <2>2 DEF TypeOK
    <2> QED BY <2>1, <2>4, <2>5 DEF OneRevertRequest
<1>4. CASE ConfirmRevert \/ VerifyRevert
    <2>1. queue' = queue /\ revert.at # "waiting"
        BY <1>4 DEF ConfirmRevert, VerifyRevert, NoRevert
    <2> QED BY <2>1 DEF OneRevertRequest
<1>5. CASE CloseWindow
    <2>1. /\ DOMAIN queue' = DOMAIN queue
          /\ \A i \in DOMAIN queue : queue'[i] = [queue[i] EXCEPT !.stale = TRUE]
        BY <1>0, <1>5, Marked DEF CloseWindow
    <2>2. \A i \in DOMAIN queue : /\ queue'[i].reverting = queue[i].reverting
                                  /\ queue'[i].decision = queue[i].decision
        BY <1>0, <2>1 DEF Requests
    <2>3. revert'.at = revert.at
        BY <1>5 DEF CloseWindow, TypeOK
    <2> QED BY <2>1, <2>2, <2>3 DEF OneRevertRequest
<1>6. CASE OpenWindow \/ Start
    BY <1>1, <1>6 DEF OpenWindow, Start
<1>7. CASE Exit
    <2>1. queue' = <<>> /\ DOMAIN <<>> = {}
        BY <1>7, EmptySeq, LenProperties DEF Exit
    <2> QED BY <2>1 DEF OneRevertRequest
<1>8. ASSUME NEW ok \in BOOLEAN, Answer(ok), queue # <<>>
      PROVE  OneRevertRequest'
    <2>1. /\ queue' = Tail(queue) /\ 1 \in DOMAIN queue /\ job = queue[1]
          /\ \A i \in DOMAIN Tail(queue) :
                i + 1 \in DOMAIN queue /\ i + 1 # 1 /\ Tail(queue)[i] = queue[i + 1]
        BY <1>0, <1>8, Dequeued DEF Answer, job
    <2>2. \A i \in DOMAIN queue' : i \in Nat
        <3>1. queue' \in Seq(Requests)
            BY <1>0, <1>8, Dequeued DEF Answer
        <3> QED BY <3>1, LenProperties
    <2>3. CASE job.reverting
        <3>1. \A i \in DOMAIN queue' : ~queue'[i].reverting
            BY <2>1, <2>3 DEF OneRevertRequest
        <3> QED BY <3>1 DEF OneRevertRequest
    <2>4. CASE ~job.reverting
        <3>1. revert' = revert
            BY <1>8, <2>4 DEF Answer
        <3>2. \A i \in DOMAIN queue' : queue'[i].reverting =>
                 revert'.at = "waiting" /\ queue'[i].decision = "rejected"
            BY <2>1, <3>1 DEF OneRevertRequest
        <3>3. \A i, j \in DOMAIN queue' :
                 queue'[i].reverting /\ queue'[j].reverting => i + 1 = j + 1
            BY <2>1 DEF OneRevertRequest
        <3>4. \A i, j \in DOMAIN queue' : i + 1 = j + 1 => i = j
            BY <2>2
        <3> QED BY <3>2, <3>3, <3>4 DEF OneRevertRequest
    <2> QED BY <2>3, <2>4
<1>9. CASE Decision
    <2>1. queue # <<>>
        BY <1>9, DecisionBusy
    <2>2. CASE step' # "idle"
        BY <1>1, <1>9, <2>2, DecisionGoesOn
    <2>3. CASE Answer(TRUE) \/ Answer(FALSE)
        BY <1>8, <2>1, <2>3
    <2> QED BY <1>9, <2>2, <2>3 DEF Decision, Reserve, Refuse, Verify, Observe,
            IntendDisplace, Displaced, IntendPublish, Published, Restored, Commit,
            Throw, FailDecision, SaveConflict, FailureUnrecorded, Advance
<1>10. CASE Elsewhere
    BY <1>1, <1>2, <1>3, <1>4, <1>5, <1>6, <1>7, <1>10
    DEF Elsewhere, Revert, Life, vars, requestVars
<1> QED BY <1>1, <1>9, <1>10, NextCases, WorkerFrame, PeerFrame

\* While a Build is reverted, nothing takes a rejected file back.
LEMMA RejectionsStay ==
    ASSUME IInv, [Next]_vars, revert.at # "idle"
    PROVE  With(status, "rejected") \subseteq With(status', "rejected")
PROOF
<1> USE DEF IInv
<1>1. CASE status' = status
    BY <1>1
<1>2. ~Start
    BY DEF Start, DownIsQuiet, NoRevert
<1>3. ASSUME step # "idle", NEW v \in ChangeStatuses, status' = [status EXCEPT ![this] = v]
      PROVE  With(status, "rejected") \subseteq With(status', "rejected")
    <2>1. status[this] # "rejected"
        BY <1>3 DEF JobIsOpen, Decidable, this
    <2> QED BY <1>3, <2>1 DEF With, TypeOK
<1>4. CASE Commit /\ status' = [status EXCEPT ![this] = job.decision]
    <2>1. step # "idle" /\ job.decision \in ChangeStatuses
        BY <1>4, JobTyped DEF Commit, TypeOK, Requests, ChangeStatuses
    <2> QED BY <1>3, <1>4, <2>1
<1>5. CASE SaveConflict /\ status' = [status EXCEPT ![this] = "conflicted"]
    BY <1>3, <1>5 DEF SaveConflict, ChangeStatuses
<1> QED BY <1>1, <1>2, <1>4, <1>5, StatusSteps

\* What the end of a decision does to the Build revert it belongs to.
LEMMA RevertAnswered ==
    ASSUME IInv, queue # <<>>, NEW ok \in BOOLEAN, Answer(ok), revert'.at # "idle",
           With(status, "rejected") \subseteq With(status', "rejected"),
           ok /\ job.reverting => this \in With(status', "rejected")
    PROVE  RevertCovers'
PROOF
<1> USE DEF IInv
<1>1. CASE ~job.reverting
    <2>1. revert' = revert
        BY <1>1 DEF Answer
    <2> QED BY <2>1 DEF RevertCovers, With
<1>2. CASE job.reverting
    <2>1. ok /\ revert'.files = revert.files \ {this}
        BY <1>2 DEF Answer, NoRevert, TypeOK
    <2>2. revert.at # "idle"
        BY <1>2, Dequeued DEF OneRevertRequest, job, TypeOK
    <2>3. Changes \ revert.files \subseteq With(status, "rejected")
        BY <2>2 DEF RevertCovers
    <2> QED BY <1>2, <2>1, <2>3 DEF RevertCovers, With
<1> QED BY <1>1, <1>2

\* The files a revert no longer lists are rejected.
LEMMA RevertStaysCovered ==
    ASSUME IInv, [Next]_vars
    PROVE  RevertCovers'
PROOF
<1> USE DEF IInv
<1> SUFFICES ASSUME revert'.at # "idle" PROVE RevertCovers'
    BY DEF RevertCovers
<1>1. CASE ConfirmRevert
    BY <1>1 DEF ConfirmRevert, RevertCovers, storeVars, With
<1>2. ASSUME ~ConfirmRevert, revert'.files = revert.files, revert.at # "idle"
      PROVE  RevertCovers'
    BY <1>2, RejectionsStay DEF RevertCovers, With
<1>3. CASE VerifyRevert
    BY <1>2, <1>3 DEF VerifyRevert, ConfirmRevert, NoRevert, TypeOK
<1>4. ASSUME NEW c \in Changes, RevertNext(c) PROVE RevertCovers'
    BY <1>2, <1>4 DEF RevertNext, ConfirmRevert, NoRevert, TypeOK
<1>5. CASE UNCHANGED revert
    <2>1. ~ConfirmRevert
        BY <1>5 DEF ConfirmRevert, NoRevert
    <2> QED BY <1>2, <1>5, <2>1
<1>6. CASE CloseWindow
    <2>1. revert # NoRevert /\ revert' = [revert EXCEPT !.stale = TRUE]
        BY <1>6 DEF CloseWindow, NoRevert
    <2>2. ~ConfirmRevert
        BY <2>1 DEF ConfirmRevert
    <2> QED BY <1>2, <2>1, <2>2 DEF TypeOK
<1>7. CASE Exit
    BY <1>7 DEF Exit, NoRevert
<1>8. CASE Elsewhere
    BY <1>1, <1>3, <1>4, <1>5, <1>6, <1>7, <1>8
    DEF Elsewhere, Decide, Revert, Life, OpenWindow, Start, vars, requestVars
<1>9. CASE Decision
    <2>1. queue # <<>> /\ this \in Changes
        BY <1>9, DecisionBusy, JobTyped
    <2>2. CASE step' # "idle"
        BY <1>5, <1>9, <2>2, DecisionGoesOn
    <2>3. CASE Commit
        <3>1. Answer(TRUE) /\ step # "idle" /\ status' = [status EXCEPT ![this] = job.decision]
            BY <2>3 DEF Commit
        <3>2. job.reverting => revert.at = "waiting" /\ job.decision = "rejected"
            BY <2>1, Dequeued DEF OneRevertRequest, job, TypeOK
        <3>3. job.reverting => this \in With(status', "rejected")
            BY <2>1, <3>1, <3>2 DEF With, TypeOK
        <3>4. CASE revert.at = "idle"
            BY <1>5, <3>1, <3>2, <3>4 DEF Answer
        <3>5. CASE revert.at # "idle"
            BY <2>1, <3>1, <3>3, <3>5, RejectionsStay, RevertAnswered
        <3> QED BY <3>4, <3>5
    <2>4. CASE Answer(FALSE)
        <3>1. ~job.reverting /\ revert' = revert
            BY <2>4 DEF Answer, NoRevert
        <3> QED BY <1>5, <3>1
    <2> QED BY <1>9, <2>2, <2>3, <2>4 DEF Decision, Reserve, Refuse, Verify, Observe,
            IntendDisplace, Displaced, IntendPublish, Published, Restored,
            Throw, FailDecision, SaveConflict, FailureUnrecorded, Advance
<1> QED BY <1>5, <1>8, <1>9, NextCases, WorkerFrame, PeerFrame

-----------------------------------------------------------------------------
\* The invariant holds.

\* The invariant holds initially.
LEMMA InitHolds == Init => IInv
PROOF
<1> SUFFICES ASSUME Init PROVE IInv
    OBVIOUS
<1> USE DEF Init
<1>1. TypeOK
    BY InitTyped
<1>2. DownIsQuiet /\ JobIsOpen /\ CommitIsVerified
    BY DEF DownIsQuiet, JobIsOpen, CommitIsVerified, RollbackSteps
<1>3. PeerBytesSurvive /\ CommandsAnnounced /\ MutationsAreJournaled
    BY DEF PeerBytesSurvive, CommandsAnnounced, MutationsAreJournaled
<1>4. RejectedIsRestored /\ TraceIsLeft
    BY DEF RejectedIsRestored, TraceIsLeft, With
<1>5. SetFollowsChanges
    <2>1. With(status, "conflicted") = {} /\ With(status, "accepted") = {}
          /\ With(status, "rejected") = {} /\ Present(status) = Changes
        BY DEF With, Present
    <2> QED BY <2>1, ChangesAssumption DEF SetFollowsChanges, AggregateStatus
<1>6. OneRevertRequest
    <2>1. DOMAIN queue = {}
        BY EmptySeq, LenProperties
    <2> QED BY <2>1 DEF OneRevertRequest
<1>7. RevertCovers
    BY DEF RevertCovers, NoRevert
<1> QED BY <1>1, <1>2, <1>3, <1>4, <1>5, <1>6, <1>7 DEF IInv

\* Every step keeps the invariant.
LEMMA StepHolds == IInv /\ [Next]_vars => IInv'
PROOF
<1> SUFFICES ASSUME IInv, [Next]_vars PROVE IInv'
    OBVIOUS
<1>1. TypeOK' /\ DownIsQuiet' /\ JobIsOpen' /\ PeerBytesSurvive'
    BY StepTyped, DownStaysQuiet, JobStaysOpen, BytesSurvive DEF IInv
<1>2. CommandsAnnounced' /\ MutationsAreJournaled' /\ CommitIsVerified'
    BY CommandsStayAnnounced, MutationsStayJournaled, CommitStaysVerified
<1>3. RejectedIsRestored' /\ TraceIsLeft' /\ SetFollowsChanges'
    BY RejectedStaysRestored, TraceStaysLeft, SetKeepsFollowing
<1>4. OneRevertRequest' /\ RevertCovers'
    BY OneRequestStays, RevertStaysCovered
<1> QED BY <1>1, <1>2, <1>3, <1>4 DEF IInv

\* The invariant of every behaviour.
LEMMA InvariantHolds == Spec => []IInv
PROOF
<1>1. Spec => Init /\ [][Next]_vars
    BY DEF Spec
<1> QED BY <1>1, InitHolds, StepHolds, PTL

-----------------------------------------------------------------------------
\* What a decision promises.

\* No content another program wrote is ever lost to a rollback
\* (SnapshotRollbackService.restoreFiles and rollback-boundary.cpp).
THEOREM BytesAreKept == Spec => []PeerBytesSurvive
PROOF
<1>1. IInv => PeerBytesSurvive
    BY DEF IInv
<1> QED BY <1>1, InvariantHolds, PTL

\* The journal on disk announces every displacement and publication, also
\* those of a worker that outlived its decision (restoreFiles' journal).
THEOREM JournalIsComplete == Spec => []MutationsAreJournaled
PROOF
<1>1. IInv => MutationsAreJournaled
    BY DEF IInv
<1> QED BY <1>1, InvariantHolds, PTL

\* A stored rejection means that the file was verified to be BEFORE again
\* (ChangeDecisionService.apply).
THEOREM RejectionIsRestoration == Spec => []RejectedIsRestored
PROOF
<1>1. IInv => RejectedIsRestored
    BY DEF IInv
<1> QED BY <1>1, InvariantHolds, PTL

\* Whatever fails or crashes, a file that was touched is decided, in conflict
\* or named by an operation row (apply's catch and reconcile).
THEOREM TraceIsKept == Spec => []MutationsLeaveTrace
PROOF
<1>1. IInv => MutationsLeaveTrace
    BY DEF IInv, MutationsLeaveTrace, TraceIsLeft, Answered, InProgress, RollbackSteps
<1> QED BY <1>1, InvariantHolds, PTL

\* The status of the set is that of its changes, through crashes and startup
\* (saveDecision, save and reconcile write both in one transaction).
THEOREM SetIsConsistent == Spec => []SetFollowsChanges
PROOF
<1>1. IInv => SetFollowsChanges
    BY DEF IInv
<1> QED BY <1>1, InvariantHolds, PTL

\* No interleaving of decisions, reverts and crashes takes a decision back
\* (the open check of apply, made under the queue of the workspace).
THEOREM DecisionsStayFinal == Spec => DecisionsAreFinal
PROOF
<1>1. ASSUME IInv, [Next]_vars
      PROVE  \A c \in Changes : status'[c] # status[c] =>
                \/ status[c] = "pending"
                \/ c \in intents /\ app = "down"
                \/ /\ status[c] = "accepted" /\ step # "idle"
                   /\ c = this /\ job.reverting
    <2> SUFFICES ASSUME NEW c \in Changes, status'[c] # status[c]
                 PROVE  \/ status[c] = "pending"
                        \/ c \in intents /\ app = "down"
                        \/ /\ status[c] = "accepted" /\ step # "idle"
                           /\ c = this /\ job.reverting
        OBVIOUS
    <2>1. CASE step # "idle" /\ c = this
        BY <1>1, <2>1 DEF IInv, JobIsOpen, Decidable, this
    <2>2. CASE Commit \/ SaveConflict
        <3>1. step # "idle"
            BY <2>2 DEF Commit, SaveConflict
        <3>2. c = this
            BY <1>1, <2>2 DEF IInv, TypeOK, Commit, SaveConflict
        <3> QED BY <2>1, <3>1, <3>2
    <2>3. CASE Start
        BY <1>1, <2>3 DEF IInv, TypeOK, Start
    <2> QED BY <1>1, <2>2, <2>3, StatusSteps
<1>2. Spec => [][Next]_vars
    BY DEF Spec
<1> QED BY <1>1, <1>2, InvariantHolds, PTL DEF DecisionsAreFinal

\* A Build revert that ends well has rejected every file, although each was
\* decided on its own (BuildRollbackService.rollback).
THEOREM RevertEndsComplete == Spec => RevertIsComplete
PROOF
<1>1. ASSUME IInv, [Next]_vars, step = "commit", step' = "idle", app' # "down",
             job.reverting, revert'.at = "idle"
      PROVE  With(status', "rejected") = Changes
    <2> USE <1>1 DEF IInv
    <2>1. Decision
        BY NextCases, ElsewhereFrame, WorkerFrame, PeerFrame DEF Exit
    <2>2. Commit
        BY <2>1 DEF Decision, Reserve, Refuse, Verify, Observe, IntendDisplace,
           Displaced, IntendPublish, Published, Restored, Throw, FailDecision,
           SaveConflict, FailureUnrecorded, Advance
    <2>3. queue # <<>> /\ this \in Changes /\ job.decision = "rejected"
          /\ revert.at = "waiting"
        BY <2>1, DecisionBusy, JobTyped, Dequeued
        DEF OneRevertRequest, job, TypeOK
    <2>4. revert.files \subseteq {this}
        BY <2>2, <2>3 DEF Commit, Answer, TypeOK
    <2>5. this \in With(status', "rejected")
        BY <2>2, <2>3 DEF Commit, With, TypeOK
    <2>6. Changes \ revert.files \subseteq With(status', "rejected")
        BY <2>3, RejectionsStay DEF RevertCovers
    <2>7. With(status', "rejected") \subseteq Changes
        BY StepTyped DEF With, TypeOK
    <2> QED BY <2>4, <2>5, <2>6, <2>7
<1>2. Spec => [][Next]_vars
    BY DEF Spec
<1> QED BY <1>1, <1>2, InvariantHolds, PTL DEF RevertIsComplete, vars

\* The contract's aggregate is the code's.
LEMMA SameAggregate == \A st : Contract!AggregateStatus(st) = AggregateStatus(st)
PROOF BY DEF Contract!AggregateStatus, AggregateStatus, Contract!With, With,
             Contract!Present, Present

\* The stored statuses follow ReviewContract: every step of a decision is one
\* of its steps or invisible to it.
THEOREM ContractIsKept == Spec => FollowsContract
PROOF
<1> DEFINE Verified == {c \in Changes : "verified" \in journal[c]}
<1>1. Init => Contract!Init
    BY DEF Init, Contract!Init
<1>2. ASSUME IInv, [Next]_vars
      PROVE  [Contract!Next]_(Contract!contractVars)
    <2> USE <1>2 DEF IInv
    <2>1. CASE UNCHANGED <<status, setStatus, journal>>
        BY <2>1 DEF Contract!contractVars
    <2>2. CASE Restored
        <3>1. this \in Changes
            BY <2>2, JobTyped DEF Restored, Advance, TypeOK
        <3>2. Verified' = Verified \cup {this}
            BY <2>2, <3>1 DEF Restored, Journal, TypeOK
        <3>3. status[this] \in {"pending", "accepted"}
            BY <2>2 DEF Restored, Advance, JobIsOpen, Decidable, this
        <3>4. UNCHANGED <<status, setStatus>>
            BY <2>2 DEF Restored, storeVars
        <3>5. Contract!Restore(this)
            BY <3>2, <3>3, <3>4 DEF Contract!Restore
        <3>6. Contract!Next
            BY <3>1, <3>5 DEF Contract!Next, Contract!Restore
        <3> QED BY <3>6
    <2>3. ASSUME Verified' = Verified, status' = status, setStatus' = setStatus
          PROVE  UNCHANGED Contract!contractVars
        BY <2>3 DEF Contract!contractVars
    <2>4. CASE IntendDisplace \/ IntendPublish
        <3>1. this \in Changes
            BY <2>4, JobTyped DEF IntendDisplace, IntendPublish, Advance, TypeOK
        <3>2. Verified' = Verified
            BY <2>4, <3>1 DEF IntendDisplace, IntendPublish, Journal, TypeOK
        <3> QED BY <2>3, <2>4, <3>2 DEF IntendDisplace, IntendPublish, storeVars
    <2>5. CASE Commit
        <3>1. this \in Changes /\ job.decision \in {"accepted", "rejected"}
            BY <2>5, JobTyped DEF Commit, TypeOK, Requests
        <3>2. Contract!Store([status EXCEPT ![this] = job.decision])
            BY <2>5, SameAggregate DEF Commit, Contract!Store
        <3>3. CASE job.decision = "accepted"
            <4>1. status[this] = "pending"
                BY <2>5, <3>3 DEF Commit, JobIsOpen, Decidable, this
            <4> QED BY <3>1, <3>2, <3>3, <4>1 DEF Contract!Next, Contract!Accept
        <3>4. CASE job.decision = "rejected"
            <4>1. status[this] \in {"pending", "accepted"}
                BY <2>5 DEF Commit, JobIsOpen, Decidable, this
            <4>2. this \in Verified
                BY <2>5, <3>1, <3>4 DEF Commit, CommitIsVerified
            <4> QED BY <3>1, <3>2, <3>4, <4>1, <4>2 DEF Contract!Next, Contract!Reject
        <3> QED BY <3>1, <3>3, <3>4
    <2>6. ASSUME NEW S \in SUBSET Changes, S # {}, journal' = journal,
                 setStatus' = "conflicted",
                 status' = [c \in Changes |-> IF c \in S THEN "conflicted" ELSE status[c]]
          PROVE  Contract!Next
        <3>1. PICK c \in S : TRUE
            BY <2>6
        <3>2. c \in With(status', "conflicted")
            BY <2>6, <3>1 DEF With
        <3>3. AggregateStatus(status') = "conflicted"
            BY <3>2 DEF AggregateStatus
        <3>4. Contract!Conflict(S)
            BY <2>6, <3>3, SameAggregate DEF Contract!Conflict, Contract!Store
        <3> QED BY <3>4 DEF Contract!Next
    <2>7. CASE SaveConflict
        <3>1. this \in Changes
            BY <2>7, JobTyped DEF SaveConflict, TypeOK
        <3>2. status' = [c \in Changes |->
                         IF c \in {this} THEN "conflicted" ELSE status[c]]
            BY <2>7 DEF SaveConflict, TypeOK
        <3> QED BY <2>6, <2>7, <3>1, <3>2 DEF SaveConflict
    <2>8. CASE Start
        <3>1. CASE intents = {}
            <4>1. status' = status
                BY <2>8, <3>1 DEF Start, TypeOK
            <4> QED BY <2>1, <2>8, <3>1, <4>1 DEF Start
        <3>2. CASE intents # {}
            BY <2>6, <2>8, <3>2 DEF Start, TypeOK
        <3> QED BY <3>1, <3>2
    <2>9. CASE Decision
        BY <2>1, <2>2, <2>4, <2>5, <2>7, <2>9 DEF Decision, Reserve, Refuse, Verify,
           Observe, Displaced, Published, Throw, FailDecision, FailureUnrecorded,
           storeVars
    <2>10. CASE Elsewhere
        BY <2>1, <2>8, <2>10, ElsewhereFrame
    <2> QED BY <2>1, <2>9, <2>10, NextCases, WorkerFrame, PeerFrame
<1>3. Spec => Init /\ [][Next]_vars
    BY DEF Spec
<1> QED BY <1>1, <1>2, <1>3, InvariantHolds, PTL DEF FollowsContract, Contract!Spec

-----------------------------------------------------------------------------
\* A command that is sent belongs to a decision that is still wanted: what the
\* worker does by itself, also after its window is gone, is never the begin of
\* another one.
THEOREM CommandsEndWithWindow == Spec => NoCommandAfterClose
PROOF
<1> DEFINE Sent(c) == worker'[c] # worker[c] /\ worker'[c] \in {"open", "displace", "publish"}
           Wanted == step # "idle" /\ ~job.stale
<1>1. ASSUME IInv, [Next]_vars, NEW c \in Changes, Sent(c)
      PROVE  Wanted
    <2> USE <1>1 DEF IInv, TypeOK
    <2>1. CASE worker' = worker
        BY <2>1
    <2>2. CASE worker' = [d \in Changes |-> Closing(worker[d])]
        BY <2>2 DEF Closing
    <2>3. CASE Observe \/ IntendDisplace \/ IntendPublish
        BY <2>3 DEF Observe, IntendDisplace, IntendPublish, Advance, Served
    <2>4. CASE Restored \/ Throw
        BY <2>4 DEF Restored, Throw, Command, Closing
    <2>5. CASE Decision
        BY <2>1, <2>3, <2>4, <2>5 DEF Decision, Reserve, Refuse, Verify, Displaced, Published,
           Commit, FailDecision, SaveConflict, FailureUnrecorded
    <2>6. ASSUME NEW d \in Changes, Worker(d) PROVE FALSE
        BY <2>6 DEF Worker, WorkerVerifies, WorkerRenames, WorkerPublishes, WorkerChecks,
           WorkerEnds
    <2> QED BY <2>1, <2>2, <2>5, <2>6, NextCases, ElsewhereFrame, PeerFrame
<1>2. Spec => [][Next]_vars
    BY DEF Spec
<1>3. IInv /\ [Next]_vars =>
          [\A c \in Changes : Sent(c) => Wanted]_vars
    BY <1>1
<1> QED BY <1>2, <1>3, InvariantHolds, PTL DEF NoCommandAfterClose

-----------------------------------------------------------------------------
(* ReviewPanel. What travels is of an execution and a visit.                   *)
RowStatuses == {"pending", "accepted", "rejected", "conflicted"}
SomeRows == UNION {[set -> RowStatuses] : set \in SUBSET AllChanges}
Hunks == [version : Nat, open : BOOLEAN]
SomeHunks == UNION {[set -> Hunks] : set \in SUBSET AllChanges}
Panels == [rows : SomeRows, hunks : SomeHunks, expanded : AllChanges \cup {"none"},
           loading : BOOLEAN]
Visits == [execution : Executions \cup {"none"}, generation : Nat]
Behind == [reads : SUBSET (Executions \cup {"none"}), ended : BOOLEAN,
           rows : SUBSET AllChanges, hunks : SUBSET AllChanges]

ReadKinds == {"get", "changes"}
ChangeKinds == {"decide", "diff", "edit", "decideHunk"}
ReviewMessages ==
    [kind : ReadKinds \cup ChangeKinds \cup {"changed", "rollback"},
     change : AllChanges \cup {"none"}, of : Visits, id : Nat, ok : BOOLEAN,
     status : RowStatuses, found : BOOLEAN, rows : SomeRows, hunk : Hunks]

ReviewTypes ==
    /\ rows \in [AllChanges -> RowStatuses]
    /\ hunkRows \in [AllChanges -> Hunks]
    /\ recorded \in SUBSET Executions
    /\ asks \in Seq(ReviewMessages)
    /\ working \in SUBSET ReviewMessages
    /\ toWindow \in Seq(ReviewMessages)
    /\ visit \in Visits
    /\ review \in Panels
    /\ used \in [calls : Nat, faults : Nat]
    /\ behind \in Behind

(* A message is of an execution, of a visit that was, and of a change of it; a list  *)
(* is asked for when the execution is recorded.                                 *)
Founded(m, seen, now) ==
    /\ m.of.execution \in Executions
    /\ m.of.generation <= now
    /\ m.kind \in ChangeKinds => m.change \in ChangesOf[m.of.execution]
    /\ m.kind = "changes" => m.of.execution \in seen

(* What a reply says for good: the whole list, that there is one.                *)
TellsTrue(m, seen, now) ==
    /\ Founded(m, seen, now)
    /\ m.kind = "changes" /\ m.ok => DOMAIN m.rows = ChangesOf[m.of.execution]
    /\ m.kind = "get" /\ m.ok /\ m.found => m.of.execution \in seen

AllFounded ==
    /\ \A i \in DOMAIN asks : Founded(asks[i], recorded, visit.generation)
    /\ \A m \in working : Founded(m, recorded, visit.generation)
    /\ \A i \in DOMAIN toWindow : TellsTrue(toWindow[i], recorded, visit.generation)

(* A change is of one execution, and none is called "none".                       *)
ChangesApart ==
    /\ "none" \notin Executions
    /\ \A e, f \in Executions : e # f => ChangesOf[e] \cap ChangesOf[f] = {}

(* What of it makes the panel read again, or is its reading.                     *)
ReadsFor(m, v) == m.kind \in ReadKinds /\ m.of = v
Announces(m, v) == ReadsFor(m, v) \/ (m.kind = "changed" /\ m.of.execution = v.execution)
Awaited(out, in, i, v) ==
    \/ \E j \in DOMAIN out : ReadsFor(out[j], v)
    \/ \E j \in DOMAIN in : i < j /\ Announces(in[j], v)

Own(v) == IF v.execution = "none" THEN {} ELSE ChangesOf[v.execution]

ShownBelong ==
    /\ DOMAIN review.rows \subseteq Own(visit)
    /\ DOMAIN review.hunks \subseteq Own(visit)
    /\ review.loading =>
          \/ \E i \in DOMAIN asks : ReadsFor(asks[i], visit)
          \/ \E i \in DOMAIN toWindow : ReadsFor(toWindow[i], visit)

(* Rows as they are, but for those that are known to lag.                        *)
RowsAgree(shown, table, but) ==
    \A c \in DOMAIN shown : c \in but \/ shown[c] = table[c]

RowsShown ==
    \/ behind.reads # {}
    \/ Awaited(asks, toWindow, 0, visit)
    \/ RowsAgree(review.rows, rows, behind.rows)

RowsCome ==
    \A i \in DOMAIN toWindow :
        LET m == toWindow[i] IN
        m.kind = "changes" /\ m.of = visit /\ m.ok =>
            Awaited(asks, toWindow, i, visit) \/ RowsAgree(m.rows, rows, behind.rows)

DecisionsCome ==
    \A i \in DOMAIN toWindow :
        LET m == toWindow[i] IN
        m.kind = "decide" /\ m.of = visit /\ m.ok =>
            \/ Awaited(asks, toWindow, i, visit)
            \/ m.change \in behind.rows \/ m.status = rows[m.change]

HunksShown ==
    \/ behind.reads # {}
    \/ Awaited(asks, toWindow, 0, visit)
    \/ RowsAgree(review.hunks, hunkRows, behind.hunks)

HunksCome ==
    \A i \in DOMAIN toWindow :
        LET m == toWindow[i] IN
        m.kind \in {"edit", "decideHunk"} /\ m.of = visit /\ m.ok =>
            Awaited(asks, toWindow, i, visit) \/ m.hunk = hunkRows[m.change]

Listed(seen) == IF visit.execution \in seen THEN Own(visit) ELSE {}

SetShown ==
    \/ behind.reads # {} \/ behind.ended
    \/ Awaited(asks, toWindow, 0, visit)
    \/ DOMAIN review.rows = Listed(recorded)

(* An answer that there is nothing yet is of before the end, and of before a list.  *)
SaysNothing(m) == m.kind = "get" /\ m.of = visit /\ m.ok /\ ~m.found
NothingYet ==
    \A i \in DOMAIN toWindow : SaysNothing(toWindow[i]) =>
        /\ visit.execution \in recorded => behind.ended
        /\ \A j \in 1 .. (i - 1) :
              ~(toWindow[j].kind = "changes" /\ toWindow[j].of = visit /\ toWindow[j].ok)

ReviewInv ==
    /\ ReviewTypes /\ AllFounded /\ ShownBelong
    /\ RowsShown /\ RowsCome /\ DecisionsCome /\ HunksShown /\ HunksCome /\ SetShown /\ NothingYet

-----------------------------------------------------------------------------
(* The messages that are on their way go on, and others follow them.             *)
Goes(out, in, nextOut, nextIn) ==
    /\ Len(in) <= Len(nextIn)
    /\ \A i \in DOMAIN in : nextIn[i] = in[i]
    /\ \A v : (\E j \in DOMAIN out : ReadsFor(out[j], v)) =>
          \/ \E j \in DOMAIN nextOut : ReadsFor(nextOut[j], v)
          \/ \E j \in DOMAIN nextIn : Len(in) < j /\ ReadsFor(nextIn[j], v)

LEMMA GoesAwaited ==
  ASSUME NEW out, NEW in \in Seq(ReviewMessages), NEW nextOut,
         NEW nextIn \in Seq(ReviewMessages), Goes(out, in, nextOut, nextIn),
         NEW i \in 0 .. Len(in), NEW v, Awaited(out, in, i, v)
  PROVE  Awaited(nextOut, nextIn, i, v)
<1>1. CASE \E j \in DOMAIN out : ReadsFor(out[j], v)
  <2>1. CASE \E j \in DOMAIN nextOut : ReadsFor(nextOut[j], v) BY <2>1 DEF Awaited
  <2>2. CASE \E j \in DOMAIN nextIn : Len(in) < j /\ ReadsFor(nextIn[j], v)
    <3>1. PICK j \in DOMAIN nextIn : Len(in) < j /\ ReadsFor(nextIn[j], v) BY <2>2
    <3>2. i < j BY <3>1
    <3> QED BY <3>1, <3>2 DEF Awaited, Announces
  <2> QED BY <1>1, <2>1, <2>2 DEF Goes
<1>2. CASE \E j \in DOMAIN in : i < j /\ Announces(in[j], v)
  <2>1. PICK j \in DOMAIN in : i < j /\ Announces(in[j], v) BY <1>2
  <2>2. j \in DOMAIN nextIn /\ nextIn[j] = in[j] BY <2>1 DEF Goes
  <2> QED BY <2>1, <2>2 DEF Awaited
<1> QED BY <1>1, <1>2 DEF Awaited

(* A reply that is sent says what is so.                                        *)
GoodReply(m, v, seen, table, hunks, but) ==
    /\ TellsTrue(m, seen, v.generation)
    /\ m.kind = "changes" /\ m.of = v /\ m.ok => RowsAgree(m.rows, table, but)
    /\ m.kind = "decide" /\ m.of = v /\ m.ok => m.status = table[m.change]
    /\ m.kind \in {"edit", "decideHunk"} /\ m.of = v /\ m.ok => m.hunk = hunks[m.change]
    /\ m.kind = "get" /\ m.of = v /\ m.ok /\ ~m.found => v.execution \notin seen

(* What main does leaves what is shown as true as it was, when what it changes is    *)
(* kept in mind or told.                                                        *)
Kept(table, nextTable, hunks, nextHunks, but, nextBut) ==
    \A c \in Own(visit) :
        /\ nextTable[c] = table[c] \/ c \in nextBut
        /\ c \in but => c \in nextBut
        /\ nextHunks[c] = hunks[c]

Retold(in, nextIn) == \E i \in DOMAIN nextIn : Len(in) < i /\ Announces(nextIn[i], visit)

LEMMA TellsStays ==
  ASSUME NEW m, NEW seen, NEW nextSeen, NEW now, TellsTrue(m, seen, now), seen \subseteq nextSeen
  PROVE  TellsTrue(m, nextSeen, now)
BY DEF TellsTrue, Founded

LEMMA MainKeeps ==
  ASSUME ChangesApart, ReviewInv, ReviewTypes', visit' = visit, review'.rows = review.rows,
         review'.hunks = review.hunks, review'.loading = review.loading,
         Goes(asks, toWindow, asks', toWindow'),
         \A i \in DOMAIN asks' : Founded(asks'[i], recorded', visit.generation),
         \A m \in working' : Founded(m, recorded', visit.generation),
         \A i \in DOMAIN toWindow' : i \in DOMAIN toWindow \/
             GoodReply(toWindow'[i], visit, recorded', rows', hunkRows', behind'.rows),
         recorded \subseteq recorded',
         visit.execution \in recorded' => visit.execution \in recorded \/ behind'.ended,
         behind'.reads = behind.reads, behind'.hunks = behind.hunks,
         behind.ended => behind'.ended,
         \/ Kept(rows, rows', hunkRows, hunkRows', behind.rows, behind'.rows)
         \/ Retold(toWindow, toWindow')
  PROVE  ReviewInv'
<1>1. \A i \in DOMAIN toWindow : i \in DOMAIN toWindow' /\ toWindow'[i] = toWindow[i]
  BY DEF Goes, ReviewInv, ReviewTypes
<1>2. \A i \in DOMAIN toWindow : toWindow[i] \in ReviewMessages
  BY DEF ReviewInv, ReviewTypes
<1>3. \A i \in DOMAIN toWindow' : TellsTrue(toWindow'[i], recorded', visit.generation)
  <2> TAKE i \in DOMAIN toWindow'
  <2>1. CASE i \in DOMAIN toWindow
    <3>1. TellsTrue(toWindow[i], recorded, visit.generation) BY <2>1 DEF ReviewInv, AllFounded
    <3> QED BY <1>1, <2>1, <3>1, TellsStays
  <2> QED BY <2>1 DEF GoodReply
<1>4. AllFounded' BY <1>3 DEF AllFounded
<1>5. \A i \in 0 .. Len(toWindow) : Awaited(asks, toWindow, i, visit) => Awaited(asks', toWindow', i, visit)
  BY GoesAwaited DEF ReviewInv, ReviewTypes
<1>6. Retold(toWindow, toWindow') => \A i \in 0 .. Len(toWindow) : Awaited(asks', toWindow', i, visit)
  BY DEF Retold, Awaited, ReviewTypes, ReviewInv
<1>7. ShownBelong'
  <2>1. review.loading => \/ \E i \in DOMAIN asks' : ReadsFor(asks'[i], visit)
                          \/ \E i \in DOMAIN toWindow' : ReadsFor(toWindow'[i], visit)
    <3>1. CASE \E i \in DOMAIN asks : ReadsFor(asks[i], visit) BY <3>1 DEF Goes
    <3>2. CASE \E i \in DOMAIN toWindow : ReadsFor(toWindow[i], visit) BY <3>2, <1>1
    <3> QED BY <3>1, <3>2 DEF ReviewInv, ShownBelong
  <2> QED BY <2>1 DEF ReviewInv, ShownBelong, Own
<1>8. ASSUME NEW shown, DOMAIN shown \subseteq Own(visit), RowsAgree(shown, rows, behind.rows),
             NEW i \in 0 .. Len(toWindow)
      PROVE  Awaited(asks', toWindow', i, visit) \/ RowsAgree(shown, rows', behind'.rows)
  BY <1>8, <1>6 DEF Kept, RowsAgree
<1>9. 0 \in 0 .. Len(toWindow) BY DEF ReviewInv, ReviewTypes
<1>10. RowsShown'
  <2>1. CASE RowsAgree(review.rows, rows, behind.rows)
    BY <1>8, <1>9, <2>1 DEF RowsShown, ReviewInv, ShownBelong
  <2> QED BY <2>1, <1>5, <1>9 DEF RowsShown, ReviewInv
<1>11. HunksShown'
  <2>1. CASE RowsAgree(review.hunks, hunkRows, behind.hunks)
    BY <1>6, <1>9, <2>1 DEF HunksShown, ReviewInv, ShownBelong, Kept, RowsAgree
  <2> QED BY <2>1, <1>5, <1>9 DEF HunksShown, ReviewInv
<1>12. SetShown'
  <2>1. CASE DOMAIN review.rows = Listed(recorded)
    BY <2>1 DEF SetShown, Listed, Own
  <2> QED BY <2>1, <1>5, <1>9 DEF SetShown, ReviewInv
<1>13. RowsCome'
  <2> SUFFICES ASSUME NEW i \in DOMAIN toWindow', NEW m, m = toWindow'[i],
                      m.kind = "changes", m.of = visit, m.ok
               PROVE  Awaited(asks', toWindow', i, visit) \/ RowsAgree(m.rows, rows', behind'.rows)
    BY DEF RowsCome
  <2>1. CASE i \in DOMAIN toWindow
    <3>1. m = toWindow[i] /\ i \in 0 .. Len(toWindow) BY <1>1, <2>1 DEF ReviewInv, ReviewTypes
    <3>2. DOMAIN m.rows \subseteq Own(visit)
      BY <2>1, <3>1 DEF ReviewInv, AllFounded, TellsTrue, Founded, Own, ChangesApart
    <3>3. Awaited(asks, toWindow, i, visit) \/ RowsAgree(m.rows, rows, behind.rows)
      BY <2>1, <3>1 DEF ReviewInv, RowsCome
    <3> QED BY <3>1, <3>2, <3>3, <1>5, <1>8
  <2> QED BY <2>1 DEF GoodReply
<1>14. HunksCome'
  <2> SUFFICES ASSUME NEW i \in DOMAIN toWindow', NEW m, m = toWindow'[i],
                      m.kind \in {"edit", "decideHunk"}, m.of = visit, m.ok
               PROVE  Awaited(asks', toWindow', i, visit) \/ m.hunk = hunkRows'[m.change]
    BY DEF HunksCome
  <2>1. CASE i \in DOMAIN toWindow
    <3>1. m = toWindow[i] /\ i \in 0 .. Len(toWindow) BY <1>1, <2>1 DEF ReviewInv, ReviewTypes
    <3>2. m.change \in Own(visit)
      BY <2>1, <3>1 DEF ReviewInv, AllFounded, TellsTrue, Founded, Own, ChangeKinds, ChangesApart
    <3>3. Awaited(asks, toWindow, i, visit) \/ m.hunk = hunkRows[m.change]
      BY <2>1, <3>1 DEF ReviewInv, HunksCome
    <3> QED BY <3>1, <3>2, <3>3, <1>5, <1>6 DEF Kept
  <2> QED BY <2>1 DEF GoodReply
<1>15. NothingYet'
  <2> SUFFICES ASSUME NEW i \in DOMAIN toWindow', NEW m, m = toWindow'[i],
                      m.kind = "get", m.of = visit, m.ok, ~m.found
               PROVE  /\ visit.execution \in recorded' => behind'.ended
                      /\ \A j \in 1 .. (i - 1) : ~(toWindow'[j].kind = "changes" /\
                                            toWindow'[j].of = visit /\ toWindow'[j].ok)
    BY DEF NothingYet, SaysNothing
  <2>1. CASE i \in DOMAIN toWindow
    <3>1. m = toWindow[i] BY <1>1, <2>1
    <3>2. \A j \in 1 .. (i - 1) : j \in DOMAIN toWindow BY <2>1 DEF ReviewInv, ReviewTypes
    <3> QED BY <2>1, <3>1, <3>2, <1>1 DEF ReviewInv, NothingYet, SaysNothing
  <2>2. CASE i \notin DOMAIN toWindow
    <3>1. visit.execution \notin recorded' BY <2>2 DEF GoodReply
    <3>2. \A j \in 1 .. (i - 1) : j \in DOMAIN toWindow' BY DEF ReviewTypes
    <3>3. \A j \in DOMAIN toWindow' : toWindow'[j].kind = "changes" => toWindow'[j].of.execution \in recorded'
      BY <1>3 DEF TellsTrue, Founded
    <3> QED BY <3>1, <3>2, <3>3
  <2> QED BY <2>1, <2>2
<1>16. DecisionsCome'
  <2> SUFFICES ASSUME NEW i \in DOMAIN toWindow', NEW m, m = toWindow'[i],
                      m.kind = "decide", m.of = visit, m.ok
               PROVE  \/ Awaited(asks', toWindow', i, visit)
                      \/ m.change \in behind'.rows \/ m.status = rows'[m.change]
    BY DEF DecisionsCome
  <2>1. CASE i \in DOMAIN toWindow
    <3>1. m = toWindow[i] /\ i \in 0 .. Len(toWindow) BY <1>1, <2>1 DEF ReviewInv, ReviewTypes
    <3>2. m.change \in Own(visit)
      BY <2>1, <3>1 DEF ReviewInv, AllFounded, TellsTrue, Founded, Own, ChangeKinds, ChangesApart
    <3>3. \/ Awaited(asks, toWindow, i, visit)
          \/ m.change \in behind.rows \/ m.status = rows[m.change]
      BY <2>1, <3>1 DEF ReviewInv, DecisionsCome
    <3> QED BY <3>1, <3>2, <3>3, <1>5, <1>6 DEF Kept
  <2> QED BY <2>1 DEF GoodReply
<1> QED BY <1>4, <1>7, <1>10, <1>11, <1>12, <1>13, <1>14, <1>15, <1>16 DEF ReviewInv

-----------------------------------------------------------------------------
(* What is sent comes last, what is taken was first.                              *)
LEMMA SentOne ==
  ASSUME NEW in \in Seq(ReviewMessages), NEW m \in ReviewMessages, NEW next, next = Append(in, m)
  PROVE  /\ next \in Seq(ReviewMessages) /\ Len(next) = Len(in) + 1
         /\ DOMAIN next = 1 .. (Len(in) + 1)
         /\ \A i \in DOMAIN in : next[i] = in[i]
         /\ next[Len(in) + 1] = m
         /\ Len(in) \in Nat /\ DOMAIN in = 1 .. Len(in)
OBVIOUS

LEMMA SentTwo ==
  ASSUME NEW in \in Seq(ReviewMessages), NEW m \in ReviewMessages, NEW n \in ReviewMessages,
         NEW next, next = in \o <<m, n>>
  PROVE  /\ next \in Seq(ReviewMessages) /\ Len(next) = Len(in) + 2
         /\ DOMAIN next = 1 .. (Len(in) + 2)
         /\ \A i \in DOMAIN in : next[i] = in[i]
         /\ next[Len(in) + 1] = m /\ next[Len(in) + 2] = n
         /\ Len(in) \in Nat /\ DOMAIN in = 1 .. Len(in)
<1>1. <<m, n>> \in Seq(ReviewMessages) /\ Len(<<m, n>>) = 2 /\ <<m, n>>[1] = m /\ <<m, n>>[2] = n
  OBVIOUS
<1>2. PICK last : last = <<m, n>> OBVIOUS
<1>3. next = in \o last /\ last \in Seq(ReviewMessages) /\ Len(last) = 2 /\ last[1] = m /\ last[2] = n
  BY <1>1, <1>2
<1> QED BY <1>3

LEMMA TakenFirst ==
  ASSUME NEW out \in Seq(ReviewMessages), out # <<>>, NEW next, next = Tail(out)
  PROVE  /\ Head(out) \in ReviewMessages /\ Head(out) = out[1] /\ 1 \in DOMAIN out
         /\ next \in Seq(ReviewMessages) /\ Len(out) = Len(next) + 1 /\ Len(next) \in Nat
         /\ DOMAIN next = 1 .. Len(next) /\ DOMAIN out = 1 .. Len(out)
         /\ \A i \in DOMAIN next : next[i] = out[i + 1] /\ i + 1 \in DOMAIN out
OBVIOUS

LEMMA GoesOn ==
  ASSUME NEW out \in Seq(ReviewMessages), NEW in \in Seq(ReviewMessages),
         NEW nextIn \in Seq(ReviewMessages), NEW nextOut, Len(in) <= Len(nextIn),
         \A i \in DOMAIN in : nextIn[i] = in[i],
         \/ nextOut = out
         \/ /\ out # <<>> /\ nextOut = Tail(out)
            /\ Head(out).kind \in ReadKinds =>
                  \E j \in DOMAIN nextIn : /\ Len(in) < j /\ nextIn[j].kind \in ReadKinds
                                           /\ nextIn[j].of = Head(out).of
  PROVE  Goes(out, in, nextOut, nextIn)
<1>1. CASE nextOut = out BY <1>1 DEF Goes
<1>2. CASE /\ out # <<>> /\ nextOut = Tail(out)
           /\ Head(out).kind \in ReadKinds =>
                  \E j \in DOMAIN nextIn : /\ Len(in) < j /\ nextIn[j].kind \in ReadKinds
                                           /\ nextIn[j].of = Head(out).of
  <2> SUFFICES ASSUME NEW v, NEW j \in DOMAIN out, ReadsFor(out[j], v)
               PROVE  \/ \E k \in DOMAIN nextOut : ReadsFor(nextOut[k], v)
                      \/ \E k \in DOMAIN nextIn : Len(in) < k /\ ReadsFor(nextIn[k], v)
    BY DEF Goes
  <2>1. CASE j = 1 BY <1>2, <2>1, TakenFirst DEF ReadsFor
  <2>2. CASE j # 1
    <3>1. j - 1 \in DOMAIN nextOut /\ nextOut[j - 1] = out[j] BY <1>2, <2>2
    <3> QED BY <3>1
  <2> QED BY <2>1, <2>2
<1> QED BY <1>1, <1>2

LEMMA ExecutionIs ==
  ASSUME ChangesApart, NEW e \in Executions, NEW c \in ChangesOf[e]
  PROVE  ExecutionOf(c) = e /\ c \in AllChanges
<1>1. ExecutionOf(c) \in Executions /\ c \in ChangesOf[ExecutionOf(c)] BY DEF ExecutionOf
<1>2. \A f \in Executions : c \in ChangesOf[f] => f = e BY DEF ChangesApart
<1>3. c \in AllChanges BY DEF AllChanges
<1> QED BY <1>1, <1>2, <1>3

LEMMA EventIs ==
  ASSUME NEW e \in Executions, NEW m, m = Event(e), ReviewTypes
  PROVE  /\ m \in ReviewMessages /\ m.kind = "changed" /\ m.of.execution = e
         /\ m.of.generation = 0
<1>1. m = [kind |-> "changed", change |-> "none", of |-> [execution |-> e, generation |-> 0],
           id |-> 0, ok |-> TRUE, status |-> "pending", found |-> FALSE, rows |-> <<>>,
           hunk |-> [version |-> 0, open |-> TRUE]]
  BY DEF Event, Call
<1>2. <<>> \in SomeRows
  <2>1. <<>> = [x \in {} |-> "pending"] OBVIOUS
  <2>2. [x \in {} |-> "pending"] \in [{} -> RowStatuses] OBVIOUS
  <2>3. {} \in SUBSET AllChanges OBVIOUS
  <2> QED BY <2>1, <2>2, <2>3 DEF SomeRows
<1>3. [execution |-> e, generation |-> 0] \in Visits BY DEF Visits
<1>4. [version |-> 0, open |-> TRUE] \in Hunks BY DEF Hunks
<1> QED BY <1>1, <1>2, <1>3, <1>4 DEF ReviewMessages, RowStatuses

LEMMA EventIsGood ==
  ASSUME NEW e \in Executions, NEW m, m = Event(e), ReviewTypes,
         NEW seen, NEW table, NEW hunks, NEW but
  PROVE  GoodReply(m, visit, seen, table, hunks, but)
<1>1. m.kind = "changed" /\ m.of.execution = e /\ m.of.generation = 0 BY EventIs
<1>2. 0 <= visit.generation BY DEF ReviewTypes, Visits
<1> QED BY <1>1, <1>2 DEF GoodReply, TellsTrue, Founded, ChangeKinds

(* An event of the execution tells of all that was changed of it.                  *)
LEMMA ToldIsKept ==
  ASSUME ChangesApart, ReviewInv, NEW e \in Executions, behind' = Told(e),
         \A c \in AllChanges : c \notin ChangesOf[e] =>
             rows'[c] = rows[c] /\ hunkRows'[c] = hunkRows[c],
         Len(toWindow) + 1 \in DOMAIN toWindow', toWindow'[Len(toWindow) + 1] = Event(e)
  PROVE  \/ Kept(rows, rows', hunkRows, hunkRows', behind.rows, behind'.rows)
         \/ Retold(toWindow, toWindow')
<1>1. CASE e = visit.execution
  <2>1. PICK m : m = Event(e) OBVIOUS
  <2>2. m.kind = "changed" /\ m.of.execution = e BY <2>1, EventIs DEF ReviewInv
  <2>3. Len(toWindow) < Len(toWindow) + 1 BY DEF ReviewInv, ReviewTypes
  <2> QED BY <1>1, <2>1, <2>2, <2>3 DEF Retold, Announces
<1>2. CASE e # visit.execution
  <2>1. \A c \in Own(visit) : c \in AllChanges /\ c \notin ChangesOf[e]
    <3>1. visit.execution \in Executions \cup {"none"} BY DEF ReviewInv, ReviewTypes, Visits
    <3> QED BY <1>2, <3>1 DEF Own, ChangesApart, AllChanges
  <2>2. behind'.rows = behind.rows \ ChangesOf[e] BY DEF Told, ReviewInv, ReviewTypes, Behind
  <2> QED BY <2>1, <2>2 DEF Kept
<1> QED BY <1>1, <1>2

LEMMA ToldIs ==
  ASSUME ReviewTypes, NEW e \in Executions, NEW next, next = Told(e)
  PROVE  /\ next \in Behind /\ next.reads = behind.reads /\ next.hunks = behind.hunks
         /\ next.ended = behind.ended
BY DEF Told, ReviewTypes, Behind

-----------------------------------------------------------------------------
(* The handlers.                                                                *)
LEMMA RefusalIsGood ==
  ASSUME NEW call \in ReviewMessages, NEW m, m = Refusal(call), NEW seen, NEW table, NEW hunks,
         NEW but, Founded(call, seen, visit.generation)
  PROVE  /\ m \in ReviewMessages /\ m.kind = call.kind /\ m.of = call.of
         /\ GoodReply(m, visit, seen, table, hunks, but)
<1>1. /\ m \in ReviewMessages /\ m.kind = call.kind /\ m.of = call.of /\ m.ok = FALSE
      /\ m.change = call.change
  BY DEF Refusal, ReviewMessages
<1> QED BY <1>1 DEF GoodReply, TellsTrue, Founded

LEMMA RowsAre ==
  ASSUME NEW e \in Executions, ReviewTypes, NEW list, list = Rows(ChangesOf[e])
  PROVE  list \in SomeRows /\ DOMAIN list = ChangesOf[e] /\ RowsAgree(list, rows, {})
<1>1. ChangesOf[e] \in SUBSET AllChanges BY DEF AllChanges
<1>2. list = [c \in ChangesOf[e] |-> rows[c]] BY DEF Rows
<1>3. list \in [ChangesOf[e] -> RowStatuses] BY <1>1, <1>2 DEF ReviewTypes
<1> QED BY <1>1, <1>2, <1>3 DEF SomeRows, RowsAgree

LEMMA ReviewReads ==
  ASSUME ReviewInv, NEW call \in ReviewMessages,
         Founded(call, recorded, visit.generation), Read(call)
  PROVE  /\ used' \in [calls : Nat, faults : Nat] /\ call.kind \in ReadKinds
         /\ \E m \in ReviewMessages :
               /\ toWindow' = Append(toWindow, m) /\ m.kind = call.kind /\ m.of = call.of
               /\ GoodReply(m, visit, recorded, rows, hunkRows, behind.rows)
<1>1. used' \in [calls : Nat, faults : Nat] /\ call.kind \in ReadKinds
  BY DEF Read, ReviewInv, ReviewTypes, ReadKinds
<1>2. CASE toWindow' = Append(toWindow, Refusal(call))
  BY <1>1, <1>2, RefusalIsGood
<1>3. CASE /\ call.kind = "get"
           /\ toWindow' = Append(toWindow, [call EXCEPT !.found = call.of.execution \in recorded])
  <2>0. PICK known \in BOOLEAN : known = (call.of.execution \in recorded)
    <3>1. (call.of.execution \in recorded) \in BOOLEAN OBVIOUS
    <3> QED BY <3>1, Zenon
  <2>1. PICK m : m = [call EXCEPT !.found = known] OBVIOUS
  <2>2. /\ m \in ReviewMessages /\ m.kind = call.kind /\ m.of = call.of
        /\ m.change = call.change /\ m.found = known
    BY <2>1 DEF ReviewMessages
  <2>3. GoodReply(m, visit, recorded, rows, hunkRows, behind.rows)
    BY <1>3, <2>0, <2>2 DEF GoodReply, TellsTrue, Founded
  <2> QED BY <1>1, <1>3, <2>0, <2>1, <2>2, <2>3
<1>4. CASE /\ call.kind = "changes"
           /\ toWindow' = Append(toWindow, [call EXCEPT !.rows = Rows(ChangesOf[call.of.execution])])
  <2>1. PICK list : list = Rows(ChangesOf[call.of.execution]) OBVIOUS
  <2>2. PICK m : m = [call EXCEPT !.rows = list] OBVIOUS
  <2>3. call.of.execution \in Executions BY DEF Founded
  <2>4. list \in SomeRows /\ DOMAIN list = ChangesOf[call.of.execution] /\ RowsAgree(list, rows, {})
    BY <2>1, <2>3, RowsAre DEF ReviewInv
  <2>5. /\ m \in ReviewMessages /\ m.kind = call.kind /\ m.of = call.of
        /\ m.change = call.change /\ m.rows = list
    BY <2>2, <2>4 DEF ReviewMessages
  <2>6. RowsAgree(m.rows, rows, behind.rows) BY <2>4, <2>5 DEF RowsAgree
  <2>7. GoodReply(m, visit, recorded, rows, hunkRows, behind.rows)
    BY <1>4, <2>4, <2>5, <2>6 DEF GoodReply, TellsTrue, Founded
  <2> QED BY <1>1, <1>4, <2>1, <2>2, <2>5, <2>7
<1> QED BY <1>2, <1>3, <1>4 DEF Read

(* ChangeHunkService.decide, and the end of an edit: the hunk is as the reply says.  *)
LEMMA HunkTold ==
  ASSUME ReviewInv, NEW call \in ReviewMessages, NEW m, NEW hunk \in Hunks,
         m = WithHunk(call, hunk), Founded(call, recorded, visit.generation),
         call.kind \in {"edit", "decideHunk"}, NEW table,
         NEW hunks, hunks[call.change] = hunk, NEW but
  PROVE  /\ m \in ReviewMessages /\ GoodReply(m, visit, recorded, table, hunks, but)
<1>1. /\ m \in ReviewMessages /\ m.kind = call.kind /\ m.of = call.of
      /\ m.change = call.change /\ m.hunk = hunk
  BY DEF WithHunk, ReviewMessages
<1> QED BY <1>1 DEF GoodReply, TellsTrue, Founded

(* What ends with an event and a reply.                                          *)
LEMMA SendKeeps ==
  ASSUME ChangesApart, ReviewInv, NEW e \in Executions, NEW m \in ReviewMessages, Send(e, m),
         rows' \in [AllChanges -> RowStatuses], hunkRows' \in [AllChanges -> Hunks],
         asks' \in Seq(ReviewMessages), working' \in SUBSET ReviewMessages,
         UNCHANGED <<recorded, visit, review, used>>,
         \/ asks' = asks
         \/ asks # <<>> /\ asks' = Tail(asks) /\ Head(asks).kind \notin ReadKinds,
         \A i \in DOMAIN asks' : Founded(asks'[i], recorded, visit.generation),
         \A n \in working' : Founded(n, recorded, visit.generation),
         \A c \in AllChanges : c \notin ChangesOf[e] =>
             rows'[c] = rows[c] /\ hunkRows'[c] = hunkRows[c],
         GoodReply(m, visit, recorded, rows', hunkRows', behind'.rows)
  PROVE  ReviewInv'
<1>1. PICK n : n = Event(e) OBVIOUS
<1>2. PICK in : in = toWindow OBVIOUS
<1>3. PICK next : next = toWindow' OBVIOUS
<1>4. n \in ReviewMessages BY <1>1, EventIs DEF ReviewInv
<1>5. next = in \o <<n, m>> BY <1>1, <1>2, <1>3 DEF Send
<1>6. in \in Seq(ReviewMessages) BY <1>2 DEF ReviewInv, ReviewTypes
<1>7. /\ next \in Seq(ReviewMessages) /\ Len(next) = Len(in) + 2
      /\ DOMAIN next = 1 .. (Len(in) + 2) /\ Len(in) \in Nat /\ DOMAIN in = 1 .. Len(in)
      /\ \A i \in DOMAIN in : next[i] = in[i]
      /\ next[Len(in) + 1] = n /\ next[Len(in) + 2] = m
  BY <1>4, <1>5, <1>6, SentTwo
<1>8. behind' = Told(e) BY DEF Send
<1>9. /\ behind' \in Behind /\ behind'.reads = behind.reads /\ behind'.hunks = behind.hunks
      /\ behind'.ended = behind.ended
  BY <1>8, ToldIs DEF ReviewInv
<1>10. ReviewTypes' BY <1>3, <1>7, <1>9 DEF ReviewTypes, ReviewInv
<1>11. Goes(asks, toWindow, asks', toWindow')
  <2>1. PICK out \in Seq(ReviewMessages) : out = asks BY DEF ReviewInv, ReviewTypes
  <2>2. PICK nextOut : nextOut = asks' OBVIOUS
  <2>3. nextOut = out \/ (out # <<>> /\ nextOut = Tail(out) /\ Head(out).kind \notin ReadKinds)
    BY <2>1, <2>2
  <2>4. Len(in) <= Len(next) BY <1>7
  <2>5. Goes(out, in, nextOut, next) BY <1>6, <1>7, <2>3, <2>4, GoesOn
  <2> QED BY <1>2, <1>3, <2>1, <2>2, <2>5
<1>12. GoodReply(n, visit, recorded, rows', hunkRows', behind'.rows)
  BY <1>1, EventIsGood DEF ReviewInv
<1>13. \A i \in DOMAIN toWindow' : i \in DOMAIN toWindow \/
           GoodReply(toWindow'[i], visit, recorded, rows', hunkRows', behind'.rows)
  <2> TAKE i \in DOMAIN toWindow'
  <2>1. i \in DOMAIN in \/ i = Len(in) + 1 \/ i = Len(in) + 2 BY <1>3, <1>7
  <2> QED BY <1>2, <1>3, <1>7, <1>12, <2>1
<1>14. \/ Kept(rows, rows', hunkRows, hunkRows', behind.rows, behind'.rows)
       \/ Retold(toWindow, toWindow')
  BY <1>1, <1>2, <1>3, <1>7, <1>8, ToldIsKept
<1> QED BY <1>9, <1>10, <1>11, <1>13, <1>14, MainKeeps

(* What ends with a reply alone.                                                  *)
LEMMA ReplyKeeps ==
  ASSUME ChangesApart, ReviewInv, NEW m \in ReviewMessages, toWindow' = Append(toWindow, m),
         rows' \in [AllChanges -> RowStatuses], hunkRows' = hunkRows,
         used' \in [calls : Nat, faults : Nat],
         asks' \in Seq(ReviewMessages), working' \in SUBSET ReviewMessages,
         UNCHANGED <<recorded, visit, review>>, behind' \in Behind,
         behind'.reads = behind.reads, behind'.hunks = behind.hunks,
         behind'.ended = behind.ended,
         \/ asks' = asks
         \/ /\ asks # <<>> /\ asks' = Tail(asks)
            /\ Head(asks).kind \in ReadKinds => m.kind \in ReadKinds /\ m.of = Head(asks).of,
         \A i \in DOMAIN asks' : Founded(asks'[i], recorded, visit.generation),
         \A n \in working' : Founded(n, recorded, visit.generation),
         \A c \in AllChanges : rows'[c] = rows[c] \/ c \in behind'.rows,
         behind.rows \subseteq behind'.rows,
         GoodReply(m, visit, recorded, rows', hunkRows', behind'.rows)
  PROVE  ReviewInv'
<1>1. PICK in : in = toWindow OBVIOUS
<1>2. PICK next : next = toWindow' OBVIOUS
<1>3. in \in Seq(ReviewMessages) BY <1>1 DEF ReviewInv, ReviewTypes
<1>4. /\ next \in Seq(ReviewMessages) /\ Len(next) = Len(in) + 1
      /\ DOMAIN next = 1 .. (Len(in) + 1) /\ Len(in) \in Nat /\ DOMAIN in = 1 .. Len(in)
      /\ \A i \in DOMAIN in : next[i] = in[i]
      /\ next[Len(in) + 1] = m
  BY <1>1, <1>2, <1>3, SentOne
<1>5. ReviewTypes' BY <1>2, <1>4 DEF ReviewTypes, ReviewInv
<1>6. Goes(asks, toWindow, asks', toWindow')
  <2>1. PICK out \in Seq(ReviewMessages) : out = asks BY DEF ReviewInv, ReviewTypes
  <2>2. PICK nextOut : nextOut = asks' OBVIOUS
  <2>3. \/ nextOut = out
        \/ /\ out # <<>> /\ nextOut = Tail(out)
           /\ Head(out).kind \in ReadKinds => m.kind \in ReadKinds /\ m.of = Head(out).of
    BY <2>1, <2>2
  <2>4. Len(in) <= Len(next) BY <1>4
  <2>5. Len(in) + 1 \in DOMAIN next /\ Len(in) < Len(in) + 1 /\ next[Len(in) + 1] = m BY <1>4
  <2>6. Goes(out, in, nextOut, next)
    <3>1. CASE nextOut = out BY <1>3, <1>4, <2>4, <3>1, GoesOn
    <3>2. CASE /\ out # <<>> /\ nextOut = Tail(out)
               /\ Head(out).kind \in ReadKinds => m.kind \in ReadKinds /\ m.of = Head(out).of
      <4>1. Head(out).kind \in ReadKinds =>
               \E j \in DOMAIN next : /\ Len(in) < j /\ next[j].kind \in ReadKinds
                                      /\ next[j].of = Head(out).of
        BY <2>5, <3>2
      <4> QED BY <1>3, <1>4, <2>4, <3>2, <4>1, GoesOn
    <3> QED BY <2>3, <3>1, <3>2
  <2> QED BY <1>1, <1>2, <2>1, <2>2, <2>6
<1>7. \A i \in DOMAIN toWindow' : i \in DOMAIN toWindow \/
           GoodReply(toWindow'[i], visit, recorded, rows', hunkRows', behind'.rows)
  <2> TAKE i \in DOMAIN toWindow'
  <2>1. i \in DOMAIN in \/ i = Len(in) + 1 BY <1>2, <1>4
  <2> QED BY <1>1, <1>2, <1>4, <2>1
<1>8. Kept(rows, rows', hunkRows, hunkRows', behind.rows, behind'.rows)
  <2>1. \A c \in Own(visit) : c \in AllChanges
    BY DEF Own, AllChanges, Executions, ReviewInv, ReviewTypes, Visits
  <2> QED BY <2>1 DEF Kept
<1> QED BY <1>5, <1>6, <1>7, <1>8, MainKeeps

LEMMA FirstAsked ==
  ASSUME ReviewInv, asks # <<>>, asks' = Tail(asks), NEW call, call = Head(asks)
  PROVE  /\ call \in ReviewMessages /\ Founded(call, recorded, visit.generation)
         /\ asks' \in Seq(ReviewMessages)
         /\ \A i \in DOMAIN asks' : Founded(asks'[i], recorded, visit.generation)
<1>1. PICK out \in Seq(ReviewMessages) : out = asks BY DEF ReviewInv, ReviewTypes
<1>2. PICK next : next = asks' OBVIOUS
<1>3. /\ Head(out) \in ReviewMessages /\ Head(out) = out[1] /\ 1 \in DOMAIN out
      /\ next \in Seq(ReviewMessages)
      /\ \A i \in DOMAIN next : next[i] = out[i + 1] /\ i + 1 \in DOMAIN out
  BY <1>1, <1>2, TakenFirst
<1>4. \A i \in DOMAIN out : Founded(out[i], recorded, visit.generation)
  BY <1>1 DEF ReviewInv, AllFounded
<1> QED BY <1>1, <1>2, <1>3, <1>4

LEMMA HunkIs ==
  ASSUME ReviewInv, NEW call \in ReviewMessages, Founded(call, recorded, visit.generation),
         call.kind \in ChangeKinds
  PROVE  /\ call.of.execution \in Executions /\ call.change \in ChangesOf[call.of.execution]
         /\ call.change \in AllChanges /\ hunkRows[call.change] \in Hunks
         /\ rows[call.change] \in RowStatuses
<1>1. call.of.execution \in Executions /\ call.change \in ChangesOf[call.of.execution]
  BY DEF Founded
<1>2. call.change \in AllChanges BY <1>1 DEF AllChanges
<1> QED BY <1>1, <1>2 DEF ReviewInv, ReviewTypes

LEMMA ReviewHandles == ASSUME ChangesApart, ReviewInv, Handle PROVE ReviewInv'
<1>1. PICK call : call = Head(asks) OBVIOUS
<1>2. /\ asks # <<>> /\ asks' = Tail(asks) /\ UNCHANGED <<recorded, visit, review>>
      /\ Read(call) \/ DecidesHunk(call) \/ Waits(call)
  BY <1>1 DEF Handle
<1>3. /\ call \in ReviewMessages /\ Founded(call, recorded, visit.generation)
      /\ asks' \in Seq(ReviewMessages)
      /\ \A i \in DOMAIN asks' : Founded(asks'[i], recorded, visit.generation)
  BY <1>1, <1>2, FirstAsked
<1>4. /\ rows \in [AllChanges -> RowStatuses] /\ hunkRows \in [AllChanges -> Hunks]
      /\ working \in SUBSET ReviewMessages /\ behind \in Behind
      /\ used \in [calls : Nat, faults : Nat]
      /\ \A n \in working : Founded(n, recorded, visit.generation)
  BY DEF ReviewInv, ReviewTypes, AllFounded
<1>5. CASE Read(call)
  <2>1. UNCHANGED <<rows, hunkRows, working, behind>> BY <1>5 DEF Read
  <2>2. used' \in [calls : Nat, faults : Nat] BY <1>3, <1>5, ReviewReads
  <2>3. PICK m \in ReviewMessages :
           /\ toWindow' = Append(toWindow, m) /\ m.kind = call.kind /\ m.of = call.of
           /\ GoodReply(m, visit, recorded, rows, hunkRows, behind.rows)
    BY <1>3, <1>5, ReviewReads
  <2>4. GoodReply(m, visit, recorded, rows', hunkRows', behind'.rows) BY <2>1, <2>3
  <2>5. Head(asks).kind \in ReadKinds => m.kind \in ReadKinds /\ m.of = Head(asks).of
    BY <1>1, <2>3
  <2> QED BY <1>2, <1>3, <1>4, <2>1, <2>2, <2>3, <2>4, <2>5, ReplyKeeps
<1>6. CASE DecidesHunk(call)
  <2>1. call.kind = "decideHunk" /\ UNCHANGED <<rows, working, used>> BY <1>6 DEF DecidesHunk
  <2>2. PICK e \in Executions : e = call.of.execution BY <1>3 DEF Founded
  <2>3. PICK c : c = call.change OBVIOUS
  <2>4. c \in ChangesOf[e] /\ c \in AllChanges /\ hunkRows[c] \in Hunks
    BY <1>3, <2>1, <2>2, <2>3, HunkIs DEF ChangeKinds
  <2>5. ExecutionOf(c) = e BY <2>4, ExecutionIs
  <2>6. Head(asks).kind \notin ReadKinds BY <1>1, <2>1 DEF ReadKinds
  <2>7. CASE hunkRows[c].open /\ rows[c] = "pending"
    <3>1. PICK hunk : hunk = [version |-> hunkRows[c].version + 1, open |-> FALSE] OBVIOUS
    <3>2. hunk \in Hunks BY <2>4, <3>1 DEF Hunks
    <3>3. PICK m : m = WithHunk(call, hunk) OBVIOUS
    <3>4. hunkRows' = [hunkRows EXCEPT ![c] = hunk] /\ Send(e, m)
      BY <1>6, <2>3, <2>5, <2>7, <3>1, <3>3 DEF DecidesHunk
    <3>5. hunkRows' \in [AllChanges -> Hunks] /\ hunkRows'[c] = hunk
          /\ \A x \in AllChanges : x # c => hunkRows'[x] = hunkRows[x]
      BY <1>4, <2>4, <3>2, <3>4
    <3>6. m \in ReviewMessages /\ GoodReply(m, visit, recorded, rows', hunkRows', behind'.rows)
      BY <1>3, <2>1, <2>3, <3>2, <3>3, <3>5, HunkTold
    <3>7. rows' = rows /\ working' = working /\ UNCHANGED <<recorded, visit, review, used>>
      BY <1>2, <2>1
    <3>8. \A x \in AllChanges : x \notin ChangesOf[e] =>
              rows'[x] = rows[x] /\ hunkRows'[x] = hunkRows[x]
      BY <2>4, <3>5, <3>7
    <3> QED BY <1>2, <1>3, <1>4, <2>6, <3>4, <3>5, <3>6, <3>7, <3>8, SendKeeps
  <2>8. CASE ~(hunkRows[c].open /\ rows[c] = "pending")
    <3>1. PICK m : m = Refusal(call) OBVIOUS
    <3>2. hunkRows' = hunkRows /\ Send(e, m)
      BY <1>6, <2>3, <2>5, <2>8, <3>1 DEF DecidesHunk
    <3>3. m \in ReviewMessages /\ GoodReply(m, visit, recorded, rows', hunkRows', behind'.rows)
      BY <1>3, <3>1, RefusalIsGood
    <3>4. rows' = rows /\ working' = working /\ UNCHANGED <<recorded, visit, review, used>>
      BY <1>2, <2>1
    <3> QED BY <1>2, <1>3, <1>4, <2>6, <3>2, <3>3, <3>4, SendKeeps
  <2> QED BY <2>7, <2>8
<1>7. CASE Waits(call)
  <2>1. /\ call.kind \in {"decide", "diff", "edit"}
        /\ UNCHANGED <<rows, hunkRows, toWindow, used, behind>>
    BY <1>7 DEF Waits
  <2>2. hunkRows[call.change] \in Hunks BY <1>3, <2>1, HunkIs DEF ChangeKinds
  <2>3. PICK m : m = WithHunk(call, hunkRows[call.change]) OBVIOUS
  <2>4. m \in ReviewMessages /\ m.kind = call.kind /\ m.of = call.of /\ m.change = call.change
    BY <1>3, <2>2, <2>3 DEF WithHunk, ReviewMessages
  <2>5. Founded(m, recorded, visit.generation) BY <1>3, <2>4 DEF Founded
  <2>6. working' = working \cup {m} BY <1>7, <2>3 DEF Waits
  <2>7. ReviewTypes' BY <1>2, <1>3, <1>4, <2>1, <2>4, <2>6 DEF ReviewTypes, ReviewInv
  <2>8. Head(asks).kind \notin ReadKinds BY <1>1, <2>1 DEF ReadKinds
  <2>9. Goes(asks, toWindow, asks', toWindow')
    <3>1. PICK out \in Seq(ReviewMessages) : out = asks BY DEF ReviewInv, ReviewTypes
    <3>2. PICK in \in Seq(ReviewMessages) : in = toWindow BY DEF ReviewInv, ReviewTypes
    <3>3. PICK nextOut : nextOut = asks' OBVIOUS
    <3>4. out # <<>> /\ nextOut = Tail(out) /\ Head(out).kind \notin ReadKinds
      BY <1>2, <2>8, <3>1, <3>3
    <3>5. Len(in) <= Len(in) OBVIOUS
    <3>6. Goes(out, in, nextOut, in) BY <3>4, <3>5, GoesOn
    <3> QED BY <2>1, <3>1, <3>2, <3>3, <3>6
  <2>10. Kept(rows, rows', hunkRows, hunkRows', behind.rows, behind'.rows) BY <2>1 DEF Kept
  <2>11. \A n \in working' : Founded(n, recorded, visit.generation) BY <1>4, <2>5, <2>6
  <2> QED BY <1>2, <1>3, <2>1, <2>7, <2>9, <2>10, <2>11, MainKeeps
<1> QED BY <1>2, <1>5, <1>6, <1>7

LEMMA AtWork ==
  ASSUME ReviewInv, NEW call \in working, Ends(call)
  PROVE  /\ call \in ReviewMessages /\ Founded(call, recorded, visit.generation)
         /\ working' \in SUBSET ReviewMessages
         /\ \A n \in working' : Founded(n, recorded, visit.generation)
         /\ \A i \in DOMAIN asks : Founded(asks[i], recorded, visit.generation)
         /\ asks \in Seq(ReviewMessages)
         /\ rows \in [AllChanges -> RowStatuses] /\ hunkRows \in [AllChanges -> Hunks]
         /\ behind \in Behind /\ used \in [calls : Nat, faults : Nat]
BY DEF Ends, ReviewInv, ReviewTypes, AllFounded

LEMMA DecidedKeeps ==
  ASSUME ChangesApart, ReviewInv, NEW call \in working, Decided(call) PROVE ReviewInv'
<1>1. /\ call.kind = "decide" /\ Ends(call)
      /\ UNCHANGED <<hunkRows, recorded, asks, visit, review, used>>
  BY DEF Decided
<1>2. /\ call \in ReviewMessages /\ Founded(call, recorded, visit.generation)
      /\ working' \in SUBSET ReviewMessages
      /\ \A n \in working' : Founded(n, recorded, visit.generation)
      /\ \A i \in DOMAIN asks' : Founded(asks'[i], recorded, visit.generation)
      /\ asks' \in Seq(ReviewMessages) /\ asks' = asks
      /\ rows \in [AllChanges -> RowStatuses] /\ hunkRows' \in [AllChanges -> Hunks]
      /\ behind \in Behind /\ used' \in [calls : Nat, faults : Nat]
  BY <1>1, AtWork
<1>3. PICK e \in Executions : e = call.of.execution BY <1>2 DEF Founded
<1>4. PICK c : c = call.change OBVIOUS
<1>5. c \in ChangesOf[e] /\ c \in AllChanges
  BY <1>1, <1>2, <1>3, <1>4, HunkIs DEF ChangeKinds
<1>6. ExecutionOf(c) = e BY <1>5, ExecutionIs
<1>7. PICK m : m = Refusal(call) OBVIOUS
<1>8. m \in ReviewMessages /\ GoodReply(m, visit, recorded, rows', hunkRows', behind'.rows)
  BY <1>2, <1>7, RefusalIsGood
<1>9. CASE rows' = [rows EXCEPT ![c] = call.status] /\ Send(e, call)
  <2>1. /\ rows' \in [AllChanges -> RowStatuses] /\ rows'[c] = call.status
        /\ \A x \in AllChanges : x # c => rows'[x] = rows[x]
    <3>1. call.status \in RowStatuses BY <1>2 DEF ReviewMessages
    <3> QED BY <1>2, <1>5, <1>9, <3>1
  <2>2. GoodReply(call, visit, recorded, rows', hunkRows', behind'.rows)
    BY <1>1, <1>2, <1>4, <2>1 DEF GoodReply, TellsTrue, Founded
  <2>3. \A x \in AllChanges : x \notin ChangesOf[e] =>
            rows'[x] = rows[x] /\ hunkRows'[x] = hunkRows[x]
    BY <1>1, <1>5, <2>1
  <2> QED BY <1>1, <1>2, <1>9, <2>1, <2>2, <2>3, SendKeeps
<1>10. CASE /\ rows' = [rows EXCEPT ![c] = "conflicted"]
            /\ toWindow' = Append(toWindow, m)
            /\ behind' = [behind EXCEPT !.rows = @ \cup {c}]
  <2>1. /\ rows' \in [AllChanges -> RowStatuses]
        /\ \A x \in AllChanges : x # c => rows'[x] = rows[x]
    BY <1>2, <1>5, <1>10 DEF RowStatuses
  <2>2. /\ behind' \in Behind /\ behind'.reads = behind.reads /\ behind'.hunks = behind.hunks
        /\ behind'.ended = behind.ended /\ behind'.rows = behind.rows \cup {c}
    BY <1>2, <1>5, <1>10 DEF Behind
  <2>3. \A x \in AllChanges : rows'[x] = rows[x] \/ x \in behind'.rows BY <2>1, <2>2
  <2>4. hunkRows' = hunkRows /\ UNCHANGED <<recorded, visit, review>> BY <1>1
  <2> QED BY <1>2, <1>8, <1>10, <2>1, <2>2, <2>3, <2>4, ReplyKeeps
<1>11. CASE UNCHANGED rows /\ toWindow' = Append(toWindow, m) /\ UNCHANGED behind
  <2>1. hunkRows' = hunkRows /\ UNCHANGED <<recorded, visit, review>> BY <1>1
  <2> QED BY <1>2, <1>8, <1>11, <2>1, ReplyKeeps
<1>12. \/ rows' = [rows EXCEPT ![c] = call.status] /\ Send(e, call)
       \/ /\ rows' = [rows EXCEPT ![c] = "conflicted"]
          /\ toWindow' = Append(toWindow, m)
          /\ behind' = [behind EXCEPT !.rows = @ \cup {c}]
       \/ UNCHANGED rows /\ toWindow' = Append(toWindow, m) /\ UNCHANGED behind
  BY <1>4, <1>6, <1>7 DEF Decided, Refused
<1> QED BY <1>9, <1>10, <1>11, <1>12

LEMMA EditedKeeps ==
  ASSUME ChangesApart, ReviewInv, NEW call \in working, Edited(call) PROVE ReviewInv'
<1>1. /\ call.kind = "edit" /\ Ends(call)
      /\ UNCHANGED <<rows, recorded, asks, visit, review, used>>
  BY DEF Edited
<1>2. /\ call \in ReviewMessages /\ Founded(call, recorded, visit.generation)
      /\ working' \in SUBSET ReviewMessages
      /\ \A n \in working' : Founded(n, recorded, visit.generation)
      /\ \A i \in DOMAIN asks' : Founded(asks'[i], recorded, visit.generation)
      /\ asks' \in Seq(ReviewMessages) /\ asks' = asks
      /\ rows' \in [AllChanges -> RowStatuses] /\ hunkRows \in [AllChanges -> Hunks]
      /\ behind \in Behind /\ used' \in [calls : Nat, faults : Nat]
  BY <1>1, AtWork
<1>3. PICK e \in Executions : e = call.of.execution BY <1>2 DEF Founded
<1>4. PICK c : c = call.change OBVIOUS
<1>5. c \in ChangesOf[e] /\ c \in AllChanges
  BY <1>1, <1>2, <1>3, <1>4, HunkIs DEF ChangeKinds
<1>6. ExecutionOf(c) = e BY <1>5, ExecutionIs
<1>7. CASE rows[c] = "pending" /\ hunkRows[c] = call.hunk /\ call.hunk.open
  <2>1. PICK fits \in BOOLEAN :
            /\ hunkRows' = [hunkRows EXCEPT ![c] = [version |-> call.hunk.version + 1, open |-> fits]]
            /\ Send(e, WithHunk(call, [version |-> call.hunk.version + 1, open |-> fits]))
    BY <1>4, <1>6, <1>7 DEF Edited
  <2>2. PICK hunk : hunk = [version |-> call.hunk.version + 1, open |-> fits] OBVIOUS
  <2>3. call.hunk \in Hunks BY <1>2 DEF ReviewMessages
  <2>4. hunk \in Hunks BY <2>2, <2>3 DEF Hunks
  <2>5. PICK m : m = WithHunk(call, hunk) OBVIOUS
  <2>6. hunkRows' = [hunkRows EXCEPT ![c] = hunk] /\ Send(e, m) BY <2>1, <2>2, <2>5
  <2>7. hunkRows' \in [AllChanges -> Hunks] /\ hunkRows'[c] = hunk
        /\ \A x \in AllChanges : x # c => hunkRows'[x] = hunkRows[x]
    BY <1>2, <1>5, <2>4, <2>6
  <2>8. m \in ReviewMessages /\ GoodReply(m, visit, recorded, rows', hunkRows', behind'.rows)
    BY <1>1, <1>2, <1>4, <2>4, <2>5, <2>7, HunkTold
  <2>9. \A x \in AllChanges : x \notin ChangesOf[e] =>
            rows'[x] = rows[x] /\ hunkRows'[x] = hunkRows[x]
    BY <1>1, <1>5, <2>7
  <2> QED BY <1>1, <1>2, <2>6, <2>7, <2>8, <2>9, SendKeeps
<1>8. CASE ~(rows[c] = "pending" /\ hunkRows[c] = call.hunk /\ call.hunk.open)
  <2>1. PICK m : m = Refusal(call) OBVIOUS
  <2>2. hunkRows' = hunkRows /\ toWindow' = Append(toWindow, m) /\ UNCHANGED behind
    BY <1>4, <1>8, <2>1 DEF Edited, Refused
  <2>3. m \in ReviewMessages /\ GoodReply(m, visit, recorded, rows', hunkRows', behind'.rows)
    BY <1>2, <2>1, RefusalIsGood
  <2>4. rows' = rows /\ UNCHANGED <<recorded, visit, review>> BY <1>1
  <2> QED BY <1>2, <2>2, <2>3, <2>4, ReplyKeeps
<1> QED BY <1>7, <1>8

LEMMA DiffReadKeeps ==
  ASSUME ChangesApart, ReviewInv, NEW call \in working, DiffRead(call) PROVE ReviewInv'
<1>1. /\ call.kind = "diff" /\ Ends(call)
      /\ UNCHANGED <<rows, hunkRows, recorded, asks, visit, review>>
  BY DEF DiffRead
<1>2. /\ call \in ReviewMessages /\ Founded(call, recorded, visit.generation)
      /\ working' \in SUBSET ReviewMessages
      /\ \A n \in working' : Founded(n, recorded, visit.generation)
      /\ \A i \in DOMAIN asks' : Founded(asks'[i], recorded, visit.generation)
      /\ asks' \in Seq(ReviewMessages) /\ asks' = asks
      /\ rows' \in [AllChanges -> RowStatuses] /\ rows' = rows
      /\ behind \in Behind /\ used \in [calls : Nat, faults : Nat]
  BY <1>1, AtWork
<1>3. PICK m : /\ toWindow' = Append(toWindow, m) /\ m \in {call, Refusal(call)}
               /\ UNCHANGED behind /\ (used' = used \/ used' = [used EXCEPT !.faults = @ + 1])
  BY DEF DiffRead, Refused
<1>4. used' \in [calls : Nat, faults : Nat] BY <1>2, <1>3
<1>5. m \in ReviewMessages /\ GoodReply(m, visit, recorded, rows', hunkRows', behind'.rows)
  <2>1. GoodReply(call, visit, recorded, rows', hunkRows', behind'.rows)
    BY <1>1, <1>2 DEF GoodReply, TellsTrue, Founded
  <2> QED BY <1>2, <1>3, <2>1, RefusalIsGood
<1>6. hunkRows' = hunkRows /\ UNCHANGED <<recorded, visit, review>> BY <1>1
<1> QED BY <1>2, <1>3, <1>4, <1>5, <1>6, ReplyKeeps

LEMMA BuildEndsKeeps ==
  ASSUME ChangesApart, ReviewInv, NEW e \in Executions, BuildEnds(e) PROVE ReviewInv'
<1>1. /\ recorded' = recorded \cup {e}
      /\ behind' = IF e = visit.execution THEN [behind EXCEPT !.ended = TRUE] ELSE behind
      /\ UNCHANGED <<rows, hunkRows, asks, working, toWindow, visit, review, used>>
  BY DEF BuildEnds
<1>2. /\ behind' \in Behind /\ behind'.reads = behind.reads /\ behind'.hunks = behind.hunks
      /\ behind.ended => behind'.ended /\ behind'.rows = behind.rows
      /\ behind'.rows = behind.rows
      /\ e = visit.execution => behind'.ended
  BY <1>1 DEF ReviewInv, ReviewTypes, Behind
<1>3. ReviewTypes' BY <1>1, <1>2 DEF ReviewInv, ReviewTypes
<1>4. Goes(asks, toWindow, asks', toWindow') BY <1>1 DEF Goes, ReviewInv, ReviewTypes
<1>5. Kept(rows, rows', hunkRows, hunkRows', behind.rows, behind'.rows) BY <1>1, <1>2 DEF Kept
<1>6. /\ \A i \in DOMAIN asks' : Founded(asks'[i], recorded', visit.generation)
      /\ \A n \in working' : Founded(n, recorded', visit.generation)
  BY <1>1 DEF ReviewInv, AllFounded, Founded
<1> QED BY <1>1, <1>2, <1>3, <1>4, <1>5, <1>6, MainKeeps

LEMMA CallIs ==
  ASSUME ReviewInv, NEW kind \in ReadKinds \cup ChangeKinds \cup {"rollback"},
         NEW c \in AllChanges \cup {"none"}, NEW m, m = Call(kind, c)
  PROVE  m \in ReviewMessages /\ m.kind = kind /\ m.change = c /\ m.of = visit
<1>1. m = [kind |-> kind, change |-> c, of |-> visit, id |-> used.calls, ok |-> TRUE,
           status |-> "pending", found |-> FALSE, rows |-> <<>>,
           hunk |-> [version |-> 0, open |-> TRUE]]
  BY DEF Call
<1>2. <<>> \in SomeRows
  <2>1. <<>> = [x \in {} |-> "pending"] OBVIOUS
  <2>2. [x \in {} |-> "pending"] \in [{} -> RowStatuses] OBVIOUS
  <2>3. {} \in SUBSET AllChanges OBVIOUS
  <2> QED BY <2>1, <2>2, <2>3 DEF SomeRows
<1>3. [version |-> 0, open |-> TRUE] \in Hunks BY DEF Hunks
<1>4. visit \in Visits /\ used.calls \in Nat BY DEF ReviewInv, ReviewTypes
<1> QED BY <1>1, <1>2, <1>3, <1>4 DEF ReviewMessages, RowStatuses

LEMMA OwnIs ==
  ASSUME ReviewInv, NEW c \in Own(visit)
  PROVE  visit.execution \in Executions /\ c \in ChangesOf[visit.execution] /\ c \in AllChanges
<1>1. visit.execution \in Executions BY DEF ReviewInv, ReviewTypes, Visits, Own
<1> QED BY <1>1 DEF Own, AllChanges

LEMMA TableOf ==
  ASSUME NEW set \in SUBSET AllChanges, NEW table \in [set -> RowStatuses]
  PROVE  table \in SomeRows
BY DEF SomeRows

LEMMA RollBackKeeps ==
  ASSUME ChangesApart, ReviewInv, NEW e \in Executions, RollBack(e) PROVE ReviewInv'
<1>1. /\ used' = [used EXCEPT !.calls = @ + 1]
      /\ UNCHANGED <<rows, hunkRows, recorded, asks, toWindow, visit, review, behind>>
  BY DEF RollBack, MayCall
<1>2. PICK files : /\ files = {c \in ChangesOf[e] : rows[c] # "rejected"}
                   /\ \/ working' = working \cup {[Call("rollback", "none") EXCEPT
                             !.of = [execution |-> e, generation |-> 0], !.rows = Rows(files)]}
                      \/ UNCHANGED working
  BY DEF RollBack
<1>3. PICK n : n = Call("rollback", "none") OBVIOUS
<1>4. PICK table : table = Rows(files) OBVIOUS
<1>5. PICK v : v = [execution |-> e, generation |-> 0] OBVIOUS
<1>6. PICK m : m = [n EXCEPT !.of = v, !.rows = table] OBVIOUS
<1>7. n \in ReviewMessages /\ n.kind = "rollback" BY <1>3, CallIs
<1>8. table \in SomeRows
  <2>1. files \in SUBSET AllChanges BY <1>2 DEF AllChanges
  <2>2. table \in [files -> RowStatuses] BY <1>4, <2>1 DEF Rows, ReviewInv, ReviewTypes
  <2> QED BY <2>1, <2>2, TableOf
<1>9. v \in Visits /\ v.generation = 0 /\ v.execution = e BY <1>5 DEF Visits
<1>10. m \in ReviewMessages /\ m.kind = "rollback" /\ m.of = v
  BY <1>6, <1>7, <1>8, <1>9 DEF ReviewMessages
<1>11. Founded(m, recorded, visit.generation)
  BY <1>9, <1>10 DEF Founded, ChangeKinds, ReviewInv, ReviewTypes, Visits
<1>12. working' \subseteq working \cup {m} BY <1>2, <1>3, <1>4, <1>5, <1>6
<1>13. used' \in [calls : Nat, faults : Nat] BY <1>1 DEF ReviewInv, ReviewTypes
<1>14. ReviewTypes' BY <1>1, <1>10, <1>12, <1>13 DEF ReviewInv, ReviewTypes
<1>15. Goes(asks, toWindow, asks', toWindow') BY <1>1 DEF Goes, ReviewInv, ReviewTypes
<1>16. Kept(rows, rows', hunkRows, hunkRows', behind.rows, behind'.rows) BY <1>1 DEF Kept
<1>17. /\ \A i \in DOMAIN asks' : Founded(asks'[i], recorded, visit.generation)
       /\ \A x \in working' : Founded(x, recorded, visit.generation)
  BY <1>1, <1>11, <1>12 DEF ReviewInv, AllFounded
<1>18. DOMAIN toWindow' = DOMAIN toWindow BY <1>1
<1> QED BY <1>1, <1>14, <1>15, <1>16, <1>17, <1>18, MainKeeps

LEMMA FileRevertedKeeps ==
  ASSUME ChangesApart, ReviewInv, NEW call \in working, FileReverted(call) PROVE ReviewInv'
<1>1. UNCHANGED <<hunkRows, recorded, asks, toWindow, visit, review, used>> BY DEF FileReverted
<1>2. call \in ReviewMessages /\ Founded(call, recorded, visit.generation)
  BY DEF ReviewInv, ReviewTypes, AllFounded
<1> DEFINE Rest(c) == [call EXCEPT !.rows = [x \in DOMAIN @ \ {c} |-> @[x]]]
<1>3. PICK c \in DOMAIN call.rows :
         \/ \E outcome \in {"rejected", "conflicted"} :
               /\ rows' = [rows EXCEPT ![c] = outcome]
               /\ behind' = [behind EXCEPT !.rows = @ \cup {c}]
               /\ working' = (working \ {call})
                             \cup IF outcome = "rejected" THEN {Rest(c)} ELSE {}
         \/ UNCHANGED <<rows, behind>> /\ working' = working \ {call}
  BY DEF FileReverted
<1> DEFINE rest == Rest(c)
<1> HIDE DEF rest
<1>4. PICK set \in SUBSET AllChanges : call.rows \in [set -> RowStatuses]
  BY <1>2 DEF ReviewMessages, SomeRows
<1>5. c \in AllChanges BY <1>4
<1>6. PICK table : table = [x \in DOMAIN call.rows \ {c} |-> call.rows[x]] OBVIOUS
<1>7. table \in SomeRows
  <2>1. PICK less \in SUBSET AllChanges : less = set \ {c} BY <1>4
  <2>2. table \in [less -> RowStatuses] BY <1>4, <1>6, <2>1
  <2> QED BY <2>2, TableOf
<1>8. rest = [call EXCEPT !.rows = table] BY <1>2, <1>6 DEF ReviewMessages, rest
<1>9. /\ rest \in ReviewMessages /\ rest.kind = call.kind /\ rest.of = call.of
      /\ rest.change = call.change
  BY <1>2, <1>7, <1>8 DEF ReviewMessages
<1>10. Founded(rest, recorded, visit.generation) BY <1>2, <1>9 DEF Founded
<1>11. working' \subseteq working \cup {rest} BY <1>3 DEF rest
<1>12. /\ rows \in [AllChanges -> RowStatuses] /\ behind \in Behind
       /\ working \in SUBSET ReviewMessages
  BY DEF ReviewInv, ReviewTypes
<1>13. /\ rows' \in [AllChanges -> RowStatuses]
       /\ \A x \in AllChanges : rows'[x] = rows[x] \/ x \in behind'.rows
       /\ behind' \in Behind /\ behind'.reads = behind.reads /\ behind'.hunks = behind.hunks
       /\ behind'.ended = behind.ended /\ behind.rows \subseteq behind'.rows
  <2>1. CASE UNCHANGED <<rows, behind>> BY <1>12, <2>1
  <2>2. CASE \E outcome \in {"rejected", "conflicted"} :
               /\ rows' = [rows EXCEPT ![c] = outcome]
               /\ behind' = [behind EXCEPT !.rows = @ \cup {c}]
    <3>1. PICK outcome \in RowStatuses :
             rows' = [rows EXCEPT ![c] = outcome] /\ behind' = [behind EXCEPT !.rows = @ \cup {c}]
      BY <2>2 DEF RowStatuses
    <3>2. /\ behind' \in Behind /\ behind'.reads = behind.reads /\ behind'.hunks = behind.hunks
          /\ behind'.ended = behind.ended /\ behind'.rows = behind.rows \cup {c}
      BY <1>5, <1>12, <3>1 DEF Behind
    <3> QED BY <1>5, <1>12, <3>1, <3>2
  <2> QED BY <1>3, <2>1, <2>2
<1>14. ReviewTypes' BY <1>1, <1>9, <1>11, <1>12, <1>13 DEF ReviewInv, ReviewTypes
<1>15. Goes(asks, toWindow, asks', toWindow') BY <1>1 DEF Goes, ReviewInv, ReviewTypes
<1>16. Kept(rows, rows', hunkRows, hunkRows', behind.rows, behind'.rows)
  <2>1. \A x \in Own(visit) : x \in AllChanges BY OwnIs
  <2> QED BY <1>1, <1>13, <2>1 DEF Kept
<1>17. /\ \A i \in DOMAIN asks' : Founded(asks'[i], recorded, visit.generation)
       /\ \A x \in working' : Founded(x, recorded, visit.generation)
  BY <1>1, <1>10, <1>11 DEF ReviewInv, AllFounded
<1>18. DOMAIN toWindow' = DOMAIN toWindow BY <1>1
<1> QED BY <1>1, <1>13, <1>14, <1>15, <1>16, <1>17, <1>18, MainKeeps

LEMMA RevertEndsKeeps ==
  ASSUME ChangesApart, ReviewInv, NEW call \in working, RevertEnds(call) PROVE ReviewInv'
<1>1. /\ Ends(call) /\ UNCHANGED <<rows, hunkRows, recorded, asks, visit, review, used>>
      /\ toWindow' = Append(toWindow, Event(call.of.execution))
      /\ behind' = Told(call.of.execution)
  BY DEF RevertEnds
<1>2. /\ Founded(call, recorded, visit.generation)
      /\ working' \in SUBSET ReviewMessages
      /\ \A n \in working' : Founded(n, recorded, visit.generation)
      /\ \A i \in DOMAIN asks' : Founded(asks'[i], recorded, visit.generation)
      /\ asks' \in Seq(ReviewMessages) /\ rows' \in [AllChanges -> RowStatuses]
      /\ hunkRows' \in [AllChanges -> Hunks] /\ used' \in [calls : Nat, faults : Nat]
  BY <1>1, AtWork
<1>3. PICK e \in Executions : e = call.of.execution BY <1>2 DEF Founded
<1>4. PICK m : m = Event(e) OBVIOUS
<1>5. m \in ReviewMessages BY <1>4, EventIs DEF ReviewInv
<1>6. PICK in : in = toWindow OBVIOUS
<1>7. PICK next : next = toWindow' OBVIOUS
<1>8. in \in Seq(ReviewMessages) /\ next = Append(in, m)
  BY <1>1, <1>3, <1>4, <1>6, <1>7 DEF ReviewInv, ReviewTypes
<1>9. /\ next \in Seq(ReviewMessages) /\ Len(next) = Len(in) + 1
      /\ DOMAIN next = 1 .. (Len(in) + 1) /\ Len(in) \in Nat /\ DOMAIN in = 1 .. Len(in)
      /\ \A i \in DOMAIN in : next[i] = in[i]
      /\ next[Len(in) + 1] = m
  BY <1>5, <1>8, SentOne
<1>10. behind' = Told(e) BY <1>1, <1>3
<1>11. /\ behind' \in Behind /\ behind'.reads = behind.reads /\ behind'.hunks = behind.hunks
       /\ behind'.ended = behind.ended
  BY <1>10, ToldIs DEF ReviewInv
<1>12. ReviewTypes' BY <1>1, <1>2, <1>7, <1>9, <1>11 DEF ReviewInv, ReviewTypes
<1>13. Goes(asks, toWindow, asks', toWindow') BY <1>1, <1>6, <1>7, <1>9 DEF Goes
<1>14. \A i \in DOMAIN toWindow' : i \in DOMAIN toWindow \/
           GoodReply(toWindow'[i], visit, recorded', rows', hunkRows', behind'.rows)
  <2>1. GoodReply(m, visit, recorded', rows', hunkRows', behind'.rows)
    BY <1>4, EventIsGood DEF ReviewInv
  <2> TAKE i \in DOMAIN toWindow'
  <2>2. i \in DOMAIN in \/ i = Len(in) + 1 BY <1>7, <1>9
  <2> QED BY <1>6, <1>7, <1>9, <2>1, <2>2
<1>15. \/ Kept(rows, rows', hunkRows, hunkRows', behind.rows, behind'.rows)
       \/ Retold(toWindow, toWindow')
  <2>1. Len(toWindow) + 1 \in DOMAIN toWindow' /\ toWindow'[Len(toWindow) + 1] = Event(e)
    BY <1>4, <1>6, <1>7, <1>9
  <2>2. \A c \in AllChanges : c \notin ChangesOf[e] =>
            rows'[c] = rows[c] /\ hunkRows'[c] = hunkRows[c]
    BY <1>1
  <2> QED BY <1>10, <2>1, <2>2, ToldIsKept
<1> QED BY <1>1, <1>2, <1>11, <1>12, <1>13, <1>14, <1>15, MainKeeps

-----------------------------------------------------------------------------
(* The panel asks.                                                              *)
AskedWell(out, next, m, seen, now) ==
    /\ next \in Seq(ReviewMessages)
    /\ \A i \in DOMAIN next : Founded(next[i], seen, now)
    /\ \A i \in DOMAIN out : i \in DOMAIN next /\ next[i] = out[i]
    /\ \E i \in DOMAIN next : next[i] = m

LEMMA AskedLast ==
  ASSUME ReviewInv, NEW m \in ReviewMessages, NEW now \in Nat, NEW next, next = Append(asks, m),
         visit.generation <= now, Founded(m, recorded, now)
  PROVE  AskedWell(asks, next, m, recorded, now)
<1>1. PICK out \in Seq(ReviewMessages) : out = asks BY DEF ReviewInv, ReviewTypes
<1>2. /\ next \in Seq(ReviewMessages) /\ Len(next) = Len(out) + 1
      /\ DOMAIN next = 1 .. (Len(out) + 1)
      /\ \A i \in DOMAIN out : next[i] = out[i]
      /\ next[Len(out) + 1] = m
      /\ Len(out) \in Nat /\ DOMAIN out = 1 .. Len(out)
  BY <1>1, SentOne
<1>3. \A i \in DOMAIN out : Founded(out[i], recorded, now)
  <2> TAKE i \in DOMAIN out
  <2>1. Founded(out[i], recorded, visit.generation) BY <1>1 DEF ReviewInv, AllFounded
  <2>2. out[i].of.generation \in Nat /\ visit.generation \in Nat
    <3>1. out[i] \in ReviewMessages BY <1>2
    <3> QED BY <3>1 DEF ReviewMessages, Visits, ReviewInv, ReviewTypes
  <2> QED BY <2>1, <2>2 DEF Founded
<1>4. \A i \in DOMAIN next : i \in DOMAIN out \/ i = Len(out) + 1 BY <1>2
<1>5. \A i \in DOMAIN next : Founded(next[i], recorded, now) BY <1>2, <1>3, <1>4
<1>6. \E i \in DOMAIN next : next[i] = m BY <1>2
<1> QED BY <1>1, <1>2, <1>5, <1>6 DEF AskedWell

LEMMA AskKeeps ==
  ASSUME ChangesApart, ReviewInv, NEW kind \in ChangeKinds, NEW c \in Own(visit), MayCall,
         NEW m \in ReviewMessages, m.kind = kind, m.change = c, m.of = visit,
         asks' = Append(asks, m),
         review' \in Panels, review'.rows = review.rows, review'.hunks = review.hunks,
         review'.loading = review.loading, UNCHANGED <<mainVars, toWindow, visit, behind>>
  PROVE  ReviewInv'
<1>1. visit.execution \in Executions /\ c \in ChangesOf[visit.execution] /\ c \in AllChanges
  BY OwnIs
<1>4. visit.generation \in Nat BY DEF ReviewInv, ReviewTypes, Visits
<1>5. Founded(m, recorded, visit.generation)
  BY <1>1, <1>4 DEF Founded, ChangeKinds
<1>6. PICK next : next = asks' OBVIOUS
<1>7. next = Append(asks, m) /\ used' = [used EXCEPT !.calls = @ + 1] BY <1>6 DEF MayCall
<1>8. /\ next \in Seq(ReviewMessages)
      /\ \A i \in DOMAIN next : Founded(next[i], recorded, visit.generation)
      /\ \A i \in DOMAIN asks : i \in DOMAIN next /\ next[i] = asks[i]
  <2>1. PICK now \in Nat : now = visit.generation BY <1>4
  <2>2. visit.generation <= now /\ Founded(m, recorded, now) BY <1>5, <2>1
  <2>3. AskedWell(asks, next, m, recorded, now) BY <1>7, <2>1, <2>2, AskedLast
  <2> QED BY <2>1, <2>3 DEF AskedWell
<1>9. UNCHANGED <<rows, hunkRows, recorded, working, toWindow, visit, behind>> BY DEF mainVars
<1>10. used' \in [calls : Nat, faults : Nat]
  <2>1. used \in [calls : Nat, faults : Nat] BY DEF ReviewInv, ReviewTypes
  <2> QED BY <1>7, <2>1
<1>11. ReviewTypes' BY <1>6, <1>8, <1>9, <1>10 DEF ReviewInv, ReviewTypes
<1>12. Goes(asks, toWindow, asks', toWindow') BY <1>6, <1>8, <1>9 DEF Goes, ReviewInv, ReviewTypes
<1>13. Kept(rows, rows', hunkRows, hunkRows', behind.rows, behind'.rows) BY <1>9 DEF Kept
<1>14. \A n \in working' : Founded(n, recorded, visit.generation)
  BY <1>9 DEF ReviewInv, AllFounded
<1>15. DOMAIN toWindow' = DOMAIN toWindow BY <1>9
<1> QED BY <1>6, <1>8, <1>9, <1>11, <1>12, <1>13, <1>14, <1>15, MainKeeps

LEMMA AskIs ==
  ASSUME ReviewInv, NEW kind \in ChangeKinds, NEW c \in Own(visit), Ask(kind, c)
  PROVE  /\ MayCall
         /\ \E m \in ReviewMessages : /\ m.kind = kind /\ m.change = c /\ m.of = visit
                                      /\ asks' = Append(asks, m)
<1>1. PICK m : m = Call(kind, c) OBVIOUS
<1>2. c \in AllChanges BY OwnIs
<1>3. m \in ReviewMessages /\ m.kind = kind /\ m.change = c /\ m.of = visit
  BY <1>1, <1>2, CallIs
<1> QED BY <1>1, <1>3 DEF Ask

LEMMA DecideChangeKeeps ==
  ASSUME ChangesApart, ReviewInv, NEW c \in AllChanges, DecideChange(c) PROVE ReviewInv'
<1>1. c \in Own(visit) BY DEF DecideChange, ReviewInv, ShownBelong
<1>2. MayCall /\ UNCHANGED <<mainVars, toWindow, visit, review, behind>> BY DEF DecideChange
<1>3. PICK outcome \in {"accepted", "rejected"} :
         asks' = Append(asks, [Call("decide", c) EXCEPT !.status = outcome])
  BY DEF DecideChange
<1>4. PICK n : n = Call("decide", c) OBVIOUS
<1>5. n \in ReviewMessages /\ n.kind = "decide" /\ n.change = c /\ n.of = visit
  BY <1>4, CallIs DEF ChangeKinds
<1>6. PICK m : m = [n EXCEPT !.status = outcome] OBVIOUS
<1>7. outcome \in RowStatuses BY DEF RowStatuses
<1>8. m \in ReviewMessages /\ m.kind = "decide" /\ m.change = c /\ m.of = visit
  BY <1>5, <1>6, <1>7 DEF ReviewMessages
<1>9. asks' = Append(asks, m) BY <1>3, <1>4, <1>6
<1>10. review' \in Panels BY <1>2 DEF ReviewInv, ReviewTypes
<1>11. "decide" \in ChangeKinds BY DEF ChangeKinds
<1> QED BY <1>1, <1>2, <1>8, <1>9, <1>10, <1>11, AskKeeps

LEMMA ChangeHunkKeeps ==
  ASSUME ChangesApart, ReviewInv, NEW c \in AllChanges, NEW kind \in {"edit", "decideHunk"},
         ChangeHunk(kind, c)
  PROVE  ReviewInv'
<1>1. c \in Own(visit) BY DEF ChangeHunk, ReviewInv, ShownBelong
<1>2. Ask(kind, c) /\ UNCHANGED <<mainVars, toWindow, visit, review, behind>>
  BY DEF ChangeHunk
<1>3. review' \in Panels BY <1>2 DEF ReviewInv, ReviewTypes
<1>4. kind \in ChangeKinds BY DEF ChangeKinds
<1>5. MayCall /\ \E m \in ReviewMessages :
         m.kind = kind /\ m.change = c /\ m.of = visit /\ asks' = Append(asks, m)
  BY <1>1, <1>2, <1>4, AskIs
<1> QED BY <1>1, <1>2, <1>3, <1>4, <1>5, AskKeeps

(* Only which diff is open changes, and nothing is asked.                         *)
LEMMA ExpandedKeeps ==
  ASSUME ReviewInv, review' \in Panels, review'.rows = review.rows,
         review'.hunks = review.hunks, review'.loading = review.loading,
         UNCHANGED <<rows, hunkRows, recorded, asks, working, toWindow, visit, used, behind>>
  PROVE  ReviewInv'
<1>1. ReviewTypes' BY DEF ReviewInv, ReviewTypes
<1>2. AllFounded' BY DEF ReviewInv, AllFounded
<1>3. ShownBelong' BY DEF ReviewInv, ShownBelong
<1>4. RowsShown' /\ HunksShown' /\ SetShown'
  BY DEF ReviewInv, RowsShown, HunksShown, SetShown, Listed
<1>5. RowsCome' /\ DecisionsCome' /\ HunksCome'
  BY DEF ReviewInv, RowsCome, DecisionsCome, HunksCome
<1>6. NothingYet' BY DEF ReviewInv, NothingYet, SaysNothing
<1> QED BY <1>1, <1>2, <1>3, <1>4, <1>5, <1>6 DEF ReviewInv

LEMMA ToggleDiffKeeps ==
  ASSUME ChangesApart, ReviewInv, NEW c \in AllChanges, ToggleDiff(c) PROVE ReviewInv'
<1>1. c \in Own(visit) BY DEF ToggleDiff, ReviewInv, ShownBelong
<1>2. UNCHANGED <<mainVars, toWindow, visit, behind>> BY DEF ToggleDiff
<1>3. PICK x \in AllChanges \cup {"none"} : review' = [review EXCEPT !.expanded = x]
  BY DEF ToggleDiff
<1>4. /\ review' \in Panels /\ review'.rows = review.rows /\ review'.hunks = review.hunks
      /\ review'.loading = review.loading
  BY <1>3 DEF ReviewInv, ReviewTypes, Panels
<1>5. CASE UNCHANGED <<asks, used>> BY <1>2, <1>4, <1>5, ExpandedKeeps DEF mainVars
<1>6. CASE Ask("diff", c)
  <2>1. "diff" \in ChangeKinds BY DEF ChangeKinds
  <2>2. MayCall /\ \E m \in ReviewMessages :
           m.kind = "diff" /\ m.change = c /\ m.of = visit /\ asks' = Append(asks, m)
    BY <1>1, <1>6, <2>1, AskIs
  <2> QED BY <1>1, <1>2, <1>4, <2>1, <2>2, AskKeeps
<1> QED BY <1>5, <1>6 DEF ToggleDiff

(* Another execution is shown: what was sent is of an earlier visit.               *)
LEMMA ShowKeeps ==
  ASSUME ChangesApart, ReviewInv, NEW e \in Executions \cup {"none"}, Show(e) PROVE ReviewInv'
<1>1. PICK v : v = [execution |-> e, generation |-> visit.generation + 1] OBVIOUS
<1>2. PICK next : next = asks' OBVIOUS
<1>3. /\ visit' = v
      /\ review' = [rows |-> <<>>, hunks |-> <<>>, expanded |-> "none", loading |-> e # "none"]
      /\ behind' = [reads |-> {}, ended |-> FALSE, rows |-> {}, hunks |-> {}]
      /\ UNCHANGED <<rows, hunkRows, recorded, working, toWindow, used>>
  BY <1>1 DEF Show, mainVars, Cleared, UpToDate
<1>4. /\ v \in Visits /\ v.execution = e /\ v.generation = visit.generation + 1
      /\ visit.generation \in Nat
  BY <1>1 DEF Visits, ReviewInv, ReviewTypes
<1>5. \A seen : \A m \in ReviewMessages : Founded(m, seen, visit.generation) =>
          Founded(m, seen, v.generation) /\ m.of # v
  BY <1>4 DEF Founded, ReviewMessages, Visits
<1>6. review' \in Panels
  <2>1. <<>> = [x \in {} |-> "pending"] /\ <<>> = [x \in {} |-> hunkRows[x]] OBVIOUS
  <2>2. [x \in {} |-> "pending"] \in [{} -> RowStatuses] OBVIOUS
  <2>3. [x \in {} |-> hunkRows[x]] \in [{} -> Hunks] OBVIOUS
  <2>4. {} \in SUBSET AllChanges OBVIOUS
  <2>5. <<>> \in SomeRows BY <2>1, <2>2, <2>4 DEF SomeRows
  <2>6. <<>> \in SomeHunks BY <2>1, <2>3, <2>4 DEF SomeHunks
  <2>7. (e # "none") \in BOOLEAN OBVIOUS
  <2> QED BY <1>3, <2>5, <2>6, <2>7 DEF Panels
<1>7. behind' \in Behind BY <1>3 DEF Behind
<1>8. /\ next \in Seq(ReviewMessages)
      /\ \A i \in DOMAIN next : Founded(next[i], recorded, v.generation)
      /\ e # "none" => \E i \in DOMAIN next : ReadsFor(next[i], v)
  <2>1. CASE e = "none"
    <3>1. next = asks BY <1>2, <2>1 DEF Show
    <3>2. asks \in Seq(ReviewMessages) BY DEF ReviewInv, ReviewTypes
    <3>3. \A i \in DOMAIN asks : asks[i] \in ReviewMessages BY <3>2
    <3> QED BY <1>5, <2>1, <3>1, <3>2, <3>3 DEF ReviewInv, AllFounded
  <2>2. CASE e # "none"
    <3>1. PICK n : n = Call("get", "none") OBVIOUS
    <3>2. n \in ReviewMessages /\ n.kind = "get" /\ n.change = "none"
      BY <3>1, CallIs DEF ReadKinds
    <3>3. PICK m : m = [n EXCEPT !.of = v] OBVIOUS
    <3>4. m \in ReviewMessages /\ m.kind = "get" /\ m.of = v
      BY <1>4, <3>2, <3>3 DEF ReviewMessages
    <3>5. next = Append(asks, m) BY <1>1, <1>2, <1>3, <2>2, <3>1, <3>3 DEF Show
    <3>6. Founded(m, recorded, v.generation)
      BY <1>4, <2>2, <3>4 DEF Founded, ChangeKinds
    <3>7. PICK now \in Nat : now = v.generation /\ visit.generation <= now BY <1>4
    <3>8. Founded(m, recorded, now) BY <3>6, <3>7
    <3>9. AskedWell(asks, next, m, recorded, now) BY <3>4, <3>5, <3>7, <3>8, AskedLast
    <3> QED BY <3>4, <3>7, <3>9 DEF AskedWell, ReadsFor, ReadKinds
  <2> QED BY <2>1, <2>2
<1>9. ReviewTypes' BY <1>2, <1>3, <1>4, <1>6, <1>7, <1>8 DEF ReviewInv, ReviewTypes
<1>10. \A i \in DOMAIN toWindow : /\ TellsTrue(toWindow[i], recorded, v.generation)
                                  /\ toWindow[i].of # v
  <2> TAKE i \in DOMAIN toWindow
  <2>1. toWindow[i] \in ReviewMessages BY DEF ReviewInv, ReviewTypes
  <2>2. TellsTrue(toWindow[i], recorded, visit.generation) BY DEF ReviewInv, AllFounded
  <2> QED BY <1>5, <2>1, <2>2 DEF TellsTrue
<1>11. \A m \in working : Founded(m, recorded, v.generation)
  BY <1>5 DEF ReviewInv, AllFounded, ReviewTypes
<1>12. AllFounded' BY <1>2, <1>3, <1>8, <1>10, <1>11 DEF AllFounded
<1>13. DOMAIN <<>> = {} OBVIOUS
<1>14. DOMAIN review'.rows = {} /\ DOMAIN review'.hunks = {} /\ (review'.loading <=> e # "none")
  BY <1>3, <1>13
<1>15. ShownBelong' BY <1>2, <1>3, <1>8, <1>14 DEF ShownBelong
<1>16. RowsShown' /\ HunksShown' BY <1>14 DEF RowsShown, HunksShown, RowsAgree
<1>17. RowsCome' /\ DecisionsCome' /\ HunksCome' /\ NothingYet'
  BY <1>3, <1>10 DEF RowsCome, DecisionsCome, HunksCome, NothingYet, SaysNothing
<1>18. SetShown'
  <2>1. CASE e = "none"
    <3>1. e \notin recorded' BY <1>3, <2>1 DEF ReviewInv, ReviewTypes, ChangesApart
    <3> QED BY <1>3, <1>4, <1>14, <3>1 DEF SetShown, Listed
  <2>2. CASE e # "none" BY <1>2, <1>3, <1>8, <2>2 DEF SetShown, Awaited
  <2> QED BY <2>1, <2>2
<1> QED BY <1>9, <1>12, <1>15, <1>16, <1>17, <1>18 DEF ReviewInv

-----------------------------------------------------------------------------
(* The window receives.                                                         *)
(* What stays true when the first message is taken, whatever the panel makes of it.  *)
ReceivedWell ==
    /\ AllFounded' /\ RowsCome' /\ DecisionsCome' /\ HunksCome' /\ NothingYet'
    /\ toWindow' \in Seq(ReviewMessages)
    /\ Awaited(asks, toWindow, 0, visit) =>
          Announces(Head(toWindow), visit) \/ Awaited(asks', toWindow', 0, visit)
    /\ (\E i \in DOMAIN toWindow : ReadsFor(toWindow[i], visit)) =>
          \/ ReadsFor(Head(toWindow), visit)
          \/ \E i \in DOMAIN toWindow' : ReadsFor(toWindow'[i], visit)
    /\ Awaited(asks, toWindow, 1, visit) => Awaited(asks', toWindow', 0, visit)

LEMMA ReceivedStays ==
  ASSUME ChangesApart, ReviewInv, toWindow # <<>>, toWindow' = Tail(toWindow),
         UNCHANGED <<rows, hunkRows, recorded, working, visit>>,
         asks' \in Seq(ReviewMessages),
         \A i \in DOMAIN asks' : Founded(asks'[i], recorded, visit.generation),
         \A i \in DOMAIN asks : i \in DOMAIN asks' /\ asks'[i] = asks[i],
         behind'.rows = behind.rows,
         \/ behind'.ended = behind.ended
         \/ Head(toWindow).kind = "changes" /\ Head(toWindow).of = visit /\ Head(toWindow).ok
  PROVE  ReceivedWell
<1>1. PICK in \in Seq(ReviewMessages) : in = toWindow BY DEF ReviewInv, ReviewTypes
<1>2. PICK next : next = toWindow' OBVIOUS
<1>3. /\ Head(in) \in ReviewMessages /\ Head(in) = in[1] /\ 1 \in DOMAIN in
      /\ next \in Seq(ReviewMessages) /\ Len(in) = Len(next) + 1 /\ Len(next) \in Nat
      /\ DOMAIN next = 1 .. Len(next) /\ DOMAIN in = 1 .. Len(in)
      /\ \A i \in DOMAIN next : next[i] = in[i + 1] /\ i + 1 \in DOMAIN in
  BY <1>1, <1>2, TakenFirst
<1>4. \A i \in DOMAIN in : i = 1 \/ (i - 1 \in DOMAIN next /\ next[i - 1] = in[i])
  BY <1>1, <1>2, <1>3
<1>5. \A i \in 0 .. Len(next) : Awaited(asks, in, i + 1, visit) => Awaited(asks', next, i, visit)
  <2> SUFFICES ASSUME NEW i \in 0 .. Len(next), Awaited(asks, in, i + 1, visit)
               PROVE  Awaited(asks', next, i, visit)
    OBVIOUS
  <2>1. CASE \E j \in DOMAIN asks : ReadsFor(asks[j], visit) BY <2>1 DEF Awaited
  <2>2. CASE \E j \in DOMAIN in : i + 1 < j /\ Announces(in[j], visit)
    <3>1. PICK j \in DOMAIN in : i + 1 < j /\ Announces(in[j], visit) BY <2>2
    <3>2. j - 1 \in DOMAIN next /\ next[j - 1] = in[j] /\ i < j - 1 BY <1>3, <1>4, <3>1
    <3> QED BY <3>1, <3>2 DEF Awaited
  <2> QED BY <2>1, <2>2 DEF Awaited
<1>6. AllFounded'
  <2>1. \A i \in DOMAIN in : TellsTrue(in[i], recorded, visit.generation)
    BY <1>1 DEF ReviewInv, AllFounded
  <2>2. \A i \in DOMAIN next : TellsTrue(next[i], recorded, visit.generation)
    BY <1>3, <2>1
  <2>3. \A m \in working : Founded(m, recorded, visit.generation) BY DEF ReviewInv, AllFounded
  <2> QED BY <1>2, <2>2, <2>3 DEF AllFounded
<1>7. RowsCome'
  <2> SUFFICES ASSUME NEW i \in DOMAIN next, NEW m, m = next[i],
                      m.kind = "changes", m.of = visit, m.ok
               PROVE  Awaited(asks', next, i, visit) \/ RowsAgree(m.rows, rows, behind.rows)
    BY <1>2 DEF RowsCome
  <2>1. m = in[i + 1] /\ i + 1 \in DOMAIN in /\ i \in 0 .. Len(next) BY <1>3
  <2>2. Awaited(asks, in, i + 1, visit) \/ RowsAgree(m.rows, rows, behind.rows)
    BY <1>1, <2>1 DEF ReviewInv, RowsCome
  <2> QED BY <1>5, <2>1, <2>2
<1>8. HunksCome'
  <2> SUFFICES ASSUME NEW i \in DOMAIN next, NEW m, m = next[i],
                      m.kind \in {"edit", "decideHunk"}, m.of = visit, m.ok
               PROVE  Awaited(asks', next, i, visit) \/ m.hunk = hunkRows[m.change]
    BY <1>2 DEF HunksCome
  <2>1. m = in[i + 1] /\ i + 1 \in DOMAIN in /\ i \in 0 .. Len(next) BY <1>3
  <2>2. Awaited(asks, in, i + 1, visit) \/ m.hunk = hunkRows[m.change]
    BY <1>1, <2>1 DEF ReviewInv, HunksCome
  <2> QED BY <1>5, <2>1, <2>2
<1>9. NothingYet'
  <2> SUFFICES ASSUME NEW i \in DOMAIN next, NEW m, m = next[i],
                      m.kind = "get", m.of = visit, m.ok, ~m.found
               PROVE  /\ visit.execution \in recorded => behind'.ended
                      /\ \A j \in 1 .. (i - 1) : ~(next[j].kind = "changes" /\
                                            next[j].of = visit /\ next[j].ok)
    BY <1>2 DEF NothingYet, SaysNothing
  <2>1. m = in[i + 1] /\ i + 1 \in DOMAIN in BY <1>3
  <2>2. /\ visit.execution \in recorded => behind.ended
        /\ \A j \in 1 .. i : ~(in[j].kind = "changes" /\ in[j].of = visit /\ in[j].ok)
    <3>1. i = (i + 1) - 1 BY <1>3
    <3> QED BY <1>1, <2>1, <3>1 DEF ReviewInv, NothingYet, SaysNothing
  <2>3. 1 \in 1 .. i BY <1>3
  <2>4. behind'.ended = behind.ended BY <1>1, <1>3, <2>2, <2>3
  <2>5. \A j \in 1 .. (i - 1) : j + 1 \in 1 .. i /\ j \in DOMAIN next BY <1>3
  <2> QED BY <1>3, <2>2, <2>4, <2>5
<1>10. Awaited(asks, in, 0, visit) => Announces(Head(in), visit) \/ Awaited(asks', next, 0, visit)
  <2>1. CASE \E j \in DOMAIN asks : ReadsFor(asks[j], visit) BY <2>1 DEF Awaited
  <2>2. CASE \E j \in DOMAIN in : 0 < j /\ Announces(in[j], visit)
    <3>1. PICK j \in DOMAIN in : Announces(in[j], visit) BY <2>2
    <3>2. CASE j = 1 BY <1>3, <3>1, <3>2
    <3>3. CASE j # 1
      <4>1. j - 1 \in DOMAIN next /\ next[j - 1] = in[j] /\ 0 < j - 1 BY <1>3, <1>4, <3>3
      <4> QED BY <3>1, <4>1 DEF Awaited
    <3> QED BY <3>2, <3>3
  <2> QED BY <2>1, <2>2 DEF Awaited
<1>11. (\E i \in DOMAIN in : ReadsFor(in[i], visit)) =>
          ReadsFor(Head(in), visit) \/ \E i \in DOMAIN next : ReadsFor(next[i], visit)
  BY <1>3, <1>4
<1>12. Awaited(asks, in, 1, visit) => Awaited(asks', next, 0, visit)
  <2>1. 0 \in 0 .. Len(next) /\ 0 + 1 = 1 BY <1>3
  <2> QED BY <1>5, <2>1
<1>13. DecisionsCome'
  <2> SUFFICES ASSUME NEW i \in DOMAIN next, NEW m, m = next[i],
                      m.kind = "decide", m.of = visit, m.ok
               PROVE  \/ Awaited(asks', next, i, visit)
                      \/ m.change \in behind.rows \/ m.status = rows[m.change]
    BY <1>2 DEF DecisionsCome
  <2>1. m = in[i + 1] /\ i + 1 \in DOMAIN in /\ i \in 0 .. Len(next) BY <1>3
  <2>2. \/ Awaited(asks, in, i + 1, visit)
        \/ m.change \in behind.rows \/ m.status = rows[m.change]
    BY <1>1, <2>1 DEF ReviewInv, DecisionsCome
  <2> QED BY <1>5, <2>1, <2>2
<1> QED BY <1>1, <1>2, <1>3, <1>6, <1>7, <1>8, <1>9, <1>10, <1>11, <1>12, <1>13 DEF ReceivedWell

(* A message that announces nothing leaves what is awaited.                        *)
LEMMA ShownStays ==
  ASSUME ReviewInv, ReceivedWell, UNCHANGED <<rows, hunkRows, recorded, visit, asks>>,
         ~Announces(Head(toWindow), visit), review' \in Panels, behind' \in Behind,
         behind'.rows = behind.rows, behind'.reads = behind.reads, behind'.ended = behind.ended,
         review'.loading = review.loading, DOMAIN review'.rows = DOMAIN review.rows,
         DOMAIN review'.hunks \subseteq Own(visit),
         RowsAgree(review.rows, rows, behind.rows) =>
             \/ RowsAgree(review'.rows, rows, behind.rows)
             \/ Awaited(asks', toWindow', 0, visit),
         RowsAgree(review.hunks, hunkRows, behind.hunks) =>
             \/ RowsAgree(review'.hunks, hunkRows, behind'.hunks)
             \/ Awaited(asks', toWindow', 0, visit)
  PROVE  ShownBelong' /\ RowsShown' /\ HunksShown' /\ SetShown'
<1>1. Awaited(asks, toWindow, 0, visit) => Awaited(asks', toWindow', 0, visit)
  BY DEF ReceivedWell
<1>2. ~ReadsFor(Head(toWindow), visit) BY DEF Announces
<1>3. ShownBelong' BY <1>2 DEF ReviewInv, ShownBelong, ReceivedWell
<1>4. RowsShown' BY <1>1 DEF ReviewInv, RowsShown
<1>5. HunksShown' BY <1>1 DEF ReviewInv, HunksShown
<1>6. SetShown' BY <1>1 DEF ReviewInv, SetShown, Listed
<1> QED BY <1>3, <1>4, <1>5, <1>6

LEMMA FirstReceived ==
  ASSUME ReviewInv, toWindow # <<>>, NEW m, m = Head(toWindow)
  PROVE  /\ m \in ReviewMessages /\ TellsTrue(m, recorded, visit.generation)
         /\ m = toWindow[1] /\ 1 \in DOMAIN toWindow
<1>1. PICK in \in Seq(ReviewMessages) : in = toWindow BY DEF ReviewInv, ReviewTypes
<1>2. PICK next : next = Tail(in) OBVIOUS
<1>3. Head(in) \in ReviewMessages /\ Head(in) = in[1] /\ 1 \in DOMAIN in
  BY <1>1, <1>2, TakenFirst
<1> QED BY <1>1, <1>3 DEF ReviewInv, AllFounded

LEMMA AsksKept ==
  ASSUME ReviewInv, asks' = asks
  PROVE  /\ asks' \in Seq(ReviewMessages)
         /\ \A i \in DOMAIN asks' : Founded(asks'[i], recorded, visit.generation)
         /\ \A i \in DOMAIN asks : i \in DOMAIN asks' /\ asks'[i] = asks[i]
BY DEF ReviewInv, ReviewTypes, AllFounded

(* The panel reads again: what it shows need not be so.                            *)
LEMMA ReadsAgain ==
  ASSUME ChangesApart, ReviewInv, toWindow # <<>>, toWindow' = Tail(toWindow),
         UNCHANGED <<rows, hunkRows, recorded, working, visit, behind, used>>,
         NEW kind \in ReadKinds, asks' = Append(asks, Call(kind, "none")),
         visit.execution \in Executions, kind = "changes" => visit.execution \in recorded,
         review' \in Panels, review'.rows = review.rows, review'.hunks = review.hunks
  PROVE  ReviewInv'
<1>1. PICK m : m = Call(kind, "none") OBVIOUS
<1>2. m \in ReviewMessages /\ m.kind = kind /\ m.change = "none" /\ m.of = visit
  BY <1>1, CallIs
<1>3. PICK now \in Nat : now = visit.generation BY DEF ReviewInv, ReviewTypes, Visits
<1>4. visit.generation <= now /\ Founded(m, recorded, now)
  BY <1>2, <1>3 DEF Founded, ReadKinds, ChangeKinds
<1>5. PICK next : next = asks' OBVIOUS
<1>6. AskedWell(asks, next, m, recorded, now) BY <1>1, <1>2, <1>4, <1>5, AskedLast
<1>7. /\ asks' \in Seq(ReviewMessages)
      /\ \A i \in DOMAIN asks' : Founded(asks'[i], recorded, visit.generation)
      /\ \A i \in DOMAIN asks : i \in DOMAIN asks' /\ asks'[i] = asks[i]
      /\ \E i \in DOMAIN asks' : ReadsFor(asks'[i], visit)
  BY <1>2, <1>3, <1>5, <1>6 DEF AskedWell, ReadsFor
<1>8. ReceivedWell
  <2>1. behind'.rows = behind.rows /\ behind'.ended = behind.ended OBVIOUS
  <2> QED BY <1>7, <2>1, ReceivedStays
<1>9. ReviewTypes' BY <1>7, <1>8 DEF ReviewInv, ReviewTypes, ReceivedWell
<1>10. Awaited(asks', toWindow', 0, visit') BY <1>7 DEF Awaited
<1>11. RowsShown' /\ HunksShown' /\ SetShown' BY <1>10 DEF RowsShown, HunksShown, SetShown
<1>12. ShownBelong' BY <1>7 DEF ShownBelong, ReviewInv
<1> QED BY <1>8, <1>9, <1>11, <1>12 DEF ReviewInv, ReceivedWell

LEMMA ReloadedKeeps ==
  ASSUME ChangesApart, ReviewInv, toWindow # <<>>, toWindow' = Tail(toWindow),
         UNCHANGED <<rows, hunkRows, recorded, working, visit, used>>,
         NEW m, m = Head(toWindow), m.of = visit, Reloaded(m)
  PROVE  ReviewInv'
<1>1. /\ m \in ReviewMessages /\ TellsTrue(m, recorded, visit.generation)
      /\ m = toWindow[1] /\ 1 \in DOMAIN toWindow
  BY FirstReceived
<1>2. asks' = asks BY DEF Reloaded
<1>3. /\ asks' \in Seq(ReviewMessages)
      /\ \A i \in DOMAIN asks' : Founded(asks'[i], recorded, visit.generation)
      /\ \A i \in DOMAIN asks : i \in DOMAIN asks' /\ asks'[i] = asks[i]
  BY <1>2, AsksKept
<1>4. visit.execution \in Executions /\ visit.execution # "none"
  BY <1>1 DEF TellsTrue, Founded, ChangesApart
<1>5. Own(visit) = ChangesOf[visit.execution] BY <1>4 DEF Own
<1>6. <<>> \in SomeRows /\ <<>> \in SomeHunks /\ DOMAIN <<>> = {}
  <2>1. <<>> = [x \in {} |-> "pending"] /\ <<>> = [x \in {} |-> hunkRows[x]] OBVIOUS
  <2>2. [x \in {} |-> "pending"] \in [{} -> RowStatuses] OBVIOUS
  <2>3. [x \in {} |-> hunkRows[x]] \in [{} -> Hunks] OBVIOUS
  <2>4. {} \in SUBSET AllChanges OBVIOUS
  <2>5. <<>> \in SomeRows BY <2>1, <2>2, <2>4 DEF SomeRows
  <2>6. <<>> \in SomeHunks BY <2>1, <2>3, <2>4 DEF SomeHunks
  <2> QED BY <2>5, <2>6
<1>7. CASE m.kind = "changes" /\ m.ok
  <2>1. review' = [rows |-> m.rows, hunks |-> <<>>, expanded |-> "none", loading |-> FALSE]
    BY <1>7 DEF Reloaded, Cleared
  <2>2. behind' = [behind EXCEPT !.reads = {}, !.hunks = {}, !.ended = FALSE]
    BY <1>7 DEF Reloaded, ReviewInv, ReviewTypes, Behind
  <2>3. behind' \in Behind /\ behind'.rows = behind.rows
    BY <2>2 DEF ReviewInv, ReviewTypes, Behind
  <2>4. review' \in Panels BY <1>1, <1>6, <2>1 DEF Panels, ReviewMessages
  <2>5. ReceivedWell BY <1>3, <1>7, <2>3, ReceivedStays
  <2>6. DOMAIN review'.rows = Own(visit) /\ DOMAIN review'.hunks = {} /\ ~review'.loading
        /\ review'.rows = m.rows
    BY <1>1, <1>5, <1>6, <1>7, <2>1 DEF TellsTrue
  <2>7. visit.execution \in recorded BY <1>1, <1>7 DEF TellsTrue, Founded
  <2>8. ShownBelong' BY <2>6 DEF ShownBelong
  <2>9. RowsShown'
    <3>1. Awaited(asks, toWindow, 1, visit) \/ RowsAgree(m.rows, rows, behind.rows)
      BY <1>1, <1>7 DEF ReviewInv, RowsCome
    <3> QED BY <2>3, <2>5, <2>6, <3>1 DEF RowsShown, ReceivedWell
  <2>10. HunksShown' BY <2>6 DEF HunksShown, RowsAgree
  <2>11. SetShown' BY <2>6, <2>7 DEF SetShown, Listed
  <2>12. ReviewTypes' BY <1>3, <2>3, <2>4, <2>5 DEF ReviewInv, ReviewTypes, ReceivedWell
  <2> QED BY <2>5, <2>8, <2>9, <2>10, <2>11, <2>12 DEF ReviewInv, ReceivedWell
<1>8. CASE m.kind = "get" /\ m.ok /\ ~m.found
  <2>1. review' = [rows |-> <<>>, hunks |-> <<>>, expanded |-> "none", loading |-> FALSE]
    BY <1>8 DEF Reloaded, Cleared
  <2>2. /\ behind' \in Behind /\ behind'.rows = behind.rows /\ behind'.ended = behind.ended
    BY <1>8 DEF Reloaded, ReviewInv, ReviewTypes, Behind
  <2>3. review' \in Panels BY <1>6, <2>1 DEF Panels
  <2>4. ReceivedWell BY <1>3, <2>2, ReceivedStays
  <2>5. DOMAIN review'.rows = {} /\ DOMAIN review'.hunks = {} /\ ~review'.loading
    BY <1>6, <2>1
  <2>6. ShownBelong' BY <2>5 DEF ShownBelong
  <2>7. RowsShown' /\ HunksShown' BY <2>5 DEF RowsShown, HunksShown, RowsAgree
  <2>8. visit.execution \in recorded => behind.ended
    BY <1>1, <1>8 DEF ReviewInv, NothingYet, SaysNothing
  <2>9. SetShown' BY <2>2, <2>5, <2>8 DEF SetShown, Listed
  <2>10. ReviewTypes' BY <1>3, <2>2, <2>3, <2>4 DEF ReviewInv, ReviewTypes, ReceivedWell
  <2> QED BY <2>4, <2>6, <2>7, <2>9, <2>10 DEF ReviewInv, ReceivedWell
<1>9. CASE ~m.ok
  <2>1. /\ review' = [review EXCEPT !.loading = FALSE]
        /\ behind' = [behind EXCEPT !.reads = {visit.execution}]
    BY <1>9 DEF Reloaded
  <2>2. /\ behind' \in Behind /\ behind'.rows = behind.rows /\ behind'.ended = behind.ended
        /\ behind'.reads # {}
    BY <1>4, <2>1 DEF ReviewInv, ReviewTypes, Behind
  <2>3. /\ review' \in Panels /\ review'.rows = review.rows /\ review'.hunks = review.hunks
        /\ ~review'.loading
    BY <2>1 DEF ReviewInv, ReviewTypes, Panels
  <2>4. ReceivedWell BY <1>3, <2>2, ReceivedStays
  <2>5. ShownBelong' BY <2>3 DEF ShownBelong, ReviewInv
  <2>6. RowsShown' /\ HunksShown' /\ SetShown' BY <2>2 DEF RowsShown, HunksShown, SetShown
  <2>7. ReviewTypes' BY <1>3, <2>2, <2>3, <2>4 DEF ReviewInv, ReviewTypes, ReceivedWell
  <2> QED BY <2>4, <2>5, <2>6, <2>7 DEF ReviewInv, ReceivedWell
<1> QED BY <1>1, <1>7, <1>8, <1>9 DEF Reloaded, ReviewMessages

(* A message that announces nothing is taken, and what it shows is so.              *)
LEMMA TakenKeeps ==
  ASSUME ChangesApart, ReviewInv, toWindow # <<>>, toWindow' = Tail(toWindow),
         UNCHANGED <<rows, hunkRows, recorded, working, visit, asks, used>>,
         ~Announces(Head(toWindow), visit), review' \in Panels, behind' \in Behind,
         behind'.rows = behind.rows, behind'.reads = behind.reads, behind'.ended = behind.ended,
         review'.loading = review.loading, DOMAIN review'.rows = DOMAIN review.rows,
         DOMAIN review'.hunks \subseteq Own(visit),
         RowsAgree(review.rows, rows, behind.rows) =>
             \/ RowsAgree(review'.rows, rows, behind.rows)
             \/ Awaited(asks, toWindow, 1, visit),
         RowsAgree(review.hunks, hunkRows, behind.hunks) =>
             \/ RowsAgree(review'.hunks, hunkRows, behind'.hunks)
             \/ Awaited(asks, toWindow, 1, visit)
  PROVE  ReviewInv'
<1>1. /\ asks' \in Seq(ReviewMessages)
      /\ \A i \in DOMAIN asks' : Founded(asks'[i], recorded, visit.generation)
      /\ \A i \in DOMAIN asks : i \in DOMAIN asks' /\ asks'[i] = asks[i]
  BY AsksKept
<1>2. ReceivedWell BY <1>1, ReceivedStays
<1>3. /\ RowsAgree(review.rows, rows, behind.rows) =>
             \/ RowsAgree(review'.rows, rows, behind.rows)
             \/ Awaited(asks', toWindow', 0, visit)
      /\ RowsAgree(review.hunks, hunkRows, behind.hunks) =>
             \/ RowsAgree(review'.hunks, hunkRows, behind'.hunks)
             \/ Awaited(asks', toWindow', 0, visit)
  BY <1>2 DEF ReceivedWell
<1>4. ShownBelong' /\ RowsShown' /\ HunksShown' /\ SetShown' BY <1>2, <1>3, ShownStays
<1>5. ReviewTypes' BY <1>1, <1>2 DEF ReviewInv, ReviewTypes, ReceivedWell
<1> QED BY <1>2, <1>4, <1>5 DEF ReviewInv, ReceivedWell

LEMMA RowsSet ==
  ASSUME NEW table \in SomeRows, NEW c \in DOMAIN table, NEW outcome \in RowStatuses, NEW next,
         next = [table EXCEPT ![c] = outcome]
  PROVE  /\ next \in SomeRows /\ DOMAIN next = DOMAIN table /\ next[c] = outcome
         /\ \A x \in DOMAIN table : x # c => next[x] = table[x]
<1>1. PICK set \in SUBSET AllChanges : table \in [set -> RowStatuses] BY DEF SomeRows
<1>2. next \in [set -> RowStatuses] BY <1>1
<1> QED BY <1>1, <1>2 DEF SomeRows

HunkPut(table, c, hunk, next) ==
    /\ next \in SomeHunks /\ DOMAIN next = DOMAIN table \cup {c} /\ next[c] = hunk
    /\ \A x \in DOMAIN table : x # c => next[x] = table[x]

LEMMA HunksSet ==
  ASSUME NEW table \in SomeHunks, NEW c \in AllChanges, NEW hunk \in Hunks
  PROVE  HunkPut(table, c, hunk, HunksWith(table, c, hunk))
<1>1. PICK set \in SUBSET AllChanges : table \in [set -> Hunks] BY DEF SomeHunks
<1>2. PICK more \in SUBSET AllChanges : more = set \cup {c} BY <1>1
<1>3. PICK next : next = HunksWith(table, c, hunk) OBVIOUS
<1>4. next = [x \in more |-> IF x = c THEN hunk ELSE table[x]] BY <1>1, <1>2, <1>3 DEF HunksWith
<1>5. next \in [more -> Hunks] BY <1>1, <1>2, <1>4
<1>6. next \in SomeHunks BY <1>5 DEF SomeHunks
<1>7. HunkPut(table, c, hunk, next) BY <1>1, <1>2, <1>4, <1>6 DEF HunkPut
<1> QED BY <1>3, <1>7

LEMMA DecisionShownKeeps ==
  ASSUME ChangesApart, ReviewInv, toWindow # <<>>, toWindow' = Tail(toWindow),
         UNCHANGED <<rows, hunkRows, recorded, working, visit, used>>,
         NEW m, m = Head(toWindow), m.of = visit, DecisionShown(m)
  PROVE  ReviewInv'
<1>1. m \in ReviewMessages /\ m = toWindow[1] /\ 1 \in DOMAIN toWindow BY FirstReceived
<1>2. m.kind = "decide" /\ UNCHANGED <<asks, behind>> BY DEF DecisionShown
<1>3. ~Announces(m, visit) BY <1>2 DEF Announces, ReadsFor, ReadKinds
<1>4. behind' \in Behind /\ review \in Panels BY <1>2 DEF ReviewInv, ReviewTypes
<1>5. DOMAIN review.hunks \subseteq Own(visit) BY DEF ReviewInv, ShownBelong
<1>6. CASE m.ok /\ m.change \in DOMAIN review.rows
  <2>1. PICK next : next = [review.rows EXCEPT ![m.change] = m.status] OBVIOUS
  <2>2. review.rows \in SomeRows BY <1>4 DEF Panels
  <2>3. /\ next \in SomeRows /\ DOMAIN next = DOMAIN review.rows /\ next[m.change] = m.status
        /\ \A x \in DOMAIN review.rows : x # m.change => next[x] = review.rows[x]
    BY <1>1, <1>6, <2>1, <2>2, RowsSet DEF ReviewMessages
  <2>4. review' = [review EXCEPT !.rows = next] BY <1>6, <2>1 DEF DecisionShown
  <2>5. /\ review' \in Panels /\ review'.rows = next /\ review'.hunks = review.hunks
        /\ review'.loading = review.loading
    BY <1>4, <2>3, <2>4 DEF Panels
  <2>6. \/ Awaited(asks, toWindow, 1, visit)
        \/ m.change \in behind.rows \/ m.status = rows[m.change]
    BY <1>1, <1>2, <1>6 DEF ReviewInv, DecisionsCome
  <2>7. RowsAgree(review.rows, rows, behind.rows) =>
            \/ RowsAgree(review'.rows, rows, behind.rows)
            \/ Awaited(asks, toWindow, 1, visit)
    BY <2>3, <2>5, <2>6 DEF RowsAgree
  <2> QED BY <1>2, <1>3, <1>4, <1>5, <2>3, <2>5, <2>7, TakenKeeps
<1>7. CASE ~(m.ok /\ m.change \in DOMAIN review.rows)
  <2>1. review' = review BY <1>7 DEF DecisionShown
  <2> QED BY <1>2, <1>3, <1>4, <1>5, <2>1, TakenKeeps
<1> QED BY <1>6, <1>7

LEMMA DiffShownKeeps ==
  ASSUME ChangesApart, ReviewInv, toWindow # <<>>, toWindow' = Tail(toWindow),
         UNCHANGED <<rows, hunkRows, recorded, working, visit, used>>,
         NEW m, m = Head(toWindow), m.of = visit, DiffShown(m)
  PROVE  ReviewInv'
<1>1. m \in ReviewMessages /\ TellsTrue(m, recorded, visit.generation) BY FirstReceived
<1>2. m.kind = "diff" /\ UNCHANGED asks BY DEF DiffShown
<1>3. ~Announces(m, visit) BY <1>2 DEF Announces, ReadsFor, ReadKinds
<1>4. behind \in Behind /\ review \in Panels BY DEF ReviewInv, ReviewTypes
<1>5. DOMAIN review.hunks \subseteq Own(visit) BY DEF ReviewInv, ShownBelong
<1>6. m.change \in AllChanges /\ m.change \in Own(visit)
  BY <1>1, <1>2 DEF TellsTrue, Founded, ChangeKinds, Own, AllChanges, ChangesApart
<1>7. CASE m.ok
  <2>1. PICK next : next = HunksWith(review.hunks, m.change, m.hunk) OBVIOUS
  <2>2. review.hunks \in SomeHunks /\ m.hunk \in Hunks BY <1>1, <1>4 DEF Panels, ReviewMessages
  <2>3. /\ next \in SomeHunks /\ DOMAIN next = DOMAIN review.hunks \cup {m.change}
        /\ next[m.change] = m.hunk
        /\ \A x \in DOMAIN review.hunks : x # m.change => next[x] = review.hunks[x]
    <3>1. HunkPut(review.hunks, m.change, m.hunk, next) BY <1>6, <2>1, <2>2, HunksSet
    <3> QED BY <3>1 DEF HunkPut
  <2>4. review' = [review EXCEPT !.hunks = next] BY <1>7, <2>1 DEF DiffShown
  <2>5. /\ review' \in Panels /\ review'.rows = review.rows /\ review'.hunks = next
        /\ review'.loading = review.loading
    BY <1>4, <2>3, <2>4 DEF Panels
  <2>6. behind' = IF m.hunk = hunkRows[m.change] THEN behind
                  ELSE [behind EXCEPT !.hunks = @ \cup {m.change}]
    BY <1>7 DEF DiffShown
  <2>7. /\ behind' \in Behind /\ behind'.rows = behind.rows /\ behind'.reads = behind.reads
        /\ behind'.ended = behind.ended /\ behind.hunks \subseteq behind'.hunks
        /\ m.hunk = hunkRows[m.change] \/ m.change \in behind'.hunks
    BY <1>4, <1>6, <2>6 DEF Behind
  <2>8. RowsAgree(review.hunks, hunkRows, behind.hunks) =>
            RowsAgree(review'.hunks, hunkRows, behind'.hunks)
    BY <2>3, <2>5, <2>7 DEF RowsAgree
  <2>9. DOMAIN review'.hunks \subseteq Own(visit) BY <1>5, <1>6, <2>3, <2>5
  <2> QED BY <1>2, <1>3, <2>5, <2>7, <2>8, <2>9, TakenKeeps
<1>8. CASE ~m.ok
  <2>1. review' = [review EXCEPT !.expanded = "none"] /\ behind' = behind
    BY <1>8 DEF DiffShown
  <2>2. /\ review' \in Panels /\ review'.rows = review.rows /\ review'.hunks = review.hunks
        /\ review'.loading = review.loading
    BY <1>4, <2>1 DEF Panels
  <2> QED BY <1>2, <1>3, <1>4, <1>5, <2>1, <2>2, TakenKeeps
<1> QED BY <1>7, <1>8

LEMMA HunkShownKeeps ==
  ASSUME ChangesApart, ReviewInv, toWindow # <<>>, toWindow' = Tail(toWindow),
         UNCHANGED <<rows, hunkRows, recorded, working, visit, used>>,
         NEW m, m = Head(toWindow), m.of = visit, HunkShown(m)
  PROVE  ReviewInv'
<1>1. /\ m \in ReviewMessages /\ TellsTrue(m, recorded, visit.generation)
      /\ m = toWindow[1] /\ 1 \in DOMAIN toWindow
  BY FirstReceived
<1>2. m.kind \in {"edit", "decideHunk"} /\ UNCHANGED <<asks, behind>> BY DEF HunkShown
<1>3. ~Announces(m, visit) BY <1>2 DEF Announces, ReadsFor, ReadKinds
<1>4. behind' \in Behind /\ review \in Panels BY <1>2 DEF ReviewInv, ReviewTypes
<1>5. DOMAIN review.hunks \subseteq Own(visit) BY DEF ReviewInv, ShownBelong
<1>6. CASE m.ok /\ m.change \in DOMAIN review.hunks
  <2>1. PICK next : next = [review.hunks EXCEPT ![m.change] = m.hunk] OBVIOUS
  <2>2. PICK set \in SUBSET AllChanges : review.hunks \in [set -> Hunks]
    BY <1>4 DEF Panels, SomeHunks
  <2>3. m.hunk \in Hunks BY <1>1 DEF ReviewMessages
  <2>4. /\ next \in [set -> Hunks] /\ DOMAIN next = DOMAIN review.hunks
        /\ next[m.change] = m.hunk
        /\ \A x \in DOMAIN review.hunks : x # m.change => next[x] = review.hunks[x]
    BY <1>6, <2>1, <2>2, <2>3
  <2>5. next \in SomeHunks BY <2>2, <2>4 DEF SomeHunks
  <2>6. review' = [review EXCEPT !.hunks = next] BY <1>6, <2>1 DEF HunkShown
  <2>7. /\ review' \in Panels /\ review'.rows = review.rows /\ review'.hunks = next
        /\ review'.loading = review.loading
    BY <1>4, <2>5, <2>6 DEF Panels
  <2>8. Awaited(asks, toWindow, 1, visit) \/ m.hunk = hunkRows[m.change]
    BY <1>1, <1>2, <1>6 DEF ReviewInv, HunksCome
  <2>9. RowsAgree(review.hunks, hunkRows, behind.hunks) =>
            \/ RowsAgree(review'.hunks, hunkRows, behind'.hunks)
            \/ Awaited(asks, toWindow, 1, visit)
    BY <1>2, <2>4, <2>7, <2>8 DEF RowsAgree
  <2> QED BY <1>2, <1>3, <1>4, <1>5, <2>4, <2>7, <2>9, TakenKeeps
<1>7. CASE ~(m.ok /\ m.change \in DOMAIN review.hunks)
  <2>1. review' = review BY <1>7 DEF HunkShown
  <2> QED BY <1>2, <1>3, <1>4, <1>5, <2>1, TakenKeeps
<1> QED BY <1>6, <1>7

LEMMA ReviewReceives == ASSUME ChangesApart, ReviewInv, Receive PROVE ReviewInv'
<1>1. PICK m : m = Head(toWindow) OBVIOUS
<1>2. /\ toWindow # <<>> /\ toWindow' = Tail(toWindow)
      /\ UNCHANGED <<rows, hunkRows, recorded, working, visit, used>>
  BY DEF Receive, mainVars
<1>3. m \in ReviewMessages /\ TellsTrue(m, recorded, visit.generation)
  BY <1>1, <1>2, FirstReceived
<1>4. m.of.execution \in Executions BY <1>3 DEF TellsTrue, Founded
<1>5. review \in Panels /\ behind \in Behind BY DEF ReviewInv, ReviewTypes
<1>6. CASE Reload(m)
  <2>1. /\ review' = [review EXCEPT !.loading = TRUE] /\ asks' = Append(asks, Call("get", "none"))
        /\ UNCHANGED behind /\ visit.execution \in Executions
    BY <1>4, <1>6 DEF Reload
  <2>2. review' \in Panels /\ review'.rows = review.rows /\ review'.hunks = review.hunks
    BY <1>5, <2>1 DEF Panels
  <2>3. "get" \in ReadKinds BY DEF ReadKinds
  <2> QED BY <1>2, <2>1, <2>2, <2>3, ReadsAgain
<1>7. CASE m.kind # "changed" /\ IsCurrentSession(m) /\ ReloadGoesOn(m)
  <2>1. /\ asks' = Append(asks, Call("changes", "none")) /\ UNCHANGED <<review, behind>>
        /\ visit.execution \in Executions /\ visit.execution \in recorded
    BY <1>3, <1>4, <1>7 DEF ReloadGoesOn, IsCurrentSession, TellsTrue
  <2>2. review' \in Panels BY <1>5, <2>1
  <2>3. "changes" \in ReadKinds BY DEF ReadKinds
  <2> QED BY <1>2, <2>1, <2>2, <2>3, ReadsAgain
<1>8. CASE m.kind # "changed" /\ IsCurrentSession(m) /\ ~ReloadGoesOn(m) /\
           (Reloaded(m) \/ DecisionShown(m) \/ DiffShown(m) \/ HunkShown(m))
  BY <1>1, <1>2, <1>8, ReloadedKeeps, DecisionShownKeeps, DiffShownKeeps, HunkShownKeeps
  DEF IsCurrentSession
<1>9. CASE /\ IF m.kind = "changed" THEN m.of.execution # visit.execution
              ELSE ~IsCurrentSession(m)
           /\ UNCHANGED <<review, asks, behind>>
  <2>1. ~Announces(m, visit) BY <1>9 DEF Announces, ReadsFor, ReadKinds, IsCurrentSession
  <2>2. DOMAIN review'.hunks \subseteq Own(visit) BY <1>9 DEF ReviewInv, ShownBelong
  <2>3. review' = review /\ behind' = behind BY <1>9
  <2> QED BY <1>1, <1>2, <1>5, <1>9, <2>1, <2>2, <2>3, TakenKeeps
<1>10. \/ Reload(m)
       \/ /\ m.kind # "changed" /\ IsCurrentSession(m)
          /\ ReloadGoesOn(m) \/ Reloaded(m) \/ DecisionShown(m) \/ DiffShown(m) \/ HunkShown(m)
       \/ /\ IF m.kind = "changed" THEN m.of.execution # visit.execution
             ELSE ~IsCurrentSession(m)
          /\ UNCHANGED <<review, asks, behind>>
  BY <1>1 DEF Receive
<1> QED BY <1>6, <1>7, <1>8, <1>9, <1>10

LEMMA ReviewStep == ASSUME ChangesApart, ReviewInv, [ReviewNext]_reviewVars PROVE ReviewInv'
<1>1. ASSUME NEW e \in Executions \cup {"none"}, Show(e) PROVE ReviewInv' BY <1>1, ShowKeeps
<1>2. ASSUME NEW c \in AllChanges,
             DecideChange(c) \/ ToggleDiff(c) \/ EditHunk(c) \/ DecideHunk(c)
      PROVE  ReviewInv'
  <2>1. CASE DecideChange(c) BY <2>1, DecideChangeKeeps
  <2>2. CASE ToggleDiff(c) BY <2>2, ToggleDiffKeeps
  <2>3. CASE EditHunk(c) BY <2>3, ChangeHunkKeeps DEF EditHunk
  <2>4. CASE DecideHunk(c) BY <2>4, ChangeHunkKeeps DEF DecideHunk
  <2> QED BY <1>2, <2>1, <2>2, <2>3, <2>4
<1>3. CASE Handle BY <1>3, ReviewHandles
<1>4. CASE Receive BY <1>4, ReviewReceives
<1>5. ASSUME NEW call \in working, \/ Decided(call) \/ Edited(call) \/ DiffRead(call)
                                   \/ FileReverted(call) \/ RevertEnds(call)
      PROVE  ReviewInv'
  BY <1>5, DecidedKeeps, EditedKeeps, DiffReadKeeps, FileRevertedKeeps, RevertEndsKeeps
<1>6. ASSUME NEW e \in Executions, BuildEnds(e) \/ RollBack(e) PROVE ReviewInv'
  BY <1>6, BuildEndsKeeps, RollBackKeeps
<1>7. CASE UNCHANGED reviewVars
  <2>1. review' \in Panels BY <1>7 DEF reviewVars, ReviewInv, ReviewTypes
  <2> QED BY <1>7, <2>1, ExpandedKeeps DEF reviewVars
<1> QED BY <1>1, <1>2, <1>3, <1>4, <1>5, <1>6, <1>7 DEF ReviewNext

LEMMA ReviewInitially == ASSUME ChangesApart, ReviewInit PROVE ReviewInv
<1>1. DOMAIN <<>> = {} OBVIOUS
<1>2. /\ rows = [c \in AllChanges |-> "pending"]
      /\ hunkRows = [c \in AllChanges |-> [version |-> 0, open |-> TRUE]]
      /\ recorded = {} /\ asks = <<>> /\ working = {} /\ toWindow = <<>>
      /\ visit = [execution |-> "none", generation |-> 0]
      /\ review = [rows |-> <<>>, hunks |-> <<>>, expanded |-> "none", loading |-> FALSE]
      /\ used = [calls |-> 0, faults |-> 0]
      /\ behind = [reads |-> {}, ended |-> FALSE, rows |-> {}, hunks |-> {}]
  BY DEF ReviewInit, Cleared, UpToDate
<1>3. review \in Panels
  <2>1. <<>> = [x \in {} |-> "pending"] /\ <<>> = [x \in {} |-> hunkRows[x]] OBVIOUS
  <2>2. [x \in {} |-> "pending"] \in [{} -> RowStatuses] OBVIOUS
  <2>3. [x \in {} |-> hunkRows[x]] \in [{} -> Hunks] OBVIOUS
  <2>4. {} \in SUBSET AllChanges OBVIOUS
  <2>5. <<>> \in SomeRows BY <2>1, <2>2, <2>4 DEF SomeRows
  <2>6. <<>> \in SomeHunks BY <2>1, <2>3, <2>4 DEF SomeHunks
  <2> QED BY <1>2, <2>5, <2>6 DEF Panels
<1>4. visit \in Visits /\ behind \in Behind /\ used \in [calls : Nat, faults : Nat]
  BY <1>2 DEF Visits, Behind
<1>5. rows \in [AllChanges -> RowStatuses] /\ hunkRows \in [AllChanges -> Hunks]
  BY <1>2 DEF RowStatuses, Hunks
<1>6. asks \in Seq(ReviewMessages) /\ toWindow \in Seq(ReviewMessages) BY <1>2
<1>7. ReviewTypes BY <1>2, <1>3, <1>4, <1>5, <1>6 DEF ReviewTypes
<1>8. AllFounded /\ RowsCome /\ DecisionsCome /\ HunksCome /\ NothingYet
  BY <1>1, <1>2 DEF AllFounded, RowsCome, DecisionsCome, HunksCome, NothingYet
<1>9. DOMAIN review.rows = {} /\ DOMAIN review.hunks = {} /\ ~review.loading BY <1>1, <1>2
<1>10. ShownBelong BY <1>9 DEF ShownBelong
<1>11. RowsShown /\ HunksShown BY <1>9 DEF RowsShown, HunksShown, RowsAgree
<1>12. SetShown BY <1>2, <1>9 DEF SetShown, Listed
<1> QED BY <1>7, <1>8, <1>10, <1>11, <1>12 DEF ReviewInv

LEMMA ReviewInvSuffices ==
  ASSUME ReviewInv
  PROVE  ReviewBelongs /\ ReviewFollowsRows
<1>1. ReviewBelongs
  BY DEF ReviewInv, ShownBelong, ReviewBelongs, ReadsFor, ReadKinds, IsCurrentSession, Own
<1>2. ASSUME AtRest, visit.execution # "none", behind.reads = {} PROVE
        /\ \/ DOMAIN review.rows = IF visit.execution \in recorded
                                   THEN ChangesOf[visit.execution] ELSE {}
           \/ behind.ended
        /\ \A c \in DOMAIN review.rows : review.rows[c] = rows[c] \/ c \in behind.rows
        /\ \A c \in DOMAIN review.hunks : review.hunks[c] = hunkRows[c] \/ c \in behind.hunks
  <2>1. DOMAIN <<>> = {} OBVIOUS
  <2>2. ~Awaited(asks, toWindow, 0, visit) BY <1>2, <2>1 DEF AtRest, Awaited
  <2>3. RowsAgree(review.rows, rows, behind.rows) BY <1>2, <2>2 DEF ReviewInv, RowsShown
  <2>4. RowsAgree(review.hunks, hunkRows, behind.hunks)
    BY <1>2, <2>2 DEF ReviewInv, HunksShown
  <2>5. behind.ended \/ DOMAIN review.rows = Listed(recorded)
    BY <1>2, <2>2 DEF ReviewInv, SetShown
  <2> QED BY <1>2, <2>3, <2>4, <2>5 DEF RowsAgree, Listed, Own
<1> QED BY <1>1, <1>2 DEF ReviewFollowsRows

ReviewSpec == ReviewInit /\ [][ReviewNext]_reviewVars

(* The review shows no change of another execution, and says that it loads only       *)
(* while a read of its own is under way; once nothing is on its way, its changes, their *)
(* statuses and hunks are those of the database, but for what no event tells of. For   *)
(* any executions, calls, visits and messages under way (ChangeControlPanel with the   *)
(* handlers of registerChangeControlIpc).                                          *)
THEOREM ReviewShowsRows ==
  ASSUME ChangesApart
  PROVE  ReviewSpec => [](ReviewBelongs /\ ReviewFollowsRows)
<1>1. ReviewInit => ReviewInv BY ReviewInitially
<1>2. ReviewInv /\ [ReviewNext]_reviewVars => ReviewInv' BY ReviewStep
<1>3. ReviewInv => ReviewBelongs /\ ReviewFollowsRows BY ReviewInvSuffices
<1> QED BY <1>1, <1>2, <1>3, PTL DEF ReviewSpec

=============================================================================
