----------------------------- MODULE WorkspaceTexts -----------------------------
(* .nocturne/memory.md and its copy in the database. The user's saves and the  *)
(* repairs of memory.get go through one queue per workspace; the decisions on  *)
(* suggestions are appended through another queue, keyed by the file. Every    *)
(* writer writes a temporary file (whose time the text keeps) and renames it.  *)
EXTENDS Naturals, Sequences, FiniteSets

CONSTANTS Decisions,    \* decisions on suggestions
          MaxSaves,     \* bound: saves of the user
          MaxGets       \* bound: times the memory is opened

VARIABLES file,         \* memory.md
          row,          \* workspace_memory
          clock,        \* the time of the last write
          textScreen,       \* the decisions in the text the user edits
          saves,        \* saves asked so far
          gets,         \* reads of the memory so far
          queue,        \* SerializedWriteQueue: the head runs
          late,         \* writes of a failed save that are still going on
          appends,      \* decision -> where its append is
          order,        \* SuggestionDecisionLog's queue
          acknowledged, \* the latest of the saves that were answered
          overtaken     \* history: an append, a repair or a failed save put an
                        \* older text over a newer one

textVars == <<file, row, clock, textScreen, saves, gets, queue, late, appends,
              order, acknowledged, overtaken>>

Text(base, decisions, time) == [base |-> base, decisions |-> decisions, time |-> time]
NotStarted == [step |-> "none", text |-> Text(0, {}, 0)]

TextInit ==
    /\ file = Text(0, {}, 0) /\ row = Text(0, {}, 0)
    /\ clock = 0 /\ textScreen = {} /\ saves = 0 /\ gets = 0
    /\ queue = <<>> /\ late = {} /\ order = <<>>
    /\ appends = [d \in Decisions |-> NotStarted]
    /\ acknowledged = 0 /\ overtaken = FALSE

Job(kind, base, decisions) ==
    [kind |-> kind, step |-> "waiting", text |-> Text(base, decisions, 0)]

(* memory.set: the text on the textScreen, with the decisions it was opened with.  *)
Save ==
    /\ saves < MaxSaves
    /\ saves' = saves + 1
    /\ queue' = Append(queue, Job("save", saves + 1, textScreen))
    /\ UNCHANGED <<file, row, clock, textScreen, gets, late, appends, order,
                   acknowledged, overtaken>>

(* memory.get: the file, or the row when it is newer; the row is then written  *)
(* to the file through the queue.                                              *)
Get ==
    /\ gets < MaxGets
    /\ gets' = gets + 1
    /\ IF row.base = 0 \/ row.time <= file.time
       THEN textScreen' = file.decisions /\ UNCHANGED queue
       ELSE /\ textScreen' = row.decisions
            /\ queue' = Append(queue, Job("repair", row.base, row.decisions))
    /\ UNCHANGED <<file, row, clock, saves, late, appends, order, acknowledged,
                   overtaken>>

Running(i) == i = 1

(* writeAtomicFile, up to the rename. *)
WriteTemporary(i) ==
    /\ Running(i) /\ queue[i].step = "waiting"
    /\ clock' = clock + 1
    /\ queue' = [queue EXCEPT ![i].step = "written", ![i].text.time = clock + 1]
    /\ UNCHANGED <<file, row, textScreen, saves, gets, late, appends, order,
                   acknowledged, overtaken>>

Replace(text) ==
    /\ file' = text
    /\ overtaken' = (overtaken \/ text.base < file.base)

Rename(i) ==
    /\ Running(i) /\ queue[i].step = "written"
    /\ IF queue[i].kind = "save"
       THEN file' = queue[i].text /\ UNCHANGED overtaken
       ELSE Replace(queue[i].text)
    /\ queue' = [queue EXCEPT ![i].step = "renamed"]
    /\ UNCHANGED <<row, clock, textScreen, saves, gets, late, appends, order,
                   acknowledged>>

Without(i) == [j \in 1 .. Len(queue) - 1 |-> IF j < i THEN queue[j] ELSE queue[j + 1]]

(* The three files are in place: a save sets the row and answers. *)
Finish(i) ==
    /\ Running(i) /\ queue[i].step = "renamed"
    /\ queue' = Without(i)
    /\ IF queue[i].kind = "save"
       THEN /\ clock' = clock + 1
            /\ row' = [queue[i].text EXCEPT !.time = clock + 1]
            /\ acknowledged' = IF acknowledged > queue[i].text.base
                               THEN acknowledged ELSE queue[i].text.base
       ELSE UNCHANGED <<clock, row, acknowledged>>
    /\ UNCHANGED <<file, textScreen, saves, gets, late, appends, order, overtaken>>

(* One of the three writes fails: the call throws and the queue goes on, while *)
(* the write of memory.md may still be on its way.                             *)
SaveFails(i) ==
    /\ Running(i)
    /\ queue' = Without(i)
    /\ late' = IF queue[i].step = "written" THEN late \cup {queue[i].text} ELSE late
    /\ UNCHANGED <<file, row, clock, textScreen, saves, gets, appends, order,
                   acknowledged, overtaken>>

LateRename(text) ==
    /\ late' = late \ {text}
    /\ Replace(text)
    /\ UNCHANGED <<row, clock, textScreen, saves, gets, queue, appends, order,
                   acknowledged>>

(* appendSuggestionDecision joins its queue once the directory is ensured, ... *)
JoinAppends(d) ==
    /\ appends[d].step = "none"
    /\ appends' = [appends EXCEPT ![d].step = "queued"]
    /\ order' = Append(order, d)
    /\ UNCHANGED <<file, row, clock, textScreen, saves, gets, queue, late,
                   acknowledged, overtaken>>

TurnOfAnyone(d) == \E i \in 1 .. Len(order) : order[i] = d
TurnOf(d) == Len(order) > 0 /\ order[1] = d

(* ... reads the whole file in its turn, ... *)
AppendReads(d) ==
    /\ TurnOf(d) /\ appends[d].step = "queued"
    /\ appends' = [appends EXCEPT ![d] = [step |-> "read", text |-> file]]
    /\ UNCHANGED <<file, row, clock, textScreen, saves, gets, queue, late, order,
                   acknowledged, overtaken>>

AppendWrites(d) ==
    /\ appends[d].step = "read"
    /\ clock' = clock + 1
    /\ appends' = [appends EXCEPT ![d] =
            [step |-> "written",
             text |-> Text(@.text.base, @.text.decisions \cup {d}, clock + 1)]]
    /\ UNCHANGED <<file, row, textScreen, saves, gets, queue, late, order,
                   acknowledged, overtaken>>

AppendEnds(d, step) ==
    /\ appends' = [appends EXCEPT ![d].step = step]
    /\ order' = Tail(order)
    /\ UNCHANGED <<row, clock, textScreen, saves, gets, queue, late, acknowledged>>

(* ... and renames the text with its line over the file. *)
AppendRenames(d) ==
    /\ appends[d].step = "written"
    /\ Replace(appends[d].text)
    /\ AppendEnds(d, "done")

AppendFails(d) ==
    /\ appends[d].step \in {"queued", "read", "written"} /\ TurnOf(d)
    /\ UNCHANGED <<file, overtaken>>
    /\ AppendEnds(d, "failed")

TextNext ==
    \/ Save \/ Get
    \/ \E i \in 1 .. Len(queue) :
          WriteTemporary(i) \/ Rename(i) \/ Finish(i) \/ SaveFails(i)
    \/ \E text \in late : LateRename(text)
    \/ \E d \in Decisions : \/ JoinAppends(d) \/ AppendReads(d) \/ AppendWrites(d)
                            \/ AppendRenames(d) \/ AppendFails(d)

TextSpec == TextInit /\ [][TextNext]_textVars

--------------------------------------------------------------------------------
TextTypeOK ==
    /\ \A text \in {file, row} \cup late :
          text.base \in 0 .. saves /\ text.decisions \subseteq Decisions
    /\ textScreen \subseteq Decisions
    /\ \A i \in DOMAIN queue : queue[i].step \in {"waiting", "written", "renamed"}
    /\ \A d \in Decisions : appends[d].step \in
          {"none", "queued", "read", "written", "done", "failed"}

(* The base of the text memory.get answers. *)
ShownSave == IF row.base # 0 /\ row.time > file.time THEN row.base ELSE file.base

(* Two saves never cross: one that was answered is not shown replaced by an    *)
(* earlier one, whatever mixture of the row and the file memory.get answers,   *)
(* unless a writer that is not a save put its older text over a newer.         *)
SavesAreKept == ~overtaken => ShownSave >= acknowledged

(* Two decisions appended at the same time are both in the file: an append     *)
(* never takes out a decision that stands under the user's text it has read.   *)
AppendsKeepDecisions ==
    \A d \in Decisions :
        (appends[d].step = "written" /\ appends'[d].step = "done"
         /\ appends[d].text.base = file.base)
            => file.decisions \subseteq file'.decisions
================================================================================
