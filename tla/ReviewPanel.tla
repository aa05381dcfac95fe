------------------------------- MODULE ReviewPanel -------------------------------
(* The review of an execution's changes as the window shows it: ChangeControlPanel *)
(* with the handlers it calls. Requests arrive in order, those that wait for files *)
(* end in any order, and the window receives events and replies as they were sent. *)
(* Hunks only count their changes here, and no change is blocked by policy.      *)
EXTENDS Naturals, Sequences, FiniteSets

CONSTANTS ChangesOf,   \* execution -> its changes
          MaxAsked,    \* bound: calls the user makes
          MaxVisits,   \* bound: executions shown one after the other
          MaxWire,     \* bound: requests and replies under way when more begins
          MaxFaults    \* bound: reads of the review and diffs that fail

VARIABLES rows,        \* change -> its status in the database
          hunkRows,    \* change -> its hunk: changes so far, still open
          recorded,    \* executions whose ChangeSet is in the database
          asks,        \* requests on their way to main, in order
          working,     \* handlers that wait
          toWindow,    \* events and replies on their way to the window, in order
          visit,       \* sessionRef: execution and generation
          review,      \* what the panel shows: rows, hunks, the open diff, loading
          used,        \* bounds: calls and faults so far
          behind       \* history: executions whose last read failed, whether the one
                       \* shown ended since, changes whose row changed and no event
                       \* said so yet, hunks read before a change and received after it

reviewVars == <<rows, hunkRows, recorded, asks, working, toWindow, visit, review, used, behind>>

Executions == DOMAIN ChangesOf
AllChanges == UNION {ChangesOf[e] : e \in Executions}
ExecutionOf(c) == CHOOSE e \in Executions : c \in ChangesOf[e]
Rows(set) == [c \in set |-> rows[c]]

UpToDate == [reads |-> {}, ended |-> FALSE, rows |-> {}, hunks |-> {}]
Cleared == [rows |-> <<>>, hunks |-> <<>>, expanded |-> "none", loading |-> FALSE]
Call(kind, c) == [kind |-> kind, change |-> c, of |-> visit, id |-> used.calls, ok |-> TRUE,
                  status |-> "pending", found |-> FALSE, rows |-> <<>>,
                  hunk |-> [version |-> 0, open |-> TRUE]]

ReviewInit ==
    /\ rows = [c \in AllChanges |-> "pending"]
    /\ hunkRows = [c \in AllChanges |-> [version |-> 0, open |-> TRUE]]
    /\ recorded = {} /\ asks = <<>> /\ working = {} /\ toWindow = <<>>
    /\ visit = [execution |-> "none", generation |-> 0]
    /\ review = Cleared
    /\ used = [calls |-> 0, faults |-> 0]
    /\ behind = UpToDate

-----------------------------------------------------------------------------
(* The panel. *)
mainVars == <<rows, hunkRows, recorded, working>>

Room == Len(asks) + Cardinality(working) + Len(toWindow) < MaxWire

(* Another execution is shown, or the same one in a new panel. *)
Show(e) ==
    /\ visit.generation < MaxVisits /\ Room
    /\ visit' = [execution |-> e, generation |-> visit.generation + 1]
    /\ review' = [Cleared EXCEPT !.loading = e # "none"]
    /\ asks' = IF e = "none" THEN asks
               ELSE Append(asks, [Call("get", "none") EXCEPT !.of = visit'])
    /\ behind' = UpToDate
    /\ UNCHANGED <<mainVars, toWindow, used>>

MayCall == used.calls < MaxAsked /\ Room /\ used' = [used EXCEPT !.calls = @ + 1]
Ask(kind, c) == MayCall /\ asks' = Append(asks, Call(kind, c))

DecideChange(c) ==
    /\ c \in DOMAIN review.rows /\ review.rows[c] = "pending"
    /\ MayCall
    /\ \E status \in {"accepted", "rejected"} :
          asks' = Append(asks, [Call("decide", c) EXCEPT !.status = status])
    /\ UNCHANGED <<mainVars, toWindow, visit, review, behind>>

ToggleDiff(c) ==
    /\ c \in DOMAIN review.rows
    /\ IF review.expanded = c
       THEN review' = [review EXCEPT !.expanded = "none"] /\ UNCHANGED <<asks, used>>
       ELSE /\ review' = [review EXCEPT !.expanded = c]
            /\ IF c \in DOMAIN review.hunks THEN UNCHANGED <<asks, used>> ELSE Ask("diff", c)
    /\ UNCHANGED <<mainVars, toWindow, visit, behind>>

(* editHunk and decideHunk, of a hunk that is shown and open. *)
ChangeHunk(kind, c) ==
    /\ review.expanded = c /\ c \in DOMAIN review.hunks /\ review.hunks[c].open
    /\ Ask(kind, c)
    /\ UNCHANGED <<mainVars, toWindow, visit, review, behind>>

EditHunk(c) == ChangeHunk("edit", c)
DecideHunk(c) == ChangeHunk("decideHunk", c)

-----------------------------------------------------------------------------
(* The handlers. *)
Event(e) == [Call("changed", "none") EXCEPT !.of = [execution |-> e, generation |-> 0],
                                            !.id = 0]
WithHunk(call, hunk) == [call EXCEPT !.hunk = hunk]
Refusal(call) == [call EXCEPT !.ok = FALSE]

(* What was missed of e is told by the next event of e. *)
Told(e) == [behind EXCEPT !.rows = @ \ ChangesOf[e]]

Send(e, reply) == toWindow' = toWindow \o <<Event(e), reply>> /\ behind' = Told(e)

(* changeControl.get and changeControl.changes read at once. *)
Read(call) ==
    /\ call.kind \in {"get", "changes"}
    /\ \/ /\ toWindow' = Append(toWindow,
                IF call.kind = "get" THEN [call EXCEPT !.found = call.of.execution \in recorded]
                ELSE [call EXCEPT !.rows = Rows(ChangesOf[call.of.execution])])
          /\ UNCHANGED used
       \/ /\ used.faults < MaxFaults
          /\ used' = [used EXCEPT !.faults = @ + 1]
          /\ toWindow' = Append(toWindow, Refusal(call))
    /\ UNCHANGED <<rows, hunkRows, working, behind>>

(* ChangeHunkService.decide. The event is sent whether it was refused or not. *)
DecidesHunk(call) ==
    /\ call.kind = "decideHunk"
    /\ LET c == call.change
           may == hunkRows[c].open /\ rows[c] = "pending"
           decided == [version |-> hunkRows[c].version + 1, open |-> FALSE] IN
       /\ hunkRows' = IF may THEN [hunkRows EXCEPT ![c] = decided] ELSE hunkRows
       /\ Send(ExecutionOf(c), IF may THEN WithHunk(call, decided) ELSE Refusal(call))
    /\ UNCHANGED <<rows, working, used>>

(* The decision joins its queue; the hunk is read, and files are waited for. *)
Waits(call) ==
    /\ call.kind \in {"decide", "diff", "edit"}
    /\ working' = working \cup {WithHunk(call, hunkRows[call.change])}
    /\ UNCHANGED <<rows, hunkRows, toWindow, used, behind>>

Handle ==
    /\ asks # <<>> /\ asks' = Tail(asks)
    /\ Read(Head(asks)) \/ DecidesHunk(Head(asks)) \/ Waits(Head(asks))
    /\ UNCHANGED <<recorded, visit, review>>

Ends(call) == call \in working /\ working' = working \ {call}
Refused(call) == toWindow' = Append(toWindow, Refusal(call)) /\ UNCHANGED behind

(* changeControl.decide: what fails becomes a conflict, and no event says so. *)
Decided(call) ==
    /\ call.kind = "decide" /\ Ends(call)
    /\ LET c == call.change IN
       \/ /\ rows[c] = "pending"
          /\ rows' = [rows EXCEPT ![c] = call.status]
          /\ Send(ExecutionOf(c), call)
       \/ /\ rows[c] = "pending"
          /\ rows' = [rows EXCEPT ![c] = "conflicted"]
          /\ toWindow' = Append(toWindow, Refusal(call))
          /\ behind' = [behind EXCEPT !.rows = @ \cup {c}]
       \/ rows[c] # "pending" /\ UNCHANGED rows /\ Refused(call)
    /\ UNCHANGED <<hunkRows, recorded, asks, visit, review, used>>

(* ChangeHunkService.edit, after its await: the patch fits, or is a conflict. *)
Edited(call) ==
    /\ call.kind = "edit" /\ Ends(call)
    /\ LET c == call.change IN
       IF rows[c] = "pending" /\ hunkRows[c] = call.hunk /\ call.hunk.open
       THEN \E fits \in BOOLEAN :
               LET hunk == [version |-> call.hunk.version + 1, open |-> fits] IN
               /\ hunkRows' = [hunkRows EXCEPT ![c] = hunk]
               /\ Send(ExecutionOf(c), WithHunk(call, hunk))
       ELSE UNCHANGED hunkRows /\ Refused(call)
    /\ UNCHANGED <<rows, recorded, asks, visit, review, used>>

(* The diff is read from the checkpoints, or cannot be; the hunks were listed before. *)
DiffRead(call) ==
    /\ call.kind = "diff" /\ Ends(call)
    /\ \/ toWindow' = Append(toWindow, call) /\ UNCHANGED <<used, behind>>
       \/ /\ used.faults < MaxFaults
          /\ used' = [used EXCEPT !.faults = @ + 1]
          /\ Refused(call)
    /\ UNCHANGED <<rows, hunkRows, recorded, asks, visit, review>>

(* A Build ends: its ChangeSet is in the database, and no event says so. *)
BuildEnds(e) ==
    /\ e \notin recorded
    /\ recorded' = recorded \cup {e}
    /\ behind' = IF e = visit.execution THEN [behind EXCEPT !.ended = TRUE] ELSE behind
    /\ UNCHANGED <<rows, hunkRows, asks, working, toWindow, visit, review, used>>

(* ai.rollback: what is not rejected is to be, file by file; with a file in conflict  *)
(* there is no revert, and one that changed since AFTER ends it before it begins.   *)
RollBack(e) ==
    /\ e \in recorded /\ MayCall
    /\ LET files == {c \in ChangesOf[e] : rows[c] # "rejected"} IN
       /\ files # {} /\ \A c \in files : rows[c] # "conflicted"
       /\ \/ working' = working \cup {[Call("rollback", "none") EXCEPT
                    !.of = [execution |-> e, generation |-> 0], !.rows = Rows(files)]}
          \/ UNCHANGED working
    /\ UNCHANGED <<rows, hunkRows, recorded, asks, toWindow, visit, review, behind>>

(* A file's rejection is in the database at once. One that fails is a conflict and    *)
(* ends the revert, and so does a file that was decided since: the files before it   *)
(* stay rejected, and no event says so.                                           *)
FileReverted(call) ==
    /\ call.kind = "rollback" /\ call \in working
    /\ \E c \in DOMAIN call.rows :
          LET rest == [call EXCEPT !.rows = [x \in DOMAIN @ \ {c} |-> @[x]]] IN
          IF rows[c] \in {"pending", "accepted"}
          THEN \E status \in {"rejected", "conflicted"} :
                  /\ rows' = [rows EXCEPT ![c] = status]
                  /\ behind' = [behind EXCEPT !.rows = @ \cup {c}]
                  /\ working' = (working \ {call})
                                 \cup IF status = "rejected" THEN {rest} ELSE {}
          ELSE UNCHANGED <<rows, behind>> /\ working' = working \ {call}
    /\ UNCHANGED <<hunkRows, recorded, asks, toWindow, visit, review, used>>

RevertEnds(call) ==
    /\ call.kind = "rollback" /\ DOMAIN call.rows = {} /\ Ends(call)
    /\ toWindow' = Append(toWindow, Event(call.of.execution))
    /\ behind' = Told(call.of.execution)
    /\ UNCHANGED <<rows, hunkRows, recorded, asks, visit, review, used>>

-----------------------------------------------------------------------------
(* The window receives. *)
IsCurrentSession(m) == m.of = visit

Reload(m) ==
    /\ m.kind = "changed" /\ m.of.execution = visit.execution
    /\ review' = [review EXCEPT !.loading = TRUE]
    /\ asks' = Append(asks, Call("get", "none"))
    /\ UNCHANGED behind

(* reload, after changeControl.get and after changeControl.changes. *)
ReloadGoesOn(m) ==
    /\ m.kind = "get" /\ m.ok /\ m.found
    /\ asks' = Append(asks, Call("changes", "none"))
    /\ UNCHANGED <<review, behind>>

Reloaded(m) ==
    /\ m.kind = "changes" \/ (m.kind = "get" /\ ~(m.ok /\ m.found))
    /\ IF m.ok
       THEN /\ review' = IF m.kind = "changes" THEN [Cleared EXCEPT !.rows = m.rows] ELSE Cleared
            /\ behind' = [behind EXCEPT !.reads = {}, !.hunks = {},
                                         !.ended = @ /\ m.kind = "get"]
       ELSE /\ review' = [review EXCEPT !.loading = FALSE]
            /\ behind' = [behind EXCEPT !.reads = {visit.execution}]
    /\ UNCHANGED asks

DecisionShown(m) ==
    /\ m.kind = "decide"
    /\ review' = IF m.ok /\ m.change \in DOMAIN review.rows
                 THEN [review EXCEPT !.rows[m.change] = m.status] ELSE review
    /\ UNCHANGED <<asks, behind>>

HunksWith(hunks, c, hunk) == [x \in DOMAIN hunks \cup {c} |-> IF x = c THEN hunk ELSE hunks[x]]

DiffShown(m) ==
    /\ m.kind = "diff"
    /\ review' = IF m.ok THEN [review EXCEPT !.hunks = HunksWith(@, m.change, m.hunk)]
                 ELSE [review EXCEPT !.expanded = "none"]
    /\ behind' = IF m.ok => m.hunk = hunkRows[m.change] THEN behind
                 ELSE [behind EXCEPT !.hunks = @ \cup {m.change}]
    /\ UNCHANGED asks

HunkShown(m) ==
    /\ m.kind \in {"edit", "decideHunk"}
    /\ review' = IF m.ok /\ m.change \in DOMAIN review.hunks
                 THEN [review EXCEPT !.hunks[m.change] = m.hunk] ELSE review
    /\ UNCHANGED <<asks, behind>>

(* Every reply finds the session it was asked in, or changes nothing. *)
Receive ==
    /\ toWindow # <<>> /\ toWindow' = Tail(toWindow)
    /\ LET m == Head(toWindow) IN
       \/ Reload(m)
       \/ /\ m.kind # "changed" /\ IsCurrentSession(m)
          /\ ReloadGoesOn(m) \/ Reloaded(m) \/ DecisionShown(m) \/ DiffShown(m) \/ HunkShown(m)
       \/ /\ IF m.kind = "changed" THEN m.of.execution # visit.execution
             ELSE ~IsCurrentSession(m)
          /\ UNCHANGED <<review, asks, behind>>
    /\ UNCHANGED <<mainVars, visit, used>>

ReviewNext ==
    \/ \E e \in Executions \cup {"none"} : Show(e)
    \/ \E c \in AllChanges : DecideChange(c) \/ ToggleDiff(c) \/ EditHunk(c) \/ DecideHunk(c)
    \/ Handle \/ Receive
    \/ \E call \in working : \/ Decided(call) \/ Edited(call) \/ DiffRead(call)
                             \/ FileReverted(call) \/ RevertEnds(call)
    \/ \E e \in Executions : BuildEnds(e) \/ RollBack(e)

-----------------------------------------------------------------------------
ReviewTypeOK ==
    /\ rows \in [AllChanges -> {"pending", "accepted", "rejected", "conflicted"}]
    /\ hunkRows \in [AllChanges -> [version : 0 .. MaxAsked, open : BOOLEAN]]
    /\ recorded \subseteq Executions
    /\ visit \in [execution : Executions \cup {"none"}, generation : 0 .. MaxVisits]
    /\ used \in [calls : 0 .. MaxAsked, faults : 0 .. MaxFaults]
    /\ DOMAIN review.rows \subseteq AllChanges /\ DOMAIN review.hunks \subseteq AllChanges
    /\ review.expanded \in AllChanges \cup {"none"} /\ review.loading \in BOOLEAN

AtRest == asks = <<>> /\ working = {} /\ toWindow = <<>>

(* The panel never shows a change of another execution than its own, and it says    *)
(* that it loads only while a read of this session is under way.                  *)
ReviewBelongs ==
    LET own == IF visit.execution = "none" THEN {} ELSE ChangesOf[visit.execution]
        Reads(m) == m.kind \in {"get", "changes"} /\ IsCurrentSession(m)
        reading == \/ \E i \in DOMAIN asks : Reads(asks[i])
                   \/ \E i \in DOMAIN toWindow : Reads(toWindow[i])
    IN  /\ DOMAIN review.rows \subseteq own /\ DOMAIN review.hunks \subseteq own
        /\ review.loading => reading

(* With nothing on its way the panel shows the rows of the database, and the hunks   *)
(* it holds are theirs. It lags behind where a read failed, where the Build it shows  *)
(* ended after its ChangeSet was asked for, where a decision failed and left a        *)
(* conflict or a rollback stopped at a file after it had rejected others, of all of    *)
(* which no event is sent, and where hunks that were listed before a change of theirs *)
(* arrived after it, with a diff that took longer.                                  *)
ReviewFollowsRows ==
    AtRest /\ visit.execution # "none" /\ behind.reads = {} =>
        /\ \/ DOMAIN review.rows = IF visit.execution \in recorded
                                   THEN ChangesOf[visit.execution] ELSE {}
           \/ behind.ended
        /\ \A c \in DOMAIN review.rows : review.rows[c] = rows[c] \/ c \in behind.rows
        /\ \A c \in DOMAIN review.hunks : review.hunks[c] = hunkRows[c] \/ c \in behind.hunks
=============================================================================
