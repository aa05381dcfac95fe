----------------------------- MODULE ChangeHunks ------------------------------
(* The review of one modified text file: its diff, the hunk stored the first   *)
(* time it is listed, the edits of the hunk (the patch is validated against    *)
(* the BEFORE between two reads of the row) and the decisions, of the hunk and *)
(* of the file. A text is a sequence of lines.                                 *)
EXTENDS Naturals, Sequences, FiniteSets
LOCAL INSTANCE SequencesExt

CONSTANTS Lines,        \* the lines a text may hold
          MaxLines,     \* bound: lines of the texts under review
          MaxCompared,  \* bound: lines of the texts the diff is checked on
          Editors,      \* edits that may be under way at once
          Readers       \* calls that list the hunks

VARIABLES texts,        \* the BEFORE and the AFTER of the change
          fileStatus,   \* status of the change
          hunk,         \* the row of the hunk
          editing,      \* editor -> the edit it waits for
          listing       \* reader -> where its call is

hunkVars == <<texts, fileStatus, hunk, editing, listing>>

TextsUpTo(max) == UNION {[1 .. n -> Lines] : n \in 0 .. max}
Texts == TextsUpTo(MaxLines)
Larger(a, b) == IF a > b THEN a ELSE b

(* diffLines: the table of longest common subsequences of the two tails ...    *)
Common(before, after) ==
    LET rows[i \in 0 .. Len(before), j \in 0 .. Len(after)] ==
            IF i = Len(before) \/ j = Len(after) THEN 0
            ELSE IF before[i + 1] = after[j + 1] THEN rows[i + 1, j + 1] + 1
            ELSE Larger(rows[i + 1, j], rows[i, j + 1])
    IN rows

(* ... and the walk through it, that prefers an addition when both are as good.*)
DiffLines(before, after) ==
    LET rows == Common(before, after)
        walk[i \in 0 .. Len(before), j \in 0 .. Len(after)] ==
            LET b == Len(before) - i
                a == Len(after) - j
            IN IF b = 0 /\ a = 0 THEN <<>>
               ELSE IF b > 0 /\ a > 0 /\ before[i + 1] = after[j + 1]
               THEN <<[prefix |-> " ", value |-> before[i + 1]]>> \o walk[i + 1, j + 1]
               ELSE IF a > 0 /\ (b = 0 \/ rows[i, j + 1] >= rows[i + 1, j])
               THEN <<[prefix |-> "+", value |-> after[j + 1]]>> \o walk[i, j + 1]
               ELSE <<[prefix |-> "-", value |-> before[i + 1]]>> \o walk[i + 1, j]
    IN walk[0, 0]

(* applyPatch: the source consumed so far, the result, and whether it failed.  *)
AppliedLine(before, state, line) ==
    LET matches == state.at < Len(before) /\ before[state.at + 1] = line.value IN
    CASE line.prefix = "+" -> [state EXCEPT !.result = Append(@, line.value)]
      [] line.prefix = " " /\ matches ->
            [state EXCEPT !.at = @ + 1, !.result = Append(@, line.value)]
      [] line.prefix = "-" /\ matches -> [state EXCEPT !.at = @ + 1]
      [] OTHER -> [state EXCEPT !.fits = FALSE]

ApplyPatch(before, patch) ==
    LET end == FoldLeft(LAMBDA state, line : IF state.fits
                            THEN AppliedLine(before, state, line) ELSE state,
                        [at |-> 0, result |-> <<>>, fits |-> TRUE], patch)
    IN [fits |-> end.fits,
        text |-> end.result \o SubSeq(before, end.at + 1, Len(before))]

--------------------------------------------------------------------------------
NoHunk == [status |-> "none", patch |-> <<>>]
HunkStatuses == {"pending", "accepted", "rejected", "edited", "conflicted"}
NotEditing == [on |-> FALSE, hunk |-> NoHunk, status |-> "pending", patch |-> <<>>]
Open == {"pending", "edited"}
FileStatuses == Open \cup {"accepted", "rejected", "conflicted"}

(* A row of the hunk as the editor, or the list, is given it. *)
HunkAs(status, patch) == [status |-> status, patch |-> patch]

(* Patches an editor may send: some that apply to the BEFORE, some that do not. *)
Patches == {DiffLines(x, texts.after) : x \in {texts.before, <<>>, texts.after}}

HunkInit ==
    /\ texts \in {t \in [before : Texts, after : Texts] : t.before # t.after}
    /\ fileStatus = "pending"
    /\ hunk = NoHunk
    /\ editing = [e \in Editors |-> NotEditing]
    /\ listing = [r \in Readers |-> "idle"]

(* list: answers the stored hunk, or reads the diff and creates it; the        *)
(* UNIQUE(change_id,sequence) of the table fails the second creation.          *)
List(r) ==
    /\ listing[r] = "idle"
    /\ listing' = [listing EXCEPT ![r] = IF hunk = NoHunk THEN "reading"
                                         ELSE "answered"]
    /\ UNCHANGED <<texts, fileStatus, hunk, editing>>

Listed(r) ==
    /\ listing[r] = "reading"
    /\ IF hunk = NoHunk
       THEN /\ hunk' = HunkAs("pending", DiffLines(texts.before, texts.after))
            /\ listing' = [listing EXCEPT ![r] = "answered"]
       ELSE /\ listing' = [listing EXCEPT ![r] = "refused"]
            /\ UNCHANGED hunk
    /\ UNCHANGED <<texts, fileStatus, editing>>

(* edit, up to the validation of the patch. *)
Edit(e, patch) ==
    /\ ~editing[e].on
    /\ hunk.status \in Open /\ fileStatus \in Open
    /\ editing' = [editing EXCEPT ![e] = [on |-> TRUE, hunk |-> hunk,
                                          status |-> fileStatus, patch |-> patch]]
    /\ UNCHANGED <<texts, fileStatus, hunk, listing>>

AsRead(e) == hunk = editing[e].hunk /\ fileStatus = editing[e].status

(* validatePatch: on the BEFORE, when it can be read and is what was hashed.   *)
ValidatePatch(patch) == ApplyPatch(texts.before, patch).fits

(* A checkpoint that cannot be read, or is not what was hashed, is a conflict. *)
Edited(e) ==
    /\ editing[e].on
    /\ editing' = [editing EXCEPT ![e] = NotEditing]
    /\ \/ /\ AsRead(e)
          /\ \/ /\ ValidatePatch(editing[e].patch)
                /\ hunk' = HunkAs("edited", editing[e].patch)
             \/ hunk' = HunkAs("conflicted", editing[e].patch)
       \/ ~AsRead(e) /\ UNCHANGED hunk
    /\ UNCHANGED <<texts, fileStatus, listing>>

EditFails(e) ==
    /\ editing[e].on
    /\ editing' = [editing EXCEPT ![e] = NotEditing]
    /\ UNCHANGED <<texts, fileStatus, hunk, listing>>

DecideHunk(decision) ==
    /\ hunk.status \in Open /\ fileStatus \in Open
    /\ hunk' = [hunk EXCEPT !.status = decision]
    /\ UNCHANGED <<texts, fileStatus, editing, listing>>

(* The decision of the whole file, by ChangeDecisionService. *)
DecideFile(decision) ==
    /\ fileStatus \in Open
    /\ fileStatus' = decision
    /\ UNCHANGED <<texts, hunk, editing, listing>>

HunkNext ==
    \/ \E r \in Readers : List(r) \/ Listed(r)
    \/ \E e \in Editors : Edited(e) \/ EditFails(e)
                          \/ \E patch \in Patches : Edit(e, patch)
    \/ \E decision \in {"accepted", "rejected"} : DecideHunk(decision)
    \/ \E decision \in {"accepted", "rejected", "conflicted"} : DecideFile(decision)

--------------------------------------------------------------------------------
HunkTypeOK ==
    /\ texts \in [before : Texts, after : Texts]
    /\ fileStatus \in FileStatuses
    /\ hunk = NoHunk \/ hunk.status \in HunkStatuses
    /\ editing \in [Editors -> [on : BOOLEAN,
                                hunk : {editing[e].hunk : e \in Editors},
                                status : Open,
                                patch : {editing[e].patch : e \in Editors}]]
    /\ listing \in [Readers -> {"idle", "reading", "answered", "refused"}]

(* A text that is a subsequence of both, and as long as can be. *)
Subsequences(t) ==
    {[i \in 1 .. Cardinality(S) |-> t[SetToSortSeq(S, <)[i]]] :
        S \in SUBSET (1 .. Len(t))}
Longest(before, after) ==
    LET lengths == {Len(s) : s \in Subsequences(before) \cap Subsequences(after)}
    IN CHOOSE n \in lengths : \A m \in lengths : m <= n

(* The diff a review shows turns the BEFORE into the AFTER exactly, keeps as   *)
(* many lines as any diff could, and applying it is how an edit is validated.  *)
DiffsAreExact ==
    \A before, after \in TextsUpTo(MaxCompared) :
        LET patch == DiffLines(before, after) IN
        /\ ApplyPatch(before, patch) = [fits |-> TRUE, text |-> after]
        /\ Len(SelectSeq(patch, LAMBDA l : l.prefix = " ")) = Longest(before, after)

(* A hunk that carries an edit carries one that applies to the BEFORE.         *)
EditsApply ==
    hunk.status = "edited" => ApplyPatch(texts.before, hunk.patch).fits

(* A hunk that was decided, or whose file was, is never written again, however *)
(* long the validation of an edit took.                                        *)
DecidedHunksStand ==
    hunk' # hunk => /\ hunk.status \in Open \cup {"none"}
                    /\ hunk.status \in Open => fileStatus \in Open
================================================================================
