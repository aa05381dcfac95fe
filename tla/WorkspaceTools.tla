----------------------------- MODULE WorkspaceTools -----------------------------
(* What the model's tools answer and write: the pages of read_file, the walk   *)
(* of search_text with its limits, and an edit_file, which reads the file, may *)
(* wait for the developer's approval and then replaces the file. A text is a   *)
(* sequence of characters; a line of a page its length.                        *)
EXTENDS Naturals, Sequences, FiniteSets

CONSTANTS Characters, MaxText, MaxPiece,  \* texts of the file; pieces of an edit
          PageCharacters, PageLines,    \* WORKSPACE_TOOL_LIMITS.readCharacters, readLines
          Tree,                         \* directory -> its entries, in their order
          Root, Hidden,                 \* where a search starts; entries it passes over
          Unsearchable,                 \* files over searchFileBytes, binary or unreadable
          SearchFiles, SearchMatches,   \* WORKSPACE_TOOL_LIMITS.searchFiles, searchMatches
          MaxEdits                      \* bound: edits of the developer

VARIABLES text,     \* the file
          edit,     \* the edit_file call: stage, arguments, what it read and will write
          edits,    \* edits of the developer so far
          lost,     \* history: the developer edited between the read and the write
          hits,     \* file -> matching lines
          walk      \* the search: stage, pending, entries, scanned, matches

toolVars == <<text, edit, edits, lost, hits, walk>>

Texts == UNION {[1..n -> Characters] : n \in 0..MaxText}
Pieces == UNION {[1..n -> Characters] : n \in 0..MaxPiece}
Smallest(S) == CHOOSE x \in S : \A y \in S : x <= y

-----------------------------------------------------------------------------
(* readFile: lines of these lengths from start on, each with its number and a  *)
(* tab (two characters here); the line the hint continues with.                *)
LineCost(length) == length + 2

PageEnd(lengths, start, count) ==
    LET taken[i \in 1..(Len(lengths) + 1), used \in 0..(PageCharacters + 1)] ==
          IF \/ i > Len(lengths) \/ i >= start + count
             \/ used + LineCost(lengths[i]) > PageCharacters
          THEN i
          ELSE taken[i + 1, used + LineCost(lengths[i]) + 1]
    IN taken[start, 0]

(* As long as a line fits a page, a page that is asked for with the hint of    *)
(* the one before moves on, and holds no more than fits; so the pages show     *)
(* every line once.                                                            *)
PageSize(lengths, from, to) ==
    LET size[i \in from..to] == IF i = to THEN 0 ELSE size[i + 1] + LineCost(lengths[i]) + 1
    IN size[from]

PagesGoOn ==
    \A n \in 1..3 : \A lengths \in [1..n -> 0..(PageCharacters - 2)] :
        \A start \in 1..n : \A count \in 1..PageLines :
            LET next == PageEnd(lengths, start, count) IN
            /\ next \in (start + 1)..(n + 1)
            /\ next - start <= count
            /\ PageSize(lengths, start, next) <= PageCharacters + 1
            /\ next <= n /\ next - start < count =>
                   PageSize(lengths, start, next + 1) > PageCharacters + 1

-----------------------------------------------------------------------------
(* split and replace: places of a piece that do not overlap, from the left.    *)
PlaceAt(s, piece, i) ==
    i + Len(piece) - 1 <= Len(s) /\ SubSeq(s, i, i + Len(piece) - 1) = piece

Places(s, piece) ==
    LET from[i \in 1..(Len(s) + Len(piece) + 1)] ==
          IF i > Len(s) THEN {}
          ELSE IF PlaceAt(s, piece, i) THEN {i} \cup from[i + Len(piece)]
          ELSE from[i + 1]
    IN from[1]

Replaced(s, piece, by, places) ==
    LET from[i \in 1..(Len(s) + Len(piece) + 1)] ==
          IF i > Len(s) THEN <<>>
          ELSE IF i \in places THEN by \o from[i + Len(piece)]
          ELSE <<s[i]>> \o from[i + 1]
    IN from[1]

Produced(s, old, new, all) ==
    IF all THEN Replaced(s, old, new, Places(s, old))
    ELSE Replaced(s, old, new, {Smallest(Places(s, old))})

NoEdit == [stage |-> "idle", old |-> <<>>, new |-> <<>>, all |-> FALSE, read |-> <<>>,
           next |-> <<>>]

(* edit_file up to the approval: refused when the piece is not there, or is    *)
(* there twice; nothing to do when the text would stay.                        *)
AskEdit(old, new, all) ==
    /\ edit.stage = "idle" /\ old # <<>>
    /\ LET count == Cardinality(Places(text, old)) IN
       edit' = IF count = 0 \/ (count > 1 /\ ~all)
               THEN [NoEdit EXCEPT !.stage = "error"]
               ELSE LET next == Produced(text, old, new, all) IN
                    [stage |-> IF next = text THEN "unchanged" ELSE "asked", old |-> old,
                     new |-> new, all |-> all, read |-> text, next |-> next]
    /\ UNCHANGED <<text, edits, lost, hits, walk>>

(* With the policy "on-request" a change is not asked for: Allow at once.      *)
Allow == edit.stage = "asked" /\ edit' = [edit EXCEPT !.stage = "writing"]
         /\ UNCHANGED <<text, edits, lost, hits, walk>>
Refuse == edit.stage = "asked" /\ edit' = [edit EXCEPT !.stage = "refused"]
          /\ UNCHANGED <<text, edits, lost, hits, walk>>

WriteEdit ==
    /\ edit.stage = "writing"
    /\ \/ text' = edit.next /\ edit' = [edit EXCEPT !.stage = "written"]
       \/ text' = text /\ edit' = [edit EXCEPT !.stage = "failed"]
    /\ UNCHANGED <<edits, lost, hits, walk>>

DeveloperEdits(s) ==
    /\ edits < MaxEdits /\ s # text /\ edit.stage \in {"asked", "writing"}
    /\ edits' = edits + 1
    /\ text' = s
    /\ lost' = TRUE
    /\ UNCHANGED <<edit, hits, walk>>

-----------------------------------------------------------------------------
(* searchText: directories are taken from the end of the pending ones, files   *)
(* in the order of their directory, until a limit is reached. A file that is   *)
(* too large, binary or unreadable counts as scanned and is passed over.       *)
IsDirectory(entry) == entry \in DOMAIN Tree

Room == walk.scanned < SearchFiles /\ walk.matches < SearchMatches

NextDirectory ==
    /\ walk.stage = "walking" /\ walk.entries = <<>>
    /\ IF walk.pending # <<>> /\ Room
       THEN \E readable \in BOOLEAN :
            walk' = [walk EXCEPT
                       !.pending = SubSeq(@, 1, Len(@) - 1),
                       !.entries = IF readable THEN Tree[walk.pending[Len(walk.pending)]]
                                   ELSE <<>>,
                       !.unread = @ \/ ~readable]
       ELSE walk' = [walk EXCEPT !.stage = "done"]
    /\ UNCHANGED <<text, edit, edits, lost, hits>>

NextEntry ==
    /\ walk.stage = "walking" /\ walk.entries # <<>>
    /\ LET entry == Head(walk.entries)
           least(a, b) == IF a < b THEN a ELSE b
       IN walk' =
          CASE ~Room -> [walk EXCEPT !.entries = <<>>]
            [] Room /\ entry \in Hidden -> [walk EXCEPT !.entries = Tail(@)]
            [] Room /\ entry \notin Hidden /\ IsDirectory(entry) ->
                 [walk EXCEPT !.entries = Tail(@), !.pending = Append(@, entry)]
            [] OTHER -> [walk EXCEPT !.entries = Tail(@), !.scanned = @ + 1,
                                     !.matches = IF entry \in Unsearchable THEN @
                                                 ELSE least(@ + hits[entry], SearchMatches)]
    /\ UNCHANGED <<text, edit, edits, lost, hits>>

Abort ==
    /\ walk.stage = "walking"
    /\ walk' = [walk EXCEPT !.stage = "aborted"]
    /\ UNCHANGED <<text, edit, edits, lost, hits>>

Entries == UNION {{Tree[d][i] : i \in DOMAIN Tree[d]} : d \in DOMAIN Tree}
Files == {e \in Entries : ~IsDirectory(e)}

NoWalk == [stage |-> "idle", pending |-> <<>>, entries |-> <<>>, scanned |-> 0, matches |-> 0,
           unread |-> FALSE]

(* One tool call at a time: an edit or a search. *)
ToolsInit ==
    /\ text \in Texts /\ edit = NoEdit /\ edits = 0 /\ lost = FALSE
    /\ \/ hits = [f \in Files |-> 0] /\ walk = NoWalk
       \/ /\ text = <<>>
          /\ hits \in [Files -> 0..2]
          /\ walk = [NoWalk EXCEPT !.stage = "walking", !.pending = <<Root>>]

ToolsNext ==
    \/ /\ walk.stage = "idle"
       /\ \/ \E old, new \in Pieces, all \in BOOLEAN : AskEdit(old, new, all)
          \/ Allow \/ Refuse \/ WriteEdit
          \/ \E s \in Texts : DeveloperEdits(s)
    \/ NextDirectory \/ NextEntry \/ Abort

-----------------------------------------------------------------------------
ToolsTypeOK ==
    /\ \A i \in DOMAIN text : text[i] \in Characters
    /\ edit.stage \in {"idle", "asked", "writing", "written", "failed", "refused", "error",
                       "unchanged"}
    /\ walk.scanned <= SearchFiles /\ walk.matches <= SearchMatches

(* The gaps between the places of a piece, none of which holds it (split), and  *)
(* the text they make with another one between them (join).                    *)
SplitBy(gaps, piece) ==
    \A i \in DOMAIN gaps : LET s == IF i = Len(gaps) THEN gaps[i] ELSE gaps[i] \o piece IN
        \A j \in 1..Len(gaps[i]) : ~PlaceAt(s, piece, j)
Joined(gaps, piece) ==
    LET from[i \in DOMAIN gaps] ==
          IF i = Len(gaps) THEN gaps[i] ELSE gaps[i] \o piece \o from[i + 1]
    IN from[1]
Gaps == UNION {[1..n -> Texts] : n \in 2..(MaxText + 1)}

(* An edit that is reported as written put the new piece for the old one where *)
(* it was in the text that was read, at its only place or at every place, and  *)
(* left every other character. One that is not left the file as it was.        *)
(* An edit of the developer between the read and the write is not noticed: it  *)
(* is replaced by the text computed before it.                                 *)
EditsAreExact ==
    /\ edit.stage = "written" =>
         \E gaps \in Gaps : /\ SplitBy(gaps, edit.old)
                            /\ (edit.all \/ Len(gaps) = 2)
                            /\ edit.read = Joined(gaps, edit.old)
                            /\ text = Joined(gaps, edit.new)
    /\ ~lost /\ edit.stage \in {"asked", "writing", "refused", "failed", "unchanged"} =>
         text = edit.read

(* A search that reached no limit and read every directory has every match of  *)
(* every file it can search that is not hidden or below a hidden directory;    *)
(* whatever it reached, it never has more. It does not say which files it       *)
(* passed over: they count as scanned.                                         *)
Reached == LET below[n \in 0..Cardinality(DOMAIN Tree)] ==
                 IF n = 0 THEN {Root}
                 ELSE below[n - 1] \cup {e \in Entries \ Hidden : \E d \in below[n - 1] \cap DOMAIN Tree :
                                            \E i \in DOMAIN Tree[d] : Tree[d][i] = e}
           IN below[Cardinality(DOMAIN Tree)] \cap Files

Total == LET sum[S \in SUBSET Reached] ==
               IF S = {} THEN 0 ELSE LET f == CHOOSE x \in S : TRUE IN hits[f] + sum[S \ {f}]
         IN sum[Reached \ Unsearchable]

SearchIsComplete ==
    /\ walk.matches <= Total
    /\ walk.stage = "done" /\ ~walk.unread /\ Room =>
           walk.matches = Total /\ walk.scanned = Cardinality(Reached)
=============================================================================
