-------------------------------- MODULE Documents --------------------------------
(* Docs Mode: a Markdown document is previewed, then updated only if it is     *)
(* still what the preview showed; and the export of a text by an external      *)
(* command, into a temporary file that is renamed when the command succeeded.   *)
(* The two share a file of handlers and no state.                              *)
EXTENDS Naturals, Sequences, FiniteSets

CONSTANTS Updates,      \* calls that preview and then apply an update
          MaxDocumentEdits      \* bound: edits of the document by others

VARIABLES document,     \* the document: absent, or a sequence of pieces
          edits,        \* edits by others so far
          updates,      \* update -> where it is
          export,       \* the call of the export and its command
          target        \* the exported file

docVars == <<document, edits, updates>>
expVars == <<export, target>>

NoDocument == [exists |-> FALSE, pieces |-> <<>>]
Document(pieces) == [exists |-> TRUE, pieces |-> pieces]
NotAsked == [step |-> "idle", strategy |-> "append", expected |-> NoDocument,
             content |-> <<>>, overtaken |-> FALSE]

DocInit ==
    /\ document \in {NoDocument, Document(<<>>), Document(<<"text">>)}
    /\ edits = 0
    /\ updates = [u \in Updates |-> NotAsked]

(* mergeMarkdown *)
Merge(existing, generated, strategy) ==
    IF strategy = "replace" \/ existing = <<>> THEN <<generated>>
    ELSE Append(existing, generated)

(* A history mark: the document changed after the last look of update u. *)
Overtaking(step) ==
    [u \in Updates |-> IF updates[u].step = step
                       THEN [updates[u] EXCEPT !.overtaken = TRUE] ELSE updates[u]]

EditDocument ==
    /\ edits < MaxDocumentEdits
    /\ edits' = edits + 1
    /\ \E next \in {NoDocument, Document(Append(document.pieces, "edit"))} :
          document' = next /\ next # document
    /\ updates' = Overtaking("checked")

Preview(u) ==
    /\ updates[u].step = "idle"
    /\ updates' = [updates EXCEPT ![u].step = "previewed", ![u].expected = document]
    /\ UNCHANGED <<document, edits>>

UnchangedDocument(u) == document = updates[u].expected

(* The user confirms; apply reads the document again and writes the merge to a *)
(* temporary file, ...                                                         *)
Apply(u, strategy) ==
    /\ updates[u].step = "previewed"
    /\ updates' = [updates EXCEPT ![u] =
           IF document # @.expected THEN [@ EXCEPT !.step = "refused"]
           ELSE [@ EXCEPT !.step = "written", !.strategy = strategy,
                          !.content = Merge(document.pieces, u, strategy)]]
    /\ UNCHANGED <<document, edits>>

(* ... looks once more ...                                                     *)
CheckAgain(u) ==
    /\ updates[u].step = "written"
    /\ updates' = [updates EXCEPT ![u].step =
                      IF UnchangedDocument(u) THEN "checked" ELSE "refused"]
    /\ UNCHANGED <<document, edits>>

(* ... and renames.                                                            *)
ReplaceDocument(u) ==
    /\ updates[u].step = "checked"
    /\ document' = Document(updates[u].content)
    /\ updates' = [Overtaking("checked") EXCEPT
                      ![u] = [updates[u] EXCEPT !.step = "applied"]]
    /\ UNCHANGED edits

UpdateFails(u) ==
    /\ updates[u].step \in {"previewed", "written", "checked"}
    /\ updates' = [updates EXCEPT ![u].step = "refused"]
    /\ UNCHANGED <<document, edits>>

DocNext ==
    \/ EditDocument
    \/ \E u \in Updates :
          \/ Preview(u) \/ CheckAgain(u) \/ ReplaceDocument(u) \/ UpdateFails(u)
          \/ \E strategy \in {"append", "replace"} : Apply(u, strategy)

DocSpec == DocInit /\ [][DocNext]_docVars

--------------------------------------------------------------------------------
(* The export, from the command it starts to the file it leaves. *)
NotExporting == [step |-> "idle", process |-> "none", output |-> "none",
                 timedOut |-> FALSE]

ExpInit == export = NotExporting /\ target = "none"

(* export: the command reads the text on its standard input. *)
StartExport ==
    /\ export.step = "idle"
    /\ export' = [export EXCEPT !.step = "waiting", !.process = "running"]
    /\ UNCHANGED target

WriteOutput ==
    /\ export.process = "running"
    /\ export.output # "whole"
    /\ export' = [export EXCEPT !.output = IF @ = "none" THEN "part" ELSE "whole"]
    /\ UNCHANGED target

Success(code) == code = 0

(* close: with its code, or by the signal. The command writes everything       *)
(* before it ends with 0.                                                      *)
ExportCloses(code) ==
    /\ export.process = "running"
    /\ code = 0 => export.output = "whole"
    /\ export' = [export EXCEPT !.process = "gone",
           !.step = IF @ # "waiting" THEN @
                    ELSE IF ~export.timedOut /\ Success(code) THEN "produced"
                    ELSE "failed"]
    /\ UNCHANGED target

(* The command cannot start, or its standard input breaks: it is not killed.   *)
ExportErrs ==
    /\ export.step = "waiting"
    /\ \E process \in {"gone", export.process} :
          export' = [export EXCEPT !.step = "failed", !.process = process]
    /\ UNCHANGED target

ExportTimesOut ==
    /\ export.step = "waiting"
    /\ ~export.timedOut
    /\ export' = [export EXCEPT !.timedOut = TRUE]
    /\ UNCHANGED target

(* Five seconds after the SIGTERM: SIGKILL, and the call ends.                 *)
ExportKilled ==
    /\ export.step = "waiting" /\ export.timedOut
    /\ export' = [export EXCEPT !.step = "failed", !.process = "gone"]
    /\ UNCHANGED target

(* The rename; the temporary file is unlinked whatever happened.               *)
ExportRenames ==
    /\ export.step = "produced"
    /\ target' = export.output
    /\ export' = [export EXCEPT !.step = "done", !.output = "none"]

ExportUnlinks ==
    /\ export.step \in {"produced", "failed"}
    /\ export' = [export EXCEPT !.step = "ended", !.output = "none"]
    /\ UNCHANGED target

ExpNext ==
    \/ StartExport \/ WriteOutput \/ \E code \in 0 .. 1 : ExportCloses(code)
    \/ ExportErrs \/ ExportTimesOut \/ ExportKilled
    \/ ExportRenames \/ ExportUnlinks

ExpSpec == ExpInit /\ [][ExpNext]_expVars

(* The two timers fire, and the handler runs to its end.                       *)
ExpWork == ExportTimesOut \/ ExportKilled \/ ExportRenames \/ ExportUnlinks

--------------------------------------------------------------------------------
DocTypeOK ==
    /\ document.exists \in BOOLEAN
    /\ \A u \in Updates : updates[u].step \in
          {"idle", "previewed", "written", "checked", "applied", "refused"}

(* An update replaces the text its preview showed and no other, unless the     *)
(* document changed between its last look and its rename.                      *)
PreviewedTextReplaced ==
    \A u \in Updates :
        (updates[u].step = "checked" /\ updates'[u].step = "applied"
         /\ ~updates[u].overtaken) => document = updates[u].expected

ExpTypeOK ==
    /\ export.step \in {"idle", "waiting", "produced", "failed", "done", "ended"}
    /\ export.process \in {"none", "running", "gone"}
    /\ target \in {"none", "part", "whole"}

(* The exported file is never a part of the output.                            *)
ExportsAreWhole == target # "part"
================================================================================
