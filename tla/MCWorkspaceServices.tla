------------------------ MODULE MCWorkspaceServices ------------------------
(* Two files: 2 imports 1, and 1 is of a kind without a parser. *)
EXTENDS WorkspaceServices

CONSTANT w1

MCWorkspaces == {w1}
MCImport == <<0, 1>>
MCMaxEdits == [s \in BOOLEAN |-> IF s THEN 1 ELSE 2]

=============================================================================
