------------------------- MODULE MCChangeDecision --------------------------
(***************************************************************************)
(* Small instances of ChangeDecision, with files the Build modified,       *)
(* created and deleted.                                                    *)
(***************************************************************************)
EXTENDS ChangeDecision

CONSTANTS modified, created, deleted, missing, old, new, other

MCContents == {missing, old, new, other}
MCBefore   == [c \in Changes |-> IF c = created THEN missing ELSE old]
MCAfter    == [c \in Changes |-> IF c = deleted THEN missing ELSE new]

=============================================================================
