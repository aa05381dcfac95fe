--------------------------- MODULE WorkspaceEvidence ---------------------------
(* The ledger of observations (WorkspaceEvidenceRepository, -Service): what is    *)
(* recorded once, what makes it stale, and what a read answers, marking on its  *)
(* way what depends on stale evidence.  Contents and hashes are left out.       *)
EXTENDS Naturals, Sequences, FiniteSets

LOCAL INSTANCE SequencesExt
LOCAL INSTANCE Relation

CONSTANTS WalkLimit,      \* rows a read visits (100)
          ReferencesKept, \* references a row keeps of those it is given (500)
          MaxSources      \* bound: sources of evidence, numbered in the order of their ids

VARIABLES recorded,    \* rows of workspace_evidence, by source
          references,  \* manifest.references: the sources each row names, as kept
          staleRows,   \* stale_detected_at is set
          verifying,   \* checkWorkspaceEvidence between two files: its row, 0: none
          answered     \* history: rows some read has called stale

evVars == <<recorded, references, staleRows, verifying, answered>>
Sources == 1..MaxSources

EvInit ==
    /\ recorded = {} /\ references = [s \in Sources |-> {}] /\ staleRows = {}
    /\ verifying = 0 /\ answered = {}

-----------------------------------------------------------------------------
(* current: a walk that visits a row once, and marks a row as soon as one of the *)
(* rows it names answers stale. It goes no further when it visited WalkLimit    *)
(* rows.                                                                       *)
RECURSIVE Visit(_, _, _, _)
Visit(rows, named, e, walk) ==
    IF e \in walk.visited \/ Cardinality(walk.visited) >= WalkLimit THEN [walk EXCEPT !.stale = FALSE]
    ELSE IF e \in walk.marked THEN [walk EXCEPT !.stale = TRUE, !.visited = @ \cup {e}]
    ELSE LET step(w, r) == IF w.stale THEN w ELSE Visit(rows, named, r, w)
             end == FoldLeft(step, [walk EXCEPT !.stale = FALSE, !.visited = @ \cup {e}],
                             SetToSortSeq(named[e] \cap rows, <))
         IN  [end EXCEPT !.marked = IF end.stale THEN @ \cup {e} ELSE @]

Current(e) ==
    Visit(recorded, references, e, [visited |-> {}, marked |-> staleRows, stale |-> FALSE])

-----------------------------------------------------------------------------
(* record: a source that is known keeps its row, whatever is observed now. *)
Record(e) ==
    /\ e \notin recorded /\ recorded' = recorded \cup {e}
    /\ \E given \in SUBSET (Sources \ {e}) : \E kept \in SUBSET given :
           /\ IF Cardinality(given) > ReferencesKept THEN Cardinality(kept) = ReferencesKept
              ELSE kept = given
           /\ references' = [references EXCEPT ![e] = kept]
    /\ UNCHANGED <<staleRows, verifying, answered>>
RecordAgain(e) ==
    /\ e \in recorded /\ recorded' = recorded
    /\ LET read == Current(e)
       IN  staleRows' = read.marked /\ answered' = answered \cup {x \in {e} : read.stale}
    /\ UNCHANGED <<references, verifying>>

(* invalidate: every row of the workspace. *)
Invalidate ==
    /\ staleRows' = recorded
    /\ UNCHANGED <<recorded, references, verifying, answered>>

Read(e) ==
    /\ e \in recorded
    /\ LET read == Current(e)
       IN  staleRows' = read.marked /\ answered' = answered \cup {x \in {e} : read.stale}
    /\ UNCHANGED <<recorded, references, verifying>>

(* checkWorkspaceEvidence reads files one after another, then reads the row. *)
StartCheck(e) ==
    /\ verifying = 0 /\ e \in recorded /\ verifying' = e
    /\ UNCHANGED <<recorded, references, staleRows, answered>>
Mismatch ==
    /\ verifying # 0 /\ staleRows' = staleRows \cup ({verifying} \cap recorded)
    /\ UNCHANGED <<recorded, references, verifying, answered>>
EndCheck ==
    /\ verifying # 0 /\ verifying' = 0
    /\ IF verifying \in recorded
       THEN LET read == Current(verifying)
            IN  /\ staleRows' = read.marked
                /\ answered' = answered \cup {x \in {verifying} : read.stale}
       ELSE UNCHANGED <<staleRows, answered>>
    /\ UNCHANGED <<recorded, references>>

(* The execution of a row is deleted, and the row with it. *)
DeleteExecution(e) ==
    /\ e \in recorded /\ recorded' = recorded \ {e}
    /\ references' = [references EXCEPT ![e] = {}]
    /\ staleRows' = staleRows \ {e} /\ answered' = answered \ {e}
    /\ UNCHANGED verifying

EvNext ==
    \/ \E e \in Sources : Record(e) \/ RecordAgain(e) \/ Read(e) \/ StartCheck(e) \/ DeleteExecution(e)
    \/ Invalidate \/ Mismatch \/ EndCheck

-----------------------------------------------------------------------------
EvTypeOK ==
    /\ recorded \subseteq Sources /\ staleRows \subseteq recorded /\ answered \subseteq recorded
    /\ verifying \in 0..MaxSources

(* What a read once called stale is stale for every later read, even when the    *)
(* row it depended on has been deleted since.                                  *)
StaleIsKept == \A e \in answered : Current(e).stale

(* A read answers stale only when the row or one it depends on, directly or      *)
(* through others and in spite of cycles, is marked; and always then, unless it  *)
(* depends on more rows than a walk visits. The references a row did not keep    *)
(* are none of its dependencies.                                               *)
ReadsSeeDependencies ==
    LET names[a, b \in Sources] == {a, b} \subseteq recorded /\ b \in references[a]
        reaches == TransitiveClosure(names, Sources)
    IN  \A e \in recorded :
            LET among == {e} \cup {s \in Sources : reaches[e, s]} IN
            /\ Current(e).stale => among \cap staleRows # {}
            /\ among \cap staleRows # {} /\ Cardinality(among) <= WalkLimit => Current(e).stale
=============================================================================
