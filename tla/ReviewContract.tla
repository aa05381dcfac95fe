-------------------------- MODULE ReviewContract ---------------------------
(***************************************************************************)
(* What the decisions of a ChangeSet promise to whoever reads its stored   *)
(* state (docs/change-control.md, "Decision invariants"; the review        *)
(* surface, the gate and the Project Index rely on it): a file is decided  *)
(* in one step with its set, it is rejected only after its restoration,    *)
(* and whatever goes wrong shows as a conflict.                            *)
(***************************************************************************)
EXTENDS ChangeSets

CONSTANT Changes
VARIABLES status, setStatus, restored

contractVars == <<status, setStatus, restored>>

Init ==
    /\ status = [c \in Changes |-> "pending"]
    /\ setStatus = "pending"
    /\ restored = {}

\* The change and the set it belongs to become visible together.
Store(decided) ==
    /\ status' = decided
    /\ setStatus' = AggregateStatus(decided)
    /\ UNCHANGED restored

Accept(c) ==
    /\ status[c] = "pending"
    /\ Store([status EXCEPT ![c] = "accepted"])

\* An accepted file can still be rejected, with its whole Build.
Reject(c) ==
    /\ c \in restored
    /\ status[c] \in {"pending", "accepted"}
    /\ Store([status EXCEPT ![c] = "rejected"])

\* One decision failed, or several were found interrupted at startup.
Conflict(S) ==
    /\ S # {}
    /\ Store([c \in Changes |-> IF c \in S THEN "conflicted" ELSE status[c]])

\* The file is BEFORE again, and no decision says so yet.
Restore(c) ==
    /\ status[c] \in {"pending", "accepted"}
    /\ restored' = restored \cup {c}
    /\ UNCHANGED <<status, setStatus>>

Next ==
    \/ \E c \in Changes : Accept(c) \/ Reject(c) \/ Restore(c)
    \/ \E S \in SUBSET Changes : Conflict(S)

Spec == Init /\ [][Next]_contractVars

=============================================================================
