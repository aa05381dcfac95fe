----------------------------- MODULE ChangeSets -----------------------------
(***************************************************************************)
(* The statuses a file change and its ChangeSet can have, and how the      *)
(* second is computed from the first (shared/changeControl.ts and          *)
(* ChangeDecisionService.aggregateStatus).                                 *)
(*                                                                         *)
(* The changes of one ChangeSet are a function from the identifiers a      *)
(* workspace has to a status; an identifier that is not part of the set is *)
(* "absent".                                                               *)
(***************************************************************************)

ChangeStatuses == {"pending", "accepted", "rejected", "conflicted"}
SetStatuses    == ChangeStatuses \cup {"partially-accepted"}

Present(st)  == {c \in DOMAIN st : st[c] # "absent"}
With(st, s)  == {c \in DOMAIN st : st[c] = s}
Undecided(st) == With(st, "pending")

\* The change has an answer that the review surface treats as final.
AllDecided(st) ==
    /\ Present(st) # {}
    /\ \A c \in Present(st) : st[c] \in {"accepted", "rejected"}

AggregateStatus(st) ==
    IF With(st, "conflicted") # {} THEN "conflicted"
    ELSE IF Present(st) = With(st, "accepted") THEN "accepted"
    ELSE IF Present(st) = With(st, "rejected") THEN "rejected"
    ELSE IF With(st, "accepted") \cup With(st, "rejected") # {}
         THEN "partially-accepted"
    ELSE "pending"

\* Mutant: a set with mixed answers no longer awaits one.
AwaitingUntouched(status) == status \in {"pending", "conflicted"}

\* The stored statuses OperationRecoveryRepository.pendingDecisions selects
\* when the application starts.
AwaitingDecision(status) ==
    status \in {"pending", "partially-accepted", "conflicted"}

=============================================================================
