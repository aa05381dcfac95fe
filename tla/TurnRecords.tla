------------------------------ MODULE TurnRecords ------------------------------
(***************************************************************************)
(* What a turn of the agent leaves to the user besides its messages: the   *)
(* review suggestions of the conversation and the structured memories of   *)
(* the workspace (the "second brain").                                     *)
(*                                                                         *)
(* electron/database/SuggestionRepository.ts and BrainMemoryRepository.ts, *)
(* reached when a turn ends (electron/ai/TurnPersistence.ts), when a       *)
(* context is put together (electron/memory/BrainMemoryContext.ts) and     *)
(* from registerSuggestionIpc.ts and registerMemoryIpc.ts.  Every          *)
(* operation is one synchronous SQLite transaction: one action.            *)
(***************************************************************************)
EXTENDS Naturals, Sequences, FiniteSets

CONSTANTS
    Identities,   \* the distinct category:title pairs a review may report
    MaxReviews,   \* bound: reviews reconciled
    Contents,     \* the distinct texts of a memory, letter case aside
    MaxMemories   \* bound: memories ever created

VARIABLES
    suggestions,  \* suggestion rows, the most recently updated first
    reviews,      \* reviews reconciled so far
    memories,     \* memory rows; approved: the history records that the user
                  \* approved or restored it; a deleted one has status "deleted"
    usedMemories  \* memories (positions) given to an agent as context

sugVars == <<suggestions, reviews>>
memVars == <<memories, usedMemories>>

-----------------------------------------------------------------------------
(* The suggestions: what a review reports, how it is reconciled with what      *)
(* earlier reviews reported, and the decisions of the user.                    *)
Severities == {"low", "high"}

ActiveStatus == {"new", "in-analysis", "accepted", "deferred"}
Decided == {"rejected", "resolved", "invalid"}

Allowed(status) ==
    CASE status = "new" ->
            {"in-analysis", "accepted", "rejected", "resolved", "deferred", "invalid"}
      [] status = "in-analysis" ->
            {"accepted", "rejected", "resolved", "deferred", "invalid"}
      [] status = "accepted" -> {"resolved", "rejected", "deferred", "invalid"}
      [] status = "deferred" ->
            {"in-analysis", "accepted", "rejected", "resolved", "invalid"}
      [] OTHER -> {}

Row(identity, severity) ==
    [identity |-> identity, severity |-> severity, status |-> "new"]

\* Positions of the rows of an identity, and of those still open.
Of(rows, identity) == {k \in DOMAIN rows : rows[k].identity = identity}
OpenOf(rows, identity) == {k \in Of(rows, identity) : rows[k].status \in ActiveStatus}

First(positions) == CHOOSE k \in positions : \A j \in positions : k <= j

\* The row a reported identity stands for (byIdentity): an open one before a
\* decided one, an accepted one before a new one, else the latest.
Standing(rows, identity) ==
    LET open == OpenOf(rows, identity)
        accepted == {k \in open : rows[k].status = "accepted"}
    IN  IF open = {} THEN First(Of(rows, identity))
        ELSE IF rows[First(open)].status = "new" /\ accepted # {}
        THEN First(accepted)
        ELSE First(open)

\* UPDATE ... SET updated_at: the row becomes the latest.
Touched(rows, k, row) ==
    [j \in DOMAIN rows |-> IF j = 1 THEN row ELSE IF j <= k THEN rows[j - 1] ELSE rows[j]]

\* One reported value: a new identity is inserted, a decided one is returned as
\* it is, an accepted one keeps what was accepted, any other is refreshed.
Reported(rows, value) ==
    IF Of(rows, value.identity) = {}
    THEN <<Row(value.identity, value.severity)>> \o rows
    ELSE LET k == Standing(rows, value.identity)
         IN  IF rows[k].status \in {"new", "in-analysis", "deferred"}
             THEN Touched(rows, k, [rows[k] EXCEPT !.severity = value.severity])
             ELSE rows

WithStatus(rows, k, status) ==
    Touched(rows, k, [rows[k] EXCEPT !.status = status])

\* The rows once the first n values of a review have been looked at.
ReportedUpTo(rows, values) ==
    LET after[n \in 0 .. Len(values)] ==
            IF n = 0 THEN rows ELSE Reported(after[n - 1], values[n])
    IN  after

\* The open row of each identity before the review (activeBefore), when the
\* review no longer reports it and nobody accepted or deferred it, is resolved.
Missing(before, values, n) ==
    /\ before[n].status \in {"new", "in-analysis"}
    /\ n = First(OpenOf(before, before[n].identity))
    /\ \A v \in DOMAIN values : values[v].identity # before[n].identity

ResolvedUpTo(before, rows, values) ==
    LET after[n \in 0 .. Len(before)] ==
            IF n = 0 THEN rows
            ELSE IF Missing(before, values, n)
            THEN LET open == OpenOf(after[n - 1], before[n].identity)
                 IN  WithStatus(after[n - 1], First(open), "resolved")
            ELSE after[n - 1]
    IN  after

Reconcile(rows, values, resolveMissing) ==
    LET reported == ReportedUpTo(rows, values)[Len(values)]
    IN  IF resolveMissing THEN ResolvedUpTo(rows, reported, values)[Len(rows)]
        ELSE reported

Values == [identity : Identities, severity : Severities]
Snapshots == UNION {[1 .. n -> Values] : n \in 0 .. 2}

\* A turn ends.  Only a completed review with a valid snapshot is reconciled in
\* full; a text the renderer extracts cannot certify what is missing from it.
TurnReviewed(values) ==
    /\ reviews < MaxReviews
    /\ suggestions' = Reconcile(suggestions, values, TRUE)
    /\ reviews' = reviews + 1

ExtractSuggestions(values) ==
    /\ reviews < MaxReviews
    /\ suggestions' = Reconcile(suggestions, values, FALSE)
    /\ reviews' = reviews + 1

SetStatus(k, status) ==
    /\ status \in Allowed(suggestions[k].status)
    /\ suggestions' = WithStatus(suggestions, k, status)
    /\ UNCHANGED reviews

-----------------------------------------------------------------------------

\* Databases written before reviews were reconciled may hold two rows of one identity.
Legacy == {<<>>} \cup
          {<<[Row(i, "low") EXCEPT !.status = s], Row(i, "low")>> :
                i \in Identities, s \in {"accepted", "rejected"}}

SugInit ==
    /\ suggestions \in Legacy
    /\ reviews = 0

SugNext ==
    \/ \E values \in Snapshots : TurnReviewed(values) \/ ExtractSuggestions(values)
    \/ \E k \in DOMAIN suggestions, s \in ActiveStatus \cup Decided : SetStatus(k, s)

SugSpec == SugInit /\ [][SugNext]_sugVars

-----------------------------------------------------------------------------
(* The memories: proposed by the agent or written by the user, approved, edited, *)
(* outdated, archived, restored, deleted, and given to the agent as context.     *)
Scopes == {"workspace", "conversation"}

MemoryRows ==
    [content : Contents, scope : Scopes, origin : {"agent", "manual"}, approved : BOOLEAN,
     status : {"candidate", "active", "outdated", "archived", "deleted"}]

MemoryMoves(status) ==
    CASE status = "candidate" -> {"active", "archived"}
      [] status = "active" -> {"outdated", "archived"}
      [] status = "outdated" -> {"active", "archived"}
      [] status = "archived" -> {"active"}
      [] OTHER -> {}

StatusAction(from, to) ==
    CASE from = "candidate" /\ to = "active" -> "approved"
      [] from = "candidate" /\ to = "archived" -> "disapproved"
      [] to = "archived" -> "archived"
      [] to = "outdated" -> "marked-outdated"
      [] OTHER -> "restored"

Memory(content, scope, origin) ==
    [content |-> content, scope |-> scope, origin |-> origin,
     status |-> "candidate", approved |-> FALSE]

FindEquivalent(rows, content, scope) ==
    \E k \in DOMAIN rows : /\ rows[k].content = content
                           /\ rows[k].scope = scope
                           /\ rows[k].status \in {"candidate", "active"}

Proposed(rows, candidate) ==
    IF FindEquivalent(rows, candidate.content, candidate.scope) THEN rows
    ELSE Append(rows, Memory(candidate.content, candidate.scope, "agent"))

\* The rows once the first n candidates of a turn have been looked at.
ProposedUpTo(rows, candidates) ==
    LET after[n \in 0 .. Len(candidates)] ==
            IF n = 0 THEN rows ELSE Proposed(after[n - 1], candidates[n])
    IN  after

\* The candidates of a turn, one transaction: an equal one that waits or is in
\* use, in the table or earlier in the same turn, is not proposed again.
CreateCandidates(candidates) ==
    /\ Len(memories) + Len(candidates) <= MaxMemories
    /\ memories' = ProposedUpTo(memories, candidates)[Len(candidates)]
    /\ UNCHANGED usedMemories

Candidates == [content : Contents, scope : Scopes]

CreateMemory(content, scope) ==
    /\ Len(memories) < MaxMemories
    /\ memories' = Append(memories, Memory(content, scope, "manual"))
    /\ UNCHANGED usedMemories

\* One request may edit a memory and move it at once; both are recorded.
UpdateMemory(m, content, scope, status) ==
    LET row == memories[m]
        action == StatusAction(row.status, status)
    IN  /\ row.status # "deleted"
        /\ content # row.content \/ scope # row.scope \/ status # row.status
        /\ status \in MemoryMoves(row.status) \cup {row.status}
        /\ memories' = [memories EXCEPT ![m] =
                [row EXCEPT !.content = content, !.scope = scope, !.status = status,
                            !.approved = @ \/ (status # row.status
                                                /\ action \in {"approved", "restored"})]]
        /\ UNCHANGED usedMemories

DeleteMemory(m) ==
    /\ memories[m].status # "deleted"
    /\ memories' = [memories EXCEPT ![m].status = "deleted"]
    /\ UNCHANGED usedMemories

\* What the context keeps of the memories found is marked as used.
BuildContext(found) ==
    /\ found # {}
    /\ usedMemories' = usedMemories \cup found
    /\ UNCHANGED memories

\* A turn retrieves what matches its prompt.  A conversation sees its own memories and those of the workspace, another
\* conversation only the latter.
Retrieve(content, scopes) ==
    LET found == {m \in DOMAIN memories : /\ memories[m].status = "active"
                                          /\ memories[m].scope \in scopes
                                          /\ memories[m].content = content}
    IN  BuildContext(found)

-----------------------------------------------------------------------------

MemInit ==
    /\ memories = <<>>
    /\ usedMemories = {}

MemNext ==
    \/ \E n \in 1 .. 2 : \E c \in [1 .. n -> Candidates] : CreateCandidates(c)
    \/ \E c \in Contents, s \in Scopes : CreateMemory(c, s)
    \/ \E m \in DOMAIN memories, c \in Contents, s \in Scopes,
          to \in {"candidate", "active", "outdated", "archived"} : UpdateMemory(m, c, s, to)
    \/ \E m \in DOMAIN memories : DeleteMemory(m)
    \/ \E c \in Contents : Retrieve(c, Scopes) \/ Retrieve(c, {"workspace"})

MemSpec == MemInit /\ [][MemNext]_memVars

-----------------------------------------------------------------------------
SugTypeOK ==
    /\ \A k \in DOMAIN suggestions :
          /\ suggestions[k].identity \in Identities
          /\ suggestions[k].severity \in Severities
          /\ suggestions[k].status \in ActiveStatus \cup Decided
    /\ reviews \in 0 .. MaxReviews

\* What the user decided stays decided: a review or a later request neither
\* reopens a rejected, resolved or invalid suggestion nor proposes it again as a
\* new row (an identity never gets a second row), and a review leaves an
\* accepted or deferred one to the user.
DecisionsStand ==
    /\ \A i \in Identities : Of(suggestions, i) # {} =>
          /\ Cardinality(Of(suggestions', i)) = Cardinality(Of(suggestions, i))
          /\ OpenOf(suggestions, i) = {} => OpenOf(suggestions', i) = {}
    /\ reviews' # reviews =>
          \A i \in Identities, s \in {"accepted", "deferred"} :
             Cardinality({k \in Of(suggestions', i) : suggestions'[k].status = s})
             = Cardinality({k \in Of(suggestions, i) : suggestions[k].status = s})

MemTypeOK ==
    /\ \A m \in DOMAIN memories : memories[m] \in MemoryRows
    /\ usedMemories \subseteq DOMAIN memories

\* The agent is only given what the user approved: a memory in use has been
\* approved or restored, whatever edits and moves came between.
UsedWasApproved ==
    \A m \in usedMemories : memories[m].approved

\* A turn never proposes what waits for a decision or is already in use.
ProposalsAreNew ==
    \A m \in DOMAIN memories' \ DOMAIN memories :
       memories'[m].origin = "agent" =>
          \A j \in 1 .. m - 1 :
             ~ (/\ memories'[j].content = memories'[m].content
                /\ memories'[j].scope = memories'[m].scope
                /\ memories'[j].status \in {"candidate", "active"})

=============================================================================
