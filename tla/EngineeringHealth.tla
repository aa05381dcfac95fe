--------------------------- MODULE EngineeringHealth ---------------------------
(***************************************************************************)
(* The findings derived from the Project Index and the validations of one  *)
(* workspace: signals, health snapshots with their trends, and insights.   *)
(*                                                                         *)
(* electron/engineering/*.ts, over EngineeringIntelligenceRepository.ts.   *)
(* An evaluation is synchronous, from its reads to its last write, and     *)
(* runs in the callback of what changed: it is part of that action.        *)
(***************************************************************************)
EXTENDS Naturals, Sequences, FiniteSets

CONSTANTS
    Requests,    \* what can be validated: [kind, command], commands being distinct
    IndexRows,   \* what the rows of the index may show: [failed, imports]
    RunsRead,    \* the newest validations an evaluation reads (100)
    ObservationsKept, \* the newest observations that make findings (20)
    MaxRuns,     \* bound: validation runs
    MaxIndexRuns \* bound: runs of the Project Index

VARIABLES
    valRuns,    \* validation rows, the latest last: [request, status, validity]
    index,      \* the latest index run and what its rows show
    signals,    \* signal rows by fingerprint
    insights,   \* insight rows: [about, related, status]
    snapshot    \* the latest health snapshot

engVars == <<valRuns, index, signals, insights, snapshot>>

Kinds == {r.kind : r \in Requests}

\* What a signal row and an insight row may hold; one row for a fingerprint, and
\* one insight for what it is about and the signals it relates.
SignalRows == [status : {"active", "resolved"}, severity : {"info", "low", "medium"},
               run : 0 .. MaxRuns]
Correlations == {"co-occurrence", "several-failures"}

\* Signal identities: severity, evidence, command and exit code are not part of one.
FailedFiles == <<"architecture", "failed-files">>
Unresolved == <<"architecture", "unresolved-imports">>
FailureOf(kind) == <<"testing", kind>>
EnvironmentOf(kind) == <<"developer-experience", kind>>
Fingerprints == {FailedFiles, Unresolved}
                  \cup {FailureOf(k) : k \in Kinds} \cup {EnvironmentOf(k) : k \in Kinds}

NoIndex == [status |-> "none", failed |-> FALSE, imports |-> "none", runs |-> 0]

InsightRows == [about : Correlations, related : SUBSET Fingerprints,
                status : {"active", "resolved"}]

Severity(imports) == IF imports = "many" THEN "medium" ELSE "low"

-----------------------------------------------------------------------------
(* What an evaluation observes *)

Recent(runs) == {n \in DOMAIN runs : n + RunsRead > Len(runs)}

\* One observation per equivalent request: its newest run.
Latest(runs) ==
    {n \in Recent(runs) : \A m \in n + 1 .. Len(runs) : runs[m].request # runs[n].request}

Concrete(run) == run.status \in {"passed", "failed"}

Foremost(set) == {n \in set : Cardinality({m \in set : m > n}) < ObservationsKept}

WithStatus(runs, status) == {n \in Latest(runs) : runs[n].status = status}
Fresh(runs, set) == {n \in set : runs[n].validity # "stale"}

\* What is not stale and shows a problem: stale failures are left out before the
\* foremost are taken, stale environments after.  Requests of one kind share a
\* signal; it keeps the evidence of the oldest of them (deduplicateSignals).
Shown(runs, status) ==
    IF status = "failed" THEN Foremost(Fresh(runs, WithStatus(runs, status)))
    ELSE Fresh(runs, Foremost(WithStatus(runs, status)))
Showing(runs, status, kind) == {n \in Shown(runs, status) : runs[n].request.kind = kind}

Oldest(set) == CHOOSE n \in set : \A m \in set : n <= m

\* The signals of the evaluation: fingerprint -> severity and evidence.
Observed(runs, ix) ==
    LET architecture ==
            IF ix.status = "none" THEN {}
            ELSE (IF ix.failed THEN {FailedFiles} ELSE {})
                   \cup (IF ix.imports # "none" THEN {Unresolved} ELSE {})
        failing == {k \in Kinds : Showing(runs, "failed", k) # {}}
        blocked == {k \in Kinds : Showing(runs, "environment", k) # {}}
        found == architecture \cup {FailureOf(k) : k \in failing}
                   \cup {EnvironmentOf(k) : k \in blocked}
    IN  [f \in found |->
            CASE f = FailedFiles -> [severity |-> "medium", run |-> 0]
              [] f = Unresolved -> [severity |-> Severity(ix.imports), run |-> 0]
              [] f[1] = "testing" ->
                    [severity |-> "medium", run |-> Oldest(Showing(runs, "failed", f[2]))]
              [] OTHER ->
                    [severity |-> "info", run |-> Oldest(Showing(runs, "environment", f[2]))]]

Assessment(runs, ix) ==
    LET latest == Latest(runs)
        incomplete == \E n \in latest : \/ ~Concrete(runs[n])
                                        \/ runs[n].validity \in {"stale", "unknown"}
    IN  [architecture |-> IF ix.status = "none" THEN "not-assessed"
                          ELSE IF ix.status = "completed" THEN "assessed" ELSE "partial",
         testing |-> IF latest = {} THEN "not-assessed"
                     ELSE IF incomplete THEN "partial" ELSE "assessed",
         experience |-> IF \E n \in latest : runs[n].status = "environment"
                        THEN "partial" ELSE "not-assessed"]

\* A validation finding ends when the request its evidence names was observed
\* again, concretely and on a workspace that has not changed since.  One whose
\* run is no longer read is passed over.
ResolvedByRuns(runs, observed) ==
    {f \in DOMAIN signals :
        /\ signals[f].status = "active"
        /\ f[1] # "architecture"
        /\ signals[f].run \in Recent(runs)
        /\ \E n \in Latest(runs) :
              /\ runs[n].request = runs[signals[f].run].request
              /\ Concrete(runs[n])
              /\ ~(n = signals[f].run /\ f \in DOMAIN observed)
              /\ runs[n].validity = "current"}

\* Architecture findings end when a completed index no longer shows them.
ResolvedByIndex(assessed) ==
    {f \in DOMAIN signals : f[1] = "architecture" /\ assessed.architecture = "assessed"}

\* A signal seen again takes the new evidence and severity, and is active again.
Upserted(seen) == [status |-> "active", severity |-> seen.severity, run |-> seen.run]

SavedSignals(observed, resolved) ==
    [f \in DOMAIN signals \cup DOMAIN observed |->
        IF f \in DOMAIN observed THEN Upserted(observed[f])
        ELSE IF f \in resolved THEN [signals[f] EXCEPT !.status = "resolved"]
        ELSE signals[f]]

-----------------------------------------------------------------------------
(* Snapshots and trends *)

NoSnapshot == [sources |-> <<>>, assessed |-> Assessment(<<>>, NoIndex), states |-> {}]

Snapshot(runs, ix, observed, assessed) ==
    [sources |-> <<Len(runs), ix.runs>>, assessed |-> assessed,
     states |-> {<<f, observed[f].severity>> : f \in DOMAIN observed}]

\* What is reported as changed between two snapshots.
SeverityRank(severity) ==
    CASE severity = "info" -> 0 [] severity = "low" -> 1 [] OTHER -> 2

Compare(before, after) ==
    LET was == {s[1] : s \in before.states}
        is == {s[1] : s \in after.states}
        moved == {p \in before.states \X after.states :
                     p[1][1] = p[2][1] /\ p[1][2] # p[2][2]}
    IN  IF before = NoSnapshot THEN {}
        ELSE {<<f, "new">> : f \in is \ was} \cup {<<f, "resolved">> : f \in was \ is}
          \cup {<<p[1][1], IF SeverityRank(p[2][2]) < SeverityRank(p[1][2])
                           THEN "improved" ELSE "worsened">> : p \in moved}

-----------------------------------------------------------------------------
(* Insights *)

\* Observable co-occurrences of the signals of this evaluation.
Correlate(observed) ==
    LET architecture == {f \in DOMAIN observed : f[1] = "architecture"}
        testing == {f \in DOMAIN observed : f[1] = "testing"}
    IN  (IF architecture # {} /\ testing # {}
         THEN {[about |-> "co-occurrence", related |-> architecture \cup testing]} ELSE {})
        \cup
        (IF Cardinality(testing) >= 2
         THEN {[about |-> "several-failures", related |-> testing]} ELSE {})

\* An insight that is no longer generated ends when each signal it relates has
\* ended or is part of this evaluation; a finding nobody re-observed keeps it.
Explained(insight, saved, observed) ==
    \A f \in insight.related : saved[f].status = "resolved" \/ f \in DOMAIN observed

SavedInsight(correlation) ==
    [about |-> correlation.about, related |-> correlation.related, status |-> "active"]

SavedInsights(saved, observed) ==
    LET generated == Correlate(observed)
        Key(i) == [about |-> i.about, related |-> i.related]
    IN  {SavedInsight(g) : g \in generated}
        \cup {IF Explained(i, saved, observed) THEN [i EXCEPT !.status = "resolved"] ELSE i :
                i \in {j \in insights : Key(j) \notin generated}}

\* A snapshot of a state already recorded is not stored again (here it can only be
\* the latest one).
StoreSnapshot(after) == snapshot' = IF after = snapshot THEN snapshot ELSE after

Evaluate(runs, ix) ==
    LET observed == Observed(runs, ix)
        assessed == Assessment(runs, ix)
        resolved == ResolvedByRuns(runs, observed) \cup ResolvedByIndex(assessed)
    IN  /\ signals' = SavedSignals(observed, resolved)
        /\ insights' = SavedInsights(SavedSignals(observed, resolved), observed)
        /\ StoreSnapshot(Snapshot(runs, ix, observed, assessed))

-----------------------------------------------------------------------------

EngInit ==
    /\ valRuns = <<>>
    /\ index = NoIndex
    /\ signals = <<>>
    /\ insights = {}
    /\ snapshot = NoSnapshot

\* A validation ends; its evidence is unknown when the workspace could not be read.
ValidationEnded(request, status, validity) ==
    /\ Len(valRuns) < MaxRuns
    /\ valRuns' = Append(valRuns, [request |-> request, status |-> status, validity |-> validity])
    /\ Evaluate(valRuns', index)
    /\ UNCHANGED index

\* The index run that is under way replaces rows; nothing is evaluated yet.
IndexStarted(rows) ==
    /\ index.status # "running"
    /\ index.runs < MaxIndexRuns
    /\ index' = [status |-> "running", failed |-> rows.failed, imports |-> rows.imports,
                 runs |-> index.runs + 1]
    /\ UNCHANGED <<valRuns, signals, insights, snapshot>>

IndexEnded(status, rows) ==
    /\ index.status = "running"
    /\ index' = [index EXCEPT !.status = status, !.failed = rows.failed,
                             !.imports = rows.imports]
    /\ Evaluate(valRuns, index')
    /\ UNCHANGED valRuns

\* A file changes: every manifest recorded so far is stale.
Changed ==
    /\ \E n \in DOMAIN valRuns : valRuns[n].validity = "current"
    /\ valRuns' = [n \in DOMAIN valRuns |->
            IF valRuns[n].validity = "current" THEN [valRuns[n] EXCEPT !.validity = "stale"]
            ELSE valRuns[n]]
    /\ UNCHANGED <<index, signals, insights, snapshot>>

\* The report is opened, or the semantic index ends.
ReportOpened ==
    /\ Evaluate(valRuns, index)
    /\ UNCHANGED <<valRuns, index>>

EngNext ==
    \/ \E r \in Requests, s \in {"passed", "failed", "environment"}, v \in {"current", "unknown"} :
          ValidationEnded(r, s, v)
    \/ \E rows \in IndexRows : IndexStarted(rows)
    \/ \E s \in {"completed", "partial"}, rows \in IndexRows : IndexEnded(s, rows)
    \/ Changed
    \/ ReportOpened

EngSpec == EngInit /\ [][EngNext]_engVars

-----------------------------------------------------------------------------

EngTypeOK ==
    /\ DOMAIN signals \subseteq Fingerprints
    /\ \A f \in DOMAIN signals : signals[f] \in SignalRows
    /\ insights \subseteq InsightRows
    /\ \A i \in insights : i.related \subseteq DOMAIN signals
    /\ \A s \in snapshot.states : s[1] \in Fingerprints

\* More requests fail than are kept: then a failing one may have no finding.
TooManyFail(runs) == Cardinality(WithStatus(runs, "failed")) > ObservationsKept

\* The findings are what the evidence shows: a request whose latest run failed on
\* the workspace as it is has its finding, unless too many fail; a finding whose
\* evidence request has since passed on the workspace as it is has ended, unless
\* that evidence is no longer read; and with a completed index the structural
\* findings are exactly what its rows show.
FindingsMatchEvidence ==
    /\ ~TooManyFail(valRuns) =>
          \A n \in Fresh(valRuns, WithStatus(valRuns, "failed")) :
             signals[FailureOf(valRuns[n].request.kind)].status = "active"
    /\ \A f \in DOMAIN signals :
          (/\ f[1] = "testing" /\ signals[f].status = "active"
           /\ signals[f].run \in Recent(valRuns)) =>
             \A n \in Latest(valRuns) :
                ~ (/\ valRuns[n].request = valRuns[signals[f].run].request
                   /\ valRuns[n].status = "passed"
                   /\ valRuns[n].validity = "current")
    /\ index.status = "completed" =>
          (index.failed <=> /\ FailedFiles \in DOMAIN signals
                            /\ signals[FailedFiles].status = "active")

\* A finding is never resolved by a change of the workspace alone, nor by a run
\* whose evidence is stale or unknown: the run that ends it is the latest of a
\* request of its kind, and passed on the workspace as it is.  Only where too many
\* fail can a failing run end it.
FindingsEndByEvidence ==
    \A f \in DOMAIN signals :
       (/\ f[1] = "testing"
        /\ signals[f].status = "active"
        /\ signals'[f].status = "resolved") =>
          \E n \in Latest(valRuns') :
             /\ valRuns'[n].request.kind = f[2]
             /\ valRuns'[n].status = "passed" \/ TooManyFail(valRuns')
             /\ valRuns'[n].validity = "current"

\* The trends tell what changed in the store: a finding that starts is reported as
\* new, one that is resolved as resolved, and what is reported as resolved while
\* it is active in the store is a finding of an incomplete index, one whose
\* evidence is no longer read, or one whose request has no concrete run on the
\* workspace as it is.
TrendsTellChanges ==
    LET Active(table, f) == f \in DOMAIN table /\ table[f].status = "active"
        trends == Compare(snapshot, snapshot')
    IN  snapshot # NoSnapshot /\ snapshot' # snapshot =>
          \A f \in DOMAIN signals' :
             /\ ~Active(signals, f) /\ Active(signals', f) => <<f, "new">> \in trends
             /\ (/\ \E s \in snapshot.states : s[1] = f
                 /\ ~Active(signals', f)) => <<f, "resolved">> \in trends
             /\ <<f, "resolved">> \in trends /\ Active(signals', f) =>
                   \/ f[1] = "architecture" /\ index'.status # "completed"
                   \/ f[1] # "architecture" /\ signals'[f].run \notin Recent(valRuns')
                   \/ /\ f[1] # "architecture"
                      /\ \A n \in Latest(valRuns') :
                            valRuns'[n].request = valRuns'[signals'[f].run].request
                            => ~Concrete(valRuns'[n]) \/ valRuns'[n].validity # "current"

\* An insight outlives none of the findings it explains.
InsightsHaveFindings ==
    \A i \in insights :
       i.status = "active" => \E f \in i.related : signals[f].status = "active"

=============================================================================
