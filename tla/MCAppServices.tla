----------------------------- MODULE MCAppServices -----------------------------
(* The services and screens that do not change each other's state, one of them in *)
(* each behaviour: `part` says which, and the others stay in an initial state.       *)
(* One run checks them all, each on the small instance given to its INSTANCE.      *)
EXTENDS Naturals, Sequences, FiniteSets, TLC
LOCAL INSTANCE SequencesExt

VARIABLES
    part,   \* the component of this behaviour
    \* ValidationPipeline
    stackEvidence, manifest, active, valStep, aborted, pipelineDisposed, trusted, valRows,
    proc, runner,
    \* Updates
    updState, checkCall, downloadCall, availableUpdate, installRequested, updDisposed,
    replies, toRenderer, store, bridge, hydrating, consumers,
    \* DatabaseFiles
    db, quarantine, temporary, copies, boot, faults, hadData,
    \* Providers
    provRows, vault, adapters, models, catalog, operation, refreshes, drawn, untidy,
    \* ProcessLife
    win, ipc, draining, opened, dbOpen, release, waits, late, normal, fatal, startup, exited,
    \* WorkspaceEvidence
    recorded, references, staleRows, verifying, answered,
    \* ChatCompletions
    request, phase, requestAborted, timedOut, received, progress, settled, sent,
    \* TurnRecords: the suggestions, the memories
    suggestions, reviews,
    memories, usedMemories,
    \* EngineeringHealth
    valRuns, index, signals, insights, snapshot,
    \* CheckpointCapture
    disk, writes, checkpoints, bytes, work, changes, was,
    \* ChangeHunks
    texts, fileStatus, hunk, editing, listing,
    \* WorkspaceTexts
    file, row, clock, textScreen, saves, gets, queue, lateTexts, appends, order,
    acknowledged, overtaken,
    \* Documents: Docs Mode, the export
    document, edits, updates,
    export, target,
    \* RunScreen
    main, wire, sends, cancels, stored, screen, buffer, turn, runs, finishing, pages,
    \* IndexPanel
    indexRun, results, fromMain, panel, refreshing, paging, switches,
    \* and its searches
    visit, typed, latest, spinning, foundBy, told, asking, overtook,
    \* ConversationScreen
    history, chat, asked, replied, creating, opens, outdated,
    \* CredentialVault
    credentials, temporaries, calls, called, vaultFaults, promised,
    \* SemanticSearch
    onDisk, indexRows, units, search, validity, readAs, reindexed,
    \* PagedLists
    artifacts, list, opening, requests, answers, due, done, raced,
    \* WorkspaceSession
    present, moves, workspaces, belongs, removed, session, flows, watchQueue, starting, watching,
    \* StackDetection
    projectFiles, found, detection, stackChanges,
    \* WorkspaceTools
    text, edit, toolEdits, lost, hits, walk,
    \* ReviewPanel
    rows, hunkRows, inReview, asks, working, toWindow, reviewed, review, used, behind,
    \* ConnectionPage
    connections, available, bindings, toMain, waiting, toPage, page, wizard, spent, astray

MCRequests == {[kind |-> "test", command |-> 1], [kind |-> "test", command |-> 2],
               [kind |-> "lint", command |-> 3]}
MCIndexRows == {[failed |-> TRUE, imports |-> "none"], [failed |-> FALSE, imports |-> "many"]}
MCHistory == "a" :> 3 @@ "b" :> -1
MCTexts == BoundedSeq({"x", "n", "r", "#", " "}, 4)
MCRows == "a" :> <<2, 1>> @@ "b" :> <<>>
MCChats == "a" :> "f1" @@ "b" :> "f1"
MCFile(dir, name) == [dir |-> dir, name |-> name, exact |-> TRUE]
MCCandidates == {MCFile("", "package.json"), MCFile("lib", "package.json"), MCFile("", "cargo.toml"),
                 MCFile("", "requirements.txt"), MCFile("lib", "go.mod"), MCFile("", "go.work"),
                 MCFile("src", "main.ts"), MCFile("", "vite.config.js"),
                 [MCFile("", "cargo.toml") EXCEPT !.exact = FALSE]}
MCTree == "root" :> <<"one", "sub", "gen", "two">> @@ "sub" :> <<"three", "key">> @@ "gen" :> <<"four">>
MCReviewed == "e" :> {"x"}
MCReviewedFiles == "e" :> {"x", "y"}
MCReviewedTwo == "e" :> {"x"} @@ "f" :> {}
MCExcerpts == {[blanks |-> 0, letters |-> 0, copy |-> 1], [blanks |-> 0, letters |-> 2, copy |-> 1],
               [blanks |-> 0, letters |-> 3, copy |-> 1], [blanks |-> 0, letters |-> 3, copy |-> 2],
               [blanks |-> 3, letters |-> 2, copy |-> 1]}

Validation == INSTANCE ValidationPipeline WITH
    ScriptNames <- [test |-> <<"test">>], Defaults <- {"test"},
    MaxRuns <- 1, MaxEdits <- 1
Updating == INSTANCE Updates WITH
    MaxMessages <- 1, MaxConsumers <- 2
Database == INSTANCE DatabaseFiles WITH
    MaxFaults <- 3
Providing == INSTANCE Providers WITH
    ProviderIds <- {"p"}, MaxAdapters <- 2, MaxRefs <- 2, MaxListings <- 2
Life == INSTANCE ProcessLife WITH
    MaxWindows <- 3
Evidence == INSTANCE WorkspaceEvidence WITH
    WalkLimit <- 3, ReferencesKept <- 2, MaxSources <- 3
EvidenceOfFew == INSTANCE WorkspaceEvidence WITH
    WalkLimit <- 2, ReferencesKept <- 1, MaxSources <- 3
Chat == INSTANCE ChatCompletions WITH
    MaxPieces <- 5, Configured <- {"m"},
    WireEvents <- {"delta", "call0", "args0", "anonymous", "tool_calls", "stop", "done", "bad"},
    aborted <- requestAborted, buffer <- received
Records == INSTANCE TurnRecords WITH
    Identities <- {"i1", "i2"}, MaxReviews <- 1,
    Contents <- {"c1", "c2"}, MaxMemories <- 2
Health == INSTANCE EngineeringHealth WITH
    Requests <- MCRequests, IndexRows <- MCIndexRows, RunsRead <- 2, ObservationsKept <- 2,
    MaxRuns <- 2, MaxIndexRuns <- 1
HealthOfFew == INSTANCE EngineeringHealth WITH
    Requests <- MCRequests, IndexRows <- {}, RunsRead <- 2, ObservationsKept <- 1,
    MaxRuns <- 3, MaxIndexRuns <- 0
Capture == INSTANCE CheckpointCapture WITH
    Paths <- {1}, MaxWrites <- 3
Hunks == INSTANCE ChangeHunks WITH
    Lines <- {"a", "b"}, MaxLines <- 1, MaxCompared <- 3, Editors <- {1, 2},
    Readers <- {1}
WorkspaceText == INSTANCE WorkspaceTexts WITH
    Decisions <- {"d1", "d2"}, MaxSaves <- 2, MaxGets <- 0,
    late <- lateTexts
MemoryText == INSTANCE WorkspaceTexts WITH
    Decisions <- {"d1"}, MaxSaves <- 2, MaxGets <- 1,
    late <- lateTexts
Document == INSTANCE Documents WITH
    Updates <- {"u1", "u2"}, MaxDocumentEdits <- 2
OneRun == INSTANCE RunScreen WITH
    Talks <- {"a", "b"}, MaxSubmits <- 1, MaxDeltas <- 2, MaxPages <- 1, MaxWire <- 1
TwoRuns == INSTANCE RunScreen WITH
    Talks <- {"a"}, MaxSubmits <- 2, MaxDeltas <- 1, MaxPages <- 0, MaxWire <- 1
Panel == INSTANCE IndexPanel WITH
    Workspaces <- {"a", "b"}, Unauthorized <- {"b"}, PageSize <- 1, FirstRuns <- 1,
    MaxPanelRuns <- 2, MaxIndexRuns <- 1, MaxSwitches <- 1, MaxWire <- 1,
    MaxSearches <- 0, MaxSessions <- 0, MaxAsked <- 0,
    found <- foundBy, asked <- asking, overtaken <- overtook
Searches == INSTANCE IndexPanel WITH
    Workspaces <- {"a", "b"}, Unauthorized <- {"b"}, PageSize <- 1, FirstRuns <- 0,
    MaxPanelRuns <- 0, MaxIndexRuns <- 0, MaxSwitches <- 0, MaxWire <- 0,
    MaxSearches <- 2, MaxSessions <- 2, MaxAsked <- 2,
    found <- foundBy, asked <- asking, overtaken <- overtook
Conversation == INSTANCE ConversationScreen WITH
    FirstHistory <- MCHistory, Limit <- 1, MaxShown <- 3, MaxHistory <- 4, MaxOpens <- 2
Vault == INSTANCE CredentialVault WITH
    References <- {"r1", "r2"}, Secrets <- {"s1", "s2"}, MaxCalls <- 2, MaxVaultFaults <- 1
Searching == INSTANCE SemanticSearch WITH
    Texts <- MCTexts, MaxCharacters <- 2, Files <- {"f"}, Places <- {1, 2},
    SearchLimit <- 2, MaxVersions <- 2,
    Excerpts <- MCExcerpts, Relevances <- {1, 2}, Budgets <- {1, 2, 3}, CharactersPerToken <- 2,
    MaxGathered <- 3
Lists == INSTANCE PagedLists WITH
    FirstRows <- MCRows, PageLimit <- 1, MaxAdds <- 1, MaxDeletes <- 1, MaxOpens <- 1,
    MaxAsked <- 1
ReopenedLists == INSTANCE PagedLists WITH
    FirstRows <- MCRows, PageLimit <- 1, MaxAdds <- 1, MaxDeletes <- 0, MaxOpens <- 2,
    MaxAsked <- 1
Session == INSTANCE WorkspaceSession WITH
    Folders <- {"f1", "f2"}, Chats <- MCChats, MaxFlows <- 2, MaxMoves <- 1
Stack == INSTANCE StackDetection WITH
    Candidates <- MCCandidates, MaxFiles <- 2, MaxChanges <- 1,
    onDisk <- projectFiles, changes <- stackChanges
Tools == INSTANCE WorkspaceTools WITH
    Characters <- {"a", "b"}, MaxText <- 2, MaxPiece <- 2, PageCharacters <- 6,
    PageLines <- 2, Tree <- MCTree, Root <- "root", Hidden <- {"gen", "key"}, Unsearchable <- {"three"},
    SearchFiles <- 4, SearchMatches <- 4, MaxEdits <- 1,
    edits <- toolEdits
OneReview == INSTANCE ReviewPanel WITH
    ChangesOf <- MCReviewed, MaxAsked <- 3, MaxVisits <- 1, MaxWire <- 2, MaxFaults <- 1,
    recorded <- inReview, visit <- reviewed
TwoReviews == INSTANCE ReviewPanel WITH
    ChangesOf <- MCReviewedTwo, MaxAsked <- 1, MaxVisits <- 2, MaxWire <- 2, MaxFaults <- 1,
    recorded <- inReview, visit <- reviewed
Reverts == INSTANCE ReviewPanel WITH
    ChangesOf <- MCReviewedFiles, MaxAsked <- 2, MaxVisits <- 1, MaxWire <- 2, MaxFaults <- 0,
    recorded <- inReview, visit <- reviewed
Connecting == INSTANCE ConnectionPage WITH
    Workspaces <- {"a", "b"}, Providers <- {"p"}, FirstProvider <- "p", MaxSaves <- 1,
    MaxSwitches <- 1, MaxOpens <- 1, MaxWire <- 2, MaxFaults <- 0,
    stored <- bindings, requests <- toMain
Reconnecting == INSTANCE ConnectionPage WITH
    Workspaces <- {"a"}, Providers <- {"p"}, FirstProvider <- "p", MaxSaves <- 0,
    MaxSwitches <- 0, MaxOpens <- 2, MaxWire <- 2, MaxFaults <- 0,
    stored <- bindings, requests <- toMain
Failing == INSTANCE ConnectionPage WITH
    Workspaces <- {"a"}, Providers <- {"p", "q"}, FirstProvider <- "p", MaxSaves <- 1,
    MaxSwitches <- 0, MaxOpens <- 1, MaxWire <- 1, MaxFaults <- 1,
    stored <- bindings, requests <- toMain

valVars == <<stackEvidence, manifest, active, valStep, aborted, pipelineDisposed, trusted,
    valRows, proc, runner>>
updVars == <<updState, checkCall, downloadCall, availableUpdate, installRequested,
    updDisposed, replies, toRenderer, store, bridge, hydrating, consumers>>
dbVars == <<db, quarantine, temporary, copies, boot, faults, hadData>>
provVars == <<provRows, vault, adapters, models, catalog, operation, refreshes, drawn,
    untidy>>
lifeVars == <<win, ipc, draining, opened, dbOpen, release, waits, late, normal, fatal,
    startup, exited>>
evVars == <<recorded, references, staleRows, verifying, answered>>
chatVars == <<request, phase, requestAborted, timedOut, received, progress, settled, sent>>
sugVars == <<suggestions, reviews>>
memVars == <<memories, usedMemories>>
engVars == <<valRuns, index, signals, insights, snapshot>>
capVars == <<disk, writes, checkpoints, bytes, work, changes, was>>
hunkVars == <<texts, fileStatus, hunk, editing, listing>>
textVars == <<file, row, clock, textScreen, saves, gets, queue, lateTexts, appends, order,
    acknowledged, overtaken>>
docVars == <<document, edits, updates>>
expVars == <<export, target>>
runVars == <<main, wire, sends, cancels, stored, screen, buffer, turn, runs, finishing,
    pages>>
panelVars == <<indexRun, results, fromMain, panel, refreshing, paging, switches>>
searchesVars == <<visit, typed, latest, spinning, foundBy, told, asking, overtook>>
chatScreenVars == <<history, chat, asked, replied, creating, opens, outdated>>
vaultVars == <<credentials, temporaries, calls, called, vaultFaults, promised>>
searchVars == <<onDisk, indexRows, units, search, validity, readAs, reindexed>>
listVars == <<artifacts, list, opening, requests, answers, due, done, raced>>
sessionVars == <<present, moves, workspaces, belongs, removed, session, flows, watchQueue, starting,
    watching>>
stackVars == <<projectFiles, found, detection, stackChanges>>
toolVars == <<text, edit, toolEdits, lost, hits, walk>>
reviewVars == <<rows, hunkRows, inReview, asks, working, toWindow, reviewed, review, used,
    behind>>
connVars == <<connections, available, bindings, toMain, waiting, toPage, page, wizard,
    spent, astray>>
vars == <<part,
    valVars, updVars, dbVars, provVars, lifeVars, evVars, chatVars, sugVars, memVars,
    engVars, capVars, hunkVars, textVars, docVars, expVars, runVars, panelVars,
    searchesVars, chatScreenVars, vaultVars, searchVars, listVars, sessionVars, stackVars, toolVars,
    reviewVars, connVars>>

-----------------------------------------------------------------------------
(* The components that are not the behaviour's own stay in an initial state. *)
Own(p, restriction) == part # p => restriction

Init ==
    /\ part \in {"validation", "updates", "database", "providers", "life", "evidence", "evidenceOfFew",
                 "chat", "suggestions", "memories", "health", "healthOfFew", "capture", "hunks", "texts",
                 "memory", "documents", "export", "run", "runs", "panel", "searches", "conversation",
                 "vault", "search", "lists", "reopened", "session", "stack", "tools",
                 "review", "reviews", "reverts", "connect", "reconnect", "failing", "algorithms"}
    /\ Validation!ValInit
    /\ Updating!UpdInit
    /\ Database!DbInit
    /\ Providing!ProvInit
    /\ Life!LifeInit
    /\ Evidence!EvInit
    /\ Chat!ChatInit
    /\ Records!SugInit /\ Own("suggestions", suggestions = <<>>)
    /\ Records!MemInit
    /\ Health!EngInit
    /\ Capture!CapInit /\ Own("capture", \A p \in DOMAIN disk : disk[p].state = Capture!Absent)
    /\ Hunks!HunkInit /\ Own("hunks", texts = [before |-> <<>>, after |-> <<"a">>])
    /\ IF part = "memory" THEN MemoryText!TextInit
       ELSE WorkspaceText!TextInit
    /\ Document!DocInit /\ Own("documents", document = Document!NoDocument)
    /\ Document!ExpInit
    /\ IF part = "runs" THEN TwoRuns!RunInit
       ELSE OneRun!RunInit /\ Own("run", screen.talk = "a")
    /\ Panel!PanelInit /\ Own("panel", panel = Panel!Reset("a"))
    /\ Searches!SearchesInit /\ Own("searches", visit.root = "a")
    /\ Conversation!ChatScreenInit
    /\ Vault!VaultInit /\ Own("vault", credentials = Vault!Missing)
    /\ Searching!SearchInit /\ Own("search", units = Searching!UnitsOf({"f"}, {1}, 1))
    /\ IF part = "reopened" THEN ReopenedLists!ListInit
       ELSE Lists!ListInit
    /\ Session!SessionInit
    /\ Own("session", present = {} /\ workspaces = ("f1" :> "restored" @@ "f2" :> "unknown"))
    /\ Stack!StackInit /\ Own("stack", found = <<>>)
    /\ Tools!ToolsInit /\ Own("tools", text = <<>> /\ walk = Tools!NoWalk)
    /\ IF part = "reverts" THEN Reverts!ReviewInit ELSE TwoReviews!ReviewInit
    /\ IF part \in {"reconnect", "failing"}
       THEN /\ Reconnecting!ConnInit
            /\ part = "failing" => page.workspace = "a" /\ bindings["a"] # Failing!NoBindings
       ELSE /\ Connecting!ConnInit
            /\ Own("connect", page.workspace = "a" /\ bindings["a"] = Connecting!NoBindings)

(* The step is one of component p: nothing else changes. *)
Alone(p) ==
    /\ part = p /\ part' = part
    /\ IF p = "validation" THEN TRUE ELSE UNCHANGED valVars
    /\ IF p = "updates" THEN TRUE ELSE UNCHANGED updVars
    /\ IF p = "database" THEN TRUE ELSE UNCHANGED dbVars
    /\ IF p = "providers" THEN TRUE ELSE UNCHANGED provVars
    /\ IF p = "life" THEN TRUE ELSE UNCHANGED lifeVars
    /\ IF p \in {"evidence", "evidenceOfFew"} THEN TRUE ELSE UNCHANGED evVars
    /\ IF p = "chat" THEN TRUE ELSE UNCHANGED chatVars
    /\ IF p = "suggestions" THEN TRUE ELSE UNCHANGED sugVars
    /\ IF p = "memories" THEN TRUE ELSE UNCHANGED memVars
    /\ IF p \in {"health", "healthOfFew"} THEN TRUE ELSE UNCHANGED engVars
    /\ IF p = "capture" THEN TRUE ELSE UNCHANGED capVars
    /\ IF p = "hunks" THEN TRUE ELSE UNCHANGED hunkVars
    /\ IF p \in {"texts", "memory"} THEN TRUE ELSE UNCHANGED textVars
    /\ IF p = "documents" THEN TRUE ELSE UNCHANGED docVars
    /\ IF p = "export" THEN TRUE ELSE UNCHANGED expVars
    /\ IF p \in {"run", "runs"} THEN TRUE ELSE UNCHANGED runVars
    /\ IF p = "panel" THEN TRUE ELSE UNCHANGED panelVars
    /\ IF p = "searches" THEN TRUE ELSE UNCHANGED searchesVars
    /\ IF p = "conversation" THEN TRUE ELSE UNCHANGED chatScreenVars
    /\ IF p = "vault" THEN TRUE ELSE UNCHANGED vaultVars
    /\ IF p = "search" THEN TRUE ELSE UNCHANGED searchVars
    /\ IF p \in {"lists", "reopened"} THEN TRUE ELSE UNCHANGED listVars
    /\ IF p = "session" THEN TRUE ELSE UNCHANGED sessionVars
    /\ IF p = "stack" THEN TRUE ELSE UNCHANGED stackVars
    /\ IF p = "tools" THEN TRUE ELSE UNCHANGED toolVars
    /\ IF p \in {"review", "reviews", "reverts"} THEN TRUE ELSE UNCHANGED reviewVars
    /\ IF p \in {"connect", "reconnect", "failing"} THEN TRUE ELSE UNCHANGED connVars

ValidationPipelineStep == Alone("validation") /\ Validation!ValNext
UpdatesStep == Alone("updates") /\ Updating!UpdNext
DatabaseFilesStep == Alone("database") /\ Database!DbNext
ProvidersStep == Alone("providers") /\ Providing!ProvNext
ProcessLifeStep == Alone("life") /\ Life!LifeNext
WorkspaceEvidenceStep == Alone("evidence") /\ Evidence!EvNext
WorkspaceEvidenceOfFewStep == Alone("evidenceOfFew") /\ EvidenceOfFew!EvNext
ChatCompletionsStep == Alone("chat") /\ Chat!ChatNext
SuggestionsStep == Alone("suggestions") /\ Records!SugNext
BrainMemoriesStep == Alone("memories") /\ Records!MemNext
EngineeringHealthStep == Alone("health") /\ Health!EngNext
EngineeringHealthOfFewStep == Alone("healthOfFew") /\ HealthOfFew!EngNext
CheckpointCaptureStep == Alone("capture") /\ Capture!CapNext
ChangeHunksStep == Alone("hunks") /\ Hunks!HunkNext
WorkspaceTextsStep == Alone("texts") /\ WorkspaceText!TextNext
WorkspaceTextsOneDecisionStep == Alone("memory") /\ MemoryText!TextNext
DocumentsStep == Alone("documents") /\ Document!DocNext
DocumentExportStep == Alone("export") /\ Document!ExpNext
RunScreenStep == Alone("run") /\ OneRun!RunNext
RunScreenTwiceStep == Alone("runs") /\ TwoRuns!RunNext
IndexPanelStep == Alone("panel") /\ Panel!PanelNext
PanelSearchesStep == Alone("searches") /\ Searches!SearchesNext
ConversationScreenStep == Alone("conversation") /\ Conversation!ChatScreenNext
CredentialVaultStep == Alone("vault") /\ Vault!VaultNext
SemanticSearchStep == Alone("search") /\ Searching!SearchNext
PagedListsStep == Alone("lists") /\ Lists!ListNext
PagedListsReopenedStep == Alone("reopened") /\ ReopenedLists!ListNext
WorkspaceSessionStep == Alone("session") /\ Session!SessionNext
StackDetectionStep == Alone("stack") /\ Stack!StackNext
WorkspaceToolsStep == Alone("tools") /\ Tools!ToolsNext
ReviewPanelStep == Alone("review") /\ OneReview!ReviewNext
ReviewPanelTwiceStep == Alone("reviews") /\ TwoReviews!ReviewNext
ReviewPanelRevertsStep == Alone("reverts") /\ Reverts!ReviewNext
ConnectionPageStep == Alone("connect") /\ Connecting!ConnNext
ConnectionPageReopenedStep == Alone("reconnect") /\ Reconnecting!ConnNext
ConnectionPageFailingStep == Alone("failing") /\ Failing!ConnNext

Next ==
    \/ ValidationPipelineStep \/ UpdatesStep \/ DatabaseFilesStep \/ ProvidersStep \/ ProcessLifeStep
    \/ WorkspaceEvidenceStep \/ WorkspaceEvidenceOfFewStep
    \/ ChatCompletionsStep \/ SuggestionsStep \/ BrainMemoriesStep
    \/ EngineeringHealthStep \/ EngineeringHealthOfFewStep
    \/ CheckpointCaptureStep \/ ChangeHunksStep \/ WorkspaceTextsStep
    \/ WorkspaceTextsOneDecisionStep \/ DocumentsStep \/ DocumentExportStep \/ RunScreenStep
    \/ RunScreenTwiceStep \/ IndexPanelStep \/ PanelSearchesStep \/ ConversationScreenStep
    \/ CredentialVaultStep
    \/ SemanticSearchStep \/ PagedListsStep \/ PagedListsReopenedStep \/ WorkspaceSessionStep
    \/ StackDetectionStep \/ WorkspaceToolsStep \/ ReviewPanelStep \/ ReviewPanelTwiceStep
    \/ ReviewPanelRevertsStep
    \/ ConnectionPageStep \/ ConnectionPageReopenedStep \/ ConnectionPageFailingStep

(* What the code does by itself once it has begun: timers, the answers of its own  *)
(* calls, queued events.  A behaviour has one component, so one condition states   *)
(* the fairness of them all.  The answers of the updater find the queue to the      *)
(* screen full now and then: they are sent when it is not.                       *)
ownVars ==
    CASE part = "validation" -> valVars [] part = "database" -> dbVars
      [] part = "providers" -> provVars [] part = "life" -> lifeVars
      [] part = "chat" -> chatVars [] part = "export" -> expVars
      [] part \in {"run", "runs"} -> runVars [] part = "updates" -> updVars
      [] OTHER -> part

Work ==
    /\ part' = part
    /\ \/ part = "validation" /\ Validation!ValWork
       \/ part = "database" /\ Database!DbWork
       \/ part = "providers" /\ Providing!ProvWork
       \/ part = "life" /\ Life!LifeTimers
       \/ part = "chat" /\ Chat!ChatWork
       \/ part = "export" /\ Document!ExpWork
       \/ part = "run" /\ OneRun!RunWork
       \/ part = "runs" /\ TwoRuns!RunWork
       \/ part = "updates" /\ Updating!Deliver

Fairness ==
    /\ WF_ownVars(Work)
    /\ SF_updVars(part = "updates" /\ Updating!CheckSettles)
    /\ SF_updVars(part = "updates" /\ (Updating!Downloaded \/ Updating!DownloadFails))

Spec == Init /\ [][Next]_vars /\ Fairness

-----------------------------------------------------------------------------
(* Every component holds what its code puts into it. *)
TypeOK ==
    /\ part = "validation" => Validation!ValTypeOK
    /\ part = "updates" => Updating!UpdTypeOK
    /\ part = "database" => Database!DbTypeOK
    /\ part = "providers" => Providing!ProvTypeOK
    /\ part = "life" => Life!LifeTypeOK
    /\ part = "evidence" => Evidence!EvTypeOK
    /\ part = "evidenceOfFew" => EvidenceOfFew!EvTypeOK
    /\ part = "chat" => Chat!ChatTypeOK
    /\ part = "suggestions" => Records!SugTypeOK
    /\ part = "memories" => Records!MemTypeOK
    /\ part = "health" => Health!EngTypeOK
    /\ part = "healthOfFew" => HealthOfFew!EngTypeOK
    /\ part = "capture" => Capture!CapTypeOK
    /\ part = "hunks" => Hunks!HunkTypeOK
    /\ part = "texts" => WorkspaceText!TextTypeOK
    /\ part = "memory" => MemoryText!TextTypeOK
    /\ part = "documents" => Document!DocTypeOK
    /\ part = "export" => Document!ExpTypeOK
    /\ part = "run" => OneRun!RunTypeOK
    /\ part = "runs" => TwoRuns!RunTypeOK
    /\ part = "panel" => Panel!PanelTypeOK
    /\ part = "searches" => Searches!SearchesTypeOK
    /\ part = "conversation" => Conversation!ChatScreenTypeOK
    /\ part = "vault" => Vault!VaultTypeOK
    /\ part = "search" => Searching!SearchTypeOK
    /\ part = "lists" => Lists!ListTypeOK
    /\ part = "reopened" => ReopenedLists!ListTypeOK
    /\ part = "session" => Session!SessionTypeOK
    /\ part = "stack" => Stack!StackTypeOK
    /\ part = "tools" => Tools!ToolsTypeOK
    /\ part = "review" => OneReview!ReviewTypeOK
    /\ part = "reviews" => TwoReviews!ReviewTypeOK
    /\ part = "reverts" => Reverts!ReviewTypeOK
    /\ part = "connect" => Connecting!ConnTypeOK
    /\ part = "reconnect" => Reconnecting!ConnTypeOK
    /\ part = "failing" => Failing!ConnTypeOK

(* What is shown or recorded of work, of evidence and of files is so: a status of   *)
(* work has work behind it and an end its cause, a screen that has nothing left to *)
(* receive shows what main holds, a finding has its evidence, stale evidence and   *)
(* unapproved memories are never passed on as current.                            *)
StatusTellsTheTruth ==
    /\ part = "validation" => /\ Validation!OpenRowsAreActive
                              /\ Validation!EndedGroupsAreGone
                              /\ Validation!CancelledIsNotPassed
    /\ part = "updates" => /\ Updating!BusyStatusHasCall
                           /\ Updating!StoreIsCurrent
    /\ part = "providers" => Providing!CatalogFollowsProviders
    /\ part = "evidence" => Evidence!StaleIsKept
    /\ part = "evidenceOfFew" => EvidenceOfFew!StaleIsKept
    /\ part = "chat" => /\ Chat!CancelIsNotAFailure
                        /\ Chat!AvailabilityTellsAnswer
                        /\ Chat!CompleteAnswersOnly
    /\ part = "memories" => Records!UsedWasApproved
    /\ part = "healthOfFew" => /\ HealthOfFew!FindingsMatchEvidence
                               /\ HealthOfFew!InsightsHaveFindings
    /\ part = "health" => /\ Health!FindingsMatchEvidence
                          /\ Health!InsightsHaveFindings
    /\ part = "run" => OneRun!AnswersShown
    /\ part = "runs" => TwoRuns!AnswersShown
    /\ part = "panel" => /\ Panel!StatusIsCurrent
                         /\ Panel!RunsAreTheNewest
                         /\ Panel!NothingForeign
    /\ part = "searches" => Searches!SearchesBelong
    /\ part = "search" => Searching!ResultsAreCurrent
    /\ part = "lists" => Lists!ListFollowsRows
    /\ part = "reopened" => ReopenedLists!ListFollowsRows
    /\ part = "session" => Session!WatcherFollowsWindow
    /\ part = "stack" => Stack!EvidenceIsFounded
    /\ part = "review" => OneReview!ReviewBelongs /\ OneReview!ReviewFollowsRows
    /\ part = "reviews" => TwoReviews!ReviewBelongs /\ TwoReviews!ReviewFollowsRows
    /\ part = "reverts" => Reverts!ReviewBelongs /\ Reverts!ReviewFollowsRows
    /\ part = "connect" => Connecting!LocksHaveCalls /\ Connecting!PageShowsStored
    /\ part = "reconnect" => Reconnecting!LocksHaveCalls /\ Reconnecting!PageShowsStored
    /\ part = "failing" => Failing!LocksHaveCalls /\ Failing!PageShowsStored

(* Crashes, failures and calls that cross leave no half of an operation: database,  *)
(* provider rows and credentials, checkpoints, memory and exports are as before or *)
(* as after it, an answer is stored once, shutdown releases what it opened, and     *)
(* calls of the vault never interleave.                                           *)
NothingHalfDone ==
    /\ part = "database" => /\ Database!NeverEmptied
                            /\ Database!OriginalIsKept
                            /\ Database!ChangedDatabaseHasCopy
                            /\ Database!NoForeignWal
    /\ part = "providers" => /\ Providing!RowsHaveCredentials
                             /\ Providing!StoresAgree
    /\ part = "life" => /\ Life!DatabaseOutlivesWindows
                        /\ Life!IpcFollowsWindow
                        /\ Life!CleanQuitReleased
    /\ part = "capture" => /\ Capture!ManifestsAreTrue
                           /\ Capture!ChangesAreTrue
    /\ part = "texts" => WorkspaceText!SavesAreKept
    /\ part = "memory" => MemoryText!SavesAreKept
    /\ part = "export" => Document!ExportsAreWhole
    /\ part = "run" => OneRun!AnswersOnce
    /\ part = "runs" => TwoRuns!AnswersOnce
    /\ part = "vault" => Vault!CallsTakeTurns
    /\ part = "session" => Session!ConversationsKeepTheirProject

(* The algorithms agree with their plain definitions: data directory, choice of a   *)
(* model, embeddings, diffs and edits, chunks, pages, budget of the context,        *)
(* dependencies of evidence, the text of a stream, order and completeness of        *)
(* messages, lists and matches.                                                   *)
MatchesReference ==
    /\ part = "algorithms" => /\ Database!DataDirectoryIsFound
                              /\ Providing!ResolutionIsExplained
                              /\ Chat!VectorsFollowInputs
                              /\ Chat!CatalogsTellModels
                              /\ Hunks!DiffsAreExact
                              /\ Searching!ChunksFollowText
                              /\ Tools!PagesGoOn
                              /\ Searching!ContextKeepsBudget
    /\ part = "evidence" => Evidence!ReadsSeeDependencies
    /\ part = "evidenceOfFew" => EvidenceOfFew!ReadsSeeDependencies
    /\ part = "chat" => Chat!DeltasFollowStream
    /\ part = "hunks" => Hunks!EditsApply
    /\ part = "run" => OneRun!StreamInOrder
    /\ part = "runs" => TwoRuns!StreamInOrder
    /\ part = "conversation" => /\ Conversation!MessagesInOrder
                                /\ Conversation!OlderCanBeLoaded
    /\ part = "lists" => Lists!NoItemTwice
    /\ part = "reopened" => ReopenedLists!NoItemTwice
    /\ part = "stack" => Stack!DetectionIsComplete /\ Stack!DetectorsAgree
    /\ part = "tools" => /\ Tools!EditsAreExact
                         /\ Tools!SearchIsComplete

(* No step takes back what was decided or replaces newer by older: a decision on a  *)
(* suggestion or a hunk stands, a listing of models and a shown validation only     *)
(* move forward, a memory is proposed once, a finding ends by evidence and a trend   *)
(* says why, an append keeps the decisions of others, an update replaces the text   *)
(* it was previewed on, a damaged vault is not overwritten, a model that is saved for *)
(* one purpose leaves the other's.                                                *)
NothingIsTakenBack ==
    [][
       /\ part = "providers" => Providing!ListingsMoveForward
       /\ part = "suggestions" => Records!DecisionsStand
       /\ part = "memories" => Records!ProposalsAreNew
       /\ part = "health" => Health!FindingsEndByEvidence
       /\ part = "health" => Health!TrendsTellChanges
       /\ part = "healthOfFew" => /\ HealthOfFew!FindingsEndByEvidence
                                  /\ HealthOfFew!TrendsTellChanges
       /\ part = "hunks" => Hunks!DecidedHunksStand
       /\ part = "texts" => WorkspaceText!AppendsKeepDecisions
       /\ part = "memory" => MemoryText!AppendsKeepDecisions
       /\ part = "documents" => Document!PreviewedTextReplaced
       /\ part = "panel" => Panel!ShownRunsGoForward
       /\ part = "searches" => Searches!LatestSearchCounts
       /\ part = "vault" => Vault!DamageIsKept
       /\ part = "connect" => Connecting!SavesKeepTheOther
       /\ part = "failing" => Failing!SavesKeepTheOther
      ]_vars

(* Work that was begun ends: a validation, a check or download of updates, a start   *)
(* of the database, an operation on a provider, the process once it quits, a request *)
(* to a provider, an export, and the lock of the screen during a run.               *)
WorkEnds ==
    []<>(/\ part = "validation" => active = Validation!None
         /\ part = "updates" => updDisposed \/ updState \notin {"checking", "downloading"}
         /\ part = "database" => boot \in {"off", "running"}
         /\ part = "providers" => operation = Providing!NoOperation
         /\ part = "life" => exited # "no" \/ (normal = "none" /\ fatal = "none")
         /\ part = "chat" => phase \in {"idle", "settled"}
         /\ part = "export" => export.step # "waiting"
         /\ part = "run" => ~OneRun!Locked
         /\ part = "runs" => ~TwoRuns!Locked)

=============================================================================
