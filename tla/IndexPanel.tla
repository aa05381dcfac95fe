------------------------------- MODULE IndexPanel -------------------------------
(* The code intelligence panel of the window: the session of one workspace,    *)
(* the statuses the main process pushes, a refresh that waits for several      *)
(* replies, and the list of validation runs that is paged, pushed and merged.  *)
(* Messages of the main process reach the window in the order they were sent.  *)
(* The searches and commands of its user (useProjectIndexSession) have a state *)
(* of their own, at the end.                                                   *)
EXTENDS Naturals, Sequences, FiniteSets

CONSTANTS Workspaces,   \* workspaces of the application
          Unauthorized, \* those the user did not authorize
          PageSize,     \* COLLECTION_PAGE_LIMITS.validation
          FirstRuns,    \* validation runs of each workspace at the start
          MaxPanelRuns, \* bound: validation runs of a workspace
          MaxIndexRuns, \* bound: runs of the index of a workspace
          MaxSwitches,  \* bound: times the workspace of the window changes
          MaxWire,      \* bound: the main process runs at most that far ahead
          MaxSearches,  \* bound: searches of each kind
          MaxSessions,  \* bound: sessions of the window
          MaxAsked      \* bound: requests on their way

VARIABLES indexRun,     \* workspace -> run of the index and its status
          results,      \* workspace -> statuses of its validation runs, by age
          fromMain,     \* pushed statuses and replies on their way
          panel,        \* what it shows, whether more runs exist, and (histories) whether
                        \* a first page was taken, and a run pushed before it
          refreshing,   \* the refresh that is waited for
          paging,       \* the page of runs that is waited for
          switches      \* changes of the workspace so far

panelVars == <<indexRun, results, fromMain, panel, refreshing, paging, switches>>

NoIndex == [run |-> 0, status |-> "none"]
NoRefresh == [step |-> "none", status |-> NoIndex, items |-> <<>>, more |-> FALSE,
              page |-> FALSE]
NoPage == [step |-> "none", items |-> <<>>, more |-> FALSE]
Reset(w) == [root |-> w, status |-> NoIndex, runs |-> <<>>, more |-> FALSE,
             taken |-> FALSE, early |-> FALSE]

PanelInit ==
    /\ indexRun = [w \in Workspaces |-> NoIndex]
    /\ results = [w \in Workspaces |-> [i \in 1 .. FirstRuns |-> "passed"]]
    /\ fromMain = <<>> /\ switches = 0
    /\ paging = NoPage
    /\ \E w \in Workspaces :
           /\ panel = Reset(w)
           /\ refreshing = IF w \in Unauthorized THEN NoRefresh
                           ELSE [NoRefresh EXCEPT !.step = "asked", !.page = TRUE]

-----------------------------------------------------------------------------
(* The main process. *)
PanelMessage(kind, w, what) == [kind |-> kind, workspace |-> w, what |-> what]
Send(kind, w, what) == fromMain' = Append(fromMain, PanelMessage(kind, w, what))

IndexStatus(w, run, status) ==
    /\ indexRun' = [indexRun EXCEPT ![w] = [run |-> run, status |-> status]]
    /\ Send("index", w, indexRun'[w])
    /\ UNCHANGED <<results, panel, refreshing, paging, switches>>

IndexStarts(w) ==
    /\ indexRun[w].status # "running" /\ indexRun[w].run < MaxIndexRuns
    /\ IndexStatus(w, indexRun[w].run + 1, "running")

IndexEnds(w) ==
    /\ indexRun[w].status = "running"
    /\ \E status \in {"completed", "failed"} : IndexStatus(w, indexRun[w].run, status)

RunStatus(w, i, status) ==
    /\ results' = [results EXCEPT ![w] = IF i > Len(@) THEN Append(@, status)
                                         ELSE [@ EXCEPT ![i] = status]]
    /\ Send("run", w, [id |-> i, status |-> status])
    /\ UNCHANGED <<indexRun, panel, refreshing, paging, switches>>

RunStarts(w) == Len(results[w]) < MaxPanelRuns /\ RunStatus(w, Len(results[w]) + 1, "running")
RunEnds(w, i) ==
    /\ i \in DOMAIN results[w] /\ results[w][i] = "running"
    /\ RunStatus(w, i, "passed")

FromRow(w, id) == [id |-> id, status |-> results[w][id]]

(* ValidationRepository.page: the newest first, and whether there are older. *)
Oldest(w, offset) == IF Len(results[w]) > offset + PageSize
                     THEN Len(results[w]) - offset - PageSize + 1 ELSE 1
Page(w, offset) ==
    LET newest == Len(results[w]) - offset IN
    [items |-> [k \in 1 .. newest + 1 - Oldest(w, offset) |-> FromRow(w, newest + 1 - k)],
     more |-> Oldest(w, offset) > 1]

(* A refresh asks seven things at once. Most are answered by one read of the   *)
(* main process, the engineering report after an evaluation; the first of them *)
(* that fails is the answer of all.                                            *)
RefreshRead ==
    /\ refreshing.step = "asked"
    /\ LET page == Page(panel.root, 0) IN
       refreshing' = [refreshing EXCEPT !.step = "read", !.status = indexRun[panel.root],
                          !.items = page.items, !.more = page.more]
    /\ UNCHANGED <<indexRun, results, fromMain, panel, paging, switches>>

RefreshReported ==
    /\ refreshing.step = "read"
    /\ refreshing' = [refreshing EXCEPT !.step = "sent"]
    /\ Send("refresh", panel.root, "reply")
    /\ UNCHANGED <<indexRun, results, panel, paging, switches>>

RefreshFails ==
    /\ refreshing.step \in {"asked", "read"}
    /\ refreshing' = [refreshing EXCEPT !.step = "sent"]
    /\ Send("refresh", panel.root, "error")
    /\ UNCHANGED <<indexRun, results, panel, paging, switches>>

PageRead ==
    /\ paging.step = "asked"
    /\ LET page == Page(panel.root, Len(panel.runs)) IN
       paging' = [step |-> "sent", items |-> page.items, more |-> page.more]
    /\ \E what \in {"reply", "error"} : Send("page", panel.root, what)
    /\ UNCHANGED <<indexRun, results, panel, refreshing, switches>>

-----------------------------------------------------------------------------
(* The window. A request that is no longer the latest of its kind, or of an    *)
(* earlier session, is forgotten: its reply would be discarded.                *)
WireWithout(kinds) == SelectSeq(fromMain, LAMBDA m : m.kind \notin kinds)

Refreshes == [NoRefresh EXCEPT !.step = "asked", !.page = TRUE]

(* The Semantic Index pushes the end of a run. *)
SemanticEnds ==
    /\ panel.root \notin Unauthorized
    /\ refreshing' = Refreshes /\ paging' = NoPage
    /\ fromMain' = WireWithout({"refresh", "page"})
    /\ UNCHANGED <<indexRun, results, panel, switches>>

Switch(w) ==
    /\ switches < MaxSwitches /\ w # panel.root
    /\ switches' = switches + 1
    /\ panel' = Reset(w)
    /\ refreshing' = IF w \in Unauthorized THEN NoRefresh ELSE Refreshes
    /\ paging' = NoPage
    /\ fromMain' = WireWithout({"refresh", "page"})
    /\ UNCHANGED <<indexRun, results>>

(* loadMoreValidations: the page of a refresh under way is no longer taken. *)
LoadMore ==
    /\ panel.root \notin Unauthorized /\ panel.more /\ paging = NoPage
    /\ paging' = [NoPage EXCEPT !.step = "asked"]
    /\ refreshing' = [refreshing EXCEPT !.page = FALSE]
    /\ UNCHANGED <<indexRun, results, fromMain, panel, switches>>

(* mergeValidationRuns. *)
Shown(runs, id) == \E i \in DOMAIN runs : runs[i].id = id
NewRuns(runs, incoming) == SelectSeq(incoming, LAMBDA r : ~Shown(runs, r.id))
Updated(runs, run) == [i \in DOMAIN runs |-> IF runs[i].id = run.id THEN run ELSE runs[i]]

IndexArrives(m) ==
    /\ m.kind = "index"
    /\ IF m.workspace # panel.root \/ m.workspace \in Unauthorized
       THEN fromMain' = Tail(fromMain) /\ UNCHANGED <<panel, refreshing, paging>>
       ELSE /\ panel' = [panel EXCEPT !.status = m.what]
            /\ IF m.what.status = "running"
               THEN fromMain' = Tail(fromMain) /\ UNCHANGED <<refreshing, paging>>
               ELSE /\ refreshing' = Refreshes /\ paging' = NoPage
                    /\ fromMain' = Tail(WireWithout({"refresh", "page"}))

RunArrives(m) ==
    /\ m.kind = "run"
    /\ panel' = IF m.workspace # panel.root \/ m.workspace \in Unauthorized THEN panel
                ELSE [panel EXCEPT !.runs = NewRuns(@, <<m.what>>) \o Updated(@, m.what),
                                   !.early = @ \/ ~panel.taken]
    /\ fromMain' = Tail(fromMain)
    /\ UNCHANGED <<refreshing, paging>>

RefreshArrives(m) ==
    /\ m.kind = "refresh"
    /\ panel' = LET shown == [panel EXCEPT !.status = refreshing.status] IN
                IF m.what = "error" THEN panel
                ELSE IF ~refreshing.page THEN shown
                ELSE [shown EXCEPT !.runs = NewRuns(@, refreshing.items) \o @,
                                   !.taken = TRUE,
                                   !.more = IF Len(panel.runs) > Len(refreshing.items)
                                            THEN @ ELSE refreshing.more]
    /\ refreshing' = NoRefresh
    /\ fromMain' = Tail(fromMain)
    /\ UNCHANGED paging

PageArrives(m) ==
    /\ m.kind = "page"
    /\ panel' = IF m.what = "error" THEN panel
                ELSE [panel EXCEPT !.runs = @ \o NewRuns(@, paging.items), !.more = paging.more]
    /\ paging' = NoPage
    /\ fromMain' = Tail(fromMain)
    /\ UNCHANGED refreshing

Arrives ==
    /\ fromMain # <<>>
    /\ LET m == Head(fromMain) IN
       IndexArrives(m) \/ RunArrives(m) \/ RefreshArrives(m) \/ PageArrives(m)
    /\ UNCHANGED <<indexRun, results, switches>>

PanelNext ==
    \/ Arrives \/ LoadMore \/ SemanticEnds
    \/ /\ Len(fromMain) < MaxWire
       /\ \/ RefreshRead \/ RefreshReported \/ RefreshFails \/ PageRead
          \/ \E w \in Workspaces :
                 \/ IndexStarts(w) \/ IndexEnds(w) \/ RunStarts(w)
                 \/ \E i \in 1 .. MaxPanelRuns : RunEnds(w, i)
    \/ \E w \in Workspaces : Switch(w)

-----------------------------------------------------------------------------
PanelTypeOK ==
    /\ \A w \in Workspaces : /\ indexRun[w].run \in 0 .. MaxIndexRuns
                             /\ Len(results[w]) <= MaxPanelRuns
    /\ panel.root \in Workspaces /\ {panel.more, panel.taken} \subseteq BOOLEAN
    /\ refreshing.step \in {"none", "asked", "read", "sent"}
    /\ paging.step \in {"none", "asked", "sent"}
    /\ switches \in 0 .. MaxSwitches

PanelQuiet == fromMain = <<>> /\ refreshing = NoRefresh /\ paging = NoPage

(* When nothing is on its way, the panel says of the index what the main       *)
(* process would: no status of a refresh stands over a later end of the run.   *)
(* Only a workspace whose first refresh failed says nothing, until a status is *)
(* pushed or a later refresh comes; a later one that fails costs nothing.      *)
StatusIsCurrent ==
    PanelQuiet /\ panel.root \notin Unauthorized /\ indexRun[panel.root].status # "running" =>
        \/ panel.status = indexRun[panel.root]
        \/ ~panel.taken /\ panel.status = NoIndex

(* The validation runs on the screen are the newest ones of the workspace,     *)
(* each once and with its own status, whatever page, push and refresh brought  *)
(* them or failed to, and `more' says whether there are older. They are newest *)
(* first unless a status was pushed before the first page came. As long as no  *)
(* first page came, because its refresh failed, only the statuses are claimed. *)
(* MaxPanelRuns is FirstRuns and one page: of a list that outgrew a page       *)
(* before its first page came, `more' would be wrong.                          *)
RunsAreTheNewest ==
    LET own == results[panel.root]
        n == Len(panel.runs)
    IN
    PanelQuiet /\ panel.root \notin Unauthorized =>
        /\ \A i \in 1 .. n : panel.runs[i].status = own[panel.runs[i].id]
        /\ panel.taken =>
               /\ {panel.runs[i].id : i \in 1 .. n} = Len(own) + 1 - n .. Len(own)
               /\ panel.more = (n < Len(own))
               /\ panel.early \/ \A i \in 1 .. n : panel.runs[i].id = Len(own) + 1 - i

(* Nothing of a workspace is shown in the panel of another, or of one that is  *)
(* not authorized.                                                             *)
NothingForeign ==
    /\ panel.root \in Unauthorized => panel.status = NoIndex /\ panel.runs = <<>>
    /\ \A i \in DOMAIN panel.runs : panel.runs[i].id <= Len(results[panel.root])

(* While a workspace stays, no run on the screen goes back to an earlier       *)
(* status or disappears.                                                       *)
ShownRunsGoForward ==
    panel'.root = panel.root /\ switches' = switches =>
        \A i \in DOMAIN panel.runs :
            \E j \in DOMAIN panel'.runs :
                /\ panel'.runs[j].id = panel.runs[i].id
                /\ panel.runs[i].status = "passed" => panel'.runs[j].status = "passed"

-----------------------------------------------------------------------------
(* Searches of symbols and of meaning, of which only the latest counts, and     *)
(* commands to the indexes. Replies cross each other and changes of the         *)
(* workspace. Switching and typing are the user's.                             *)
VARIABLES visit,    \* sessionRef: the workspace and its generation
          typed,    \* the query of semantic searches is not empty
          latest,   \* symbolsRequestRef and semanticRequestRef
          spinning, \* loading and semanticLoading
          found,    \* the request whose results are shown
          told,     \* the session of the failure shown last
          asked,    \* requests on their way
          overtaken \* history: a switch overtook a search of symbols, and none has ended since

searchesVars == <<visit, typed, latest, spinning, found, told, asked, overtaken>>

SearchKinds == {"symbols", "semantic"}
Request(kind, id) == [kind |-> kind, id |-> id, of |-> visit]
Nothing == [kind |-> "none", id |-> 0, of |-> [root |-> "none", generation |-> 0]]

SearchesInit ==
    /\ \E w \in Workspaces : visit = [root |-> w, generation |-> 0]
    /\ typed = FALSE /\ latest = [k \in SearchKinds |-> 0]
    /\ spinning = [k \in SearchKinds |-> FALSE] /\ found = [k \in SearchKinds |-> Nothing]
    /\ told = Nothing.of /\ asked = {} /\ overtaken = FALSE

-----------------------------------------------------------------------------
Authorized == visit.root \notin Unauthorized
MayAsk == Authorized /\ Cardinality(asked) < MaxAsked

Type ==
    /\ typed' = ~typed
    /\ UNCHANGED <<visit, latest, spinning, found, told, asked, overtaken>>

Search(kind) ==
    /\ MayAsk /\ latest[kind] < MaxSearches
    /\ latest' = [latest EXCEPT ![kind] = @ + 1]
    /\ spinning' = [spinning EXCEPT ![kind] = TRUE]
    /\ asked' = asked \cup {Request(kind, latest'[kind])}
    /\ UNCHANGED <<visit, typed, found, told, overtaken>>

SearchSymbols == Search("symbols")
SearchSemantic == typed /\ Search("semantic")

(* start, cancel and retry of an index: only a failure comes back. *)
Command(kind) ==
    /\ MayAsk
    /\ asked' = asked \cup {Request(kind, 0)}
    /\ UNCHANGED <<visit, typed, latest, spinning, found, told, overtaken>>
ProjectIndexCommand == Command("command")
SemanticCommand == Command("semanticCommand")

IsCurrentSession(request) == request.of = visit
IsLatest(request) == request.kind \in SearchKinds => request.id = latest[request.kind]

(* A reply, or a rejection, that nobody waits for any more changes nothing. *)
SearchAnswered(request, ok) ==
    /\ request \in asked /\ asked' = asked \ {request}
    /\ IF ~IsCurrentSession(request) \/ ~IsLatest(request)
       THEN UNCHANGED <<spinning, found, told>>
       ELSE /\ told' = IF ok THEN told ELSE request.of
            /\ IF request.kind \notin SearchKinds THEN UNCHANGED <<spinning, found>>
               ELSE /\ spinning' = [spinning EXCEPT ![request.kind] = FALSE]
                    /\ found' = IF ok THEN [found EXCEPT ![request.kind] = request] ELSE found
    /\ overtaken' = (overtaken /\ spinning'["symbols"])
    /\ UNCHANGED <<visit, typed, latest>>

UnderWay(kind) ==
    \E request \in asked :
        request.kind = kind /\ IsCurrentSession(request) /\ IsLatest(request)

(* Another workspace: the effect empties the panel, except for the query of the  *)
(* symbols and the state of their search.                                      *)
SwitchTo(w) ==
    /\ w # visit.root /\ visit.generation < MaxSessions
    /\ visit' = [root |-> w, generation |-> visit.generation + 1]
    /\ typed' = FALSE
    /\ spinning' = [spinning EXCEPT !["semantic"] = FALSE]
    /\ found' = [k \in SearchKinds |-> Nothing]
    /\ overtaken' = (overtaken \/ UnderWay("symbols"))
    /\ UNCHANGED <<latest, told, asked>>

SearchesNext ==
    \/ Type \/ SearchSymbols \/ SearchSemantic \/ ProjectIndexCommand \/ SemanticCommand
    \/ \E request \in asked, ok \in BOOLEAN : SearchAnswered(request, ok)
    \/ \E w \in Workspaces : SwitchTo(w)

SearchesSpec == SearchesInit /\ [][SearchesNext]_searchesVars

-----------------------------------------------------------------------------
SearchesTypeOK ==
    /\ visit.root \in Workspaces /\ visit.generation \in 0 .. MaxSessions
    /\ latest \in [SearchKinds -> 0 .. MaxSearches] /\ typed \in BOOLEAN
    /\ spinning \in [SearchKinds -> BOOLEAN] /\ Cardinality(asked) <= MaxAsked

(* What is shown as found was found in this workspace since it was opened, and    *)
(* the screen waits exactly for the latest search of each kind; only the state   *)
(* of a search of symbols that a switch overtook stays on the screen.            *)
SearchesBelong ==
    /\ \A k \in SearchKinds : found[k] # Nothing => found[k].of = visit
    /\ spinning["semantic"] = UnderWay("semantic")
    /\ UnderWay("symbols") => spinning["symbols"]
    /\ spinning["symbols"] => UnderWay("symbols") \/ overtaken

(* Results and failures come of the latest search, in the order it was asked:     *)
(* a late reply never replaces a newer one.                                     *)
LatestSearchCounts ==
    /\ \A k \in SearchKinds : found'[k] \notin {found[k], Nothing} =>
           found'[k].id = latest[k] /\ found'[k].id > found[k].id
    /\ told' # told => told' = visit
=============================================================================
