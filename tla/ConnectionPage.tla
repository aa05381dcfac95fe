----------------------------- MODULE ConnectionPage -----------------------------
(* The AI page of the settings (AIConnectionPage) with the handlers it calls: the *)
(* connections, the wizard that adds one and chooses its model, and the bindings  *)
(* of the workspace, which a save replaces as a whole. Requests arrive in order;   *)
(* those that wait for a provider end in any order. A provider has one chat model *)
(* and one for embeddings here, listed as available or not.                      *)
EXTENDS Naturals, Sequences, FiniteSets

CONSTANTS Workspaces,    \* workspaces of the application
          Providers,     \* connections, made or not
          FirstProvider, \* the one there is at first
          MaxSaves,      \* bound: bindings saved
          MaxSwitches,   \* bound: workspaces chosen while the page is open
          MaxOpens,      \* bound: times the page is opened
          MaxWire,       \* bound: calls under way when another begins
          MaxFaults      \* bound: calls that fail

VARIABLES connections,   \* provider configurations in the database
          available,     \* providers whose models the catalog lists as available
          stored,        \* workspace_model_bindings
          requests,      \* calls on their way to main, in order
          waiting,       \* handlers that wait
          toPage,        \* replies on their way to the page, in order
          page,          \* state of the page
          wizard,        \* its step, provider and chosen model
          spent,         \* bounds: saves, faults and connections ever asked for
          astray         \* history: the page shows connections listed before a change
                         \* it was not told of, bindings of another workspace

connVars == <<connections, available, stored, requests, waiting, toPage, page, wizard, spent, astray>>
mainVars == <<connections, available, stored, waiting>>

None == "none"
Bindings(w, default, embedding) == [workspace |-> w, default |-> default, embedding |-> embedding]
NoBindings == Bindings(None, None, None)

ListStep == [step |-> "list", provider |-> None, selected |-> None,
             connecting |-> FALSE, saving |-> FALSE]

Request(kind, of) ==
    [kind |-> kind, open |-> page.open, effect |-> page.effect,
     of |-> of, bindings |-> NoBindings, listed |-> {}, blind |-> FALSE, ok |-> TRUE]

(* The effect of the workspace asks for the catalog and the bindings at once. *)
Load(p) ==
    IF p.workspace = None THEN <<>>
    ELSE <<[Request("load", p.workspace) EXCEPT !.open = p.open, !.effect = p.effect]>>

NewPage(w, open) ==
    [open |-> open, effect |-> 0, workspace |-> w, services |-> {}, catalog |-> {},
     bindings |-> NoBindings, embedding |-> None, embeddingSaving |-> FALSE,
     removing |-> None, confirm |-> None]

ConnInit ==
    /\ connections = {FirstProvider} /\ available = {FirstProvider}
    /\ stored \in [Workspaces -> {NoBindings}] \cup
                  {[w \in Workspaces |-> Bindings(w, FirstProvider, FirstProvider)]}
    /\ requests = <<>> /\ waiting = {} /\ toPage = <<>>
    /\ \E w \in Workspaces \cup {None} : page = NewPage(w, 0)
    /\ wizard = ListStep
    /\ spent = [saves |-> 0, faults |-> 0, made |-> {FirstProvider}]
    /\ astray = {}

-----------------------------------------------------------------------------
Room == Len(requests) + Cardinality(waiting) + Len(toPage) < MaxWire

(* The page is opened, again or for the first time. *)
OpenPage ==
    /\ page.open < MaxOpens /\ Room
    /\ page' = NewPage(page.workspace, page.open + 1)
    /\ wizard' = ListStep
    /\ requests' = requests \o <<[Request("list", None) EXCEPT !.open = page'.open, !.effect = 0]>>
                            \o Load(page')
    /\ astray' = {}
    /\ UNCHANGED <<mainVars, toPage, spent>>

Open == page.open > 0

(* Another workspace: what is shown stays until its bindings are there. *)
Choose(w) ==
    /\ Open /\ w # page.workspace /\ page.effect < MaxSwitches /\ Room
    /\ LET moved == [page EXCEPT !.workspace = w, !.effect = @ + 1] IN
       page' = IF w = None THEN [moved EXCEPT !.bindings = NoBindings, !.embedding = None] ELSE moved
    /\ requests' = requests \o Load(page')
    /\ astray' = IF w = None THEN astray \ {"bindings"} ELSE astray \cup {"bindings"}
    /\ UNCHANGED <<mainVars, toPage, wizard, spent>>

(* The dialog that confirms a removal covers the page. *)
Listed == Open /\ wizard.step = "list" /\ page.confirm = None

ChooseEmbedding(p) ==
    /\ Listed /\ page.workspace # None /\ p \in page.catalog \cup {None}
    /\ page' = [page EXCEPT !.embedding = p]
    /\ UNCHANGED <<mainVars, requests, toPage, wizard, spent, astray>>

Save(kind, bindings) ==
    /\ spent.saves < MaxSaves /\ Room
    /\ spent' = [spent EXCEPT !.saves = @ + 1]
    /\ requests' = Append(requests, [Request(kind, page.workspace) EXCEPT
                    !.bindings = bindings, !.blind = "bindings" \in astray])

(* saveEmbeddingBinding; a model the catalog does not offer is not saved. *)
SaveEmbedding ==
    /\ Listed /\ page.workspace # None /\ page.catalog # {} /\ ~page.embeddingSaving
    /\ page' = [page EXCEPT !.embeddingSaving = TRUE]
    /\ Save("embedding", Bindings(page.workspace, page.bindings.default,
                IF page.embedding \in page.catalog THEN page.embedding ELSE None))
    /\ UNCHANGED <<mainVars, toPage, wizard, astray>>

(* saveAndBind *)
UseModel ==
    /\ Open /\ wizard.step = "model" /\ wizard.selected # None
    /\ ~wizard.saving /\ ~wizard.connecting /\ page.workspace # None
    /\ wizard' = [wizard EXCEPT !.saving = TRUE]
    /\ Save("bind", Bindings(page.workspace, wizard.selected, page.bindings.embedding))
    /\ UNCHANGED <<mainVars, toPage, page, astray>>

(* openProviderModels, from the list or to refresh the models that are shown. *)
OpenModels(p) ==
    /\ \/ Listed /\ p \in page.services
       \/ Open /\ wizard.step = "model" /\ p = wizard.provider /\ ~wizard.saving
    /\ ~wizard.connecting /\ Room
    /\ wizard' = [ListStep EXCEPT !.step = "model", !.provider = p, !.connecting = TRUE]
    /\ requests' = Append(requests, Request("refresh", p))
    /\ UNCHANGED <<mainVars, toPage, page, spent, astray>>

PickService ==
    /\ Listed
    /\ wizard' = [wizard EXCEPT !.step = "auth"]
    /\ UNCHANGED <<mainVars, requests, toPage, page, spent, astray>>

(* The identity of a new connection is never that of another, removed or not. *)
Connect ==
    /\ Open /\ wizard.step = "auth" /\ ~wizard.connecting /\ Room
    /\ wizard' = [wizard EXCEPT !.connecting = TRUE]
    /\ \E p \in Providers \ spent.made :
          /\ spent' = [spent EXCEPT !.made = @ \cup {p}]
          /\ requests' = Append(requests, Request("create", p))
    /\ UNCHANGED <<mainVars, toPage, page, astray>>

Back ==
    /\ Open /\ wizard.step \in {"auth", "model"} /\ ~wizard.connecting /\ ~wizard.saving
    /\ wizard' = ListStep
    /\ UNCHANGED <<mainVars, requests, toPage, page, spent, astray>>

(* remove: asks first, then once more from the dialog. *)
Remove(p) ==
    /\ Open /\ wizard.step = "list" /\ p \in page.services /\ page.removing = None
    /\ \/ /\ page.confirm = None
          /\ page' = [page EXCEPT !.confirm = p] /\ UNCHANGED requests
       \/ /\ page.confirm = p /\ Room
          /\ page' = [page EXCEPT !.removing = p]
          /\ requests' = Append(requests, Request("remove", p))
    /\ UNCHANGED <<mainVars, toPage, wizard, spent, astray>>

KeepConnection ==
    /\ page.confirm # None /\ page.removing = None
    /\ page' = [page EXCEPT !.confirm = None]
    /\ UNCHANGED <<mainVars, requests, toPage, wizard, spent, astray>>

-----------------------------------------------------------------------------
(* The handlers. *)
Reply(call) == toPage' = Append(toPage, call)

Fails(call) ==
    /\ spent.faults < MaxFaults
    /\ spent' = [spent EXCEPT !.faults = @ + 1]
    /\ toPage' = Append(toPage, [call EXCEPT !.ok = FALSE])

Read(call) ==
    /\ call.kind \in {"list", "load", "models"}
    /\ Reply([call EXCEPT !.listed = IF call.kind = "list" THEN connections ELSE available,
                           !.bindings = IF call.kind = "load" THEN stored[call.of] ELSE @])
    /\ UNCHANGED <<stored, spent>>

(* models.setBindings: the row of the workspace is replaced. *)
SetBindings(call) ==
    /\ call.kind \in {"embedding", "bind"}
    /\ stored' = [stored EXCEPT ![call.of] = call.bindings]
    /\ Reply(call)
    /\ UNCHANGED spent

Handle ==
    /\ requests # <<>> /\ requests' = Tail(requests)
    /\ LET call == Head(requests) IN
       IF call.kind \in {"refresh", "create", "remove"}
       THEN waiting' = waiting \cup {call} /\ UNCHANGED <<stored, toPage, spent>>
       ELSE /\ UNCHANGED waiting
            /\ Read(call) \/ SetBindings(call) \/ (UNCHANGED stored /\ Fails(call))
    /\ UNCHANGED <<connections, available, page, wizard, astray>>

(* A provider answers a refresh, is configured or removed. *)
Ends(call) ==
    /\ waiting' = waiting \ {call}
    /\ \/ /\ call.kind = "refresh" /\ call.of \in connections
          /\ \/ available' = available \cup {call.of}
             \/ available' = available \ {call.of}
          /\ Reply(call) /\ UNCHANGED <<connections, spent>>
       \/ /\ call.kind = "refresh" /\ call.of \notin connections
          /\ toPage' = Append(toPage, [call EXCEPT !.ok = FALSE])
          /\ UNCHANGED <<connections, available, spent>>
       \/ /\ call.kind = "create"
          /\ connections' = connections \cup {call.of}
          /\ Reply(call) /\ UNCHANGED <<available, spent>>
       \/ /\ call.kind = "remove"
          /\ connections' = connections \ {call.of}
          /\ available' = available \ {call.of}
          /\ Reply(call) /\ UNCHANGED spent
       \/ Fails(call) /\ UNCHANGED <<connections, available>>
    /\ UNCHANGED <<stored, requests, page, wizard, astray>>

-----------------------------------------------------------------------------
(* The page receives. What goes on with another call does so though the page was   *)
(* closed meanwhile; nothing else is left of it.                                 *)
Here(m) == m.open = page.open

Continue(m) ==
    requests' = IF m.ok /\ m.kind = "create" THEN Append(requests, [m EXCEPT !.kind = "refresh"])
                ELSE IF m.ok /\ m.kind = "refresh" THEN Append(requests, [m EXCEPT !.kind = "models"])
                ELSE requests

ListShown(m) ==
    /\ m.kind = "list"
    /\ page' = IF m.ok THEN [page EXCEPT !.services = m.listed] ELSE page
    /\ astray' = IF m.ok THEN astray \ {"services"} ELSE astray \cup {"services"}
    /\ UNCHANGED wizard

BindingsShown(m) ==
    /\ m.kind = "load"
    /\ IF m.effect # page.effect THEN UNCHANGED <<page, astray>>
       ELSE IF m.ok
       THEN /\ page' = [page EXCEPT !.catalog = m.listed, !.bindings = m.bindings,
                                    !.embedding = m.bindings.embedding]
            /\ astray' = astray \ {"bindings"}
       ELSE page' = page /\ astray' = astray \cup {"bindings"}
    /\ UNCHANGED wizard

Connected(m) ==
    /\ m.kind = "create"
    /\ IF m.ok
       THEN /\ wizard' = [ListStep EXCEPT !.step = "model", !.provider = m.of, !.connecting = TRUE]
            /\ page' = [page EXCEPT !.services = @ \cup {m.of}]
       ELSE wizard' = [wizard EXCEPT !.connecting = FALSE] /\ UNCHANGED page
    /\ UNCHANGED astray

(* loadProviderModels: the model that is bound is preferred, if it is available. *)
ModelsShown(m) ==
    /\ m.kind \in {"refresh", "models"}
    /\ IF ~m.ok THEN wizard' = [wizard EXCEPT !.connecting = FALSE] /\ UNCHANGED page
       ELSE IF m.kind = "refresh" THEN UNCHANGED <<wizard, page>>
       ELSE /\ page' = [page EXCEPT !.catalog = m.listed]
            /\ wizard' = [wizard EXCEPT !.connecting = FALSE,
                                        !.selected = IF m.of \in m.listed THEN m.of ELSE None]
    /\ UNCHANGED astray

Saved(m) ==
    /\ m.kind \in {"embedding", "bind"}
    /\ IF m.ok
       THEN /\ page' = [page EXCEPT !.bindings = m.bindings,
                                    !.embeddingSaving = @ /\ m.kind # "embedding"]
            /\ wizard' = IF m.kind = "bind" THEN ListStep ELSE wizard
            /\ astray' = IF m.of = page.workspace THEN astray
                         ELSE astray \cup {"bindings"}
       ELSE /\ page' = [page EXCEPT !.embeddingSaving = @ /\ m.kind # "embedding"]
            /\ wizard' = [wizard EXCEPT !.saving = @ /\ m.kind # "bind"]
            /\ UNCHANGED astray

Removed(m) ==
    /\ m.kind = "remove"
    /\ page' = IF m.ok THEN [page EXCEPT !.services = @ \ {m.of}, !.confirm = None, !.removing = None]
               ELSE [page EXCEPT !.removing = None]
    /\ UNCHANGED <<wizard, astray>>

Receive ==
    /\ toPage # <<>> /\ toPage' = Tail(toPage)
    /\ LET m == Head(toPage) IN
       /\ Continue(m)
       /\ \/ Here(m) /\ (ListShown(m) \/ BindingsShown(m) \/ Connected(m) \/ ModelsShown(m)
                            \/ Saved(m) \/ Removed(m))
          \/ /\ ~Here(m) /\ UNCHANGED <<page, wizard>>
             /\ astray' = IF m.ok /\ m.kind \in {"create", "remove"}
                          THEN astray \cup {"services"} ELSE astray
    /\ UNCHANGED <<mainVars, spent>>

ConnNext ==
    \/ OpenPage \/ (\E w \in Workspaces \cup {None} : Choose(w))
    \/ \E p \in Providers : ChooseEmbedding(p) \/ OpenModels(p) \/ Remove(p)
    \/ ChooseEmbedding(None) \/ SaveEmbedding \/ UseModel
    \/ PickService \/ Connect \/ Back \/ KeepConnection
    \/ Handle \/ Receive
    \/ \E call \in waiting : Ends(call)

-----------------------------------------------------------------------------
OfWorkspace(w) == {NoBindings} \cup
    {Bindings(w, d, e) : d \in Providers \cup {None}, e \in Providers \cup {None}}

ConnTypeOK ==
    /\ connections \subseteq Providers /\ available \subseteq Providers
    /\ \A w \in Workspaces : stored[w] \in OfWorkspace(w)
    /\ page.bindings \in UNION {OfWorkspace(w) : w \in Workspaces}
    /\ page.services \subseteq Providers /\ page.catalog \subseteq Providers
    /\ wizard.step \in {"list", "auth", "model"}
    /\ wizard.selected \in {None, wizard.provider}
    /\ astray \subseteq {"services", "bindings"}

AtRest == requests = <<>> /\ waiting = {} /\ toPage = <<>>

(* A control that is locked has its call under way, in this opening of the page:   *)
(* nothing stays locked, and no two calls of one kind are made.                  *)
UnderWay(kinds) ==
    LET Of(m) == m.kind \in kinds /\ Here(m) IN
    \/ \E m \in waiting : Of(m)
    \/ \E i \in DOMAIN requests : Of(requests[i])
    \/ \E i \in DOMAIN toPage : Of(toPage[i])

LocksHaveCalls ==
    /\ wizard.connecting = UnderWay({"create", "refresh", "models"})
    /\ wizard.saving = UnderWay({"bind"})
    /\ page.embeddingSaving = UnderWay({"embedding"})
    /\ (page.removing # None) = UnderWay({"remove"})

(* With nothing on its way the page shows the connections and the bindings that    *)
(* are stored, but for a list that failed, or was read before a call of an earlier     *)
(* opening of the page ended, and for bindings of another workspace:             *)
(* those of the one before stay when the new ones cannot be read, and a save that   *)
(* a change of workspace overtook shows its own.                                 *)
PageShowsStored ==
    Open /\ AtRest =>
        /\ page.services = connections \/ "services" \in astray
        /\ page.workspace # None =>
               page.bindings = stored[page.workspace] \/ "bindings" \in astray

(* A save replaces the whole row, and yet never changes the binding it is not      *)
(* about, as long as the page showed the bindings of its own workspace.           *)
SavesKeepTheOther ==
    LET call == Head(requests) IN
    requests # <<>> /\ stored' # stored /\ ~call.blind =>
        LET w == call.of IN
        IF call.kind = "bind" THEN stored'[w].embedding = stored[w].embedding
        ELSE stored'[w].default = stored[w].default
=============================================================================
