------------------------------- MODULE Providers -------------------------------
(* Provider configurations, their credentials, their adapters and the models    *)
(* they list: ProviderConfigurationService (one operation at a time), the vault, *)
(* the registries, ModelCatalogService, and what a full import does to them.    *)
(* Validation, encryption and descriptors are left out.                        *)
EXTENDS Integers, FiniteSets

CONSTANTS ProviderIds,
          MaxAdapters,   \* bound: adapters ever made, a restart counting for one
          MaxRefs,       \* bound: credential references ever drawn
          MaxListings    \* bound: refreshes ever asked

VARIABLES provRows,    \* provider_configs: NoRow, or the credential reference (0: none)
          vault,       \* provider-credentials.json: the references it holds
          adapters,    \* ProviderRegistry: a new number for every adapter, 0: none
          models,      \* ModelRegistry: by provider the listing it holds
          catalog,     \* model_catalog, likewise
          operation,   \* the exclusive operation
          refreshes,   \* refreshes that wait for an answer
          drawn,       \* numbers of adapters, references and listings drawn so far
          untidy       \* history: what a restart has still to put right

provVars == <<provRows, vault, adapters, models, catalog, operation, refreshes, drawn, untidy>>

NoRow == -1
NoListing == [adapter |-> 0, number |-> 0]
NoOperation == [kind |-> "idle"]
ProviderRows == (0..MaxRefs) \cup {NoRow}
Rows == {id \in ProviderIds : provRows[id] # NoRow}
HeldReferences == {provRows[id] : id \in Rows} \ {0}

ProvInit ==
    /\ provRows = [id \in ProviderIds |-> NoRow] /\ vault = {}
    /\ adapters = [id \in ProviderIds |-> 0]
    /\ models = [id \in ProviderIds |-> NoListing] /\ catalog = models
    /\ operation = NoOperation /\ refreshes = {}
    /\ drawn = [adapter |-> 0, reference |-> 0, listing |-> 0]
    /\ untidy = {}

StoresSame == UNCHANGED <<vault, models, catalog, refreshes>>
(* ProviderRegistry.register and replace; replaceProviderModels of the registry of  *)
(* models and of the table.                                                    *)
Register(id) ==
    /\ drawn.adapter < MaxAdapters
    /\ adapters' = [adapters EXCEPT ![id] = drawn.adapter + 1]
    /\ drawn' = [drawn EXCEPT !.adapter = @ + 1]
ReplaceModels(id, listing) == models' = [models EXCEPT ![id] = listing]
StoreModels(id, listing) == catalog' = [catalog EXCEPT ![id] = listing]
OperationStep(step) == operation' = [operation EXCEPT !.step = step]
EndOperation == operation' = NoOperation

-----------------------------------------------------------------------------
(* create and update up to their validation; `credential` is the change asked    *)
(* for: "set", "clear" or "keep".                                              *)
Create(id) ==
    /\ operation = NoOperation /\ id \notin Rows /\ adapters[id] = 0
    /\ models[id] = NoListing /\ catalog[id] = NoListing
    /\ \E credential \in {"set", "keep"} :
           operation' = [kind |-> "create", id |-> id, step |-> "validating",
                         change |-> credential, old |-> 0, new |-> 0]
    /\ StoresSame /\ UNCHANGED <<provRows, adapters, drawn, untidy>>

Update(id) ==
    /\ operation = NoOperation /\ id \in Rows
    /\ \E credential \in {"set", "clear", "keep"} :
           operation' = [kind |-> "update", id |-> id, step |-> "validating",
                         change |-> credential, old |-> provRows[id], new |-> 0]
    /\ StoresSame /\ UNCHANGED <<provRows, adapters, drawn, untidy>>

(* validateEnabledConfiguration; a refusal leaves everything as it was. *)
Validated ==
    /\ operation # NoOperation /\ operation.step = "validating"
    /\ (OperationStep(IF operation.change = "set" THEN "storing" ELSE "saving") \/ EndOperation)
    /\ StoresSame /\ UNCHANGED <<provRows, adapters, drawn, untidy>>

(* vault.create: one write of the file, or a refusal. *)
StoreCredential ==
    /\ operation # NoOperation /\ operation.step = "storing"
    /\ \/ /\ drawn.reference < MaxRefs
          /\ drawn' = [drawn EXCEPT !.reference = @ + 1]
          /\ vault' = vault \cup {drawn'.reference}
          /\ operation' = [operation EXCEPT !.step = "saving", !.new = drawn'.reference]
       \/ EndOperation /\ UNCHANGED <<vault, drawn>>
    /\ UNCHANGED <<provRows, adapters, models, catalog, refreshes, untidy>>

(* The row and the adapter, in one turn; an update finds its row gone only after *)
(* an import.  A failure leaves the new reference to be deleted.               *)
SaveConfiguration ==
    /\ operation # NoOperation /\ operation.step = "saving"
    /\ LET id == operation.id
           reference == IF operation.kind = "update" /\ operation.change = "keep"
                        THEN provRows[id] ELSE operation.new
           writes == operation.kind = "create" \/ id \in Rows
       IN  \/ /\ writes /\ Register(id)
              /\ provRows' = [provRows EXCEPT ![id] = reference]
              /\ IF operation.kind = "create" THEN EndOperation ELSE OperationStep("replacing")
           \/ OperationStep("undoing") /\ UNCHANGED <<provRows, adapters, drawn>>
    /\ StoresSame /\ UNCHANGED untidy

(* vault.delete of a reference, 0 for none; a failure is swallowed. *)
DeleteReference(reference) ==
    \/ vault' = vault \ {reference} /\ UNCHANGED untidy
    \/ reference \in vault /\ UNCHANGED vault /\ untidy' = untidy \cup {"vault"}

UndoCredential ==
    /\ operation # NoOperation /\ operation.step = "undoing" /\ EndOperation
    /\ DeleteReference(operation.new)
    /\ UNCHANGED <<provRows, adapters, models, catalog, refreshes, drawn>>

(* The old adapter is disposed of; then its credential goes if it was changed. *)
DropOldCredential ==
    /\ operation # NoOperation /\ operation.step = "replacing" /\ EndOperation
    /\ DeleteReference(IF operation.change = "keep" THEN 0 ELSE operation.old)
    /\ UNCHANGED <<provRows, adapters, models, catalog, refreshes, drawn>>

Remove(id) ==
    /\ operation = NoOperation /\ id \in Rows
    /\ operation' = [kind |-> "remove", id |-> id, step |-> "disposing", change |-> "clear",
                     old |-> provRows[id], new |-> 0]
    /\ provRows' = [provRows EXCEPT ![id] = NoRow]
    /\ adapters' = [adapters EXCEPT ![id] = 0]
    /\ StoresSame /\ UNCHANGED <<drawn, untidy>>

RemoveCredential ==
    /\ operation # NoOperation /\ operation.step = "disposing" /\ OperationStep("forgetting")
    /\ DeleteReference(operation.old)
    /\ UNCHANGED <<provRows, adapters, models, catalog, refreshes, drawn>>

(* onProviderRemoved. *)
ForgetModels ==
    /\ operation # NoOperation /\ operation.step = "forgetting" /\ EndOperation
    /\ ReplaceModels(operation.id, NoListing) /\ StoreModels(operation.id, NoListing)
    /\ UNCHANGED <<provRows, vault, adapters, refreshes, drawn, untidy>>

-----------------------------------------------------------------------------
(* ModelCatalogService.refresh, up to its await and after it.  `latest`: its     *)
(* version is the refresh version of the provider.                             *)
Refresh(id) ==
    /\ adapters[id] # 0 /\ drawn.listing < MaxListings
    /\ (operation = NoOperation \/ operation.kind # "initialize")
    /\ drawn' = [drawn EXCEPT !.listing = @ + 1]
    /\ refreshes' = {IF r.id = id THEN [r EXCEPT !.latest = FALSE] ELSE r : r \in refreshes}
                    \cup {[id |-> id, latest |-> TRUE,
                           listing |-> [adapter |-> adapters[id], number |-> drawn'.listing]]}
    /\ UNCHANGED <<provRows, vault, adapters, models, catalog, operation, untidy>>

Applies(r) == r.latest /\ adapters[r.id] = r.listing.adapter

RefreshAnswers(r) ==
    /\ refreshes' = refreshes \ {r}
    /\ \/ Applies(r) /\ ReplaceModels(r.id, r.listing) /\ StoreModels(r.id, r.listing)
       \/ UNCHANGED <<models, catalog>>  \* superseded, refused, or the write failed
    /\ UNCHANGED <<provRows, vault, adapters, operation, drawn, untidy>>

(* importData with scope "full": rows without credentials; what runs goes on. *)
ImportProviders ==
    /\ (operation = NoOperation \/ operation.kind # "initialize")
    /\ \E kept \in SUBSET ProviderIds :
           provRows' = [id \in ProviderIds |-> IF id \in kept THEN 0 ELSE NoRow]
    /\ catalog' = [id \in ProviderIds |-> NoListing]
    /\ untidy' = untidy \cup {"vault", "import"}
    /\ UNCHANGED <<vault, adapters, models, operation, refreshes, drawn>>

(* A crash or an exit, then initialize of the catalog and of the configurations: *)
(* the vault is pruned at the end, unless it cannot be read.                   *)
RestartProviders ==
    /\ drawn.adapter < MaxAdapters
    /\ adapters' = [id \in ProviderIds |-> IF id \in Rows THEN drawn.adapter + 1 ELSE 0]
    /\ drawn' = [drawn EXCEPT !.adapter = @ + 1]
    /\ models' = catalog /\ refreshes' = {}
    /\ operation' = [kind |-> "initialize", step |-> "pruning"]
    /\ untidy' = IF \A id \in ProviderIds : catalog[id] # NoListing => id \in Rows
                 THEN {"vault"} ELSE {"vault", "models"}
    /\ UNCHANGED <<provRows, vault, catalog>>
Prune ==
    /\ operation # NoOperation /\ operation.step = "pruning" /\ EndOperation
    /\ \/ vault' = vault \cap HeldReferences /\ untidy' = untidy \ {"vault"}
       \/ UNCHANGED <<vault, untidy>>
    /\ UNCHANGED <<provRows, adapters, models, catalog, refreshes, drawn>>

ProvWork ==
    \/ Validated \/ StoreCredential \/ SaveConfiguration \/ UndoCredential \/ DropOldCredential
    \/ RemoveCredential \/ ForgetModels \/ Prune
ProvNext ==
    \/ \E id \in ProviderIds : Create(id) \/ Update(id) \/ Remove(id) \/ Refresh(id)
    \/ \E r \in refreshes : RefreshAnswers(r)
    \/ ProvWork \/ ImportProviders \/ RestartProviders

ProvSpec == ProvInit /\ [][ProvNext]_provVars

-----------------------------------------------------------------------------
(* ModelResolver: the selected model, else the default of the workspace, among    *)
(* the registered ones; a model that declares no capabilities may have them all. *)
Able(model, requirements) == model.capabilities = {} \/ requirements \subseteq model.capabilities
Resolution(selected, default, registered, requirements, provider) ==
    LET wanted == IF selected # "none" THEN selected ELSE default
    IN  CASE wanted = "none" -> "binding-not-found"
          [] wanted \notin DOMAIN registered -> "model-unavailable"
          [] OTHER ->
               IF registered[wanted].availability # "available" THEN "model-unavailable"
               ELSE IF ~Able(registered[wanted], requirements) THEN "capability-mismatch"
               ELSE IF provider \notin {"available", "degraded"} THEN "provider-unavailable"
               ELSE wanted

(* A model the user selected is used or refused, never exchanged for the default; *)
(* what is used can do the task; and a refusal that blames the provider or what   *)
(* the model can do is given only when nothing before it is wrong.              *)
ResolutionIsExplained ==
    LET Models == [availability : {"available", "disabled"}, capabilities : SUBSET {"chat", "tools"}]
        usable(m) == m.availability = "available"
    IN  \A registered \in UNION {[S -> Models] : S \in SUBSET {"m1", "m2"}},
           selected, default \in {"none", "m1", "m2"}, needs \in SUBSET {"chat", "tools"},
           provider \in {"available", "degraded", "offline"} :
            LET answer == Resolution(selected, default, registered, needs, provider)
                known(m) == m \in DOMAIN registered /\ usable(registered[m])
            IN  /\ selected # "none" => answer \notin {"m1", "m2"} \ {selected}
                /\ answer \in {"m1", "m2"} =>
                       /\ known(answer) /\ provider # "offline"
                       /\ needs \subseteq registered[answer].capabilities \/ registered[answer].capabilities = {}
                /\ answer = "capability-mismatch" => \E m \in {selected, default} : known(m)
                /\ answer = "provider-unavailable" =>
                       provider = "offline" /\ \E m \in {selected, default} : known(m)
                /\ answer = "model-unavailable" => \E m \in {selected, default} \ {"none"} : ~known(m)
                /\ answer = "binding-not-found" <=> selected = "none" /\ default = "none"

ProvTypeOK ==
    /\ provRows \in [ProviderIds -> ProviderRows] /\ vault \subseteq 1..MaxRefs
    /\ \A id \in ProviderIds : {models[id].number, catalog[id].number} \subseteq 0..MaxListings
    /\ \A r \in refreshes : r.id \in ProviderIds
    /\ untidy \subseteq {"vault", "import", "models"}

(* No row refers to a credential the vault no longer has, whatever crashed. *)
RowsHaveCredentials == HeldReferences \subseteq vault

(* Between operations the vault holds the rows' credentials and no others, and   *)
(* there is an adapter for each row and for nothing else.                      *)
StoresAgree ==
    operation = NoOperation =>
        /\ "vault" \notin untidy => vault = HeldReferences
        /\ "import" \notin untidy => {id \in ProviderIds : adapters[id] # 0} = Rows

(* Memory and database hold the same listing, and none of a provider that was   *)
(* removed, unless the removal was cut by a crash.                             *)
CatalogFollowsProviders ==
    "import" \notin untidy =>
        /\ models = catalog
        /\ operation = NoOperation /\ "models" \notin untidy =>
               \A id \in ProviderIds : catalog[id] # NoListing => id \in Rows

(* A listing is replaced by a later one of the adapter in use, never an older one. *)
ListingsMoveForward ==
    \A id \in ProviderIds : models'[id] \notin {NoListing, models[id], catalog[id]} =>
        models'[id].adapter = adapters[id] /\ models'[id].number > models[id].number
=============================================================================
