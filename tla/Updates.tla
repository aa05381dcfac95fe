-------------------------------- MODULE Updates --------------------------------
(* UpdateService, the IPC handlers of registerUpdateIpc and the renderer's      *)
(* useUpdateStore.  The updater (electron-updater) is external: it emits its    *)
(* event and later settles the call.  Versions, progress and texts are left out.*)
EXTENDS Naturals, Sequences

CONSTANTS MaxMessages,  \* bound: messages on their way to the renderer
          MaxConsumers  \* bound: mounted components that use the store

VARIABLES updState,         \* `state` of the service
          checkCall,        \* checkingPromise: what the updater has said so far, or "none"
          downloadCall,     \* downloadPromise is set
          availableUpdate,  \* an update has been found
          installRequested, updDisposed,
          replies,          \* the invocations of the renderer still to be answered
          toRenderer,       \* states on their way to the renderer, in order
          store,            \* the store: state, and whether it is initialized
          bridge,           \* bridgeCleanup is set: the store listens to events
          hydrating,        \* hydrationPromise is set
          consumers         \* mountedConsumers

updVars == <<updState, checkCall, downloadCall, availableUpdate, installRequested, updDisposed,
             replies, toRenderer, store, bridge, hydrating, consumers>>
rendererVars == <<store, bridge, hydrating, consumers>>

Statuses == {"idle", "checking", "available", "downloading", "ready", "up-to-date",
             "error-check", "error-download", "error-install"}
Busy == {"available", "downloading", "ready"}   \* statuses a check leaves alone

UpdInit ==
    /\ updState = "idle" /\ checkCall = "none" /\ downloadCall = FALSE
    /\ availableUpdate = FALSE /\ installRequested = FALSE /\ updDisposed = FALSE
    /\ replies = {} /\ toRenderer = <<>>
    /\ store = [state |-> "none", initialized |-> FALSE]
    /\ bridge = FALSE /\ hydrating = FALSE /\ consumers = 0

Message(kind, state) == [kind |-> kind, state |-> state]
Replies(kinds, state) ==
    IF kinds = {} THEN <<>> ELSE <<Message(CHOOSE k \in kinds : TRUE, state)>>

(* publish(next), then the reply of the invocations it settles, all of a kind.  *)
(* A disposed service keeps its state and has no listener left.                *)
Publish(next, settled) ==
    /\ Len(toRenderer) < MaxMessages
    /\ IF updDisposed \/ next = updState
       THEN UNCHANGED updState /\ toRenderer' = toRenderer \o Replies(settled, updState)
       ELSE /\ updState' = next
            /\ toRenderer' = toRenderer \o <<Message("event", next)>> \o Replies(settled, next)
    /\ replies' = replies \ settled

-----------------------------------------------------------------------------
(* checkForUpdates: a check under way is joined, and nothing is looked for once  *)
(* an update was found.  `asks` tells an invocation from the timers.           *)
CheckForUpdates(asks) ==
    /\ IF updDisposed \/ checkCall # "none" \/ updState \in Busy
       THEN /\ asks /\ checkCall = "none"
            /\ Publish(updState, {"check"}) /\ UNCHANGED checkCall
       ELSE /\ Publish("checking", {}) /\ checkCall' = "asked"
    /\ UNCHANGED <<downloadCall, availableUpdate, installRequested, updDisposed, rendererVars>>

JoinCheck ==
    /\ checkCall # "none" /\ "check" \notin replies /\ replies' = replies \cup {"check"}
    /\ UNCHANGED <<updState, checkCall, downloadCall, availableUpdate, installRequested,
                   updDisposed, toRenderer, rendererVars>>

(* setAvailable and onNotAvailable. *)
AfterAvailable == IF updState \in {"downloading", "ready"} THEN updState ELSE "available"
AfterNotAvailable == IF updState \in Busy THEN updState ELSE "up-to-date"

UpdaterAnswers(found) ==
    /\ checkCall = "asked" /\ ~updDisposed
    /\ checkCall' = IF found THEN "found" ELSE "nothing"
    /\ availableUpdate' = (availableUpdate \/ found)
    /\ Publish(IF found THEN AfterAvailable ELSE AfterNotAvailable, {})
    /\ UNCHANGED <<downloadCall, installRequested, updDisposed, rendererVars>>

(* The check's promise settles; without an event before it, it has failed. *)
CheckSettles ==
    /\ checkCall # "none" /\ checkCall' = "none"
    /\ Publish(IF updState = "checking" THEN "error-check" ELSE updState, replies \cap {"check"})
    /\ UNCHANGED <<downloadCall, availableUpdate, installRequested, updDisposed, rendererVars>>

(* downloadUpdate and retryDownload. *)
CanDownload == availableUpdate /\ updState \in {"available", "error-download"}
Download ==
    /\ CanDownload /\ ~downloadCall /\ ~updDisposed /\ downloadCall' = TRUE
    /\ Publish("downloading", {})
    /\ UNCHANGED <<checkCall, availableUpdate, installRequested, updDisposed, rendererVars>>

Downloaded ==
    /\ downloadCall /\ ~updDisposed /\ downloadCall' = FALSE
    /\ Publish("ready", {})
    /\ UNCHANGED <<checkCall, availableUpdate, installRequested, updDisposed, rendererVars>>

DownloadFailsSilently ==
    /\ downloadCall /\ downloadCall' = FALSE
    /\ Publish(updState, {})
    /\ UNCHANGED <<checkCall, availableUpdate, installRequested, updDisposed, rendererVars>>
DownloadFails ==
    /\ downloadCall /\ downloadCall' = FALSE
    /\ Publish(IF updState = "downloading" THEN "error-download" ELSE updState, {})
    /\ UNCHANGED <<checkCall, availableUpdate, installRequested, updDisposed, rendererVars>>

Install ==
    /\ updState = "ready" /\ ~installRequested /\ ~updDisposed /\ installRequested' = TRUE
    /\ UNCHANGED <<updState, checkCall, downloadCall, availableUpdate, updDisposed, replies,
                   toRenderer, rendererVars>>
InstallFails ==
    /\ installRequested /\ ~updDisposed /\ installRequested' = FALSE
    /\ Publish("error-install", {})
    /\ UNCHANGED <<checkCall, downloadCall, availableUpdate, updDisposed, rendererVars>>

DisposeUpdates ==
    /\ ~updDisposed /\ updDisposed' = TRUE
    /\ UNCHANGED <<updState, checkCall, downloadCall, availableUpdate, installRequested, replies,
                   toRenderer, rendererVars>>

AnswerState ==
    /\ "state" \in replies /\ Publish(updState, {"state"})
    /\ UNCHANGED <<checkCall, downloadCall, availableUpdate, installRequested, updDisposed,
                   rendererVars>>

-----------------------------------------------------------------------------
(* mount: the first consumer opens the bridge, then the state is asked for. *)
Mount ==
    /\ consumers < MaxConsumers /\ consumers' = consumers + 1
    /\ bridge' = TRUE /\ hydrating' = TRUE
    /\ replies' = IF hydrating THEN replies ELSE replies \cup {"state"}
    /\ UNCHANGED <<updState, checkCall, downloadCall, availableUpdate, installRequested,
                   updDisposed, toRenderer, store>>

Unmount ==
    /\ consumers > 0 /\ consumers' = consumers - 1
    /\ IF consumers = 1
       THEN bridge' = FALSE /\ hydrating' = FALSE /\ store' = [store EXCEPT !.initialized = FALSE]
       ELSE UNCHANGED <<bridge, hydrating, store>>
    /\ UNCHANGED <<updState, checkCall, downloadCall, availableUpdate, installRequested,
                   updDisposed, replies, toRenderer>>

(* A reply is applied even after an unmount, an event only over the bridge. *)
Deliver ==
    /\ toRenderer # <<>> /\ toRenderer' = Tail(toRenderer)
    /\ LET m == Head(toRenderer)
       IN  /\ store' = IF m.kind # "event" \/ bridge
                       THEN [state |-> m.state, initialized |-> TRUE] ELSE store
           /\ hydrating' = (hydrating /\ m.kind # "state")
    /\ UNCHANGED <<updState, checkCall, downloadCall, availableUpdate, installRequested,
                   updDisposed, replies, bridge, consumers>>

UpdaterWork == \E found \in BOOLEAN : UpdaterAnswers(found)
UpdWork == CheckSettles \/ Downloaded \/ DownloadFails \/ AnswerState \/ Deliver

UpdNext ==
    \/ \E asks \in BOOLEAN : CheckForUpdates(asks)
    \/ JoinCheck \/ Download \/ Install \/ InstallFails \/ DisposeUpdates
    \/ UpdaterWork \/ UpdWork \/ Mount \/ Unmount

(* The service and the store, whatever the updater does. *)
UpdSpec == UpdInit /\ [][UpdNext]_updVars

-----------------------------------------------------------------------------
UpdTypeOK ==
    /\ updState \in Statuses /\ checkCall \in {"none", "asked", "found", "nothing"}
    /\ replies \subseteq {"check", "state"} /\ consumers \in 0..MaxConsumers
    /\ {downloadCall, availableUpdate, installRequested, updDisposed, bridge, hydrating}
           \subseteq BOOLEAN
    /\ store.state \in Statuses \cup {"none"}
    /\ \A i \in DOMAIN toRenderer : toRenderer[i].state \in Statuses

(* A status that shows work has the updater's call behind it: nothing else could *)
(* leave it, for neither a check nor a download starts from it.                *)
BusyStatusHasCall ==
    ~updDisposed => /\ updState = "checking" => checkCall # "none"
                    /\ updState = "downloading" <=> downloadCall

(* A mounted store that has nothing on its way shows the service's state. *)
StoreIsCurrent ==
    consumers > 0 /\ toRenderer = <<>> /\ "state" \notin replies => store.state = updState
=============================================================================
