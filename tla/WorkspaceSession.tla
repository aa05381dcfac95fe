---------------------------- MODULE WorkspaceSession ----------------------------
(* Which project the window is on: the workspaces main knows and may use, the  *)
(* conversations that belong to them, the window's copy of both, the opening   *)
(* of a conversation with its reauthorization and relocation, and the calls    *)
(* that make main's file watcher follow the window.                            *)
EXTENDS Naturals, Sequences, FiniteSets

CONSTANTS Folders,      \* folders of the disk a project can be in
          Chats,        \* conversation -> the folder it belongs to at the start
          MaxFlows,     \* bound: what the developer starts
          MaxMoves      \* bound: folders moved on the disk and taken from the list

VARIABLES present,      \* folders that are on the disk
          moves,        \* folders moved or taken from the list so far
          workspaces,   \* folder -> "unknown", "restored" (not authorized) or "authorized"
          belongs,      \* conversation -> the folder of its row
          removed,      \* history: folders taken from the list and not authorized since
          session,      \* of the window: workspace, listed (authorized and available),
                        \* chats (its copy of belongs), active, request (the last opening)
          flows,        \* what the developer started: its kind, chat, step, selected
          watchQueue,   \* watch calls of the window: a folder, or NoFolder to stop
          starting,     \* main has stopped the old watcher and is starting the next
          watching      \* the folder of main's watcher

sessionVars == <<present, moves, workspaces, belongs, removed, session, flows, watchQueue,
                 starting, watching>>

NoFolder == "noFolder"
NoChat == "noConversation"
WatchRefused == "refused"

(* inspectWorkspaceScope, for a folder that is no system directory and can be  *)
(* read: it is available, or missing.                                          *)
Available(f) == f \in present

(* workspace.list: authorized in the table and available on the disk. *)
AuthorizedFolders == {f \in Folders : workspaces[f] = "authorized"}
Listed == {f \in AuthorizedFolders : Available(f)}

FirstSession == [workspace |-> NoFolder, listed |-> Listed, chats |-> Chats,
                 active |-> NoChat, request |-> 0]

SessionInit ==
    /\ present \in SUBSET Folders
    /\ moves = 0
    /\ workspaces \in [Folders -> {"unknown", "restored", "authorized"}]
    /\ \A c \in DOMAIN Chats : workspaces[Chats[c]] # "unknown"
    /\ belongs = Chats /\ removed = {}
    /\ session = FirstSession
    /\ flows = <<>> /\ watchQueue = <<>> /\ starting = FALSE /\ watching = NoFolder

(* The project is moved or renamed, or comes back. *)
MoveFolder(f, g) ==
    /\ moves < MaxMoves /\ f \in present /\ g \notin present
    /\ moves' = moves + 1
    /\ present' = (present \ {f}) \cup {g}
    /\ UNCHANGED <<workspaces, belongs, removed, session, flows, watchQueue, starting, watching>>

(* workspace.remove, which the preload exposes and no part of the window calls:  *)
(* the row goes, and what hangs on it; its conversations stay as they are.     *)
RemoveWorkspace(f) ==
    /\ moves < MaxMoves /\ workspaces[f] # "unknown"
    /\ moves' = moves + 1
    /\ workspaces' = [workspaces EXCEPT ![f] = "unknown"]
    /\ removed' = removed \cup {f}
    /\ UNCHANGED <<present, belongs, session, flows, watchQueue, starting, watching>>

-----------------------------------------------------------------------------
(* useWorkspaceWatcher: when the workspace or its authorization changes, the   *)
(* old effect stops the watcher and the new one starts it, through one queue.  *)
Watched(s) == IF s.workspace \in s.listed THEN s.workspace ELSE NoFolder

EnqueueWatch(queue, f) == Append(queue, f)

Show(s) ==
    /\ session' = s
    /\ watchQueue' =
         LET stopped == IF Watched(session) # NoFolder
                        THEN EnqueueWatch(watchQueue, NoFolder) ELSE watchQueue
         IN IF Watched(s) = Watched(session) THEN watchQueue
            ELSE IF Watched(s) = NoFolder THEN stopped ELSE EnqueueWatch(stopped, Watched(s))

(* The next call is made when the one before it is answered. Main stops first; *)
(* a workspace that is not authorized or gone is refused and nothing is        *)
(* stopped.                                                                    *)
MainStops ==
    /\ watchQueue # <<>> /\ ~starting
    /\ LET f == Head(watchQueue) IN
       IF f \in Listed /\ f # watching
       THEN starting' = TRUE /\ watching' = NoFolder /\ UNCHANGED watchQueue
       ELSE /\ watchQueue' = Tail(watchQueue)
            /\ watching' = CASE f = NoFolder -> NoFolder
                             [] f = watching -> f
                             [] OTHER -> IF watching = NoFolder THEN WatchRefused ELSE watching
            /\ UNCHANGED starting
    /\ UNCHANGED <<present, moves, workspaces, belongs, removed, session, flows>>

MainStarts ==
    /\ starting
    /\ starting' = FALSE
    /\ watchQueue' = Tail(watchQueue)
    /\ watching' \in {Head(watchQueue), WatchRefused}
    /\ UNCHANGED <<present, moves, workspaces, belongs, removed, session, flows>>

-----------------------------------------------------------------------------
(* What the developer starts, and the answers it waits for in turn.            *)
Flow(kind, chat, step) == [kind |-> kind, chat |-> chat, step |-> step, selected |-> NoFolder]
StartFlow(flow) == Len(flows) < MaxFlows /\ flows' = Append(flows, flow)
FlowAt(i, kind, step) == flows[i].kind = kind /\ flows[i].step = step
GoOn(i, step) == flows' = [flows EXCEPT ![i].step = step]
Latest(i) == session.request = i /\ session.active = flows[i].chat
unwatched == <<starting, watching>>
tables == <<present, moves, workspaces, belongs, removed>>

(* openConversation and chooseSavedWorkspace, up to the page asked for. *)
OpenConversation(c) ==
    /\ StartFlow(Flow("open", c, "page"))
    /\ session' = [session EXCEPT !.active = c, !.request = Len(flows) + 1]
    /\ UNCHANGED <<tables, watchQueue, unwatched>>

ChooseSavedWorkspace(f) ==
    /\ workspaces[f] # "unknown"
    /\ LET own == {c \in DOMAIN session.chats : session.chats[c] = f} IN
       IF own = {}
       THEN /\ StartFlow(Flow("choose", NoChat, "done"))
            /\ Show([session EXCEPT !.workspace = f, !.active = NoChat])
       ELSE \E c \in own :
            /\ StartFlow(Flow("open", c, "page"))
            /\ Show([session EXCEPT !.workspace = f, !.active = c, !.request = Len(flows) + 1])
    /\ UNCHANGED <<tables, unwatched>>

PageShown(i) ==
    /\ FlowAt(i, "open", "page")
    /\ IF Latest(i)
       THEN /\ Show([session EXCEPT !.workspace = session.chats[flows[i].chat]])
            /\ GoOn(i, IF session.chats[flows[i].chat] \in session.listed
                       THEN "done" ELSE "confirm")
       ELSE GoOn(i, "done") /\ UNCHANGED <<session, watchQueue>>
    /\ UNCHANGED <<tables, unwatched>>

(* workspace.select with an expected folder: the same folder is authorized     *)
(* again; another one, when the expected is gone, takes over all its rows.     *)
Touch(f) ==
    /\ workspaces' = [workspaces EXCEPT ![f] = "authorized"]
    /\ removed' = removed \ {f}
    /\ UNCHANGED belongs

RelocateWorkspace(from, to) ==
    /\ workspaces[from] # "unknown" /\ workspaces[to] = "unknown"
    /\ workspaces' = [workspaces EXCEPT ![from] = "unknown", ![to] = "authorized"]
    /\ belongs' = [c \in DOMAIN belongs |-> IF belongs[c] = from THEN to ELSE belongs[c]]
    /\ removed' = removed \ {to}

Confirmed(i) ==
    /\ FlowAt(i, "open", "confirm")
    /\ LET expected == session.chats[flows[i].chat] IN
       \/ GoOn(i, "done") /\ UNCHANGED <<workspaces, belongs, removed>>
       \/ /\ Latest(i)
          /\ \E f \in Folders :
               /\ Available(f)
               /\ IF f = expected THEN Touch(f)
                  ELSE ~Available(expected) /\ RelocateWorkspace(expected, f)
               /\ flows' = [flows EXCEPT ![i].step = "list", ![i].selected = f]
    /\ UNCHANGED <<present, moves, session, watchQueue, unwatched>>

(* The list and the folder are shown whatever was opened meanwhile. *)
Reauthorized(i) ==
    /\ FlowAt(i, "open", "list")
    /\ Show([session EXCEPT !.listed = Listed, !.workspace = flows[i].selected])
    /\ GoOn(i, IF flows[i].selected = session.chats[flows[i].chat] THEN "done" ELSE "refresh")
    /\ UNCHANGED <<tables, unwatched>>

ConversationsRefreshed(i) ==
    /\ FlowAt(i, "open", "refresh")
    /\ session' = [session EXCEPT !.chats = belongs]
    /\ GoOn(i, "done")
    /\ UNCHANGED <<tables, watchQueue, unwatched>>

(* selectWorkspace: the folder is shown before the list that authorizes it. *)
SelectWorkspace(f) ==
    /\ Available(f)
    /\ StartFlow(Flow("select", NoChat, "list"))
    /\ Touch(f)
    /\ Show([session EXCEPT !.workspace = f])
    /\ UNCHANGED <<present, moves, unwatched>>

(* favoriteWorkspace of a folder main may use; the list is taken as it is then. *)
FavoriteWorkspace(f) ==
    /\ f \in Listed
    /\ StartFlow(Flow("favorite", NoChat, "list"))
    /\ UNCHANGED <<tables, session, watchQueue, unwatched>>

Relisted(i) ==
    /\ FlowAt(i, "select", "list") \/ FlowAt(i, "favorite", "list")
    /\ Show([session EXCEPT !.listed = Listed])
    /\ GoOn(i, "done")
    /\ UNCHANGED <<tables, unwatched>>

SessionNext ==
    \/ MainStops \/ MainStarts
    \/ \E f, g \in Folders : MoveFolder(f, g)
    \/ \E c \in DOMAIN Chats : OpenConversation(c)
    \/ \E f \in Folders : \/ RemoveWorkspace(f) \/ FavoriteWorkspace(f)
                         \/ ChooseSavedWorkspace(f) \/ SelectWorkspace(f)
    \/ \E i \in DOMAIN flows : PageShown(i) \/ Confirmed(i) \/ Reauthorized(i)
                               \/ ConversationsRefreshed(i) \/ Relisted(i)

SessionSpec == SessionInit /\ [][SessionNext]_sessionVars

-----------------------------------------------------------------------------
SessionTypeOK ==
    /\ workspaces \in [Folders -> {"unknown", "restored", "authorized"}]
    /\ belongs \in [DOMAIN Chats -> Folders] /\ session.chats \in [DOMAIN Chats -> Folders]
    /\ session.workspace \in Folders \cup {NoFolder} /\ session.listed \subseteq Folders
    /\ removed \subseteq Folders /\ Len(flows) <= MaxFlows /\ watching \in Folders \cup {NoFolder, WatchRefused}

(* When every watch call is answered, main watches the folder the window is on *)
(* and may use, or main has refused it and watches none: a late stop of an old *)
(* effect never ends the watcher that replaced it, and no other folder is      *)
(* left watched.                                                               *)
WatcherFollowsWindow ==
    watchQueue = <<>> => watching \in {Watched(session), WatchRefused}
                         /\ (watching = WatchRefused => Watched(session) # NoFolder)

(* A conversation always belongs to a project main knows, also when the        *)
(* project was relocated while another conversation of it was being opened, or *)
(* to one that was taken from the list and was not authorized since.           *)
ConversationsKeepTheirProject ==
    \A c \in DOMAIN belongs : workspaces[belongs[c]] = "unknown" => belongs[c] \in removed
=============================================================================
