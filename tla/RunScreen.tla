-------------------------------- MODULE RunScreen --------------------------------
(* The run of an agent as the window shows it: the submit, the statuses and    *)
(* events of the main process (which arrive in the order they were sent, as    *)
(* its replies are), the buffered stream, the end of a turn and the pages of   *)
(* messages. A run is named for its submit.                                    *)
EXTENDS Naturals, Sequences, FiniteSets

CONSTANTS Talks,        \* conversations
          MaxSubmits,   \* bound: prompts submitted
          MaxDeltas,    \* bound: pieces of text of one run
          MaxPages,     \* bound: conversations opened
          MaxWire       \* bound: the main process runs at most that far ahead

VARIABLES main,         \* AiExecutionCoordinator.active
          wire,         \* events and replies on their way to the window
          sends,        \* submit -> where its ai.send call is
          cancels,      \* conversations ai.cancel was called for
          stored,       \* assistant messages in the database, as <<run, writer>>
          screen,       \* the store: conversation, status, stream, messages
          buffer,       \* deltas not yet on the screen
          turn,         \* activeTurnRef
          runs,         \* active run, retired runs, last sequence of each run;
                        \* history: a prompt came before the last one was over
          finishing,    \* run -> where finishTurn is, and for which turn
          pages         \* pages of messages asked for

runVars == <<main, wire, sends, cancels, stored, screen, buffer, turn, runs,
             finishing, pages>>

Submits == 1 .. MaxSubmits
NoTurn == [id |-> 0, talk |-> "none"]
Idle == [run |-> 0, talk |-> "none", phase |-> "none", seq |-> 0, deltas |-> 0,
         outcome |-> "none", stored |-> FALSE]

RunInit ==
    /\ main = Idle /\ wire = <<>> /\ cancels = {} /\ stored = {}
    /\ sends = [i \in Submits |-> [step |-> "none", talk |-> "none"]]
    /\ screen \in {[talk |-> c, status |-> "ready", finalizing |-> FALSE,
                    stream |-> <<>>, messages |-> <<>>, reads |-> 0] : c \in Talks}
    /\ buffer = <<>> /\ turn = NoTurn
    /\ runs = [active |-> 0, retired |-> {}, overlap |-> FALSE,
              accepted |-> [i \in Submits |-> 0]]
    /\ finishing = [i \in Submits |-> [step |-> "none", turn |-> 0]]
    /\ pages = {}

Locked == screen.status \in {"busy", "cancelling"} \/ screen.finalizing

-----------------------------------------------------------------------------
(* The main process. *)
Pushed(m, contents) ==
    [i \in DOMAIN contents |->
        [kind |-> contents[i][1], what |-> contents[i][2], run |-> m.run,
         talk |-> m.talk, seq |-> m.seq + i]]

Push(m, contents) ==
    /\ wire' = wire \o Pushed(m, contents)
    /\ main' = [m EXCEPT !.seq = @ + Len(contents)]

Reply(kind, what, run, talk) ==
    <<[kind |-> kind, what |-> what, run |-> run, talk |-> talk, seq |-> 0]>>

(* startProvider's reserve, after the steps that may fail before it. *)
Reserve(i) ==
    /\ sends[i].step = "asked"
    /\ main.run = 0
    /\ Push([Idle EXCEPT !.run = i, !.talk = sends[i].talk, !.phase = "planning"],
            <<<<"status", "busy">>>>)
    /\ sends' = [sends EXCEPT ![i].step = "starting"]
    /\ UNCHANGED <<cancels, stored, screen, buffer, turn, runs, finishing, pages>>

(* A step before it fails, or another run is active. *)
Refuse(i) ==
    /\ sends[i].step = "asked"
    /\ wire' = wire \o Reply("refused", "send", i, "none")
    /\ sends' = [sends EXCEPT ![i].step = "done"]
    /\ UNCHANGED <<main, cancels, stored, screen, buffer, turn, runs, finishing, pages>>

Started(i) ==
    /\ sends[i].step = "starting" /\ main.run = i
    /\ sends' = [sends EXCEPT ![i].step = "done"]
    /\ IF main.phase = "planning"
       THEN Push([main EXCEPT !.phase = "running"], <<<<"status", "busy">>>>)
       ELSE UNCHANGED <<main, wire>>
    /\ UNCHANGED <<cancels, stored, screen, buffer, turn, runs, finishing, pages>>

StartFails(i) ==
    /\ sends[i].step = "starting" /\ main.run = i
    /\ sends' = [sends EXCEPT ![i].step = "done"]
    /\ wire' = wire \o Pushed(main, <<<<"status", "failed">>>>)
                    \o Reply("refused", "send", i, "none")
    /\ main' = Idle
    /\ UNCHANGED <<cancels, stored, screen, buffer, turn, runs, finishing, pages>>

Delta ==
    /\ main.phase = "running" /\ main.deltas < MaxDeltas
    /\ Push([main EXCEPT !.deltas = @ + 1], <<<<"delta", main.deltas + 1>>>>)
    /\ UNCHANGED <<sends, cancels, stored, screen, buffer, turn, runs, finishing, pages>>

(* persistAndComplete, up to its await. The message may fail to be stored. *)
Finishes(outcome, saved) ==
    /\ main.phase \in {"running", "cancelling"} /\ sends[main.run].step = "done"
    /\ saved => main.deltas > 0
    /\ main' = [main EXCEPT !.phase = "finishing", !.outcome = outcome, !.stored = saved]
    /\ stored' = IF saved THEN stored \cup {<<main.run, "main">>} ELSE stored
    /\ UNCHANGED <<wire, sends, cancels, screen, buffer, turn, runs, finishing, pages>>

Finished ==
    /\ main.phase = "finishing"
    /\ wire' = wire \o Pushed(main, <<<<"status", main.outcome>>,
                                      <<"completed", IF main.stored THEN 1 ELSE 0>>>>)
    /\ main' = Idle
    /\ UNCHANGED <<sends, cancels, stored, screen, buffer, turn, runs, finishing, pages>>

(* AiExecutionCoordinator.cancel. *)
MainCancels(c) ==
    /\ c \in cancels
    /\ cancels' = cancels \ {c}
    /\ IF main.run = 0 \/ main.talk # c \/ main.phase = "finishing"
       THEN wire' = wire \o Reply("refused", "cancel", 0, c) /\ UNCHANGED main
       ELSE Push([main EXCEPT !.phase = "cancelling"], <<<<"status", "cancelling">>>>)
    /\ UNCHANGED <<sends, stored, screen, buffer, turn, runs, finishing, pages>>

Messages(talk) == {m \in stored : sends[m[1]].talk = talk}
InOrder(set) == CHOOSE s \in [1 .. Cardinality(set) -> set] :
                    \A i, j \in DOMAIN s : i < j => s[i] # s[j] /\ s[i][1] <= s[j][1]

(* conversations.messagePage. *)
PageRead(p) ==
    /\ p \in pages
    /\ pages' = pages \ {p}
    /\ wire' = wire \o Reply("page", InOrder(Messages(p.talk)),
                             IF p.kind = "open" THEN 1 ELSE 0, p.talk)
    /\ UNCHANGED <<main, sends, cancels, stored, screen, buffer, turn, runs, finishing>>

(* The main process had not stored the answer: the window asks it to. *)
SaveAnswer(i) ==
    /\ finishing[i].step = "saving"
    /\ stored' = stored \cup {<<i, "window">>}
    /\ finishing' = [finishing EXCEPT ![i].step = "answered"]
    /\ wire' = wire \o Reply("saved", 0, i, "none")
    /\ UNCHANGED <<main, sends, cancels, screen, buffer, turn, runs, pages>>

-----------------------------------------------------------------------------
(* The user. *)
Retiring == [runs EXCEPT !.active = 0, !.retired = @ \cup ({runs.active} \ {0})]
AllOver == main = Idle /\ wire = <<>> /\ \A j \in Submits : sends[j].step \in {"none", "done"}

(* submitPrompt, from the end of its waits (the latest page, a conversation to *)
(* create) to ai.send. One prompt waits at a time.                             *)
Submit(i) ==
    /\ ~Locked
    /\ sends[i].step = "none" /\ \A j \in Submits : j < i => sends[j].step # "none"
    /\ runs' = [Retiring EXCEPT !.overlap = @ \/ ~AllOver]
    /\ turn' = [id |-> i, talk |-> screen.talk]
    /\ screen' = [screen EXCEPT !.status = "busy", !.stream = <<>>]
    /\ sends' = [sends EXCEPT ![i] = [step |-> "asked", talk |-> screen.talk]]
    /\ UNCHANGED <<main, wire, cancels, stored, buffer, finishing, pages>>

(* openConversation: any other one only when nothing is locked; the page it    *)
(* asked before is no longer waited for.                                       *)
Asked(kind, talk) == [kind |-> kind, talk |-> talk]

AwaitedPage(m) == m.kind = "page" /\ m.run # 0
Unawaited(messages) ==
    LET kept[n \in 0 .. Len(messages)] ==
            IF n = 0 THEN <<>>
            ELSE IF AwaitedPage(messages[n]) THEN kept[n - 1]
            ELSE Append(kept[n - 1], messages[n])
    IN  kept[Len(messages)]

Open(c) ==
    /\ screen.reads < MaxPages
    /\ ~Locked \/ c = screen.talk
    /\ screen' = [screen EXCEPT !.talk = c, !.stream = <<>>, !.reads = @ + 1]
    /\ pages' = {p \in pages : p.kind # "open"} \cup {Asked("open", c)}
    /\ wire' = Unawaited(wire)
    /\ UNCHANGED <<main, sends, cancels, stored, buffer, turn, runs, finishing>>

Cancel ==
    /\ screen.status = "busy"
    /\ cancels' = cancels \cup {screen.talk}
    /\ screen' = [screen EXCEPT !.status = "cancelling"]
    /\ UNCHANGED <<main, wire, sends, stored, buffer, turn, runs, finishing, pages>>

-----------------------------------------------------------------------------
(* What the window does with a message of the main process. *)
FlushStream ==
    /\ buffer # <<>>
    /\ screen' = [screen EXCEPT !.stream = @ \o buffer]
    /\ buffer' = <<>>
    /\ UNCHANGED <<main, wire, sends, cancels, stored, turn, runs, finishing, pages>>

Fresh(m) == m.run \notin runs.retired /\ m.seq > runs.accepted[m.run]

Noted(m) == [runs EXCEPT !.accepted[m.run] = m.seq]

(* The first message of a run names the run of the turn. *)
Adopted(m) == [Noted(m) EXCEPT !.active = IF runs.active = 0 THEN m.run ELSE @]
Ours(m) == turn # NoTurn /\ m.talk = turn.talk /\ runs.active \in {0, m.run}

StatusArrives(m) ==
    /\ m.kind = "status"
    /\ IF ~Fresh(m) THEN UNCHANGED <<screen, runs>>
       ELSE IF ~Ours(m) THEN runs' = Noted(m) /\ UNCHANGED screen
       ELSE /\ runs' = Adopted(m)
            /\ screen' = [screen EXCEPT !.status = m.what,
                              !.finalizing = @ \/ m.what = "completed"]
    /\ UNCHANGED <<buffer, turn, finishing, pages>>

DeltaArrives(m) ==
    /\ m.kind = "delta"
    /\ IF ~Fresh(m) THEN UNCHANGED <<buffer, runs>>
       ELSE IF ~Ours(m) THEN runs' = Noted(m) /\ UNCHANGED buffer
       ELSE runs' = Adopted(m) /\ buffer' = Append(buffer, <<m.run, m.what>>)
    /\ UNCHANGED <<screen, turn, finishing, pages>>

Shown(talk, message) ==
    IF screen.talk # talk \/ \E i \in DOMAIN screen.messages : screen.messages[i] = message
    THEN screen.messages ELSE Append(screen.messages, message)

(* turn/completed of the turn: finishTurn up to its first await. The window    *)
(* gives the answer up when what it would store beside it is over the limit.   *)
FinishTurn(m) ==
    LET text == screen.stream \o buffer
        At(step) == [finishing EXCEPT ![m.run] = [step |-> step, turn |-> turn.id]]
    IN
    /\ runs' = [Adopted(m) EXCEPT !.retired = @ \cup {m.run}]
    /\ buffer' = <<>>
    /\ IF m.what = 1
       THEN /\ screen' = [screen EXCEPT !.finalizing = TRUE, !.stream = <<>>,
                              !.messages = Shown(turn.talk, <<m.run, "main">>)]
            /\ finishing' = At("refreshing")
       ELSE \/ /\ screen' = [screen EXCEPT !.finalizing = TRUE, !.stream = text]
               /\ finishing' = At(IF text = <<>> THEN "refreshing" ELSE "saving")
            \/ /\ text # <<>>
               /\ screen' = [screen EXCEPT !.finalizing = TRUE, !.stream = <<>>]
               /\ finishing' = At("refreshing")

(* turn/completed of another conversation's run, or of one whose turn is gone. *)
CompletedElsewhere(m) ==
    LET new == m.what = 1 /\ Shown(m.talk, <<m.run, "main">>) # screen.messages IN
    /\ runs' = [Noted(m) EXCEPT !.retired = @ \cup {m.run}]
    /\ screen' = IF new THEN [screen EXCEPT !.messages = Shown(m.talk, <<m.run, "main">>),
                                            !.stream = <<>>]
                 ELSE screen
    /\ UNCHANGED <<buffer, finishing>>

CompletedArrives(m) ==
    /\ m.kind = "completed"
    /\ IF ~Fresh(m) THEN UNCHANGED <<screen, runs, buffer, finishing>>
       ELSE IF Ours(m) THEN FinishTurn(m)
       ELSE IF turn # NoTurn /\ m.talk = turn.talk
       THEN runs' = Noted(m) /\ UNCHANGED <<screen, buffer, finishing>>
       ELSE CompletedElsewhere(m)
    /\ UNCHANGED <<turn, pages>>

(* ai.send or ai.cancel was refused: what had begun is given up. *)
SendRefused(m) ==
    /\ m.kind = "refused" /\ m.what = "send"
    /\ runs' = Retiring
    /\ turn' = NoTurn
    /\ screen' = [screen EXCEPT !.finalizing = FALSE, !.status = "failed"]
    /\ pages' = pages \cup {Asked("latest", screen.talk)}
    /\ UNCHANGED <<buffer, finishing>>

CancelRefused(m) ==
    /\ m.kind = "refused" /\ m.what = "cancel"
    /\ screen' = [screen EXCEPT !.status = "failed"]
    /\ UNCHANGED <<runs, turn, pages, buffer, finishing>>

(* A page is taken when its conversation is still the open one. *)
PageTaken(m) ==
    /\ m.kind = "page"
    /\ screen' = IF screen.talk = m.talk THEN [screen EXCEPT !.messages = m.what] ELSE screen
    /\ UNCHANGED <<runs, turn, pages, buffer, finishing>>

SavedShown(m) ==
    /\ m.kind = "saved"
    /\ IF finishing[m.run].step = "answered"
       THEN /\ screen' = [screen EXCEPT !.stream = <<>>,
                              !.messages = IF screen.talk = sends[m.run].talk
                                           THEN Append(@, <<m.run, "window">>) ELSE @]
            /\ finishing' = [finishing EXCEPT ![m.run].step = "refreshing"]
       ELSE UNCHANGED <<screen, finishing>>
    /\ UNCHANGED <<runs, turn, pages, buffer>>

Arrives ==
    /\ wire # <<>>
    /\ wire' = Tail(wire)
    /\ LET m == Head(wire) IN
       \/ StatusArrives(m) \/ DeltaArrives(m) \/ CompletedArrives(m)
       \/ SendRefused(m) \/ CancelRefused(m) \/ PageTaken(m) \/ SavedShown(m)
    /\ UNCHANGED <<main, sends, cancels, stored>>

(* finishTurn after its awaits, or when one of them throws. *)
RunForgotten(i) == [runs EXCEPT !.active = IF @ = i THEN 0 ELSE @]

TurnFinished(i) ==
    /\ finishing[i].step = "refreshing"
    /\ finishing' = [finishing EXCEPT ![i].step = "done"]
    /\ turn' = IF turn.id = finishing[i].turn THEN NoTurn ELSE turn
    /\ screen' = [screen EXCEPT !.finalizing = FALSE]
    /\ runs' = RunForgotten(i)
    /\ UNCHANGED <<main, wire, sends, cancels, stored, buffer, pages>>

TurnFinishFails(i) ==
    /\ finishing[i].step \in {"saving", "refreshing"}
    /\ finishing' = [finishing EXCEPT ![i].step = "failed"]
    /\ screen' = [screen EXCEPT !.finalizing = FALSE, !.status = "failed"]
    /\ runs' = RunForgotten(i)
    /\ UNCHANGED <<main, wire, sends, cancels, stored, buffer, turn, pages>>

-----------------------------------------------------------------------------
MainSteps ==
    \/ Finished
    \/ \E o \in {"completed", "failed", "ready"}, saved \in BOOLEAN : Finishes(o, saved)
    \/ \E i \in Submits : Reserve(i) \/ Refuse(i) \/ Started(i) \/ StartFails(i) \/ SaveAnswer(i)
    \/ \E c \in Talks : MainCancels(c)
    \/ \E p \in pages : PageRead(p)

WindowSteps ==
    \/ Arrives \/ FlushStream
    \/ \E i \in Submits : TurnFinished(i) \/ TurnFinishFails(i)

UserSteps ==
    \/ Cancel
    \/ \E i \in Submits : Submit(i)
    \/ \E c \in Talks : Open(c)

Room == Len(wire) < MaxWire

RunNext == (Room /\ (MainSteps \/ Delta)) \/ WindowSteps \/ UserSteps

RunSpec == RunInit /\ [][RunNext]_runVars

(* A run of the agent ends, a handler of the main process answers, the window  *)
(* takes the messages that reach it.                                           *)
RunWork == (Room /\ MainSteps) \/ WindowSteps

-----------------------------------------------------------------------------
RunTypeOK ==
    /\ main.run \in Submits \cup {0} /\ main.deltas \in 0 .. MaxDeltas
    /\ main.phase \in {"none", "planning", "running", "cancelling", "finishing"}
    /\ \A i \in Submits : sends[i].step \in {"none", "asked", "starting", "done"}
    /\ cancels \subseteq Talks
    /\ stored \subseteq Submits \X {"main", "window"}
    /\ screen.talk \in Talks /\ screen.finalizing \in BOOLEAN
    /\ screen.status \in {"ready", "busy", "cancelling", "completed", "failed"}
    /\ turn.id \in Submits \cup {0}
    /\ runs.active \in Submits \cup {0} /\ runs.retired \subseteq Submits

(* The text on the screen and what will be added to it repeats no piece and    *)
(* turns no two around: the pieces of a run are in the order the model wrote   *)
(* them, and never between those of another.                                   *)
StreamInOrder ==
    LET text == screen.stream \o buffer IN
    \A i, j \in DOMAIN text : (i < j /\ text[i][1] = text[j][1]) =>
        /\ text[i][2] < text[j][2]
        /\ \A k \in i .. j : text[k][1] = text[i][1]

(* The answer of a run is stored once and shown once, though it comes with the *)
(* end of the turn, from a page of messages, and from the window's own save.   *)
AnswersOnce ==
    /\ \A i \in Submits : {<<i, "main">>, <<i, "window">>} \subseteq stored => FALSE
    /\ \A i, j \in DOMAIN screen.messages :
           i # j => screen.messages[i][1] # screen.messages[j][1]

(* When nothing is on its way, every stored answer of the open conversation is *)
(* on the screen, unless a prompt was submitted (the window had been unlocked  *)
(* by a failure or a refused cancel) while the run of another was not over.    *)
Quiet == AllOver /\ pages = {} /\ \A i \in Submits : finishing[i].step # "answered"
AnswersShown ==
    Quiet /\ ~runs.overlap =>
        \A m \in Messages(screen.talk) :
            \E i \in DOMAIN screen.messages : screen.messages[i] = m
=============================================================================
