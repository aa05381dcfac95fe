--------------------------- MODULE ConversationScreen ---------------------------
(* The messages of the open conversation: opening, creating and deleting       *)
(* conversations, the latest page, the older pages that are put before it, and *)
(* the limit of what is kept. A message is its number in its conversation. The *)
(* replies reach the window in the order they were sent.                       *)
EXTENDS Integers, Sequences, FiniteSets

CONSTANTS FirstHistory, \* conversation -> messages it has at the start, or Unborn
          Limit,        \* messages of a page
          MaxShown,     \* RENDERER_LIMITS.chatMessages
          MaxHistory,   \* bound: messages of a conversation
          MaxOpens      \* bound: conversations opened or created

VARIABLES history,      \* conversation -> number of its messages, Unborn or Gone
          chat,         \* open conversation, messages shown, page state
          asked,        \* requests of the window, by kind
          replied,      \* replies on their way
          creating,     \* where createConversation is
          opens,        \* conversations opened so far
          outdated      \* history: a page asked before the last opening came

chatScreenVars == <<history, chat, asked, replied, creating, opens, outdated>>

Chats == DOMAIN FirstHistory
None == "none"
Unborn == -1
Gone == -2
NoPages == [offset |-> 0, more |-> FALSE, newer |-> FALSE, loading |-> FALSE]
Empty == [active |-> None, shown |-> <<>>, pages |-> NoPages, loaded |-> FALSE]

ChatScreenInit ==
    /\ history = FirstHistory
    /\ chat = Empty
    /\ asked = {} /\ replied = <<>> /\ creating = None
    /\ opens = 0 /\ outdated = FALSE

Request(kind, c, offset) == [kind |-> kind, chat |-> c, offset |-> offset, opening |-> opens]

-----------------------------------------------------------------------------
(* conversations.messagePage: the newest messages after `offset' of them. *)
LastOf(c, offset) == IF history[c] > offset THEN history[c] - offset ELSE 0
FirstOf(c, offset) == IF LastOf(c, offset) > Limit THEN LastOf(c, offset) - Limit + 1 ELSE 1
PageOf(c, offset) ==
    [k \in 1 .. LastOf(c, offset) + 1 - FirstOf(c, offset) |-> <<c, FirstOf(c, offset) + k - 1>>]

Answer(r) ==
    /\ r \in asked
    /\ asked' = asked \ {r}
    /\ \E failed \in BOOLEAN :
        replied' = Append(replied, [request |-> r, failed |-> failed,
                                    items |-> PageOf(r.chat, r.offset),
                                    more |-> FirstOf(r.chat, r.offset) > 1])
    /\ UNCHANGED <<history, chat, creating, opens, outdated>>

(* A message is stored and, in the open conversation, shown (addMessage); not  *)
(* while a page that replaces the messages is on its way, an assumption.       *)
KeptAll(s) == s
Kept(s) == IF Len(s) > MaxShown THEN SubSeq(s, Len(s) - MaxShown + 1, Len(s)) ELSE s

NewMessage(c) ==
    /\ history[c] \in 0 .. MaxHistory - 1
    /\ history' = [history EXCEPT ![c] = @ + 1]
    /\ chat.active = c => chat.loaded
    /\ \A r \in asked : r.chat = c => r.kind = "older"
    /\ \A i \in DOMAIN replied :
        replied[i].request.chat = c => replied[i].request.kind = "older"
    /\ chat' = IF chat.active = c
               THEN [chat EXCEPT !.shown = Kept(Append(@, <<c, history[c] + 1>>))]
               ELSE chat
    /\ UNCHANGED <<asked, replied, creating, opens, outdated>>

-----------------------------------------------------------------------------
(* openConversation: the page asked before is no longer waited for. *)
Latest(kind) == {r \in asked : r.kind # kind}
LatestReplies(kind) == SelectSeq(replied, LAMBDA p : p.request.kind # kind)

Open(c) ==
    /\ opens < MaxOpens /\ history[c] >= 0
    /\ opens' = opens + 1
    /\ chat' = [chat EXCEPT !.active = c, !.pages = NoPages, !.loaded = FALSE]
    /\ asked' = Latest("open") \cup {[Request("open", c, 0) EXCEPT !.opening = opens + 1]}
    /\ replied' = LatestReplies("open")
    /\ UNCHANGED <<history, creating, outdated>>

(* createConversation, in its two halves: the refresh of the list is awaited   *)
(* between them, and the second half looks at nothing that happened meanwhile. *)
Create(c) ==
    /\ opens < MaxOpens /\ creating = None /\ history[c] = Unborn
    /\ creating' = c
    /\ UNCHANGED <<history, chat, asked, replied, opens, outdated>>

Created ==
    /\ creating # None
    /\ opens' = opens + 1
    /\ history' = [history EXCEPT ![creating] = 0]
    /\ chat' = [Empty EXCEPT !.active = creating, !.loaded = TRUE]
    /\ creating' = None
    /\ UNCHANGED <<asked, replied, outdated>>

(* removeConversation. *)
Remove(c) ==
    /\ history[c] >= 0
    /\ history' = [history EXCEPT ![c] = Gone]
    /\ chat' = IF chat.active = c THEN Empty ELSE chat
    /\ UNCHANGED <<asked, replied, creating, opens, outdated>>

LoadOlder ==
    /\ chat.active # None /\ ~chat.pages.loading /\ chat.pages.more
    /\ asked' = asked \cup {Request("older", chat.active, chat.pages.offset)}
    /\ chat' = [chat EXCEPT !.pages.loading = TRUE]
    /\ UNCHANGED <<history, replied, creating, opens, outdated>>

LoadLatest ==
    /\ chat.active # None /\ ~chat.pages.loading
    /\ chat.pages.newer
    /\ asked' = asked \cup {Request("latest", chat.active, 0)}
    /\ chat' = [chat EXCEPT !.pages.loading = TRUE]
    /\ UNCHANGED <<history, replied, creating, opens, outdated>>

-----------------------------------------------------------------------------

Known(m) == \E i \in DOMAIN chat.shown : chat.shown[i] = m
Initial(page) == [offset |-> Len(page.items), more |-> page.more, newer |-> FALSE,
                  loading |-> FALSE]

Replacing(page) == [chat EXCEPT !.shown = Kept(page.items), !.pages = Initial(page),
                                !.loaded = TRUE]

Prepending(page) ==
    LET older == SelectSeq(page.items, LAMBDA m : ~Known(m))
        all == older \o chat.shown
    IN
    [chat EXCEPT !.shown = IF Len(all) > MaxShown THEN SubSeq(all, 1, MaxShown) ELSE all,
                 !.pages = [offset |-> @.offset + Len(page.items), more |-> page.more,
                            newer |-> @.newer \/ Len(all) > MaxShown, loading |-> FALSE]]

(* A page is taken when its conversation is the open one; only the page of an  *)
(* opening is also told from those asked before.                               *)
Taken(page) ==
    IF page.failed
    THEN IF page.request.kind = "open" THEN chat ELSE [chat EXCEPT !.pages.loading = FALSE]
    ELSE IF page.request.kind = "older" THEN Prepending(page) ELSE Replacing(page)

Arrives ==
    /\ replied # <<>>
    /\ replied' = Tail(replied)
    /\ LET page == Head(replied) IN
       IF chat.active = page.request.chat
       THEN /\ chat' = Taken(page)
            /\ outdated' = (outdated \/ page.request.opening # opens)
       ELSE UNCHANGED <<chat, outdated>>
    /\ UNCHANGED <<history, asked, creating, opens>>

ChatScreenNext ==
    \/ Arrives \/ Created \/ LoadOlder \/ LoadLatest
    \/ \E r \in asked : Answer(r)
    \/ \E c \in Chats : Open(c) \/ Create(c) \/ Remove(c) \/ NewMessage(c)

-----------------------------------------------------------------------------
ChatScreenTypeOK ==
    /\ \A c \in Chats : history[c] \in Gone .. MaxHistory
    /\ chat.active \in Chats \cup {None} /\ Len(chat.shown) <= MaxShown
    /\ chat.pages.offset \in Nat /\ creating \in Chats \cup {None}
    /\ opens \in 0 .. MaxOpens + 1

(* Once the page of an opening came, what is on the screen is of the open      *)
(* conversation, in its order and each message once; and unless newer ones     *)
(* were cut off, it has no hole and ends at the last message. Only a page that *)
(* was asked before the last opening and taken after it may break this: it is  *)
(* told from the others by its conversation alone.                             *)
MessagesInOrder ==
    LET shown == chat.shown
        n == Len(shown)
    IN
    chat.loaded /\ ~outdated =>
        /\ \A i \in 1 .. n : shown[i][1] = chat.active
        /\ \A i \in 1 .. n - 1 : shown[i][2] < shown[i + 1][2]
        /\ ~chat.pages.newer => \A i \in 1 .. n : shown[i][2] = history[chat.active] - n + i

(* Older messages can be asked for as long as there are some, until the limit  *)
(* of what is kept is reached.                                                 *)
OlderCanBeLoaded ==
    chat.loaded /\ ~outdated /\ Len(chat.shown) < MaxShown =>
        chat.pages.more = (Len(chat.shown) > 0 /\ chat.shown[1][2] > 1)
=============================================================================
