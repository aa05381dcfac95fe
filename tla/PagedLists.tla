------------------------------- MODULE PagedLists -------------------------------
(* The artifacts of the open conversation in the window: their first page, the *)
(* pages that are put after it, and the artifact that leaves the list before   *)
(* main has deleted it. An artifact is its number; rows are newest first. Main *)
(* answers requests in their order, and the answers keep it.                   *)
EXTENDS Naturals, Sequences, FiniteSets

CONSTANTS FirstRows,    \* conversation -> its artifacts at the start
          PageLimit,    \* COLLECTION_PAGE_LIMITS.artifacts
          MaxAdds, MaxDeletes, MaxOpens, MaxAsked   \* bounds

VARIABLES artifacts,    \* conversation -> its rows, newest first
          list,         \* activeId, the artifacts shown, hasMore, loading
          opening,      \* conversations whose collections are yet to be asked
          requests,     \* requests main has not answered
          answers,      \* answers on their way to the window
          due,          \* rows were added and the window not yet asked for them
          done,         \* adds, deletes and openings so far
          raced         \* history: "late" when an answer was put on a list that was
                        \* not the one it was asked for, or an answer was an error;
                        \* "unasked" until the open conversation's first page comes,
                        \* when nothing asked for it as it was opened

listVars == <<artifacts, list, opening, requests, answers, due, done, raced>>

Conversations == DOMAIN FirstRows
NoOne == "none"
Members(s) == {s[i] : i \in DOMAIN s}
WithoutItem(s, x) == SelectSeq(s, LAMBDA y : y # x)
UpTo(s, n) == SubSeq(s, 1, IF n < Len(s) THEN n ELSE Len(s))

ListInit ==
    /\ artifacts = FirstRows
    /\ list = [active |-> NoOne, items |-> <<>>, more |-> FALSE, loading |-> FALSE]
    /\ opening = FALSE /\ requests = <<>> /\ answers = <<>> /\ due = FALSE
    /\ done = [adds |-> 0, deletes |-> 0, opens |-> 0] /\ raced = {}

(* A request remembers the list as it is when it is made; a list written since  *)
(* makes it late.                                                              *)
Ask(kind, offset, item) ==
    /\ Len(requests) < MaxAsked
    /\ requests' = Append(requests, [kind |-> kind, chat |-> list.active, offset |-> offset,
                                     base |-> list.items, item |-> item, late |-> FALSE])

Late(asked) == [i \in DOMAIN asked |-> [asked[i] EXCEPT !.late = TRUE]]
LateAnswers(waiting) == [i \in DOMAIN waiting |-> [waiting[i] EXCEPT !.request.late = TRUE]]

-----------------------------------------------------------------------------
(* The list of the conversation that was open stays until the new one's page.  *)
OpenConversation(c) ==
    /\ done.opens < MaxOpens
    /\ done' = [done EXCEPT !.opens = @ + 1]
    /\ list' = [list EXCEPT !.active = c]
    /\ opening' = TRUE /\ due' = (due /\ c = list.active)
    /\ requests' = Late(requests) /\ answers' = LateAnswers(answers)
    /\ UNCHANGED <<artifacts, raced>>

(* The page of its messages is an error: its collections are not asked for.    *)
OpeningFails ==
    /\ opening /\ opening' = FALSE
    /\ raced' = raced \cup {"unasked"}
    /\ UNCHANGED <<artifacts, list, requests, answers, due, done>>

(* A new conversation, which nothing was asked for and which has no artifacts, *)
(* is open at once: the list of the other stays, and its page is not asked.     *)
CreateConversation(c) ==
    /\ done.opens < MaxOpens /\ c # list.active /\ artifacts[c] = <<>>
    /\ \A i \in DOMAIN requests : requests[i].chat # c
    /\ \A i \in DOMAIN answers : answers[i].request.chat # c
    /\ done' = [done EXCEPT !.opens = @ + 1]
    /\ list' = [list EXCEPT !.active = c]
    /\ opening' = FALSE /\ due' = FALSE
    /\ requests' = Late(requests) /\ answers' = LateAnswers(answers)
    /\ raced' = raced \cup {"unasked"}
    /\ UNCHANGED artifacts

(* loadConversationCollections, refreshArtifacts: the first page. *)
AskFirstPage ==
    /\ opening \/ due
    /\ list.active # NoOne
    /\ Ask("first", 0, 0)
    /\ opening' = FALSE /\ due' = FALSE
    /\ UNCHANGED <<artifacts, list, answers, done, raced>>

LoadMore ==
    /\ list.active # NoOne /\ list.more /\ ~list.loading
    /\ Ask("more", Len(list.items), 0)
    /\ list' = [list EXCEPT !.loading = TRUE]
    /\ UNCHANGED <<artifacts, opening, answers, due, done, raced>>

(* deleteArtifact: off the list at once, put back when main refuses. *)
DeleteArtifact(x) ==
    /\ done.deletes < MaxDeletes /\ list.active # NoOne
    /\ Len(requests) < MaxAsked
    /\ requests' = Append(Late(requests),
                          [kind |-> "delete", chat |-> list.active, offset |-> 0,
                           base |-> list.items, item |-> x, late |-> FALSE])
    /\ answers' = LateAnswers(answers)
    /\ done' = [done EXCEPT !.deletes = @ + 1]
    /\ list' = [list EXCEPT !.items = WithoutItem(@, x)]
    /\ UNCHANGED <<artifacts, opening, due, raced>>

-----------------------------------------------------------------------------
(* The handlers of main; a deletion is refused when the row is not of the      *)
(* conversation, and any request may fail.                                     *)
Rows(r) == artifacts[r.chat]
Page(r) == UpTo(SubSeq(Rows(r), r.offset + 1, Len(Rows(r))), PageLimit)

Handle ==
    /\ requests # <<>>
    /\ requests' = Tail(requests)
    /\ LET r == Head(requests) IN
       \E failed \in BOOLEAN :
        /\ r.kind = "delete" /\ r.item \notin Members(Rows(r)) => failed
        /\ artifacts' = IF r.kind = "delete" /\ ~failed
                        THEN [artifacts EXCEPT ![r.chat] = WithoutItem(@, r.item)]
                        ELSE artifacts
        /\ answers' = Append(answers, [request |-> r, failed |-> failed, items |-> Page(r),
                                       more |-> r.offset + PageLimit < Len(Rows(r))])
    /\ UNCHANGED <<list, opening, due, done, raced>>

(* An artifact of an answer or of an export is stored, as a new row or over    *)
(* the one of its file, and is then the newest; the window then asks.          *)
AddArtifact(c) ==
    /\ done.adds < MaxAdds
    /\ done' = [done EXCEPT !.adds = @ + 1]
    /\ \E x \in Members(artifacts[c]) \cup {100 + done.adds} :
          artifacts' = [artifacts EXCEPT ![c] = <<x>> \o WithoutItem(@, x)]
    /\ due' = (due \/ list.active = c)
    /\ UNCHANGED <<list, opening, requests, answers, raced>>

-----------------------------------------------------------------------------
(* An answer is taken if its conversation is still the active one. A page is   *)
(* put after the list as it was when the page was asked for, without the       *)
(* artifacts it has; a refused deletion puts back the list of before it.       *)

Unknown(base, items) == SelectSeq(items, LAMBDA x : x \notin Members(base))

Taken(a) ==
    CASE a.request.kind = "first" /\ ~a.failed -> [list EXCEPT !.items = a.items, !.more = a.more]
      [] a.request.kind = "more" /\ ~a.failed ->
            [list EXCEPT !.items = a.request.base \o Unknown(a.request.base, a.items),
                         !.more = a.more]
      [] a.request.kind = "delete" /\ a.failed -> [list EXCEPT !.items = a.request.base]
      [] OTHER -> list

(* A page or a list from before was put on a list that had changed since. *)
Raced(a) ==
    CASE a.request.kind = "first" -> a.failed
      [] a.request.kind = "more" -> ~a.failed /\ a.request.late
      [] a.request.kind = "delete" -> a.failed /\ a.request.late

AnswerComes ==
    /\ answers # <<>>
    /\ LET a == Head(answers)
           here == list.active = a.request.chat
           taken == IF here THEN Taken(a) ELSE list
           written == here /\ (a.failed <=> a.request.kind = "delete")
       IN
       /\ requests' = IF written THEN Late(requests) ELSE requests
       /\ answers' = IF written THEN LateAnswers(Tail(answers)) ELSE Tail(answers)
       /\ list' = IF a.request.kind = "more" THEN [taken EXCEPT !.loading = FALSE] ELSE taken
       /\ raced' = (raced \ IF written /\ a.request.kind = "first" THEN {"unasked"} ELSE {})
                    \cup IF here /\ Raced(a) THEN {"late"} ELSE {}
       /\ due' = (due \/ (here /\ a.request.kind = "delete" /\ ~a.failed))
    /\ UNCHANGED <<artifacts, opening, done>>

ListNext ==
    \/ AskFirstPage \/ LoadMore \/ Handle \/ AnswerComes \/ OpeningFails
    \/ \E c \in Conversations : OpenConversation(c) \/ CreateConversation(c) \/ AddArtifact(c)
    \/ \E x \in Members(list.items) : DeleteArtifact(x)

-----------------------------------------------------------------------------
ListTypeOK ==
    /\ list.active \in Conversations \cup {NoOne} /\ Len(requests) <= MaxAsked
    /\ \A c \in Conversations : artifacts[c] \in Seq(Nat)
    /\ raced \subseteq {"late", "unasked"} /\ list.items \in Seq(Nat) /\ list.more \in BOOLEAN /\ list.loading \in BOOLEAN

(* Whatever is answered when, no artifact is on the list twice. *)
NoItemTwice == Cardinality(Members(list.items)) = Len(list.items)

(* When nothing is asked for or on its way, the list is the newest artifacts   *)
(* of the open conversation, none twice, none left out, none deleted, and it   *)
(* has more exactly when there are more; however openings, pages, additions    *)
(* and deletions interleaved, as long as every page came to the list it was    *)
(* asked for, no request failed, and the page of the open conversation was      *)
(* asked for: a new conversation, and one whose messages could not be read,     *)
(* keeps showing the artifacts of the one before it.                           *)
Quiet == requests = <<>> /\ answers = <<>> /\ ~opening /\ ~due

ListFollowsRows ==
    Quiet /\ raced = {} /\ list.active # NoOne =>
        LET rows == artifacts[list.active] IN
        /\ list.items = UpTo(rows, Len(list.items))
        /\ list.more = (Len(list.items) < Len(rows))
        /\ ~list.loading
=============================================================================
