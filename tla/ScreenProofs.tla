------------------------------ MODULE ScreenProofs ------------------------------
(***************************************************************************)
(* Theorems about what the window shows, each by itself: the searches of   *)
(* the index panel, the workspace session.                                 *)
(***************************************************************************)
EXTENDS IndexPanel, WorkspaceSession, FiniteSetTheorems, TLAPS

-----------------------------------------------------------------------------
(* IndexPanel.  A request knows the session it was made in and its number;     *)
(* at most one request of a kind is the latest of the present session.         *)

Visits == [root : Workspaces, generation : Nat]
SearchRequests == [kind : {"symbols", "semantic", "command", "semanticCommand"}, id : Nat,
                   of : Visits]

SearchesTyped ==
    /\ visit \in Visits /\ visit.generation <= MaxSessions
    /\ typed \in BOOLEAN /\ overtaken \in BOOLEAN
    /\ latest \in [SearchKinds -> 0..MaxSearches]
    /\ spinning \in [SearchKinds -> BOOLEAN]
    /\ found \in [SearchKinds -> SearchRequests \cup {Nothing}]
    /\ asked \in SUBSET SearchRequests /\ IsFiniteSet(asked)
    /\ Cardinality(asked) <= MaxAsked

\* No request is of a later session, or of a search after the latest.
RequestsInOrder ==
    \A r \in asked : /\ r.of.generation <= visit.generation
                     /\ r.kind \in SearchKinds => r.id \in 1..latest[r.kind]

ResultsInOrder ==
    \A k \in SearchKinds : found[k] # Nothing =>
        found[k].kind = k /\ found[k].of = visit /\ found[k].id <= latest[k]

SpinnersTell ==
    /\ spinning["semantic"] <=> UnderWay("semantic")
    /\ UnderWay("symbols") => spinning["symbols"]
    /\ spinning["symbols"] => UnderWay("symbols") \/ overtaken

SearchesInv == SearchesTyped /\ RequestsInOrder /\ ResultsInOrder /\ SpinnersTell

LEMMA AskedGrows ==
    ASSUME MaxAsked \in Nat, IsFiniteSet(asked), Cardinality(asked) < MaxAsked, NEW r,
           asked' = asked \cup {r}
    PROVE  IsFiniteSet(asked') /\ Cardinality(asked') <= MaxAsked
<1>1. Cardinality(asked) \in Nat
  BY FS_CardinalityType
<1>2. /\ IsFiniteSet(asked \cup {r})
      /\ Cardinality(asked \cup {r}) \in {Cardinality(asked), Cardinality(asked) + 1}
  BY FS_AddElement
<1> QED  BY <1>1, <1>2

LEMMA AskedShrinks ==
    ASSUME MaxAsked \in Nat, IsFiniteSet(asked), Cardinality(asked) <= MaxAsked, NEW r,
           asked' = asked \ {r}
    PROVE  IsFiniteSet(asked') /\ Cardinality(asked') <= MaxAsked
<1>1. Cardinality(asked) \in Nat
  BY FS_CardinalityType
<1>2. /\ IsFiniteSet(asked \ {r})
      /\ Cardinality(asked \ {r}) \in {Cardinality(asked), Cardinality(asked) - 1}
  BY FS_RemoveElement
<1> QED  BY <1>1, <1>2

LEMMA CurrentRequest ==
    ASSUME SearchesInv, NEW r \in asked, NEW k \in SearchKinds,
           r.kind = k, IsCurrentSession(r), IsLatest(r)
    PROVE  /\ UnderWay(k) /\ r = [kind |-> k, id |-> latest[k], of |-> visit]
           /\ latest[k] >= 1
<1>1. r \in SearchRequests /\ r.id = latest[k] /\ r.of = visit
  BY DEF SearchesInv, SearchesTyped, IsCurrentSession, IsLatest
<1>2. r.id \in 1..latest[k] /\ latest[k] \in Nat
  BY DEF SearchesInv, SearchesTyped, RequestsInOrder
<1>3. r = [kind |-> k, id |-> latest[k], of |-> visit]
  BY <1>1 DEF SearchRequests
<1> QED  BY <1>1, <1>2, <1>3 DEF UnderWay

LEMMA SearchStep ==
    ASSUME MaxAsked \in Nat, MaxSearches \in Nat, SearchesInv, NEW k \in SearchKinds, Search(k)
    PROVE  SearchesInv'
<1> USE DEF SearchesInv
<1> DEFINE r == [kind |-> k, id |-> latest[k] + 1, of |-> visit]
<1>1. /\ latest[k] < MaxSearches /\ latest[k] \in 0..MaxSearches
      /\ latest' = [latest EXCEPT ![k] = @ + 1]
      /\ spinning' = [spinning EXCEPT ![k] = TRUE]
      /\ Cardinality(asked) < MaxAsked
      /\ UNCHANGED <<visit, typed, found, told, overtaken>>
  BY DEF Search, MayAsk, SearchesTyped
<1>2. /\ latest'[k] = latest[k] + 1 /\ latest' \in [SearchKinds -> 0..MaxSearches]
      /\ \A j \in SearchKinds : j # k => latest'[j] = latest[j]
      /\ \A j \in SearchKinds : latest[j] \in Nat /\ latest[j] <= latest'[j]
      /\ spinning' \in [SearchKinds -> BOOLEAN] /\ spinning'[k]
      /\ \A j \in SearchKinds : j # k => spinning'[j] = spinning[j]
  BY <1>1 DEF SearchesTyped
<1>3. asked' = asked \cup {r} /\ r \in SearchRequests
  BY <1>1, <1>2 DEF Search, Request, SearchesTyped, SearchRequests, SearchKinds
<1>4. SearchesTyped'
  <2>1. IsFiniteSet(asked') /\ Cardinality(asked') <= MaxAsked
    BY <1>1, <1>3, AskedGrows DEF SearchesTyped
  <2> QED  BY <1>1, <1>2, <1>3, <2>1 DEF SearchesTyped
<1>5. RequestsInOrder'
  <2> SUFFICES ASSUME NEW q \in asked'
               PROVE  /\ q.of.generation <= visit.generation
                      /\ q.kind \in SearchKinds => q.id \in 1..latest'[q.kind]
    BY <1>1 DEF RequestsInOrder
  <2>1. CASE q = r
    BY <1>1, <1>2, <2>1 DEF SearchesTyped, Visits
  <2>2. CASE q \in asked
    BY <1>2, <2>2 DEF RequestsInOrder
  <2> QED  BY <1>3, <2>1, <2>2
<1>6. ResultsInOrder'
  BY <1>1, <1>2 DEF ResultsInOrder, SearchesTyped, SearchRequests, Nothing
<1>7. UnderWay(k)'
  BY <1>1, <1>2, <1>3 DEF UnderWay, IsCurrentSession, IsLatest
<1>8. ASSUME NEW j \in SearchKinds, j # k PROVE UnderWay(j)' <=> UnderWay(j)
  BY <1>1, <1>2, <1>3, <1>8 DEF UnderWay, IsCurrentSession, IsLatest
<1>9. SpinnersTell'
  <2>1. "symbols" \in SearchKinds /\ "semantic" \in SearchKinds
    BY DEF SearchKinds
  <2> QED  BY <1>1, <1>2, <1>7, <1>8, <2>1 DEF SpinnersTell
<1> QED  BY <1>4, <1>5, <1>6, <1>9

LEMMA CommandStep ==
    ASSUME MaxAsked \in Nat, SearchesInv, NEW kind \in {"command", "semanticCommand"},
           Command(kind)
    PROVE  SearchesInv'
<1> USE DEF SearchesInv
<1> DEFINE r == [kind |-> kind, id |-> 0, of |-> visit]
<1>1. /\ Cardinality(asked) < MaxAsked /\ asked' = asked \cup {r} /\ r \in SearchRequests
      /\ UNCHANGED <<visit, typed, latest, spinning, found, told, overtaken>>
      /\ kind \notin SearchKinds
  BY DEF Command, MayAsk, Request, SearchesTyped, SearchRequests, SearchKinds
<1>2. SearchesTyped'
  <2>1. IsFiniteSet(asked') /\ Cardinality(asked') <= MaxAsked
    BY <1>1, AskedGrows DEF SearchesTyped
  <2> QED  BY <1>1, <2>1 DEF SearchesTyped
<1>3. RequestsInOrder' /\ ResultsInOrder'
  BY <1>1 DEF RequestsInOrder, ResultsInOrder, SearchesTyped, Visits
<1>4. \A j \in SearchKinds : UnderWay(j)' <=> UnderWay(j)
  BY <1>1 DEF UnderWay, IsCurrentSession, IsLatest
<1> QED  BY <1>1, <1>2, <1>3, <1>4 DEF SpinnersTell, SearchKinds

\* A reply that counts ends the only search of its kind that is under way.
LEMMA SearchAnsweredStep ==
    ASSUME MaxAsked \in Nat, MaxSearches \in Nat, SearchesInv, NEW r \in asked,
           NEW ok \in BOOLEAN, SearchAnswered(r, ok)
    PROVE  SearchesInv'
<1> USE DEF SearchesInv
<1> DEFINE counts == IsCurrentSession(r) /\ IsLatest(r) /\ r.kind \in SearchKinds
<1>1. /\ asked' = asked \ {r} /\ UNCHANGED <<visit, typed, latest>>
      /\ overtaken' = (overtaken /\ spinning'["symbols"])
      /\ ~counts => UNCHANGED <<spinning, found>>
      /\ counts => /\ spinning' = [spinning EXCEPT ![r.kind] = FALSE]
                   /\ found' = found \/ found' = [found EXCEPT ![r.kind] = r]
      /\ r \in SearchRequests
  BY DEF SearchAnswered, SearchesTyped
<1>2. SearchesTyped'
  <2>1. IsFiniteSet(asked') /\ Cardinality(asked') <= MaxAsked
    BY <1>1, AskedShrinks DEF SearchesTyped
  <2>3. /\ spinning' \in [SearchKinds -> BOOLEAN]
        /\ found' \in [SearchKinds -> SearchRequests \cup {Nothing}]
    BY <1>1 DEF SearchesTyped
  <2>4. overtaken' \in BOOLEAN
    BY <1>1
  <2> QED  BY <1>1, <2>1, <2>3, <2>4 DEF SearchesTyped
<1>3. RequestsInOrder'
  BY <1>1 DEF RequestsInOrder
<1>4. ResultsInOrder'
  <2>1. CASE found' = found
    BY <1>1, <2>1 DEF ResultsInOrder
  <2>2. CASE counts /\ found' = [found EXCEPT ![r.kind] = r]
    <3>1. r.of = visit /\ r.id = latest[r.kind] /\ latest[r.kind] \in Nat
      BY <2>2 DEF IsCurrentSession, IsLatest, SearchesTyped
    <3>2. /\ found'[r.kind] = r
          /\ \A k \in SearchKinds : k # r.kind => found'[k] = found[k]
      BY <2>2 DEF SearchesTyped
    <3> QED  BY <1>1, <3>1, <3>2 DEF ResultsInOrder
  <2> QED  BY <1>1, <2>1, <2>2
<1>5. CASE ~counts
  <2>1. \A k \in SearchKinds : UnderWay(k)' <=> UnderWay(k)
    BY <1>1, <1>5 DEF UnderWay, IsCurrentSession, IsLatest
  <2> QED  BY <1>1, <1>2, <1>3, <1>4, <1>5, <2>1 DEF SpinnersTell, SearchKinds, ResultsInOrder
<1>6. CASE counts
  <2>1. ~UnderWay(r.kind)'
    <3> SUFFICES ASSUME NEW q \in asked', q.kind = r.kind, IsCurrentSession(q)', IsLatest(q)'
                 PROVE  FALSE
      BY DEF UnderWay
    <3>1. q \in asked /\ IsCurrentSession(q) /\ IsLatest(q)
      BY <1>1 DEF IsCurrentSession, IsLatest
    <3>2. q = [kind |-> r.kind, id |-> latest[r.kind], of |-> visit]
      BY <1>6, <3>1, CurrentRequest
    <3>3. r = [kind |-> r.kind, id |-> latest[r.kind], of |-> visit]
      BY <1>6, CurrentRequest
    <3> QED  BY <1>1, <3>2, <3>3
  <2>2. \A k \in SearchKinds : k # r.kind => (UnderWay(k)' <=> UnderWay(k))
    BY <1>1 DEF UnderWay, IsCurrentSession, IsLatest
  <2>3. /\ ~spinning'[r.kind]
        /\ \A k \in SearchKinds : k # r.kind => spinning'[k] = spinning[k]
    BY <1>1, <1>6 DEF SearchesTyped
  <2>4. "symbols" \in SearchKinds /\ "semantic" \in SearchKinds
    BY DEF SearchKinds
  <2>6. spinning'["semantic"] <=> UnderWay("semantic")'
    <3>1. CASE r.kind = "semantic"
      BY <2>1, <2>3, <3>1
    <3>2. CASE r.kind # "semantic"
      BY <2>2, <2>3, <2>4, <3>2 DEF SpinnersTell
    <3> QED  BY <3>1, <3>2
  <2>7. /\ UnderWay("symbols")' => spinning'["symbols"]
        /\ spinning'["symbols"] => UnderWay("symbols")' \/ overtaken'
    <3>1. CASE r.kind = "symbols"
      BY <2>1, <2>3, <3>1
    <3>2. CASE r.kind # "symbols"
      BY <1>1, <2>2, <2>3, <2>4, <3>2 DEF SpinnersTell
    <3> QED  BY <3>1, <3>2
  <2>8. SpinnersTell'
    BY <2>6, <2>7 DEF SpinnersTell
  <2> QED  BY <1>2, <1>3, <1>4, <2>8
<1> QED  BY <1>5, <1>6

\* No request is of the session that begins.
LEMMA SwitchStep ==
    ASSUME MaxSessions \in Nat, SearchesInv, NEW w \in Workspaces, SwitchTo(w)
    PROVE  SearchesInv'
<1> USE DEF SearchesInv
<1>1. /\ visit.generation < MaxSessions /\ visit.generation \in Nat
      /\ visit' = [root |-> w, generation |-> visit.generation + 1]
      /\ typed' = FALSE
      /\ spinning' = [spinning EXCEPT !["semantic"] = FALSE]
      /\ found' = [k \in SearchKinds |-> Nothing]
      /\ overtaken' = (overtaken \/ UnderWay("symbols"))
      /\ UNCHANGED <<latest, told, asked>>
  BY DEF SwitchTo, SearchesTyped, Visits
<1>2. /\ visit' \in Visits /\ visit'.generation = visit.generation + 1
      /\ visit'.generation <= MaxSessions
  BY <1>1 DEF Visits
<1>3. SearchesTyped'
  BY <1>1, <1>2 DEF SearchesTyped, SearchKinds, UnderWay
<1>4. \A r \in asked : r.of.generation <= visit.generation /\ r.of.generation \in Nat
  BY DEF RequestsInOrder, SearchesTyped, SearchRequests, Visits
<1>5. \A r \in asked : ~IsCurrentSession(r)'
  BY <1>1, <1>2, <1>4 DEF IsCurrentSession
<1>6. RequestsInOrder' /\ ResultsInOrder'
  BY <1>1, <1>2, <1>4 DEF RequestsInOrder, ResultsInOrder
<1>7. \A k \in SearchKinds : ~UnderWay(k)'
  BY <1>1, <1>5 DEF UnderWay
<1>8. SpinnersTell'
  <2>1. /\ ~spinning'["semantic"] /\ spinning'["symbols"] = spinning["symbols"]
        /\ spinning'["semantic"] \in BOOLEAN
    BY <1>1, <1>3 DEF SearchesTyped, SearchKinds
  <2>2. ~UnderWay("symbols")' /\ ~UnderWay("semantic")'
    BY <1>7 DEF SearchKinds
  <2>4. spinning'["symbols"] => overtaken'
    BY <1>1, <2>1 DEF SpinnersTell
  <2> QED  BY <2>1, <2>2, <2>4 DEF SpinnersTell
<1> QED  BY <1>3, <1>6, <1>8

LEMMA SearchesStep ==
    ASSUME MaxAsked \in Nat, MaxSearches \in Nat, MaxSessions \in Nat, SearchesInv,
           [SearchesNext]_searchesVars
    PROVE  SearchesInv'
<1>1. CASE Type
  <2>1. /\ typed' \in BOOLEAN
        /\ UNCHANGED <<visit, latest, spinning, found, told, asked, overtaken>>
    BY <1>1 DEF Type, SearchesInv, SearchesTyped
  <2> QED  BY <2>1 DEF SearchesInv, SearchesTyped, RequestsInOrder, ResultsInOrder,
                       SpinnersTell, UnderWay, IsCurrentSession, IsLatest
<1>2. CASE SearchSymbols \/ SearchSemantic
  BY <1>2, SearchStep DEF SearchSymbols, SearchSemantic, SearchKinds
<1>3. CASE ProjectIndexCommand \/ SemanticCommand
  BY <1>3, CommandStep DEF ProjectIndexCommand, SemanticCommand
<1>4. CASE \E request \in asked, ok \in BOOLEAN : SearchAnswered(request, ok)
  BY <1>4, SearchAnsweredStep
<1>5. CASE \E w \in Workspaces : SwitchTo(w)
  BY <1>5, SwitchStep
<1>6. CASE UNCHANGED searchesVars
  BY <1>6 DEF searchesVars, SearchesInv, SearchesTyped, RequestsInOrder, ResultsInOrder,
              SpinnersTell, UnderWay, IsCurrentSession, IsLatest
<1> QED  BY <1>1, <1>2, <1>3, <1>4, <1>5, <1>6 DEF SearchesNext

LEMMA SearchesHold ==
    ASSUME MaxAsked \in Nat, MaxSearches \in Nat, MaxSessions \in Nat
    PROVE  SearchesSpec => []SearchesInv
<1>1. SearchesInit => SearchesInv
  <2> SUFFICES ASSUME SearchesInit PROVE SearchesInv
    OBVIOUS
  <2>1. /\ visit \in Visits /\ visit.generation = 0 /\ typed = FALSE /\ overtaken = FALSE
        /\ latest = [k \in SearchKinds |-> 0] /\ spinning = [k \in SearchKinds |-> FALSE]
        /\ found = [k \in SearchKinds |-> Nothing] /\ asked = {}
    BY DEF SearchesInit, Visits
  <2>2. IsFiniteSet({}) /\ Cardinality({}) = 0
    BY FS_EmptySet
  <2>3. SearchesTyped
    <3>1. 0 \in 0..MaxSearches /\ 0 <= MaxSessions /\ 0 <= MaxAsked
      OBVIOUS
    <3> QED  BY <2>1, <2>2, <3>1 DEF SearchesTyped
  <2>4. "symbols" \in SearchKinds /\ "semantic" \in SearchKinds
    BY DEF SearchKinds
  <2>5. ~UnderWay("symbols") /\ ~UnderWay("semantic")
    BY <2>1 DEF UnderWay
  <2>7. SpinnersTell
    BY <2>1, <2>4, <2>5 DEF SpinnersTell
  <2> QED  BY <2>1, <2>3, <2>7 DEF SearchesInv, RequestsInOrder, ResultsInOrder
<1>2. SearchesInv /\ [SearchesNext]_searchesVars => SearchesInv'
  BY SearchesStep
<1> QED  BY <1>1, <1>2, PTL DEF SearchesSpec

(* What the panel shows as found was found in the workspace it shows, since it *)
(* was opened, and it waits exactly for the latest search of each kind, unless *)
(* a switch overtook a search of symbols (useProjectIndexSession.ts).          *)
THEOREM SearchesBelongToVisit ==
    ASSUME MaxAsked \in Nat, MaxSearches \in Nat, MaxSessions \in Nat
    PROVE  SearchesSpec => [](SearchesTypeOK /\ SearchesBelong)
<1>1. SearchesInv => SearchesTypeOK /\ SearchesBelong
  <2> SUFFICES ASSUME SearchesInv PROVE SearchesTypeOK /\ SearchesBelong
    OBVIOUS
  <2>1. SearchesTypeOK
    BY DEF SearchesInv, SearchesTyped, SearchesTypeOK, Visits
  <2>2. spinning["semantic"] \in BOOLEAN /\ UnderWay("semantic") \in BOOLEAN
    BY DEF SearchesInv, SearchesTyped, SearchKinds, UnderWay
  <2>3. SearchesBelong
    BY <2>2 DEF SearchesInv, SpinnersTell, ResultsInOrder, SearchesBelong
  <2> QED  BY <2>1, <2>3
<1> QED  BY <1>1, SearchesHold, PTL

(* A reply, late or crossed with others, never replaces the results of a newer *)
(* search, and no failure of another session is told.                          *)
THEOREM LatestReplyCounts ==
    ASSUME MaxAsked \in Nat, MaxSearches \in Nat, MaxSessions \in Nat
    PROVE  SearchesSpec => [][LatestSearchCounts]_searchesVars
<1>1. SearchesInv /\ [SearchesNext]_searchesVars => [LatestSearchCounts]_searchesVars
  <2> SUFFICES ASSUME SearchesInv, [SearchesNext]_searchesVars
               PROVE  [LatestSearchCounts]_searchesVars
    OBVIOUS
  <2>1. UNCHANGED <<found, told>> => LatestSearchCounts
    BY DEF LatestSearchCounts
  <2>2. ASSUME NEW r \in asked, NEW ok \in BOOLEAN, SearchAnswered(r, ok)
        PROVE  LatestSearchCounts
    <3> SUFFICES ASSUME IsCurrentSession(r), IsLatest(r) PROVE LatestSearchCounts
      BY <2>1, <2>2 DEF SearchAnswered
    <3>1. told' # told => told' = visit
      BY <2>2 DEF SearchAnswered, IsCurrentSession
    <3>2. ASSUME NEW k \in SearchKinds, found'[k] \notin {found[k], Nothing}
          PROVE  found'[k].id = latest[k] /\ found'[k].id > found[k].id
      <4>1. k = r.kind /\ found'[k] = r
        BY <2>2, <3>2 DEF SearchAnswered, SearchesInv, SearchesTyped
      <4>2. r = [kind |-> k, id |-> latest[k], of |-> visit] /\ latest[k] >= 1
            /\ latest[k] \in Nat
        BY <4>1, CurrentRequest DEF SearchesInv, SearchesTyped
      <4>3. CASE found[k] = Nothing
        BY <4>1, <4>2, <4>3 DEF Nothing
      <4>4. CASE found[k] # Nothing
        <5>1. /\ found[k] \in SearchRequests /\ found[k].kind = k /\ found[k].of = visit
              /\ found[k].id <= latest[k] /\ found[k].id \in Nat
          BY <4>4 DEF SearchesInv, SearchesTyped, ResultsInOrder, SearchRequests
        <5>2. found[k].id # latest[k]
          BY <3>2, <4>1, <4>2, <5>1 DEF SearchRequests
        <5> QED  BY <4>1, <4>2, <5>1, <5>2
      <4> QED  BY <4>3, <4>4
    <3> QED  BY <3>1, <3>2 DEF LatestSearchCounts
  <2>3. CASE \E w \in Workspaces : SwitchTo(w)
    BY <2>3 DEF SwitchTo, LatestSearchCounts
  <2> QED  BY <2>1, <2>2, <2>3 DEF SearchesNext, Type, SearchSymbols, SearchSemantic, Search,
              ProjectIndexCommand, SemanticCommand, Command, searchesVars
<1> QED  BY <1>1, SearchesHold, PTL DEF SearchesSpec

-----------------------------------------------------------------------------
(* WorkspaceSession.  A watch call is never made for a folder while another   *)
(* is watched: the stop of the old effect is queued before it.                *)

Watches == Folders \cup {NoFolder}
Conversations == DOMAIN Chats
Owners == [Conversations -> Folders]
Sessions == [workspace : Watches, listed : SUBSET Folders, chats : Owners,
             active : Conversations \cup {NoChat}, request : Nat]
Flows == [kind : {"open", "choose", "select", "favorite"}, chat : Conversations \cup {NoChat},
          step : {"page", "confirm", "list", "refresh", "done"}, selected : Watches]

SessionTyped ==
    /\ workspaces \in [Folders -> {"unknown", "restored", "authorized"}]
    /\ present \subseteq Folders /\ removed \subseteq Folders /\ belongs \in Owners /\ session \in Sessions
    /\ flows \in Seq(Flows) /\ Len(flows) <= MaxFlows
    /\ watchQueue \in Seq(Watches) /\ starting \in BOOLEAN
    /\ watching \in Watches \cup {WatchRefused}

FlowsInOrder ==
    \A i \in 1..Len(flows) :
        /\ flows[i].kind = "open" => flows[i].chat \in Conversations
        /\ flows[i].kind = "open" /\ flows[i].step = "list" => flows[i].selected \in Folders

WatchInOrder ==
    /\ \A i \in 2..Len(watchQueue) : watchQueue[i] # NoFolder => watchQueue[i - 1] = NoFolder
    /\ watchQueue # <<>> =>
           /\ watchQueue[Len(watchQueue)] = Watched(session)
           /\ watchQueue[1] # NoFolder => watching = NoFolder
    /\ starting => watchQueue # <<>> /\ watchQueue[1] # NoFolder
    /\ WatcherFollowsWindow

SessionInv ==
    /\ SessionTyped /\ FlowsInOrder /\ WatchInOrder /\ ConversationsKeepTheirProject

SessionConstants ==
    /\ NoFolder \notin Folders /\ WatchRefused \notin Folders
    /\ NoChat \notin Conversations /\ Chats \in Owners /\ MaxFlows \in Nat

\* Adding one watch call.
LEMMA OneMoreWatch ==
    ASSUME NEW q \in Seq(Watches), NEW f \in Watches
    PROVE  /\ Append(q, f) \in Seq(Watches) /\ Len(Append(q, f)) = Len(q) + 1
           /\ Append(q, f)[Len(q) + 1] = f /\ Append(q, f) # <<>> /\ Len(q) \in Nat
           /\ \A i \in 1..Len(q) : Append(q, f)[i] = q[i]
           /\ q = <<>> <=> Len(q) = 0
OBVIOUS

LEMMA WatchedType ==
    ASSUME NEW s \in Sessions PROVE Watched(s) \in Watches
BY DEF Watched, Watches, Sessions

\* Whatever the window shows next, its last call says what it watches.
LEMMA ShowStep ==
    ASSUME SessionTyped, WatchInOrder, NEW s \in Sessions, Show(s),
           UNCHANGED <<starting, watching>>
    PROVE  watchQueue' \in Seq(Watches) /\ WatchInOrder'
<1> DEFINE old == Watched(session)
           new == Watched(s)
           stopped == Append(watchQueue, NoFolder)
<1>1. /\ session' = s /\ Watched(session)' = new
      /\ new = old => watchQueue' = watchQueue
      /\ new # old /\ new = NoFolder => watchQueue' = stopped
      /\ new # old /\ new # NoFolder /\ old # NoFolder => watchQueue' = Append(stopped, new)
      /\ new # old /\ new # NoFolder /\ old = NoFolder => watchQueue' = Append(watchQueue, new)
  BY DEF Show, EnqueueWatch, Watched
<1>2. old \in Watches /\ new \in Watches /\ NoFolder \in Watches
  BY WatchedType DEF SessionTyped, Watches
<1>3. watchQueue \in Seq(Watches)
  BY DEF SessionTyped
<1>4. /\ watchQueue # <<>> => watchQueue[Len(watchQueue)] = old
      /\ watchQueue = <<>> => watching \in {old, WatchRefused}
                              /\ (watching = WatchRefused => old # NoFolder)
  BY DEF WatchInOrder, WatcherFollowsWindow
<1> HIDE DEF old, new
<1>5. CASE new = old
  BY <1>1, <1>3, <1>5 DEF WatchInOrder, WatcherFollowsWindow, old, new
<1>6. ASSUME NEW f \in Watches, f = new, new # old, watchQueue' = Append(watchQueue, f),
             f # NoFolder => old = NoFolder
      PROVE  watchQueue' \in Seq(Watches) /\ WatchInOrder'
  <2>1. /\ watchQueue' \in Seq(Watches) /\ Len(watchQueue') = Len(watchQueue) + 1
        /\ watchQueue'[Len(watchQueue) + 1] = f /\ watchQueue' # <<>>
        /\ Len(watchQueue) \in Nat /\ (watchQueue = <<>> <=> Len(watchQueue) = 0)
        /\ \A i \in 1..Len(watchQueue) : watchQueue'[i] = watchQueue[i]
    BY <1>3, <1>6, OneMoreWatch
  <2>2. \A i \in 2..Len(watchQueue') :
            watchQueue'[i] # NoFolder => watchQueue'[i - 1] = NoFolder
    <3> SUFFICES ASSUME NEW i \in 2..Len(watchQueue'), watchQueue'[i] # NoFolder
                 PROVE  watchQueue'[i - 1] = NoFolder
      OBVIOUS
    <3>1. CASE i \in 2..Len(watchQueue)
      BY <2>1, <3>1 DEF WatchInOrder
    <3>2. CASE i = Len(watchQueue) + 1
      BY <1>4, <1>6, <2>1, <3>2
    <3> QED  BY <2>1, <3>1, <3>2
  <2>3. watchQueue'[1] # NoFolder => watching = NoFolder
    <3>1. CASE watchQueue = <<>>
      BY <1>4, <1>6, <2>1, <3>1
    <3>2. CASE watchQueue # <<>>
      BY <2>1, <3>2 DEF WatchInOrder
    <3> QED  BY <3>1, <3>2
  <2>4. starting => watchQueue'[1] # NoFolder
    BY <2>1 DEF WatchInOrder
  <2> QED  BY <1>1, <1>6, <2>1, <2>2, <2>3, <2>4 DEF WatchInOrder, WatcherFollowsWindow
<1>7. CASE new # old /\ new # NoFolder /\ old # NoFolder
  <2> DEFINE n == Len(watchQueue)
             q == watchQueue'
  <2>1. /\ stopped \in Seq(Watches) /\ Len(stopped) = n + 1 /\ n \in Nat
        /\ stopped[n + 1] = NoFolder /\ (watchQueue = <<>> <=> n = 0)
        /\ \A i \in 1..n : stopped[i] = watchQueue[i]
    BY <1>2, <1>3, OneMoreWatch
  <2>2. /\ q = Append(stopped, new)
        /\ q \in Seq(Watches) /\ Len(q) = n + 2 /\ q # <<>> /\ q[n + 2] = new
        /\ \A i \in 1..(n + 1) : q[i] = stopped[i]
    <3> HIDE DEF stopped, n
    <3> QED  BY <1>1, <1>2, <1>7, <2>1, OneMoreWatch
  <2>3. q[n + 1] = NoFolder /\ \A i \in 1..n : q[i] = watchQueue[i]
    BY <2>1, <2>2
  <2> HIDE DEF n
  <2>4. \A i \in 2..Len(q) : q[i] # NoFolder => q[i - 1] = NoFolder
    <3> SUFFICES ASSUME NEW i \in 2..Len(q), q[i] # NoFolder PROVE q[i - 1] = NoFolder
      OBVIOUS
    <3>1. CASE i \in 2..n
      BY <2>1, <2>3, <3>1 DEF WatchInOrder, n
    <3>2. CASE i \in {n + 1, n + 2}
      BY <2>1, <2>3, <3>2
    <3> QED  BY <2>1, <2>2, <3>1, <3>2
  <2>5. q[1] # NoFolder => watching = NoFolder
    <3>1. CASE watchQueue = <<>>
      BY <2>1, <2>3, <3>1
    <3>2. CASE watchQueue # <<>>
      BY <2>1, <2>3, <3>2 DEF WatchInOrder
    <3> QED  BY <3>1, <3>2
  <2>6. starting => q[1] # NoFolder
    BY <2>1, <2>3 DEF WatchInOrder
  <2> QED  BY <1>1, <2>2, <2>4, <2>5, <2>6 DEF WatchInOrder, WatcherFollowsWindow
<1>8. CASE new # old /\ new = NoFolder
  BY <1>1, <1>2, <1>6, <1>8
<1>9. CASE new # old /\ new # NoFolder /\ old = NoFolder
  BY <1>1, <1>2, <1>6, <1>9
<1> QED  BY <1>5, <1>7, <1>8, <1>9

LEMMA OneWatchLess ==
    ASSUME NEW q \in Seq(Watches), q # <<>>
    PROVE  /\ Tail(q) \in Seq(Watches) /\ Len(q) \in Nat \ {0} /\ Len(Tail(q)) = Len(q) - 1
           /\ \A i \in 1..Len(Tail(q)) : Tail(q)[i] = q[i + 1]
           /\ Tail(q) = <<>> <=> Len(Tail(q)) = 0
<1>1. Len(q) \in Nat \ {0}
  OBVIOUS
<1>2. Tail(q) \in Seq(Watches) /\ Len(Tail(q)) = Len(q) - 1
  OBVIOUS
<1>3. \A i \in 1..Len(Tail(q)) : Tail(q)[i] = q[i + 1]
  OBVIOUS
<1>4. Tail(q) = <<>> <=> Len(Tail(q)) = 0
  BY <1>2
<1> QED  BY <1>1, <1>2, <1>3, <1>4

\* Main is done with the call at the head of the queue.
LEMMA AnsweredWatch ==
    ASSUME SessionTyped, WatchInOrder, watchQueue # <<>>, watchQueue' = Tail(watchQueue),
           session' = session, ~starting',
           watching' \in Watches \cup {WatchRefused},
           watchQueue[1] = NoFolder => watching' = NoFolder,
           watchQueue[1] # NoFolder => watching' \in {watchQueue[1], WatchRefused},
           WatchRefused # NoFolder
    PROVE  watchQueue' \in Seq(Watches) /\ WatchInOrder'
<1> DEFINE q == watchQueue
           r == watchQueue'
<1>1. /\ q \in Seq(Watches) /\ r \in Seq(Watches) /\ Len(q) \in Nat \ {0}
      /\ Len(r) = Len(q) - 1 /\ \A i \in 1..Len(r) : r[i] = q[i + 1]
      /\ r = <<>> <=> Len(r) = 0
  BY OneWatchLess DEF SessionTyped
<1>2. /\ \A i \in 2..Len(q) : q[i] # NoFolder => q[i - 1] = NoFolder
      /\ q[Len(q)] = Watched(session) /\ Watched(session)' = Watched(session)
  BY DEF WatchInOrder, Watched
<1> HIDE DEF q, r
<1>3. \A i \in 2..Len(r) : r[i] # NoFolder => r[i - 1] = NoFolder
  BY <1>1, <1>2
<1>4. r # <<>> => r[Len(r)] = Watched(session) /\ (r[1] # NoFolder => watching' = NoFolder)
  <2> SUFFICES ASSUME r # <<>> PROVE r[Len(r)] = q[Len(q)] /\ (r[1] # NoFolder => q[1] = NoFolder)
    BY <1>2 DEF q
  <2>1. Len(r) >= 1 /\ Len(q) >= 2 /\ r[1] = q[2] /\ r[Len(r)] = q[Len(r) + 1]
    BY <1>1
  <2> QED  BY <1>1, <1>2, <2>1
<1>5. r = <<>> => watching' \in {Watched(session), WatchRefused}
                  /\ (watching' = WatchRefused => Watched(session) # NoFolder)
  BY <1>1, <1>2 DEF q
<1> QED  BY <1>1, <1>2, <1>3, <1>4, <1>5 DEF WatchInOrder, WatcherFollowsWindow, r

LEMMA MainStopsStep ==
    ASSUME SessionConstants, SessionInv, MainStops PROVE SessionInv'
<1> USE DEF SessionInv, SessionConstants
<1>1. /\ watchQueue # <<>> /\ ~starting /\ Head(watchQueue) = watchQueue[1]
      /\ watchQueue[1] \in Watches
      /\ UNCHANGED <<present, moves, workspaces, belongs, removed, session, flows>>
  BY DEF MainStops, SessionTyped
<1>2. FlowsInOrder' /\ ConversationsKeepTheirProject'
  BY <1>1 DEF FlowsInOrder, ConversationsKeepTheirProject
<1>3. CASE watchQueue[1] \in Listed /\ watchQueue[1] # watching
  <2>1. starting' /\ watching' = NoFolder /\ watchQueue' = watchQueue
    BY <1>1, <1>3 DEF MainStops
  <2>2. watchQueue[1] # NoFolder
    BY <1>3 DEF Listed, AuthorizedFolders
  <2> QED  BY <1>1, <1>2, <2>1, <2>2
           DEF SessionTyped, WatchInOrder, WatcherFollowsWindow, Watched, Watches
<1>4. CASE ~(watchQueue[1] \in Listed /\ watchQueue[1] # watching)
  <2>1. /\ watchQueue' = Tail(watchQueue) /\ starting' = starting
        /\ watchQueue[1] = NoFolder => watching' = NoFolder
        /\ watchQueue[1] # NoFolder => watching' \in {watchQueue[1], WatchRefused}
    <3>1. watchQueue[1] # NoFolder => watching = NoFolder
      BY <1>1 DEF WatchInOrder
    <3> QED  BY <1>1, <1>4, <3>1 DEF MainStops
  <2>2. watching' \in Watches \cup {WatchRefused}
    BY <1>1, <2>1 DEF Watches
  <2>3. WatchRefused # NoFolder
    BY DEF WatchRefused, NoFolder
  <2>4. watchQueue' \in Seq(Watches) /\ WatchInOrder'
    BY <1>1, <2>1, <2>2, <2>3, AnsweredWatch
  <2> QED  BY <1>1, <1>2, <2>1, <2>2, <2>4 DEF SessionTyped
<1> QED  BY <1>3, <1>4

LEMMA MainStartsStep ==
    ASSUME SessionConstants, SessionInv, MainStarts PROVE SessionInv'
<1> USE DEF SessionInv, SessionConstants
<1>1. /\ watchQueue # <<>> /\ watchQueue[1] # NoFolder /\ Head(watchQueue) = watchQueue[1]
      /\ watchQueue[1] \in Watches
      /\ starting' = FALSE /\ watchQueue' = Tail(watchQueue)
      /\ watching' \in {watchQueue[1], WatchRefused}
      /\ UNCHANGED <<present, moves, workspaces, belongs, removed, session, flows>>
  BY DEF MainStarts, WatchInOrder, SessionTyped
<1>2. FlowsInOrder' /\ ConversationsKeepTheirProject'
  BY <1>1 DEF FlowsInOrder, ConversationsKeepTheirProject
<1>3. watching' \in Watches \cup {WatchRefused} /\ WatchRefused # NoFolder
  BY <1>1 DEF WatchRefused, NoFolder
<1>4. watchQueue' \in Seq(Watches) /\ WatchInOrder'
  BY <1>1, <1>3, AnsweredWatch
<1> QED  BY <1>1, <1>2, <1>3, <1>4 DEF SessionTyped

\* The actions that show something leave the watcher of main alone.
LEMMA ShownStep ==
    ASSUME SessionInv, NEW s \in Sessions, Show(s), UNCHANGED <<starting, watching>>,
           UNCHANGED <<present, moves, workspaces, belongs, removed>>,
           flows' \in Seq(Flows), Len(flows') <= MaxFlows, FlowsInOrder'
    PROVE  SessionInv'
<1>1. watchQueue' \in Seq(Watches) /\ WatchInOrder'
  BY ShowStep DEF SessionInv
<1>2. session' = s
  BY DEF Show
<1> QED  BY <1>1, <1>2 DEF SessionInv, SessionTyped, ConversationsKeepTheirProject

LEMMA NewFlow ==
    ASSUME SessionConstants, SessionInv, NEW kind \in {"open", "choose", "select", "favorite"},
           NEW c \in Conversations \cup {NoChat},
           NEW step \in {"page", "list", "done"}, StartFlow(Flow(kind, c, step)),
           kind = "open" => step = "page" /\ c \in Conversations
    PROVE  flows' \in Seq(Flows) /\ Len(flows') <= MaxFlows /\ FlowsInOrder'
<1> DEFINE f == Flow(kind, c, step)
<1>1. f \in Flows /\ f.kind = kind /\ f.chat = c /\ f.step = step
  BY DEF Flow, Flows, Watches
<1>2. flows \in Seq(Flows) /\ Len(flows) < MaxFlows /\ flows' = Append(flows, f)
  BY DEF StartFlow, SessionInv, SessionTyped
<1> HIDE DEF f
<1>3. /\ flows' \in Seq(Flows) /\ Len(flows') = Len(flows) + 1
      /\ flows'[Len(flows) + 1] = f /\ Len(flows) \in Nat
      /\ \A i \in 1..Len(flows) : flows'[i] = flows[i]
  BY <1>1, <1>2
<1>4. FlowsInOrder'
  BY <1>1, <1>3 DEF SessionInv, FlowsInOrder
<1> QED  BY <1>2, <1>3, <1>4 DEF SessionConstants

LEMMA FlowGoesOn ==
    ASSUME SessionInv, NEW i \in DOMAIN flows,
           NEW step \in {"page", "confirm", "list", "refresh", "done"}, step # "list",
           GoOn(i, step)
    PROVE  flows' \in Seq(Flows) /\ Len(flows') <= MaxFlows /\ FlowsInOrder'
<1>1. flows \in Seq(Flows) /\ flows' = [flows EXCEPT ![i].step = step] /\ i \in 1..Len(flows)
  BY DEF GoOn, SessionInv, SessionTyped
<1>2. /\ flows[i] \in Flows
      /\ flows'[i] = [flows[i] EXCEPT !.step = step]
      /\ \A j \in 1..Len(flows) : j # i => flows'[j] = flows[j]
      /\ Len(flows') = Len(flows)
  BY <1>1
<1>3. /\ flows'[i] \in Flows /\ flows'[i].kind = flows[i].kind
      /\ flows'[i].chat = flows[i].chat /\ flows'[i].step = step
  BY <1>2 DEF Flows
<1>4. flows' \in Seq(Flows)
  BY <1>1, <1>3
<1>5. FlowsInOrder'
  BY <1>1, <1>2, <1>3 DEF SessionInv, FlowsInOrder
<1> QED  BY <1>2, <1>4, <1>5 DEF SessionInv, SessionTyped

LEMMA OpenStep ==
    ASSUME SessionConstants, SessionInv, NEW c \in DOMAIN Chats, OpenConversation(c)
    PROVE  SessionInv'
<1>1. flows' \in Seq(Flows) /\ Len(flows') <= MaxFlows /\ FlowsInOrder'
  BY NewFlow DEF OpenConversation, Conversations
<1>2. /\ UNCHANGED <<present, moves, workspaces, belongs, removed, watchQueue, starting, watching>>
      /\ session' = [session EXCEPT !.active = c, !.request = Len(flows) + 1]
  BY DEF OpenConversation, tables, unwatched
<1>3. session' \in Sessions /\ Watched(session)' = Watched(session)
  <2>1. Len(flows) + 1 \in Nat /\ c \in Conversations /\ session \in Sessions
    BY DEF SessionInv, SessionTyped, Conversations
  <2>2. Watched(session)' = Watched(session)
    BY <1>2, <2>1 DEF Sessions, Watched
  <2> QED  BY <1>2, <2>1, <2>2 DEF Sessions
<1> QED  BY <1>1, <1>2, <1>3
         DEF SessionInv, SessionTyped, WatchInOrder, WatcherFollowsWindow,
             ConversationsKeepTheirProject

LEMMA ChooseStep ==
    ASSUME SessionConstants, SessionInv, NEW f \in Folders, ChooseSavedWorkspace(f)
    PROVE  SessionInv'
<1>1. UNCHANGED <<starting, watching>> /\ UNCHANGED <<present, moves, workspaces, belongs, removed>>
  BY DEF ChooseSavedWorkspace, tables, unwatched
<1>2. session \in Sessions /\ Len(flows) \in Nat
  BY DEF SessionInv, SessionTyped
<1>3. CASE StartFlow(Flow("choose", NoChat, "done"))
           /\ Show([session EXCEPT !.workspace = f, !.active = NoChat])
  <2>1. [session EXCEPT !.workspace = f, !.active = NoChat] \in Sessions
    BY <1>2 DEF Sessions, Watches
  <2>2. flows' \in Seq(Flows) /\ Len(flows') <= MaxFlows /\ FlowsInOrder'
    BY <1>3, NewFlow
  <2> QED  BY <1>1, <1>3, <2>1, <2>2, ShownStep
<1>4. ASSUME NEW c \in Conversations, StartFlow(Flow("open", c, "page")),
             Show([session EXCEPT !.workspace = f, !.active = c, !.request = Len(flows) + 1])
      PROVE  SessionInv'
  <2>1. [session EXCEPT !.workspace = f, !.active = c, !.request = Len(flows) + 1] \in Sessions
    <3>1. Len(flows) + 1 \in Nat /\ f \in Watches
      BY <1>2 DEF Watches
    <3> QED  BY <1>2, <3>1 DEF Sessions
  <2>2. flows' \in Seq(Flows) /\ Len(flows') <= MaxFlows /\ FlowsInOrder'
    BY <1>4, NewFlow
  <2> QED  BY <1>1, <1>4, <2>1, <2>2, ShownStep
<1>5. DOMAIN session.chats = Conversations
  BY <1>2 DEF Sessions, Owners
<1> QED  BY <1>3, <1>4, <1>5 DEF ChooseSavedWorkspace

LEMMA PageStep ==
    ASSUME SessionConstants, SessionInv, NEW i \in DOMAIN flows, PageShown(i)
    PROVE  SessionInv'
<1>1. UNCHANGED <<starting, watching>> /\ UNCHANGED <<present, moves, workspaces, belongs, removed>>
  BY DEF PageShown, tables, unwatched
<1>2. PICK step \in {"done", "confirm"} : GoOn(i, step)
  BY DEF PageShown
<1>3. flows' \in Seq(Flows) /\ Len(flows') <= MaxFlows /\ FlowsInOrder'
  BY <1>2, FlowGoesOn
<1>4. CASE Latest(i)
  <2>1. flows[i].chat \in Conversations
    BY DEF PageShown, FlowAt, SessionInv, SessionTyped, FlowsInOrder
  <2>2. [session EXCEPT !.workspace = session.chats[flows[i].chat]] \in Sessions
    BY <2>1 DEF SessionInv, SessionTyped, Sessions, Owners, Watches
  <2> QED  BY <1>1, <1>3, <1>4, <2>2, ShownStep DEF PageShown
<1>5. CASE ~Latest(i)
  <2>1. UNCHANGED <<session, watchQueue>>
    BY <1>5 DEF PageShown
  <2> QED  BY <1>1, <1>3, <2>1 DEF SessionInv, SessionTyped, WatchInOrder, Watched,
                                   WatcherFollowsWindow, ConversationsKeepTheirProject
<1> QED  BY <1>4, <1>5

\* The answer of the folder's choice; only the tables and the flow change.
LEMMA ConfirmedStep ==
    ASSUME SessionConstants, SessionInv, NEW i \in DOMAIN flows, Confirmed(i)
    PROVE  SessionInv'
<1>1. /\ UNCHANGED <<present, moves, session, watchQueue, starting, watching>>
      /\ i \in 1..Len(flows) /\ flows[i] \in Flows /\ flows \in Seq(Flows)
      /\ flows[i].kind = "open" /\ flows[i].chat \in Conversations
  <2>1. flows \in Seq(Flows) /\ i \in 1..Len(flows)
    BY DEF SessionInv, SessionTyped
  <2>2. flows[i].kind = "open" /\ UNCHANGED <<present, moves, session, watchQueue, starting, watching>>
    BY DEF Confirmed, FlowAt, unwatched
  <2> QED  BY <2>1, <2>2 DEF SessionInv, FlowsInOrder
<1>2. session.chats[flows[i].chat] \in Folders
  BY <1>1 DEF SessionInv, SessionTyped, Sessions, Owners
<1>3. WatchInOrder'
  BY <1>1 DEF SessionInv, WatchInOrder, WatcherFollowsWindow, Watched
<1>4. CASE GoOn(i, "done") /\ UNCHANGED <<workspaces, belongs, removed>>
  <2>1. flows' \in Seq(Flows) /\ Len(flows') <= MaxFlows /\ FlowsInOrder'
    BY <1>4, FlowGoesOn
  <2> QED  BY <1>1, <1>3, <1>4, <2>1
           DEF SessionInv, SessionTyped, ConversationsKeepTheirProject
<1>5. ASSUME NEW f \in Folders, NEW expected \in Folders,
             Touch(f) \/ RelocateWorkspace(expected, f),
             flows' = [flows EXCEPT ![i].step = "list", ![i].selected = f]
      PROVE  SessionInv'
  <2>1. /\ flows'[i] = [flows[i] EXCEPT !.step = "list", !.selected = f]
        /\ \A j \in 1..Len(flows) : j # i => flows'[j] = flows[j]
        /\ Len(flows') = Len(flows)
    BY <1>1, <1>5
  <2>2. /\ flows'[i] \in Flows /\ flows'[i].kind = flows[i].kind
        /\ flows'[i].chat = flows[i].chat /\ flows'[i].selected = f
    BY <1>1, <2>1 DEF Flows, Watches
  <2>3. flows' \in Seq(Flows) /\ FlowsInOrder'
    <3>1. flows' \in Seq(Flows)
      <4>1. flows' = [flows EXCEPT ![i] = flows'[i]]
        BY <1>1, <1>5
      <4> QED  BY <1>1, <2>2, <4>1
    <3>2. FlowsInOrder'
      BY <1>1, <2>1, <2>2 DEF SessionInv, FlowsInOrder
    <3> QED  BY <3>1, <3>2
  <2>4. /\ workspaces' \in [Folders -> {"unknown", "restored", "authorized"}]
        /\ belongs' \in Owners /\ ConversationsKeepTheirProject' /\ removed' \subseteq Folders
    <3>1. CASE Touch(f)
      BY <3>1 DEF Touch, SessionInv, SessionTyped, ConversationsKeepTheirProject, Owners
    <3>2. CASE RelocateWorkspace(expected, f)
      <4>1. /\ workspaces' = [workspaces EXCEPT ![expected] = "unknown", ![f] = "authorized"]
            /\ removed' = removed \ {f} /\ expected # f
            /\ belongs' = [c \in DOMAIN belongs |->
                             IF belongs[c] = expected THEN f ELSE belongs[c]]
        BY <3>2 DEF RelocateWorkspace
      <4>2. /\ workspaces' \in [Folders -> {"unknown", "restored", "authorized"}]
            /\ workspaces'[f] = "authorized"
            /\ \A g \in Folders \ {expected, f} : workspaces'[g] = workspaces[g]
        <5>1. workspaces \in [Folders -> {"unknown", "restored", "authorized"}]
          BY DEF SessionInv, SessionTyped
        <5> QED  BY <4>1, <5>1
      <4>3. /\ belongs \in Owners /\ belongs' \in Owners /\ DOMAIN belongs' = DOMAIN belongs
            /\ \A c \in DOMAIN belongs :
                  belongs'[c] = f \/ (belongs'[c] = belongs[c] /\ belongs[c] # expected)
        <5>1. belongs \in [Conversations -> Folders] /\ DOMAIN belongs = Conversations
          BY DEF SessionInv, SessionTyped, Owners
        <5>2. \A c \in Conversations :
                 belongs'[c] = IF belongs[c] = expected THEN f ELSE belongs[c]
          BY <4>1, <5>1
        <5>3. belongs' \in [Conversations -> Folders]
          BY <4>1, <5>1
        <5> QED  BY <5>1, <5>2, <5>3 DEF Owners
      <4>4. ASSUME NEW c \in DOMAIN belongs', workspaces'[belongs'[c]] = "unknown"
            PROVE  belongs'[c] \in removed'
        <5>1. belongs'[c] = belongs[c] /\ belongs[c] \in Folders \ {expected, f}
          BY <4>2, <4>3, <4>4 DEF Owners
        <5>2. workspaces[belongs[c]] = "unknown"
          BY <4>2, <4>4, <5>1
        <5> QED  BY <4>1, <4>3, <5>1, <5>2 DEF SessionInv, ConversationsKeepTheirProject
      <4>5. removed' \subseteq Folders
        BY <4>1 DEF SessionInv, SessionTyped
      <4> QED  BY <4>2, <4>3, <4>4, <4>5 DEF ConversationsKeepTheirProject
    <3> QED  BY <1>5, <3>1, <3>2
  <2> QED  BY <1>1, <1>3, <2>1, <2>3, <2>4 DEF SessionInv, SessionTyped
<1> QED  BY <1>2, <1>4, <1>5 DEF Confirmed

LEMMA ReauthorizedStep ==
    ASSUME SessionConstants, SessionInv, NEW i \in DOMAIN flows, Reauthorized(i)
    PROVE  SessionInv'
<1>1. UNCHANGED <<starting, watching>> /\ UNCHANGED <<present, moves, workspaces, belongs, removed>>
  BY DEF Reauthorized, tables, unwatched
<1>2. PICK step \in {"done", "refresh"} : GoOn(i, step)
  BY DEF Reauthorized
<1>3. flows' \in Seq(Flows) /\ Len(flows') <= MaxFlows /\ FlowsInOrder'
  BY <1>2, FlowGoesOn
<1>4. flows[i].selected \in Folders
  BY DEF Reauthorized, FlowAt, SessionInv, SessionTyped, FlowsInOrder
<1>5. [session EXCEPT !.listed = Listed, !.workspace = flows[i].selected] \in Sessions
  BY <1>4 DEF SessionInv, SessionTyped, Sessions, Listed, AuthorizedFolders, Watches
<1> QED  BY <1>1, <1>3, <1>5, ShownStep DEF Reauthorized

LEMMA RefreshedStep ==
    ASSUME SessionConstants, SessionInv, NEW i \in DOMAIN flows, ConversationsRefreshed(i)
    PROVE  SessionInv'
<1>1. /\ UNCHANGED <<present, moves, workspaces, belongs, removed, watchQueue, starting, watching>>
      /\ session' = [session EXCEPT !.chats = belongs] /\ GoOn(i, "done")
  BY DEF ConversationsRefreshed, tables, unwatched
<1>2. flows' \in Seq(Flows) /\ Len(flows') <= MaxFlows /\ FlowsInOrder'
  BY <1>1, FlowGoesOn
<1>3. session' \in Sessions /\ Watched(session)' = Watched(session)
  BY <1>1 DEF SessionInv, SessionTyped, Sessions, Watched
<1> QED  BY <1>1, <1>2, <1>3
         DEF SessionInv, SessionTyped, WatchInOrder, WatcherFollowsWindow,
             ConversationsKeepTheirProject

\* selectWorkspace: the tables, the flows and what is shown change at once.
LEMMA SelectStep ==
    ASSUME SessionConstants, SessionInv, NEW f \in Folders, SelectWorkspace(f)
    PROVE  SessionInv'
<1>1. /\ UNCHANGED <<starting, watching>> /\ UNCHANGED <<present, belongs>>
      /\ workspaces' = [workspaces EXCEPT ![f] = "authorized"] /\ removed' = removed \ {f}
      /\ Show([session EXCEPT !.workspace = f])
      /\ StartFlow(Flow("select", NoChat, "list"))
  BY DEF SelectWorkspace, Touch, unwatched
<1>2. flows' \in Seq(Flows) /\ Len(flows') <= MaxFlows /\ FlowsInOrder'
  BY <1>1, NewFlow
<1>3. [session EXCEPT !.workspace = f] \in Sessions
  BY DEF SessionInv, SessionTyped, Sessions, Watches
<1>4. watchQueue' \in Seq(Watches) /\ WatchInOrder'
  BY <1>1, <1>3, ShowStep DEF SessionInv
<1>5. session' \in Sessions
  BY <1>1, <1>3 DEF Show
<1> QED  BY <1>1, <1>2, <1>4, <1>5 DEF SessionInv, SessionTyped, ConversationsKeepTheirProject

LEMMA RelistedStep ==
    ASSUME SessionConstants, SessionInv, NEW i \in DOMAIN flows, Relisted(i)
    PROVE  SessionInv'
<1>1. UNCHANGED <<starting, watching>> /\ UNCHANGED <<present, moves, workspaces, belongs, removed>>
  BY DEF Relisted, tables, unwatched
<1>2. flows' \in Seq(Flows) /\ Len(flows') <= MaxFlows /\ FlowsInOrder'
  BY FlowGoesOn DEF Relisted
<1>3. [session EXCEPT !.listed = Listed] \in Sessions
  BY DEF SessionInv, SessionTyped, Sessions, Listed, AuthorizedFolders
<1> QED  BY <1>1, <1>2, <1>3, ShownStep DEF Relisted

LEMMA FavoriteStep ==
    ASSUME SessionConstants, SessionInv, NEW f \in Folders, FavoriteWorkspace(f)
    PROVE  SessionInv'
<1>1. flows' \in Seq(Flows) /\ Len(flows') <= MaxFlows /\ FlowsInOrder'
  BY NewFlow DEF FavoriteWorkspace
<1>2. UNCHANGED <<present, moves, workspaces, belongs, removed, session, watchQueue, starting,
                  watching>>
  BY DEF FavoriteWorkspace, tables, unwatched
<1> QED  BY <1>1, <1>2 DEF SessionInv, SessionTyped, WatchInOrder, Watched,
                           WatcherFollowsWindow, ConversationsKeepTheirProject

LEMMA RemoveStep ==
    ASSUME SessionInv, NEW f \in Folders, RemoveWorkspace(f)
    PROVE  SessionInv'
BY DEF RemoveWorkspace, SessionInv, SessionTyped, FlowsInOrder, WatchInOrder, Watched,
       WatcherFollowsWindow, ConversationsKeepTheirProject

LEMMA MoveStep ==
    ASSUME SessionInv, NEW f \in Folders, NEW g \in Folders, MoveFolder(f, g)
    PROVE  SessionInv'
BY DEF MoveFolder, SessionInv, SessionTyped, FlowsInOrder, WatchInOrder, Watched,
       WatcherFollowsWindow, ConversationsKeepTheirProject

LEMMA SessionStarts ==
    ASSUME SessionConstants, SessionInit PROVE SessionInv
<1>1. SessionTyped
  <2>1. session \in Sessions
    BY DEF SessionConstants, SessionInit, FirstSession, Sessions, Listed, AuthorizedFolders, Watches
  <2>2. flows = <<>> /\ watchQueue = <<>> /\ starting = FALSE /\ watching \in Watches
    BY DEF SessionInit, Watches
  <2>3. /\ flows \in Seq(Flows) /\ Len(flows) <= MaxFlows /\ watchQueue \in Seq(Watches)
    BY <2>2 DEF SessionConstants
  <2> QED  BY <2>1, <2>2, <2>3 DEF SessionConstants, SessionInit, SessionTyped
<1>2. FlowsInOrder
  BY DEF SessionInit, FlowsInOrder
<1>3. WatchInOrder
  BY DEF SessionConstants, SessionInit, WatchInOrder, WatcherFollowsWindow, Watched,
         FirstSession, Listed, AuthorizedFolders, NoFolder, WatchRefused
<1>4. ConversationsKeepTheirProject
  BY DEF SessionInit, ConversationsKeepTheirProject
<1> QED  BY <1>1, <1>2, <1>3, <1>4 DEF SessionInv

(* However windows, folders and lists change while calls wait: when all watch  *)
(* calls are answered, main watches what the window shows, or has refused it;  *)
(* and no conversation loses its project but to workspace.remove               *)
(* (useWorkspaceWatcher.ts, registerWorkspaceIpc.ts).                          *)
THEOREM WatcherIsTheWindows ==
    ASSUME SessionConstants
    PROVE  SessionSpec => [](SessionTypeOK /\ WatcherFollowsWindow
                                           /\ ConversationsKeepTheirProject)
<1>1. SessionInit => SessionInv
  BY SessionStarts
<1>2. SessionInv /\ [SessionNext]_sessionVars => SessionInv'
  <2> SUFFICES ASSUME SessionInv, [SessionNext]_sessionVars PROVE SessionInv'
    OBVIOUS
  <2>1. CASE UNCHANGED sessionVars
    BY <2>1 DEF sessionVars, SessionInv, SessionTyped, FlowsInOrder, WatchInOrder, Watched,
                WatcherFollowsWindow, ConversationsKeepTheirProject
  <2>2. CASE SessionNext
    BY <2>2, MainStopsStep, MainStartsStep, MoveStep, OpenStep, ChooseStep, SelectStep, PageStep,
       ConfirmedStep, ReauthorizedStep, RefreshedStep, RelistedStep, FavoriteStep, RemoveStep
       DEF SessionNext
  <2> QED  BY <2>1, <2>2
<1>3. SessionInv => SessionTypeOK /\ WatcherFollowsWindow /\ ConversationsKeepTheirProject
  BY DEF SessionInv, SessionTyped, WatchInOrder, SessionTypeOK, Sessions, Owners, Watches,
         Conversations
<1> QED  BY <1>1, <1>2, <1>3, PTL DEF SessionSpec
=================================================================================
