---------------------------- MODULE ConnectionProofs ----------------------------
(* Proofs about the page of the AI connections (ConnectionPage): what is locked has *)
(* its call under way, a save keeps the binding it is not about, and a page at rest *)
(* shows what is stored. Each rests on where the calls are: in the line to main, with *)
(* a handler that waits, or in the line of replies.                              *)
EXTENDS ConnectionPage, TLAPS

-----------------------------------------------------------------------------
(* What travels between the page and main. *)
WaitKinds == {"refresh", "create", "remove"}
SaveKinds == {"embedding", "bind"}
ChainKinds == {"create", "refresh", "models"}
CallKinds == WaitKinds \cup SaveKinds \cup {"list", "load", "models"}
Named == Providers \cup {None}
BindingRows == (UNION {OfWorkspace(w) : w \in Workspaces}) \cup {NoBindings}

CallRecords ==
    [kind : CallKinds, open : Nat, effect : Nat, of : Workspaces \cup Named,
     bindings : BindingRows, listed : SUBSET Providers, blind : BOOLEAN, ok : BOOLEAN]

(* A call is about a connection or about a workspace, and carries a row of it.     *)
Calls ==
    {m \in CallRecords :
        /\ m.kind \in ChainKinds \cup WaitKinds => m.of \in Providers
        /\ m.kind \in SaveKinds \cup {"load"} =>
               m.of \in Workspaces /\ m.bindings \in OfWorkspace(m.of)}

Pages ==
    [open : Nat, effect : Nat, workspace : Workspaces \cup {None}, services : SUBSET Providers,
     catalog : SUBSET Providers, bindings : BindingRows, embedding : Named,
     embeddingSaving : BOOLEAN, removing : Named, confirm : Named]
Wizards ==
    [step : {"list", "auth", "model"}, provider : Named, selected : Named,
     connecting : BOOLEAN, saving : BOOLEAN]

ConnTypes ==
    /\ connections \in SUBSET Providers
    /\ available \in SUBSET Providers
    /\ stored \in [Workspaces -> BindingRows]
    /\ \A w \in Workspaces : stored[w] \in OfWorkspace(w)
    /\ requests \in Seq(Calls)
    /\ waiting \in SUBSET Calls
    /\ toPage \in Seq(Calls)
    /\ page \in Pages
    /\ wizard \in Wizards
    /\ spent \in [saves : Nat, faults : Nat, made : SUBSET Providers]
    /\ astray \in SUBSET {"services", "bindings"}

(* No workspace and no connection is called "none".                              *)
NamesApart == None \notin Workspaces /\ None \notin Providers /\ FirstProvider \in Providers

-----------------------------------------------------------------------------
(* The calls of a set M on their way: requests r, waiting handlers w, replies t.    *)
InLine(M, s) == \E i \in DOMAIN s : s[i] \in M
OnWay(M, r, w, t) == InLine(M, r) \/ (\E m \in w : m \in M) \/ InLine(M, t)

OneInLine(M, s) == \A i, j \in DOMAIN s : s[i] \in M /\ s[j] \in M => i = j
AtMostOne(M, r, w, t) ==
    /\ OneInLine(M, r) /\ OneInLine(M, t)
    /\ \A m, n \in w : m \in M /\ n \in M => m = n
    /\ ~(InLine(M, r) /\ (\E m \in w : m \in M))
    /\ ~(InLine(M, r) /\ InLine(M, t))
    /\ ~((\E m \in w : m \in M) /\ InLine(M, t))

(* Those of A, which never wait, are ahead of those of B.                         *)
Ahead(A, B, r, w, t) ==
    /\ \A i, j \in DOMAIN r : r[i] \in A /\ r[j] \in B => i < j
    /\ \A i, j \in DOMAIN t : t[i] \in A /\ t[j] \in B => i < j
    /\ InLine(A, r) => ~(\E m \in w : m \in B) /\ ~InLine(B, t)
    /\ \A m \in w : m \notin A

OfOpening(kinds, o) == {m \in Calls : m.kind \in kinds /\ m.open = o}
OfBefore(kinds, o) == {m \in Calls : m.kind \in kinds /\ m.open # o}
LoadsOf(p) == {m \in Calls : m.kind = "load" /\ m.open = p.open /\ m.effect = p.effect}
Making(c) == {m \in Calls : m.kind = "create" /\ m.of = c}
Removing(c) == {m \in Calls : m.kind = "remove" /\ m.of = c}

(* A call is of an opening and an effect that were.                              *)
Issued(m, p) ==
    /\ m.open <= p.open
    /\ m.open = p.open => m.effect <= p.effect
    /\ m.open = p.open /\ m.effect = p.effect /\ m.kind \in SaveKinds \cup {"load"} =>
           m.of = p.workspace

Misplaced(p) == {m \in Calls : ~Issued(m, p)}
AllIssued ==
    /\ ~OnWay(Misplaced(page), requests, waiting, toPage)
    /\ \A i \in DOMAIN requests : requests[i].ok
    /\ \A m \in waiting : m.ok /\ m.kind \in WaitKinds

-----------------------------------------------------------------------------
(* The locks. *)
Groups == {ChainKinds, {"bind"}, {"embedding"}, {"remove"}, SaveKinds}
Under(kinds) == OnWay(OfOpening(kinds, page.open), requests, waiting, toPage)
OneOfEach ==
    \A K \in Groups : AtMostOne(OfOpening(K, page.open), requests, waiting, toPage)

Locks ==
    /\ OneOfEach
    /\ wizard.connecting <=> Under(ChainKinds)
    /\ wizard.saving <=> Under({"bind"})
    /\ page.embeddingSaving <=> Under({"embedding"})
    /\ page.removing # None <=> Under({"remove"})

StepsOf(z) ==
    /\ z.saving => z.step = "model" /\ ~z.connecting
    /\ z.step = "list" => ~z.connecting /\ z.selected = None
    /\ z.selected # None => z.selected = z.provider /\ z.step = "model" /\ ~z.connecting

(* The models that come are those of the connection the wizard shows.           *)
NotFor(z, o) ==
    {m \in Calls : /\ m.open = o /\ m.kind \in {"refresh", "models"}
                   /\ m.of # z.provider \/ z.step # "model"}

EmbeddingFirst ==
    Ahead(OfOpening({"embedding"}, page.open), OfOpening(ChainKinds, page.open),
          requests, waiting, toPage)
NoneAstray == ~OnWay(NotFor(wizard, page.open), requests, waiting, toPage)

Steps ==
    /\ StepsOf(wizard)
    /\ wizard.selected # None => ~page.embeddingSaving
    /\ NoneAstray /\ EmbeddingFirst

-----------------------------------------------------------------------------
(* The bindings. *)
Good(M) == {m \in M : m.ok}
Saves == {m \in Calls : m.kind \in SaveKinds}
SavesNow == OfOpening(SaveKinds, page.open)
StaleSaves(p) == {m \in Saves : ~(m.open = p.open /\ m.effect = p.effect)}
Seen == {m \in Saves : ~m.blind}
Loading == OnWay(LoadsOf(page), requests, waiting, toPage)

(* A call that carries what is stored, and a save that keeps the other binding.    *)
AsStored == {m \in Calls : m.kind \in SaveKinds \cup {"load"} /\ m.bindings = stored[m.of]}
Keeping ==
    {m \in Calls : IF m.kind = "bind" THEN m.bindings.embedding = stored[m.of].embedding
                   ELSE m.bindings.default = stored[m.of].default}

(* Each of A is one of X, or one of B comes after it.                             *)
Followed(A, X, B, t) ==
    \A i \in DOMAIN t : t[i] \in A => t[i] \in X \/ \E j \in DOMAIN t : i < j /\ t[j] \in B
NoLater(A, B, r) == \A i, j \in DOMAIN r : r[i] \in A /\ r[j] \in B => i <= j

(* Before the first bindings of an opening are there, no model can be chosen.       *)
OneLoad == AtMostOne(LoadsOf(page), requests, waiting, toPage)
LoadFirst ==
    "bindings" \notin astray =>
        Ahead(LoadsOf(page), OfOpening(ChainKinds, page.open), requests, waiting, toPage)
NothingChosen ==
    "bindings" \notin astray /\ Loading => page.catalog = {} /\ wizard.selected = None

(* What was saved for an opening or a workspace before is read again.             *)
OldSavesFirst ==
    Ahead(OfBefore(SaveKinds, page.open), SavesNow, requests, waiting, toPage)
LoadBehind ==
    page.workspace # None => Followed(StaleSaves(page), {}, LoadsOf(page), requests)

PageFollows ==
    page.open > 0 /\ "bindings" \notin astray /\ ~Loading /\ page.workspace # None =>
        page.bindings = stored[page.workspace] \/ InLine(Good(SavesNow), toPage)
SavesStored == Followed(Good(SavesNow), AsStored, {}, toPage)
LoadsFollow == Followed(Good(LoadsOf(page)), AsStored, Good(SavesNow), toPage)

(* A save of bindings that were shown is the first of the saves.                   *)
SeenKeep == Followed(Seen, Keeping, {}, requests)
SeenFirst == NoLater(Seen, Saves, requests)

BindingsInv ==
    /\ OneLoad /\ LoadFirst /\ NothingChosen
    /\ OldSavesFirst /\ LoadBehind
    /\ PageFollows /\ SavesStored /\ LoadsFollow
    /\ SeenKeep /\ SeenFirst

-----------------------------------------------------------------------------
(* The connections. A list that names c, a reply that tells the truth about c.      *)
ListsWith(c) == {m \in Calls : m.kind = "list" /\ m.ok /\ c \in m.listed}
ListsOf(o) == OfOpening({"list"}, o)
Truthful(c) == {m \in Calls : m.ok <=> c \in connections}
SameAs(c) == {m \in Calls : c \in m.listed <=> c \in connections}
Told(c) == Good(Making(c) \cup Removing(c))
Before(A, B, t) == \A i, j \in DOMAIN t : t[i] \in A /\ t[j] \in B => i < j

(* A connection is made once; until the page is told, it does not know of it.       *)
MadeOnce(c) ==
    /\ AtMostOne(Making(c), requests, waiting, toPage)
    /\ OnWay(Making(c), requests, waiting, toPage) =>
           c \in spent.made /\ c \notin page.services
           /\ ~OnWay(Removing(c), requests, waiting, toPage)
NotYet(c) ==
    InLine(Making(c), requests) \/ (\E m \in waiting : m \in Making(c)) =>
        c \notin connections /\ ~InLine(ListsWith(c), toPage)
Announced(c) ==
    /\ Followed(Making(c), Truthful(c), {}, toPage)
    /\ Before(Making(c), ListsWith(c), toPage)
MadeBefore(c) ==
    \/ OnWay(Removing(c), requests, waiting, toPage) \/ c \in page.services
    \/ c \in connections \/ InLine(ListsWith(c), toPage)
    => c \in spent.made
Gone(c) == InLine(Good(Removing(c)), toPage) => c \notin connections

ServicesShown(c) ==
    page.open > 0 /\ "services" \notin astray
      /\ ~OnWay(ListsOf(page.open), requests, waiting, toPage) =>
    (c \in page.services <=> c \in connections) \/ InLine(Told(c), toPage)
ListsFollow(c) == Followed(Good(ListsOf(page.open)), SameAs(c), Told(c), toPage)

ServicesInv(c) ==
    /\ MadeOnce(c) /\ NotYet(c) /\ Announced(c) /\ MadeBefore(c) /\ Gone(c)
    /\ ServicesShown(c) /\ ListsFollow(c)

-----------------------------------------------------------------------------
(* Lines of calls: one joins at the end, the first leaves. *)
LEMMA JoinedLine ==
    ASSUME NEW s \in Seq(Calls), NEW n \in Calls
    PROVE  /\ Append(s, n) \in Seq(Calls) /\ Len(Append(s, n)) = Len(s) + 1
           /\ DOMAIN Append(s, n) = 1 .. Len(s) + 1 /\ DOMAIN s = 1 .. Len(s)
           /\ Append(s, n)[Len(s) + 1] = n
           /\ \A i \in DOMAIN s : i \in DOMAIN Append(s, n) /\ Append(s, n)[i] = s[i]
           /\ Len(s) \in Nat
<1> DEFINE S == Calls
<1>1. s \in Seq(S) /\ n \in S
  OBVIOUS
<1> HIDE DEF S
<1>2. /\ Append(s, n) \in Seq(S) /\ Len(Append(s, n)) = Len(s) + 1
      /\ DOMAIN Append(s, n) = 1 .. Len(s) + 1 /\ DOMAIN s = 1 .. Len(s)
      /\ Append(s, n)[Len(s) + 1] = n
      /\ \A i \in DOMAIN s : i \in DOMAIN Append(s, n) /\ Append(s, n)[i] = s[i]
      /\ Len(s) \in Nat
  BY <1>1
<1> QED
  BY <1>2 DEF S

LEMMA LeftLine ==
    ASSUME NEW s \in Seq(Calls), s # <<>>
    PROVE  /\ Tail(s) \in Seq(Calls) /\ Head(s) \in Calls /\ Head(s) = s[1]
           /\ 1 \in DOMAIN s /\ Len(s) \in Nat \ {0} /\ Len(Tail(s)) = Len(s) - 1
           /\ DOMAIN s = 1 .. Len(s) /\ DOMAIN Tail(s) = 1 .. Len(s) - 1
           /\ \A i \in DOMAIN Tail(s) : i + 1 \in DOMAIN s /\ Tail(s)[i] = s[i + 1]
           /\ \A i \in DOMAIN s : i # 1 => i - 1 \in DOMAIN Tail(s) /\ Tail(s)[i - 1] = s[i]
<1> DEFINE S == Calls
<1>1. s \in Seq(S)
  OBVIOUS
<1> HIDE DEF S
<1>2. /\ Tail(s) \in Seq(S) /\ Head(s) \in S /\ Head(s) = s[1]
      /\ 1 \in DOMAIN s /\ Len(s) \in Nat \ {0} /\ Len(Tail(s)) = Len(s) - 1
      /\ DOMAIN s = 1 .. Len(s) /\ DOMAIN Tail(s) = 1 .. Len(s) - 1
      /\ \A i \in DOMAIN Tail(s) : i + 1 \in DOMAIN s /\ Tail(s)[i] = s[i + 1]
  BY <1>1
<1>3. \A i \in DOMAIN s : i # 1 => i - 1 \in DOMAIN Tail(s) /\ Tail(s)[i - 1] = s[i]
  BY <1>2
<1> QED
  BY <1>2, <1>3 DEF S

LEMMA JoinLine ==
    ASSUME NEW s \in Seq(Calls), NEW n \in Calls, NEW M
    PROVE  /\ InLine(M, Append(s, n)) <=> InLine(M, s) \/ n \in M
           /\ OneInLine(M, s) /\ ~(InLine(M, s) /\ n \in M) => OneInLine(M, Append(s, n))
<1>1. \A i \in DOMAIN Append(s, n) : i \in DOMAIN s \/ i = Len(s) + 1
  BY JoinedLine
<1>2. InLine(M, Append(s, n)) <=> InLine(M, s) \/ n \in M
  BY <1>1, JoinedLine DEF InLine
<1>3. OneInLine(M, s) /\ ~(InLine(M, s) /\ n \in M) => OneInLine(M, Append(s, n))
  BY <1>1, JoinedLine DEF InLine, OneInLine
<1> QED
  BY <1>2, <1>3

LEMMA LeaveLine ==
    ASSUME NEW s \in Seq(Calls), s # <<>>, NEW M
    PROVE  /\ InLine(M, s) <=> InLine(M, Tail(s)) \/ Head(s) \in M
           /\ OneInLine(M, s) => OneInLine(M, Tail(s))
           /\ OneInLine(M, s) /\ Head(s) \in M => ~InLine(M, Tail(s))
<1>1. \A i \in DOMAIN Tail(s) : i \in Nat /\ i # 0
  BY LeftLine
<1>2. InLine(M, s) <=> InLine(M, Tail(s)) \/ Head(s) \in M
  <2>1. \A i \in DOMAIN s : s[i] \in M => Head(s) \in M \/ \E j \in DOMAIN Tail(s) : Tail(s)[j] \in M
    BY LeftLine
  <2>2. \A j \in DOMAIN Tail(s) : j + 1 \in DOMAIN s /\ s[j + 1] = Tail(s)[j]
    BY LeftLine
  <2>3. 1 \in DOMAIN s /\ s[1] = Head(s)
    BY LeftLine
  <2> QED
    BY <2>1, <2>2, <2>3, Zenon DEF InLine
<1>3. OneInLine(M, s) => OneInLine(M, Tail(s))
  BY <1>1, LeftLine DEF OneInLine
<1>4. OneInLine(M, s) /\ Head(s) \in M => ~InLine(M, Tail(s))
  BY <1>1, LeftLine DEF InLine, OneInLine
<1> QED
  BY <1>2, <1>3, <1>4

-----------------------------------------------------------------------------
(* What a step does to the calls of a set: one is asked, ... *)
LEMMA Asked ==
    ASSUME NEW r \in Seq(Calls), NEW w, NEW t, NEW n \in Calls, NEW M
    PROVE  /\ OnWay(M, Append(r, n), w, t) <=> OnWay(M, r, w, t) \/ n \in M
           /\ AtMostOne(M, r, w, t) /\ (n \in M => ~OnWay(M, r, w, t)) =>
                  AtMostOne(M, Append(r, n), w, t)
BY JoinLine DEF OnWay, AtMostOne

(* ... goes to a provider, ... *)
LEMMA HandedOn ==
    ASSUME NEW r \in Seq(Calls), r # <<>>, NEW w, NEW t, NEW M
    PROVE  /\ OnWay(M, Tail(r), w \cup {Head(r)}, t) <=> OnWay(M, r, w, t)
           /\ AtMostOne(M, r, w, t) => AtMostOne(M, Tail(r), w \cup {Head(r)}, t)
BY LeaveLine DEF OnWay, AtMostOne

(* ... is answered at once, ... *)
LEMMA Answered ==
    ASSUME NEW r \in Seq(Calls), r # <<>>, NEW w, NEW t \in Seq(Calls), NEW n \in Calls, NEW M,
           n \in M <=> Head(r) \in M
    PROVE  /\ OnWay(M, Tail(r), w, Append(t, n)) <=> OnWay(M, r, w, t)
           /\ AtMostOne(M, r, w, t) => AtMostOne(M, Tail(r), w, Append(t, n))
BY LeaveLine, JoinLine DEF OnWay, AtMostOne

(* ... is answered by the provider, ... *)
LEMMA CallEnded ==
    ASSUME NEW r, NEW w, NEW t \in Seq(Calls), NEW c \in w, NEW n \in Calls, NEW M,
           n \in M <=> c \in M
    PROVE  /\ OnWay(M, r, w \ {c}, Append(t, n)) <=> OnWay(M, r, w, t)
           /\ AtMostOne(M, r, w, t) => AtMostOne(M, r, w \ {c}, Append(t, n))
BY JoinLine DEF OnWay, AtMostOne

(* ... reaches the page, and goes on there or not. *)
LEMMA Taken ==
    ASSUME NEW r, NEW w, NEW t \in Seq(Calls), t # <<>>, NEW M
    PROVE  /\ OnWay(M, r, w, t) <=> OnWay(M, r, w, Tail(t)) \/ Head(t) \in M
           /\ AtMostOne(M, r, w, t) =>
                  /\ AtMostOne(M, r, w, Tail(t))
                  /\ Head(t) \in M => ~OnWay(M, r, w, Tail(t))
BY LeaveLine DEF OnWay, AtMostOne

-----------------------------------------------------------------------------
(* The order of two kinds of calls through the same steps. *)
LEMMA AheadAsked ==
    ASSUME NEW r \in Seq(Calls), NEW w, NEW t, NEW n \in Calls, NEW A, NEW B,
           Ahead(A, B, r, w, t), n \in A => ~OnWay(B, r, w, t) /\ n \notin B
    PROVE  Ahead(A, B, Append(r, n), w, t)
<1>1. \A i \in DOMAIN Append(r, n) : i \in DOMAIN r \/ i = Len(r) + 1
  BY JoinedLine
<1>2. \A i \in DOMAIN r : i < Len(r) + 1
  BY JoinedLine
<1>3. \A i, j \in DOMAIN Append(r, n) : Append(r, n)[i] \in A /\ Append(r, n)[j] \in B => i < j
  BY <1>1, <1>2, JoinedLine DEF Ahead, OnWay, InLine
<1> QED
  BY <1>3, JoinLine DEF Ahead, OnWay

LEMMA FirstLeaves ==
    ASSUME NEW s \in Seq(Calls), s # <<>>, NEW A, NEW B,
           \A i, j \in DOMAIN s : s[i] \in A /\ s[j] \in B => i < j
    PROVE  /\ \A i, j \in DOMAIN Tail(s) : Tail(s)[i] \in A /\ Tail(s)[j] \in B => i < j
           /\ Head(s) \in B => ~InLine(A, Tail(s)) /\ Head(s) \notin A
<1>1. \A i \in DOMAIN Tail(s) : i \in Nat /\ i # 0 /\ i + 1 \in DOMAIN s /\ Tail(s)[i] = s[i + 1]
  BY LeftLine
<1>2. \A i, j \in DOMAIN Tail(s) : Tail(s)[i] \in A /\ Tail(s)[j] \in B => i < j
  <2> SUFFICES ASSUME NEW i \in DOMAIN Tail(s), NEW j \in DOMAIN Tail(s),
                      Tail(s)[i] \in A, Tail(s)[j] \in B
               PROVE  i < j
    OBVIOUS
  <2>1. i + 1 < j + 1
    BY <1>1
  <2> QED
    BY <1>1, <2>1
<1>3. Head(s) \in B => ~InLine(A, Tail(s)) /\ Head(s) \notin A
  <2>1. \A i \in DOMAIN s : s[i] \in A /\ Head(s) \in B => i < 1
    BY LeftLine
  <2> QED
    BY <1>1, <2>1, LeftLine DEF InLine
<1> QED
  BY <1>2, <1>3

LEMMA LastJoins ==
    ASSUME NEW s \in Seq(Calls), NEW n \in Calls, NEW A, NEW B,
           \A i, j \in DOMAIN s : s[i] \in A /\ s[j] \in B => i < j,
           n \in A => ~InLine(B, s) /\ n \notin B
    PROVE  \A i, j \in DOMAIN Append(s, n) : Append(s, n)[i] \in A /\ Append(s, n)[j] \in B => i < j
<1>1. \A i \in DOMAIN Append(s, n) : i \in DOMAIN s \/ i = Len(s) + 1
  BY JoinedLine
<1>2. \A i \in DOMAIN s : i < Len(s) + 1
  BY JoinedLine
<1> QED
  BY <1>1, <1>2, JoinedLine DEF InLine

LEMMA AheadHandedOn ==
    ASSUME NEW r \in Seq(Calls), r # <<>>, NEW w, NEW t, NEW A, NEW B,
           Ahead(A, B, r, w, t), Head(r) \notin A
    PROVE  Ahead(A, B, Tail(r), w \cup {Head(r)}, t)
BY FirstLeaves, LeaveLine DEF Ahead

LEMMA AheadAnswered ==
    ASSUME NEW r \in Seq(Calls), r # <<>>, NEW w, NEW t \in Seq(Calls), NEW n \in Calls,
           NEW A, NEW B, Ahead(A, B, r, w, t),
           n \in A <=> Head(r) \in A, n \in B <=> Head(r) \in B
    PROVE  Ahead(A, B, Tail(r), w, Append(t, n))
<1>1. /\ \A i, j \in DOMAIN Tail(r) : Tail(r)[i] \in A /\ Tail(r)[j] \in B => i < j
      /\ Head(r) \in B => ~InLine(A, Tail(r)) /\ Head(r) \notin A
  BY FirstLeaves DEF Ahead
<1>2. InLine(A, r) <=> InLine(A, Tail(r)) \/ Head(r) \in A
  BY LeaveLine
<1>3. InLine(B, Append(t, n)) <=> InLine(B, t) \/ n \in B
  BY JoinLine
<1>4. n \in A => ~InLine(B, t) /\ n \notin B
  BY <1>1, <1>2 DEF Ahead
<1>5. \A i, j \in DOMAIN Append(t, n) : Append(t, n)[i] \in A /\ Append(t, n)[j] \in B => i < j
  BY <1>4, LastJoins DEF Ahead
<1> QED
  BY <1>1, <1>2, <1>3, <1>5 DEF Ahead

LEMMA AheadEnded ==
    ASSUME NEW r, NEW w, NEW t \in Seq(Calls), NEW c \in w, NEW n \in Calls,
           NEW A, NEW B, Ahead(A, B, r, w, t), n \notin A, n \in B <=> c \in B
    PROVE  Ahead(A, B, r, w \ {c}, Append(t, n))
<1>1. InLine(B, Append(t, n)) <=> InLine(B, t) \/ n \in B
  BY JoinLine
<1>2. \A i, j \in DOMAIN Append(t, n) : Append(t, n)[i] \in A /\ Append(t, n)[j] \in B => i < j
  BY LastJoins DEF Ahead
<1> QED
  BY <1>1, <1>2 DEF Ahead

LEMMA AheadTaken ==
    ASSUME NEW r, NEW w, NEW t \in Seq(Calls), t # <<>>, NEW A, NEW B, Ahead(A, B, r, w, t)
    PROVE  Ahead(A, B, r, w, Tail(t))
BY FirstLeaves, LeaveLine DEF Ahead

-----------------------------------------------------------------------------
(* What the handlers and the page do with a call. *)
Like(n, m) ==
    n.kind = m.kind /\ n.open = m.open /\ n.effect = m.effect /\ n.of = m.of /\ n.blind = m.blind

LEMMA RowsOfWorkspaces ==
    ASSUME NEW w \in Workspaces
    PROVE  /\ OfWorkspace(w) \subseteq BindingRows /\ NoBindings \in OfWorkspace(w)
           /\ \A d, e \in Named : Bindings(w, d, e) \in OfWorkspace(w)
<1>1. OfWorkspace(w) \subseteq BindingRows
  BY DEF BindingRows
<1> QED
  BY <1>1 DEF OfWorkspace, Named

LEMMA FieldsOfCalls ==
    ASSUME NEW m \in Calls
    PROVE  /\ m \in CallRecords
           /\ m.kind \in CallKinds /\ m.open \in Nat /\ m.effect \in Nat
           /\ m.of \in Workspaces \cup Named /\ m.bindings \in BindingRows
           /\ m.listed \in SUBSET Providers /\ m.blind \in BOOLEAN /\ m.ok \in BOOLEAN
           /\ m.kind \in ChainKinds \cup WaitKinds => m.of \in Providers
           /\ m.kind \in SaveKinds \cup {"load"} =>
                  m.of \in Workspaces /\ m.bindings \in OfWorkspace(m.of)
BY DEF Calls, CallRecords

LEMMA CallsFromFields ==
    ASSUME NEW m \in CallRecords,
           m.kind \in ChainKinds \cup WaitKinds => m.of \in Providers,
           m.kind \in SaveKinds \cup {"load"} =>
                  m.of \in Workspaces /\ m.bindings \in OfWorkspace(m.of)
    PROVE  m \in Calls
BY DEF Calls

LEMMA FailedCalls ==
    ASSUME NEW m \in Calls
    PROVE  LET n == [m EXCEPT !.ok = FALSE] IN n \in Calls /\ Like(n, m) /\ n.ok = FALSE
<1> DEFINE n == [m EXCEPT !.ok = FALSE]
<1>1. n \in CallRecords /\ n.kind = m.kind /\ n.of = m.of /\ n.bindings = m.bindings
      /\ n.open = m.open /\ n.effect = m.effect /\ n.blind = m.blind /\ n.ok = FALSE
  BY FieldsOfCalls DEF CallRecords
<1>2. n \in Calls
  BY <1>1, FieldsOfCalls, CallsFromFields
<1> QED
  BY <1>1, <1>2 DEF Like

ReadAs(m, l, b) == [m EXCEPT !.listed = l, !.bindings = b]

LEMMA ReadCalls ==
    ASSUME NEW m \in Calls, NEW l \in SUBSET Providers, NEW b \in BindingRows,
           m.kind = "load" => b \in OfWorkspace(m.of), m.kind \notin SaveKinds
    PROVE  /\ ReadAs(m, l, b) \in Calls /\ Like(ReadAs(m, l, b), m) /\ ReadAs(m, l, b).ok = m.ok
           /\ ReadAs(m, l, b).listed = l /\ ReadAs(m, l, b).bindings = b
<1> DEFINE n == [m EXCEPT !.listed = l, !.bindings = b]
<1>1. n \in CallRecords /\ n.kind = m.kind /\ n.of = m.of /\ n.bindings = b
      /\ n.open = m.open /\ n.effect = m.effect /\ n.blind = m.blind /\ n.ok = m.ok
      /\ n.listed = l
  BY FieldsOfCalls DEF CallRecords
<1>2. n \in Calls
  BY <1>1, FieldsOfCalls, CallsFromFields
<1> QED
  BY <1>1, <1>2 DEF Like, ReadAs

(* The next call of a chain. *)

AsKind(m, k) == [m EXCEPT !.kind = k]

LEMMA NextCalls ==
    ASSUME NEW m \in Calls, NEW k, m.kind \in {"create", "refresh"}, k \in {"refresh", "models"}
    PROVE  /\ AsKind(m, k) \in Calls /\ AsKind(m, k).kind = k /\ AsKind(m, k).open = m.open
           /\ AsKind(m, k).effect = m.effect /\ AsKind(m, k).of = m.of
           /\ AsKind(m, k).ok = m.ok
<1> DEFINE n == [m EXCEPT !.kind = k]
<1>1. n \in CallRecords /\ n.kind = k /\ n.of = m.of /\ n.bindings = m.bindings
      /\ n.open = m.open /\ n.effect = m.effect /\ n.blind = m.blind /\ n.ok = m.ok
      /\ n.listed = m.listed
  BY FieldsOfCalls DEF CallRecords, CallKinds, WaitKinds
<1>2. n \in Calls
  BY <1>1, FieldsOfCalls, CallsFromFields DEF ChainKinds, WaitKinds, SaveKinds
<1> QED
  BY <1>1, <1>2 DEF AsKind

HandedOnCall ==
    /\ Head(requests).kind \in WaitKinds
    /\ waiting' = waiting \cup {Head(requests)}
    /\ UNCHANGED <<stored, toPage, spent>>

ReadTells(n) ==
    /\ n.kind \in {"list", "load", "models"} /\ n.ok
    /\ n.listed = IF n.kind = "list" THEN connections ELSE available
    /\ n.kind = "load" => n.bindings = stored[n.of]
    /\ stored' = stored

AnsweredCall(n) ==
    /\ Head(requests).kind \notin WaitKinds
    /\ n \in Calls /\ Like(n, Head(requests))
    /\ toPage' = Append(toPage, n) /\ UNCHANGED waiting
    /\ \/ ReadTells(n)
       \/ /\ n = Head(requests) /\ n.ok /\ n.kind \in SaveKinds
          /\ stored' = [stored EXCEPT ![n.of] = n.bindings]
       \/ n.ok = FALSE /\ stored' = stored
    /\ spent'.made = spent.made

LEMMA Handles ==
    ASSUME ConnTypes, AllIssued, Handle
    PROVE  /\ requests # <<>> /\ Head(requests) \in Calls /\ requests' = Tail(requests)
           /\ Head(requests).ok = TRUE
           /\ UNCHANGED <<connections, available, page, wizard, astray>>
           /\ HandedOnCall \/ \E n : AnsweredCall(n)
<1> DEFINE call == Head(requests)
<1>1. /\ requests # <<>> /\ requests' = Tail(requests)
      /\ UNCHANGED <<connections, available, page, wizard, astray>>
  BY DEF Handle
<1>2. call \in Calls /\ call = requests[1] /\ 1 \in DOMAIN requests
  BY <1>1, LeftLine DEF ConnTypes
<1>3. call.ok = TRUE
  BY <1>2, FieldsOfCalls DEF AllIssued
<1> HIDE DEF call
<1>4. CASE call.kind \in WaitKinds
  <2>1. Head(requests).kind \in {"refresh", "create", "remove"}
    BY <1>4 DEF WaitKinds, call
  <2>2. waiting' = waiting \cup {Head(requests)} /\ UNCHANGED <<stored, toPage, spent>>
    BY <2>1 DEF Handle
  <2>3. HandedOnCall
    BY <1>4, <2>2 DEF HandedOnCall, call
  <2> QED
    BY <1>1, <1>2, <1>3, <2>3 DEF call
<1>5. CASE call.kind \notin WaitKinds
  <2>1. /\ UNCHANGED waiting
        /\ Read(call) \/ SetBindings(call) \/ (UNCHANGED stored /\ Fails(call))
    BY <1>5 DEF Handle, WaitKinds, call
  <2>2. CASE Read(call)
    <3> DEFINE l == IF call.kind = "list" THEN connections ELSE available
               b == IF call.kind = "load" THEN stored[call.of] ELSE call.bindings
               n == [call EXCEPT !.listed = l, !.bindings = b]
    <3>1. l \in SUBSET Providers
      BY DEF ConnTypes
    <3>2. b \in BindingRows /\ (call.kind = "load" => b \in OfWorkspace(call.of))
      BY <1>2, FieldsOfCalls DEF ConnTypes
    <3>3. toPage' = Append(toPage, n)
      BY <2>2 DEF Read, Reply
    <3>4. call.kind \in {"list", "load", "models"} /\ UNCHANGED <<stored, spent>>
      BY <2>2 DEF Read
    <3>5. call.kind \notin SaveKinds
      BY <3>4 DEF SaveKinds
    <3> HIDE DEF l, b
    <3>6. n \in Calls /\ Like(n, call) /\ n.ok = call.ok /\ n.listed = l /\ n.bindings = b
      <4>1. ReadAs(call, l, b) \in Calls /\ Like(ReadAs(call, l, b), call)
            /\ ReadAs(call, l, b).ok = call.ok
            /\ ReadAs(call, l, b).listed = l /\ ReadAs(call, l, b).bindings = b
        BY <1>2, <3>1, <3>2, <3>5, ReadCalls
      <4> QED
        BY <4>1 DEF ReadAs
    <3> HIDE DEF n
    <3>7. ReadTells(n)
      BY <1>3, <3>4, <3>6 DEF ReadTells, l, b, Like
    <3> QED
      BY <1>1, <1>2, <1>3, <1>5, <2>1, <3>3, <3>4, <3>6, <3>7 DEF AnsweredCall, call
  <2>3. CASE SetBindings(call)
    <3>1. AnsweredCall(call)
      BY <1>2, <1>3, <1>5, <2>1, <2>3 DEF SetBindings, Reply, AnsweredCall, Like, SaveKinds, call
    <3> QED
      BY <1>1, <1>2, <1>3, <3>1 DEF call
  <2>4. CASE UNCHANGED stored /\ Fails(call)
    <3> DEFINE n == [call EXCEPT !.ok = FALSE]
    <3>1. n \in Calls /\ Like(n, call) /\ n.ok = FALSE
      BY <1>2, FailedCalls
    <3>2. toPage' = Append(toPage, n) /\ spent'.made = spent.made
      BY <2>4 DEF Fails, ConnTypes
    <3> HIDE DEF n
    <3>3. AnsweredCall(n)
      BY <1>5, <2>1, <2>4, <3>1, <3>2 DEF AnsweredCall, call
    <3> QED
      BY <1>1, <1>2, <1>3, <3>3 DEF call
  <2> QED
    BY <2>1, <2>2, <2>3, <2>4
<1> QED
  BY <1>4, <1>5

EndedCall(c, n) ==
    /\ c \in waiting /\ waiting' = waiting \ {c}
    /\ n \in Calls /\ Like(n, c) /\ toPage' = Append(toPage, n)
    /\ connections' = IF n.ok /\ n.kind = "create" THEN connections \cup {n.of}
                      ELSE IF n.ok /\ n.kind = "remove" THEN connections \ {n.of}
                      ELSE connections
    /\ available' = available \cup {n.of} \/ available' = available \ {n.of} \/ available' = available
    /\ UNCHANGED <<stored, requests, page, wizard, astray>>
    /\ spent'.made = spent.made /\ spent' \in [saves : Nat, faults : Nat, made : SUBSET Providers]

LEMMA EndsCalls ==
    ASSUME ConnTypes, AllIssued, NEW c \in waiting, Ends(c)
    PROVE  c \in Calls /\ c.ok = TRUE /\ c.kind \in WaitKinds /\ \E n : EndedCall(c, n)
<1>1. c \in Calls /\ c.ok \in BOOLEAN
  BY FieldsOfCalls DEF ConnTypes
<1>2. c.ok = TRUE /\ c.kind \in WaitKinds
  BY <1>1 DEF AllIssued
<1>3. waiting' = waiting \ {c} /\ UNCHANGED <<stored, requests, page, wizard, astray>>
  BY DEF Ends
<1>4. spent.made = spent.made /\ spent \in [saves : Nat, faults : Nat, made : SUBSET Providers]
  BY DEF ConnTypes
<1> DEFINE Same == connections' = connections /\ available' = available
           Bad == [c EXCEPT !.ok = FALSE]
<1>5. Bad \in Calls /\ Like(Bad, c) /\ Bad.ok = FALSE
  BY <1>1, FailedCalls
<1>6. Like(c, c)
  BY DEF Like
<1>7. CASE Fails(c) /\ UNCHANGED <<connections, available>>
  <2>1. toPage' = Append(toPage, Bad) /\ spent' = [spent EXCEPT !.faults = @ + 1]
    BY <1>7 DEF Fails
  <2>2. spent'.made = spent.made /\ spent' \in [saves : Nat, faults : Nat, made : SUBSET Providers]
    BY <1>4, <2>1
  <2> HIDE DEF Bad
  <2>3. EndedCall(c, Bad)
    BY <1>3, <1>5, <1>7, <2>1, <2>2 DEF EndedCall
  <2> QED
    BY <1>1, <1>2, <2>3
<1>8. CASE c.kind = "refresh" /\ c.of \notin connections
           /\ toPage' = Append(toPage, Bad) /\ UNCHANGED <<connections, available, spent>>
  <2> HIDE DEF Bad
  <2>1. EndedCall(c, Bad)
    BY <1>3, <1>4, <1>5, <1>8 DEF EndedCall
  <2> QED
    BY <1>1, <1>2, <2>1
<1>9. CASE c.kind = "refresh" /\ UNCHANGED <<connections, spent>> /\ toPage' = Append(toPage, c)
           /\ (available' = available \cup {c.of} \/ available' = available \ {c.of})
  <2>1. EndedCall(c, c)
    BY <1>1, <1>3, <1>4, <1>6, <1>9 DEF EndedCall
  <2> QED
    BY <1>1, <1>2, <2>1
<1>10. CASE /\ c.kind = "create" /\ connections' = connections \cup {c.of}
            /\ toPage' = Append(toPage, c) /\ UNCHANGED <<available, spent>>
  <2>1. EndedCall(c, c)
    BY <1>1, <1>2, <1>3, <1>4, <1>6, <1>10 DEF EndedCall
  <2> QED
    BY <1>1, <1>2, <2>1
<1>11. CASE /\ c.kind = "remove" /\ connections' = connections \ {c.of}
            /\ available' = available \ {c.of}
            /\ toPage' = Append(toPage, c) /\ UNCHANGED spent
  <2>1. EndedCall(c, c)
    BY <1>1, <1>2, <1>3, <1>4, <1>6, <1>11 DEF EndedCall
  <2> QED
    BY <1>1, <1>2, <2>1
<1> QED
  BY <1>7, <1>8, <1>9, <1>10, <1>11 DEF Ends, Reply

GoesOn(m) == m.ok /\ m.kind \in {"create", "refresh"}
CallAfter(n, m) ==
    /\ n \in Calls /\ n.open = m.open /\ n.effect = m.effect /\ n.of = m.of /\ n.ok
    /\ \/ m.kind = "create" /\ n.kind = "refresh"
       \/ m.kind = "refresh" /\ n.kind = "models"

LEMMA Receives ==
    ASSUME ConnTypes, Receive
    PROVE  /\ toPage # <<>> /\ Head(toPage) \in Calls /\ toPage' = Tail(toPage)
           /\ UNCHANGED <<connections, available, stored, waiting, spent>>
           /\ \/ ~GoesOn(Head(toPage)) /\ requests' = requests
              \/ GoesOn(Head(toPage))
                 /\ \E n : CallAfter(n, Head(toPage)) /\ requests' = Append(requests, n)
<1>1. /\ toPage # <<>> /\ toPage' = Tail(toPage)
      /\ UNCHANGED <<connections, available, stored, waiting, spent>>
      /\ Continue(Head(toPage))
  BY DEF Receive, mainVars
<1>2. Head(toPage) \in Calls
  BY <1>1, LeftLine DEF ConnTypes
<1>3. PICK m : m = Head(toPage)
  OBVIOUS
<1>4. m \in Calls /\ m.ok \in BOOLEAN
  BY <1>2, <1>3, FieldsOfCalls
<1>5. requests' = IF m.ok /\ m.kind = "create" THEN Append(requests, [m EXCEPT !.kind = "refresh"])
                  ELSE IF m.ok /\ m.kind = "refresh" THEN Append(requests, [m EXCEPT !.kind = "models"])
                  ELSE requests
  BY <1>1, <1>3 DEF Continue
<1>6. CASE m.ok /\ m.kind = "create"
  <2> DEFINE n == AsKind(m, "refresh")
  <2> HIDE DEF n
  <2>1. /\ n \in Calls /\ n.kind = "refresh" /\ n.open = m.open /\ n.effect = m.effect
        /\ n.of = m.of /\ n.ok = m.ok
    <3>1. m.kind \in {"create", "refresh"} /\ "refresh" \in {"refresh", "models"}
      BY <1>6
    <3> QED
      BY <1>4, <3>1, NextCalls DEF n
  <2>2. requests' = Append(requests, n)
    BY <1>5, <1>6 DEF AsKind, n
  <2>3. CallAfter(n, m) /\ GoesOn(m)
    BY <1>6, <2>1 DEF CallAfter, GoesOn
  <2> QED
    BY <1>1, <1>2, <1>3, <2>2, <2>3
<1>7. CASE m.ok /\ m.kind = "refresh"
  <2> DEFINE n == AsKind(m, "models")
  <2> HIDE DEF n
  <2>1. /\ n \in Calls /\ n.kind = "models" /\ n.open = m.open /\ n.effect = m.effect
        /\ n.of = m.of /\ n.ok = m.ok
    <3>1. m.kind \in {"create", "refresh"} /\ "models" \in {"refresh", "models"}
      BY <1>7
    <3> QED
      BY <1>4, <3>1, NextCalls DEF n
  <2>2. requests' = Append(requests, n)
    BY <1>5, <1>7 DEF AsKind, n
  <2>3. CallAfter(n, m) /\ GoesOn(m)
    BY <1>7, <2>1 DEF CallAfter, GoesOn
  <2> QED
    BY <1>1, <1>2, <1>3, <2>2, <2>3
<1>8. CASE ~(m.ok /\ m.kind = "create") /\ ~(m.ok /\ m.kind = "refresh")
  <2>1. requests' = requests /\ ~GoesOn(m)
    BY <1>5, <1>8 DEF GoesOn
  <2> QED
    BY <1>1, <1>2, <1>3, <2>1
<1> QED
  BY <1>6, <1>7, <1>8

-----------------------------------------------------------------------------
(* What the page asks for. *)
NewCall(n, kind, of) ==
    /\ n \in Calls /\ n.kind = kind /\ n.of = of /\ n.open = page.open /\ n.effect = page.effect
    /\ n.ok = TRUE /\ n.blind = FALSE

LEMMA RequestsAreCalls ==
    ASSUME ConnTypes, NEW kind \in CallKinds, NEW of \in Workspaces \cup Named,
           kind \in ChainKinds \cup WaitKinds => of \in Providers,
           kind \in SaveKinds \cup {"load"} => of \in Workspaces
    PROVE  NewCall(Request(kind, of), kind, of)
<1> DEFINE n == Request(kind, of)
<1>1. page.open \in Nat /\ page.effect \in Nat
  BY DEF ConnTypes, Pages
<1>2. NoBindings \in BindingRows
  BY DEF BindingRows
<1>3. /\ n \in CallRecords /\ n.kind = kind /\ n.of = of /\ n.open = page.open
      /\ n.effect = page.effect /\ n.ok = TRUE /\ n.blind = FALSE /\ n.bindings = NoBindings
  BY <1>1, <1>2 DEF Request, CallRecords
<1> HIDE DEF n
<1>4. n \in Calls
  BY <1>3, CallsFromFields, RowsOfWorkspaces
<1> QED
  BY <1>3, <1>4 DEF NewCall, n

LoadCall(b, p) == b \in LoadsOf(p) /\ b.of = p.workspace /\ b.ok = TRUE

LEMMA LoadsAreCalls ==
    ASSUME ConnTypes, NEW p \in Pages, p.workspace # None
    PROVE  \E b : LoadCall(b, p) /\ Load(p) = <<b>>
<1> DEFINE q == Request("load", p.workspace)
           b == [q EXCEPT !.open = p.open, !.effect = p.effect]
<1>1. p.workspace \in Workspaces /\ p.open \in Nat /\ p.effect \in Nat
  BY DEF Pages
<1>2. q \in CallRecords /\ q.kind = "load" /\ q.of = p.workspace /\ q.ok = TRUE
      /\ q.bindings \in OfWorkspace(p.workspace)
  <2>1. q.bindings = NoBindings
    BY DEF Request
  <2>2. NewCall(q, "load", p.workspace)
    BY <1>1, RequestsAreCalls DEF CallKinds, ChainKinds, WaitKinds
  <2> HIDE DEF q
  <2> QED
    BY <1>1, <2>1, <2>2, FieldsOfCalls, RowsOfWorkspaces DEF NewCall
<1> HIDE DEF q
<1>3. /\ b \in CallRecords /\ b.kind = "load" /\ b.of = p.workspace /\ b.ok = TRUE
      /\ b.open = p.open /\ b.effect = p.effect /\ b.bindings = q.bindings
  BY <1>1, <1>2 DEF CallRecords
<1>4. Load(p) = <<b>>
  BY DEF Load, q
<1> HIDE DEF b
<1>5. b \in Calls
  BY <1>1, <1>2, <1>3, CallsFromFields DEF ChainKinds, WaitKinds
<1>6. LoadCall(b, p)
  BY <1>3, <1>5 DEF LoadCall, LoadsOf
<1> QED
  BY <1>4, <1>6

LEMMA NewPages ==
    ASSUME NEW w \in Workspaces \cup {None}, NEW o \in Nat
    PROVE  /\ NewPage(w, o) \in Pages
           /\ NewPage(w, o).open = o /\ NewPage(w, o).effect = 0 /\ NewPage(w, o).workspace = w
           /\ NewPage(w, o).catalog = {} /\ NewPage(w, o).services = {}
           /\ NewPage(w, o).embeddingSaving = FALSE /\ NewPage(w, o).removing = None
           /\ NewPage(w, o).bindings = NoBindings
<1>1. NoBindings \in BindingRows /\ None \in Named
  BY DEF BindingRows, Named
<1> QED
  BY <1>1 DEF NewPage, Pages

AsksFor(a, b) ==
    \/ page'.workspace = None /\ requests' = Append(requests, a)
    \/ page'.workspace # None /\ LoadCall(b, page') /\ requests' = Append(Append(requests, a), b)

LEMMA Opens ==
    ASSUME ConnTypes, OpenPage
    PROVE  /\ page' \in Pages /\ page' = NewPage(page.workspace, page.open + 1)
           /\ page'.open = page.open + 1 /\ page'.effect = 0 /\ page'.workspace = page.workspace
           /\ page'.catalog = {} /\ page'.embeddingSaving = FALSE /\ page'.removing = None
           /\ wizard' = ListStep /\ astray' = {}
           /\ UNCHANGED <<connections, available, stored, waiting, toPage, spent>>
           /\ \E a, b : /\ a \in Calls /\ a.kind = "list" /\ a.open = page'.open /\ a.ok = TRUE
                        /\ a.effect = 0 /\ AsksFor(a, b)
<1>1. page.workspace \in Workspaces \cup {None} /\ page.open \in Nat /\ page.open + 1 \in Nat
  BY DEF ConnTypes, Pages
<1>2. PICK p : p = NewPage(page.workspace, page.open + 1)
  OBVIOUS
<1>3. /\ p \in Pages /\ p.open = page.open + 1 /\ p.effect = 0 /\ p.workspace = page.workspace
      /\ p.catalog = {} /\ p.embeddingSaving = FALSE /\ p.removing = None
  <2>1. PICK w, o : w = page.workspace /\ o = page.open + 1
    OBVIOUS
  <2>2. w \in Workspaces \cup {None} /\ o \in Nat /\ p = NewPage(w, o)
    BY <1>1, <1>2, <2>1
  <2> QED
    BY <2>1, <2>2, NewPages
<1>4. /\ page' = p /\ wizard' = ListStep /\ astray' = {}
      /\ UNCHANGED <<connections, available, stored, waiting, toPage, spent>>
      /\ requests' = requests \o <<[Request("list", None) EXCEPT !.open = p.open, !.effect = 0]>>
                              \o Load(p)
  BY <1>2 DEF OpenPage, mainVars
<1> DEFINE q == Request("list", None)
           a == [q EXCEPT !.open = p.open, !.effect = 0]
<1>5. NewCall(q, "list", None)
  BY RequestsAreCalls DEF CallKinds, ChainKinds, WaitKinds, SaveKinds, Named
<1> HIDE DEF q
<1>6. a \in CallRecords /\ a.kind = "list" /\ a.open = p.open /\ a.ok = TRUE /\ a.effect = 0
  BY <1>3, <1>5, FieldsOfCalls DEF NewCall, CallRecords, Pages
<1>7. requests' = (requests \o <<a>>) \o Load(p)
  BY <1>4 DEF q
<1> HIDE DEF a
<1>8. a \in Calls
  BY <1>6, CallsFromFields DEF ChainKinds, WaitKinds, SaveKinds
<1> DEFINE C == Calls
<1>9. requests \in Seq(C) /\ a \in C
  BY <1>8 DEF ConnTypes
<1> HIDE DEF C
<1>10. requests \o <<a>> = Append(requests, a) /\ Append(requests, a) \in Seq(C)
  BY <1>9
<1>11. CASE p.workspace = None
  <2>1. Load(p) = <<>>
    BY <1>11 DEF Load
  <2>2. requests' = Append(requests, a)
    BY <1>7, <1>10, <2>1
  <2>3. AsksFor(a, a)
    BY <1>4, <1>11, <2>2 DEF AsksFor
  <2> QED
    BY <1>2, <1>3, <1>4, <1>6, <1>8, <2>3
<1>12. CASE p.workspace # None
  <2>1. PICK b : LoadCall(b, p) /\ Load(p) = <<b>>
    BY <1>3, <1>12, LoadsAreCalls
  <2>2. b \in C
    BY <2>1 DEF LoadCall, LoadsOf, C
  <2>3. requests' = Append(Append(requests, a), b)
    BY <1>7, <1>10, <2>1, <2>2
  <2>4. AsksFor(a, b)
    BY <1>4, <1>12, <2>1, <2>3 DEF AsksFor
  <2> QED
    BY <1>2, <1>3, <1>4, <1>6, <1>8, <2>4
<1> QED
  BY <1>11, <1>12

LEMMA Chooses ==
    ASSUME ConnTypes, NEW w \in Workspaces \cup {None}, Choose(w)
    PROVE  /\ page' \in Pages /\ page'.open = page.open /\ page'.effect = page.effect + 1
           /\ page'.workspace = w /\ w # page.workspace /\ page.open > 0
           /\ page'.embeddingSaving = page.embeddingSaving /\ page'.removing = page.removing
           /\ page'.services = page.services
           /\ UNCHANGED <<connections, available, stored, waiting, toPage, wizard, spent>>
           /\ \/ w = None /\ requests' = requests /\ astray' = astray \ {"bindings"}
              \/ /\ w # None /\ astray' = astray \cup {"bindings"}
                 /\ \E b : LoadCall(b, page') /\ requests' = Append(requests, b)
<1>1. PICK p : p = page
  OBVIOUS
<1>2. p \in Pages /\ p.effect + 1 \in Nat
  BY <1>1 DEF ConnTypes, Pages
<1> DEFINE moved == [p EXCEPT !.workspace = w, !.effect = @ + 1]
           q == IF w = None THEN [moved EXCEPT !.bindings = NoBindings, !.embedding = None] ELSE moved
<1>3. /\ page' = q /\ requests' = requests \o Load(page')
      /\ astray' = IF w = None THEN astray \ {"bindings"} ELSE astray \cup {"bindings"}
      /\ w # page.workspace /\ page.open > 0
      /\ UNCHANGED <<connections, available, stored, waiting, toPage, wizard, spent>>
  BY <1>1 DEF Choose, Open, mainVars
<1>4. NoBindings \in BindingRows /\ None \in Named
  BY DEF BindingRows, Named
<1>5. moved \in Pages /\ moved.workspace = w /\ moved.effect = p.effect + 1 /\ moved.open = p.open
      /\ moved.embeddingSaving = p.embeddingSaving /\ moved.removing = p.removing
      /\ moved.services = p.services
  BY <1>2 DEF Pages
<1>6. q \in Pages /\ q.workspace = w /\ q.effect = p.effect + 1 /\ q.open = p.open
      /\ q.embeddingSaving = p.embeddingSaving /\ q.removing = p.removing
      /\ q.services = p.services
  <2> HIDE DEF moved
  <2> QED
    BY <1>4, <1>5 DEF Pages
<1> HIDE DEF q
<1> DEFINE C == Calls
<1>7. requests \in Seq(C)
  BY DEF ConnTypes
<1>8. PICK z : z = q
  OBVIOUS
<1>9. CASE w = None
  <2>1. Load(z) = <<>>
    BY <1>6, <1>8, <1>9 DEF Load
  <2> HIDE DEF C
  <2>2. requests' = requests
    BY <1>3, <1>7, <1>8, <2>1
  <2> QED
    BY <1>1, <1>3, <1>6, <1>9, <2>2
<1>10. CASE w # None
  <2>1. PICK b : LoadCall(b, z) /\ Load(z) = <<b>>
    BY <1>6, <1>8, <1>10, LoadsAreCalls
  <2>2. b \in C
    BY <2>1 DEF LoadCall, LoadsOf
  <2> HIDE DEF C
  <2>3. requests' = Append(requests, b)
    BY <1>3, <1>7, <1>8, <2>1, <2>2
  <2>4. LoadCall(b, page')
    BY <1>3, <1>8, <2>1
  <2> QED
    BY <1>1, <1>3, <1>6, <1>10, <2>3, <2>4
<1> QED
  BY <1>9, <1>10

SaveCall(n, kind, b) ==
    /\ n \in Calls /\ n.kind = kind /\ n.of = page.workspace
    /\ n.open = page.open /\ n.effect = page.effect /\ n.ok = TRUE
    /\ n.blind = ("bindings" \in astray) /\ n.bindings = b

LEMMA SaveAsks ==
    ASSUME ConnTypes, NEW kind \in SaveKinds, page.workspace \in Workspaces,
           NEW b \in OfWorkspace(page.workspace), Save(kind, b)
    PROVE  /\ spent' \in [saves : Nat, faults : Nat, made : SUBSET Providers]
           /\ spent'.made = spent.made
           /\ \E n : SaveCall(n, kind, b) /\ requests' = Append(requests, n)
<1> DEFINE q == Request(kind, page.workspace)
           n == [q EXCEPT !.bindings = b, !.blind = "bindings" \in astray]
<1>1. NewCall(q, kind, page.workspace)
  BY RequestsAreCalls DEF CallKinds, ChainKinds, WaitKinds, SaveKinds
<1>2. requests' = Append(requests, n) /\ spent' = [spent EXCEPT !.saves = @ + 1]
  BY Zenon DEF Save
<1>3. \E blind \in BOOLEAN : blind = ("bindings" \in astray)
  <2>1. CASE "bindings" \in astray
    <3>1. TRUE = ("bindings" \in astray)
      BY <2>1
    <3> QED
      BY <3>1, Zenon
  <2>2. CASE "bindings" \notin astray
    <3>1. FALSE = ("bindings" \in astray)
      BY <2>2
    <3> QED
      BY <3>1, Zenon
  <2> QED
    BY <2>1, <2>2
<1>10. PICK blind \in BOOLEAN : blind = ("bindings" \in astray)
  BY <1>3
<1> DEFINE c == [q EXCEPT !.bindings = b, !.blind = blind]
<1>4. requests' = Append(requests, c)
  BY <1>2, <1>10
<1> HIDE DEF q, n
<1>5. b \in BindingRows
  BY RowsOfWorkspaces
<1>6. /\ c \in CallRecords /\ c.kind = kind /\ c.of = page.workspace /\ c.open = page.open
      /\ c.effect = page.effect /\ c.ok = TRUE /\ c.blind = blind /\ c.bindings = b
  BY <1>1, <1>5, FieldsOfCalls DEF NewCall, CallRecords
<1> HIDE DEF c
<1>7. c \in Calls
  BY <1>6, CallsFromFields DEF ChainKinds, WaitKinds, SaveKinds
<1>8. SaveCall(c, kind, b)
  BY <1>10, <1>6, <1>7 DEF SaveCall
<1>9. spent' \in [saves : Nat, faults : Nat, made : SUBSET Providers] /\ spent'.made = spent.made
  <2>1. spent' = [spent EXCEPT !.saves = @ + 1]
    BY <1>2
  <2>2. spent \in [saves : Nat, faults : Nat, made : SUBSET Providers]
    BY DEF ConnTypes
  <2> QED
    BY <2>1, <2>2
<1> QED
  BY <1>4, <1>8, <1>9

LEMMA EmbeddingAsks ==
    ASSUME ConnTypes, SaveEmbedding
    PROVE  /\ spent' \in [saves : Nat, faults : Nat, made : SUBSET Providers]
           /\ spent'.made = spent.made
           /\ page' = [page EXCEPT !.embeddingSaving = TRUE] /\ page' \in Pages
           /\ page.embeddingSaving = FALSE /\ page.workspace \in Workspaces
           /\ page.catalog # {} /\ wizard.step = "list" /\ page.open > 0
           /\ UNCHANGED <<connections, available, stored, waiting, toPage, wizard, astray>>
           /\ \E n, b : /\ SaveCall(n, "embedding", b) /\ requests' = Append(requests, n)
                        /\ b.default = page.bindings.default
<1> DEFINE e == IF page.embedding \in page.catalog THEN page.embedding ELSE None
           b == Bindings(page.workspace, page.bindings.default, e)
<1>1. /\ Save("embedding", b) /\ page' = [page EXCEPT !.embeddingSaving = TRUE]
      /\ ~page.embeddingSaving /\ page.workspace # None
      /\ page.catalog # {} /\ wizard.step = "list" /\ page.open > 0
      /\ UNCHANGED <<connections, available, stored, waiting, toPage, wizard, astray>>
  BY DEF SaveEmbedding, Listed, Open, mainVars
<1>2. page.workspace \in Workspaces /\ page.bindings \in BindingRows /\ page.embedding \in Named
      /\ page.embeddingSaving \in BOOLEAN
  BY <1>1 DEF ConnTypes, Pages
<1>3. page.bindings.default \in Named
  BY <1>2 DEF BindingRows, OfWorkspace, Bindings, NoBindings, Named
<1>4. e \in Named
  BY <1>2 DEF Named
<1>5. b.default = page.bindings.default
  BY DEF Bindings
<1>6. b \in OfWorkspace(page.workspace)
  <2> HIDE DEF e
  <2> QED
    BY <1>2, <1>3, <1>4, RowsOfWorkspaces
<1> HIDE DEF b
<1>7. page' \in Pages
  BY <1>1 DEF ConnTypes, Pages
<1>8. "embedding" \in SaveKinds
  BY DEF SaveKinds
<1> QED
  BY <1>1, <1>2, <1>5, <1>6, <1>7, <1>8, SaveAsks

LEMMA ModelAsks ==
    ASSUME ConnTypes, UseModel
    PROVE  /\ spent' \in [saves : Nat, faults : Nat, made : SUBSET Providers]
           /\ spent'.made = spent.made
           /\ wizard' = [wizard EXCEPT !.saving = TRUE] /\ wizard' \in Wizards
           /\ wizard.saving = FALSE /\ wizard.connecting = FALSE /\ wizard.step = "model"
           /\ wizard.selected # None /\ page.workspace \in Workspaces /\ page.open > 0
           /\ UNCHANGED <<connections, available, stored, waiting, toPage, page, astray>>
           /\ \E n, b : /\ SaveCall(n, "bind", b) /\ requests' = Append(requests, n)
                        /\ b.embedding = page.bindings.embedding
<1> DEFINE b == Bindings(page.workspace, wizard.selected, page.bindings.embedding)
<1>1. /\ Save("bind", b) /\ wizard' = [wizard EXCEPT !.saving = TRUE]
      /\ ~wizard.saving /\ ~wizard.connecting /\ wizard.step = "model"
      /\ wizard.selected # None /\ page.workspace # None /\ page.open > 0
      /\ UNCHANGED <<connections, available, stored, waiting, toPage, page, astray>>
  BY DEF UseModel, Open, mainVars
<1>2. page.workspace \in Workspaces /\ page.bindings \in BindingRows
      /\ wizard.selected \in Named /\ wizard.saving \in BOOLEAN /\ wizard.connecting \in BOOLEAN
  BY <1>1 DEF ConnTypes, Pages, Wizards
<1>3. page.bindings.embedding \in Named
  BY <1>2 DEF BindingRows, OfWorkspace, Bindings, NoBindings, Named
<1>4. b.embedding = page.bindings.embedding
  BY DEF Bindings
<1>5. b \in OfWorkspace(page.workspace)
  BY <1>2, <1>3, RowsOfWorkspaces
<1> HIDE DEF b
<1>6. wizard' \in Wizards
  BY <1>1 DEF ConnTypes, Wizards
<1>7. "bind" \in SaveKinds
  BY DEF SaveKinds
<1> QED
  BY <1>1, <1>2, <1>4, <1>5, <1>6, <1>7, SaveAsks

ChainWizard(p) == [ListStep EXCEPT !.step = "model", !.provider = p, !.connecting = TRUE]

LEMMA ChainWizards ==
    ASSUME NEW p \in Providers
    PROVE  /\ ChainWizard(p) \in Wizards /\ ListStep \in Wizards
           /\ ChainWizard(p).step = "model" /\ ChainWizard(p).provider = p
           /\ ChainWizard(p).connecting = TRUE /\ ChainWizard(p).saving = FALSE
           /\ ChainWizard(p).selected = None
<1>1. None \in Named /\ p \in Named
  BY DEF Named
<1> QED
  BY <1>1 DEF ChainWizard, ListStep, Wizards

LEMMA ListSteps ==
    /\ ListStep \in Wizards /\ ListStep.step = "list" /\ ListStep.connecting = FALSE
    /\ ListStep.saving = FALSE /\ ListStep.selected = None
<1>1. None \in Named
  BY DEF Named
<1> QED
  BY <1>1 DEF ListStep, Wizards

LEMMA ModelsAsk ==
    ASSUME ConnTypes, NEW p \in Providers, OpenModels(p)
    PROVE  /\ wizard' = ChainWizard(p) /\ wizard.connecting = FALSE
           /\ wizard.step = "list" \/ wizard.saving = FALSE
           /\ UNCHANGED <<connections, available, stored, waiting, toPage, page, spent, astray>>
           /\ \E n : NewCall(n, "refresh", p) /\ requests' = Append(requests, n)
<1>1. /\ wizard' = ChainWizard(p) /\ ~wizard.connecting
      /\ wizard.step = "list" \/ ~wizard.saving
      /\ UNCHANGED <<connections, available, stored, waiting, toPage, page, spent, astray>>
      /\ requests' = Append(requests, Request("refresh", p))
  BY DEF OpenModels, Listed, mainVars, ChainWizard
<1>2. NewCall(Request("refresh", p), "refresh", p)
  BY RequestsAreCalls DEF CallKinds, ChainKinds, WaitKinds, SaveKinds, Named
<1>3. wizard.connecting \in BOOLEAN /\ wizard.saving \in BOOLEAN
  BY DEF ConnTypes, Wizards
<1> QED
  BY <1>1, <1>2, <1>3

LEMMA ConnectAsks ==
    ASSUME ConnTypes, Connect
    PROVE  /\ wizard' = [wizard EXCEPT !.connecting = TRUE] /\ wizard' \in Wizards
           /\ wizard.connecting = FALSE /\ wizard.step = "auth"
           /\ UNCHANGED <<connections, available, stored, waiting, toPage, page, astray>>
           /\ \E p \in Providers : \E n :
                 /\ NewCall(n, "create", p) /\ requests' = Append(requests, n)
                 /\ p \notin spent.made /\ spent'.made = spent.made \cup {p}
                 /\ spent' \in [saves : Nat, faults : Nat, made : SUBSET Providers]
<1>1. PICK p \in Providers :
         /\ p \notin spent.made /\ spent' = [spent EXCEPT !.made = @ \cup {p}]
         /\ requests' = Append(requests, Request("create", p))
  BY DEF Connect
<1>2. /\ wizard' = [wizard EXCEPT !.connecting = TRUE]
      /\ ~wizard.connecting /\ wizard.step = "auth"
      /\ UNCHANGED <<connections, available, stored, waiting, toPage, page, astray>>
  BY DEF Connect, mainVars
<1>3. NewCall(Request("create", p), "create", p)
  BY RequestsAreCalls DEF CallKinds, ChainKinds, WaitKinds, SaveKinds, Named
<1>4. wizard' \in Wizards /\ wizard.connecting = FALSE
  BY <1>2 DEF ConnTypes, Wizards
<1>5. /\ spent'.made = spent.made \cup {p}
      /\ spent' \in [saves : Nat, faults : Nat, made : SUBSET Providers]
  BY <1>1 DEF ConnTypes
<1> QED
  BY <1>1, <1>2, <1>3, <1>4, <1>5

LEMMA RemoveAsks ==
    ASSUME ConnTypes, NEW p \in Providers, Remove(p)
    PROVE  /\ page' \in Pages /\ p \in page.services /\ page.removing = None
           /\ UNCHANGED <<connections, available, stored, waiting, toPage, wizard, spent, astray>>
           /\ \/ page' = [page EXCEPT !.confirm = p] /\ requests' = requests
              \/ /\ page' = [page EXCEPT !.removing = p]
                 /\ \E n : NewCall(n, "remove", p) /\ requests' = Append(requests, n)
<1>1. /\ p \in page.services /\ page.removing = None
      /\ UNCHANGED <<connections, available, stored, waiting, toPage, wizard, spent, astray>>
      /\ \/ page' = [page EXCEPT !.confirm = p] /\ requests' = requests
         \/ /\ page' = [page EXCEPT !.removing = p]
            /\ requests' = Append(requests, Request("remove", p))
  BY DEF Remove, mainVars
<1>2. NewCall(Request("remove", p), "remove", p)
  BY RequestsAreCalls DEF CallKinds, ChainKinds, WaitKinds, SaveKinds, Named
<1>3. page' \in Pages
  <2>1. page \in Pages /\ p \in Named
    BY DEF ConnTypes, Named
  <2>2. [page EXCEPT !.confirm = p] \in Pages
    BY <2>1 DEF Pages
  <2>3. [page EXCEPT !.removing = p] \in Pages
    BY <2>1 DEF Pages
  <2> QED
    BY <1>1, <2>2, <2>3, Zenon
<1> QED
  BY <1>1, <1>2, <1>3

SameTags == page'.open = page.open /\ page'.effect = page.effect /\ page'.workspace = page.workspace

LEMMA ReceiveShows ==
    ASSUME ConnTypes, Receive
    PROVE  /\ page' \in Pages /\ wizard' \in Wizards /\ astray' \in SUBSET {"services", "bindings"}
           /\ SameTags
<1>1. PICK m : m = Head(toPage)
  OBVIOUS
<1>2. m \in Calls
  BY <1>1, Receives
<1>3. \/ Here(m) /\ (ListShown(m) \/ BindingsShown(m) \/ Connected(m) \/ ModelsShown(m)
                        \/ Saved(m) \/ Removed(m))
      \/ /\ ~Here(m) /\ UNCHANGED <<page, wizard>>
         /\ astray' = IF m.ok /\ m.kind \in {"create", "remove"}
                      THEN astray \cup {"services"} ELSE astray
  BY <1>1 DEF Receive
<1>4. page \in Pages /\ wizard \in Wizards /\ astray \in SUBSET {"services", "bindings"}
  BY DEF ConnTypes
<1>5. /\ m.listed \in SUBSET Providers /\ m.bindings \in BindingRows /\ m.ok \in BOOLEAN
      /\ m.kind \in ChainKinds \cup WaitKinds => m.of \in Providers
  BY <1>2, FieldsOfCalls
<1>6. CASE ListShown(m)
  <2>1. page' = [page EXCEPT !.services = m.listed] \/ page' = page
    BY <1>6 DEF ListShown
  <2>2. wizard' = wizard /\ astray' \in SUBSET {"services", "bindings"}
    BY <1>4, <1>6 DEF ListShown
  <2>3. page' \in Pages /\ SameTags
    BY <1>4, <1>5, <2>1 DEF Pages, SameTags
  <2> QED
    BY <1>4, <2>2, <2>3
<1>7. CASE BindingsShown(m)
  <2>1. \/ page' = page
        \/ /\ m.kind = "load"
           /\ page' = [page EXCEPT !.catalog = m.listed, !.bindings = m.bindings,
                                   !.embedding = m.bindings.embedding]
    BY <1>7 DEF BindingsShown
  <2>2. wizard' = wizard /\ astray' \in SUBSET {"services", "bindings"}
    BY <1>4, <1>7 DEF BindingsShown
  <2>3. m.bindings.embedding \in Named
    BY <1>5 DEF BindingRows, OfWorkspace, Bindings, NoBindings, Named
  <2>4. page' \in Pages /\ SameTags
    BY <1>4, <1>5, <2>1, <2>3 DEF Pages, SameTags
  <2> QED
    BY <1>4, <2>2, <2>4
<1>8. CASE Connected(m)
  <2>1. m.of \in Providers
    BY <1>5, <1>8 DEF Connected, ChainKinds
  <2>2. \/ page' = page /\ wizard' = [wizard EXCEPT !.connecting = FALSE]
        \/ page' = [page EXCEPT !.services = @ \cup {m.of}] /\ wizard' = ChainWizard(m.of)
    BY <1>8 DEF Connected, ChainWizard
  <2>3. astray' = astray
    BY <1>8 DEF Connected
  <2>4. page' \in Pages /\ SameTags
    BY <1>4, <2>1, <2>2 DEF Pages, SameTags
  <2>5. wizard' \in Wizards
    <3>1. ChainWizard(m.of) \in Wizards
      BY <2>1, ChainWizards
    <3> QED
      BY <1>4, <2>2, <3>1 DEF Wizards
  <2> QED
    BY <1>4, <2>3, <2>4, <2>5
<1>9. CASE ModelsShown(m)
  <2> DEFINE x == IF m.of \in m.listed THEN m.of ELSE None
  <2>1. \/ page' = page /\ wizard' = [wizard EXCEPT !.connecting = FALSE]
        \/ page' = page /\ wizard' = wizard
        \/ /\ page' = [page EXCEPT !.catalog = m.listed]
           /\ wizard' = [wizard EXCEPT !.connecting = FALSE, !.selected = x]
    BY <1>9 DEF ModelsShown
  <2>2. astray' = astray
    BY <1>9 DEF ModelsShown
  <2>3. x \in Named
    BY <1>5 DEF Named
  <2> HIDE DEF x
  <2>4. page' \in Pages /\ SameTags
    BY <1>4, <1>5, <2>1 DEF Pages, SameTags
  <2>5. wizard' \in Wizards
    BY <1>4, <2>1, <2>3 DEF Wizards
  <2> QED
    BY <1>4, <2>2, <2>4, <2>5
<1>10. CASE Saved(m)
  <2>1. PICK e : e = (page.embeddingSaving /\ m.kind # "embedding")
    OBVIOUS
  <2>2. PICK v : v = (wizard.saving /\ m.kind # "bind")
    OBVIOUS
  <2>3. e \in BOOLEAN
    BY <2>1, Zenon
  <2>4. v \in BOOLEAN
    BY <2>2, Zenon
  <2>5. \/ page' = [page EXCEPT !.bindings = m.bindings, !.embeddingSaving = e]
        \/ page' = [page EXCEPT !.embeddingSaving = e]
    BY <1>10, <2>1 DEF Saved
  <2>6. wizard' = ListStep \/ wizard' = wizard \/ wizard' = [wizard EXCEPT !.saving = v]
    BY <1>10, <2>2 DEF Saved
  <2>7. astray' \in SUBSET {"services", "bindings"}
    BY <1>4, <1>10 DEF Saved
  <2>8. page' \in Pages /\ SameTags
    BY <1>4, <1>5, <2>3, <2>5 DEF Pages, SameTags
  <2>9. wizard' \in Wizards
    BY <1>4, <2>4, <2>6, ListSteps DEF Wizards
  <2> QED
    BY <2>7, <2>8, <2>9
<1>11. CASE Removed(m)
  <2>1. \/ page' = [page EXCEPT !.services = @ \ {m.of}, !.confirm = None, !.removing = None]
        \/ page' = [page EXCEPT !.removing = None]
    BY <1>11 DEF Removed
  <2>2. wizard' = wizard /\ astray' = astray
    BY <1>11 DEF Removed
  <2>3. page' \in Pages /\ SameTags
    BY <1>4, <2>1 DEF Pages, SameTags, Named
  <2> QED
    BY <1>4, <2>2, <2>3
<1>12. CASE /\ UNCHANGED <<page, wizard>>
            /\ astray' = IF m.ok /\ m.kind \in {"create", "remove"}
                         THEN astray \cup {"services"} ELSE astray
  BY <1>4, <1>12 DEF SameTags
<1> QED
  BY <1>3, <1>6, <1>7, <1>8, <1>9, <1>10, <1>11, <1>12

-----------------------------------------------------------------------------
(* A call and its reply are of the same groups. *)
LEMMA RepliesAlike ==
    ASSUME NEW m \in Calls, NEW n \in Calls, Like(n, m)
    PROVE  /\ \A kinds, o : n \in OfOpening(kinds, o) <=> m \in OfOpening(kinds, o)
           /\ \A kinds, o : n \in OfBefore(kinds, o) <=> m \in OfBefore(kinds, o)
           /\ \A p : n \in LoadsOf(p) <=> m \in LoadsOf(p)
           /\ \A p : n \in Misplaced(p) <=> m \in Misplaced(p)
           /\ \A c : n \in Making(c) <=> m \in Making(c)
           /\ \A c : n \in Removing(c) <=> m \in Removing(c)
           /\ \A z, o : n \in NotFor(z, o) <=> m \in NotFor(z, o)
BY DEF Like, OfOpening, OfBefore, LoadsOf, Misplaced, Issued, Making, Removing, NotFor

LEMMA TagsStay ==
    ASSUME SameTags
    PROVE  Misplaced(page') = Misplaced(page) /\ LoadsOf(page') = LoadsOf(page)
BY DEF SameTags, Misplaced, Issued, LoadsOf

LEMMA NewOnesPlaced ==
    ASSUME ConnTypes, NEW n
    PROVE  /\ \A kind, of : NewCall(n, kind, of) /\ kind \notin SaveKinds \cup {"load"} =>
                  n \notin Misplaced(page) /\ n \in Calls
           /\ \A kind, b : SaveCall(n, kind, b) => n \notin Misplaced(page) /\ n \in Calls
<1>1. page.open \in Nat /\ page.effect \in Nat
  BY DEF ConnTypes, Pages
<1> QED
  BY <1>1 DEF NewCall, SaveCall, Misplaced, Issued

(* The types and the tags through what happens to the calls. *)
IssuedStay ==
    /\ requests' \in Seq(Calls) /\ waiting' \in SUBSET Calls /\ toPage' \in Seq(Calls)
    /\ AllIssued'

LEMMA IssuedByQuiet ==
    ASSUME ConnTypes, AllIssued, SameTags, UNCHANGED <<requests, waiting, toPage>>
    PROVE  IssuedStay
BY TagsStay DEF ConnTypes, AllIssued, IssuedStay

LEMMA IssuedByAsking ==
    ASSUME ConnTypes, AllIssued, SameTags, UNCHANGED <<waiting, toPage>>,
           NEW n \in Calls, n \notin Misplaced(page), n.ok = TRUE, requests' = Append(requests, n)
    PROVE  IssuedStay
<1>1. requests \in Seq(Calls)
  BY DEF ConnTypes
<1>2. requests' \in Seq(Calls)
  BY <1>1, JoinedLine
<1>3. ~OnWay(Misplaced(page), Append(requests, n), waiting, toPage)
  BY <1>1, Asked DEF AllIssued
<1>4. \A i \in DOMAIN Append(requests, n) : i \in DOMAIN requests \/ i = Len(requests) + 1
  BY <1>1, JoinedLine
<1>5. \A i \in DOMAIN Append(requests, n) : Append(requests, n)[i].ok
  BY <1>1, <1>4, JoinedLine DEF AllIssued
<1> QED
  BY <1>2, <1>3, <1>5, TagsStay DEF ConnTypes, AllIssued, IssuedStay

LEMMA IssuedByHandling ==
    ASSUME ConnTypes, AllIssued, Handle
    PROVE  IssuedStay
<1>1. requests \in Seq(Calls) /\ toPage \in Seq(Calls) /\ waiting \in SUBSET Calls
  BY DEF ConnTypes
<1>2. /\ requests # <<>> /\ Head(requests) \in Calls /\ requests' = Tail(requests)
      /\ Head(requests).ok = TRUE /\ page' = page
      /\ HandedOnCall \/ \E n : AnsweredCall(n)
  BY Handles
<1>3. SameTags
  BY <1>2 DEF SameTags
<1>4. Tail(requests) \in Seq(Calls) /\ \A i \in DOMAIN Tail(requests) : Tail(requests)[i].ok
  BY <1>1, <1>2, LeftLine DEF AllIssued
<1>5. CASE HandedOnCall
  <2>1. ~OnWay(Misplaced(page), Tail(requests), waiting \cup {Head(requests)}, toPage)
    BY <1>1, <1>2, HandedOn DEF AllIssued
  <2>2. waiting' = waiting \cup {Head(requests)} /\ toPage' = toPage /\ Head(requests).kind \in WaitKinds
    BY <1>5 DEF HandedOnCall
  <2> QED
    BY <1>1, <1>2, <1>3, <1>4, <2>1, <2>2, TagsStay DEF AllIssued, IssuedStay
<1>6. CASE \E n : AnsweredCall(n)
  <2>1. PICK n : AnsweredCall(n)
    BY <1>6
  <2>2. n \in Calls /\ Like(n, Head(requests)) /\ toPage' = Append(toPage, n) /\ waiting' = waiting
    BY <2>1 DEF AnsweredCall
  <2>3. n \in Misplaced(page) <=> Head(requests) \in Misplaced(page)
    BY <1>2, <2>2, RepliesAlike
  <2>4. ~OnWay(Misplaced(page), Tail(requests), waiting, Append(toPage, n))
    BY <1>1, <1>2, <2>2, <2>3, Answered DEF AllIssued
  <2>5. toPage' \in Seq(Calls)
    BY <1>1, <2>2, JoinedLine
  <2> QED
    BY <1>1, <1>2, <1>3, <1>4, <2>2, <2>4, <2>5, TagsStay DEF AllIssued, IssuedStay
<1> QED
  BY <1>2, <1>5, <1>6

LEMMA IssuedByEnding ==
    ASSUME ConnTypes, AllIssued, NEW c \in waiting, Ends(c)
    PROVE  IssuedStay
<1>1. requests \in Seq(Calls) /\ toPage \in Seq(Calls) /\ waiting \in SUBSET Calls
  BY DEF ConnTypes
<1>2. PICK n : EndedCall(c, n)
  BY EndsCalls
<1>3. /\ n \in Calls /\ Like(n, c) /\ toPage' = Append(toPage, n) /\ waiting' = waiting \ {c}
      /\ requests' = requests /\ page' = page
  BY <1>2 DEF EndedCall
<1>4. n \in Misplaced(page) <=> c \in Misplaced(page)
  BY <1>1, <1>3, RepliesAlike
<1>5. ~OnWay(Misplaced(page), requests, waiting \ {c}, Append(toPage, n))
  BY <1>1, <1>3, <1>4, CallEnded DEF AllIssued
<1>6. toPage' \in Seq(Calls) /\ SameTags
  BY <1>1, <1>3, JoinedLine DEF SameTags
<1> QED
  BY <1>1, <1>3, <1>5, <1>6, TagsStay DEF AllIssued, IssuedStay

LEMMA NextOnesPlaced ==
    ASSUME NEW m \in Calls, NEW n, CallAfter(n, m), NEW p
    PROVE  n \in Calls /\ n.ok /\ (n \in Misplaced(p) => m \in Misplaced(p))
BY DEF CallAfter, Misplaced, Issued, SaveKinds

LEMMA IssuedByReceiving ==
    ASSUME ConnTypes, AllIssued, Receive
    PROVE  IssuedStay
<1>1. requests \in Seq(Calls) /\ toPage \in Seq(Calls) /\ waiting \in SUBSET Calls
  BY DEF ConnTypes
<1>2. /\ toPage # <<>> /\ Head(toPage) \in Calls /\ toPage' = Tail(toPage) /\ waiting' = waiting
      /\ \/ requests' = requests
         \/ \E n : CallAfter(n, Head(toPage)) /\ requests' = Append(requests, n)
  BY Receives
<1>3. SameTags
  BY ReceiveShows
<1>4. /\ ~OnWay(Misplaced(page), requests, waiting, Tail(toPage))
      /\ Head(toPage) \notin Misplaced(page) /\ Tail(toPage) \in Seq(Calls)
  BY <1>1, <1>2, Taken, LeftLine DEF AllIssued
<1>5. CASE requests' = requests
  BY <1>1, <1>2, <1>3, <1>4, <1>5, TagsStay DEF AllIssued, IssuedStay
<1>6. CASE \E n : CallAfter(n, Head(toPage)) /\ requests' = Append(requests, n)
  <2>1. PICK n : CallAfter(n, Head(toPage)) /\ requests' = Append(requests, n)
    BY <1>6
  <2>2. n \in Calls /\ n.ok /\ n \notin Misplaced(page)
    BY <1>2, <1>4, <2>1, NextOnesPlaced
  <2>3. ~OnWay(Misplaced(page), Append(requests, n), waiting, Tail(toPage))
    BY <1>1, <1>4, <2>2, Asked
  <2>4. requests' \in Seq(Calls)
    BY <1>1, <2>1, <2>2, JoinedLine
  <2>5. \A i \in DOMAIN Append(requests, n) : i \in DOMAIN requests \/ i = Len(requests) + 1
    BY <1>1, <2>2, JoinedLine
  <2>6. \A i \in DOMAIN Append(requests, n) : Append(requests, n)[i].ok
    BY <1>1, <2>2, <2>5, JoinedLine DEF AllIssued
  <2> QED
    BY <1>1, <1>2, <1>3, <1>4, <2>1, <2>3, <2>4, <2>6, TagsStay DEF AllIssued, IssuedStay
<1> QED
  BY <1>2, <1>5, <1>6

LEMMA FewerOnWay ==
    ASSUME NEW r, NEW w, NEW t, NEW M, NEW N, M \subseteq N, ~OnWay(N, r, w, t)
    PROVE  ~OnWay(M, r, w, t)
BY DEF OnWay, InLine

LEMMA IssuedByOpening ==
    ASSUME ConnTypes, AllIssued, OpenPage
    PROVE  IssuedStay
<1>1. requests \in Seq(Calls) /\ toPage \in Seq(Calls) /\ waiting \in SUBSET Calls
      /\ page.open \in Nat /\ page.effect \in Nat
  BY DEF ConnTypes, Pages
<1>2. /\ page' \in Pages /\ page'.open = page.open + 1 /\ page'.effect = 0
      /\ UNCHANGED <<waiting, toPage>>
  BY Opens
<1>3. PICK a, b : /\ a \in Calls /\ a.kind = "list" /\ a.open = page'.open /\ a.ok = TRUE
                  /\ a.effect = 0 /\ AsksFor(a, b)
  BY Opens
<1>4. Misplaced(page') \subseteq Misplaced(page)
  <2> SUFFICES ASSUME NEW m \in Calls, Issued(m, page) PROVE Issued(m, page')
    BY DEF Misplaced
  <2>1. m.open \in Nat /\ m.open <= page.open
    BY FieldsOfCalls DEF Issued
  <2>2. m.open <= page'.open /\ m.open # page'.open
    BY <1>1, <1>2, <2>1
  <2> QED
    BY <2>2 DEF Issued
<1>5. ~OnWay(Misplaced(page'), requests, waiting, toPage)
  BY <1>4, FewerOnWay DEF AllIssued
<1>6. a \notin Misplaced(page')
  BY <1>1, <1>2, <1>3 DEF Misplaced, Issued, SaveKinds
<1>7. /\ Append(requests, a) \in Seq(Calls)
      /\ ~OnWay(Misplaced(page'), Append(requests, a), waiting, toPage)
  BY <1>1, <1>3, <1>5, <1>6, JoinedLine, Asked
<1>8. \A i \in DOMAIN Append(requests, a) : Append(requests, a)[i].ok
  <2>1. \A i \in DOMAIN Append(requests, a) : i \in DOMAIN requests \/ i = Len(requests) + 1
    BY <1>1, <1>3, JoinedLine
  <2> QED
    BY <1>1, <1>3, <2>1, JoinedLine DEF AllIssued
<1>9. CASE requests' = Append(requests, a)
  BY <1>1, <1>2, <1>7, <1>8, <1>9 DEF AllIssued, IssuedStay
<1>10. CASE LoadCall(b, page') /\ requests' = Append(Append(requests, a), b)
  <2>1. b \in Calls /\ b.ok = TRUE /\ b \notin Misplaced(page')
    BY <1>1, <1>2, <1>10 DEF LoadCall, LoadsOf, Misplaced, Issued
  <2> DEFINE r == Append(requests, a)
  <2> HIDE DEF r
  <2>2. r \in Seq(Calls) /\ ~OnWay(Misplaced(page'), r, waiting, toPage)
        /\ \A i \in DOMAIN r : r[i].ok
    BY <1>7, <1>8 DEF r
  <2>3. Append(r, b) \in Seq(Calls) /\ ~OnWay(Misplaced(page'), Append(r, b), waiting, toPage)
    BY <2>1, <2>2, JoinedLine, Asked
  <2>4. \A i \in DOMAIN Append(r, b) : Append(r, b)[i].ok
    <3>1. \A i \in DOMAIN Append(r, b) : i \in DOMAIN r \/ i = Len(r) + 1
      BY <2>1, <2>2, JoinedLine
    <3> QED
      BY <2>1, <2>2, <3>1, JoinedLine
  <2> QED
    BY <1>1, <1>2, <1>10, <2>3, <2>4 DEF AllIssued, IssuedStay, r
<1> QED
  BY <1>3, <1>9, <1>10 DEF AsksFor

LEMMA IssuedByChoosing ==
    ASSUME ConnTypes, AllIssued, NEW v \in Workspaces \cup {None}, Choose(v)
    PROVE  IssuedStay
<1>1. requests \in Seq(Calls) /\ toPage \in Seq(Calls) /\ waiting \in SUBSET Calls
      /\ page.open \in Nat /\ page.effect \in Nat
  BY DEF ConnTypes, Pages
<1>2. /\ page' \in Pages /\ page'.open = page.open /\ page'.effect = page.effect + 1
      /\ UNCHANGED <<waiting, toPage>>
      /\ \/ requests' = requests
         \/ \E b : LoadCall(b, page') /\ requests' = Append(requests, b)
  BY Chooses
<1>3. Misplaced(page') \subseteq Misplaced(page)
  <2> SUFFICES ASSUME NEW m \in Calls, Issued(m, page) PROVE Issued(m, page')
    BY DEF Misplaced
  <2>1. m.open \in Nat /\ m.effect \in Nat /\ m.open <= page.open
        /\ (m.open = page.open => m.effect <= page.effect)
    BY FieldsOfCalls DEF Issued
  <2>2. m.open <= page'.open /\ (m.open = page'.open => m.effect <= page'.effect /\ m.effect # page'.effect)
    BY <1>1, <1>2, <2>1
  <2> QED
    BY <2>2 DEF Issued
<1>4. ~OnWay(Misplaced(page'), requests, waiting, toPage)
  BY <1>3, FewerOnWay DEF AllIssued
<1>5. CASE requests' = requests
  BY <1>1, <1>2, <1>4, <1>5 DEF AllIssued, IssuedStay
<1>6. CASE \E b : LoadCall(b, page') /\ requests' = Append(requests, b)
  <2>1. PICK b : LoadCall(b, page') /\ requests' = Append(requests, b)
    BY <1>6
  <2>2. b \in Calls /\ b.ok = TRUE /\ b \notin Misplaced(page')
    BY <1>1, <1>2, <2>1 DEF LoadCall, LoadsOf, Misplaced, Issued
  <2>3. ~OnWay(Misplaced(page'), Append(requests, b), waiting, toPage) /\ requests' \in Seq(Calls)
    BY <1>1, <1>4, <2>1, <2>2, Asked, JoinedLine
  <2>4. \A i \in DOMAIN Append(requests, b) : i \in DOMAIN requests \/ i = Len(requests) + 1
    BY <1>1, <2>2, JoinedLine
  <2>5. \A i \in DOMAIN Append(requests, b) : Append(requests, b)[i].ok
    BY <1>1, <2>2, <2>4, JoinedLine DEF AllIssued
  <2> QED
    BY <1>1, <1>2, <2>1, <2>3, <2>5 DEF AllIssued, IssuedStay
<1> QED
  BY <1>2, <1>5, <1>6

-----------------------------------------------------------------------------
LEMMA CallsStay ==
    ASSUME NamesApart, ConnTypes, AllIssued, [ConnNext]_connVars
    PROVE  IssuedStay
<1>1. page.open \in Nat /\ page.effect \in Nat /\ page \in Pages
  BY DEF ConnTypes, Pages
<1>2. CASE UNCHANGED connVars
  BY <1>2, IssuedByQuiet DEF connVars, SameTags
<1>3. CASE OpenPage
  BY <1>3, IssuedByOpening
<1>4. ASSUME NEW v \in Workspaces \cup {None}, Choose(v) PROVE IssuedStay
  BY <1>4, IssuedByChoosing
<1>5. ASSUME NEW p \in Providers \cup {None}, ChooseEmbedding(p) PROVE IssuedStay
  <2>1. page' = [page EXCEPT !.embedding = p] /\ UNCHANGED <<requests, waiting, toPage>>
    BY <1>5 DEF ChooseEmbedding, mainVars
  <2>2. SameTags
    BY <1>1, <2>1 DEF Pages, SameTags
  <2> QED
    BY <2>1, <2>2, IssuedByQuiet
<1>6. CASE SaveEmbedding
  <2>1. PICK n, b : SaveCall(n, "embedding", b) /\ requests' = Append(requests, n)
    BY <1>6, EmbeddingAsks
  <2>2. UNCHANGED <<waiting, toPage>> /\ page' = [page EXCEPT !.embeddingSaving = TRUE]
    BY <1>6, EmbeddingAsks
  <2>3. n \notin Misplaced(page) /\ n \in Calls /\ n.ok = TRUE
    BY <2>1, NewOnesPlaced DEF SaveCall
  <2>4. SameTags
    BY <1>1, <2>2 DEF Pages, SameTags
  <2> QED
    BY <2>1, <2>2, <2>3, <2>4, IssuedByAsking
<1>7. CASE UseModel
  <2>1. PICK n, b : SaveCall(n, "bind", b) /\ requests' = Append(requests, n)
    BY <1>7, ModelAsks
  <2>2. UNCHANGED <<waiting, toPage>> /\ page' = page
    BY <1>7, ModelAsks
  <2>3. n \notin Misplaced(page) /\ n \in Calls /\ n.ok = TRUE
    BY <2>1, NewOnesPlaced DEF SaveCall
  <2> QED
    BY <2>1, <2>2, <2>3, IssuedByAsking DEF SameTags
<1>8. ASSUME NEW p \in Providers, OpenModels(p) PROVE IssuedStay
  <2>1. PICK n : NewCall(n, "refresh", p) /\ requests' = Append(requests, n)
    BY <1>8, ModelsAsk
  <2>2. UNCHANGED <<waiting, toPage>> /\ page' = page
    BY <1>8, ModelsAsk
  <2>3. n \notin Misplaced(page) /\ n \in Calls /\ n.ok = TRUE
    BY <2>1, NewOnesPlaced DEF NewCall, SaveKinds
  <2> QED
    BY <2>1, <2>2, <2>3, IssuedByAsking DEF SameTags
<1>9. CASE Connect
  <2>1. PICK p, n : NewCall(n, "create", p) /\ requests' = Append(requests, n)
    BY <1>9, ConnectAsks
  <2>2. UNCHANGED <<waiting, toPage>> /\ page' = page
    BY <1>9, ConnectAsks
  <2>3. n \notin Misplaced(page) /\ n \in Calls /\ n.ok = TRUE
    BY <2>1, NewOnesPlaced DEF NewCall, SaveKinds
  <2> QED
    BY <2>1, <2>2, <2>3, IssuedByAsking DEF SameTags
<1>10. CASE PickService \/ Back
  BY <1>10, IssuedByQuiet DEF PickService, Back, mainVars, SameTags
<1>11. ASSUME NEW p \in Providers, Remove(p) PROVE IssuedStay
  <2>1. /\ UNCHANGED <<waiting, toPage>>
        /\ \/ page' = [page EXCEPT !.confirm = p] /\ requests' = requests
           \/ /\ page' = [page EXCEPT !.removing = p]
              /\ \E n : NewCall(n, "remove", p) /\ requests' = Append(requests, n)
    BY <1>11, RemoveAsks
  <2>2. SameTags
    BY <1>1, <2>1 DEF Pages, SameTags
  <2>3. CASE requests' = requests
    BY <2>1, <2>2, <2>3, IssuedByQuiet
  <2>4. CASE \E n : NewCall(n, "remove", p) /\ requests' = Append(requests, n)
    <3>1. PICK n : NewCall(n, "remove", p) /\ requests' = Append(requests, n)
      BY <2>4
    <3>2. n \notin Misplaced(page) /\ n \in Calls /\ n.ok = TRUE
      BY <3>1, NewOnesPlaced DEF NewCall, SaveKinds
    <3> QED
      BY <2>1, <2>2, <3>1, <3>2, IssuedByAsking
  <2> QED
    BY <2>1, <2>3, <2>4
<1>12. CASE KeepConnection
  <2>1. page' = [page EXCEPT !.confirm = None] /\ UNCHANGED <<requests, waiting, toPage>>
    BY <1>12 DEF KeepConnection, mainVars
  <2>2. SameTags
    BY <1>1, <2>1 DEF Pages, SameTags
  <2> QED
    BY <2>1, <2>2, IssuedByQuiet
<1>13. CASE Handle
  BY <1>13, IssuedByHandling
<1>14. CASE Receive
  BY <1>14, IssuedByReceiving
<1>15. ASSUME NEW c \in waiting, Ends(c) PROVE IssuedStay
  BY <1>15, IssuedByEnding
<1> QED
  BY <1>2, <1>3, <1>4, <1>5, <1>6, <1>7, <1>8, <1>9, <1>10, <1>11, <1>12, <1>13, <1>14, <1>15
     DEF ConnNext

RestTyped ==
    /\ connections' \in SUBSET Providers /\ available' \in SUBSET Providers
    /\ stored' \in [Workspaces -> BindingRows] /\ (\A w \in Workspaces : stored'[w] \in OfWorkspace(w))
    /\ page' \in Pages /\ wizard' \in Wizards
    /\ spent' \in [saves : Nat, faults : Nat, made : SUBSET Providers]
    /\ astray' \in SUBSET {"services", "bindings"}

LEMMA HandlingTyped ==
    ASSUME ConnTypes, AllIssued, Handle
    PROVE  RestTyped
<1>1. /\ Head(requests) \in Calls
      /\ UNCHANGED <<connections, available, page, wizard, astray>>
      /\ HandedOnCall \/ \E n : AnsweredCall(n)
  BY Handles
<1>2. spent' \in [saves : Nat, faults : Nat, made : SUBSET Providers]
  <2>1. spent \in [saves : Nat, faults : Nat, made : SUBSET Providers]
    BY DEF ConnTypes
  <2>2. spent' = spent \/ spent' = [spent EXCEPT !.faults = @ + 1]
    BY DEF Handle, Read, SetBindings, Fails
  <2> QED
    BY <2>1, <2>2
<1>3. stored' \in [Workspaces -> BindingRows] /\ (\A w \in Workspaces : stored'[w] \in OfWorkspace(w))
  <2>1. stored \in [Workspaces -> BindingRows] /\ (\A w \in Workspaces : stored[w] \in OfWorkspace(w))
    BY DEF ConnTypes
  <2>2. CASE stored' = stored
    BY <2>1, <2>2
  <2>3. CASE \E n \in Calls : n.kind \in SaveKinds /\ stored' = [stored EXCEPT ![n.of] = n.bindings]
    <3>1. PICK n \in Calls : n.kind \in SaveKinds /\ stored' = [stored EXCEPT ![n.of] = n.bindings]
      BY <2>3
    <3>2. n.of \in Workspaces /\ n.bindings \in OfWorkspace(n.of) /\ n.bindings \in BindingRows
      BY <3>1, FieldsOfCalls
    <3> QED
      BY <2>1, <3>1, <3>2
  <2>4. HandedOnCall => stored' = stored
    BY DEF HandedOnCall
  <2>5. \A n : AnsweredCall(n) =>
            \/ stored' = stored
            \/ n \in Calls /\ n.kind \in SaveKinds /\ stored' = [stored EXCEPT ![n.of] = n.bindings]
    BY DEF AnsweredCall, ReadTells
  <2> QED
    BY <1>1, <2>2, <2>3, <2>4, <2>5
<1> QED
  BY <1>1, <1>2, <1>3 DEF RestTyped, ConnTypes

LEMMA EndingTyped ==
    ASSUME ConnTypes, AllIssued, NEW c \in waiting, Ends(c)
    PROVE  RestTyped
<1>1. PICK n : EndedCall(c, n)
  BY EndsCalls
<1>2. c \in Calls /\ c.kind \in WaitKinds
  BY EndsCalls
<1>3. n \in Calls /\ n.kind \in WaitKinds
  BY <1>1, <1>2 DEF EndedCall, Like
<1>4. n.of \in Providers
  BY <1>3, FieldsOfCalls
<1> QED
  BY <1>1, <1>4 DEF EndedCall, RestTyped, ConnTypes

LEMMA RestStaysTyped ==
    ASSUME NamesApart, ConnTypes, AllIssued, [ConnNext]_connVars
    PROVE  RestTyped
<1>1. page \in Pages /\ wizard \in Wizards /\ astray \in SUBSET {"services", "bindings"}
      /\ spent \in [saves : Nat, faults : Nat, made : SUBSET Providers]
  BY DEF ConnTypes
<1>2. CASE UNCHANGED connVars
  BY <1>2 DEF connVars, RestTyped, ConnTypes
<1>3. CASE OpenPage
  BY <1>1, <1>3, Opens, ListSteps DEF RestTyped, ConnTypes
<1>4. ASSUME NEW v \in Workspaces \cup {None}, Choose(v) PROVE RestTyped
  <2>1. /\ page' \in Pages /\ UNCHANGED <<connections, available, stored, wizard, spent>>
        /\ astray' = astray \ {"bindings"} \/ astray' = astray \cup {"bindings"}
    BY <1>4, Chooses
  <2> QED
    BY <1>1, <2>1 DEF RestTyped, ConnTypes
<1>5. ASSUME NEW p \in Providers \cup {None}, ChooseEmbedding(p) PROVE RestTyped
  <2>1. page' = [page EXCEPT !.embedding = p]
        /\ UNCHANGED <<connections, available, stored, wizard, spent, astray>>
    BY <1>5 DEF ChooseEmbedding, mainVars
  <2>2. page' \in Pages
    BY <1>1, <2>1 DEF Pages, Named
  <2> QED
    BY <1>1, <2>1, <2>2 DEF RestTyped, ConnTypes
<1>6. CASE SaveEmbedding
  BY <1>1, <1>6, EmbeddingAsks DEF RestTyped, ConnTypes
<1>7. CASE UseModel
  BY <1>1, <1>7, ModelAsks DEF RestTyped, ConnTypes
<1>8. ASSUME NEW p \in Providers, OpenModels(p) PROVE RestTyped
  <2>1. wizard' = ChainWizard(p)
        /\ UNCHANGED <<connections, available, stored, page, spent, astray>>
    BY <1>8, ModelsAsk
  <2>2. wizard' \in Wizards
    BY <2>1, ChainWizards
  <2> QED
    BY <1>1, <2>1, <2>2 DEF RestTyped, ConnTypes
<1>9. CASE Connect
  BY <1>1, <1>9, ConnectAsks DEF RestTyped, ConnTypes
<1>10. CASE PickService \/ Back
  <2>1. wizard' = [wizard EXCEPT !.step = "auth"] \/ wizard' = ListStep
    BY <1>10 DEF PickService, Back
  <2>2. UNCHANGED <<connections, available, stored, page, spent, astray>>
    BY <1>10 DEF PickService, Back, mainVars
  <2>3. wizard' \in Wizards
    BY <1>1, <2>1, ListSteps DEF Wizards
  <2> QED
    BY <1>1, <2>2, <2>3 DEF RestTyped, ConnTypes
<1>11. ASSUME NEW p \in Providers, Remove(p) PROVE RestTyped
  BY <1>1, <1>11, RemoveAsks DEF RestTyped, ConnTypes
<1>12. CASE KeepConnection
  <2>1. page' = [page EXCEPT !.confirm = None]
        /\ UNCHANGED <<connections, available, stored, wizard, spent, astray>>
    BY <1>12 DEF KeepConnection, mainVars
  <2>2. page' \in Pages
    BY <1>1, <2>1 DEF Pages, Named
  <2> QED
    BY <1>1, <2>1, <2>2 DEF RestTyped, ConnTypes
<1>13. CASE Handle
  BY <1>13, HandlingTyped
<1>14. CASE Receive
  BY <1>1, <1>14, Receives, ReceiveShows DEF RestTyped, ConnTypes
<1>15. ASSUME NEW c \in waiting, Ends(c) PROVE RestTyped
  BY <1>15, EndingTyped
<1> QED
  BY <1>2, <1>3, <1>4, <1>5, <1>6, <1>7, <1>8, <1>9, <1>10, <1>11, <1>12, <1>13, <1>14, <1>15
     DEF ConnNext

LEMMA ConnTypesStay ==
    ASSUME NamesApart, ConnTypes, AllIssued, [ConnNext]_connVars
    PROVE  ConnTypes' /\ AllIssued'
BY CallsStay, RestStaysTyped DEF IssuedStay, RestTyped, ConnTypes

-----------------------------------------------------------------------------
(* The locks: what a step does to the calls of each group. *)
LEMMA NoneIsOne ==
    ASSUME NEW r, NEW w, NEW t, NEW M, ~OnWay(M, r, w, t)
    PROVE  /\ AtMostOne(M, r, w, t)
           /\ \A N : Ahead(M, N, r, w, t)
BY DEF OnWay, InLine, AtMostOne, OneInLine, Ahead

SameGroups ==
    OneOfEach' /\ \A kinds : Under(kinds)' <=> Under(kinds)

LEMMA GroupsByQuiet ==
    ASSUME OneOfEach, page'.open = page.open, UNCHANGED <<requests, waiting, toPage>>
    PROVE  SameGroups
BY DEF OneOfEach, SameGroups, Under

LEMMA GroupsByAsking ==
    ASSUME ConnTypes, OneOfEach, page'.open = page.open, UNCHANGED <<waiting, toPage>>,
           NEW n \in Calls, requests' = Append(requests, n),
           \A K \in Groups : n \in OfOpening(K, page.open) => ~Under(K)
    PROVE  /\ OneOfEach'
           /\ \A kinds : Under(kinds)' <=> Under(kinds) \/ n \in OfOpening(kinds, page.open)
<1>1. requests \in Seq(Calls)
  BY DEF ConnTypes
<1>2. \A kinds : OnWay(OfOpening(kinds, page.open), Append(requests, n), waiting, toPage)
                   <=> Under(kinds) \/ n \in OfOpening(kinds, page.open)
  BY <1>1, Asked DEF Under
<1>3. \A K \in Groups : AtMostOne(OfOpening(K, page.open), Append(requests, n), waiting, toPage)
  <2> SUFFICES ASSUME NEW K \in Groups
               PROVE  AtMostOne(OfOpening(K, page.open), Append(requests, n), waiting, toPage)
    OBVIOUS
  <2>1. AtMostOne(OfOpening(K, page.open), requests, waiting, toPage)
        /\ (n \in OfOpening(K, page.open) => ~OnWay(OfOpening(K, page.open), requests, waiting, toPage))
    BY DEF OneOfEach, Under
  <2> QED
    BY <1>1, <2>1, Asked
<1> QED
  BY <1>2, <1>3 DEF OneOfEach, Under

LEMMA GroupsByHandling ==
    ASSUME ConnTypes, AllIssued, OneOfEach, Handle
    PROVE  SameGroups
<1>1. requests \in Seq(Calls) /\ toPage \in Seq(Calls) /\ waiting \in SUBSET Calls
  BY DEF ConnTypes
<1>2. /\ requests # <<>> /\ Head(requests) \in Calls /\ requests' = Tail(requests)
      /\ page' = page /\ (HandedOnCall \/ \E n : AnsweredCall(n))
  BY Handles
<1>3. CASE HandedOnCall
  <2>1. waiting' = waiting \cup {Head(requests)} /\ toPage' = toPage
    BY <1>3 DEF HandedOnCall
  <2>2. \A M : /\ OnWay(M, Tail(requests), waiting \cup {Head(requests)}, toPage)
                     <=> OnWay(M, requests, waiting, toPage)
               /\ AtMostOne(M, requests, waiting, toPage) =>
                     AtMostOne(M, Tail(requests), waiting \cup {Head(requests)}, toPage)
    BY <1>1, <1>2, HandedOn
  <2> QED
    BY <1>2, <2>1, <2>2 DEF SameGroups, OneOfEach, Under
<1>4. CASE \E n : AnsweredCall(n)
  <2>1. PICK n : AnsweredCall(n)
    BY <1>4
  <2>2. n \in Calls /\ Like(n, Head(requests)) /\ toPage' = Append(toPage, n) /\ waiting' = waiting
    BY <2>1 DEF AnsweredCall
  <2>3. \A kinds : n \in OfOpening(kinds, page.open) <=> Head(requests) \in OfOpening(kinds, page.open)
    BY <1>2, <2>2, RepliesAlike
  <2>4. \A kinds :
           LET M == OfOpening(kinds, page.open)
           IN  /\ OnWay(M, Tail(requests), waiting, Append(toPage, n))
                     <=> OnWay(M, requests, waiting, toPage)
               /\ AtMostOne(M, requests, waiting, toPage) =>
                     AtMostOne(M, Tail(requests), waiting, Append(toPage, n))
    BY <1>1, <1>2, <2>2, <2>3, Answered
  <2> QED
    BY <1>2, <2>2, <2>4 DEF SameGroups, OneOfEach, Under
<1> QED
  BY <1>2, <1>3, <1>4

LEMMA GroupsByEnding ==
    ASSUME ConnTypes, AllIssued, OneOfEach, NEW c \in waiting, Ends(c)
    PROVE  SameGroups
<1>1. requests \in Seq(Calls) /\ toPage \in Seq(Calls) /\ c \in Calls
  BY DEF ConnTypes
<1>2. PICK n : EndedCall(c, n)
  BY EndsCalls
<1>3. /\ n \in Calls /\ Like(n, c) /\ toPage' = Append(toPage, n) /\ waiting' = waiting \ {c}
      /\ requests' = requests /\ page' = page
  BY <1>2 DEF EndedCall
<1>4. \A kinds : n \in OfOpening(kinds, page.open) <=> c \in OfOpening(kinds, page.open)
  BY <1>1, <1>3, RepliesAlike
<1>5. \A kinds :
         LET M == OfOpening(kinds, page.open)
         IN  /\ OnWay(M, requests, waiting \ {c}, Append(toPage, n))
                   <=> OnWay(M, requests, waiting, toPage)
             /\ AtMostOne(M, requests, waiting, toPage) =>
                   AtMostOne(M, requests, waiting \ {c}, Append(toPage, n))
  BY <1>1, <1>3, <1>4, CallEnded
<1> QED
  BY <1>3, <1>5 DEF SameGroups, OneOfEach, Under

(* A call that came is gone, or goes on as another of its group. *)
LEMMA GroupsByReceiving ==
    ASSUME ConnTypes, AllIssued, OneOfEach, Receive
    PROVE  /\ OneOfEach'
           /\ \A K \in Groups : Under(K)' <=>
                  \/ Under(K) /\ Head(toPage) \notin OfOpening(K, page.open)
                  \/ GoesOn(Head(toPage)) /\ Head(toPage) \in OfOpening(K, page.open)
<1>1. requests \in Seq(Calls) /\ toPage \in Seq(Calls) /\ waiting \in SUBSET Calls
  BY DEF ConnTypes
<1>2. PICK m : m = Head(toPage)
  OBVIOUS
<1>3. /\ toPage # <<>> /\ m \in Calls /\ toPage' = Tail(toPage) /\ waiting' = waiting
      /\ \/ ~GoesOn(m) /\ requests' = requests
         \/ GoesOn(m) /\ \E n : CallAfter(n, m) /\ requests' = Append(requests, n)
  BY <1>2, Receives
<1>4. page'.open = page.open
  BY ReceiveShows DEF SameTags
<1>5. \A K \in Groups :
         /\ AtMostOne(OfOpening(K, page.open), requests, waiting, Tail(toPage))
         /\ OnWay(OfOpening(K, page.open), requests, waiting, Tail(toPage))
               <=> Under(K) /\ m \notin OfOpening(K, page.open)
  <2> SUFFICES ASSUME NEW K \in Groups
               PROVE  /\ AtMostOne(OfOpening(K, page.open), requests, waiting, Tail(toPage))
                      /\ OnWay(OfOpening(K, page.open), requests, waiting, Tail(toPage))
                            <=> Under(K) /\ m \notin OfOpening(K, page.open)
    OBVIOUS
  <2>1. AtMostOne(OfOpening(K, page.open), requests, waiting, toPage)
    BY DEF OneOfEach
  <2> QED
    BY <1>1, <1>2, <1>3, <2>1, Taken DEF Under
<1>6. CASE ~GoesOn(m) /\ requests' = requests
  BY <1>2, <1>3, <1>4, <1>5, <1>6 DEF OneOfEach, Under
<1>7. CASE GoesOn(m) /\ \E n : CallAfter(n, m) /\ requests' = Append(requests, n)
  <2>1. PICK n : CallAfter(n, m) /\ requests' = Append(requests, n)
    BY <1>7
  <2>2. n \in Calls
    BY <2>1 DEF CallAfter
  <2>3. \A K \in Groups : n \in OfOpening(K, page.open) <=> m \in OfOpening(K, page.open)
    BY <1>3, <2>1, <2>2 DEF CallAfter, Groups, ChainKinds, SaveKinds, OfOpening
  <2>4. \A K \in Groups :
           /\ AtMostOne(OfOpening(K, page.open), Append(requests, n), waiting, Tail(toPage))
           /\ OnWay(OfOpening(K, page.open), Append(requests, n), waiting, Tail(toPage))
                 <=> Under(K) \/ m \in OfOpening(K, page.open)
    <3> SUFFICES ASSUME NEW K \in Groups
                 PROVE  /\ AtMostOne(OfOpening(K, page.open), Append(requests, n), waiting, Tail(toPage))
                        /\ OnWay(OfOpening(K, page.open), Append(requests, n), waiting, Tail(toPage))
                              <=> Under(K) \/ m \in OfOpening(K, page.open)
      OBVIOUS
    <3> QED
      BY <1>1, <1>5, <2>2, <2>3, Asked
  <2> QED
    BY <1>2, <1>3, <1>4, <1>7, <2>1, <2>4 DEF OneOfEach, Under
<1> QED
  BY <1>3, <1>6, <1>7

(* The models that are awaited, and the embedding's save, through the same steps. *)
LEMMA ChainByHandling ==
    ASSUME ConnTypes, AllIssued, NoneAstray, EmbeddingFirst, Handle
    PROVE  NoneAstray' /\ EmbeddingFirst'
<1>1. requests \in Seq(Calls) /\ toPage \in Seq(Calls) /\ waiting \in SUBSET Calls
  BY DEF ConnTypes
<1>2. /\ requests # <<>> /\ Head(requests) \in Calls /\ requests' = Tail(requests)
      /\ page' = page /\ wizard' = wizard /\ (HandedOnCall \/ \E n : AnsweredCall(n))
  BY Handles
<1> DEFINE A == OfOpening({"embedding"}, page.open)
           B == OfOpening(ChainKinds, page.open)
           X == NotFor(wizard, page.open)
<1>3. Ahead(A, B, requests, waiting, toPage) /\ ~OnWay(X, requests, waiting, toPage)
  BY DEF EmbeddingFirst, NoneAstray
<1>4. A' = A /\ B' = B /\ X' = X
  BY <1>2
<1>5. CASE HandedOnCall
  <2>1. waiting' = waiting \cup {Head(requests)} /\ toPage' = toPage
        /\ Head(requests).kind \in WaitKinds
    BY <1>5 DEF HandedOnCall
  <2>2. Head(requests) \notin A
    BY <2>1 DEF OfOpening, WaitKinds
  <2> HIDE DEF A, B, X
  <2>3. Ahead(A, B, Tail(requests), waiting \cup {Head(requests)}, toPage)
    BY <1>1, <1>2, <1>3, <2>2, AheadHandedOn
  <2>4. ~OnWay(X, Tail(requests), waiting \cup {Head(requests)}, toPage)
    BY <1>1, <1>2, <1>3, HandedOn
  <2>5. Ahead(A', B', requests', waiting', toPage') /\ ~OnWay(X', requests', waiting', toPage')
    BY <1>2, <1>4, <2>1, <2>3, <2>4
  <2> QED
    BY <2>5 DEF EmbeddingFirst, NoneAstray, A, B, X
<1>6. CASE \E n : AnsweredCall(n)
  <2>1. PICK n : AnsweredCall(n)
    BY <1>6
  <2>2. n \in Calls /\ Like(n, Head(requests)) /\ toPage' = Append(toPage, n) /\ waiting' = waiting
    BY <2>1 DEF AnsweredCall
  <2>3. /\ n \in A <=> Head(requests) \in A
        /\ n \in B <=> Head(requests) \in B
        /\ n \in X <=> Head(requests) \in X
    BY <1>2, <2>2, RepliesAlike
  <2> HIDE DEF A, B, X
  <2>4. Ahead(A, B, Tail(requests), waiting, Append(toPage, n))
    BY <1>1, <1>2, <1>3, <2>2, <2>3, AheadAnswered
  <2>5. ~OnWay(X, Tail(requests), waiting, Append(toPage, n))
    BY <1>1, <1>2, <1>3, <2>2, <2>3, Answered
  <2>6. Ahead(A', B', requests', waiting', toPage') /\ ~OnWay(X', requests', waiting', toPage')
    BY <1>2, <1>4, <2>2, <2>4, <2>5
  <2> QED
    BY <2>6 DEF EmbeddingFirst, NoneAstray, A, B, X
<1> QED
  BY <1>2, <1>5, <1>6

LEMMA ChainByEnding ==
    ASSUME ConnTypes, AllIssued, NoneAstray, EmbeddingFirst, NEW c \in waiting, Ends(c)
    PROVE  NoneAstray' /\ EmbeddingFirst'
<1>1. requests \in Seq(Calls) /\ toPage \in Seq(Calls) /\ c \in Calls
  BY DEF ConnTypes
<1>2. PICK n : EndedCall(c, n)
  BY EndsCalls
<1>3. /\ n \in Calls /\ Like(n, c) /\ toPage' = Append(toPage, n) /\ waiting' = waiting \ {c}
      /\ requests' = requests /\ page' = page /\ wizard' = wizard
  BY <1>2 DEF EndedCall
<1> DEFINE A == OfOpening({"embedding"}, page.open)
           B == OfOpening(ChainKinds, page.open)
           X == NotFor(wizard, page.open)
<1>4. Ahead(A, B, requests, waiting, toPage) /\ ~OnWay(X, requests, waiting, toPage)
  BY DEF EmbeddingFirst, NoneAstray
<1>5. A' = A /\ B' = B /\ X' = X
  BY <1>3
<1>6. (n \in A <=> c \in A) /\ (n \in B <=> c \in B) /\ (n \in X <=> c \in X)
  BY <1>1, <1>3, RepliesAlike
<1>7. c \notin A
  BY <1>4 DEF Ahead
<1> HIDE DEF A, B, X
<1>8. Ahead(A, B, requests, waiting \ {c}, Append(toPage, n))
  BY <1>1, <1>3, <1>4, <1>6, <1>7, AheadEnded
<1>9. ~OnWay(X, requests, waiting \ {c}, Append(toPage, n))
  BY <1>1, <1>3, <1>4, <1>6, CallEnded
<1>10. Ahead(A', B', requests', waiting', toPage') /\ ~OnWay(X', requests', waiting', toPage')
  BY <1>3, <1>5, <1>8, <1>9
<1> QED
  BY <1>10 DEF EmbeddingFirst, NoneAstray, A, B, X

LEMMA EmbeddingByAsking ==
    ASSUME ConnTypes, EmbeddingFirst, page'.open = page.open, UNCHANGED <<waiting, toPage>>,
           NEW n \in Calls, requests' = Append(requests, n),
           n.kind = "embedding" /\ n.open = page.open => ~Under(ChainKinds)
    PROVE  EmbeddingFirst'
<1>1. requests \in Seq(Calls)
  BY DEF ConnTypes
<1> DEFINE A == OfOpening({"embedding"}, page.open)
           B == OfOpening(ChainKinds, page.open)
<1>2. n \in A => ~OnWay(B, requests, waiting, toPage) /\ n \notin B
  BY DEF OfOpening, Under, ChainKinds
<1>3. Ahead(A, B, requests, waiting, toPage)
  BY DEF EmbeddingFirst
<1>4. A' = A /\ B' = B
  OBVIOUS
<1> HIDE DEF A, B
<1>5. Ahead(A, B, Append(requests, n), waiting, toPage)
  BY <1>1, <1>2, <1>3, AheadAsked
<1>6. Ahead(A', B', requests', waiting', toPage')
  BY <1>4, <1>5
<1> QED
  BY <1>6 DEF EmbeddingFirst, A, B

LEMMA EmbeddingByReceiving ==
    ASSUME ConnTypes, EmbeddingFirst, Receive
    PROVE  /\ EmbeddingFirst'
           /\ Head(toPage) \in OfOpening(ChainKinds, page.open) => ~Under({"embedding"})
<1>1. requests \in Seq(Calls) /\ toPage \in Seq(Calls) /\ waiting \in SUBSET Calls
  BY DEF ConnTypes
<1>2. PICK m : m = Head(toPage)
  OBVIOUS
<1>3. /\ toPage # <<>> /\ m \in Calls /\ toPage' = Tail(toPage) /\ waiting' = waiting
      /\ \/ requests' = requests
         \/ \E n : CallAfter(n, m) /\ requests' = Append(requests, n)
  BY <1>2, Receives
<1>4. page'.open = page.open
  BY ReceiveShows DEF SameTags
<1> DEFINE A == OfOpening({"embedding"}, page.open)
           B == OfOpening(ChainKinds, page.open)
<1>5. Ahead(A, B, requests, waiting, toPage)
  BY DEF EmbeddingFirst
<1>6. A' = A /\ B' = B
  BY <1>4
<1>7. \A n : CallAfter(n, m) => n \in Calls /\ n \notin A
  BY DEF CallAfter, OfOpening
<1>8. m \in B => ~OnWay(A, requests, waiting, toPage)
  <2> HIDE DEF A, B
  <2>1. /\ m \in B => ~InLine(A, Tail(toPage)) /\ m \notin A
        /\ InLine(A, toPage) <=> InLine(A, Tail(toPage)) \/ m \in A
        /\ InLine(B, toPage) <=> InLine(B, Tail(toPage)) \/ m \in B
    BY <1>1, <1>2, <1>3, <1>5, FirstLeaves, LeaveLine DEF Ahead
  <2> QED
    BY <1>5, <2>1 DEF Ahead, OnWay
<1>9. m \in B => ~Under({"embedding"})
  BY <1>8 DEF Under
<1> HIDE DEF A, B
<1>10. Ahead(A, B, requests, waiting, Tail(toPage))
  BY <1>1, <1>3, <1>5, AheadTaken
<1>11. Ahead(A, B, requests', waiting, Tail(toPage))
  BY <1>1, <1>3, <1>7, <1>10, AheadAsked
<1>12. Ahead(A', B', requests', waiting', toPage')
  BY <1>3, <1>6, <1>11
<1> QED
  BY <1>2, <1>9, <1>12 DEF EmbeddingFirst, A, B

LEMMA NoneAstrayByAsking ==
    ASSUME ConnTypes, page'.open = page.open, UNCHANGED <<waiting, toPage>>,
           NEW n \in Calls, requests' = Append(requests, n),
           n \notin NotFor(wizard', page.open),
           (NoneAstray /\ wizard' = wizard) \/ ~Under(ChainKinds)
    PROVE  NoneAstray'
<1>1. requests \in Seq(Calls)
  BY DEF ConnTypes
<1>2. NotFor(wizard', page.open) \subseteq OfOpening(ChainKinds, page.open)
  BY DEF NotFor, OfOpening, ChainKinds
<1>3. ~OnWay(NotFor(wizard', page.open), requests, waiting, toPage)
  BY <1>2, FewerOnWay DEF NoneAstray, Under
<1>4. ~OnWay(NotFor(wizard', page.open), Append(requests, n), waiting, toPage)
  BY <1>1, <1>3, Asked
<1> QED
  BY <1>4 DEF NoneAstray

-----------------------------------------------------------------------------
(* The locks through the actions of the page. *)
LocksKept == Locks' /\ Steps'

LEMMA LocksWithGroups ==
    ASSUME Locks, SameGroups, UNCHANGED wizard,
           page'.embeddingSaving = page.embeddingSaving, page'.removing = page.removing
    PROVE  Locks'
BY DEF Locks, SameGroups

LEMMA StepsWithChain ==
    ASSUME Steps, NoneAstray', EmbeddingFirst', UNCHANGED wizard,
           page'.embeddingSaving = page.embeddingSaving
    PROVE  Steps'
BY DEF Steps

LEMMA LocksByHandling ==
    ASSUME ConnTypes, AllIssued, Locks, Steps, Handle
    PROVE  LocksKept
<1>1. page' = page /\ wizard' = wizard
  BY Handles
<1>2. SameGroups
  BY GroupsByHandling DEF Locks
<1>3. NoneAstray' /\ EmbeddingFirst'
  BY ChainByHandling DEF Steps
<1> QED
  BY <1>1, <1>2, <1>3, LocksWithGroups, StepsWithChain DEF LocksKept

LEMMA LocksByEnding ==
    ASSUME ConnTypes, AllIssued, Locks, Steps, NEW c \in waiting, Ends(c)
    PROVE  LocksKept
<1>1. page' = page /\ wizard' = wizard
  BY DEF Ends
<1>2. SameGroups
  BY GroupsByEnding DEF Locks
<1>3. NoneAstray' /\ EmbeddingFirst'
  BY ChainByEnding DEF Steps
<1> QED
  BY <1>1, <1>2, <1>3, LocksWithGroups, StepsWithChain DEF LocksKept

LEMMA LocksByQuiet ==
    ASSUME ConnTypes, Locks, Steps, UNCHANGED <<requests, waiting, toPage, wizard>>,
           page'.open = page.open, page'.embeddingSaving = page.embeddingSaving,
           page'.removing = page.removing
    PROVE  LocksKept
<1>1. SameGroups
  BY GroupsByQuiet DEF Locks
<1>2. NoneAstray' /\ EmbeddingFirst'
  BY DEF Steps, NoneAstray, EmbeddingFirst
<1> QED
  BY <1>1, <1>2, LocksWithGroups, StepsWithChain DEF LocksKept

LEMMA LocksByOpening ==
    ASSUME ConnTypes, AllIssued, Locks, Steps, OpenPage
    PROVE  LocksKept
<1>1. requests \in Seq(Calls) /\ toPage \in Seq(Calls) /\ waiting \in SUBSET Calls
      /\ page.open \in Nat
  BY DEF ConnTypes, Pages
<1>2. /\ page'.open = page.open + 1 /\ page'.embeddingSaving = FALSE /\ page'.removing = None
      /\ wizard' = ListStep /\ UNCHANGED <<waiting, toPage>>
  BY Opens
<1>3. PICK a, b : a \in Calls /\ a.kind = "list" /\ AsksFor(a, b)
  BY Opens
<1> DEFINE Locking == CallKinds \ {"list", "load"}
           M == OfOpening(Locking, page'.open)
<1>4. M \subseteq Misplaced(page)
  <2> SUFFICES ASSUME NEW m \in Calls, m.open = page'.open PROVE ~Issued(m, page)
    BY DEF OfOpening, Misplaced
  <2> QED
    BY <1>1, <1>2, FieldsOfCalls DEF Issued
<1>5. ~OnWay(M, requests, waiting, toPage)
  BY <1>4, FewerOnWay DEF AllIssued
<1>6. a \notin M
  BY <1>3 DEF OfOpening
<1>7. ~OnWay(M, Append(requests, a), waiting, toPage) /\ Append(requests, a) \in Seq(Calls)
  BY <1>1, <1>3, <1>5, <1>6, Asked, JoinedLine
<1>8. ~OnWay(M, requests', waiting, toPage)
  <2>1. CASE requests' = Append(requests, a)
    BY <1>7, <2>1
  <2>2. CASE LoadCall(b, page') /\ requests' = Append(Append(requests, a), b)
    <3>1. b \in Calls /\ b \notin M
      BY <2>2 DEF LoadCall, LoadsOf, OfOpening
    <3> DEFINE r == Append(requests, a)
    <3> HIDE DEF r, M
    <3>2. r \in Seq(Calls) /\ ~OnWay(M, r, waiting, toPage)
      BY <1>7 DEF r
    <3>3. ~OnWay(M, Append(r, b), waiting, toPage)
      BY <3>1, <3>2, Asked
    <3> QED
      BY <2>2, <3>3 DEF r
  <2> QED
    BY <1>3, <2>1, <2>2 DEF AsksFor
<1>9. \A K : K \subseteq Locking => OfOpening(K, page'.open) \subseteq M
  BY DEF OfOpening
<1>10. \A K : K \subseteq Locking => ~OnWay(OfOpening(K, page'.open), requests', waiting, toPage)
  <2> HIDE DEF M, Locking
  <2> QED
    BY <1>8, <1>9, FewerOnWay
<1>11. \A K \in Groups : K \subseteq Locking
  BY DEF Groups, ChainKinds, SaveKinds, CallKinds, WaitKinds
<1>12. ChainKinds \subseteq Locking /\ {"bind"} \subseteq Locking /\ {"embedding"} \subseteq Locking
       /\ {"remove"} \subseteq Locking
  BY DEF ChainKinds, SaveKinds, CallKinds, WaitKinds
<1> HIDE DEF M, Locking
<1>13. \A K : K \subseteq Locking => ~Under(K)'
  BY <1>2, <1>10 DEF Under
<1>14. OneOfEach'
  BY <1>2, <1>10, <1>11, NoneIsOne DEF OneOfEach
<1>15. Locks'
  BY <1>2, <1>12, <1>13, <1>14, ListSteps DEF Locks
<1>16. StepsOf(wizard')
  BY <1>2, ListSteps DEF StepsOf
<1>17. NotFor(wizard', page'.open) \subseteq OfOpening(ChainKinds, page'.open)
  BY DEF NotFor, OfOpening, ChainKinds
<1>18. NoneAstray'
  BY <1>2, <1>10, <1>12, <1>17, FewerOnWay DEF NoneAstray
<1>19. EmbeddingFirst'
  BY <1>2, <1>10, <1>12, NoneIsOne DEF EmbeddingFirst
<1> QED
  BY <1>2, <1>15, <1>16, <1>18, <1>19, ListSteps DEF LocksKept, Steps

LEMMA LocksByChoosing ==
    ASSUME ConnTypes, AllIssued, Locks, Steps, NEW v \in Workspaces \cup {None}, Choose(v)
    PROVE  LocksKept
<1>1. /\ page'.open = page.open /\ page'.embeddingSaving = page.embeddingSaving
      /\ page'.removing = page.removing /\ UNCHANGED <<waiting, toPage, wizard>>
      /\ \/ requests' = requests
         \/ \E b : LoadCall(b, page') /\ requests' = Append(requests, b)
  BY Chooses
<1>2. CASE requests' = requests
  BY <1>1, <1>2, LocksByQuiet
<1>3. CASE \E b : LoadCall(b, page') /\ requests' = Append(requests, b)
  <2>1. PICK b : LoadCall(b, page') /\ requests' = Append(requests, b)
    BY <1>3
  <2>2. b \in Calls /\ b.kind = "load"
    BY <2>1 DEF LoadCall, LoadsOf
  <2>3. /\ \A K \in Groups : b \notin OfOpening(K, page.open)
        /\ \A K \in {ChainKinds, {"bind"}, {"embedding"}, {"remove"}} : b \notin OfOpening(K, page.open)
        /\ b \notin NotFor(wizard, page.open)
    BY <2>2 DEF Groups, ChainKinds, SaveKinds, OfOpening, NotFor
  <2>4. /\ OneOfEach'
        /\ \A K : Under(K)' <=> Under(K) \/ b \in OfOpening(K, page.open)
    BY <1>1, <2>1, <2>2, <2>3, GroupsByAsking DEF Locks
  <2>5. Locks'
    BY <1>1, <2>3, <2>4 DEF Locks
  <2>6. EmbeddingFirst'
    BY <1>1, <2>1, <2>2, EmbeddingByAsking DEF Steps
  <2>7. NoneAstray'
    BY <1>1, <2>1, <2>2, <2>3, NoneAstrayByAsking DEF Steps
  <2> QED
    BY <1>1, <2>5, <2>6, <2>7, StepsWithChain DEF LocksKept
<1> QED
  BY <1>1, <1>2, <1>3

LEMMA LocksBySavingEmbedding ==
    ASSUME ConnTypes, Locks, Steps, SaveEmbedding
    PROVE  LocksKept
<1>1. /\ page' = [page EXCEPT !.embeddingSaving = TRUE]
      /\ page.embeddingSaving = FALSE /\ wizard.step = "list"
      /\ UNCHANGED <<waiting, toPage, wizard>>
  BY EmbeddingAsks
<1>2. PICK n, b : SaveCall(n, "embedding", b) /\ requests' = Append(requests, n)
  BY EmbeddingAsks
<1>3. page'.open = page.open /\ page'.embeddingSaving = TRUE /\ page'.removing = page.removing
  BY <1>1 DEF ConnTypes, Pages
<1>4. ~wizard.saving /\ ~wizard.connecting /\ wizard.selected = None
  BY <1>1 DEF Steps, StepsOf
<1>5. n \in Calls /\ n.kind = "embedding" /\ n.open = page.open
  BY <1>2 DEF SaveCall
<1>6. ~Under({"embedding"}) /\ ~Under({"bind"}) /\ ~Under(ChainKinds)
  BY <1>1, <1>4 DEF Locks
<1>7. ~Under(SaveKinds)
  BY <1>6 DEF Under, OnWay, InLine, OfOpening, SaveKinds
<1>8. \A K \in Groups : n \in OfOpening(K, page.open) => ~Under(K)
  BY <1>5, <1>6, <1>7 DEF Groups, OfOpening, ChainKinds
<1>9. /\ OneOfEach'
      /\ \A K : Under(K)' <=> Under(K) \/ n \in OfOpening(K, page.open)
  BY <1>1, <1>2, <1>3, <1>5, <1>8, GroupsByAsking DEF Locks
<1>10. /\ n \in OfOpening({"embedding"}, page.open) /\ n \notin OfOpening({"bind"}, page.open)
       /\ n \notin OfOpening({"remove"}, page.open) /\ n \notin OfOpening(ChainKinds, page.open)
       /\ n \notin NotFor(wizard, page.open)
  BY <1>5 DEF OfOpening, NotFor, ChainKinds
<1>11. Locks'
  BY <1>1, <1>3, <1>9, <1>10 DEF Locks
<1>12. EmbeddingFirst'
  BY <1>1, <1>2, <1>3, <1>5, <1>6, EmbeddingByAsking DEF Steps
<1>13. NoneAstray'
  BY <1>1, <1>2, <1>3, <1>5, <1>10, NoneAstrayByAsking DEF Steps
<1> QED
  BY <1>1, <1>4, <1>11, <1>12, <1>13 DEF LocksKept, Steps

LEMMA LocksByUsing ==
    ASSUME ConnTypes, Locks, Steps, UseModel
    PROVE  LocksKept
<1>1. /\ wizard' = [wizard EXCEPT !.saving = TRUE]
      /\ wizard.saving = FALSE /\ wizard.connecting = FALSE /\ wizard.step = "model"
      /\ wizard.selected # None /\ UNCHANGED <<waiting, toPage, page>>
  BY ModelAsks
<1>2. PICK n, b : SaveCall(n, "bind", b) /\ requests' = Append(requests, n)
  BY ModelAsks
<1>3. /\ wizard'.saving = TRUE /\ wizard'.connecting = wizard.connecting /\ wizard'.step = wizard.step
      /\ wizard'.selected = wizard.selected /\ wizard'.provider = wizard.provider
  BY <1>1 DEF ConnTypes, Wizards
<1>4. ~page.embeddingSaving
  BY <1>1 DEF Steps
<1>5. n \in Calls /\ n.kind = "bind" /\ n.open = page.open
  BY <1>2 DEF SaveCall
<1>6. ~Under({"embedding"}) /\ ~Under({"bind"}) /\ ~Under(ChainKinds)
  BY <1>1, <1>4 DEF Locks
<1>7. ~Under(SaveKinds)
  BY <1>6 DEF Under, OnWay, InLine, OfOpening, SaveKinds
<1>8. \A K \in Groups : n \in OfOpening(K, page.open) => ~Under(K)
  BY <1>5, <1>6, <1>7 DEF Groups, OfOpening, ChainKinds
<1>9. /\ OneOfEach'
      /\ \A K : Under(K)' <=> Under(K) \/ n \in OfOpening(K, page.open)
  BY <1>1, <1>2, <1>5, <1>8, GroupsByAsking DEF Locks
<1>10. /\ n \in OfOpening({"bind"}, page.open) /\ n \notin OfOpening({"embedding"}, page.open)
       /\ n \notin OfOpening({"remove"}, page.open) /\ n \notin OfOpening(ChainKinds, page.open)
       /\ n \notin NotFor(wizard', page.open)
  BY <1>5 DEF OfOpening, NotFor, ChainKinds
<1>11. Locks'
  BY <1>1, <1>3, <1>9, <1>10 DEF Locks
<1>12. EmbeddingFirst'
  BY <1>1, <1>2, <1>5, EmbeddingByAsking DEF Steps
<1>13. NoneAstray'
  BY <1>1, <1>2, <1>5, <1>6, <1>10, NoneAstrayByAsking
<1>14. StepsOf(wizard')
  BY <1>1, <1>3 DEF Steps, StepsOf
<1> QED
  BY <1>1, <1>3, <1>4, <1>11, <1>12, <1>13, <1>14 DEF LocksKept, Steps

LEMMA LocksByChain ==
    ASSUME ConnTypes, Locks, Steps, page'.open = page.open,
           page'.embeddingSaving = page.embeddingSaving, page'.removing = page.removing,
           UNCHANGED <<waiting, toPage>>,
           wizard.connecting = FALSE, wizard'.connecting = TRUE,
           ~wizard.saving, wizard'.saving = FALSE, wizard'.selected = None, StepsOf(wizard'),
           NEW n \in Calls, n.kind \in {"create", "refresh"}, n.open = page.open,
           n \notin NotFor(wizard', page.open), requests' = Append(requests, n)
    PROVE  LocksKept
<1>1. ~Under(ChainKinds)
  BY DEF Locks
<1>2. \A K \in Groups : n \in OfOpening(K, page.open) => ~Under(K)
  BY <1>1 DEF Groups, OfOpening, SaveKinds
<1>3. /\ OneOfEach'
      /\ \A K : Under(K)' <=> Under(K) \/ n \in OfOpening(K, page.open)
  BY <1>2, GroupsByAsking DEF Locks
<1>4. /\ n \in OfOpening(ChainKinds, page.open) /\ n \notin OfOpening({"embedding"}, page.open)
      /\ n \notin OfOpening({"remove"}, page.open) /\ n \notin OfOpening({"bind"}, page.open)
  BY DEF OfOpening, ChainKinds
<1>5. Locks'
  BY <1>3, <1>4 DEF Locks
<1>6. EmbeddingFirst'
  BY EmbeddingByAsking DEF Steps
<1>7. NoneAstray'
  BY <1>1, NoneAstrayByAsking
<1> QED
  BY <1>5, <1>6, <1>7 DEF LocksKept, Steps

LEMMA LocksByModels ==
    ASSUME ConnTypes, Locks, Steps, NEW p \in Providers, OpenModels(p)
    PROVE  LocksKept
<1>1. /\ wizard' = ChainWizard(p) /\ wizard.connecting = FALSE
      /\ wizard.step = "list" \/ wizard.saving = FALSE
      /\ UNCHANGED <<waiting, toPage, page>>
  BY ModelsAsk
<1>2. PICK n : NewCall(n, "refresh", p) /\ requests' = Append(requests, n)
  BY ModelsAsk
<1>3. ~wizard.saving
  BY <1>1 DEF Steps, StepsOf
<1>4. /\ wizard'.step = "model" /\ wizard'.provider = p
      /\ wizard'.connecting = TRUE /\ wizard'.saving = FALSE /\ wizard'.selected = None
  BY <1>1, ChainWizards
<1>5. StepsOf(wizard')
  BY <1>4 DEF StepsOf
<1>6. n \in Calls /\ n.kind \in {"create", "refresh"} /\ n.open = page.open /\ n.of = p
  BY <1>2 DEF NewCall
<1>7. n \notin NotFor(wizard', page.open)
  BY <1>4, <1>6 DEF NotFor
<1> QED
  BY <1>1, <1>2, <1>3, <1>4, <1>5, <1>6, <1>7, LocksByChain

LEMMA LocksByConnecting ==
    ASSUME ConnTypes, Locks, Steps, Connect
    PROVE  LocksKept
<1>1. /\ wizard' = [wizard EXCEPT !.connecting = TRUE]
      /\ wizard.connecting = FALSE /\ wizard.step = "auth"
      /\ UNCHANGED <<waiting, toPage, page>>
  BY ConnectAsks
<1>2. PICK p, n : NewCall(n, "create", p) /\ requests' = Append(requests, n)
  BY ConnectAsks
<1>3. ~wizard.saving /\ wizard.selected = None /\ wizard.saving \in BOOLEAN
  BY <1>1 DEF Steps, StepsOf, ConnTypes, Wizards
<1>4. /\ wizard'.step = "auth" /\ wizard'.provider = wizard.provider
      /\ wizard'.connecting = TRUE /\ wizard'.saving = FALSE /\ wizard'.selected = None
  BY <1>1, <1>3 DEF ConnTypes, Wizards
<1>5. StepsOf(wizard')
  BY <1>4 DEF StepsOf
<1>6. n \in Calls /\ n.kind \in {"create", "refresh"} /\ n.kind = "create" /\ n.open = page.open
  BY <1>2 DEF NewCall
<1>7. n \notin NotFor(wizard', page.open)
  BY <1>6 DEF NotFor
<1> QED
  BY <1>1, <1>2, <1>3, <1>4, <1>5, <1>6, <1>7, LocksByChain

(* The wizard turns a page while nothing is awaited. *)
LEMMA LocksByTurning ==
    ASSUME ConnTypes, Locks, Steps, UNCHANGED <<requests, waiting, toPage, page>>,
           ~wizard.connecting, ~wizard.saving,
           wizard'.connecting = FALSE, wizard'.saving = FALSE, wizard'.selected = None,
           StepsOf(wizard')
    PROVE  LocksKept
<1>1. SameGroups
  BY GroupsByQuiet DEF Locks
<1>2. Locks'
  BY <1>1 DEF Locks, SameGroups
<1>3. ~Under(ChainKinds)
  BY DEF Locks
<1>4. NotFor(wizard', page.open) \subseteq OfOpening(ChainKinds, page.open)
  BY DEF NotFor, OfOpening, ChainKinds
<1>5. ~OnWay(NotFor(wizard', page.open), requests, waiting, toPage)
  BY <1>3, <1>4, FewerOnWay DEF Under
<1>6. NoneAstray' /\ EmbeddingFirst'
  BY <1>5 DEF Steps, NoneAstray, EmbeddingFirst
<1> QED
  BY <1>2, <1>6 DEF LocksKept, Steps

LEMMA LocksByPicking ==
    ASSUME ConnTypes, Locks, Steps, PickService
    PROVE  LocksKept
<1>1. /\ wizard.step = "list" /\ wizard' = [wizard EXCEPT !.step = "auth"]
      /\ UNCHANGED <<requests, waiting, toPage, page>>
  BY DEF PickService, Listed, mainVars
<1>2. /\ ~wizard.connecting /\ ~wizard.saving /\ wizard.selected = None
      /\ wizard.connecting \in BOOLEAN /\ wizard.saving \in BOOLEAN
  BY <1>1 DEF Steps, StepsOf, ConnTypes, Wizards
<1>3. /\ wizard'.connecting = FALSE /\ wizard'.saving = FALSE /\ wizard'.selected = None
      /\ wizard'.step = "auth"
  BY <1>1, <1>2 DEF ConnTypes, Wizards
<1>4. StepsOf(wizard')
  BY <1>3 DEF StepsOf
<1> QED
  BY <1>1, <1>2, <1>3, <1>4, LocksByTurning

LEMMA LocksByBack ==
    ASSUME ConnTypes, Locks, Steps, Back
    PROVE  LocksKept
<1>1. /\ wizard' = ListStep /\ ~wizard.connecting /\ ~wizard.saving
      /\ UNCHANGED <<requests, waiting, toPage, page>>
  BY DEF Back, mainVars
<1>2. StepsOf(wizard')
  BY <1>1, ListSteps DEF StepsOf
<1> QED
  BY <1>1, <1>2, ListSteps, LocksByTurning

LEMMA LocksByRemoving ==
    ASSUME NamesApart, ConnTypes, Locks, Steps, NEW p \in Providers, Remove(p)
    PROVE  LocksKept
<1>1. /\ page.removing = None /\ UNCHANGED <<waiting, toPage, wizard>>
      /\ \/ page' = [page EXCEPT !.confirm = p] /\ requests' = requests
         \/ /\ page' = [page EXCEPT !.removing = p]
            /\ \E n : NewCall(n, "remove", p) /\ requests' = Append(requests, n)
  BY RemoveAsks
<1>2. CASE page' = [page EXCEPT !.confirm = p] /\ requests' = requests
  <2>1. page'.open = page.open /\ page'.embeddingSaving = page.embeddingSaving
        /\ page'.removing = page.removing
    BY <1>2 DEF ConnTypes, Pages
  <2> QED
    BY <1>1, <1>2, <2>1, LocksByQuiet
<1>3. CASE /\ page' = [page EXCEPT !.removing = p]
           /\ \E n : NewCall(n, "remove", p) /\ requests' = Append(requests, n)
  <2>1. PICK n : NewCall(n, "remove", p) /\ requests' = Append(requests, n)
    BY <1>3
  <2>2. page'.open = page.open /\ page'.embeddingSaving = page.embeddingSaving
        /\ page'.removing = p /\ p # None
    BY <1>3 DEF ConnTypes, Pages, NamesApart
  <2>3. n \in Calls /\ n.kind = "remove" /\ n.open = page.open
    BY <2>1 DEF NewCall
  <2>4. ~Under({"remove"})
    BY <1>1 DEF Locks
  <2>5. \A K \in Groups : n \in OfOpening(K, page.open) => ~Under(K)
    BY <2>3, <2>4 DEF Groups, OfOpening, SaveKinds, ChainKinds
  <2>6. /\ OneOfEach'
        /\ \A K : Under(K)' <=> Under(K) \/ n \in OfOpening(K, page.open)
    BY <1>1, <2>1, <2>2, <2>3, <2>5, GroupsByAsking DEF Locks
  <2>7. /\ n \in OfOpening({"remove"}, page.open) /\ n \notin OfOpening({"embedding"}, page.open)
        /\ n \notin OfOpening(ChainKinds, page.open) /\ n \notin OfOpening({"bind"}, page.open)
        /\ n \notin NotFor(wizard, page.open)
    BY <2>3 DEF OfOpening, ChainKinds, NotFor
  <2>8. Locks'
    BY <1>1, <2>2, <2>6, <2>7 DEF Locks
  <2>9. EmbeddingFirst'
    BY <1>1, <2>1, <2>2, <2>3, EmbeddingByAsking DEF Steps
  <2>10. NoneAstray'
    BY <1>1, <2>1, <2>2, <2>3, <2>7, NoneAstrayByAsking DEF Steps
  <2> QED
    BY <1>1, <2>2, <2>8, <2>9, <2>10, StepsWithChain DEF LocksKept
<1> QED
  BY <1>1, <1>2, <1>3

-----------------------------------------------------------------------------
(* The locks when a reply comes. *)
LEMMA NoneAstrayByReceiving ==
    ASSUME ConnTypes, Receive,
           GoesOn(Head(toPage)) =>
               \A n : CallAfter(n, Head(toPage)) => n \notin NotFor(wizard', page.open),
           \/ NoneAstray /\ wizard' = wizard
           \/ ~OnWay(OfOpening(ChainKinds, page.open), requests, waiting, Tail(toPage))
    PROVE  NoneAstray'
<1>1. requests \in Seq(Calls) /\ toPage \in Seq(Calls)
  BY DEF ConnTypes
<1>2. PICK m : m = Head(toPage)
  OBVIOUS
<1>3. /\ toPage # <<>> /\ toPage' = Tail(toPage) /\ waiting' = waiting
      /\ \/ requests' = requests
         \/ GoesOn(m) /\ \E n : CallAfter(n, m) /\ requests' = Append(requests, n)
  BY <1>2, Receives
<1>4. page'.open = page.open
  BY ReceiveShows DEF SameTags
<1>5. ~OnWay(NotFor(wizard', page.open), requests, waiting, Tail(toPage))
  <2>1. CASE NoneAstray /\ wizard' = wizard
    <3>1. ~OnWay(NotFor(wizard, page.open), requests, waiting, toPage)
      BY <2>1 DEF NoneAstray
    <3>2. ~OnWay(NotFor(wizard, page.open), requests, waiting, Tail(toPage))
      BY <1>1, <1>3, <3>1, Taken
    <3> QED
      BY <2>1, <3>2
  <2>2. CASE ~OnWay(OfOpening(ChainKinds, page.open), requests, waiting, Tail(toPage))
    <3>1. NotFor(wizard', page.open) \subseteq OfOpening(ChainKinds, page.open)
      BY DEF NotFor, OfOpening, ChainKinds
    <3> QED
      BY <2>2, <3>1, FewerOnWay
  <2> QED
    BY <2>1, <2>2
<1>6. GoesOn(m) => \A n : CallAfter(n, m) => n \in Calls /\ n \notin NotFor(wizard', page.open)
  BY <1>2 DEF CallAfter
<1>7. ~OnWay(NotFor(wizard', page.open), requests', waiting, Tail(toPage))
  <2>1. CASE requests' = requests
    BY <1>5, <2>1
  <2>2. CASE GoesOn(m) /\ \E n : CallAfter(n, m) /\ requests' = Append(requests, n)
    <3>1. PICK n : CallAfter(n, m) /\ requests' = Append(requests, n)
      BY <2>2
    <3>2. n \in Calls /\ n \notin NotFor(wizard', page.open)
      BY <1>6, <2>2, <3>1
    <3>3. PICK M : M = NotFor(wizard', page.open)
      OBVIOUS
    <3>4. ~OnWay(M, Append(requests, n), waiting, Tail(toPage))
      BY <1>1, <1>5, <3>2, <3>3, Asked
    <3> QED
      BY <3>1, <3>3, <3>4
  <2> QED
    BY <1>3, <2>1, <2>2
<1> QED
  BY <1>3, <1>4, <1>7 DEF NoneAstray

(* A reply of another opening, or one that opens no lock. *)
LEMMA LocksByOther ==
    ASSUME ConnTypes, AllIssued, Locks, Steps, Receive,
           NEW m, m = Head(toPage),
           \/ m.open # page.open
           \/ m.kind \in {"list", "load"},
           wizard' = wizard, page'.embeddingSaving = page.embeddingSaving,
           page'.removing = page.removing
    PROVE  LocksKept
<1>1. m \in Calls /\ page'.open = page.open
  BY Receives, ReceiveShows DEF SameTags
<1>2. /\ \A K \in Groups : m \notin OfOpening(K, page.open)
      /\ ChainKinds \in Groups /\ {"bind"} \in Groups /\ {"embedding"} \in Groups /\ {"remove"} \in Groups
  BY DEF Groups, OfOpening, ChainKinds, SaveKinds
<1>3. /\ OneOfEach'
      /\ \A K \in Groups : Under(K)' <=> Under(K)
  BY <1>2, GroupsByReceiving DEF Locks
<1>4. Locks'
  BY <1>2, <1>3 DEF Locks
<1>5. EmbeddingFirst'
  BY EmbeddingByReceiving DEF Steps
<1>6. \A n : CallAfter(n, m) => n \notin NotFor(wizard', page.open)
  BY DEF CallAfter, NotFor
<1>7. NoneAstray'
  BY <1>6, NoneAstrayByReceiving DEF Steps
<1> QED
  BY <1>4, <1>5, <1>7, StepsWithChain DEF LocksKept

(* A reply of a chain that does not go on, a save that was answered, ... *)
LEMMA LocksOpened ==
    ASSUME ConnTypes, AllIssued, Locks, Steps, Receive,
           NEW m, m = Head(toPage), m.open = page.open
    PROVE  /\ OneOfEach' /\ EmbeddingFirst' /\ m \in Calls /\ page'.open = page.open
           /\ m.kind \in ChainKinds =>
                 /\ wizard.connecting /\ ~wizard.saving /\ ~page.embeddingSaving
                 /\ Under(ChainKinds)' <=> GoesOn(m)
                 /\ ~OnWay(OfOpening(ChainKinds, page.open), requests, waiting, Tail(toPage))
           /\ m.kind \notin ChainKinds =>
                 /\ Under(ChainKinds)' <=> Under(ChainKinds)
                 /\ \A n : ~CallAfter(n, m)
           /\ \A kind \in {"bind", "embedding", "remove"} :
                 /\ m.kind = kind => Under({kind}) /\ ~Under({kind})'
                 /\ m.kind # kind => (Under({kind})' <=> Under({kind}))
<1>1. requests \in Seq(Calls) /\ toPage \in Seq(Calls)
  BY DEF ConnTypes
<1>2. m \in Calls /\ page'.open = page.open /\ toPage # <<>>
  BY Receives, ReceiveShows DEF SameTags
<1>3. /\ OneOfEach'
      /\ \A K \in Groups : Under(K)' <=>
             \/ Under(K) /\ m \notin OfOpening(K, page.open)
             \/ GoesOn(m) /\ m \in OfOpening(K, page.open)
  BY GroupsByReceiving DEF Locks
<1>4. \A K : m \in OfOpening(K, page.open) <=> m.kind \in K
  BY <1>2 DEF OfOpening
<1>5. \A K : m.kind \in K => Under(K)
  <2> SUFFICES ASSUME NEW K, m.kind \in K PROVE Under(K)
    OBVIOUS
  <2>1. Head(toPage) \in OfOpening(K, page.open)
    BY <1>4
  <2> QED
    BY <1>1, <1>2, <2>1, Taken DEF Under
<1>6. /\ ChainKinds \in Groups
      /\ \A kind \in {"bind", "embedding", "remove"} : {kind} \in Groups
  BY DEF Groups
<1>7. EmbeddingFirst' /\ (m \in OfOpening(ChainKinds, page.open) => ~Under({"embedding"}))
  BY EmbeddingByReceiving DEF Steps
<1>8. ASSUME m.kind \in ChainKinds
      PROVE  /\ wizard.connecting /\ ~wizard.saving /\ ~page.embeddingSaving
             /\ Under(ChainKinds)' <=> GoesOn(m)
             /\ ~OnWay(OfOpening(ChainKinds, page.open), requests, waiting, Tail(toPage))
  <2>1. wizard.connecting /\ ~page.embeddingSaving
    BY <1>4, <1>5, <1>7, <1>8 DEF Locks
  <2>2. ~wizard.saving
    BY <2>1 DEF Steps, StepsOf
  <2>3. AtMostOne(OfOpening(ChainKinds, page.open), requests, waiting, toPage)
    BY <1>6 DEF Locks, OneOfEach
  <2>4. ~OnWay(OfOpening(ChainKinds, page.open), requests, waiting, Tail(toPage))
    BY <1>1, <1>2, <1>4, <1>8, <2>3, Taken
  <2> QED
    BY <1>3, <1>4, <1>6, <1>8, <2>1, <2>2, <2>4
<1>9. ASSUME m.kind \notin ChainKinds
      PROVE  /\ Under(ChainKinds)' <=> Under(ChainKinds)
             /\ \A n : ~CallAfter(n, m)
  BY <1>3, <1>4, <1>6, <1>9 DEF CallAfter, ChainKinds
<1>10. ASSUME NEW kind \in {"bind", "embedding", "remove"}
       PROVE  /\ m.kind = kind => Under({kind}) /\ ~Under({kind})'
              /\ m.kind # kind => (Under({kind})' <=> Under({kind}))
  <2>1. m.kind = kind => ~GoesOn(m)
    BY DEF GoesOn
  <2> QED
    BY <1>3, <1>4, <1>5, <1>6, <2>1
<1> QED
  BY <1>2, <1>3, <1>7, <1>8, <1>9, <1>10

LEMMA LocksByConnected ==
    ASSUME ConnTypes, AllIssued, Locks, Steps, Receive,
           NEW m, m = Head(toPage), m.open = page.open, Connected(m)
    PROVE  LocksKept
<1>1. /\ OneOfEach' /\ EmbeddingFirst' /\ m \in Calls
      /\ wizard.connecting /\ ~wizard.saving /\ ~page.embeddingSaving
      /\ Under(ChainKinds)' <=> GoesOn(m)
      /\ ~OnWay(OfOpening(ChainKinds, page.open), requests, waiting, Tail(toPage))
      /\ \A kind \in {"bind", "embedding", "remove"} : Under({kind})' <=> Under({kind})
  BY LocksOpened DEF Connected, ChainKinds
<1>2. m.kind = "create" /\ m.ok \in BOOLEAN /\ m.of \in Providers
  BY <1>1, FieldsOfCalls DEF Connected, ChainKinds
<1>3. page'.embeddingSaving = page.embeddingSaving /\ page'.removing = page.removing
  BY DEF Connected, ConnTypes, Pages
<1>4. GoesOn(m) <=> m.ok
  BY <1>2 DEF GoesOn
<1>5. CASE m.ok
  <2>1. wizard' = ChainWizard(m.of)
    BY <1>5 DEF Connected, ChainWizard
  <2>2. /\ wizard'.step = "model" /\ wizard'.provider = m.of
        /\ wizard'.connecting = TRUE /\ wizard'.saving = FALSE /\ wizard'.selected = None
    BY <1>2, <2>1, ChainWizards
  <2>3. Locks'
    BY <1>1, <1>3, <1>4, <1>5, <2>2 DEF Locks
  <2>4. \A n : CallAfter(n, m) => n \notin NotFor(wizard', page.open)
    BY <2>2 DEF CallAfter, NotFor
  <2>5. NoneAstray'
    BY <1>1, <2>4, NoneAstrayByReceiving
  <2>6. StepsOf(wizard')
    BY <2>2 DEF StepsOf
  <2> QED
    BY <1>1, <2>2, <2>3, <2>5, <2>6 DEF LocksKept, Steps
<1>6. CASE ~m.ok
  <2>1. wizard' = [wizard EXCEPT !.connecting = FALSE]
    BY <1>6 DEF Connected
  <2>2. /\ wizard'.connecting = FALSE /\ wizard'.saving = wizard.saving /\ wizard'.step = wizard.step
        /\ wizard'.selected = wizard.selected /\ wizard'.provider = wizard.provider
    BY <2>1 DEF ConnTypes, Wizards
  <2>3. Locks'
    BY <1>1, <1>3, <1>4, <1>6, <2>2 DEF Locks
  <2>4. ~GoesOn(m)
    BY <1>4, <1>6
  <2>5. NoneAstray'
    BY <1>1, <2>4, NoneAstrayByReceiving
  <2>6. StepsOf(wizard')
    BY <2>2 DEF StepsOf, Steps
  <2> QED
    BY <1>1, <1>3, <2>2, <2>3, <2>5, <2>6 DEF LocksKept, Steps
<1> QED
  BY <1>2, <1>5, <1>6

LEMMA LocksByModelsShown ==
    ASSUME ConnTypes, AllIssued, Locks, Steps, Receive,
           NEW m, m = Head(toPage), m.open = page.open, ModelsShown(m)
    PROVE  LocksKept
<1>1. /\ OneOfEach' /\ EmbeddingFirst' /\ m \in Calls
      /\ wizard.connecting /\ ~wizard.saving /\ ~page.embeddingSaving
      /\ Under(ChainKinds)' <=> GoesOn(m)
      /\ ~OnWay(OfOpening(ChainKinds, page.open), requests, waiting, Tail(toPage))
      /\ \A kind \in {"bind", "embedding", "remove"} : Under({kind})' <=> Under({kind})
  BY LocksOpened DEF ModelsShown, ChainKinds
<1>2. m.kind \in {"refresh", "models"} /\ m.ok \in BOOLEAN
  BY <1>1, FieldsOfCalls DEF ModelsShown
<1>3. page'.embeddingSaving = page.embeddingSaving /\ page'.removing = page.removing
  BY DEF ModelsShown, ConnTypes, Pages
<1>4. m.of = wizard.provider /\ wizard.step = "model"
  <2>1. toPage \in Seq(Calls) /\ toPage # <<>>
    BY Receives DEF ConnTypes
  <2>2. m \notin NotFor(wizard, page.open)
    BY <2>1, Taken DEF Steps, NoneAstray
  <2> QED
    BY <1>1, <1>2, <2>2 DEF NotFor
<1>5. GoesOn(m) <=> m.ok /\ m.kind = "refresh"
  BY <1>2 DEF GoesOn
<1>6. CASE m.ok /\ m.kind = "refresh"
  <2>1. wizard' = wizard
    BY <1>6 DEF ModelsShown
  <2>2. Locks'
    BY <1>1, <1>3, <1>5, <1>6, <2>1 DEF Locks
  <2>3. \A n : CallAfter(n, m) => n \notin NotFor(wizard', page.open)
    BY <1>4, <2>1 DEF CallAfter, NotFor
  <2>4. NoneAstray'
    BY <1>1, <2>3, NoneAstrayByReceiving
  <2> QED
    BY <1>1, <1>3, <2>1, <2>2, <2>4, StepsWithChain DEF LocksKept
<1>7. CASE ~(m.ok /\ m.kind = "refresh")
  <2> DEFINE x == IF m.of \in m.listed THEN m.of ELSE None
  <2>1. \/ wizard' = [wizard EXCEPT !.connecting = FALSE]
        \/ wizard' = [wizard EXCEPT !.connecting = FALSE, !.selected = x]
    BY <1>7 DEF ModelsShown
  <2>2. x = None \/ x = wizard.provider
    BY <1>4
  <2> HIDE DEF x
  <2>3. /\ wizard'.connecting = FALSE /\ wizard'.saving = wizard.saving /\ wizard'.step = wizard.step
        /\ wizard'.selected = wizard.selected \/ wizard'.selected = x
        /\ wizard'.provider = wizard.provider
    BY <2>1 DEF ConnTypes, Wizards
  <2>4. Locks'
    BY <1>1, <1>3, <1>5, <1>7, <2>3 DEF Locks
  <2>5. NoneAstray'
    BY <1>1, <1>5, <1>7, NoneAstrayByReceiving
  <2>6. StepsOf(wizard')
    BY <1>1, <1>4, <2>2, <2>3 DEF StepsOf, Steps
  <2> QED
    BY <1>1, <1>3, <2>4, <2>5, <2>6 DEF LocksKept, Steps
<1> QED
  BY <1>6, <1>7

LEMMA LocksBySaved ==
    ASSUME ConnTypes, AllIssued, Locks, Steps, Receive,
           NEW m, m = Head(toPage), m.open = page.open, Saved(m)
    PROVE  LocksKept
<1>1. m.kind \in {"embedding", "bind"} /\ m.kind \notin ChainKinds /\ ~GoesOn(m)
  BY DEF Saved, ChainKinds, GoesOn
<1>2. /\ OneOfEach' /\ EmbeddingFirst' /\ m \in Calls
      /\ Under(ChainKinds)' <=> Under(ChainKinds)
      /\ \A kind \in {"bind", "embedding", "remove"} :
            /\ m.kind = kind => Under({kind}) /\ ~Under({kind})'
            /\ m.kind # kind => (Under({kind})' <=> Under({kind}))
  BY <1>1, LocksOpened
<1>3. PICK e : e = (page.embeddingSaving /\ m.kind # "embedding")
  OBVIOUS
<1>4. PICK v : v = (wizard.saving /\ m.kind # "bind")
  OBVIOUS
<1>5. \/ page' = [page EXCEPT !.bindings = m.bindings, !.embeddingSaving = e]
      \/ page' = [page EXCEPT !.embeddingSaving = e]
  BY <1>3 DEF Saved
<1>6. page'.embeddingSaving = e /\ page'.removing = page.removing
  BY <1>5 DEF ConnTypes, Pages
<1>7. page'.embeddingSaving <=> page.embeddingSaving /\ m.kind # "embedding"
  BY <1>3, <1>6
<1>8. CASE m.ok /\ m.kind = "bind"
  <2>1. wizard' = ListStep
    BY <1>8 DEF Saved
  <2>2. ~wizard.connecting
    BY <1>2, <1>8 DEF Locks, Steps, StepsOf
  <2>3. wizard'.connecting = FALSE /\ wizard'.saving = FALSE /\ wizard'.selected = None
        /\ wizard'.step = "list"
    BY <2>1, ListSteps
  <2>4. Locks'
    BY <1>2, <1>6, <1>7, <1>8, <2>2, <2>3 DEF Locks
  <2>5. toPage \in Seq(Calls) /\ toPage # <<>>
    BY Receives DEF ConnTypes
  <2>6. ~OnWay(OfOpening(ChainKinds, page.open), requests, waiting, toPage)
    BY <2>2 DEF Locks, Under
  <2>7. ~OnWay(OfOpening(ChainKinds, page.open), requests, waiting, Tail(toPage))
    BY <2>5, <2>6, Taken
  <2>8. NoneAstray'
    BY <1>1, <2>7, NoneAstrayByReceiving
  <2>9. StepsOf(wizard')
    BY <2>3 DEF StepsOf
  <2> QED
    BY <1>2, <2>3, <2>4, <2>8, <2>9 DEF LocksKept, Steps
<1>9. CASE ~(m.ok /\ m.kind = "bind")
  <2>1. wizard' = wizard \/ wizard' = [wizard EXCEPT !.saving = v]
    BY <1>4, <1>9 DEF Saved
  <2>2. /\ wizard'.connecting = wizard.connecting /\ wizard'.step = wizard.step
        /\ wizard'.selected = wizard.selected /\ wizard'.provider = wizard.provider
    BY <2>1 DEF ConnTypes, Wizards
  <2>3. wizard'.saving <=> wizard.saving /\ m.kind # "bind"
    <3>1. CASE m.ok
      <4>1. wizard' = wizard /\ m.kind # "bind"
        BY <1>1, <1>9, <3>1 DEF Saved
      <4> QED
        BY <4>1
    <3>2. CASE ~m.ok
      <4>1. wizard' = [wizard EXCEPT !.saving = v]
        BY <1>4, <3>2 DEF Saved
      <4>2. wizard'.saving = v
        BY <4>1 DEF ConnTypes, Wizards
      <4> QED
        BY <1>4, <4>2
    <3> QED
      BY <3>1, <3>2
  <2>4. Locks'
    BY <1>1, <1>2, <1>6, <1>7, <2>2, <2>3 DEF Locks
  <2>5. NotFor(wizard', page.open) = NotFor(wizard, page.open)
    BY <2>2 DEF NotFor
  <2>6. NoneAstray'
    <3>1. requests' = requests /\ toPage' = Tail(toPage) /\ waiting' = waiting /\ toPage # <<>>
          /\ toPage \in Seq(Calls) /\ page'.open = page.open
      BY <1>1, Receives, ReceiveShows DEF SameTags, ConnTypes
    <3>2. ~OnWay(NotFor(wizard, page.open), requests, waiting, Tail(toPage))
      BY <3>1, Taken DEF Steps, NoneAstray
    <3> QED
      BY <2>5, <3>1, <3>2 DEF NoneAstray
  <2>7. StepsOf(wizard')
    BY <2>2, <2>3 DEF StepsOf, Steps
  <2> QED
    BY <1>2, <1>7, <2>2, <2>4, <2>6, <2>7 DEF LocksKept, Steps
<1> QED
  BY <1>8, <1>9

LEMMA LocksByRemoved ==
    ASSUME ConnTypes, AllIssued, Locks, Steps, Receive,
           NEW m, m = Head(toPage), m.open = page.open, Removed(m)
    PROVE  LocksKept
<1>1. m.kind = "remove" /\ m.kind \notin ChainKinds /\ ~GoesOn(m)
  BY DEF Removed, ChainKinds, GoesOn
<1>2. /\ OneOfEach' /\ EmbeddingFirst' /\ m \in Calls
      /\ Under(ChainKinds)' <=> Under(ChainKinds)
      /\ \A kind \in {"bind", "embedding", "remove"} :
            /\ m.kind = kind => Under({kind}) /\ ~Under({kind})'
            /\ m.kind # kind => (Under({kind})' <=> Under({kind}))
  BY <1>1, LocksOpened
<1>3. wizard' = wizard
  BY DEF Removed
<1>4. \/ page' = [page EXCEPT !.services = @ \ {m.of}, !.confirm = None, !.removing = None]
      \/ page' = [page EXCEPT !.removing = None]
  BY DEF Removed
<1>5. page'.embeddingSaving = page.embeddingSaving /\ page'.removing = None
  BY <1>4 DEF ConnTypes, Pages
<1>6. Locks'
  BY <1>1, <1>2, <1>3, <1>5 DEF Locks
<1>7. NoneAstray'
  BY <1>1, <1>3, NoneAstrayByReceiving DEF Steps
<1> QED
  BY <1>2, <1>3, <1>5, <1>6, <1>7, StepsWithChain DEF LocksKept

LEMMA LocksByReceiving ==
    ASSUME ConnTypes, AllIssued, Locks, Steps, Receive
    PROVE  LocksKept
<1>1. PICK m : m = Head(toPage)
  OBVIOUS
<1>2. \/ m.open = page.open /\ (ListShown(m) \/ BindingsShown(m) \/ Connected(m) \/ ModelsShown(m)
                        \/ Saved(m) \/ Removed(m))
      \/ m.open # page.open /\ UNCHANGED <<page, wizard>>
  BY <1>1 DEF Receive, Here
<1>3. CASE m.open # page.open /\ UNCHANGED <<page, wizard>>
  BY <1>1, <1>3, LocksByOther
<1>4. CASE ListShown(m) \/ BindingsShown(m)
  <2>1. m.kind \in {"list", "load"} /\ wizard' = wizard
    BY <1>4 DEF ListShown, BindingsShown
  <2>2. \/ page' = page
        \/ page' = [page EXCEPT !.services = m.listed]
        \/ page' = [page EXCEPT !.catalog = m.listed, !.bindings = m.bindings,
                                !.embedding = m.bindings.embedding]
    BY <1>4 DEF ListShown, BindingsShown
  <2>3. page'.embeddingSaving = page.embeddingSaving /\ page'.removing = page.removing
    BY <2>2 DEF ConnTypes, Pages
  <2> QED
    BY <1>1, <2>1, <2>3, LocksByOther
<1> QED
  BY <1>1, <1>2, <1>3, <1>4, LocksByConnected, LocksByModelsShown, LocksBySaved, LocksByRemoved

LEMMA LocksStay ==
    ASSUME NamesApart, ConnTypes, AllIssued, Locks, Steps, [ConnNext]_connVars
    PROVE  Locks' /\ Steps'
<1>1. CASE UNCHANGED connVars
  BY <1>1, LocksByQuiet DEF connVars, LocksKept
<1>2. CASE OpenPage
  BY <1>2, LocksByOpening DEF LocksKept
<1>3. ASSUME NEW v \in Workspaces \cup {None}, Choose(v) PROVE LocksKept
  BY <1>3, LocksByChoosing
<1>4. ASSUME NEW p \in Providers \cup {None}, ChooseEmbedding(p) PROVE LocksKept
  <2>1. page' = [page EXCEPT !.embedding = p] /\ UNCHANGED <<requests, waiting, toPage, wizard>>
    BY <1>4 DEF ChooseEmbedding, mainVars
  <2>2. page'.open = page.open /\ page'.embeddingSaving = page.embeddingSaving
        /\ page'.removing = page.removing
    BY <2>1 DEF ConnTypes, Pages
  <2> QED
    BY <2>1, <2>2, LocksByQuiet
<1>5. CASE KeepConnection
  <2>1. page' = [page EXCEPT !.confirm = None] /\ UNCHANGED <<requests, waiting, toPage, wizard>>
    BY <1>5 DEF KeepConnection, mainVars
  <2>2. page'.open = page.open /\ page'.embeddingSaving = page.embeddingSaving
        /\ page'.removing = page.removing
    BY <2>1 DEF ConnTypes, Pages
  <2> QED
    BY <2>1, <2>2, LocksByQuiet DEF LocksKept
<1>6. ASSUME NEW p \in Providers, OpenModels(p) PROVE LocksKept
  BY <1>6, LocksByModels
<1>7. ASSUME NEW p \in Providers, Remove(p) PROVE LocksKept
  BY <1>7, LocksByRemoving
<1>8. CASE SaveEmbedding \/ UseModel
  BY <1>8, LocksBySavingEmbedding, LocksByUsing DEF LocksKept
<1>9. CASE PickService \/ Connect \/ Back
  BY <1>9, LocksByPicking, LocksByConnecting, LocksByBack DEF LocksKept
<1>10. CASE Handle
  BY <1>10, LocksByHandling DEF LocksKept
<1>11. CASE Receive
  BY <1>11, LocksByReceiving DEF LocksKept
<1>12. ASSUME NEW c \in waiting, Ends(c) PROVE LocksKept
  BY <1>12, LocksByEnding
<1> QED
  BY <1>1, <1>2, <1>3, <1>4, <1>5, <1>6, <1>7, <1>8, <1>9, <1>10, <1>11, <1>12
     DEF ConnNext, LocksKept

-----------------------------------------------------------------------------
(* The page and the handlers it calls. *)
ConnSpec == ConnInit /\ [][ConnNext]_connVars
LocksInv == ConnTypes /\ AllIssued /\ Locks /\ Steps

LEMMA FirstRows ==
    ASSUME NamesApart
    PROVE  \A f \in [Workspaces -> {NoBindings}] \cup
                    {[w \in Workspaces |-> Bindings(w, FirstProvider, FirstProvider)]} :
               f \in [Workspaces -> BindingRows] /\ \A w \in Workspaces : f[w] \in OfWorkspace(w)
<1>1. NoBindings \in BindingRows /\ FirstProvider \in Named
  BY DEF BindingRows, NamesApart, Named
<1>2. \A w \in Workspaces : /\ Bindings(w, FirstProvider, FirstProvider) \in OfWorkspace(w)
                            /\ NoBindings \in OfWorkspace(w) /\ OfWorkspace(w) \subseteq BindingRows
  BY <1>1, RowsOfWorkspaces
<1> QED
  BY <1>1, <1>2

LEMMA NothingOnWay ==
    ASSUME NEW M
    PROVE  /\ ~InLine(M, <<>>) /\ ~OnWay(M, <<>>, {}, <<>>) /\ AtMostOne(M, <<>>, {}, <<>>)
           /\ \A B : Ahead(M, B, <<>>, {}, <<>>)
BY DEF InLine, OnWay, OneInLine, AtMostOne, Ahead

LEMMA LocksAtFirst ==
    ASSUME NamesApart, ConnInit
    PROVE  LocksInv
<1>1. PICK w \in Workspaces \cup {None} : page = NewPage(w, 0)
  BY DEF ConnInit
<1>2. /\ page \in Pages /\ page.open = 0 /\ page.embeddingSaving = FALSE /\ page.removing = None
      /\ page.catalog = {} /\ page.services = {} /\ page.bindings = NoBindings
  <2>1. NewPage(w, 0) \in Pages /\ NewPage(w, 0).open = 0 /\ NewPage(w, 0).embeddingSaving = FALSE
        /\ NewPage(w, 0).removing = None /\ NewPage(w, 0).catalog = {}
        /\ NewPage(w, 0).services = {} /\ NewPage(w, 0).bindings = NoBindings
    <3>1. NoBindings \in BindingRows /\ None \in Named
      BY DEF BindingRows, Named
    <3> QED
      BY <3>1 DEF NewPage, Pages
  <2> QED
    BY <1>1, <2>1
<1>3. /\ requests = <<>> /\ waiting = {} /\ toPage = <<>> /\ wizard = ListStep
      /\ connections = {FirstProvider} /\ available = {FirstProvider} /\ astray = {}
      /\ spent = [saves |-> 0, faults |-> 0, made |-> {FirstProvider}]
  BY DEF ConnInit
<1>4. stored \in [Workspaces -> BindingRows] /\ \A v \in Workspaces : stored[v] \in OfWorkspace(v)
  BY FirstRows DEF ConnInit
<1>5. wizard \in Wizards /\ wizard.step = "list" /\ wizard.selected = None
      /\ wizard.connecting = FALSE /\ wizard.saving = FALSE
  BY <1>3, ListSteps
<1>6. ConnTypes
  <2>1. requests \in Seq(Calls) /\ toPage \in Seq(Calls) /\ waiting \in SUBSET Calls
    BY <1>3
  <2>2. connections \in SUBSET Providers /\ available \in SUBSET Providers
        /\ spent \in [saves : Nat, faults : Nat, made : SUBSET Providers]
        /\ astray \in SUBSET {"services", "bindings"}
    BY <1>3 DEF NamesApart
  <2> QED
    BY <1>2, <1>4, <1>5, <2>1, <2>2 DEF ConnTypes
<1>7. AllIssued
  BY <1>3, NothingOnWay DEF AllIssued
<1>8. Locks
  BY <1>2, <1>3, <1>5, NothingOnWay DEF Locks, OneOfEach, Under
<1>9. Steps
  BY <1>2, <1>3, <1>5, NothingOnWay DEF Steps, StepsOf, NoneAstray, EmbeddingFirst
<1> QED
  BY <1>6, <1>7, <1>8, <1>9 DEF LocksInv

LEMMA UnderIsUnderWay ==
    ASSUME ConnTypes, NEW K
    PROVE  Under(K) <=> UnderWay(K)
<1>1. \A m \in Calls : m \in OfOpening(K, page.open) <=> m.kind \in K /\ m.open = page.open
  BY DEF OfOpening
<1>2. /\ \A i \in DOMAIN requests : requests[i] \in Calls
      /\ \A i \in DOMAIN toPage : toPage[i] \in Calls
      /\ \A m \in waiting : m \in Calls
  BY DEF ConnTypes
<1>3. InLine(OfOpening(K, page.open), requests) <=>
          \E i \in DOMAIN requests : requests[i].kind \in K /\ requests[i].open = page.open
  BY <1>1, <1>2 DEF InLine
<1>4. InLine(OfOpening(K, page.open), toPage) <=>
          \E i \in DOMAIN toPage : toPage[i].kind \in K /\ toPage[i].open = page.open
  BY <1>1, <1>2 DEF InLine
<1>5. (\E m \in waiting : m \in OfOpening(K, page.open)) <=>
          \E m \in waiting : m.kind \in K /\ m.open = page.open
  BY <1>1, <1>2
<1> QED
  BY <1>3, <1>4, <1>5 DEF Under, OnWay, UnderWay, Here

LEMMA LocksTell ==
    ASSUME LocksInv
    PROVE  LocksHaveCalls
<1>1. wizard.connecting \in BOOLEAN /\ wizard.saving \in BOOLEAN /\ page.embeddingSaving \in BOOLEAN
  BY DEF LocksInv, ConnTypes, Pages, Wizards
<1>2. \A K : UnderWay(K) \in BOOLEAN
  BY DEF UnderWay
<1>3. \A K : Under(K) <=> UnderWay(K)
  BY UnderIsUnderWay DEF LocksInv
<1>4. /\ wizard.connecting <=> UnderWay(ChainKinds)
      /\ wizard.saving <=> UnderWay({"bind"})
      /\ page.embeddingSaving <=> UnderWay({"embedding"})
      /\ page.removing # None <=> UnderWay({"remove"})
  BY <1>3 DEF LocksInv, Locks
<1>5. ChainKinds = {"create", "refresh", "models"}
  BY DEF ChainKinds
<1>6. \A a, b \in BOOLEAN : (a <=> b) => a = b
  OBVIOUS
<1>7. wizard.connecting = UnderWay({"create", "refresh", "models"})
  BY <1>1, <1>2, <1>4, <1>5, <1>6
<1>8. wizard.saving = UnderWay({"bind"}) /\ page.embeddingSaving = UnderWay({"embedding"})
  BY <1>1, <1>2, <1>4, <1>6
<1>9. (page.removing # None) = UnderWay({"remove"})
  BY <1>2, <1>4, <1>6
<1> QED
  BY <1>7, <1>8, <1>9 DEF LocksHaveCalls

(* A control of the page is locked exactly while its call is under way in this      *)
(* opening (connecting, saving, embeddingSaving, removing): whatever is refused or     *)
(* overtaken, no button stays disabled and no call is made twice.                 *)
THEOREM LocksEnd ==
    ASSUME NamesApart
    PROVE  ConnSpec => [](LocksHaveCalls /\ OneOfEach)
<1>1. ConnInit => LocksInv
  BY LocksAtFirst
<1>2. LocksInv /\ [ConnNext]_connVars => LocksInv'
  BY ConnTypesStay, LocksStay DEF LocksInv
<1>3. LocksInv => LocksHaveCalls /\ OneOfEach
  BY LocksTell DEF LocksInv, Locks
<1> QED
  BY <1>1, <1>2, <1>3, PTL DEF ConnSpec

-----------------------------------------------------------------------------
(* The bindings: what follows in a line when it moves. *)
LEMMA FollowedLeft ==
    ASSUME NEW t \in Seq(Calls), t # <<>>, NEW A, NEW X, NEW B, Followed(A, X, B, t)
    PROVE  /\ Followed(A, X, B, Tail(t))
           /\ Head(t) \in A => Head(t) \in X \/ InLine(B, Tail(t))
<1>1. /\ 1 \in DOMAIN t /\ Head(t) = t[1] /\ DOMAIN t = 1 .. Len(t) /\ Len(t) \in Nat
      /\ \A i \in DOMAIN Tail(t) : i + 1 \in DOMAIN t /\ Tail(t)[i] = t[i + 1] /\ i \in Nat
      /\ \A i \in DOMAIN t : i # 1 => i - 1 \in DOMAIN Tail(t) /\ Tail(t)[i - 1] = t[i]
  BY LeftLine
<1>2. ASSUME NEW i \in DOMAIN Tail(t), Tail(t)[i] \in A, Tail(t)[i] \notin X
      PROVE  \E j \in DOMAIN Tail(t) : i < j /\ Tail(t)[j] \in B
  <2>1. i + 1 \in DOMAIN t /\ t[i + 1] \in A /\ t[i + 1] \notin X /\ i \in Nat
    BY <1>1, <1>2
  <2>2. PICK j \in DOMAIN t : i + 1 < j /\ t[j] \in B
    BY <2>1 DEF Followed
  <2>3. j # 1 /\ i < j - 1
    BY <1>1, <2>1, <2>2
  <2> QED
    BY <1>1, <2>2, <2>3
<1>3. ASSUME Head(t) \in A, Head(t) \notin X PROVE InLine(B, Tail(t))
  <2>1. PICK j \in DOMAIN t : 1 < j /\ t[j] \in B
    BY <1>1, <1>3 DEF Followed
  <2>2. j # 1
    BY <1>1, <2>1
  <2> QED
    BY <1>1, <2>1, <2>2 DEF InLine
<1> QED
  BY <1>2, <1>3 DEF Followed

LEMMA FollowedJoined ==
    ASSUME NEW t \in Seq(Calls), NEW n \in Calls, NEW A, NEW X, NEW B
    PROVE  /\ Followed(A, X, B, t) /\ (n \in A => n \in X) => Followed(A, X, B, Append(t, n))
           /\ n \in B /\ (n \in A => n \in X) => Followed(A, X, B, Append(t, n))
           /\ ~InLine(A, t) /\ (n \in A => n \in X) => Followed(A, X, B, Append(t, n))
<1>1. \A i \in DOMAIN Append(t, n) : i \in DOMAIN t \/ i = Len(t) + 1
  BY JoinedLine
<1>2. \A i \in DOMAIN t : i < Len(t) + 1
  BY JoinedLine
<1>3. Followed(A, X, B, t) /\ (n \in A => n \in X) => Followed(A, X, B, Append(t, n))
  BY <1>1, JoinedLine DEF Followed
<1>4. n \in B /\ (n \in A => n \in X) => Followed(A, X, B, Append(t, n))
  BY <1>1, <1>2, JoinedLine DEF Followed
<1>5. ~InLine(A, t) /\ (n \in A => n \in X) => Followed(A, X, B, Append(t, n))
  BY <1>1, JoinedLine DEF Followed, InLine
<1> QED
  BY <1>3, <1>4, <1>5

LEMMA NoLaterLeft ==
    ASSUME NEW r \in Seq(Calls), r # <<>>, NEW A, NEW B, NoLater(A, B, r)
    PROVE  /\ NoLater(A, B, Tail(r))
           /\ Head(r) \in B => ~InLine(A, Tail(r))
<1>1. /\ 1 \in DOMAIN r /\ Head(r) = r[1]
      /\ \A i \in DOMAIN Tail(r) : i + 1 \in DOMAIN r /\ Tail(r)[i] = r[i + 1] /\ i \in Nat /\ i # 0
  BY LeftLine
<1>2. NoLater(A, B, Tail(r))
  <2> SUFFICES ASSUME NEW i \in DOMAIN Tail(r), NEW j \in DOMAIN Tail(r),
                      Tail(r)[i] \in A, Tail(r)[j] \in B
               PROVE  i <= j
    BY DEF NoLater
  <2>1. i + 1 <= j + 1
    BY <1>1 DEF NoLater
  <2> QED
    BY <1>1, <2>1
<1>3. ASSUME Head(r) \in B, NEW i \in DOMAIN Tail(r), Tail(r)[i] \in A PROVE FALSE
  <2>1. i + 1 <= 1
    BY <1>1, <1>3 DEF NoLater
  <2> QED
    BY <1>1, <2>1
<1> QED
  BY <1>2, <1>3 DEF InLine

LEMMA NoLaterJoined ==
    ASSUME NEW r \in Seq(Calls), NEW n \in Calls, NEW A, NEW B, NoLater(A, B, r),
           n \in A => ~InLine(B, r)
    PROVE  NoLater(A, B, Append(r, n))
<1>1. \A i \in DOMAIN Append(r, n) : i \in DOMAIN r \/ i = Len(r) + 1
  BY JoinedLine
<1>2. /\ \A i \in DOMAIN r : i <= Len(r) + 1 /\ i \in Nat
      /\ Len(r) + 1 <= Len(r) + 1
  BY JoinedLine
<1> QED
  BY <1>1, <1>2, JoinedLine DEF NoLater, InLine

-----------------------------------------------------------------------------
(* The bindings when nothing moves, ... *)
ShownAlike ==
    /\ SameTags /\ page'.bindings = page.bindings /\ page'.catalog = page.catalog
    /\ wizard'.selected = wizard.selected \/ wizard'.selected = None
    /\ UNCHANGED <<stored, astray>>

LEMMA SetsStay ==
    ASSUME SameTags, UNCHANGED stored
    PROVE  /\ LoadsOf(page') = LoadsOf(page) /\ StaleSaves(page') = StaleSaves(page)
           /\ SavesNow' = SavesNow /\ OfBefore(SaveKinds, page'.open) = OfBefore(SaveKinds, page.open)
           /\ OfOpening(ChainKinds, page'.open) = OfOpening(ChainKinds, page.open)
           /\ AsStored' = AsStored /\ Keeping' = Keeping
BY DEF SameTags, LoadsOf, StaleSaves, SavesNow, OfOpening, OfBefore, AsStored, Keeping

LEMMA BindingsByQuiet ==
    ASSUME BindingsInv, ShownAlike, UNCHANGED <<requests, waiting, toPage>>
    PROVE  BindingsInv'
<1>1. /\ LoadsOf(page') = LoadsOf(page) /\ StaleSaves(page') = StaleSaves(page)
      /\ SavesNow' = SavesNow /\ OfBefore(SaveKinds, page'.open) = OfBefore(SaveKinds, page.open)
      /\ OfOpening(ChainKinds, page'.open) = OfOpening(ChainKinds, page.open)
      /\ AsStored' = AsStored /\ Keeping' = Keeping
  BY SetsStay DEF ShownAlike
<1>2. Loading' <=> Loading
  BY <1>1 DEF Loading
<1>3. OneLoad' /\ LoadFirst' /\ OldSavesFirst'
  BY <1>1 DEF BindingsInv, ShownAlike, OneLoad, LoadFirst, OldSavesFirst
<1>4. NothingChosen'
  BY <1>2 DEF BindingsInv, ShownAlike, NothingChosen
<1>5. LoadBehind'
  BY <1>1 DEF BindingsInv, ShownAlike, SameTags, LoadBehind
<1>6. PageFollows'
  BY <1>1, <1>2 DEF BindingsInv, ShownAlike, SameTags, PageFollows
<1>7. SavesStored' /\ LoadsFollow'
  BY <1>1 DEF BindingsInv, SavesStored, LoadsFollow
<1>8. SeenKeep' /\ SeenFirst'
  BY <1>1 DEF BindingsInv, SeenKeep, SeenFirst, Seen, Saves
<1> QED
  BY <1>3, <1>4, <1>5, <1>6, <1>7, <1>8 DEF BindingsInv

(* ... when the page asks for something but bindings, ... *)
LEMMA BindingsByAsking ==
    ASSUME ConnTypes, BindingsInv, ShownAlike, UNCHANGED <<waiting, toPage>>,
           NEW n \in Calls, requests' = Append(requests, n), n.kind # "load",
           n \in Saves => n.open = page.open /\ n.effect = page.effect,
           n \in Seen => n \in Keeping /\ ~InLine(Saves, requests)
    PROVE  BindingsInv'
<1>1. /\ LoadsOf(page') = LoadsOf(page) /\ StaleSaves(page') = StaleSaves(page)
      /\ SavesNow' = SavesNow /\ OfBefore(SaveKinds, page'.open) = OfBefore(SaveKinds, page.open)
      /\ OfOpening(ChainKinds, page'.open) = OfOpening(ChainKinds, page.open)
      /\ AsStored' = AsStored /\ Keeping' = Keeping
  BY SetsStay DEF ShownAlike
<1>2. requests \in Seq(Calls) /\ page' .workspace = page.workspace /\ page'.open = page.open
  BY DEF ConnTypes, ShownAlike, SameTags
<1>3. /\ n \notin LoadsOf(page) /\ n \notin StaleSaves(page)
      /\ n \notin OfBefore(SaveKinds, page.open)
  BY DEF LoadsOf, StaleSaves, OfBefore, Saves
<1>4. OneLoad'
  BY <1>1, <1>2, <1>3, Asked DEF BindingsInv, OneLoad
<1>5. Loading' <=> Loading
  BY <1>1, <1>2, <1>3, Asked DEF Loading
<1>6. LoadFirst'
  <2>1. "bindings" \notin astray =>
           Ahead(LoadsOf(page), OfOpening(ChainKinds, page.open), Append(requests, n), waiting, toPage)
    BY <1>2, <1>3, AheadAsked DEF BindingsInv, LoadFirst
  <2> QED
    BY <1>1, <2>1 DEF LoadFirst, ShownAlike
<1>7. NothingChosen'
  BY <1>5 DEF BindingsInv, ShownAlike, NothingChosen
<1>8. OldSavesFirst'
  <2>1. Ahead(OfBefore(SaveKinds, page.open), SavesNow, Append(requests, n), waiting, toPage)
    BY <1>2, <1>3, AheadAsked DEF BindingsInv, OldSavesFirst
  <2> QED
    BY <1>1, <2>1 DEF OldSavesFirst
<1>9. LoadBehind'
  <2>1. page.workspace # None => Followed(StaleSaves(page), {}, LoadsOf(page), Append(requests, n))
    BY <1>2, <1>3, FollowedJoined DEF BindingsInv, LoadBehind
  <2> QED
    BY <1>1, <1>2, <2>1 DEF LoadBehind
<1>10. PageFollows'
  BY <1>1, <1>2, <1>5 DEF BindingsInv, ShownAlike, PageFollows
<1>11. SavesStored' /\ LoadsFollow'
  BY <1>1 DEF BindingsInv, SavesStored, LoadsFollow
<1>12. SeenKeep'
  <2>1. Followed(Seen, Keeping, {}, Append(requests, n))
    BY <1>2, FollowedJoined DEF BindingsInv, SeenKeep
  <2> QED
    BY <1>1, <2>1 DEF SeenKeep, Seen, Saves
<1>13. SeenFirst'
  <2>1. NoLater(Seen, Saves, Append(requests, n))
    BY <1>2, NoLaterJoined DEF BindingsInv, SeenFirst
  <2> QED
    BY <2>1 DEF SeenFirst, Seen, Saves
<1> QED
  BY <1>4, <1>6, <1>7, <1>8, <1>9, <1>10, <1>11, <1>12, <1>13 DEF BindingsInv

-----------------------------------------------------------------------------
(* ... when main takes a call, ... *)
LEMMA OrderByHandling ==
    ASSUME ConnTypes, AllIssued, BindingsInv, Handle
    PROVE  /\ OneLoad' /\ LoadFirst' /\ NothingChosen' /\ OldSavesFirst' /\ LoadBehind' /\ SeenFirst'
           /\ Loading' <=> Loading
<1>1. requests \in Seq(Calls) /\ toPage \in Seq(Calls) /\ waiting \in SUBSET Calls
  BY DEF ConnTypes
<1>2. /\ requests # <<>> /\ Head(requests) \in Calls /\ requests' = Tail(requests)
      /\ page' = page /\ wizard' = wizard /\ astray' = astray
      /\ HandedOnCall \/ \E n : AnsweredCall(n)
  BY Handles
<1> DEFINE L == LoadsOf(page)
           C == OfOpening(ChainKinds, page.open)
           O == OfBefore(SaveKinds, page.open)
           N == SavesNow
<1>3. /\ AtMostOne(L, requests, waiting, toPage)
      /\ "bindings" \notin astray => Ahead(L, C, requests, waiting, toPage)
      /\ Ahead(O, N, requests, waiting, toPage)
  BY DEF BindingsInv, OneLoad, LoadFirst, OldSavesFirst
<1>4. L' = L /\ C' = C /\ O' = O /\ N' = N
  BY <1>2 DEF SavesNow
<1>5. /\ AtMostOne(L, requests', waiting', toPage')
      /\ "bindings" \notin astray => Ahead(L, C, requests', waiting', toPage')
      /\ Ahead(O, N, requests', waiting', toPage')
      /\ OnWay(L, requests', waiting', toPage') <=> OnWay(L, requests, waiting, toPage)
  <2>1. CASE HandedOnCall
    <3>1. waiting' = waiting \cup {Head(requests)} /\ toPage' = toPage
          /\ Head(requests).kind \in WaitKinds
      BY <2>1 DEF HandedOnCall
    <3>2. Head(requests) \notin L /\ Head(requests) \notin O
      BY <3>1 DEF LoadsOf, OfBefore, WaitKinds, SaveKinds
    <3> HIDE DEF L, C, O, N
    <3> QED
      BY <1>1, <1>2, <1>3, <3>1, <3>2, HandedOn, AheadHandedOn
  <2>2. CASE \E n : AnsweredCall(n)
    <3>1. PICK n : AnsweredCall(n)
      BY <2>2
    <3>2. n \in Calls /\ Like(n, Head(requests)) /\ toPage' = Append(toPage, n) /\ waiting' = waiting
      BY <3>1 DEF AnsweredCall
    <3>3. /\ n \in L <=> Head(requests) \in L
          /\ n \in C <=> Head(requests) \in C
          /\ n \in O <=> Head(requests) \in O
          /\ n \in N <=> Head(requests) \in N
      BY <1>2, <3>2, RepliesAlike DEF SavesNow
    <3> HIDE DEF L, C, O, N
    <3> QED
      BY <1>1, <1>2, <1>3, <3>2, <3>3, Answered, AheadAnswered
  <2> QED
    BY <1>2, <2>1, <2>2
<1>6. OneLoad' /\ LoadFirst' /\ OldSavesFirst' /\ (Loading' <=> Loading)
  BY <1>2, <1>4, <1>5 DEF OneLoad, LoadFirst, OldSavesFirst, Loading
<1>7. NothingChosen'
  BY <1>2, <1>6 DEF BindingsInv, NothingChosen
<1>8. LoadBehind'
  <2>1. page.workspace # None => Followed(StaleSaves(page), {}, LoadsOf(page), Tail(requests))
    BY <1>1, <1>2, FollowedLeft DEF BindingsInv, LoadBehind
  <2> QED
    BY <1>2, <2>1 DEF LoadBehind
<1>9. SeenFirst'
  <2>1. NoLater(Seen, Saves, Tail(requests))
    BY <1>1, <1>2, NoLaterLeft DEF BindingsInv, SeenFirst
  <2> QED
    BY <1>2, <2>1 DEF SeenFirst, Seen, Saves
<1> QED
  BY <1>6, <1>7, <1>8, <1>9

(* A call that stores nothing. *)
LEMMA BindingsByReading ==
    ASSUME ConnTypes, AllIssued, BindingsInv, Handle, stored' = stored,
           NEW n \in Calls,
           \/ toPage' = toPage
           \/ /\ toPage' = Append(toPage, n) /\ n \notin Good(SavesNow)
              /\ n \in Good(LoadsOf(page)) => n \in AsStored
    PROVE  BindingsInv'
<1>1. requests \in Seq(Calls) /\ toPage \in Seq(Calls)
  BY DEF ConnTypes
<1>2. /\ requests # <<>> /\ Head(requests) \in Calls /\ requests' = Tail(requests)
      /\ page' = page /\ wizard' = wizard /\ astray' = astray
  BY Handles
<1>3. /\ OneLoad' /\ LoadFirst' /\ NothingChosen' /\ OldSavesFirst' /\ LoadBehind' /\ SeenFirst'
      /\ Loading' <=> Loading
  BY OrderByHandling
<1>4. LoadsOf(page') = LoadsOf(page) /\ SavesNow' = SavesNow /\ AsStored' = AsStored /\ Keeping' = Keeping
  BY <1>2 DEF SavesNow, AsStored, Keeping
<1>5. InLine(Good(SavesNow), toPage) => InLine(Good(SavesNow), toPage')
  <2>1. InLine(Good(SavesNow), toPage) => InLine(Good(SavesNow), Append(toPage, n))
    BY <1>1, JoinLine
  <2> QED
    BY <2>1
<1>6. PageFollows'
  BY <1>2, <1>3, <1>4, <1>5 DEF BindingsInv, PageFollows
<1>7. Followed(Good(SavesNow), AsStored, {}, toPage')
      /\ Followed(Good(LoadsOf(page)), AsStored, Good(SavesNow), toPage')
  BY <1>1, FollowedJoined DEF BindingsInv, SavesStored, LoadsFollow
<1>8. SavesStored' /\ LoadsFollow'
  BY <1>4, <1>7 DEF SavesStored, LoadsFollow
<1>9. Followed(Seen, Keeping, {}, Tail(requests))
  BY <1>1, <1>2, FollowedLeft DEF BindingsInv, SeenKeep
<1>10. SeenKeep'
  BY <1>2, <1>4, <1>9 DEF SeenKeep, Seen, Saves
<1> QED
  BY <1>3, <1>6, <1>8, <1>10 DEF BindingsInv

(* A save that reaches main: the row is replaced. *)
LEMMA BindingsByStoring ==
    ASSUME NamesApart, ConnTypes, AllIssued, Locks, BindingsInv, Handle,
           NEW n, n = Head(requests), n \in Saves, n.ok, toPage' = Append(toPage, n),
           stored' = [stored EXCEPT ![n.of] = n.bindings]
    PROVE  BindingsInv'
<1>1. requests \in Seq(Calls) /\ toPage \in Seq(Calls) /\ waiting \in SUBSET Calls
      /\ n \in Calls /\ n.of \in Workspaces
  BY FieldsOfCalls DEF ConnTypes, Saves
<1>2. /\ requests # <<>> /\ requests' = Tail(requests)
      /\ page' = page /\ wizard' = wizard /\ astray' = astray
  BY Handles
<1>3. /\ OneLoad' /\ LoadFirst' /\ NothingChosen' /\ OldSavesFirst' /\ LoadBehind' /\ SeenFirst'
      /\ Loading' <=> Loading
  BY OrderByHandling
<1>4. LoadsOf(page') = LoadsOf(page) /\ SavesNow' = SavesNow
  BY <1>2 DEF SavesNow
<1>5. stored'[n.of] = n.bindings
  BY <1>1 DEF ConnTypes
<1>6. n \in AsStored'
  BY <1>1, <1>5 DEF AsStored, Saves
<1>7. ~InLine(Seen, Tail(requests))
  BY <1>1, <1>2, NoLaterLeft DEF BindingsInv, SeenFirst
<1>8. SeenKeep'
  BY <1>2, <1>7 DEF SeenKeep, Followed, InLine, Seen, Saves
<1>9. n \notin LoadsOf(page)
  BY DEF LoadsOf, Saves, SaveKinds
<1>10. /\ ~InLine(SavesNow, toPage)
       /\ n \in SavesNow \/ n \in OfBefore(SaveKinds, page.open)
  <2>1. n \in SavesNow \/ n \in OfBefore(SaveKinds, page.open)
    BY DEF Saves, SavesNow, OfOpening, OfBefore
  <2>2. InLine(SavesNow, requests) \/ InLine(OfBefore(SaveKinds, page.open), requests)
    BY <1>1, <1>2, <2>1, LeaveLine
  <2>3. AtMostOne(SavesNow, requests, waiting, toPage)
    BY DEF Locks, OneOfEach, Groups, SavesNow
  <2>4. InLine(OfBefore(SaveKinds, page.open), requests) => ~InLine(SavesNow, toPage)
    BY DEF BindingsInv, OldSavesFirst, Ahead
  <2> QED
    BY <2>1, <2>2, <2>3, <2>4 DEF AtMostOne
<1>11. Followed(Good(SavesNow), AsStored', {}, Append(toPage, n))
  <2>1. ~InLine(Good(SavesNow), toPage)
    BY <1>10 DEF InLine, Good
  <2> QED
    BY <1>1, <1>6, <2>1, FollowedJoined
<1>12. SavesStored'
  BY <1>4, <1>11 DEF SavesStored
<1>13. CASE n \in SavesNow
  <2>1. n \in Good(SavesNow)
    BY <1>13 DEF Good
  <2>2. InLine(Good(SavesNow), Append(toPage, n))
    BY <1>1, <2>1, JoinLine
  <2>3. PageFollows'
    BY <1>4, <2>2 DEF PageFollows
  <2>4. n \notin Good(LoadsOf(page))
    BY <1>9 DEF Good
  <2>5. Followed(Good(LoadsOf(page)), AsStored', Good(SavesNow), Append(toPage, n))
    BY <1>1, <2>1, <2>4, FollowedJoined
  <2>6. LoadsFollow'
    BY <1>4, <2>5 DEF LoadsFollow
  <2> QED
    BY <1>3, <1>8, <1>12, <2>3, <2>6 DEF BindingsInv
<1>14. CASE n \in OfBefore(SaveKinds, page.open)
  <2>1. n \in StaleSaves(page)
    BY <1>14 DEF OfBefore, StaleSaves
  <2>2. page.workspace # None => InLine(LoadsOf(page), requests)
    <3>1. page.workspace # None => InLine(LoadsOf(page), Tail(requests))
      BY <1>1, <1>2, <2>1, FollowedLeft DEF BindingsInv, LoadBehind
    <3> QED
      BY <1>1, <1>2, <3>1, LeaveLine
  <2>3. page.workspace # None => Loading
    BY <2>2 DEF Loading, OnWay
  <2>4. PageFollows'
    BY <1>2, <1>3, <2>3 DEF PageFollows
  <2>5. ~InLine(LoadsOf(page), toPage)
    <3>1. CASE page.workspace # None
      BY <2>2, <3>1 DEF BindingsInv, OneLoad, AtMostOne
    <3>2. CASE page.workspace = None
      <4> SUFFICES ASSUME NEW i \in DOMAIN toPage, toPage[i] \in LoadsOf(page) PROVE FALSE
        BY DEF InLine
      <4>1. toPage[i] \notin Misplaced(page)
        BY DEF AllIssued, OnWay, InLine
      <4>2. toPage[i] \in Calls /\ toPage[i].of = None
        BY <3>2, <4>1 DEF LoadsOf, Misplaced, Issued
      <4>3. toPage[i].of \in Workspaces
        BY <4>2, FieldsOfCalls DEF LoadsOf
      <4> QED
        BY <4>2, <4>3 DEF NamesApart
    <3> QED
      BY <3>1, <3>2
  <2>6. Followed(Good(LoadsOf(page)), AsStored', Good(SavesNow), Append(toPage, n))
    <3>1. ~InLine(Good(LoadsOf(page)), toPage)
      BY <2>5 DEF InLine, Good
    <3> QED
      BY <1>1, <1>6, <3>1, FollowedJoined
  <2>7. LoadsFollow'
    BY <1>4, <2>6 DEF LoadsFollow
  <2> QED
    BY <1>3, <1>8, <1>12, <2>4, <2>7 DEF BindingsInv
<1> QED
  BY <1>10, <1>13, <1>14

LEMMA BindingsByHandling ==
    ASSUME NamesApart, ConnTypes, AllIssued, Locks, BindingsInv, Handle
    PROVE  BindingsInv'
<1>1. Head(requests) \in Calls /\ (HandedOnCall \/ \E n : AnsweredCall(n))
  BY Handles
<1>2. CASE HandedOnCall
  BY <1>1, <1>2, BindingsByReading DEF HandedOnCall
<1>3. ASSUME NEW n, AnsweredCall(n) PROVE BindingsInv'
  <2>1. n \in Calls /\ toPage' = Append(toPage, n) /\ Like(n, Head(requests))
    BY <1>3 DEF AnsweredCall
  <2>2. CASE ReadTells(n)
    <3>1. stored' = stored /\ n.kind \in {"list", "load", "models"}
          /\ (n.kind = "load" => n.bindings = stored[n.of])
      BY <2>2 DEF ReadTells
    <3>2. n \notin Good(SavesNow) /\ (n \in Good(LoadsOf(page)) => n \in AsStored)
      BY <2>1, <3>1 DEF Good, SavesNow, OfOpening, SaveKinds, LoadsOf, AsStored
    <3> QED
      BY <2>1, <3>1, <3>2, BindingsByReading
  <2>3. CASE /\ n = Head(requests) /\ n.ok /\ n.kind \in SaveKinds
             /\ stored' = [stored EXCEPT ![n.of] = n.bindings]
    <3>1. n \in Saves
      BY <2>1, <2>3 DEF Saves
    <3> QED
      BY <2>1, <2>3, <3>1, BindingsByStoring
  <2>4. CASE n.ok = FALSE /\ stored' = stored
    <3>1. n \notin Good(SavesNow) /\ n \notin Good(LoadsOf(page))
      BY <2>4 DEF Good
    <3> QED
      BY <2>1, <2>4, <3>1, BindingsByReading
  <2> QED
    BY <1>3, <2>2, <2>3, <2>4 DEF AnsweredCall
<1> QED
  BY <1>1, <1>2, <1>3

(* ... when a provider answers, ... *)
LEMMA BindingsByEnding ==
    ASSUME ConnTypes, AllIssued, BindingsInv, NEW c \in waiting, Ends(c)
    PROVE  BindingsInv'
<1>1. requests \in Seq(Calls) /\ toPage \in Seq(Calls) /\ c \in Calls /\ c.kind \in WaitKinds
  BY EndsCalls DEF ConnTypes
<1>2. PICK n : EndedCall(c, n)
  BY EndsCalls
<1>3. /\ n \in Calls /\ Like(n, c) /\ toPage' = Append(toPage, n) /\ waiting' = waiting \ {c}
      /\ UNCHANGED <<stored, requests, page, wizard, astray>>
  BY <1>2 DEF EndedCall
<1> DEFINE L == LoadsOf(page)
           C == OfOpening(ChainKinds, page.open)
           O == OfBefore(SaveKinds, page.open)
           N == SavesNow
<1>4. /\ L' = L /\ C' = C /\ O' = O /\ N' = N /\ StaleSaves(page') = StaleSaves(page)
      /\ AsStored' = AsStored /\ Keeping' = Keeping /\ Good(L)' = Good(L) /\ Good(N)' = Good(N)
  BY <1>3 DEF SavesNow, AsStored, Keeping
<1>5. n \notin L /\ c \notin L /\ n \notin O /\ c \notin O /\ n \notin N /\ c \notin N
      /\ (n \in C <=> c \in C) /\ n \notin Good(L) /\ n \notin Good(N)
  <2>1. n.kind \in WaitKinds
    BY <1>1, <1>3 DEF Like
  <2>2. n \in C <=> c \in C
    BY <1>1, <1>3, RepliesAlike
  <2> QED
    BY <1>1, <2>1, <2>2 DEF LoadsOf, OfBefore, SavesNow, OfOpening, WaitKinds, SaveKinds, Good
<1>6. /\ AtMostOne(L, requests, waiting, toPage)
      /\ "bindings" \notin astray => Ahead(L, C, requests, waiting, toPage)
      /\ Ahead(O, N, requests, waiting, toPage)
      /\ Followed(Good(N), AsStored, {}, toPage)
      /\ Followed(Good(L), AsStored, Good(N), toPage)
  BY DEF BindingsInv, OneLoad, LoadFirst, OldSavesFirst, SavesStored, LoadsFollow
<1> HIDE DEF L, C, O, N
<1>7. /\ AtMostOne(L, requests, waiting \ {c}, Append(toPage, n))
      /\ OnWay(L, requests, waiting \ {c}, Append(toPage, n)) <=> OnWay(L, requests, waiting, toPage)
  BY <1>1, <1>3, <1>5, <1>6, CallEnded
<1>8. /\ "bindings" \notin astray => Ahead(L, C, requests, waiting \ {c}, Append(toPage, n))
      /\ Ahead(O, N, requests, waiting \ {c}, Append(toPage, n))
  BY <1>1, <1>3, <1>5, <1>6, AheadEnded
<1>9. /\ Followed(Good(N), AsStored, {}, Append(toPage, n))
      /\ Followed(Good(L), AsStored, Good(N), Append(toPage, n))
      /\ InLine(Good(N), toPage) => InLine(Good(N), Append(toPage, n))
  BY <1>1, <1>3, <1>5, <1>6, FollowedJoined, JoinLine
<1>10. OneLoad' /\ LoadFirst' /\ OldSavesFirst' /\ (Loading' <=> Loading)
       /\ SavesStored' /\ LoadsFollow' /\ (InLine(Good(SavesNow), toPage) => InLine(Good(SavesNow), toPage)')
  BY <1>3, <1>4, <1>7, <1>8, <1>9
     DEF OneLoad, LoadFirst, OldSavesFirst, Loading, SavesStored, LoadsFollow, L, C, O, N
<1>11. NothingChosen' /\ LoadBehind' /\ PageFollows'
  BY <1>3, <1>4, <1>10 DEF BindingsInv, NothingChosen, LoadBehind, PageFollows, L
<1>12. SeenKeep' /\ SeenFirst'
  BY <1>3, <1>4 DEF BindingsInv, SeenKeep, SeenFirst, Seen, Saves
<1> QED
  BY <1>10, <1>11, <1>12 DEF BindingsInv

(* ... and when the page receives. *)
LEMMA OrderByReceiving ==
    ASSUME ConnTypes, AllIssued, BindingsInv, Receive, NEW m, m = Head(toPage)
    PROVE  /\ OneLoad' /\ OldSavesFirst' /\ LoadBehind' /\ SavesStored' /\ LoadsFollow'
           /\ SeenKeep' /\ SeenFirst'
           /\ Loading' <=> Loading /\ m \notin LoadsOf(page)
           /\ "bindings" \notin astray =>
                  /\ Ahead(LoadsOf(page), OfOpening(ChainKinds, page.open), requests', waiting', toPage')
                  /\ m \in OfOpening(ChainKinds, page.open) => ~Loading
           /\ m \in Good(SavesNow) => m \in AsStored
           /\ m \in Good(LoadsOf(page)) => m \in AsStored \/ InLine(Good(SavesNow), toPage')
           /\ InLine(Good(SavesNow), toPage) => m \in Good(SavesNow) \/ InLine(Good(SavesNow), toPage')
<1>1. requests \in Seq(Calls) /\ toPage \in Seq(Calls)
  BY DEF ConnTypes
<1>2. /\ toPage # <<>> /\ m \in Calls /\ toPage' = Tail(toPage) /\ waiting' = waiting
      /\ stored' = stored
      /\ \/ requests' = requests
         \/ \E n : CallAfter(n, m) /\ requests' = Append(requests, n)
  BY Receives
<1>3. SameTags
  BY ReceiveShows
<1>4. /\ LoadsOf(page') = LoadsOf(page) /\ StaleSaves(page') = StaleSaves(page)
      /\ SavesNow' = SavesNow /\ OfBefore(SaveKinds, page'.open) = OfBefore(SaveKinds, page.open)
      /\ AsStored' = AsStored /\ Keeping' = Keeping /\ page'.workspace = page.workspace
  BY <1>2, <1>3, SetsStay DEF SameTags
<1> DEFINE L == LoadsOf(page)
           C == OfOpening(ChainKinds, page.open)
           O == OfBefore(SaveKinds, page.open)
           N == SavesNow
<1>5. /\ AtMostOne(L, requests, waiting, toPage)
      /\ "bindings" \notin astray => Ahead(L, C, requests, waiting, toPage)
      /\ Ahead(O, N, requests, waiting, toPage)
      /\ Followed(Good(N), AsStored, {}, toPage)
      /\ Followed(Good(L), AsStored, Good(N), toPage)
      /\ page.workspace # None => Followed(StaleSaves(page), {}, L, requests)
      /\ Followed(Seen, Keeping, {}, requests) /\ NoLater(Seen, Saves, requests)
  BY DEF BindingsInv, OneLoad, LoadFirst, OldSavesFirst, SavesStored, LoadsFollow, LoadBehind,
         SeenKeep, SeenFirst
<1>6. \A n : CallAfter(n, m) =>
         n \in Calls /\ n \notin L /\ n \notin O /\ n \notin Saves /\ n \notin Seen
         /\ n \notin StaleSaves(page)
  BY DEF CallAfter, LoadsOf, OfBefore, Saves, SaveKinds, Seen, StaleSaves
<1> HIDE DEF L, C, O, N
<1>7. /\ AtMostOne(L, requests, waiting, Tail(toPage))
      /\ OnWay(L, requests, waiting, toPage) <=> OnWay(L, requests, waiting, Tail(toPage)) \/ m \in L
      /\ m \in L => ~OnWay(L, requests, waiting, Tail(toPage))
  BY <1>1, <1>2, <1>5, Taken
<1>8. /\ AtMostOne(L, requests', waiting, Tail(toPage))
      /\ OnWay(L, requests', waiting, Tail(toPage)) <=> OnWay(L, requests, waiting, Tail(toPage))
  <2>1. ASSUME NEW n, CallAfter(n, m), requests' = Append(requests, n)
        PROVE  /\ AtMostOne(L, Append(requests, n), waiting, Tail(toPage))
               /\ OnWay(L, Append(requests, n), waiting, Tail(toPage))
                     <=> OnWay(L, requests, waiting, Tail(toPage))
    BY <1>1, <1>6, <1>7, <2>1, Asked
  <2> QED
    BY <1>2, <1>7, <2>1
<1>9. /\ "bindings" \notin astray => Ahead(L, C, requests, waiting, Tail(toPage))
      /\ Ahead(O, N, requests, waiting, Tail(toPage))
  BY <1>1, <1>2, <1>5, AheadTaken
<1>10. /\ "bindings" \notin astray => Ahead(L, C, requests', waiting, Tail(toPage))
       /\ Ahead(O, N, requests', waiting, Tail(toPage))
  BY <1>1, <1>2, <1>6, <1>9, AheadAsked
<1>11. /\ Followed(Good(N), AsStored, {}, Tail(toPage))
       /\ Followed(Good(L), AsStored, Good(N), Tail(toPage))
       /\ m \in Good(N) => m \in AsStored \/ InLine({}, Tail(toPage))
       /\ m \in Good(L) => m \in AsStored \/ InLine(Good(N), Tail(toPage))
  BY <1>1, <1>2, <1>5, FollowedLeft
<1>12. ~InLine({}, Tail(toPage))
  BY DEF InLine
<1>13. InLine(Good(N), toPage) <=> InLine(Good(N), Tail(toPage)) \/ m \in Good(N)
  BY <1>1, <1>2, LeaveLine
<1>14. page.workspace # None => Followed(StaleSaves(page), {}, L, requests')
  BY <1>1, <1>2, <1>5, <1>6, FollowedJoined
<1>15. Followed(Seen, Keeping, {}, requests')
  BY <1>1, <1>2, <1>5, <1>6, FollowedJoined
<1>16. NoLater(Seen, Saves, requests')
  BY <1>1, <1>2, <1>5, <1>6, NoLaterJoined
<1>17. ASSUME "bindings" \notin astray, m \in C PROVE ~OnWay(L, requests, waiting, toPage)
  <2>1. /\ m \in C => ~InLine(L, Tail(toPage)) /\ m \notin L
        /\ InLine(L, toPage) <=> InLine(L, Tail(toPage)) \/ m \in L
        /\ InLine(C, toPage) <=> InLine(C, Tail(toPage)) \/ m \in C
    BY <1>1, <1>2, <1>5, <1>17, FirstLeaves, LeaveLine DEF Ahead
  <2> QED
    BY <1>5, <1>17, <2>1 DEF Ahead, OnWay
<1>18. OneLoad' /\ OldSavesFirst'
  BY <1>2, <1>4, <1>8, <1>10 DEF OneLoad, OldSavesFirst, L, O, N
<1>19. LoadBehind' /\ SavesStored' /\ LoadsFollow'
  BY <1>2, <1>4, <1>11, <1>14 DEF LoadBehind, SavesStored, LoadsFollow, L, N
<1>20. SeenKeep' /\ SeenFirst'
  BY <1>4, <1>15, <1>16 DEF SeenKeep, SeenFirst, Seen, Saves
<1>21. Loading' <=> Loading /\ m \notin LoadsOf(page)
  BY <1>2, <1>4, <1>7, <1>8 DEF Loading, L
<1>22. "bindings" \notin astray =>
          /\ Ahead(LoadsOf(page), OfOpening(ChainKinds, page.open), requests', waiting', toPage')
          /\ m \in OfOpening(ChainKinds, page.open) => ~Loading
  BY <1>2, <1>10, <1>17 DEF Loading, L, C
<1> QED
  BY <1>2, <1>11, <1>12, <1>13, <1>18, <1>19, <1>20, <1>21, <1>22 DEF L, N

(* What becomes of the bindings that are shown when another call comes. *)
ShowsFor(m) ==
    /\ "bindings" \in astray => "bindings" \in astray'
    /\ \/ /\ page'.catalog = page.catalog
          /\ wizard'.selected = wizard.selected \/ wizard'.selected = None
       \/ m \in OfOpening(ChainKinds, page.open)
    /\ \/ m \notin Good(SavesNow) /\ page'.bindings = page.bindings
       \/ /\ m \in Good(SavesNow) /\ page'.bindings = m.bindings
          /\ m.of = page.workspace \/ "bindings" \in astray'

LEMMA ReceivesShown ==
    ASSUME ConnTypes, Receive, NEW m, m = Head(toPage), m \notin LoadsOf(page)
    PROVE  ShowsFor(m)
<1>1. m \in Calls
  BY Receives
<1>2. \/ m.open = page.open /\ (ListShown(m) \/ BindingsShown(m) \/ Connected(m) \/ ModelsShown(m)
                        \/ Saved(m) \/ Removed(m))
      \/ /\ m.open # page.open /\ UNCHANGED <<page, wizard>>
         /\ astray' = IF m.ok /\ m.kind \in {"create", "remove"}
                      THEN astray \cup {"services"} ELSE astray
  BY DEF Receive, Here
<1>3. page \in Pages /\ wizard \in Wizards
  BY DEF ConnTypes
<1>4. CASE /\ m.open # page.open /\ UNCHANGED <<page, wizard>>
           /\ astray' = IF m.ok /\ m.kind \in {"create", "remove"}
                        THEN astray \cup {"services"} ELSE astray
  BY <1>4 DEF ShowsFor, Good, SavesNow, OfOpening
<1>5. CASE m.open = page.open /\ ListShown(m)
  <2>1. page' = page \/ page' = [page EXCEPT !.services = m.listed]
    BY <1>5 DEF ListShown
  <2>2. page'.bindings = page.bindings /\ page'.catalog = page.catalog
    BY <1>3, <2>1 DEF Pages
  <2>3. wizard' = wizard /\ m \notin Good(SavesNow) /\ ("bindings" \in astray => "bindings" \in astray')
    BY <1>5 DEF ListShown, Good, SavesNow, OfOpening, SaveKinds
  <2> QED
    BY <2>2, <2>3 DEF ShowsFor
<1>6. CASE m.open = page.open /\ BindingsShown(m)
  <2>1. m.kind = "load" /\ m.effect # page.effect
    BY <1>1, <1>6 DEF BindingsShown, LoadsOf
  <2>2. UNCHANGED <<page, astray, wizard>>
    BY <1>6, <2>1 DEF BindingsShown
  <2>3. m \notin Good(SavesNow)
    BY <2>1 DEF Good, SavesNow, OfOpening, SaveKinds
  <2> QED
    BY <2>2, <2>3 DEF ShowsFor
<1>7. CASE m.open = page.open /\ Connected(m)
  <2>1. m \in OfOpening(ChainKinds, page.open) /\ m \notin Good(SavesNow) /\ astray' = astray
    BY <1>1, <1>7 DEF Connected, OfOpening, ChainKinds, Good, SavesNow, SaveKinds
  <2>2. page' = page \/ page' = [page EXCEPT !.services = @ \cup {m.of}]
    BY <1>7 DEF Connected
  <2>3. page'.bindings = page.bindings
    BY <1>3, <2>2 DEF Pages
  <2> QED
    BY <2>1, <2>3 DEF ShowsFor
<1>8. CASE m.open = page.open /\ ModelsShown(m)
  <2>1. m \in OfOpening(ChainKinds, page.open) /\ m \notin Good(SavesNow) /\ astray' = astray
    BY <1>1, <1>8 DEF ModelsShown, OfOpening, ChainKinds, Good, SavesNow, SaveKinds
  <2>2. page' = page \/ page' = [page EXCEPT !.catalog = m.listed]
    BY <1>8 DEF ModelsShown
  <2>3. page'.bindings = page.bindings
    BY <1>3, <2>2 DEF Pages
  <2> QED
    BY <2>1, <2>3 DEF ShowsFor
<1>9. CASE m.open = page.open /\ Saved(m)
  <2>1. m \in SavesNow /\ ("bindings" \in astray => "bindings" \in astray')
    BY <1>1, <1>9 DEF Saved, SavesNow, OfOpening, SaveKinds
  <2>2. PICK e : e = (page.embeddingSaving /\ m.kind # "embedding")
    OBVIOUS
  <2>3. PICK v : v = (wizard.saving /\ m.kind # "bind")
    OBVIOUS
  <2>4. CASE m.ok
    <3>1. page' = [page EXCEPT !.bindings = m.bindings, !.embeddingSaving = e]
      BY <1>9, <2>2, <2>4 DEF Saved
    <3>2. page'.bindings = m.bindings /\ page'.catalog = page.catalog
      BY <1>3, <3>1 DEF Pages
    <3>3. wizard' = wizard \/ wizard' = ListStep
      BY <1>9, <2>4 DEF Saved
    <3>4. wizard'.selected = wizard.selected \/ wizard'.selected = None
      BY <3>3, ListSteps
    <3>5. m.of = page.workspace \/ "bindings" \in astray'
      BY <1>9, <2>4 DEF Saved
    <3>6. m \in Good(SavesNow)
      BY <2>1, <2>4 DEF Good
    <3> QED
      BY <2>1, <3>2, <3>4, <3>5, <3>6 DEF ShowsFor
  <2>5. CASE ~m.ok
    <3>1. page' = [page EXCEPT !.embeddingSaving = e] /\ wizard' = [wizard EXCEPT !.saving = v]
      BY <1>9, <2>2, <2>3, <2>5 DEF Saved
    <3>2. page'.bindings = page.bindings /\ page'.catalog = page.catalog
          /\ wizard'.selected = wizard.selected
      BY <1>3, <3>1 DEF Pages, Wizards
    <3>3. m \notin Good(SavesNow)
      BY <2>5 DEF Good
    <3> QED
      BY <2>1, <3>2, <3>3 DEF ShowsFor
  <2> QED
    BY <2>4, <2>5
<1>10. CASE m.open = page.open /\ Removed(m)
  <2>1. \/ page' = [page EXCEPT !.services = @ \ {m.of}, !.confirm = None, !.removing = None]
        \/ page' = [page EXCEPT !.removing = None]
    BY <1>10 DEF Removed
  <2>2. page'.bindings = page.bindings /\ page'.catalog = page.catalog
    BY <1>3, <2>1 DEF Pages
  <2>3. UNCHANGED <<wizard, astray>> /\ m \notin Good(SavesNow)
    BY <1>10 DEF Removed, Good, SavesNow, OfOpening, SaveKinds
  <2> QED
    BY <2>2, <2>3 DEF ShowsFor
<1> QED
  BY <1>2, <1>4, <1>5, <1>6, <1>7, <1>8, <1>9, <1>10

LEMMA BindingsByReceiving ==
    ASSUME ConnTypes, AllIssued, BindingsInv, Receive
    PROVE  BindingsInv'
<1>1. PICK m : m = Head(toPage)
  OBVIOUS
<1>2. /\ OneLoad' /\ OldSavesFirst' /\ LoadBehind' /\ SavesStored' /\ LoadsFollow'
      /\ SeenKeep' /\ SeenFirst'
      /\ Loading' <=> Loading /\ m \notin LoadsOf(page)
      /\ "bindings" \notin astray =>
             /\ Ahead(LoadsOf(page), OfOpening(ChainKinds, page.open), requests', waiting', toPage')
             /\ m \in OfOpening(ChainKinds, page.open) => ~Loading
      /\ m \in Good(SavesNow) => m \in AsStored
      /\ m \in Good(LoadsOf(page)) => m \in AsStored \/ InLine(Good(SavesNow), toPage')
      /\ InLine(Good(SavesNow), toPage) => m \in Good(SavesNow) \/ InLine(Good(SavesNow), toPage')
  BY <1>1, OrderByReceiving
<1>3. SameTags /\ stored' = stored /\ m \in Calls /\ toPage # <<>> /\ toPage \in Seq(Calls)
  BY <1>1, Receives, ReceiveShows DEF ConnTypes
<1>4. /\ LoadsOf(page') = LoadsOf(page) /\ SavesNow' = SavesNow
      /\ OfOpening(ChainKinds, page'.open) = OfOpening(ChainKinds, page.open)
  BY <1>3, SetsStay
<1>5. CASE m \notin LoadsOf(page)
  <2>1. ShowsFor(m)
    BY <1>1, <1>5, ReceivesShown
  <2>2. Loading' <=> Loading
    BY <1>2, <1>5
  <2>3. LoadFirst'
    BY <1>2, <1>4, <2>1 DEF LoadFirst, ShowsFor
  <2>4. NothingChosen'
    BY <1>2, <2>1, <2>2 DEF BindingsInv, NothingChosen, ShowsFor
  <2>5. PageFollows'
    <3> SUFFICES ASSUME page'.open > 0, "bindings" \notin astray', ~Loading', page'.workspace # None
                 PROVE  page'.bindings = stored'[page'.workspace] \/ InLine(Good(SavesNow), toPage)'
      BY DEF PageFollows
    <3>1. page.open > 0 /\ "bindings" \notin astray /\ ~Loading /\ page.workspace # None
          /\ page'.workspace = page.workspace
      BY <1>3, <2>1, <2>2 DEF SameTags, ShowsFor
    <3>2. InLine(Good(SavesNow), toPage)' <=> InLine(Good(SavesNow), toPage')
      BY <1>4
    <3>3. CASE m \in Good(SavesNow)
      <4>1. m \in AsStored /\ page'.bindings = m.bindings /\ m.of = page.workspace
        BY <1>2, <2>1, <3>3 DEF ShowsFor
      <4> QED
        BY <1>3, <3>1, <4>1 DEF AsStored
    <3>4. CASE m \notin Good(SavesNow)
      <4>1. page'.bindings = page.bindings
        BY <2>1, <3>4 DEF ShowsFor
      <4>2. page.bindings = stored[page.workspace] \/ InLine(Good(SavesNow), toPage)
        BY <3>1 DEF BindingsInv, PageFollows
      <4> QED
        BY <1>2, <1>3, <3>1, <3>2, <3>4, <4>1, <4>2
    <3> QED
      BY <3>3, <3>4
  <2> QED
    BY <1>2, <2>3, <2>4, <2>5 DEF BindingsInv
<1>6. CASE m \in LoadsOf(page)
  <2>1. m.kind = "load" /\ m.open = page.open /\ m.effect = page.effect /\ ~Loading'
    BY <1>2, <1>6 DEF LoadsOf
  <2>2. BindingsShown(m)
    BY <1>1, <2>1 DEF Receive, Here, ListShown, Connected, ModelsShown, Saved, Removed
  <2>3. LoadFirst' /\ NothingChosen'
    BY <2>1, NoneIsOne DEF Loading, LoadFirst, NothingChosen
  <2>4. PageFollows'
    <3>1. CASE m.ok
      <4>1. page' = [page EXCEPT !.catalog = m.listed, !.bindings = m.bindings,
                                 !.embedding = m.bindings.embedding]
        BY <2>1, <2>2, <3>1 DEF BindingsShown
      <4>2. page'.bindings = m.bindings /\ page'.workspace = page.workspace
        BY <4>1 DEF ConnTypes, Pages
      <4>3. m.of = page.workspace
        <5>1. m \notin Misplaced(page)
          BY <1>1, <1>3, Taken DEF AllIssued
        <5> QED
          BY <1>3, <2>1, <5>1 DEF Misplaced, Issued
      <4>4. m \in Good(LoadsOf(page))
        BY <1>6, <3>1 DEF Good
      <4>5. m \in AsStored \/ InLine(Good(SavesNow), toPage)'
        BY <1>2, <1>4, <4>4
      <4> QED
        BY <1>3, <4>2, <4>3, <4>5 DEF PageFollows, AsStored
    <3>2. CASE ~m.ok
      <4>1. "bindings" \in astray'
        BY <2>1, <2>2, <3>2 DEF BindingsShown
      <4> QED
        BY <4>1 DEF PageFollows
    <3> QED
      BY <3>1, <3>2
  <2> QED
    BY <1>2, <2>3, <2>4 DEF BindingsInv
<1> QED
  BY <1>5, <1>6

(* The page is opened, or another workspace is chosen: nothing of it is on its way.  *)
LEMMA NothingToFollow ==
    ASSUME NEW r, NEW w, NEW t, NEW A, NEW B, ~OnWay(B, r, w, t), \A m \in w : m \notin A
    PROVE  Ahead(A, B, r, w, t)
BY DEF OnWay, InLine, Ahead

LEMMA BindingsByOpening ==
    ASSUME ConnTypes, AllIssued, BindingsInv, OpenPage
    PROVE  BindingsInv'
<1>1. requests \in Seq(Calls) /\ toPage \in Seq(Calls) /\ waiting \in SUBSET Calls
      /\ page.open \in Nat
  BY DEF ConnTypes, Pages
<1>2. /\ page'.open = page.open + 1 /\ page'.workspace = page.workspace
      /\ page'.catalog = {} /\ wizard' = ListStep
      /\ UNCHANGED <<stored, waiting, toPage>>
  BY Opens
<1>3. PICK a, b : a \in Calls /\ a.kind = "list" /\ AsksFor(a, b)
  BY Opens
<1> DEFINE L == LoadsOf(page')
           C == OfOpening(ChainKinds, page'.open)
           O == OfBefore(SaveKinds, page'.open)
           N == OfOpening(SaveKinds, page'.open)
           T == StaleSaves(page')
           r == Append(requests, a)
<1>4. L \subseteq Misplaced(page) /\ C \subseteq Misplaced(page) /\ N \subseteq Misplaced(page)
  <2> SUFFICES ASSUME NEW m \in Calls, m.open = page'.open PROVE m \in Misplaced(page)
    BY DEF LoadsOf, OfOpening
  <2>1. ~(m.open <= page.open)
    BY <1>1, <1>2
  <2> QED
    BY <2>1 DEF Misplaced, Issued
<1>5. ~OnWay(L, requests, waiting, toPage) /\ ~OnWay(C, requests, waiting, toPage)
      /\ ~OnWay(N, requests, waiting, toPage)
  BY <1>4, FewerOnWay DEF AllIssued
<1>6. \A m \in waiting : m \notin O
  BY DEF AllIssued, OfBefore, WaitKinds, SaveKinds
<1>7. a \notin L /\ a \notin C /\ a \notin O /\ a \notin N /\ a \notin Saves
  BY <1>3 DEF LoadsOf, OfOpening, OfBefore, Saves, SaveKinds, ChainKinds
<1>8. Seen \subseteq Saves /\ T \subseteq Saves
  BY DEF Seen, StaleSaves
<1>9. Followed(Seen, Keeping, {}, requests) /\ NoLater(Seen, Saves, requests)
  BY DEF BindingsInv, SeenKeep, SeenFirst
<1>10. LoadCall(b, page') => b \in L /\ b \in Calls /\ b \notin C /\ b \notin O /\ b \notin N
                               /\ b \notin Saves
  BY DEF LoadCall, LoadsOf, OfOpening, OfBefore, Saves, SaveKinds, ChainKinds
<1> HIDE DEF L, C, O, N, T
<1>11. /\ r \in Seq(Calls)
       /\ ~OnWay(L, r, waiting, toPage) /\ ~OnWay(C, r, waiting, toPage) /\ ~OnWay(N, r, waiting, toPage)
       /\ Followed(Seen, Keeping, {}, r) /\ NoLater(Seen, Saves, r)
  BY <1>1, <1>3, <1>5, <1>7, <1>8, <1>9, JoinedLine, Asked, FollowedJoined, NoLaterJoined
<1>12. Ahead(L, C, r, waiting, toPage) /\ Ahead(O, N, r, waiting, toPage)
       /\ AtMostOne(L, r, waiting, toPage)
  BY <1>6, <1>11, NoneIsOne, NothingToFollow
<1> HIDE DEF r
<1>13. /\ AtMostOne(L, requests', waiting, toPage) /\ Ahead(L, C, requests', waiting, toPage)
       /\ Ahead(O, N, requests', waiting, toPage)
       /\ page'.workspace # None =>
             Followed(T, {}, L, requests') /\ OnWay(L, requests', waiting, toPage)
       /\ Followed(Seen, Keeping, {}, requests') /\ NoLater(Seen, Saves, requests')
  <2>1. CASE requests' = r /\ page'.workspace = None
    BY <1>11, <1>12, <2>1
  <2>2. CASE LoadCall(b, page') /\ requests' = Append(r, b)
    <3>1. AtMostOne(L, Append(r, b), waiting, toPage) /\ OnWay(L, Append(r, b), waiting, toPage)
      BY <1>10, <1>11, <1>12, <2>2, Asked
    <3>2. Ahead(L, C, Append(r, b), waiting, toPage) /\ Ahead(O, N, Append(r, b), waiting, toPage)
      BY <1>10, <1>11, <1>12, <2>2, AheadAsked
    <3>3. Followed(T, {}, L, Append(r, b)) /\ Followed(Seen, Keeping, {}, Append(r, b))
      BY <1>8, <1>10, <1>11, <2>2, FollowedJoined
    <3>4. NoLater(Seen, Saves, Append(r, b))
      BY <1>8, <1>10, <1>11, <2>2, NoLaterJoined
    <3> QED
      BY <2>2, <3>1, <3>2, <3>3, <3>4
  <2> QED
    BY <1>3, <2>1, <2>2 DEF AsksFor, r
<1>14. OneLoad' /\ LoadFirst' /\ OldSavesFirst' /\ LoadBehind'
  BY <1>2, <1>13 DEF OneLoad, LoadFirst, OldSavesFirst, LoadBehind, SavesNow, L, C, O, N, T
<1>15. NothingChosen'
  BY <1>2, ListSteps DEF NothingChosen
<1>16. PageFollows'
  BY <1>2, <1>13 DEF PageFollows, Loading, L
<1>17. ~InLine(Good(L), toPage) /\ ~InLine(Good(N), toPage)
  BY <1>5 DEF OnWay, InLine, Good
<1>18. SavesStored' /\ LoadsFollow'
  BY <1>2, <1>17 DEF SavesStored, LoadsFollow, SavesNow, L, N, Followed, InLine
<1>19. Keeping' = Keeping
  BY <1>2 DEF Keeping
<1>20. SeenKeep' /\ SeenFirst'
  BY <1>13, <1>19 DEF SeenKeep, SeenFirst, Seen, Saves
<1> QED
  BY <1>14, <1>15, <1>16, <1>18, <1>20 DEF BindingsInv

LEMMA BindingsByChoosing ==
    ASSUME ConnTypes, AllIssued, BindingsInv, NEW v \in Workspaces \cup {None}, Choose(v)
    PROVE  BindingsInv'
<1>1. requests \in Seq(Calls) /\ toPage \in Seq(Calls) /\ waiting \in SUBSET Calls
      /\ page.open \in Nat /\ page.effect \in Nat
  BY DEF ConnTypes, Pages
<1>2. /\ page'.open = page.open /\ page'.effect = page.effect + 1 /\ page'.workspace = v
      /\ UNCHANGED <<stored, waiting, toPage, wizard>>
      /\ \/ v = None /\ requests' = requests
         \/ /\ v # None /\ "bindings" \in astray'
            /\ \E b : LoadCall(b, page') /\ requests' = Append(requests, b)
  BY Chooses
<1> DEFINE L == LoadsOf(page')
           T == StaleSaves(page')
<1>3. L \subseteq Misplaced(page)
  <2> SUFFICES ASSUME NEW m \in Calls, m.open = page.open, m.effect = page.effect + 1
               PROVE  m \in Misplaced(page)
    BY <1>2 DEF LoadsOf
  <2>1. ~(m.effect <= page.effect)
    BY <1>1
  <2> QED
    BY <2>1 DEF Misplaced, Issued
<1>4. ~OnWay(L, requests, waiting, toPage)
  BY <1>3, FewerOnWay DEF AllIssued
<1>5. AtMostOne(L, requests, waiting, toPage) /\ \A B : Ahead(L, B, requests, waiting, toPage)
  BY <1>4, NoneIsOne
<1>6. /\ SavesNow' = SavesNow /\ OfBefore(SaveKinds, page'.open) = OfBefore(SaveKinds, page.open)
      /\ Keeping' = Keeping
  BY <1>2 DEF SavesNow, Keeping
<1>7. /\ Ahead(OfBefore(SaveKinds, page.open), SavesNow, requests, waiting, toPage)
      /\ Followed(Seen, Keeping, {}, requests) /\ NoLater(Seen, Saves, requests)
  BY DEF BindingsInv, OldSavesFirst, SeenKeep, SeenFirst
<1>8. ~InLine(Good(L), toPage)
  BY <1>4 DEF OnWay, InLine, Good
<1>9. SavesStored' /\ LoadsFollow'
  <2>1. Followed(Good(L), AsStored', Good(SavesNow), toPage)
    BY <1>8 DEF Followed, InLine
  <2>2. AsStored' = AsStored
    BY <1>2 DEF AsStored
  <2> QED
    BY <1>2, <1>6, <2>1, <2>2 DEF BindingsInv, SavesStored, LoadsFollow
<1>10. CASE v = None /\ requests' = requests
  <2>1. OneLoad' /\ LoadFirst' /\ NothingChosen' /\ OldSavesFirst' /\ LoadBehind' /\ PageFollows'
    BY <1>2, <1>4, <1>5, <1>6, <1>7, <1>10
       DEF OneLoad, LoadFirst, NothingChosen, Loading, OldSavesFirst, LoadBehind, PageFollows
  <2>2. SeenKeep' /\ SeenFirst'
    BY <1>6, <1>7, <1>10 DEF SeenKeep, SeenFirst, Seen, Saves
  <2> QED
    BY <1>9, <2>1, <2>2 DEF BindingsInv
<1>11. ASSUME "bindings" \in astray', NEW b, LoadCall(b, page'), requests' = Append(requests, b)
       PROVE  BindingsInv'
  <2>1. b \in L /\ b \in Calls /\ b \notin OfBefore(SaveKinds, page.open) /\ b \notin Saves
    BY <1>11 DEF LoadCall, LoadsOf, OfBefore, Saves, SaveKinds
  <2>2. b \notin Seen /\ b \notin T
    BY <2>1 DEF Seen, StaleSaves
  <2> HIDE DEF L, T
  <2>3. AtMostOne(L, Append(requests, b), waiting, toPage)
    BY <1>1, <1>4, <1>5, <2>1, Asked
  <2>4. Ahead(OfBefore(SaveKinds, page.open), SavesNow, Append(requests, b), waiting, toPage)
    BY <1>1, <1>7, <2>1, AheadAsked
  <2>5. Followed(T, {}, L, Append(requests, b)) /\ Followed(Seen, Keeping, {}, Append(requests, b))
    BY <1>1, <1>7, <2>1, <2>2, FollowedJoined
  <2>6. NoLater(Seen, Saves, Append(requests, b))
    BY <1>1, <1>7, <2>1, <2>2, NoLaterJoined
  <2>7. OneLoad' /\ OldSavesFirst' /\ LoadBehind'
    BY <1>2, <1>6, <1>11, <2>3, <2>4, <2>5 DEF OneLoad, OldSavesFirst, LoadBehind, L, T
  <2>8. LoadFirst' /\ NothingChosen' /\ PageFollows'
    BY <1>11 DEF LoadFirst, NothingChosen, PageFollows
  <2>9. SeenKeep' /\ SeenFirst'
    BY <1>6, <1>11, <2>5, <2>6 DEF SeenKeep, SeenFirst, Seen, Saves
  <2> QED
    BY <1>9, <2>7, <2>8, <2>9 DEF BindingsInv
<1> QED
  BY <1>2, <1>10, <1>11

-----------------------------------------------------------------------------
(* A save: no other is on its way, and the page shows what is stored.             *)
LEMMA NothingSaved ==
    ASSUME ConnTypes, AllIssued, Locks, BindingsInv, "bindings" \notin astray, ~Loading,
           page.workspace # None, ~wizard.saving, ~page.embeddingSaving, page.open > 0
    PROVE  ~InLine(Saves, requests) /\ page.bindings = stored[page.workspace]
<1>1. ~Under({"bind"}) /\ ~Under({"embedding"})
  BY DEF Locks
<1>2. ~InLine(SavesNow, requests) /\ ~InLine(SavesNow, toPage)
  <2>1. SavesNow \subseteq OfOpening({"bind"}, page.open) \cup OfOpening({"embedding"}, page.open)
    BY DEF SavesNow, OfOpening, SaveKinds
  <2>2. \A M \in {OfOpening({"bind"}, page.open), OfOpening({"embedding"}, page.open)} :
            ~InLine(M, requests) /\ ~InLine(M, toPage)
    BY <1>1 DEF Under, OnWay
  <2> QED
    BY <2>1, <2>2 DEF InLine
<1>3. ~InLine(StaleSaves(page), requests)
  <2> SUFFICES ASSUME NEW i \in DOMAIN requests, requests[i] \in StaleSaves(page) PROVE FALSE
    BY DEF InLine
  <2>1. \E j \in DOMAIN requests : requests[j] \in LoadsOf(page)
    BY DEF BindingsInv, LoadBehind, Followed
  <2> QED
    BY <2>1 DEF Loading, OnWay, InLine
<1>4. Saves \subseteq SavesNow \cup StaleSaves(page)
  BY DEF Saves, SavesNow, StaleSaves, OfOpening
<1>5. ~InLine(Saves, requests)
  BY <1>2, <1>3, <1>4 DEF InLine
<1>6. ~InLine(Good(SavesNow), toPage)
  BY <1>2 DEF InLine, Good
<1> QED
  BY <1>5, <1>6 DEF BindingsInv, PageFollows

LEMMA BindingsBySavingEmbedding ==
    ASSUME NamesApart, ConnTypes, AllIssued, Locks, Steps, BindingsInv, SaveEmbedding
    PROVE  BindingsInv'
<1>1. /\ page' = [page EXCEPT !.embeddingSaving = TRUE] /\ page' \in Pages
      /\ page.embeddingSaving = FALSE /\ page.workspace \in Workspaces
      /\ page.catalog # {} /\ wizard.step = "list" /\ page.open > 0
      /\ UNCHANGED <<connections, available, stored, waiting, toPage, wizard, astray>>
      /\ \E n, b : /\ SaveCall(n, "embedding", b) /\ requests' = Append(requests, n)
                   /\ b.default = page.bindings.default
  BY EmbeddingAsks
<1>2. PICK n, b : /\ SaveCall(n, "embedding", b) /\ requests' = Append(requests, n)
                  /\ b.default = page.bindings.default
  BY <1>1
<1>3. /\ n \in Calls /\ n.kind = "embedding" /\ n.of = page.workspace
      /\ n.open = page.open /\ n.effect = page.effect
      /\ n.blind = ("bindings" \in astray) /\ n.bindings.default = page.bindings.default
  BY <1>2 DEF SaveCall
<1>4. ShownAlike
  BY <1>1 DEF ConnTypes, Pages, ShownAlike, SameTags
<1>5. wizard.saving \in BOOLEAN /\ ~wizard.saving
  BY <1>1 DEF Steps, StepsOf, ConnTypes, Wizards
<1>6. ASSUME n \in Seen PROVE n \in Keeping /\ ~InLine(Saves, requests)
  <2>1. "bindings" \notin astray
    BY <1>3, <1>6 DEF Seen
  <2>2. ~Loading
    BY <1>1, <2>1 DEF BindingsInv, NothingChosen
  <2>3. page.workspace # None
    BY <1>1 DEF NamesApart
  <2>4. ~InLine(Saves, requests) /\ page.bindings = stored[page.workspace]
    BY <1>1, <1>5, <2>1, <2>2, <2>3, NothingSaved
  <2> QED
    BY <1>3, <2>4 DEF Keeping
<1> QED
  BY <1>1, <1>2, <1>3, <1>4, <1>6, BindingsByAsking

LEMMA BindingsByUsing ==
    ASSUME NamesApart, ConnTypes, AllIssued, Locks, Steps, BindingsInv, UseModel
    PROVE  BindingsInv'
<1>1. /\ wizard' = [wizard EXCEPT !.saving = TRUE]
      /\ wizard.saving = FALSE /\ wizard.selected # None
      /\ page.workspace \in Workspaces /\ page.open > 0
      /\ UNCHANGED <<connections, available, stored, waiting, toPage, page, astray>>
      /\ \E n, b : /\ SaveCall(n, "bind", b) /\ requests' = Append(requests, n)
                   /\ b.embedding = page.bindings.embedding
  BY ModelAsks
<1>2. PICK n, b : /\ SaveCall(n, "bind", b) /\ requests' = Append(requests, n)
                  /\ b.embedding = page.bindings.embedding
  BY <1>1
<1>3. /\ n \in Calls /\ n.kind = "bind" /\ n.of = page.workspace
      /\ n.open = page.open /\ n.effect = page.effect
      /\ n.blind = ("bindings" \in astray) /\ n.bindings.embedding = page.bindings.embedding
  BY <1>2 DEF SaveCall
<1>4. wizard'.selected = wizard.selected
  BY <1>1 DEF ConnTypes, Wizards
<1>5. ShownAlike
  BY <1>1, <1>4 DEF ShownAlike, SameTags
<1>6. page.embeddingSaving \in BOOLEAN /\ ~page.embeddingSaving
  BY <1>1 DEF Steps, ConnTypes, Pages
<1>7. ASSUME n \in Seen PROVE n \in Keeping /\ ~InLine(Saves, requests)
  <2>1. "bindings" \notin astray
    BY <1>3, <1>7 DEF Seen
  <2>2. ~Loading
    BY <1>1, <2>1 DEF BindingsInv, NothingChosen
  <2>3. page.workspace # None
    BY <1>1 DEF NamesApart
  <2>4. ~InLine(Saves, requests) /\ page.bindings = stored[page.workspace]
    BY <1>1, <1>6, <2>1, <2>2, <2>3, NothingSaved
  <2> QED
    BY <1>3, <2>4 DEF Keeping
<1> QED
  BY <1>1, <1>2, <1>3, <1>5, <1>7, BindingsByAsking

(* The other calls the page asks for. *)
LEMMA BindingsByOther ==
    ASSUME ConnTypes, BindingsInv, ShownAlike, UNCHANGED <<waiting, toPage>>,
           NEW n, NEW kind \in WaitKinds, NEW of, NewCall(n, kind, of), requests' = Append(requests, n)
    PROVE  BindingsInv'
<1>1. n \in Calls /\ n.kind # "load" /\ n \notin Saves /\ n \notin Seen
  BY DEF NewCall, Saves, Seen, WaitKinds, SaveKinds
<1> QED
  BY <1>1, BindingsByAsking

LEMMA BindingsStay ==
    ASSUME NamesApart, ConnTypes, AllIssued, Locks, Steps, BindingsInv, [ConnNext]_connVars
    PROVE  BindingsInv'
<1>0. page \in Pages /\ wizard \in Wizards /\ "refresh" \in WaitKinds /\ "create" \in WaitKinds
      /\ "remove" \in WaitKinds
  BY DEF ConnTypes, WaitKinds
<1>1. CASE UNCHANGED connVars
  BY <1>1, BindingsByQuiet DEF connVars, ShownAlike, SameTags
<1>2. CASE OpenPage
  BY <1>2, BindingsByOpening
<1>3. ASSUME NEW v \in Workspaces \cup {None}, Choose(v) PROVE BindingsInv'
  BY <1>3, BindingsByChoosing
<1>4. ASSUME NEW p \in Providers \cup {None}, ChooseEmbedding(p) PROVE BindingsInv'
  <2>1. page' = [page EXCEPT !.embedding = p]
        /\ UNCHANGED <<stored, requests, waiting, toPage, wizard, astray>>
    BY <1>4 DEF ChooseEmbedding, mainVars
  <2>2. ShownAlike
    BY <1>0, <2>1 DEF Pages, ShownAlike, SameTags
  <2> QED
    BY <2>1, <2>2, BindingsByQuiet
<1>5. CASE KeepConnection
  <2>1. page' = [page EXCEPT !.confirm = None]
        /\ UNCHANGED <<stored, requests, waiting, toPage, wizard, astray>>
    BY <1>5 DEF KeepConnection, mainVars
  <2>2. ShownAlike
    BY <1>0, <2>1 DEF Pages, ShownAlike, SameTags
  <2> QED
    BY <2>1, <2>2, BindingsByQuiet
<1>6. ASSUME NEW p \in Providers, OpenModels(p) PROVE BindingsInv'
  <2>1. /\ wizard' = ChainWizard(p)
        /\ UNCHANGED <<connections, available, stored, waiting, toPage, page, spent, astray>>
        /\ \E n : NewCall(n, "refresh", p) /\ requests' = Append(requests, n)
    BY <1>6, ModelsAsk
  <2>2. ShownAlike
    BY <2>1, ChainWizards DEF ShownAlike, SameTags
  <2> QED
    BY <1>0, <2>1, <2>2, BindingsByOther
<1>7. ASSUME NEW p \in Providers, Remove(p) PROVE BindingsInv'
  <2>1. /\ UNCHANGED <<connections, available, stored, waiting, toPage, wizard, spent, astray>>
        /\ \/ page' = [page EXCEPT !.confirm = p] /\ requests' = requests
           \/ /\ page' = [page EXCEPT !.removing = p]
              /\ \E n : NewCall(n, "remove", p) /\ requests' = Append(requests, n)
    BY <1>7, RemoveAsks
  <2>2. ShownAlike
    BY <1>0, <2>1 DEF Pages, ShownAlike, SameTags
  <2>3. CASE requests' = requests
    BY <2>1, <2>2, <2>3, BindingsByQuiet
  <2>4. CASE \E n : NewCall(n, "remove", p) /\ requests' = Append(requests, n)
    BY <1>0, <2>1, <2>2, <2>4, BindingsByOther
  <2> QED
    BY <2>1, <2>3, <2>4
<1>8. CASE SaveEmbedding
  BY <1>8, BindingsBySavingEmbedding
<1>9. CASE UseModel
  BY <1>9, BindingsByUsing
<1>10. CASE PickService
  <2>1. wizard' = [wizard EXCEPT !.step = "auth"]
        /\ UNCHANGED <<stored, requests, waiting, toPage, page, astray>>
    BY <1>10 DEF PickService, mainVars
  <2>2. ShownAlike
    BY <1>0, <2>1 DEF Wizards, ShownAlike, SameTags
  <2> QED
    BY <2>1, <2>2, BindingsByQuiet
<1>11. CASE Back
  <2>1. wizard' = ListStep /\ UNCHANGED <<stored, requests, waiting, toPage, page, astray>>
    BY <1>11 DEF Back, mainVars
  <2>2. ShownAlike
    BY <2>1, ListSteps DEF ShownAlike, SameTags
  <2> QED
    BY <2>1, <2>2, BindingsByQuiet
<1>12. CASE Connect
  <2>1. /\ wizard' = [wizard EXCEPT !.connecting = TRUE]
        /\ UNCHANGED <<connections, available, stored, waiting, toPage, page, astray>>
        /\ \E p, n : NewCall(n, "create", p) /\ requests' = Append(requests, n)
    BY <1>12, ConnectAsks
  <2>2. ShownAlike
    BY <1>0, <2>1 DEF Wizards, ShownAlike, SameTags
  <2> QED
    BY <1>0, <2>1, <2>2, BindingsByOther
<1>13. CASE Handle
  BY <1>13, BindingsByHandling
<1>14. CASE Receive
  BY <1>14, BindingsByReceiving
<1>15. ASSUME NEW c \in waiting, Ends(c) PROVE BindingsInv'
  BY <1>15, BindingsByEnding
<1> QED
  BY <1>1, <1>2, <1>3, <1>4, <1>5, <1>6, <1>7, <1>8, <1>9, <1>10, <1>11, <1>12, <1>13, <1>14,
     <1>15 DEF ConnNext

LEMMA BindingsAtFirst ==
    ASSUME NamesApart, ConnInit
    PROVE  BindingsInv
<1>1. /\ requests = <<>> /\ waiting = {} /\ toPage = <<>> /\ wizard = ListStep
      /\ \E w \in Workspaces \cup {None} : page = NewPage(w, 0)
  BY DEF ConnInit
<1>2. page.open = 0
  BY <1>1 DEF NewPage
<1>3. OneLoad /\ LoadFirst /\ NothingChosen /\ OldSavesFirst
  BY <1>1, NothingOnWay DEF OneLoad, LoadFirst, NothingChosen, Loading, OldSavesFirst
<1>4. LoadBehind /\ SavesStored /\ LoadsFollow /\ SeenKeep /\ SeenFirst
  BY <1>1 DEF LoadBehind, SavesStored, LoadsFollow, SeenKeep, SeenFirst, Followed, NoLater
<1>5. PageFollows
  BY <1>2 DEF PageFollows
<1> QED
  BY <1>3, <1>4, <1>5 DEF BindingsInv

(* Only a save that reaches main changes what is stored. *)
LEMMA SavesKeep ==
    ASSUME ConnTypes, AllIssued, BindingsInv, [ConnNext]_connVars
    PROVE  SavesKeepTheOther
<1> SUFFICES ASSUME requests # <<>>, stored' # stored, ~Head(requests).blind
             PROVE  IF Head(requests).kind = "bind"
                    THEN stored'[Head(requests).of].embedding = stored[Head(requests).of].embedding
                    ELSE stored'[Head(requests).of].default = stored[Head(requests).of].default
  BY Zenon DEF SavesKeepTheOther
<1>1. Handle
  <2>1. UNCHANGED connVars => UNCHANGED stored
    BY DEF connVars
  <2>2. \A c \in waiting : Ends(c) => UNCHANGED stored
    BY DEF Ends
  <2>3. (OpenPage => UNCHANGED stored)
        /\ (\A w \in Workspaces \cup {None} : Choose(w) => UNCHANGED stored)
    BY Zenon DEF OpenPage, Choose, mainVars
  <2>4. \A p \in Providers \cup {None} :
           ChooseEmbedding(p) \/ OpenModels(p) \/ Remove(p) => UNCHANGED stored
    BY DEF ChooseEmbedding, OpenModels, Remove, mainVars
  <2>5. SaveEmbedding \/ UseModel \/ PickService \/ Connect \/ Back \/ KeepConnection => UNCHANGED stored
    BY DEF SaveEmbedding, UseModel, PickService, Connect, Back, KeepConnection, mainVars
  <2>6. Receive => UNCHANGED stored
    BY DEF Receive, mainVars
  <2> QED
    BY <2>1, <2>2, <2>3, <2>4, <2>5, <2>6 DEF ConnNext
<1>2. PICK n : n = Head(requests)
  OBVIOUS
<1>3. n \in Calls /\ n.kind \in SaveKinds /\ stored' = [stored EXCEPT ![n.of] = n.bindings]
  <2>1. n \in Calls /\ (HandedOnCall \/ \E q : AnsweredCall(q))
    BY <1>1, <1>2, Handles
  <2>2. PICK q : AnsweredCall(q)
    BY <2>1 DEF HandedOnCall
  <2> QED
    BY <1>2, <2>1, <2>2 DEF AnsweredCall, ReadTells
<1>4. n.of \in Workspaces
  BY <1>3, FieldsOfCalls
<1>5. stored'[n.of] = n.bindings
  BY <1>3, <1>4 DEF ConnTypes
<1>6. n \in Keeping
  <2>1. n \in Seen
    BY <1>2, <1>3 DEF Seen, Saves
  <2>2. 1 \in DOMAIN requests /\ requests[1] = n
    BY <1>2, LeftLine DEF ConnTypes
  <2> QED
    BY <2>1, <2>2 DEF BindingsInv, SeenKeep, Followed
<1> QED
  BY <1>2, <1>5, <1>6 DEF Keeping

(* A save replaces the whole row of model bindings, and yet one made while the page   *)
(* showed its workspace's bindings leaves the binding it is not about as it is.     *)
THEOREM SavesKeepOther ==
    ASSUME NamesApart
    PROVE  ConnSpec => [][SavesKeepTheOther]_connVars
<1> DEFINE Inv == LocksInv /\ BindingsInv
<1>1. ConnInit => Inv
  BY LocksAtFirst, BindingsAtFirst
<1>2. Inv /\ [ConnNext]_connVars => Inv'
  BY ConnTypesStay, LocksStay, BindingsStay DEF LocksInv
<1>3. Inv /\ [ConnNext]_connVars => [SavesKeepTheOther]_connVars
  BY SavesKeep DEF LocksInv
<1> QED
  BY <1>1, <1>2, <1>3, PTL DEF ConnSpec

-----------------------------------------------------------------------------
(* The connections when nothing moves, ... *)
ServicesAlike ==
    /\ page'.open = page.open /\ page'.services = page.services /\ connections' = connections
    /\ "services" \in astray' <=> "services" \in astray

LEMMA NamedSetsStay ==
    ASSUME NEW c, connections' = connections
    PROVE  Truthful(c)' = Truthful(c) /\ SameAs(c)' = SameAs(c)
BY DEF Truthful, SameAs

LEMMA ServicesByQuiet ==
    ASSUME NEW c \in Providers, ServicesInv(c), ServicesAlike, spent'.made = spent.made,
           UNCHANGED <<requests, waiting, toPage>>
    PROVE  ServicesInv(c)'
<1>1. Truthful(c)' = Truthful(c) /\ SameAs(c)' = SameAs(c)
  BY NamedSetsStay DEF ServicesAlike
<1>2. MadeOnce(c)' /\ NotYet(c)' /\ Announced(c)' /\ MadeBefore(c)' /\ Gone(c)'
  BY <1>1 DEF ServicesInv, ServicesAlike, MadeOnce, NotYet, Announced, MadeBefore, Gone
<1>3. ServicesShown(c)' /\ ListsFollow(c)'
  BY <1>1 DEF ServicesInv, ServicesAlike, ServicesShown, ListsFollow
<1> QED
  BY <1>2, <1>3 DEF ServicesInv

(* ... when the page asks for something but a list, ... *)
LEMMA ServicesByAsking ==
    ASSUME ConnTypes, NEW c \in Providers, ServicesInv(c), ServicesAlike, UNCHANGED <<waiting, toPage>>,
           c \in spent.made => c \in spent'.made,
           NEW n \in Calls, requests' = Append(requests, n), n.kind # "list",
           n \in Making(c) => c \notin spent.made /\ c \in spent'.made,
           n \in Removing(c) => c \in page.services
    PROVE  ServicesInv(c)'
<1>1. Truthful(c)' = Truthful(c) /\ SameAs(c)' = SameAs(c) /\ requests \in Seq(Calls)
      /\ n \notin ListsOf(page.open)
  BY NamedSetsStay DEF ServicesAlike, ConnTypes, ListsOf, OfOpening
<1>2. /\ OnWay(Making(c), requests', waiting, toPage) <=>
             OnWay(Making(c), requests, waiting, toPage) \/ n \in Making(c)
      /\ OnWay(Removing(c), requests', waiting, toPage) <=>
             OnWay(Removing(c), requests, waiting, toPage) \/ n \in Removing(c)
      /\ OnWay(ListsOf(page.open), requests', waiting, toPage) <=>
             OnWay(ListsOf(page.open), requests, waiting, toPage)
      /\ InLine(Making(c), requests') <=> InLine(Making(c), requests) \/ n \in Making(c)
  BY <1>1, Asked, JoinLine
<1>3. n \in Making(c) => n \notin Removing(c)
  BY DEF Making, Removing
<1>4. n \in Making(c) =>
         /\ ~OnWay(Making(c), requests, waiting, toPage)
         /\ ~OnWay(Removing(c), requests, waiting, toPage)
         /\ c \notin page.services /\ c \notin connections /\ ~InLine(ListsWith(c), toPage)
  BY DEF ServicesInv, MadeOnce, MadeBefore
<1>5. MadeOnce(c)'
  <2>1. AtMostOne(Making(c), requests', waiting, toPage)
    BY <1>1, <1>4, Asked DEF ServicesInv, MadeOnce
  <2>2. OnWay(Making(c), requests', waiting, toPage) =>
           c \in spent'.made /\ c \notin page.services
           /\ ~OnWay(Removing(c), requests', waiting, toPage)
    BY <1>2, <1>3, <1>4 DEF ServicesInv, MadeOnce
  <2> QED
    BY <2>1, <2>2 DEF MadeOnce, ServicesAlike
<1>6. NotYet(c)'
  BY <1>2, <1>4 DEF ServicesInv, NotYet, ServicesAlike
<1>7. Announced(c)' /\ Gone(c)'
  BY <1>1 DEF ServicesInv, Announced, Gone, ServicesAlike
<1>8. MadeBefore(c)'
  BY <1>2 DEF ServicesInv, MadeBefore, ServicesAlike
<1>9. ServicesShown(c)' /\ ListsFollow(c)'
  BY <1>1, <1>2 DEF ServicesInv, ServicesAlike, ServicesShown, ListsFollow
<1> QED
  BY <1>5, <1>6, <1>7, <1>8, <1>9 DEF ServicesInv

(* ... when main takes a call, ... *)
LEMMA ServicesByHandling ==
    ASSUME ConnTypes, AllIssued, NEW c \in Providers, ServicesInv(c), Handle
    PROVE  ServicesInv(c)'
<1>1. requests \in Seq(Calls) /\ toPage \in Seq(Calls) /\ waiting \in SUBSET Calls
  BY DEF ConnTypes
<1>2. /\ requests # <<>> /\ Head(requests) \in Calls /\ requests' = Tail(requests)
      /\ UNCHANGED <<connections, page, wizard, astray>>
      /\ HandedOnCall \/ \E n : AnsweredCall(n)
  BY Handles
<1> DEFINE M == Making(c)
           R == Removing(c)
           L == ListsOf(page.open)
           W == ListsWith(c)
<1>3. Truthful(c)' = Truthful(c) /\ SameAs(c)' = SameAs(c)
  BY <1>2, NamedSetsStay
<1>4. CASE HandedOnCall
  <2>1. waiting' = waiting \cup {Head(requests)} /\ toPage' = toPage /\ spent' = spent
    BY <1>4 DEF HandedOnCall
  <2> HIDE DEF M, R, L, W
  <2>2. /\ OnWay(M, requests', waiting', toPage) <=> OnWay(M, requests, waiting, toPage)
        /\ OnWay(R, requests', waiting', toPage) <=> OnWay(R, requests, waiting, toPage)
        /\ OnWay(L, requests', waiting', toPage) <=> OnWay(L, requests, waiting, toPage)
        /\ AtMostOne(M, requests, waiting, toPage) => AtMostOne(M, requests', waiting', toPage)
    BY <1>1, <1>2, <2>1, HandedOn
  <2>3. InLine(M, requests') \/ (\E m \in waiting' : m \in M) =>
            InLine(M, requests) \/ (\E m \in waiting : m \in M)
    BY <1>1, <1>2, <2>1, LeaveLine
  <2>4. MadeOnce(c)' /\ MadeBefore(c)'
    BY <1>2, <2>1, <2>2 DEF ServicesInv, MadeOnce, MadeBefore, M, R
  <2>5. NotYet(c)'
    BY <1>2, <2>1, <2>3 DEF ServicesInv, NotYet, M
  <2>6. Announced(c)' /\ Gone(c)'
    BY <1>2, <1>3, <2>1 DEF ServicesInv, Announced, Gone
  <2>7. ServicesShown(c)' /\ ListsFollow(c)'
    BY <1>2, <1>3, <2>1, <2>2 DEF ServicesInv, ServicesShown, ListsFollow, L
  <2> QED
    BY <2>4, <2>5, <2>6, <2>7 DEF ServicesInv
<1>5. ASSUME NEW n, AnsweredCall(n) PROVE ServicesInv(c)'
  <2>1. /\ Head(requests).kind \notin WaitKinds
        /\ n \in Calls /\ Like(n, Head(requests))
        /\ toPage' = Append(toPage, n) /\ waiting' = waiting /\ spent'.made = spent.made
    BY <1>5 DEF AnsweredCall
  <2>2. /\ n \notin M /\ n \notin R /\ Head(requests) \notin M /\ Head(requests) \notin R
        /\ n \in L <=> Head(requests) \in L
        /\ n \notin Told(c)
    <3>1. n.kind = Head(requests).kind /\ n.kind \notin WaitKinds
      BY <2>1 DEF Like
    <3>2. n \in L <=> Head(requests) \in L
      BY <1>2, <2>1, RepliesAlike DEF ListsOf
    <3> QED
      BY <3>1, <3>2 DEF Making, Removing, WaitKinds, Told, Good
  <2>3. /\ n \in W => c \in connections
        /\ n \in Good(L) => n \in SameAs(c)
    <3>1. n.kind = "list" /\ n.ok => n.listed = connections
      BY <1>5 DEF AnsweredCall, ReadTells, SaveKinds
    <3> QED
      BY <2>1, <3>1 DEF ListsWith, Good, ListsOf, OfOpening, SameAs
  <2> HIDE DEF M, R, L, W
  <2>4. /\ OnWay(M, Tail(requests), waiting, Append(toPage, n)) <=> OnWay(M, requests, waiting, toPage)
        /\ OnWay(R, Tail(requests), waiting, Append(toPage, n)) <=> OnWay(R, requests, waiting, toPage)
        /\ OnWay(L, Tail(requests), waiting, Append(toPage, n)) <=> OnWay(L, requests, waiting, toPage)
        /\ AtMostOne(M, requests, waiting, toPage) =>
              AtMostOne(M, Tail(requests), waiting, Append(toPage, n))
    BY <1>1, <1>2, <2>1, <2>2, Answered
  <2>5. InLine(M, Tail(requests)) => InLine(M, requests)
    BY <1>1, <1>2, LeaveLine
  <2>6. /\ InLine(M, Append(toPage, n)) <=> InLine(M, toPage)
        /\ InLine(W, Append(toPage, n)) <=> InLine(W, toPage) \/ n \in W
        /\ InLine(Told(c), toPage) => InLine(Told(c), Append(toPage, n))
        /\ InLine(Good(R), Append(toPage, n)) <=> InLine(Good(R), toPage)
    <3>1. n \notin Good(R)
      BY <2>2 DEF Good
    <3> QED
      BY <1>1, <2>1, <2>2, <3>1, JoinLine
  <2>7. Before(M, W, Append(toPage, n)) /\ Followed(M, Truthful(c), {}, Append(toPage, n))
    <3>1. Before(M, W, toPage) /\ Followed(M, Truthful(c), {}, toPage)
      BY DEF ServicesInv, Announced, M, W
    <3>2. Followed(M, Truthful(c), {}, Append(toPage, n))
      BY <1>1, <2>1, <2>2, <3>1, FollowedJoined
    <3>3. Before(M, W, Append(toPage, n))
      BY <1>1, <2>1, <2>2, <3>1, LastJoins DEF Before
    <3> QED
      BY <3>2, <3>3
  <2>8. Followed(Good(L), SameAs(c), Told(c), Append(toPage, n))
    BY <1>1, <2>1, <2>3, FollowedJoined DEF ServicesInv, ListsFollow, L
  <2>9. MadeOnce(c)'
    BY <1>2, <2>1, <2>4 DEF ServicesInv, MadeOnce, M, R
  <2>10. NotYet(c)'
    BY <1>2, <2>1, <2>3, <2>5, <2>6 DEF ServicesInv, NotYet, M, W
  <2>11. Announced(c)' /\ Gone(c)'
    BY <1>2, <1>3, <2>1, <2>6, <2>7 DEF ServicesInv, Announced, Gone, M, R, W
  <2>12. MadeBefore(c)'
    BY <1>2, <2>1, <2>3, <2>4, <2>6 DEF ServicesInv, MadeBefore, M, R, W
  <2>13. ServicesShown(c)'
    BY <1>2, <2>1, <2>4, <2>6 DEF ServicesInv, ServicesShown, L
  <2>14. ListsFollow(c)'
    BY <1>2, <1>3, <2>1, <2>8 DEF ListsFollow, L
  <2> QED
    BY <2>9, <2>10, <2>11, <2>12, <2>13, <2>14 DEF ServicesInv
<1> QED
  BY <1>2, <1>4, <1>5

(* ... when a provider answers, ... *)
LEMMA ServicesByEnding ==
    ASSUME ConnTypes, AllIssued, NEW c \in Providers, ServicesInv(c), NEW k \in waiting, Ends(k)
    PROVE  ServicesInv(c)'
<1>1. requests \in Seq(Calls) /\ toPage \in Seq(Calls) /\ k \in Calls /\ k.kind \in WaitKinds
  BY EndsCalls DEF ConnTypes
<1>2. PICK n : EndedCall(k, n)
  BY EndsCalls
<1>3. /\ n \in Calls /\ Like(n, k) /\ toPage' = Append(toPage, n) /\ waiting' = waiting \ {k}
      /\ UNCHANGED <<requests, page, wizard, astray>> /\ spent'.made = spent.made
      /\ connections' = IF n.ok /\ n.kind = "create" THEN connections \cup {n.of}
                        ELSE IF n.ok /\ n.kind = "remove" THEN connections \ {n.of}
                        ELSE connections
  BY <1>2 DEF EndedCall
<1> DEFINE M == Making(c)
           R == Removing(c)
           L == ListsOf(page.open)
           W == ListsWith(c)
<1>4. /\ n \in M <=> k \in M
      /\ n \in R <=> k \in R
      /\ n \notin L /\ k \notin L /\ n \notin W /\ n \notin Good(L)
      /\ ~(n \in M /\ n \in R)
  <2>1. (n \in M <=> k \in M) /\ (n \in R <=> k \in R)
    BY <1>1, <1>3, RepliesAlike
  <2>2. n.kind \in WaitKinds
    BY <1>1, <1>3 DEF Like
  <2> QED
    BY <1>1, <2>1, <2>2 DEF WaitKinds, ListsOf, OfOpening, ListsWith, Good, Making, Removing
<1>5. /\ n \in M => (c \in connections' <=> n.ok \/ c \in connections)
      /\ n \in R => (c \in connections' <=> ~n.ok /\ c \in connections)
      /\ n \notin M /\ n \notin R => (c \in connections' <=> c \in connections)
      /\ n \in Told(c) <=> n.ok /\ (n \in M \/ n \in R)
  BY <1>3 DEF Making, Removing, Told, Good
<1>6. /\ AtMostOne(M, requests, waiting, toPage)
      /\ OnWay(M, requests, waiting, toPage) =>
             c \in spent.made /\ c \notin page.services /\ ~OnWay(R, requests, waiting, toPage)
      /\ InLine(M, requests) \/ (\E m \in waiting : m \in M) =>
             c \notin connections /\ ~InLine(W, toPage)
      /\ Followed(M, Truthful(c), {}, toPage) /\ Before(M, W, toPage)
      /\ OnWay(R, requests, waiting, toPage) \/ c \in page.services
           \/ c \in connections \/ InLine(W, toPage) => c \in spent.made
      /\ InLine(Good(R), toPage) => c \notin connections
      /\ page.open > 0 /\ "services" \notin astray /\ ~OnWay(L, requests, waiting, toPage) =>
             (c \in page.services <=> c \in connections) \/ InLine(Told(c), toPage)
      /\ Followed(Good(L), SameAs(c), Told(c), toPage)
  BY DEF ServicesInv, MadeOnce, NotYet, Announced, MadeBefore, Gone, ServicesShown, ListsFollow
<1>7. /\ n \in M => n \in Truthful(c)' <=> (n.ok <=> c \in connections')
      /\ (c \in connections' <=> c \in connections) =>
             Truthful(c)' = Truthful(c) /\ SameAs(c)' = SameAs(c)
  BY <1>3 DEF Truthful, SameAs
<1>8. n \in M => ~OnWay(R, requests, waiting, toPage) /\ c \notin connections /\ ~InLine(W, toPage)
                 /\ ~InLine(M, requests) /\ ~InLine(M, toPage) /\ c \in spent.made
                 /\ \A m \in waiting \ {k} : m \notin M
  BY <1>4, <1>6 DEF AtMostOne, OnWay
<1>9. n \in R => ~OnWay(M, requests, waiting, toPage) /\ c \in spent.made
  BY <1>4, <1>6 DEF OnWay
<1>10. n \in Good(R) <=> n \in R /\ n.ok
  BY DEF Good
<1> HIDE DEF M, R, L, W
<1>11. /\ OnWay(M, requests, waiting \ {k}, Append(toPage, n)) <=> OnWay(M, requests, waiting, toPage)
       /\ OnWay(R, requests, waiting \ {k}, Append(toPage, n)) <=> OnWay(R, requests, waiting, toPage)
       /\ OnWay(L, requests, waiting \ {k}, Append(toPage, n)) <=> OnWay(L, requests, waiting, toPage)
       /\ AtMostOne(M, requests, waiting \ {k}, Append(toPage, n))
  BY <1>1, <1>3, <1>4, <1>6, CallEnded
<1>12. /\ InLine(W, Append(toPage, n)) <=> InLine(W, toPage)
       /\ InLine(Told(c), Append(toPage, n)) <=> InLine(Told(c), toPage) \/ n \in Told(c)
       /\ InLine(Good(R), Append(toPage, n)) <=> InLine(Good(R), toPage) \/ n \in Good(R)
       /\ InLine(M, Append(toPage, n)) <=> InLine(M, toPage) \/ n \in M
  BY <1>1, <1>3, <1>4, JoinLine
<1>13. MadeOnce(c)'
  BY <1>3, <1>6, <1>11 DEF MadeOnce, M, R
<1>14. NotYet(c)'
  <2>1. InLine(M, requests) \/ (\E m \in waiting \ {k} : m \in M) =>
            c \notin connections' /\ ~InLine(W, Append(toPage, n))
    BY <1>5, <1>6, <1>8, <1>12
  <2> QED
    BY <1>3, <2>1 DEF NotYet, M, W
<1>15. Before(M, W, Append(toPage, n))
  BY <1>1, <1>3, <1>4, <1>6, <1>8, LastJoins DEF Before
<1>16. Followed(M, Truthful(c)', {}, Append(toPage, n))
  <2>1. CASE n \in M
    <3>1. n \in Truthful(c)'
      BY <1>5, <1>7, <1>8, <2>1
    <3> QED
      BY <1>1, <1>3, <1>8, <2>1, <3>1, FollowedJoined
  <2>2. CASE n \in R
    <3>1. ~InLine(M, toPage) /\ n \notin M
      BY <1>4, <1>9, <2>2 DEF OnWay
    <3> QED
      BY <1>1, <1>3, <3>1, FollowedJoined
  <2>3. CASE n \notin M /\ n \notin R
    <3>1. Truthful(c)' = Truthful(c)
      BY <1>5, <1>7, <2>3
    <3> QED
      BY <1>1, <1>3, <1>6, <2>3, <3>1, FollowedJoined
  <2> QED
    BY <2>1, <2>2, <2>3
<1>17. Announced(c)'
  BY <1>3, <1>15, <1>16 DEF Announced, M, W
<1>18. MadeBefore(c)'
  <2>1. OnWay(R, requests, waiting, toPage) \/ c \in page.services
           \/ c \in connections' \/ InLine(W, toPage) => c \in spent.made
    BY <1>5, <1>6, <1>8
  <2> QED
    BY <1>3, <1>11, <1>12, <2>1 DEF MadeBefore, R, W
<1>19. Gone(c)'
  <2>1. InLine(Good(R), toPage) \/ n \in Good(R) => c \notin connections'
    <3>1. InLine(Good(R), toPage) => OnWay(R, requests, waiting, toPage)
      BY DEF InLine, OnWay, Good
    <3> QED
      BY <1>5, <1>6, <1>8, <1>9, <1>10, <3>1
  <2> QED
    BY <1>3, <1>12, <2>1 DEF Gone, R
<1>20. n \in Told(c) \/ (c \in connections' <=> c \in connections)
  BY <1>5
<1>21. ServicesShown(c)'
  BY <1>3, <1>6, <1>11, <1>12, <1>20 DEF ServicesShown, L
<1>22. Followed(Good(L), SameAs(c)', Told(c), Append(toPage, n))
  BY <1>1, <1>3, <1>4, <1>6, <1>7, <1>20, FollowedJoined
<1>23. ListsFollow(c)'
  BY <1>3, <1>22 DEF ListsFollow, L
<1> QED
  BY <1>13, <1>14, <1>17, <1>18, <1>19, <1>21, <1>23 DEF ServicesInv

(* ... and when the page receives. *)
ServicesTold(c, m) ==
    IF m \in ListsOf(page.open)
    THEN IF m.ok THEN page'.services = m.listed ELSE page'.services = page.services /\ "services" \in astray'
    ELSE /\ "services" \in astray => "services" \in astray'
         /\ \/ m \notin Told(c) /\ (c \in page'.services <=> c \in page.services)
            \/ m \in Good(Making(c)) /\ c \in page'.services
            \/ m \in Good(Removing(c)) /\ c \notin page'.services
            \/ page'.services = page.services /\ "services" \in astray'

LEMMA ReceivesServices ==
    ASSUME ConnTypes, NEW c \in Providers, Receive, NEW m, m = Head(toPage)
    PROVE  ServicesTold(c, m)
<1>1. m \in Calls /\ m.ok \in BOOLEAN /\ page \in Pages
  BY Receives, FieldsOfCalls DEF ConnTypes
<1>2. \/ m.open = page.open /\ (ListShown(m) \/ BindingsShown(m) \/ Connected(m) \/ ModelsShown(m)
                        \/ Saved(m) \/ Removed(m))
      \/ /\ m.open # page.open /\ UNCHANGED <<page, wizard>>
         /\ astray' = IF m.ok /\ m.kind \in {"create", "remove"}
                      THEN astray \cup {"services"} ELSE astray
  BY DEF Receive, Here
<1>3. /\ m \in ListsOf(page.open) <=> m.kind = "list" /\ m.open = page.open
      /\ m \in Good(Making(c)) <=> m.kind = "create" /\ m.of = c /\ m.ok
      /\ m \in Good(Removing(c)) <=> m.kind = "remove" /\ m.of = c /\ m.ok
      /\ m \in Told(c) <=> m.kind \in {"create", "remove"} /\ m.of = c /\ m.ok
  BY <1>1 DEF ListsOf, OfOpening, Making, Removing, Told, Good
<1>4. CASE /\ m.open # page.open /\ UNCHANGED <<page, wizard>>
           /\ astray' = IF m.ok /\ m.kind \in {"create", "remove"}
                        THEN astray \cup {"services"} ELSE astray
  <2>1. m \notin ListsOf(page.open) /\ page'.services = page.services
        /\ ("services" \in astray => "services" \in astray')
        /\ (m \in Told(c) => "services" \in astray')
    BY <1>3, <1>4
  <2> QED
    BY <2>1 DEF ServicesTold
<1>5. CASE m.open = page.open /\ ListShown(m)
  <2>1. m \in ListsOf(page.open)
    BY <1>3, <1>5 DEF ListShown
  <2>2. m.ok => page'.services = m.listed
    <3>1. m.ok => page' = [page EXCEPT !.services = m.listed]
      BY <1>5 DEF ListShown
    <3> QED
      BY <1>1, <3>1 DEF Pages
  <2>3. ~m.ok => page' = page /\ "services" \in astray'
    BY <1>5 DEF ListShown
  <2> QED
    BY <2>1, <2>2, <2>3 DEF ServicesTold
<1>6. CASE m.open = page.open /\ (BindingsShown(m) \/ ModelsShown(m))
  <2>1. \/ page' = page
        \/ page' = [page EXCEPT !.catalog = m.listed]
        \/ page' = [page EXCEPT !.catalog = m.listed, !.bindings = m.bindings,
                                !.embedding = m.bindings.embedding]
    BY <1>6 DEF BindingsShown, ModelsShown
  <2>2. page'.services = page.services
    BY <1>1, <2>1 DEF Pages
  <2>3. m.kind \in {"load", "refresh", "models"} /\ ("services" \in astray => "services" \in astray')
    BY <1>6 DEF BindingsShown, ModelsShown
  <2> QED
    BY <1>3, <2>2, <2>3 DEF ServicesTold
<1>7. CASE m.open = page.open /\ Connected(m)
  <2>1. m.kind = "create" /\ astray' = astray
    BY <1>7 DEF Connected
  <2>2. m.ok => c \in page'.services <=> c \in page.services \/ c = m.of
    <3>1. m.ok => page' = [page EXCEPT !.services = @ \cup {m.of}]
      BY <1>7 DEF Connected
    <3> QED
      BY <1>1, <3>1 DEF Pages
  <2>3. ~m.ok => page' = page
    BY <1>7 DEF Connected
  <2> QED
    BY <1>1, <1>3, <2>1, <2>2, <2>3 DEF ServicesTold
<1>8. CASE m.open = page.open /\ Saved(m)
  <2>1. PICK e : e = (page.embeddingSaving /\ m.kind # "embedding")
    OBVIOUS
  <2>2. \/ page' = [page EXCEPT !.bindings = m.bindings, !.embeddingSaving = e]
        \/ page' = [page EXCEPT !.embeddingSaving = e]
    BY <1>8, <2>1 DEF Saved
  <2>3. page'.services = page.services
    BY <1>1, <2>2 DEF Pages
  <2>4. m.kind \in {"embedding", "bind"} /\ ("services" \in astray => "services" \in astray')
    BY <1>8 DEF Saved
  <2> QED
    BY <1>3, <2>3, <2>4 DEF ServicesTold
<1>9. CASE m.open = page.open /\ Removed(m)
  <2>1. m.kind = "remove" /\ astray' = astray
    BY <1>9 DEF Removed
  <2>2. m.ok => c \in page'.services <=> c \in page.services /\ c # m.of
    <3>1. m.ok => page' = [page EXCEPT !.services = @ \ {m.of}, !.confirm = None, !.removing = None]
      BY <1>9 DEF Removed
    <3>2. m.ok => page'.services = page.services \ {m.of}
      BY <1>1, <3>1 DEF Pages
    <3> QED
      BY <3>2
  <2>3. ~m.ok => page'.services = page.services
    <3>1. ~m.ok => page' = [page EXCEPT !.removing = None]
      BY <1>9 DEF Removed
    <3> QED
      BY <1>1, <3>1 DEF Pages
  <2> QED
    BY <1>1, <1>3, <2>1, <2>2, <2>3 DEF ServicesTold
<1> QED
  BY <1>2, <1>4, <1>5, <1>6, <1>7, <1>8, <1>9

LEMMA ServicesByReceiving ==
    ASSUME ConnTypes, AllIssued, NEW c \in Providers, ServicesInv(c), Receive
    PROVE  ServicesInv(c)'
<1>1. requests \in Seq(Calls) /\ toPage \in Seq(Calls)
  BY DEF ConnTypes
<1>2. PICK m : m = Head(toPage)
  OBVIOUS
<1>3. /\ toPage # <<>> /\ m \in Calls /\ toPage' = Tail(toPage)
      /\ UNCHANGED <<connections, waiting, spent>>
      /\ \/ requests' = requests
         \/ \E n : CallAfter(n, m) /\ requests' = Append(requests, n)
  BY <1>2, Receives
<1>4. page'.open = page.open
  BY ReceiveShows DEF SameTags
<1>5. ServicesTold(c, m)
  BY <1>2, ReceivesServices
<1>6. Truthful(c)' = Truthful(c) /\ SameAs(c)' = SameAs(c)
  BY <1>3, NamedSetsStay
<1> DEFINE M == Making(c)
           R == Removing(c)
           L == ListsOf(page.open)
           W == ListsWith(c)
<1>7. \A n : CallAfter(n, m) => n \in Calls /\ n \notin M /\ n \notin R /\ n \notin L
  BY DEF CallAfter, Making, Removing, ListsOf, OfOpening
<1>8. /\ m \in Good(L) <=> m \in L /\ m.ok
      /\ m \in Good(M) <=> m \in M /\ m.ok
      /\ m \in Good(R) <=> m \in R /\ m.ok
      /\ m \in L /\ m.ok /\ c \in m.listed => m \in W
      /\ m \in SameAs(c) <=> (c \in m.listed <=> c \in connections)
      /\ m \in Truthful(c) <=> (m.ok <=> c \in connections)
      /\ m \in L => m \notin Told(c)
  BY <1>3 DEF Good, ListsOf, OfOpening, ListsWith, SameAs, Truthful, Told, Making, Removing
<1>9. /\ AtMostOne(M, requests, waiting, toPage)
      /\ OnWay(M, requests, waiting, toPage) =>
             c \in spent.made /\ c \notin page.services /\ ~OnWay(R, requests, waiting, toPage)
      /\ InLine(M, requests) \/ (\E k \in waiting : k \in M) =>
             c \notin connections /\ ~InLine(W, toPage)
      /\ Followed(M, Truthful(c), {}, toPage) /\ Before(M, W, toPage)
      /\ OnWay(R, requests, waiting, toPage) \/ c \in page.services
           \/ c \in connections \/ InLine(W, toPage) => c \in spent.made
      /\ InLine(Good(R), toPage) => c \notin connections
      /\ page.open > 0 /\ "services" \notin astray /\ ~OnWay(L, requests, waiting, toPage) =>
             (c \in page.services <=> c \in connections) \/ InLine(Told(c), toPage)
      /\ Followed(Good(L), SameAs(c), Told(c), toPage)
  BY DEF ServicesInv, MadeOnce, NotYet, Announced, MadeBefore, Gone, ServicesShown, ListsFollow
<1> HIDE DEF M, R, L, W
<1>10. /\ OnWay(M, requests, waiting, toPage) <=> OnWay(M, requests, waiting, Tail(toPage)) \/ m \in M
       /\ OnWay(R, requests, waiting, toPage) <=> OnWay(R, requests, waiting, Tail(toPage)) \/ m \in R
       /\ OnWay(L, requests, waiting, toPage) <=> OnWay(L, requests, waiting, Tail(toPage)) \/ m \in L
       /\ AtMostOne(M, requests, waiting, Tail(toPage))
       /\ m \in M => ~OnWay(M, requests, waiting, Tail(toPage))
  BY <1>1, <1>2, <1>3, <1>9, Taken
<1>11. /\ OnWay(M, requests', waiting, Tail(toPage)) <=> OnWay(M, requests, waiting, Tail(toPage))
       /\ OnWay(R, requests', waiting, Tail(toPage)) <=> OnWay(R, requests, waiting, Tail(toPage))
       /\ OnWay(L, requests', waiting, Tail(toPage)) <=> OnWay(L, requests, waiting, Tail(toPage))
       /\ AtMostOne(M, requests', waiting, Tail(toPage))
       /\ InLine(M, requests') <=> InLine(M, requests)
  <2>1. ASSUME NEW n, CallAfter(n, m)
        PROVE  LET r == Append(requests, n) IN
               /\ OnWay(M, r, waiting, Tail(toPage)) <=> OnWay(M, requests, waiting, Tail(toPage))
               /\ OnWay(R, r, waiting, Tail(toPage)) <=> OnWay(R, requests, waiting, Tail(toPage))
               /\ OnWay(L, r, waiting, Tail(toPage)) <=> OnWay(L, requests, waiting, Tail(toPage))
               /\ AtMostOne(M, r, waiting, Tail(toPage))
               /\ InLine(M, r) <=> InLine(M, requests)
    BY <1>1, <1>7, <1>10, <2>1, Asked, JoinLine
  <2> QED
    BY <1>3, <1>10, <2>1
<1>12. /\ InLine(W, toPage) <=> InLine(W, Tail(toPage)) \/ m \in W
       /\ InLine(M, toPage) <=> InLine(M, Tail(toPage)) \/ m \in M
       /\ InLine(Told(c), toPage) <=> InLine(Told(c), Tail(toPage)) \/ m \in Told(c)
       /\ InLine(Good(R), toPage) <=> InLine(Good(R), Tail(toPage)) \/ m \in Good(R)
  BY <1>1, <1>2, <1>3, LeaveLine
<1>13. /\ Before(M, W, Tail(toPage))
       /\ m \in W => ~InLine(M, Tail(toPage))
  BY <1>1, <1>2, <1>3, <1>9, FirstLeaves DEF Before
<1>14. /\ Followed(M, Truthful(c), {}, Tail(toPage))
       /\ m \in M => m \in Truthful(c) \/ InLine({}, Tail(toPage))
       /\ Followed(Good(L), SameAs(c), Told(c), Tail(toPage))
       /\ m \in Good(L) => m \in SameAs(c) \/ InLine(Told(c), Tail(toPage))
  BY <1>1, <1>2, <1>3, <1>9, FollowedLeft
<1>15. m \in M => m \in Truthful(c)
  BY <1>14 DEF InLine
<1>16. c \in page'.services => c \in page.services \/ m \in Good(M) \/ m \in W
  BY <1>5, <1>8 DEF ServicesTold, M, R, L
<1>17. MadeOnce(c)'
  <2>1. OnWay(M, requests, waiting, Tail(toPage)) =>
           c \in spent.made /\ c \notin page'.services /\ ~OnWay(R, requests, waiting, Tail(toPage))
    <3> SUFFICES ASSUME OnWay(M, requests, waiting, Tail(toPage))
                 PROVE  c \in spent.made /\ c \notin page'.services
                        /\ ~OnWay(R, requests, waiting, Tail(toPage))
      OBVIOUS
    <3>1. c \in spent.made /\ c \notin page.services /\ ~OnWay(R, requests, waiting, Tail(toPage))
      BY <1>9, <1>10
    <3>2. m \notin M
      BY <1>10
    <3>3. m \notin W
      BY <1>9, <1>12, <1>13 DEF OnWay
    <3> QED
      BY <1>8, <1>16, <3>1, <3>2, <3>3
  <2> QED
    BY <1>3, <1>11, <2>1 DEF MadeOnce, M, R
<1>18. NotYet(c)'
  BY <1>3, <1>9, <1>11, <1>12 DEF NotYet, M, W
<1>19. Announced(c)'
  BY <1>3, <1>6, <1>13, <1>14 DEF Announced, M, W
<1>20. MadeBefore(c)'
  <2>1. c \in page'.services => c \in spent.made
    BY <1>8, <1>9, <1>10, <1>12, <1>16
  <2> QED
    BY <1>3, <1>9, <1>10, <1>11, <1>12, <2>1 DEF MadeBefore, R, W
<1>21. Gone(c)'
  BY <1>3, <1>9, <1>12 DEF Gone, R
<1>22. ServicesShown(c)'
  <2> SUFFICES ASSUME page.open > 0, "services" \notin astray', ~OnWay(L, requests, waiting, Tail(toPage))
               PROVE  (c \in page'.services <=> c \in connections) \/ InLine(Told(c), Tail(toPage))
    BY <1>3, <1>4, <1>11 DEF ServicesShown, L
  <2>1. CASE m \in L
    <3>1. m.ok /\ page'.services = m.listed
      BY <1>5, <2>1 DEF ServicesTold, L
    <3> QED
      BY <1>8, <1>14, <2>1, <3>1
  <2>2. CASE m \notin L
    <3>1. "services" \notin astray /\ ~OnWay(L, requests, waiting, toPage)
      BY <1>5, <1>10, <2>2 DEF ServicesTold, L
    <3>2. \/ m \notin Told(c) /\ (c \in page'.services <=> c \in page.services)
          \/ m \in Good(M) /\ c \in page'.services
          \/ m \in Good(R) /\ c \notin page'.services
      BY <1>5, <2>2 DEF ServicesTold, L, M, R
    <3> QED
      BY <1>8, <1>9, <1>12, <1>15, <3>1, <3>2
  <2> QED
    BY <2>1, <2>2
<1>23. ListsFollow(c)'
  BY <1>3, <1>4, <1>6, <1>14 DEF ListsFollow, L
<1> QED
  BY <1>17, <1>18, <1>19, <1>20, <1>21, <1>22, <1>23 DEF ServicesInv

(* A list is asked for each time the page is opened. *)
LEMMA ServicesByOpening ==
    ASSUME ConnTypes, AllIssued, NEW c \in Providers, ServicesInv(c), OpenPage
    PROVE  ServicesInv(c)'
<1>1. requests \in Seq(Calls) /\ toPage \in Seq(Calls) /\ waiting \in SUBSET Calls
      /\ page.open \in Nat /\ page.workspace \in Workspaces \cup {None}
  BY DEF ConnTypes, Pages
<1>2. /\ page'.open = page.open + 1
      /\ page' = NewPage(page.workspace, page.open + 1)
      /\ UNCHANGED <<connections, waiting, toPage, spent>>
  BY Opens
<1>3. page'.services = {}
  BY <1>2 DEF NewPage
<1>4. PICK a, b : a \in Calls /\ a.kind = "list" /\ a.open = page'.open /\ AsksFor(a, b)
  BY Opens
<1> DEFINE M == Making(c)
           R == Removing(c)
           L == ListsOf(page'.open)
           r == Append(requests, a)
<1>5. ~InLine(Good(L), toPage)
  <2>1. L \subseteq Misplaced(page)
    <3> SUFFICES ASSUME NEW m \in Calls, m.open = page'.open PROVE m \in Misplaced(page)
      BY DEF ListsOf, OfOpening
    <3>1. ~(m.open <= page.open)
      BY <1>1, <1>2
    <3> QED
      BY <3>1 DEF Misplaced, Issued
  <2>2. ~OnWay(L, requests, waiting, toPage)
    BY <2>1, FewerOnWay DEF AllIssued
  <2> QED
    BY <2>2 DEF OnWay, InLine, Good
<1>6. a \notin M /\ a \notin R /\ a \in L
  BY <1>4 DEF Making, Removing, ListsOf, OfOpening
<1>7. LoadCall(b, page') => b \in Calls /\ b \notin M /\ b \notin R
  BY DEF LoadCall, LoadsOf, Making, Removing
<1>8. Truthful(c)' = Truthful(c) /\ SameAs(c)' = SameAs(c)
  BY <1>2, NamedSetsStay
<1>9. AtMostOne(M, requests, waiting, toPage)
  BY DEF ServicesInv, MadeOnce
<1> HIDE DEF M, R, L
<1>10. /\ r \in Seq(Calls) /\ OnWay(L, r, waiting, toPage)
       /\ AtMostOne(M, r, waiting, toPage)
       /\ OnWay(M, r, waiting, toPage) <=> OnWay(M, requests, waiting, toPage)
       /\ OnWay(R, r, waiting, toPage) <=> OnWay(R, requests, waiting, toPage)
       /\ InLine(M, r) <=> InLine(M, requests)
  BY <1>1, <1>4, <1>6, <1>9, JoinedLine, JoinLine, Asked
<1> HIDE DEF r
<1>11. /\ OnWay(L, requests', waiting, toPage)
       /\ AtMostOne(M, requests', waiting, toPage)
       /\ OnWay(M, requests', waiting, toPage) <=> OnWay(M, requests, waiting, toPage)
       /\ OnWay(R, requests', waiting, toPage) <=> OnWay(R, requests, waiting, toPage)
       /\ InLine(M, requests') <=> InLine(M, requests)
  <2>1. CASE requests' = r
    BY <1>10, <2>1
  <2>2. CASE LoadCall(b, page') /\ requests' = Append(r, b)
    <3>1. OnWay(L, Append(r, b), waiting, toPage)
      BY <1>7, <1>10, <2>2, Asked
    <3> QED
      BY <1>7, <1>10, <2>2, <3>1, JoinLine, Asked
  <2> QED
    BY <1>4, <2>1, <2>2 DEF AsksFor, r
<1>12. MadeOnce(c)' /\ NotYet(c)' /\ MadeBefore(c)'
  BY <1>2, <1>3, <1>11 DEF ServicesInv, MadeOnce, NotYet, MadeBefore, M, R
<1>13. Announced(c)' /\ Gone(c)'
  BY <1>2, <1>8 DEF ServicesInv, Announced, Gone
<1>14. ServicesShown(c)'
  BY <1>2, <1>11 DEF ServicesShown, L
<1>15. ListsFollow(c)'
  BY <1>2, <1>5 DEF ListsFollow, L, Followed, InLine
<1> QED
  BY <1>12, <1>13, <1>14, <1>15 DEF ServicesInv

LEMMA ServicesByOther ==
    ASSUME ConnTypes, NEW c \in Providers, ServicesInv(c), ServicesAlike, spent'.made = spent.made,
           UNCHANGED <<waiting, toPage>>,
           NEW n \in Calls, requests' = Append(requests, n), n.kind \notin {"list", "create", "remove"}
    PROVE  ServicesInv(c)'
<1>1. n \notin Making(c) /\ n \notin Removing(c) /\ n.kind # "list"
  BY DEF Making, Removing
<1> QED
  BY <1>1, ServicesByAsking

LEMMA ServicesStay ==
    ASSUME NamesApart, ConnTypes, AllIssued, NEW c \in Providers, ServicesInv(c), [ConnNext]_connVars
    PROVE  ServicesInv(c)'
<1>0. page \in Pages /\ wizard \in Wizards
  BY DEF ConnTypes
<1>1. CASE UNCHANGED connVars
  BY <1>1, ServicesByQuiet DEF connVars, ServicesAlike
<1>2. CASE OpenPage
  BY <1>2, ServicesByOpening
<1>3. ASSUME NEW v \in Workspaces \cup {None}, Choose(v) PROVE ServicesInv(c)'
  <2>1. /\ page'.open = page.open /\ page'.services = page.services
        /\ UNCHANGED <<connections, available, stored, waiting, toPage, wizard, spent>>
        /\ \/ v = None /\ requests' = requests /\ astray' = astray \ {"bindings"}
           \/ /\ v # None /\ astray' = astray \cup {"bindings"}
              /\ \E b : LoadCall(b, page') /\ requests' = Append(requests, b)
    BY <1>3, Chooses
  <2>2. ServicesAlike
    BY <2>1 DEF ServicesAlike
  <2>3. CASE requests' = requests
    BY <2>1, <2>2, <2>3, ServicesByQuiet
  <2>4. ASSUME NEW b, LoadCall(b, page'), requests' = Append(requests, b) PROVE ServicesInv(c)'
    <3>1. b \in Calls /\ b.kind = "load"
      BY <2>4 DEF LoadCall, LoadsOf
    <3> QED
      BY <2>1, <2>2, <2>4, <3>1, ServicesByOther
  <2> QED
    BY <2>1, <2>3, <2>4
<1>4. ASSUME NEW p \in Providers \cup {None}, ChooseEmbedding(p) PROVE ServicesInv(c)'
  <2>1. page' = [page EXCEPT !.embedding = p]
        /\ UNCHANGED <<connections, requests, waiting, toPage, spent, astray>>
    BY <1>4 DEF ChooseEmbedding, mainVars
  <2>2. ServicesAlike
    BY <1>0, <2>1 DEF Pages, ServicesAlike
  <2> QED
    BY <2>1, <2>2, ServicesByQuiet
<1>5. CASE KeepConnection
  <2>1. page' = [page EXCEPT !.confirm = None]
        /\ UNCHANGED <<connections, requests, waiting, toPage, spent, astray>>
    BY <1>5 DEF KeepConnection, mainVars
  <2>2. ServicesAlike
    BY <1>0, <2>1 DEF Pages, ServicesAlike
  <2> QED
    BY <2>1, <2>2, ServicesByQuiet
<1>6. ASSUME NEW p \in Providers, OpenModels(p) PROVE ServicesInv(c)'
  <2>1. /\ UNCHANGED <<connections, available, stored, waiting, toPage, page, spent, astray>>
        /\ \E n : NewCall(n, "refresh", p) /\ requests' = Append(requests, n)
    BY <1>6, ModelsAsk
  <2>2. ServicesAlike
    BY <2>1 DEF ServicesAlike
  <2>3. ASSUME NEW n, NewCall(n, "refresh", p), requests' = Append(requests, n) PROVE ServicesInv(c)'
    <3>1. n \in Calls /\ n.kind = "refresh"
      BY <2>3 DEF NewCall
    <3> QED
      BY <2>1, <2>2, <2>3, <3>1, ServicesByOther
  <2> QED
    BY <2>1, <2>3
<1>7. ASSUME NEW p \in Providers, Remove(p) PROVE ServicesInv(c)'
  <2>1. /\ UNCHANGED <<connections, available, stored, waiting, toPage, wizard, spent, astray>>
        /\ p \in page.services
        /\ \/ page' = [page EXCEPT !.confirm = p] /\ requests' = requests
           \/ /\ page' = [page EXCEPT !.removing = p]
              /\ \E n : NewCall(n, "remove", p) /\ requests' = Append(requests, n)
    BY <1>7, RemoveAsks
  <2>2. ServicesAlike
    BY <1>0, <2>1 DEF Pages, ServicesAlike
  <2>3. CASE requests' = requests
    BY <2>1, <2>2, <2>3, ServicesByQuiet
  <2>4. ASSUME NEW n, NewCall(n, "remove", p), requests' = Append(requests, n) PROVE ServicesInv(c)'
    <3>1. n \in Calls /\ n.kind = "remove" /\ n.of = p
      BY <2>4 DEF NewCall
    <3>2. n \notin Making(c) /\ (n \in Removing(c) => c \in page.services)
      BY <2>1, <3>1 DEF Making, Removing
    <3> QED
      BY <2>1, <2>2, <2>4, <3>1, <3>2, ServicesByAsking
  <2> QED
    BY <2>1, <2>3, <2>4
<1>8. CASE SaveEmbedding
  <2>1. /\ spent'.made = spent.made /\ page' = [page EXCEPT !.embeddingSaving = TRUE]
        /\ UNCHANGED <<connections, available, stored, waiting, toPage, wizard, astray>>
        /\ \E n, b : SaveCall(n, "embedding", b) /\ requests' = Append(requests, n)
    BY <1>8, EmbeddingAsks
  <2>2. ServicesAlike
    BY <1>0, <2>1 DEF Pages, ServicesAlike
  <2>3. ASSUME NEW n, NEW b, SaveCall(n, "embedding", b), requests' = Append(requests, n)
        PROVE  ServicesInv(c)'
    <3>1. n \in Calls /\ n.kind = "embedding"
      BY <2>3 DEF SaveCall
    <3> QED
      BY <2>1, <2>2, <2>3, <3>1, ServicesByOther
  <2> QED
    BY <2>1, <2>3
<1>9. CASE UseModel
  <2>1. /\ spent'.made = spent.made
        /\ UNCHANGED <<connections, available, stored, waiting, toPage, page, astray>>
        /\ \E n, b : SaveCall(n, "bind", b) /\ requests' = Append(requests, n)
    BY <1>9, ModelAsks
  <2>2. ServicesAlike
    BY <2>1 DEF ServicesAlike
  <2>3. ASSUME NEW n, NEW b, SaveCall(n, "bind", b), requests' = Append(requests, n)
        PROVE  ServicesInv(c)'
    <3>1. n \in Calls /\ n.kind = "bind"
      BY <2>3 DEF SaveCall
    <3> QED
      BY <2>1, <2>2, <2>3, <3>1, ServicesByOther
  <2> QED
    BY <2>1, <2>3
<1>10. CASE PickService \/ Back
  <2>1. UNCHANGED <<connections, requests, waiting, toPage, page, spent, astray>>
    BY <1>10 DEF PickService, Back, mainVars
  <2> QED
    BY <2>1, ServicesByQuiet DEF ServicesAlike
<1>11. CASE Connect
  <2>1. /\ UNCHANGED <<connections, available, stored, waiting, toPage, page, astray>>
        /\ \E p \in Providers : \E n :
              /\ NewCall(n, "create", p) /\ requests' = Append(requests, n)
              /\ p \notin spent.made /\ spent'.made = spent.made \cup {p}
    BY <1>11, ConnectAsks
  <2>2. ServicesAlike
    BY <2>1 DEF ServicesAlike
  <2>3. ASSUME NEW p \in Providers, NEW n, NewCall(n, "create", p), requests' = Append(requests, n),
               p \notin spent.made, spent'.made = spent.made \cup {p}
        PROVE  ServicesInv(c)'
    <3>1. n \in Calls /\ n.kind = "create" /\ n.of = p
      BY <2>3 DEF NewCall
    <3>2. n \notin Removing(c) /\ (n \in Making(c) => c \notin spent.made /\ c \in spent'.made)
      BY <2>3, <3>1 DEF Making, Removing
    <3> QED
      BY <2>1, <2>2, <2>3, <3>1, <3>2, ServicesByAsking
  <2> QED
    BY <2>1, <2>3
<1>12. CASE Handle
  BY <1>12, ServicesByHandling
<1>13. CASE Receive
  BY <1>13, ServicesByReceiving
<1>14. ASSUME NEW q \in waiting, Ends(q) PROVE ServicesInv(c)'
  BY <1>14, ServicesByEnding
<1> QED
  BY <1>1, <1>2, <1>3, <1>4, <1>5, <1>6, <1>7, <1>8, <1>9, <1>10, <1>11, <1>12, <1>13, <1>14
     DEF ConnNext

LEMMA ServicesAtFirst ==
    ASSUME NamesApart, ConnInit, NEW c \in Providers
    PROVE  ServicesInv(c)
<1>1. /\ requests = <<>> /\ waiting = {} /\ toPage = <<>>
      /\ connections = {FirstProvider} /\ spent.made = {FirstProvider}
      /\ page.open = 0 /\ page.services = {}
  BY DEF ConnInit, NewPage
<1>2. AtMostOne(Making(c), requests, waiting, toPage)
      /\ ~OnWay(Making(c), requests, waiting, toPage) /\ ~OnWay(Removing(c), requests, waiting, toPage)
  BY <1>1, NothingOnWay
<1>3. MadeOnce(c) /\ NotYet(c)
  BY <1>1, <1>2 DEF MadeOnce, NotYet, InLine
<1>4. Announced(c) /\ MadeBefore(c) /\ Gone(c) /\ ServicesShown(c) /\ ListsFollow(c)
  BY <1>1, <1>2 DEF Announced, MadeBefore, Gone, ServicesShown, ListsFollow, Followed, Before, InLine
<1> QED
  BY <1>3, <1>4 DEF ServicesInv

LEMMA ShownAtRest ==
    ASSUME ConnTypes, BindingsInv, \A c \in Providers : ServicesInv(c)
    PROVE  PageShowsStored
<1> SUFFICES ASSUME page.open > 0, AtRest
             PROVE  /\ page.services = connections \/ "services" \in astray
                    /\ page.workspace # None =>
                           page.bindings = stored[page.workspace] \/ "bindings" \in astray
  BY DEF PageShowsStored, Open
<1>1. \A M : ~OnWay(M, requests, waiting, toPage) /\ ~InLine(M, toPage)
  BY DEF AtRest, OnWay, InLine
<1>2. page.services = connections \/ "services" \in astray
  <2> SUFFICES ASSUME "services" \notin astray PROVE page.services = connections
    OBVIOUS
  <2>1. page.services \subseteq Providers /\ connections \subseteq Providers
    BY DEF ConnTypes, Pages
  <2>2. ASSUME NEW c \in Providers PROVE c \in page.services <=> c \in connections
    BY <1>1 DEF ServicesInv, ServicesShown
  <2> QED
    BY <2>1, <2>2
<1>3. page.workspace # None =>
          page.bindings = stored[page.workspace] \/ "bindings" \in astray
  BY <1>1 DEF BindingsInv, PageFollows, Loading
<1> QED
  BY <1>2, <1>3

(* With no call under way, the page shows the connections and the bindings that are   *)
(* stored, but for what `astray` records: a list that failed or was not told of a   *)
(* change, bindings of another workspace.                                       *)
THEOREM RestShowsStored ==
    ASSUME NamesApart
    PROVE  ConnSpec => []PageShowsStored
<1> DEFINE Shown == \A c \in Providers : ServicesInv(c)
           Inv == LocksInv /\ BindingsInv /\ Shown
<1>1. ConnInit => Inv
  BY LocksAtFirst, BindingsAtFirst, ServicesAtFirst
<1>2. Inv /\ [ConnNext]_connVars => Inv'
  <2> SUFFICES ASSUME Inv, [ConnNext]_connVars PROVE Inv'
    OBVIOUS
  <2>1. LocksInv' /\ BindingsInv'
    BY ConnTypesStay, LocksStay, BindingsStay DEF LocksInv
  <2>2. Shown'
    BY ServicesStay DEF LocksInv
  <2> QED
    BY <2>1, <2>2
<1>3. Inv => PageShowsStored
  BY ShownAtRest DEF LocksInv
<1> QED
  BY <1>1, <1>2, <1>3, PTL DEF ConnSpec

(* The bindings stored and shown are rows of their workspaces, and a model is chosen  *)
(* in the wizard only for the connection whose models it shows.                   *)
THEOREM ConnTypesKept ==
    ASSUME NamesApart, Workspaces # {}
    PROVE  ConnSpec => []ConnTypeOK
<1>1. ConnInit => LocksInv
  BY LocksAtFirst
<1>2. LocksInv /\ [ConnNext]_connVars => LocksInv'
  BY ConnTypesStay, LocksStay DEF LocksInv
<1>3. LocksInv => ConnTypeOK
  <2> SUFFICES ASSUME LocksInv PROVE ConnTypeOK
    OBVIOUS
  <2>1. page.bindings \in UNION {OfWorkspace(w) : w \in Workspaces}
    <3>1. page.bindings \in BindingRows
      BY DEF LocksInv, ConnTypes, Pages
    <3>2. \A w : NoBindings \in OfWorkspace(w)
      BY DEF OfWorkspace
    <3> QED
      BY <3>1, <3>2 DEF BindingRows
  <2>2. wizard.step \in {"list", "auth", "model"} /\ wizard.selected \in {None, wizard.provider}
    BY DEF LocksInv, ConnTypes, Wizards, Steps, StepsOf
  <2>3. page.services \subseteq Providers /\ page.catalog \subseteq Providers
    BY DEF LocksInv, ConnTypes, Pages
  <2> QED
    BY <2>1, <2>2, <2>3 DEF LocksInv, ConnTypes, ConnTypeOK
<1> QED
  BY <1>1, <1>2, <1>3, PTL DEF ConnSpec

================================================================================
