----------------------------- MODULE SemanticSearch -----------------------------
(* What the Semantic Index gives for a query, and what of it a prompt is given: *)
(* SemanticChunker cuts a file into units, SemanticRetrievalService ranks the   *)
(* units of the rows and verifies the best of them against the disk, and        *)
(* ContextAssemblyService (called by ai.send) puts what was found, with the     *)
(* memories and the index, in order and cuts it to a budget of tokens. A hash   *)
(* is the version of the text it is of, 0 for no file; scores are left to the   *)
(* choice of the ranking. A source of a prompt is known by its place; an        *)
(* excerpt is some blanks and then some letters, `copy` telling excerpts of one *)
(* size apart.                                                                 *)
EXTENDS Integers, Sequences, FiniteSets
Seqs == INSTANCE SequencesExt

CONSTANTS Texts,        \* the contents that are cut into units
          MaxCharacters,\* SEMANTIC_CHUNK_LIMITS.maxCharacters
          Files,        \* paths of the workspace
          Places,       \* places of a file a unit can be of
          SearchLimit,  \* the limit of the query
          MaxVersions,  \* bound: versions of a text
          Excerpts,     \* contents: [blanks, letters, copy]
          Relevances,   \* priority of the type and relevance, together
          Budgets,      \* CONTEXT_ASSEMBLY_LIMITS, in tokens
          CharactersPerToken,
          MaxGathered   \* bound: sources of one prompt

VARIABLES onDisk,       \* path -> version of its text
          indexRows,    \* path -> observed and analyzed hash of its index row
          units,        \* semantic_units: path, place and source hash
          search,       \* where the search is, its candidates
          validity,     \* path -> what the verification of its first unit told
          readAs,       \* history: path -> version the verification read
          reindexed     \* history: units replaced while the query was embedded

searchVars == <<onDisk, indexRows, units, search, validity, readAs, reindexed>>

-----------------------------------------------------------------------------
(* positionAt and offsetAt of a text, whose line ends are "n", or "r" "n". *)
Newlines(text, last) == Cardinality({i \in 1 .. last : text[i] = "n"})
LineStart(text, line) ==
    IF line = 1 THEN 0
    ELSE CHOOSE i \in 1 .. Len(text) : text[i] = "n" /\ Newlines(text, i) = line - 1

PositionAt(text, offset) ==
    LET line == 1 + Newlines(text, offset)
    IN [line |-> line, column |-> offset - LineStart(text, line) + 1]

Least(a, b) == IF a < b THEN a ELSE b
OffsetAt(text, position) ==
    Least(Len(text), LineStart(text, position.line) + position.column - 1)

(* The lines TypeScript counts for a symbol: a lone "r" ends one as well. *)
EndsLine(text, i) ==
    \/ text[i] = "n"
    \/ text[i] = "r" /\ (i = Len(text) \/ text[i + 1] # "n")
ParserLines(text, last) == {i \in 1 .. last : EndsLine(text, i)}
ParserPosition(text, offset) ==
    LET ends == ParserLines(text, offset)
        start == IF ends = {} THEN 0 ELSE CHOOSE i \in ends : \A j \in ends : j <= i
    IN [line |-> 1 + Cardinality(ends), column |-> offset - start + 1]

(* splitText: the offsets of the pieces a long text is cut into; an empty text   *)
(* is one empty piece.                                                         *)
Pieces(start, end) ==
    LET count == (end - start + MaxCharacters - 1) \div MaxCharacters
    IN  IF start = end THEN <<<<start, end>>>>
        ELSE [k \in 1 .. count |-> <<start + (k - 1) * MaxCharacters,
                                    Least(end, start + k * MaxCharacters)>>]

(* A heading that begins at i: one to six "#" at the start of a line, a blank     *)
(* or line end, and after those a character that is no line end. 0, or where the *)
(* line of that character ends.                                                *)
Blank == {" ", "n", "r"}
LineEnd == {"n", "r"}
HeadingEnd(text, i) ==
    LET marks == {j \in i + 1 .. Least(Len(text), i + 6) : \A k \in i .. j - 1 : text[k] = "#"}
        titles == {m \in i + 2 .. Len(text) :
                     /\ text[m] \notin LineEnd
                     /\ \E j \in marks : j < m /\ \A k \in j .. m - 1 : text[k] \in Blank}
        title == CHOOSE m \in titles : \A k \in titles : k <= m
    IN  IF titles = {} \/ (i > 1 /\ text[i - 1] \notin LineEnd) THEN 0
        ELSE CHOOSE e \in title .. Len(text) :
                /\ \A k \in title .. e : text[k] \notin LineEnd
                /\ e = Len(text) \/ text[e + 1] \in LineEnd

(* markdownSections: from each heading to the next, which begins after it ends. *)
Headings(text) ==
    LET from[i \in 1 .. Len(text) + 1] ==
            IF i > Len(text) THEN {}
            ELSE IF HeadingEnd(text, i) = 0 THEN from[i + 1]
            ELSE {i} \cup from[HeadingEnd(text, i) + 1]
    IN  from[1]
Sections(text) ==
    LET heads == Headings(text)
        nexts(i) == {j \in heads : j > i}
    IN {<<i - 1, IF nexts(i) = {} THEN Len(text)
                 ELSE (CHOOSE j \in nexts(i) : \A k \in nexts(i) : j <= k) - 1>> : i \in heads}

Chunks(text) ==
    IF Sections(text) = {} THEN {Pieces(0, Len(text))}
    ELSE {Pieces(s[1], s[2]) : s \in Sections(text)}

-----------------------------------------------------------------------------
Unit(path, place, hash) == [path |-> path, place |-> place, hash |-> hash]
UnitsOf(paths, places, hash) == {Unit(p, place, hash) : p \in paths, place \in places}
IndexRow(observed, analyzed) == [observed |-> observed, analyzed |-> analyzed]
NoSearch == [step |-> "idle", lexical |-> {}, ranked |-> <<>>]

SearchInit ==
    /\ onDisk = [p \in Files |-> 1]
    /\ indexRows = [p \in Files |-> IndexRow(1, 1)]
    /\ units \in {UnitsOf(Files, S, 1) : S \in SUBSET Places \ {{}}}
    /\ search = NoSearch
    /\ validity = [p \in Files |-> "unasked"]
    /\ readAs = [p \in Files |-> 0] /\ reindexed = FALSE

RowsSame == UNCHANGED <<onDisk, indexRows, units>>

(* The text changes or is deleted; the Project Index sees it, then analyzes    *)
(* it; the Semantic Index puts the units of the new text for the old ones.     *)
Edit(p) ==
    /\ onDisk[p] \in 1 .. MaxVersions
    /\ onDisk' = [onDisk EXCEPT ![p] = IF @ < MaxVersions THEN @ + 1 ELSE 0]
    /\ UNCHANGED <<indexRows, units, search, validity, readAs, reindexed>>

Observe(p) ==
    /\ indexRows[p].observed # onDisk[p]
    /\ indexRows' = [indexRows EXCEPT ![p].observed = onDisk[p]]
    /\ UNCHANGED <<onDisk, units, search, validity, readAs, reindexed>>

Analyze(p) ==
    /\ onDisk[p] # 0 /\ indexRows[p].observed # indexRows[p].analyzed
    /\ indexRows' = [indexRows EXCEPT ![p] = IndexRow(onDisk[p], onDisk[p])]
    /\ UNCHANGED <<onDisk, units, search, validity, readAs, reindexed>>

Reindex(p) ==
    /\ \E u \in units : u.path = p /\ u.hash # indexRows[p].analyzed
    /\ \E S \in SUBSET Places \ {{}} :
        units' = {u \in units : u.path # p} \cup UnitsOf({p}, S, indexRows[p].analyzed)
    /\ reindexed' = (reindexed \/ search.step = "embedding")
    /\ UNCHANGED <<onDisk, indexRows, search, validity, readAs>>

-----------------------------------------------------------------------------
(* isStructurallyCurrent: the row of the unit's file is of the same text. *)
StructurallyCurrent(u) ==
    indexRows[u.path].analyzed = u.hash /\ indexRows[u.path].observed = u.hash

(* The lexical matches are taken before the query is embedded, which waits. *)
Search ==
    /\ search.step = "idle"
    /\ \E S \in SUBSET units :
        search' = [NoSearch EXCEPT !.step = "embedding",
                               !.lexical = {u \in S : StructurallyCurrent(u)}]
    /\ RowsSame /\ UNCHANGED <<validity, readAs, reindexed>>

Matches == {u \in units : StructurallyCurrent(u)} \cup search.lexical
PathsOf(s) == {s[i].path : i \in DOMAIN s}
FirstUnit(s, p) == s[CHOOSE i \in DOMAIN s : s[i].path = p /\ \A j \in 1 .. i - 1 : s[j].path # p]

(* Those that score are ranked, and the best of them verified: one unit of a   *)
(* path stands for all the units of it.                                        *)
Rank ==
    /\ search.step = "embedding"
    /\ \E S \in SUBSET Matches : \E ranked \in Seqs!SetToSeqs(S) :
        LET best == SubSeq(ranked, 1, Least(Len(ranked), 2 * SearchLimit)) IN
        /\ search' = [search EXCEPT !.step = "verifying", !.ranked = best]
        /\ validity' = [p \in Files |->
              IF p \notin PathsOf(best) THEN "unasked"
              ELSE IF StructurallyCurrent(FirstUnit(best, p)) THEN "reading" ELSE "stale"]
    /\ RowsSame /\ UNCHANGED <<readAs, reindexed>>

(* verifyLiveCandidate: the hash of what is read decides; no file is stale, a  *)
(* read that fails otherwise tells nothing.                                    *)

Verdict(u, version) == IF version = u.hash THEN "current" ELSE "stale"

Verify(p) ==
    /\ validity[p] = "reading"
    /\ \/ /\ validity' = [validity EXCEPT ![p] =
                 Verdict(FirstUnit(search.ranked, p), onDisk[p])]
          /\ readAs' = [readAs EXCEPT ![p] = onDisk[p]]
       \/ validity' = [validity EXCEPT ![p] = "unknown"] /\ UNCHANGED readAs
    /\ RowsSame /\ UNCHANGED <<search, reindexed>>

(* The first n of the ranked units, without those of a file that is stale.      *)
FreshUpTo(ranked) ==
    LET fresh[n \in 0 .. Len(ranked)] ==
            IF n = 0 THEN <<>>
            ELSE IF validity[ranked[n].path] = "stale" THEN fresh[n - 1]
            ELSE Append(fresh[n - 1], ranked[n])
    IN  fresh

Answered ==
    /\ search.step = "verifying" /\ \A p \in Files : validity[p] # "reading"
    /\ search' = [search EXCEPT !.step = "answered", !.ranked = FreshUpTo(@)[Len(@)]]
    /\ RowsSame /\ UNCHANGED <<validity, readAs, reindexed>>

Results == SubSeq(search.ranked, 1, Least(Len(search.ranked), SearchLimit))

SearchNext ==
    \/ Search \/ Rank \/ Answered
    \/ \E p \in Files : Edit(p) \/ Observe(p) \/ Analyze(p) \/ Reindex(p) \/ Verify(p)

SearchSpec == SearchInit /\ [][SearchNext]_searchVars

-----------------------------------------------------------------------------
(* The context of a prompt, from the sources gathered for it. *)
Gathered == Seqs!BoundedSeq([content : Excerpts, priority : Relevances, stale : BOOLEAN], MaxGathered)

Characters(content) == content.blanks + content.letters
EstimateTokens(content) ==
    LET tokens == (Characters(content) + CharactersPerToken - 1) \div CharactersPerToken
    IN  IF tokens = 0 THEN 1 ELSE tokens

(* slice(0, n) *)
Cut(content, n) ==
    LET blanks == IF content.blanks < n THEN content.blanks ELSE n
    IN  [content EXCEPT !.blanks = blanks,
                        !.letters = IF @ < n - blanks THEN @ ELSE n - blanks]

(* Why a source is left out before the budget is looked at, "none" if it is not: *)
(* of two with one content the first stays, whatever their priorities.          *)
Usable(source) == source.content.letters > 0 /\ ~source.stale
LeftOut(sources, i) ==
    CASE sources[i].content.letters = 0 -> "empty"
      [] sources[i].stale -> "stale"
      [] \E j \in 1 .. i - 1 : Usable(sources[j]) /\ sources[j].content = sources[i].content -> "duplicate"
      [] OTHER -> "none"

Before(sources, i, j) ==
    \/ sources[i].priority > sources[j].priority
    \/ sources[i].priority = sources[j].priority /\ i < j
Ordered(sources) ==
    Seqs!SetToSortSeq({i \in DOMAIN sources : LeftOut(sources, i) = "none"},
                      LAMBDA i, j : Before(sources, i, j))

(* One turn of the loop over the sorted sources: a place is given, cut, or not. *)
Take(sources, budget, sofar, i) ==
    LET content == Cut(sources[i].content, (budget - sofar.tokens) * CharactersPerToken)
    IN  IF content.letters = 0 THEN [sofar EXCEPT !.short = @ \cup {i}]
        ELSE [given |-> Append(sofar.given, [source |-> i, content |-> content]),
              tokens |-> sofar.tokens + EstimateTokens(content),
              short |-> IF content = sources[i].content THEN sofar.short ELSE sofar.short \cup {i}]

Assemble(sources, budget) ==
    Seqs!FoldLeft(LAMBDA sofar, i : Take(sources, budget, sofar, i),
                  [given |-> <<>>, tokens |-> 0, short |-> {}], Ordered(sources))

-----------------------------------------------------------------------------
SearchTypeOK ==
    /\ \A p \in Files : onDisk[p] \in 0 .. MaxVersions /\ readAs[p] \in 0 .. MaxVersions
    /\ \A u \in units : u.path \in Files /\ u.place \in Places
    /\ validity \in [Files -> {"unasked", "reading", "stale", "unknown", "current"}]

(* The pieces of a text (of a section, of a symbol) are within the limit, come *)
(* one after the other without a gap, and the place each reports is the place  *)
(* of its first character, whether counted here or by the parser: the parser's *)
(* lines are these only when every "r" is before an "n".                       *)
ChunksFollowText ==
    \A text \in Texts :
        /\ \A pieces \in Chunks(text) : \A k \in DOMAIN pieces :
            /\ pieces[k][2] - pieces[k][1] \in (IF text = <<>> THEN 0 ELSE 1) .. MaxCharacters
            /\ k < Len(pieces) => pieces[k][2] = pieces[k + 1][1]
        /\ \A offset \in 0 .. Len(text) :
            /\ OffsetAt(text, PositionAt(text, offset)) = offset
            /\ (\A i \in DOMAIN text : text[i] = "r" => i < Len(text) /\ text[i + 1] = "n") =>
                   ParserPosition(text, offset) = PositionAt(text, offset)

(* Every unit that is answered as current has the hash of the text its file    *)
(* had when it was verified, however the file, the rows and the units changed  *)
(* under the search. Only units replaced while the query was embedded may      *)
(* break this: one path is then ranked with units of two texts, and the first  *)
(* of them speaks for the others.                                              *)
ResultsAreCurrent ==
    search.step = "answered" /\ ~reindexed =>
        \A i \in DOMAIN Results :
            LET u == Results[i] IN
            /\ validity[u.path] \in {"current", "unknown"}
            /\ validity[u.path] = "current" => u.hash = readAs[u.path]

(* The context never costs more than the budget, counted again from what was     *)
(* given; every usable text is given whole or is reported as cut by the budget;  *)
(* and a text with letters within the budget left to it is never passed over in  *)
(* favour of a less important one.                                             *)
ContextKeepsBudget ==
    \A sources \in Gathered, budget \in Budgets :
        LET context == Assemble(sources, budget)
            given(i) == {k \in DOMAIN context.given : context.given[k].source = i}
            cost(i) == Seqs!SumSet({0} \cup {EstimateTokens(context.given[k].content) : k \in given(i)})
            spent(set) == Seqs!FoldSet(LAMBDA i, sum : sum + cost(i), 0, set)
        IN  /\ spent(DOMAIN sources) <= budget
            /\ \A i \in DOMAIN sources : Usable(sources[i]) =>
                 \/ \E k \in DOMAIN context.given : context.given[k].content = sources[i].content
                 \/ \E j \in context.short : sources[j].content = sources[i].content
            /\ \A i \in context.short : given(i) = {} =>
                 sources[i].content.blanks
                    >= (budget - spent({j \in DOMAIN sources : Before(sources, j, i)}))
                          * CharactersPerToken
=================================================================================
