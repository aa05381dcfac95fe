----------------------------- MODULE StackDetection -----------------------------
(* What the Project Index says a project is made of. The detector goes over    *)
(* the files a discovery found and reads them one after the other, while the   *)
(* developer may change them; every piece of evidence carries the hash of the  *)
(* text it was read from. A file is its directory ("" is the root), its name in *)
(* small letters, and whether it is spelled as the root's detectProject knows   *)
(* it (exact); its text is one of a few, and the hash of a text the text itself. *)
EXTENDS Naturals, Sequences, FiniteSets

CONSTANTS Candidates,   \* files a project may have: [dir, name, exact]
          MaxFiles, MaxChanges  \* bounds: files found, changes during a detection

VARIABLES onDisk,       \* path -> its text, Gone when it cannot be read
          found,        \* discovery.files, in their order
          detection,    \* stage, index of the file it is at, evidence, commands
          changes       \* changes since the discovery

stackVars == <<onDisk, found, detection, changes>>

Gone == "gone"
Large == "large"    \* over WORKSPACE_READ_LIMITS.packageMetadataBytes
NoCommand == "none"
IsMember(s, x) == \E i \in DOMAIN s : s[i] = x
First(s, Test(_)) == s[CHOOSE i \in DOMAIN s : Test(s[i]) /\ \A j \in 1..(i - 1) : ~Test(s[j])]
ValuesOf(evidence, category) == SelectSeq(evidence, LAMBDA e : e.category = category)

IsPackage(file) == file.name = "package.json"
TextsOf(file) == IF IsPackage(file) THEN {"plain", "react", "peer", "tested", "broken"}
                 ELSE {"old", "new", Large}

-----------------------------------------------------------------------------
(* What a text says: package.json by its dependencies, those of its peers      *)
(* too, and its scripts; a manifest, a lock or a configuration by its name, in  *)
(* whatever directory.                                                         *)
PackageSays(text) ==
    <<<<"runtime", "Node.js">>>>
    \o CASE text \in {"react", "peer"} -> <<<<"framework", "React">>>>
         [] text = "tested" -> <<<<"script", "test">>, <<"test", "test">>>>
         [] OTHER -> <<>>

Manifest(language, commands) ==
    <<<<"language", language>>, <<"runtime", language>>>> \o commands

FileSays(file) ==
    CASE file.name = "tsconfig.json" -> <<<<"language", "TypeScript">>>>
      [] file.name = "cargo.toml" ->
             Manifest("Rust", <<<<"test", "cargo test">>, <<"build", "cargo build">>>>)
      [] file.name \in {"pyproject.toml", "requirements.txt", "requirements-dev.txt"} ->
             Manifest("Python", <<<<"test", "pytest">>>>)
      [] file.name \in {"go.mod", "go.work"} ->
             Manifest("Go", <<<<"test", "go test ./...">>, <<"build", "go build ./...">>>>)
      [] file.name = "yarn.lock" -> <<<<"package-manager", "Yarn">>>>
      [] file.name = "vite.config.js" -> <<<<"bundler", "Vite">>>>
      [] OTHER -> <<>>

(* The test command of a manifest: the first piece of evidence of that kind.   *)
DefaultTest(file) ==
    LET tests == SelectSeq(FileSays(file), LAMBDA says : says[1] = "test") IN
    IF tests = <<>> THEN NoCommand ELSE tests[1][2]

(* languageForFile *)
ExtensionLanguage(file) ==
    CASE file.name = "main.ts" -> "TypeScript"
      [] file.name = "main.py" -> "Python"
      [] file.name = "vite.config.js" -> "JavaScript"
      [] OTHER -> NoCommand

InSources(file) == file.dir = "src"

-----------------------------------------------------------------------------
StackInit ==
    /\ \E n \in 0..MaxFiles : found \in {s \in [1..n -> Candidates] :
                                          Cardinality({s[i] : i \in 1..n}) = n}
    /\ onDisk \in {d \in [{found[i] : i \in DOMAIN found} -> UNION {TextsOf(p) : p \in Candidates}] :
                   \A p \in DOMAIN d : d[p] \in TextsOf(p) \ {"new"}}
    /\ detection = [stage |-> "package", at |-> 1, evidence |-> <<>>, test |-> NoCommand]
    /\ changes = 0

ChangeFile(p) ==
    /\ changes < MaxChanges /\ detection.stage \notin {"done", "cancelled"}
    /\ \E text \in (TextsOf(p) \cup {Gone}) \ {onDisk[p]} : onDisk' = [onDisk EXCEPT ![p] = text]
    /\ changes' = changes + 1
    /\ UNCHANGED <<found, detection>>

(* readConfig answers nothing for a file that cannot be read. *)
Readable(p) == IsMember(found, p) /\ onDisk[p] \notin {Gone, Large}

Item(p, says) == [category |-> says[1], value |-> says[2], source |-> p, hash |-> onDisk[p]]
(* add: not twice from the same text. *)
Added(evidence, p, says) ==
    IF says = <<>> THEN evidence
    ELSE LET more == SelectSeq([i \in DOMAIN says |-> Item(p, says[i])],
                               LAMBDA e : ~IsMember(evidence, e))
         IN evidence \o more

At(stage) == detection.stage = stage
InFiles == detection.at <= Len(found)
File == found[detection.at]
GoTo(stage, evidence, test) ==
    detection' = [stage |-> stage, at |-> 1, evidence |-> evidence, test |-> test]
NextFile(evidence, test) ==
    detection' = [detection EXCEPT !.at = @ + 1, !.evidence = evidence, !.test = test]

(* findFile: of several, the one found first. *)
Some(Test(_)) == \E i \in DOMAIN found : Test(found[i])
Package == First(found, IsPackage)

ReadPackage ==
    /\ At("package")
    /\ IF Some(IsPackage) /\ Readable(Package)
       THEN GoTo("files", Added(<<>>, Package, PackageSays(onDisk[Package])),
                 IF onDisk[Package] = "tested" THEN "test" ELSE NoCommand)
       ELSE GoTo("files", <<>>, NoCommand)
    /\ UNCHANGED <<onDisk, found, changes>>

(* A command that is already there stays. *)
ReadFile ==
    /\ At("files")
    /\ IF ~InFiles THEN GoTo("languages", detection.evidence, detection.test)
       ELSE IF Readable(File)
       THEN NextFile(Added(detection.evidence, File, FileSays(File)),
                     IF detection.test = NoCommand THEN DefaultTest(File) ELSE detection.test)
       ELSE NextFile(detection.evidence, detection.test)
    /\ UNCHANGED <<onDisk, found, changes>>

Named(evidence, language) ==
    \E i \in DOMAIN evidence : evidence[i].category = "language" /\ evidence[i].value = language

ReadLanguage ==
    /\ At("languages")
    /\ IF ~InFiles THEN GoTo("conventions", detection.evidence, detection.test)
       ELSE IF /\ ExtensionLanguage(File) # NoCommand
               /\ ~Named(detection.evidence, ExtensionLanguage(File))
               /\ Readable(File)
       THEN NextFile(Added(detection.evidence, File, <<<<"language", ExtensionLanguage(File)>>>>),
                     detection.test)
       ELSE NextFile(detection.evidence, detection.test)
    /\ UNCHANGED <<onDisk, found, changes>>

(* The first file of the directory stands for the convention. *)
ReadConvention ==
    /\ At("conventions")
    /\ GoTo("done",
            IF (\E i \in DOMAIN found : InSources(found[i])) /\ Readable(First(found, InSources))
            THEN Added(detection.evidence, First(found, InSources), <<<<"convention", "src/">>>>)
            ELSE detection.evidence,
            detection.test)
    /\ UNCHANGED <<onDisk, found, changes>>

CancelDetection ==
    /\ detection.stage \notin {"done", "cancelled"}
    /\ detection' = [detection EXCEPT !.stage = "cancelled"]
    /\ UNCHANGED <<onDisk, found, changes>>

StackNext ==
    \/ ReadPackage \/ ReadFile \/ ReadLanguage \/ ReadConvention \/ CancelDetection
    \/ \E p \in DOMAIN onDisk : ChangeFile(p)

(* The result: the language first named, and every value of these categories.  *)
PrimaryLanguage ==
    LET named == ValuesOf(detection.evidence, "language")
    IN IF named = <<>> THEN "Desconhecida" ELSE named[1].value

StackOf == {detection.evidence[i].value : i \in
              {j \in DOMAIN detection.evidence : detection.evidence[j].category \in
                 {"runtime", "framework", "bundler", "package-manager", "test", "build"}}}

-----------------------------------------------------------------------------
(* detectProject, which the workspace's own metadata is made with, looks for   *)
(* some names at the root alone, and at no peers.                              *)
Roots(name) == {p \in DOMAIN onDisk : p.dir = "" /\ p.name = name /\ p.exact /\ onDisk[p] # Gone}
HasOne(names) == \E name \in names : Roots(name) # {}
ProjectStack ==
    {x \in {"Node.js"} : HasOne({"package.json"})}
    \cup {x \in {"React"} : \E p \in Roots("package.json") : onDisk[p] = "react"}
    \cup {x \in {"Rust"} : HasOne({"cargo.toml"})}
    \cup {x \in {"Python"} : HasOne({"pyproject.toml", "requirements.txt"})}
    \cup {x \in {"Go"} : HasOne({"go.mod"})}

-----------------------------------------------------------------------------
StackTypeOK ==
    /\ detection.stage \in {"package", "files", "languages", "conventions", "done", "cancelled"}
    /\ detection.at \in 1..(Len(found) + 1)
    /\ \A p \in DOMAIN onDisk : onDisk[p] \in TextsOf(p) \cup {Gone}

(* Whatever changes while the files are read, each piece of evidence is what   *)
(* the text with its hash says, and no piece is kept twice.                    *)
EvidenceIsFounded ==
    \A i \in DOMAIN detection.evidence : LET e == detection.evidence[i] IN
        /\ e.hash \notin {Gone, Large}
        /\ \/ IsMember(FileSays(e.source), <<e.category, e.value>>)
           \/ IsPackage(e.source) /\ IsMember(PackageSays(e.hash), <<e.category, e.value>>)
           \/ e.category = "language" /\ e.value = ExtensionLanguage(e.source)
           \/ e.category = "convention" /\ InSources(e.source)
        /\ \A j \in DOMAIN detection.evidence : detection.evidence[j] = e => i = j

LanguagesOf(p) == {x \in {"TypeScript", "Rust", "Python", "Go"} :
                     IsMember(FileSays(p), <<"language", x>>)}
Manifested(p) == Readable(p) /\ LanguagesOf(p) # {}
Written(p) == Readable(p) /\ ExtensionLanguage(p) # NoCommand
Tested(p) == Readable(p) /\ DefaultTest(p) # NoCommand
Detected == StackOf \cap {"Node.js", "Rust", "Python", "Go", "React"}

(* What both detectors know: it is at the root, spelled as expected, and can be *)
(* read.                                                                       *)
KnownToBoth(p) ==
    p.dir = "" /\ p.exact /\ p.name \notin {"go.work", "requirements-dev.txt"} /\ onDisk[p] # "peer"

(* When nothing changed, the result is that of the definition: every language  *)
(* of a manifest or of a file that can be read is named, the primary one is a  *)
(* manifest's before a file's, in the order found; the test command is the     *)
(* package's before a manifest's.                                              *)
DetectionIsComplete ==
    At("done") /\ changes = 0 =>
        /\ {detection.evidence[i].value : i \in {j \in DOMAIN detection.evidence :
              detection.evidence[j].category = "language"}}
           = UNION {LanguagesOf(found[i]) : i \in {j \in DOMAIN found : Manifested(found[j])}}
             \cup {ExtensionLanguage(found[i]) : i \in {j \in DOMAIN found : Written(found[j])}}
        /\ CASE Some(Manifested) -> PrimaryLanguage \in LanguagesOf(First(found, Manifested))
             [] ~Some(Manifested) /\ Some(Written) ->
                    PrimaryLanguage = ExtensionLanguage(First(found, Written))
             [] OTHER -> PrimaryLanguage = "Desconhecida"
        /\ detection.test = IF Some(IsPackage) /\ onDisk[Package] = "tested" THEN "test"
                            ELSE IF Some(Tested) THEN DefaultTest(First(found, Tested))
                            ELSE NoCommand

(* And the two detectors agree on the runtimes and on React where every        *)
(* manifest is one both know. Elsewhere the index finds what detectProject     *)
(* does not look for, and lacks only what it cannot read and the dependencies  *)
(* of a root package.json that another one was found before.                   *)
DetectorsAgree ==
    At("done") /\ changes = 0 /\ (\A i \in DOMAIN found : onDisk[found[i]] # Large) =>
        /\ (\A i \in DOMAIN found :
               IsPackage(found[i]) \/ LanguagesOf(found[i]) # {} => KnownToBoth(found[i])) =>
               Detected = ProjectStack
        /\ ProjectStack \subseteq Detected
               \cup {x \in {"React"} : Some(IsPackage) /\ Package \notin Roots("package.json")}
=============================================================================
