--------------------------- MODULE CheckpointCapture ---------------------------
(* The BEFORE and the AFTER capture of one execution: the store copies the     *)
(* files of the workspace one by one while their owners go on writing, the     *)
(* service closes the manifest in one transaction, and the capture service     *)
(* derives the changes from the two manifests. A file is two halves, written   *)
(* and read one at a time; every write gives it a new identity (size, mtime).  *)
EXTENDS Naturals

CONSTANTS Paths,        \* 1 .. n, in the order the manifest is sorted in
          MaxWrites     \* bound: writes to the workspace

VARIABLES disk,         \* path -> the state of the file
          writes,       \* writes so far
          checkpoints,  \* phase -> its row and manifest
          bytes,        \* phase -> the copies in the private store, by path
          work,         \* the capture under way
          changes,      \* the change set: path -> operation, once saved
          was           \* history: phase -> path -> states it had meanwhile

capVars == <<disk, writes, checkpoints, bytes, work, changes, was>>

Phases == {"before", "after"}
Halves == 1 .. 2
FileTexts == [Halves -> 0 .. MaxWrites]
Blank == [h \in Halves |-> 0]
Absent == [kind |-> "missing", text |-> Blank]
File(text) == [kind |-> "file", text |-> text]
States == {Absent} \cup {File(t) : t \in FileTexts}

(* The row of a checkpoint and those of its files.                             *)
NoFiles == [p \in {} |-> Absent]
CheckpointRows ==
    {row \in [status : {"none", "capturing", "ready", "failed"},
              files : UNION {[known -> States] : known \in SUBSET Paths}] :
        row.status \in {"none", "failed"} => row.files = NoFiles}

Idle == [step |-> "idle", phase |-> "before", path |-> 0, candidates |-> {},
         identity |-> 0, content |-> Blank]
NoChanges == [saved |-> FALSE, ops |-> <<>>]

CapInit ==
    /\ disk \in [Paths -> {[state |-> Absent, identity |-> 0],
                           [state |-> File(Blank), identity |-> 0]}]
    /\ writes = 0
    /\ checkpoints = [f \in Phases |-> [status |-> "none", files |-> NoFiles]]
    /\ bytes = [f \in Phases |-> <<>>]
    /\ work = Idle
    /\ changes = NoChanges
    /\ was = [f \in Phases |-> [p \in Paths |-> {}]]

Capturing == {f \in Phases : checkpoints[f].status = "capturing"}

(* A write to the workspace, by the user, a command or the agent. *)
Becomes(p, state) ==
    /\ writes < MaxWrites
    /\ writes' = writes + 1
    /\ disk' = [disk EXCEPT ![p] = [state |-> state, identity |-> writes + 1]]
    /\ was' = [f \in Phases |-> IF f \in Capturing
                                THEN [was[f] EXCEPT ![p] = @ \cup {state}]
                                ELSE was[f]]
    /\ UNCHANGED <<checkpoints, bytes, work, changes>>

WriteHalf(p, half) ==
    Becomes(p, File([disk[p].state.text EXCEPT ![half] = writes + 1]))

Unlink(p) == disk[p].state # Absent /\ Becomes(p, Absent)

(* capture: the row is created, then the workspace is walked. The AFTER        *)
(* capture needs a BEFORE that is ready.                                       *)
BeginCapture(f) ==
    /\ work = Idle
    /\ checkpoints[f].status = "none"
    /\ f = "after" => checkpoints["before"].status = "ready"
    /\ checkpoints' = [checkpoints EXCEPT ![f].status = "capturing"]
    /\ work' = [Idle EXCEPT !.step = "collect", !.phase = f, !.path = 1]
    /\ was' = [was EXCEPT ![f] = [p \in Paths |-> {disk[p].state}]]
    /\ UNCHANGED <<disk, writes, bytes, changes>>

Following(p, step) ==
    IF p + 1 \in Paths
    THEN [work EXCEPT !.step = step, !.path = p + 1]
    ELSE [work EXCEPT !.step = IF step = "collect" THEN "stat" ELSE "complete",
                      !.path = 1]

(* collectCandidates: what the directory lists at that moment. *)
Collect ==
    LET p == work.path IN
    /\ work.step = "collect"
    /\ work' = IF disk[p].state = Absent
               THEN Following(p, "collect")
               ELSE [Following(p, "collect") EXCEPT !.candidates = @ \cup {p}]
    /\ UNCHANGED <<disk, writes, checkpoints, bytes, changes, was>>

Recorded(p, state) ==
    checkpoints' = [checkpoints EXCEPT ![work.phase].files =
        [q \in DOMAIN @ \cup {p} |-> IF q = p THEN state ELSE @[q]]]

(* captureCandidate: lstat; a candidate that is gone is recorded as missing.   *)
Stat ==
    LET p == work.path IN
    /\ work.step = "stat"
    /\ \/ /\ p \notin work.candidates
          /\ work' = Following(p, "stat")
          /\ UNCHANGED checkpoints
       \/ /\ p \in work.candidates
          /\ disk[p].state = Absent
          /\ Recorded(p, Absent)
          /\ work' = Following(p, "stat")
       \/ /\ p \in work.candidates
          /\ disk[p].state # Absent
          /\ work' = [work EXCEPT !.step = "read", !.identity = disk[p].identity]
          /\ UNCHANGED checkpoints
    /\ UNCHANGED <<disk, writes, bytes, changes, was>>

(* readFile takes the content in pieces. *)
Read ==
    LET p == work.path IN
    /\ work.step \in {"read", "rest"}
    /\ disk[p].state # Absent
    /\ work' = IF work.step = "read"
               THEN [work EXCEPT !.step = "rest",
                                 !.content[1] = disk[p].state.text[1]]
               ELSE [work EXCEPT !.step = "check",
                                 !.content[2] = disk[p].state.text[2]]
    /\ UNCHANGED <<disk, writes, checkpoints, bytes, changes, was>>

SameIdentity(p) == disk[p].state # Absent /\ disk[p].identity = work.identity

(* writeAtomicBytes: a copy is there whole or not at all.                      *)
WriteBytes(p) ==
    bytes' = [bytes EXCEPT ![work.phase] =
                 [q \in DOMAIN @ \cup {p} |-> IF q = p THEN work.content ELSE @[q]]]

(* The second stat tells whether the file changed while it was read; then the  *)
(* content is hashed and written to the private store.                         *)
Check ==
    LET p == work.path IN
    /\ work.step = "check"
    /\ SameIdentity(p)
    /\ WriteBytes(p)
    /\ Recorded(p, File(work.content))
    /\ work' = Following(p, "stat")
    /\ UNCHANGED <<disk, writes, changes, was>>

(* The store throws: the file changed or went, a limit of bytes is exceeded,   *)
(* an I/O error. The copies are removed, the row says failed.                  *)
StoreFails ==
    /\ work.step \in {"collect", "stat", "read", "rest", "check"}
    /\ bytes' = [bytes EXCEPT ![work.phase] = <<>>]
    /\ checkpoints' = [checkpoints EXCEPT ![work.phase] =
                          [status |-> "failed", files |-> NoFiles]]
    /\ work' = Idle
    /\ UNCHANGED <<disk, writes, changes, was>>

Known(f, p) == IF p \in DOMAIN checkpoints[f].files
               THEN checkpoints[f].files[p] ELSE Absent

OperationFor(before, after) ==
    CASE before = Absent -> "create" [] after = Absent -> "delete"
      [] OTHER -> "modify"

Differs(p) == Known("before", p) # Known("after", p)

Changed == {p \in Paths : Differs(p)}

(* The change set replaces the one the execution had.                          *)
SaveChanges(ops) == changes' = [saved |-> TRUE, ops |-> ops]

(* completeCapture: manifest, status and evidence in one transaction. After an *)
(* AFTER capture the change set follows in the same turn of the loop.          *)
Complete ==
    /\ work.step = "complete"
    /\ checkpoints' = [checkpoints EXCEPT ![work.phase].status = "ready"]
    /\ IF work.phase = "before" THEN UNCHANGED changes
       ELSE SaveChanges([p \in Changed |->
                            OperationFor(Known("before", p), Known("after", p))])
    /\ work' = Idle
    /\ UNCHANGED <<disk, writes, bytes, was>>

(* The transaction throws: the row says failed and the copies stay behind. *)
CompleteFails ==
    /\ work.step = "complete"
    /\ checkpoints' = [checkpoints EXCEPT ![work.phase] =
                          [status |-> "failed", files |-> NoFiles]]
    /\ work' = Idle
    /\ UNCHANGED <<disk, writes, bytes, changes, was>>

(* A crash leaves the copies; the recovery of the next start fails the row.    *)
(* The manifest was in memory until the transaction.                           *)
CrashCapture ==
    /\ work # Idle
    /\ checkpoints' = [checkpoints EXCEPT ![work.phase] =
                          [status |-> "failed", files |-> NoFiles]]
    /\ work' = Idle
    /\ UNCHANGED <<disk, writes, bytes, changes, was>>

CapNext ==
    \/ \E p \in Paths : Unlink(p) \/ \E half \in Halves : WriteHalf(p, half)
    \/ \E f \in Phases : BeginCapture(f)
    \/ Collect \/ Stat \/ Read \/ Check \/ StoreFails
    \/ Complete \/ CompleteFails \/ CrashCapture

(* Both captures, whoever writes meanwhile. *)
CapSpec == CapInit /\ [][CapNext]_capVars

--------------------------------------------------------------------------------
CapTypeOK ==
    /\ disk \in [Paths -> [state : States, identity : 0 .. MaxWrites]]
    /\ work.step \in {"idle", "collect", "stat", "read", "rest", "check",
                      "complete"}
    /\ \A f \in Phases :
          checkpoints[f] \in CheckpointRows

(* A manifest that is ready tells, of every path, a state the file really had  *)
(* during the capture (never a mixture of two versions), and the store holds   *)
(* the bytes of every file it names.                                           *)
ManifestsAreTrue ==
    \A f \in Phases : checkpoints[f].status = "ready" =>
        \A p \in Paths :
            /\ Known(f, p) \in was[f][p]
            /\ Known(f, p) # Absent => /\ p \in DOMAIN bytes[f]
                                       /\ bytes[f][p] = Known(f, p).text

(* A file that stood still through both captures and is the same in both has   *)
(* no change to review, and a file with no state in common has one.            *)
ChangesAreTrue ==
    changes.saved => \A p \in Paths :
        /\ \A s \in was["after"][p] :
               was["before"][p] = {s} /\ was["after"][p] = {s} => p \notin DOMAIN changes.ops
        /\ was["before"][p] \cap was["after"][p] = {} => p \in DOMAIN changes.ops
================================================================================
