----------------------------- MODULE DatabaseFiles -----------------------------
(* The database file over starts, crashes and restores: the recovery that       *)
(* precedes the opening (main.ts, recovery.ts), the copy made before a          *)
(* migration (DatabaseRuntime), the snapshot made before an import.             *)
EXTENDS Naturals, FiniteSets

CONSTANTS MaxFaults   \* bound: crashes, failed steps and corruptions together

VARIABLES db,          \* nocturne.db: what it holds, its schema, whose -wal lies beside it
          quarantine,  \* database-corrupt-*: what was moved there, now and (kept) before
          temporary,   \* nocturne.db.recovery-*: "none", "partial" or "full"
          copies,      \* valid copies: "migration" (backup-*), "snapshot" (backups/)
          boot,        \* where the process is
          faults,      \* crashes, failures and corruptions so far
          hadData      \* history: the database has held the user's data

dbVars == <<db, quarantine, temporary, copies, boot, faults, hadData>>

Contents == {"missing", "empty", "user", "imported", "restored", "corrupt"}
Data == {"user", "imported", "restored"}
Directory(kept) == [made |-> kept # {}, db |-> "missing", wal |-> FALSE, kept |-> kept]

DbInit ==
    /\ db = [holds |-> "missing", schema |-> "current", wal |-> "none"]
    /\ quarantine = Directory({}) /\ temporary = "none" /\ copies = {}
    /\ boot = "off" /\ faults = 0 /\ hadData = FALSE

FilesSame == UNCHANGED <<db, quarantine, temporary, copies, hadData>>
Fault == faults < MaxFaults /\ faults' = faults + 1

(* hasDatabaseRecoveryArtifacts, listDatabaseRecoveryCandidates. *)
Artifacts == quarantine.made \/ temporary # "none"
Candidates == copies \cup (IF temporary = "full" THEN {"temporary"} ELSE {})

-----------------------------------------------------------------------------
(* recoverDatabaseIfNeeded; the user may decline, and without a candidate the    *)
(* start fails with everything left in place.                                  *)
Recovering == db.holds = "corrupt" \/ (db.holds = "missing" /\ (Artifacts \/ Candidates # {}))

Start ==
    /\ boot = "off"
    /\ boot' = IF Recovering THEN "asking" ELSE "opening"
    /\ FilesSame /\ UNCHANGED faults

Answer ==
    /\ boot = "asking"
    /\ \/ Candidates # {} /\ boot' = "quarantining"
          /\ quarantine' = [Directory(quarantine.kept \cup ({quarantine.db} \ {"missing"}))
                                EXCEPT !.made = TRUE]
          /\ UNCHANGED <<db, temporary, copies, hadData>>
       \/ boot' = "off" /\ FilesSame
    /\ UNCHANGED faults

(* restoreDatabaseFile: the database, then its -wal, go to the quarantine.       *)
MoveDatabase ==
    /\ boot = "quarantining" /\ boot' = "movingWal"
    /\ quarantine' = [quarantine EXCEPT !.db = db.holds]
    /\ db' = [db EXCEPT !.holds = "missing", !.wal = IF @ = "none" THEN @ ELSE "foreign"]
    /\ UNCHANGED <<temporary, copies, faults, hadData>>
MoveWal ==
    /\ boot = "movingWal" /\ boot' = "copying"
    /\ quarantine' = [quarantine EXCEPT !.wal = db.wal # "none"]
    /\ db' = [db EXCEPT !.wal = "none"]
    /\ UNCHANGED <<temporary, copies, faults, hadData>>
CopyCandidate ==
    /\ boot = "copying"
    /\ \/ temporary # "partial" /\ temporary' = "partial" /\ UNCHANGED boot
       \/ temporary = "partial" /\ temporary' = "full" /\ boot' = "inspecting"
    /\ UNCHANGED <<db, quarantine, copies, faults, hadData>>
PutInPlace ==
    /\ boot = "inspecting" /\ boot' = "opening"
    /\ db' = [holds |-> "restored", schema |-> IF "snapshot" \in copies THEN "current" ELSE "old",
              wal |-> db.wal]
    /\ temporary' = "none" /\ UNCHANGED <<quarantine, copies, faults, hadData>>

(* Its catch: the temporary goes, then the -wal and the database come back.      *)
StepFails ==
    /\ boot \in {"quarantining", "movingWal", "copying", "inspecting"} /\ Fault
    /\ boot' = "undoing" /\ temporary' = "none"
    /\ UNCHANGED <<db, quarantine, copies, hadData>>
UndoWal ==
    /\ boot = "undoing" /\ boot' = "undoingDatabase"
    /\ db' = IF quarantine.wal THEN [db EXCEPT !.wal = "foreign"] ELSE db
    /\ quarantine' = [quarantine EXCEPT !.wal = FALSE]
    /\ UNCHANGED <<temporary, copies, faults, hadData>>
UndoDatabase ==
    /\ boot = "undoingDatabase" /\ boot' = "off"
    /\ db' = IF quarantine.db # "missing" 
              THEN [db EXCEPT !.holds = quarantine.db, !.wal = IF @ = "none" THEN @ ELSE "own"]
              ELSE db
    /\ quarantine' = Directory(quarantine.kept)
    /\ UNCHANGED <<temporary, copies, faults, hadData>>

(* DatabaseRuntime: an old schema is copied, then migrated in one transaction.   *)
Open ==
    /\ boot = "opening"
    /\ db' = IF db.holds = "missing" THEN [db EXCEPT !.holds = "empty"] ELSE [db EXCEPT !.wal = IF @ = "none" THEN "own" ELSE @]
    /\ boot' = IF db.schema = "old" THEN "backingUp" ELSE "running"
    /\ UNCHANGED <<quarantine, temporary, copies, faults, hadData>>
BackUp ==
    /\ boot = "backingUp" /\ copies' = copies \cup {"migration"} /\ boot' = "migrating"
    /\ UNCHANGED <<db, quarantine, temporary, faults, hadData>>
Migrate ==
    /\ boot = "migrating"
    /\ \/ db' = [db EXCEPT !.schema = "current"] /\ boot' = "running" /\ UNCHANGED faults
       \/ Fault /\ boot' = "off" /\ UNCHANGED db
    /\ UNCHANGED <<quarantine, temporary, copies, hadData>>

(* The application writes; another version of it may leave an older schema.      *)
Use ==
    /\ boot = "running" /\ db.holds = "empty"
    /\ db' = [db EXCEPT !.holds = "user"] /\ hadData' = TRUE
    /\ UNCHANGED <<quarantine, temporary, copies, boot, faults>>
Upgrade ==
    /\ boot = "off" /\ db.holds \in Data /\ db.schema = "current" /\ copies = {}
    /\ db' = [db EXCEPT !.schema = "old"]
    /\ UNCHANGED <<quarantine, temporary, copies, boot, faults, hadData>>

(* registerDataIpc: the import follows its recovery point. *)
Snapshot ==
    /\ boot = "running" /\ db.holds \in Data /\ boot' = "importing"
    /\ copies' = copies \cup {"snapshot"}
    /\ UNCHANGED <<db, quarantine, temporary, faults, hadData>>
Import ==
    /\ boot = "importing" /\ boot' = "running" /\ db' = [db EXCEPT !.holds = "imported"]
    /\ UNCHANGED <<quarantine, temporary, copies, faults, hadData>>
Close ==
    /\ boot = "running" /\ boot' = "off" /\ db' = [db EXCEPT !.wal = "none"]
    /\ UNCHANGED <<quarantine, temporary, copies, faults, hadData>>
Crash == boot # "off" /\ Fault /\ boot' = "off" /\ FilesSame
Corrupt ==
    /\ boot = "off" /\ db.holds \in Data /\ Fault /\ db' = [db EXCEPT !.holds = "corrupt"]
    /\ UNCHANGED <<quarantine, temporary, copies, boot, hadData>>

RestoreStep == MoveDatabase \/ MoveWal \/ CopyCandidate \/ PutInPlace \/ UndoWal \/ UndoDatabase
DbWork == Answer \/ RestoreStep \/ Open \/ BackUp \/ Migrate \/ Import
DbNext ==
    \/ Start \/ DbWork \/ StepFails \/ Use \/ Upgrade \/ Snapshot
    \/ Close \/ Crash \/ Corrupt

(* The files, however long a start takes. *)
DbSpec == DbInit /\ [][DbNext]_dbVars

-----------------------------------------------------------------------------
(* migrateProductUserData: current and legacy directories, by their databases.  *)
FileStates == {"missing", "empty", "data", "invalid", "unknown"}
UserDataPath(current, legacy) ==
    LET moves == \/ current = "missing" /\ legacy # "missing"
                 \/ current \in {"invalid", "empty"} /\ legacy = "data"
    IN  IF moves THEN "legacy" ELSE "current"

(* The directory opened is never one without data when the other one has some.  *)
DataDirectoryIsFound ==
    \A current, legacy \in FileStates :
        LET chosen == IF UserDataPath(current, legacy) = "legacy" THEN legacy ELSE current
        IN  "data" \in {current, legacy} => chosen \in {"data", "unknown"}

DbTypeOK ==
    /\ db.holds \in Contents /\ db.schema \in {"old", "current"} /\ db.wal \in {"none", "own", "foreign"}
    /\ temporary \in {"none", "partial", "full"}
    /\ copies \subseteq {"migration", "snapshot"} /\ faults \in 0..MaxFaults

(* A database that held data is never replaced by an empty one. *)
NeverEmptied == hadData => db.holds # "empty"

(* While nocturne.db is missing, what it held is in a quarantine directory. *)
OriginalIsKept ==
    hadData /\ db.holds = "missing" =>
        quarantine.db # "missing" \/ quarantine.kept # {}

(* A migrated or replaced database has a valid copy of what it was before. *)
ChangedDatabaseHasCopy ==
    /\ db.holds = "imported" => "snapshot" \in copies
    /\ boot = "migrating" => "migration" \in copies

(* No database ever lies beside the -wal of another one. *)
NoForeignWal == db.holds # "missing" => db.wal # "foreign"
=============================================================================
