---------------------------- MODULE DaemonStorage ----------------------------
(***************************************************************************)
(* Opening the database at boot: the move of the legacy file to its new    *)
(* place (copy, verify, rename) and the schema migrations, one transaction *)
(* each.  The process may end between any two steps.                       *)
(***************************************************************************)
EXTENDS Naturals, FiniteSets

CONSTANTS
    SqlFiles,       \* NNN-name.sql
    VersionOf,
    MaxBoots

ASSUME StorageAssumption == VersionOf \in [SqlFiles -> Nat \ {0}] /\ MaxBoots \in Nat \ {0}

VARIABLES
    oldDb,       \* projectDir/kithkit.db: "full", "backup" once renamed, or "none"
    newDb,       \* the configured path: "none", "partial", "corrupt", "copy", or "fresh" when created by open
    booting,     \* "off", "copying", "verifying", "opening", "migrating", "open"
    installed,   \* the migration files of this release
    recorded,    \* versions in the migrations table
    executed,    \* how often each file's SQL took effect
    boots,
    disturbed    \* the process ended, or a step failed, during a move

storageVars == <<oldDb, newDb, booting, installed, recorded, executed, boots, disturbed>>
dbFiles == <<oldDb, newDb, disturbed>>
schemaVars == <<installed, recorded, executed>>

StorageInit ==
    /\ oldDb \in {"full", "none"} /\ newDb = "none" /\ booting = "off"
    /\ installed \in SUBSET SqlFiles /\ recorded = {} /\ executed = [f \in SqlFiles |-> 0]
    /\ boots = 0 /\ disturbed = FALSE

-----------------------------------------------------------------------------
(* migrateDbIfNeeded: only a legacy file without a new one is moved. *)
StorageBoot ==
    /\ booting = "off" /\ boots < MaxBoots /\ boots' = boots + 1
    /\ \/ oldDb = "full" /\ newDb = "none" /\ booting' = "copying" /\ newDb' = "partial"
       \/ ~(oldDb = "full" /\ newDb = "none") /\ booting' = "opening" /\ UNCHANGED newDb
    /\ UNCHANGED <<oldDb, disturbed>> /\ UNCHANGED schemaVars

(* The backup ends; whether the copy is sound shows only the check. *)
CopyEnds(sound) ==
    /\ booting = "copying" /\ booting' = "verifying"
    /\ newDb' = IF sound THEN "copy" ELSE "corrupt"
    /\ UNCHANGED <<oldDb, boots, disturbed>> /\ UNCHANGED schemaVars

(* PRAGMA integrity_check *)
Verified == newDb = "copy"

VerifyAndRename ==
    /\ booting = "verifying" /\ Verified
    /\ booting' = "opening" /\ oldDb' = "backup"
    /\ UNCHANGED <<newDb, boots, disturbed>> /\ UNCHANGED schemaVars

(* The catch block removes the copy, also when only a rename failed, and   *)
(* also when the database itself was renamed and its -wal was not.  The    *)
(* caller opens the new path all the same.                                 *)
MoveFails ==
    /\ booting \in {"copying", "verifying"}
    /\ booting' = "opening" /\ newDb' = "none" /\ disturbed' = TRUE
    /\ oldDb' \in IF booting = "verifying" /\ Verified THEN {"full", "backup"} ELSE {oldDb}
    /\ UNCHANGED boots /\ UNCHANGED schemaVars

(* openDatabase creates the file if there is none. *)
OpenDatabase ==
    /\ booting = "opening" /\ booting' = "migrating"
    /\ newDb' = IF newDb = "none" THEN "fresh" ELSE newDb
    /\ UNCHANGED <<oldDb, boots, disturbed>> /\ UNCHANGED schemaVars

-----------------------------------------------------------------------------
(* Files of a version that is not recorded; of two files with one version  *)
(* the first by name is kept, here any.                                    *)
PendingFiles == {f \in installed : VersionOf[f] \notin recorded}

NextFiles == {f \in PendingFiles : \A g \in PendingFiles : VersionOf[f] <= VersionOf[g]}

\* Mutant: the version is recorded after the transaction.
CommittedLater(f) == recorded' \in {recorded, recorded \cup {VersionOf[f]}}

Committed(f) == recorded' = recorded \cup {VersionOf[f]}

(* One migration and its record in one transaction. *)
RunMigration(f) ==
    /\ booting = "migrating" /\ f \in NextFiles
    /\ executed' = [executed EXCEPT ![f] = IF @ < 2 THEN @ + 1 ELSE @]
    /\ Committed(f)
    /\ UNCHANGED <<booting, boots, installed>> /\ UNCHANGED dbFiles

MigrationsDone ==
    /\ booting = "migrating" /\ PendingFiles = {}
    /\ booting' = "open"
    /\ UNCHANGED boots /\ UNCHANGED dbFiles /\ UNCHANGED schemaVars

(* A migration that fails is rolled back and the start with it; or the     *)
(* process is killed; or it stops later.                                   *)
StorageEnds ==
    /\ booting # "off" /\ booting' = "off"
    /\ disturbed' = (disturbed \/ booting \in {"copying", "verifying"})
    /\ UNCHANGED <<oldDb, newDb, boots>> /\ UNCHANGED schemaVars

(* An update of the software brings more files. *)
Upgrade(f) ==
    /\ booting = "off" /\ f \notin installed
    /\ installed' = installed \cup {f}
    /\ UNCHANGED <<booting, boots, recorded, executed>> /\ UNCHANGED dbFiles

StorageNext ==
    \/ StorageBoot \/ VerifyAndRename \/ MoveFails \/ OpenDatabase \/ MigrationsDone \/ StorageEnds
    \/ \E sound \in BOOLEAN : CopyEnds(sound)
    \/ \E f \in SqlFiles : RunMigration(f) \/ Upgrade(f)

-----------------------------------------------------------------------------
(* Each migration takes effect at most once, and of two files with one     *)
(* version only one ever does, through crashes and upgrades.               *)
MigrationsOnce ==
    \A f \in SqlFiles : executed[f] <= 1 /\ \A g \in SqlFiles : VersionOf[f] = VersionOf[g] /\ f # g => executed[f] + executed[g] <= 1

(* A migration never runs before an installed one of a lower version. *)
MigrationsInOrder ==
    [][\A f \in SqlFiles : executed'[f] > executed[f] =>
          \A g \in installed : VersionOf[g] < VersionOf[f] => VersionOf[g] \in recorded]_storageVars

(* A move that was not interrupted ends with the verified copy in use.     *)
MovedCopyIsVerified == booting \in {"migrating", "open"} /\ oldDb = "backup" /\ ~disturbed => newDb = "copy"

(* core/db.ts: a failed move leaves the caller "with old path - no data    *)
(* loss".                                                                  *)
NoDataLoss == booting = "open" /\ oldDb # "none" => newDb = "copy"

(* What is in the files is sound: each migration at most once, and the     *)
(* verified copy after a move that was not interrupted.                    *)
FilesAreSound == MigrationsOnce /\ MovedCopyIsVerified

(* The files are sound in every state and the migrations run in order. *)
SchemaIsSound == FilesAreSound /\ [][FilesAreSound']_storageVars /\ MigrationsInOrder
=============================================================================
