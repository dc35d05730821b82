---------------------------- MODULE AuthStateFile ----------------------------
(***************************************************************************)
(* persistAuthState() (src/auth-state.ts) on a POSIX file system: the new  *)
(* document is written to a temporary file, the old one kept under a       *)
(* second name, the temporary file renamed over the document, and the      *)
(* backup dropped; an error undoes what was done.  One step per system     *)
(* call.  Every call may fail, the process may die and the power may be    *)
(* lost between any two.                                                   *)
(*                                                                         *)
(* A version of the document stands for the file (the inode) that holds    *)
(* it.  The directory maps names to versions.  fsync() of the directory    *)
(* makes its present state the only one a power loss can leave; until      *)
(* then, any state since the last one may be found (metadata changes are   *)
(* not reordered).  Only versions that were fsynced are found whole.       *)
(***************************************************************************)
EXTENDS Integers, Functions

CONSTANTS
  None,      \* no version
  MaxWrites  \* bound: calls of persistAuthState()

ASSUME WriteAssumption == MaxWrites \in Nat /\ None \notin Nat

VARIABLES
  at,        \* the next step of the running call, "idle" between calls
  writing,   \* the version being written; the last one between calls
  old,       \* the version it replaces, None if there is no document
  dir,       \* the directory the process sees
  durable,   \* the directories a power loss may leave
  synced,    \* the versions whose content has been fsynced
  failures,  \* failures.length: errors collected by the running call
  result     \* what the last call reported

vars == <<at, writing, old, dir, durable, synced, failures, result>>

Versions == 0..MaxWrites

(***************************************************************************)
(* The names of the document and of the temporary and backup files, which  *)
(* are drawn anew by every call.                                           *)
(***************************************************************************)
Path == <<"path", 0>>
Temporary(n) == <<"tmp", n>>
Backup(n) == <<"backup", n>>
Names == {"path", "tmp", "backup"} \X Versions

Exists(d, name) == name \in DOMAIN d
Linked(d, name, v) == [m \in DOMAIN d \cup {name} |-> IF m = name THEN v ELSE d[m]]
Unlinked(d, name) == Restrict(d, DOMAIN d \ {name})
Renamed(d, from, to) == Unlinked(Linked(d, to, d[from]), from)
Read(d) == IF Exists(d, Path) THEN d[Path] ELSE None

-----------------------------------------------------------------------------
(***************************************************************************)
(* One system call: it changes the directory, syncs it, or neither.        *)
(***************************************************************************)
Change(d) == dir' = d /\ durable' = durable \cup {d}
SyncDirectory == durable' = {dir} /\ UNCHANGED dir
NoChange == UNCHANGED <<dir, durable>>

Then(place) == at' = place /\ UNCHANGED <<writing, old, failures, result>>

(***************************************************************************)
(* The call throws: where the catch block begins depends on `replaced` and *)
(* `backupCreated`.                                                        *)
(***************************************************************************)
BackupCreated == Exists(dir, Backup(writing))

Throw(place) ==
  /\ at' = place
  /\ failures' = failures + 1
  /\ UNCHANGED <<writing, old, result>>

\* A call may throw without an effect.
Fails(place, catch) == at = place /\ Throw(catch) /\ NoChange /\ UNCHANGED synced

Begin ==
  /\ at = "idle" /\ writing < MaxWrites
  /\ at' = "write" /\ writing' = writing + 1 /\ old' = Read(dir)
  /\ failures' = 0 /\ result' = "none"
  /\ NoChange /\ UNCHANGED synced

\* writeFileSync() may throw after it has created the file.
Write ==
  /\ at = "write"
  /\ Change(Linked(dir, Temporary(writing), writing))
  /\ Then("sync") \/ Throw("cleanup")
  /\ UNCHANGED synced

\* Slip: the temporary file is renamed before its content is on the disk.
SyncFileLater == at = "sync" /\ Then("link") /\ NoChange /\ UNCHANGED synced

SyncFile ==
  /\ at = "sync" /\ Then("link")
  /\ synced' = synced \cup {writing}
  /\ NoChange

LinkBackup ==
  /\ at = "link"
  /\ IF Exists(dir, Path)
     THEN Change(Linked(dir, Backup(writing), dir[Path])) /\ Then("sync-backup")
     ELSE NoChange /\ Then("rename")      \* ENOENT is ignored
  /\ UNCHANGED synced

SyncBackup == at = "sync-backup" /\ Then("rename") /\ SyncDirectory /\ UNCHANGED synced

Rename ==
  /\ at = "rename"
  /\ Change(Renamed(dir, Temporary(writing), Path))
  /\ Then("sync-rename")
  /\ UNCHANGED synced

SyncRename ==
  /\ at = "sync-rename"
  /\ Then(IF BackupCreated THEN "unlink-backup" ELSE "saved")
  /\ SyncDirectory
  /\ UNCHANGED synced

UnlinkBackup ==
  /\ at = "unlink-backup"
  /\ Change(Unlinked(dir, Backup(writing)))
  /\ Then("saved")
  /\ UNCHANGED synced

(***************************************************************************)
(* The catch block: put the old document back, sync, drop the temporary    *)
(* file.  A second error is added to the first.                            *)
(***************************************************************************)
Catch == IF BackupCreated THEN "drop-backup" ELSE "cleanup"

\* Slip: the directory is not synced once the old document is back.
RestoreUnsynced ==
  /\ at = "restore"
  /\ Change(IF BackupCreated THEN Renamed(dir, Backup(writing), Path) ELSE Unlinked(dir, Path))
  /\ Then("cleanup")
  /\ UNCHANGED synced

Restore ==
  /\ at = "restore"
  /\ Change(IF BackupCreated THEN Renamed(dir, Backup(writing), Path) ELSE Unlinked(dir, Path))
  /\ Then("sync-restore")
  /\ UNCHANGED synced

SyncRestore == at = "sync-restore" /\ Then("cleanup") /\ SyncDirectory /\ UNCHANGED synced

DropBackup ==
  /\ at = "drop-backup"
  /\ Change(Unlinked(dir, Backup(writing)))
  /\ Then("cleanup")
  /\ UNCHANGED synced

\* ENOENT is ignored.
Cleanup ==
  /\ at = "cleanup"
  /\ IF Exists(dir, Temporary(writing)) THEN Change(Unlinked(dir, Temporary(writing))) ELSE NoChange
  /\ Then("failed")
  /\ UNCHANGED synced

\* Every call but the last may throw without an effect.
SystemCallFails ==
  \/ Fails("write", "cleanup")
  \/ Fails("sync", "cleanup")
  \/ Fails("link", "cleanup")
  \/ Fails("sync-backup", Catch)
  \/ Fails("rename", Catch)
  \/ Fails("sync-rename", "restore")
  \/ Fails("unlink-backup", "restore")
  \/ Fails("restore", "cleanup")
  \/ Fails("sync-restore", "cleanup")
  \/ Fails("drop-backup", "cleanup")
  \/ Fails("cleanup", "failed")

\* The call returns or throws.
Report(r) ==
  /\ at' = "idle" /\ old' = None /\ failures' = 0 /\ result' = r
  /\ NoChange /\ UNCHANGED <<writing, synced>>

\* Slip: an error while rolling back is not told from a plain error.
ReturnFailedPlainly == at = "failed" /\ Report("restored")

ReturnSaved == at = "saved" /\ Report("saved")
ReturnFailed == at = "failed" /\ Report(IF failures > 1 THEN "unknown" ELSE "restored")

\* The process dies.  The next one draws other names and cleans nothing up.
Crash == at # "idle" /\ Report("none")

\* The power is lost: one of the possible directories is found.
PowerLoss ==
  /\ \E d \in durable : dir' = d /\ durable' = {d}
  /\ at' = "idle" /\ old' = None /\ failures' = 0 /\ result' = "none"
  /\ UNCHANGED <<writing, synced>>

-----------------------------------------------------------------------------
\* Setup has written a first document, or the path names nothing yet.
Init ==
  /\ at = "idle" /\ writing = 0 /\ old = None
  /\ dir \in {[m \in {} |-> 0], [m \in {Path} |-> 0]}
  /\ durable = {dir}
  /\ synced = {0}
  /\ failures = 0 /\ result = "none"

Next ==
  \/ Begin \/ Write \/ SyncFile \/ LinkBackup \/ SyncBackup \/ Rename \/ SyncRename
  \/ UnlinkBackup \/ Restore \/ SyncRestore \/ DropBackup \/ Cleanup
  \/ SystemCallFails
  \/ ReturnSaved \/ ReturnFailed
  \/ Crash \/ PowerLoss

Spec == Init /\ [][Next]_vars

-----------------------------------------------------------------------------
(***************************************************************************)
(* Properties.                                                             *)
(***************************************************************************)
(***************************************************************************)
(* A call that returns, or that reports one error, leaves no temporary or  *)
(* backup file of its own behind.                                          *)
(***************************************************************************)
NoLeftovers ==
  result \in {"saved", "restored"} =>
    ~Exists(dir, Temporary(writing)) /\ ~Exists(dir, Backup(writing))

(***************************************************************************)
(* The abstract document this implements.  A name that reached the disk    *)
(* before the content it stands for is a torn document, no version of it.  *)
(***************************************************************************)
Torn == MaxWrites + 1

AfterPowerLoss(d) == IF Exists(d, Path) /\ d[Path] \notin synced THEN Torn ELSE Read(d)

Atomic == INSTANCE AtomicDocument WITH
  Versions <- Versions,
  None <- None,
  value <- Read(dir),
  maybe <- {AfterPowerLoss(d) : d \in durable},
  pending <- IF at = "idle" THEN None ELSE writing,
  before <- old,
  outcome <- result

(***************************************************************************)
(* Every write is atomic in the sense of AtomicDocument: old or new, saved *)
(* for good when the call returns, not to reappear when it reports a plain *)
(* error; and whole, whenever the power is lost.                           *)
(***************************************************************************)
AtomicWrites == Atomic!AtomicSpec
=============================================================================
