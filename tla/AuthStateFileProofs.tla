------------------------- MODULE AuthStateFileProofs -------------------------
(***************************************************************************)
(* AuthStateFile implements AtomicDocument, and cleans up after itself,    *)
(* for any number of writes, failing calls, crashes and power losses.      *)
(***************************************************************************)
EXTENDS AuthStateFile, TLAPS

-----------------------------------------------------------------------------
(***************************************************************************)
(* The directory operators, by what is then found under a name.            *)
(***************************************************************************)
(* The names of one call are different from each other and from the        *)
(* document's.                                                             *)
LEMMA NamesDiffer ==
  ASSUME NEW n, NEW m
  PROVE  /\ Path # Temporary(n) /\ Path # Backup(n) /\ Temporary(n) # Backup(m)
         /\ Temporary(n) = Temporary(m) => n = m
         /\ Backup(n) = Backup(m) => n = m
BY DEF Path, Temporary, Backup

(* A linked name is found, with its version; the others as before. *)
LEMMA LinkedFinds ==
  ASSUME NEW d, NEW name, NEW v
  PROVE  /\ Exists(Linked(d, name, v), name) /\ Linked(d, name, v)[name] = v
         /\ \A m : m # name =>
              /\ Exists(Linked(d, name, v), m) <=> Exists(d, m)
              /\ Exists(d, m) => Linked(d, name, v)[m] = d[m]
BY DEF Linked, Exists

(* An unlinked name is not found; the others as before. *)
LEMMA UnlinkedFinds ==
  ASSUME NEW d, NEW name
  PROVE  /\ ~Exists(Unlinked(d, name), name)
         /\ \A m : m # name =>
              /\ Exists(Unlinked(d, name), m) <=> Exists(d, m)
              /\ Exists(d, m) => Unlinked(d, name)[m] = d[m]
BY DEF Unlinked, Exists, Restrict

(* A renamed file is found under its new name only. *)
LEMMA RenamedFinds ==
  ASSUME NEW d, NEW from, NEW to, from # to
  PROVE  /\ ~Exists(Renamed(d, from, to), from)
         /\ Exists(Renamed(d, from, to), to) /\ Renamed(d, from, to)[to] = d[from]
         /\ \A m : m # from /\ m # to =>
              /\ Exists(Renamed(d, from, to), m) <=> Exists(d, m)
              /\ Exists(d, m) => Renamed(d, from, to)[m] = d[m]
<1> DEFINE l == Linked(d, to, d[from])
<1>1. /\ Exists(l, to) /\ l[to] = d[from]
      /\ \A m : m # to => (Exists(l, m) <=> Exists(d, m)) /\ (Exists(d, m) => l[m] = d[m])
  BY LinkedFinds
<1>2. /\ ~Exists(Unlinked(l, from), from)
      /\ \A m : m # from =>
           (Exists(Unlinked(l, from), m) <=> Exists(l, m)) /\ (Exists(l, m) => Unlinked(l, from)[m] = l[m])
  BY UnlinkedFinds
<1>3. Renamed(d, from, to) = Unlinked(l, from)
  BY DEF Renamed
<1> HIDE DEF l
<1> QED BY <1>1, <1>2, <1>3

-----------------------------------------------------------------------------
(***************************************************************************)
(* The inductive invariant: what each place of persistAuthState() knows of *)
(* its files, of the document, and of what a power loss may find.          *)
(***************************************************************************)
Writing == {"write", "sync", "link", "sync-backup", "rename"}
Replaced == {"sync-rename", "unlink-backup", "saved"}
Catching == {"restore", "sync-restore", "drop-backup", "cleanup", "failed"}

Typed ==
  /\ at \in {"idle"} \cup Writing \cup Replaced \cup Catching
  /\ writing \in Nat
  /\ failures \in Nat
  /\ dir \in durable
  /\ synced \subseteq 0..writing
  /\ old \in synced \cup {None}
  /\ result \in {"none", "saved", "restored", "unknown"}

\* A power loss finds whole versions only, and no name a later call will draw.
Whole ==
  \A d \in durable :
    /\ Exists(d, Path) => d[Path] \in synced
    /\ \A n \in Nat : n > writing => ~Exists(d, Temporary(n)) /\ ~Exists(d, Backup(n))

\* What the running call has under its names.
Own ==
  at # "idle" =>
    /\ old # writing
    /\ Exists(dir, Temporary(writing)) => dir[Temporary(writing)] = writing
    /\ Exists(dir, Backup(writing)) => old # None /\ dir[Backup(writing)] = old
    /\ at = "write" => ~Exists(dir, Temporary(writing))
    /\ at \in Writing \ {"write"} => Exists(dir, Temporary(writing))
    /\ at \in {"link", "sync-backup", "rename"} \cup Replaced \cup {"restore"} => writing \in synced
    /\ at \in {"write", "sync", "link"} => ~Exists(dir, Backup(writing))
    /\ at \in {"rename", "sync-rename", "unlink-backup", "restore"} /\ old # None => Exists(dir, Backup(writing))
    /\ at = "sync-backup" => Exists(dir, Backup(writing))
    /\ at \in Writing \cup Replaced => failures = 0
    /\ at \in Catching => failures > 0
    /\ at \in {"restore", "sync-restore", "drop-backup"} => failures = 1

\* What a reader finds while the call runs: old or new, told apart by its failures.
Value ==
  at # "idle" =>
    /\ Read(dir) \in {old, writing}
    /\ at \in Writing \cup {"sync-restore", "drop-backup"} => Read(dir) = old
    /\ at \in Replaced \cup {"restore"} => Read(dir) = writing
    /\ at \in {"unlink-backup", "saved"} => \A d \in durable : Read(d) = writing
    /\ at \in Writing \cup {"drop-backup"} => \A d \in durable : Read(d) # writing
    /\ at \in {"cleanup", "failed"} /\ failures = 1 =>
         Read(dir) = old /\ \A d \in durable : Read(d) # writing

\* What is left behind.
Clean ==
  /\ at # "idle" => result = "none"
  /\ at \in Replaced => ~Exists(dir, Temporary(writing))
  /\ at \in {"saved", "sync-restore"} \/ (at \in {"cleanup", "failed"} /\ failures = 1) =>
       ~Exists(dir, Backup(writing))
  /\ at = "failed" /\ failures = 1 => ~Exists(dir, Temporary(writing))
  /\ NoLeftovers

Inv == Typed /\ Whole /\ Own /\ Value /\ Clean

(* The invariant holds of an idle store with or without a document. *)
LEMMA InvInit == Init => Inv
BY WriteAssumption DEF Init, Inv, Typed, Whole, Own, Value, Clean, Writing, Replaced, Catching,
  NoLeftovers, Exists, Path, Temporary, Backup

(* Every system call, and every failure of one, keeps it. *)
LEMMA InvStep ==
  ASSUME Inv, Next
  PROVE  Inv'
<1> USE WriteAssumption, NamesDiffer
    DEF Inv, Typed, Whole, Own, Value, Clean, Writing, Replaced, Catching, NoLeftovers,
        Change, SyncDirectory, NoChange, Then, Throw, BackupCreated, Report, Read
<1>1. CASE Begin
  BY <1>1 DEF Begin
<1>2. CASE Write
  BY <1>2, LinkedFinds DEF Write
<1>3. CASE SyncFile
  BY <1>3 DEF SyncFile
<1>4. CASE LinkBackup
  BY <1>4, LinkedFinds DEF LinkBackup
<1>5. CASE SyncBackup
  BY <1>5 DEF SyncBackup
<1>6. CASE Rename
  BY <1>6, RenamedFinds DEF Rename
<1>7. CASE SyncRename
  BY <1>7 DEF SyncRename
<1>8. CASE UnlinkBackup
  BY <1>8, UnlinkedFinds DEF UnlinkBackup
<1>9. CASE Restore
  BY <1>9, RenamedFinds, UnlinkedFinds DEF Restore
<1>10. CASE SyncRestore
  BY <1>10 DEF SyncRestore
<1>11. CASE DropBackup
  BY <1>11, UnlinkedFinds DEF DropBackup
<1>12. CASE Cleanup
  BY <1>12, UnlinkedFinds DEF Cleanup
<1>13. CASE ReturnSaved
  BY <1>13 DEF ReturnSaved
<1>14. CASE ReturnFailed
  BY <1>14 DEF ReturnFailed
<1>15. CASE Crash
  BY <1>15 DEF Crash
<1>16. CASE PowerLoss
  BY <1>16 DEF PowerLoss
<1>17. CASE Fails("write", "cleanup")
  BY <1>17 DEF Fails
<1>18. CASE Fails("sync", "cleanup")
  BY <1>18 DEF Fails
<1>19. CASE Fails("link", "cleanup")
  BY <1>19 DEF Fails
<1>20. CASE Fails("sync-backup", Catch)
  BY <1>20 DEF Fails, Catch
<1>21. CASE Fails("rename", Catch)
  BY <1>21 DEF Fails, Catch
<1>22. CASE Fails("sync-rename", "restore")
  BY <1>22 DEF Fails
<1>23. CASE Fails("unlink-backup", "restore")
  BY <1>23 DEF Fails
<1>24. CASE Fails("restore", "cleanup")
  BY <1>24 DEF Fails
<1>25. CASE Fails("sync-restore", "cleanup")
  BY <1>25 DEF Fails
<1>26. CASE Fails("drop-backup", "cleanup")
  BY <1>26 DEF Fails
<1>27. CASE Fails("cleanup", "failed")
  BY <1>27 DEF Fails
<1> QED BY <1>1, <1>2, <1>3, <1>4, <1>5, <1>6, <1>7, <1>8, <1>9, <1>10, <1>11, <1>12, <1>13, <1>14, <1>15, <1>16, <1>17, <1>18, <1>19, <1>20, <1>21, <1>22, <1>23, <1>24, <1>25, <1>26, <1>27 DEF Next, SystemCallFails

(* So does a step that changes nothing. *)
LEMMA InvStutter ==
  ASSUME Inv, UNCHANGED vars
  PROVE  Inv'
BY DEF vars, Inv, Typed, Whole, Own, Value, Clean, Writing, Replaced, Catching, NoLeftovers,
       Exists, Read

(* The invariant always holds. *)
LEMMA InvAlways == Spec => []Inv
<1>1. Inv /\ [Next]_vars => Inv'
  BY InvStep, InvStutter
<1> QED BY InvInit, <1>1, PTL DEF Spec

(***************************************************************************)
(* A call of persistAuthState() that returns, or reports one error, leaves *)
(* neither its temporary nor its backup file behind.                       *)
(***************************************************************************)
THEOREM LeavesNothingBehind == Spec => []NoLeftovers
<1>1. Inv => NoLeftovers
  BY DEF Inv, Clean
<1> QED BY InvAlways, <1>1, PTL

-----------------------------------------------------------------------------
(***************************************************************************)
(* The refinement.                                                         *)
(***************************************************************************)
\* The versions a reader may find after a power loss.
Maybe == {AfterPowerLoss(d) : d \in durable}

(* A power loss finds whole documents only: those a reader might find.     *)
LEMMA MaybeRead ==
  ASSUME Inv, Inv'
  PROVE  Maybe = {Read(d) : d \in durable} /\ Maybe' = {Read(d) : d \in durable'}
<1>1. \A d \in durable : AfterPowerLoss(d) = Read(d)
  BY DEF Inv, Whole, AfterPowerLoss
<1>2. \A d \in durable' : AfterPowerLoss(d)' = Read(d)
  BY DEF Inv, Whole, AfterPowerLoss, Read, Exists
<1> QED BY <1>1, <1>2 DEF Maybe

(* A step inside a call is progress of the abstract write.                 *)
LEMMA ProgressStep ==
  ASSUME Inv, Inv', at # "idle", at' # "idle", UNCHANGED <<writing, old, result>>,
         durable' \subseteq durable \cup {dir'}
  PROVE  Atomic!Progress
<1>1. Maybe = {Read(d) : d \in durable} /\ Maybe' = {Read(d) : d \in durable'}
  BY MaybeRead
<1>2. writing # None
  BY WriteAssumption DEF Inv, Typed
<1>3. Read(dir)' \in {old, writing} /\ dir' \in durable'
  BY DEF Inv, Value, Typed
<1>4. Read(dir)' = Read(dir')
  BY DEF Read, Exists
<1>5. Maybe' \in (SUBSET (Maybe \cup {old, writing})) \ {{}}
  <2>1. \A v \in Maybe' : v \in Maybe \cup {old, writing}
    BY <1>1, <1>3, <1>4
  <2>2. Read(dir') \in Maybe'
    BY <1>1, <1>3
  <2> QED BY ONLY <2>1, <2>2
<1> QED BY <1>2, <1>3, <1>5 DEF Atomic!Progress, Maybe

(* Every step is one of AtomicDocument, or changes nothing it shows.       *)
LEMMA AtomicStep ==
  ASSUME Inv, Inv', Next
  PROVE  Atomic!AtomicNext \/ UNCHANGED Atomic!docvars
<1>1. Maybe = {Read(d) : d \in durable} /\ Maybe' = {Read(d) : d \in durable'}
  BY MaybeRead
<1>2. writing # None /\ writing \in Nat /\ dir \in durable /\ dir' \in durable'
  BY WriteAssumption DEF Inv, Typed
<1>3. Read(dir)' = Read(dir')
  BY DEF Read, Exists
<1>4. CASE Begin
  <2>1. writing + 1 \in Versions
    BY <1>2, <1>4, WriteAssumption DEF Begin, Versions
  <2>2. Maybe' = Maybe /\ Read(dir)' = Read(dir)
    BY <1>1, <1>3, <1>4 DEF Begin, NoChange
  <2>3. Atomic!Begin(writing + 1)
    BY <1>4, <2>2 DEF Begin, Atomic!Begin, Maybe
  <2> QED BY <2>1, <2>3 DEF Atomic!AtomicNext
<1>5. CASE ReturnSaved
  <2>1. Read(dir)' = writing /\ Maybe' = {writing}
    BY <1>1, <1>2, <1>3, <1>5 DEF ReturnSaved, Report, NoChange, Inv, Value
  <2> QED BY <1>2, <1>5, <2>1
          DEF ReturnSaved, Report, Maybe, Atomic!AtomicNext, Atomic!Saved, Atomic!End
<1>6. CASE ReturnFailed
  <2>1. Maybe' = Maybe /\ Read(dir)' = Read(dir)
    BY <1>1, <1>3, <1>6 DEF ReturnFailed, Report, NoChange
  <2>2. Read(dir) \in {old, writing} /\ Read(dir) \in Maybe
    BY <1>1, <1>2, <1>6 DEF ReturnFailed, Inv, Value
  <2>3. Maybe' \in (SUBSET (Maybe \cup {old})) \ {{}} /\ Maybe' \in (SUBSET (Maybe \cup {old, writing})) \ {{}}
    <3>1. Maybe # {} /\ Maybe \subseteq Maybe \cup {old} /\ Maybe \subseteq Maybe \cup {old, writing}
      BY ONLY <2>2
    <3> QED BY ONLY <2>1, <3>1
  <2>4. CASE failures > 1
    <3>1. result' = "unknown"
      BY <1>6, <2>4 DEF ReturnFailed, Report
    <3> QED BY <1>2, <1>6, <2>1, <2>2, <2>3, <3>1
            DEF ReturnFailed, Report, Maybe, Atomic!AtomicNext, Atomic!Unknown, Atomic!End
  <2>5. CASE ~(failures > 1)
    <3>1. result' = "restored"
      BY <1>6, <2>5 DEF ReturnFailed, Report
    <3>2. failures = 1
      BY <1>6, <2>5 DEF ReturnFailed, Inv, Typed, Own, Catching
    <3>3. Read(dir) = old /\ writing \notin Maybe
      BY <1>1, <1>6, <3>2 DEF ReturnFailed, Inv, Value
    <3> QED BY <1>2, <1>6, <2>1, <2>3, <3>1, <3>3
            DEF ReturnFailed, Report, Maybe, Atomic!AtomicNext, Atomic!Restored, Atomic!End
  <2> QED BY <2>4, <2>5
<1>7. CASE Crash
  <2>1. Maybe' = Maybe /\ Read(dir)' = Read(dir)
    BY <1>1, <1>3, <1>7 DEF Crash, Report, NoChange
  <2> QED BY <1>2, <1>7, <2>1
          DEF Crash, Report, Maybe, Atomic!AtomicNext, Atomic!Crash, Atomic!End
<1>8. CASE PowerLoss
  <2>1. PICK d \in durable : dir' = d /\ durable' = {d}
    BY <1>8 DEF PowerLoss
  <2>2. Read(dir)' = Read(d) /\ Read(d) \in Maybe /\ Maybe' = {Read(d)}
    BY <1>1, <1>3, <2>1
  <2> QED BY <1>8, <2>2 DEF PowerLoss, Maybe, Atomic!AtomicNext, Atomic!PowerLoss
<1>9. CASE ~(Begin \/ ReturnSaved \/ ReturnFailed \/ Crash \/ PowerLoss)
  <2>1. /\ at # "idle" /\ at' # "idle" /\ UNCHANGED <<writing, old, result>>
        /\ durable' \subseteq durable \cup {dir'}
    BY <1>2, <1>9 DEF Next, SystemCallFails, Fails, Write, SyncFile, LinkBackup, SyncBackup, Rename,
       SyncRename, UnlinkBackup, Restore, SyncRestore, DropBackup, Cleanup, Change,
       SyncDirectory, NoChange, Then, Throw, Catch
  <2> QED BY <2>1, ProgressStep DEF Atomic!AtomicNext
<1> QED BY <1>4, <1>5, <1>6, <1>7, <1>8, <1>9

(* The start is one of AtomicDocument.                                     *)
LEMMA AtomicStart == Init => Atomic!AtomicInit
<1> SUFFICES ASSUME Init PROVE Atomic!AtomicInit
  OBVIOUS
<1>1. Maybe = {Read(d) : d \in durable}
  <2>1. \A d \in durable : AfterPowerLoss(d) = Read(d)
    BY DEF Init, AfterPowerLoss, Exists
  <2> QED BY <2>1 DEF Maybe
<1>2. Maybe = {Read(dir)} /\ Read(dir) \in {0, None} /\ 0 \in Versions
  BY <1>1, WriteAssumption DEF Init, Read, Exists, Path, Versions
<1> QED BY <1>2 DEF Init, Maybe, Atomic!AtomicInit

(***************************************************************************)
(* persistAuthState() implements the atomic document: a reader finds the   *)
(* old or the new version, a saved one stays, a refused one does not come  *)
(* back, and no power loss finds a torn one.                               *)
(***************************************************************************)
THEOREM WritesAreAtomic == Spec => AtomicWrites
<1>1. Inv /\ Inv' /\ [Next]_vars => [Atomic!AtomicNext]_Atomic!docvars
  <2>1. UNCHANGED vars => UNCHANGED Atomic!docvars
    BY DEF vars, Atomic!docvars, Read, Exists, AfterPowerLoss
  <2> QED BY <2>1, AtomicStep
<1> QED BY InvAlways, AtomicStart, <1>1, PTL DEF Spec, AtomicWrites, Atomic!AtomicSpec
=============================================================================
