-------------------------------- MODULE Setup --------------------------------
(***************************************************************************)
(* setup (src/installer/plan.ts, executor.ts, profile-package.ts): plan,   *)
(* ask, then record each change before making it.  A failure rolls back    *)
(* from the record; a retry rolls back what an earlier run has left before *)
(* it starts.                                                              *)
(***************************************************************************)
EXTENDS Installation

(***************************************************************************)
(* prepareSetup().  A completed installation is only verified, a record    *)
(* that cannot be read or has other settings is refused.                   *)
(***************************************************************************)
Unowned ==
  {p \in {"environmentFile", "sessionSecretFile", "caddyfile", "caddyBinary",
          "caddyUnitFile", "authStateDirectory", "systemdDropInFile"} : Exists(p)}

PublicPortsFree == ~edge

Interrupted == record.at # "none" /\ record.whole /\ record.status = "installing"

\* inspectProfilePackage(): a bundle of the CLI's own build is there already.
Adoptable == bundle \in {"ours", "theirs"}

\* Slip: a bundle that an interrupted setup has installed is adopted as external.
AdoptsAnyBundle == Adoptable

AdoptsBundle == Adoptable /\ ~(Interrupted /\ record.package)

Ready ==
  /\ record.at = "none" \/ Interrupted
  /\ record.at = "none" => Unowned = {}
  /\ ~output => PublicPortsFree /\ bundle # "other"

\* The service's activity and the bundle are as discovered now, before the prompts.
PrepareSetup ==
  /\ MayRun /\ Ready
  /\ cli' = [Begun("setup", "secrets") EXCEPT
               !.recovering = Interrupted, !.recovered = Interrupted,
               !.adopt = AdoptsBundle]
  /\ UNCHANGED <<output, disk, guest, record, bundle, services, cred>>

\* The confirmation and the password, then executeSetup().
ReadSecrets ==
  /\ At("secrets")
  /\ \/ GoTo(IF cli.recovering THEN "undo-package" ELSE "journal")
     \/ End("refused")
  /\ UNCHANGED <<output, disk, guest, record, bundle, services, cred>>

-----------------------------------------------------------------------------
(***************************************************************************)
(* writeOwnershipJournal().  An existing configuration directory is not    *)
(* claimed, also when an earlier run has made it.                          *)
(***************************************************************************)
Journal(at, created) ==
  [at |-> at, whole |-> TRUE, status |-> "installing", created |-> created,
   package |-> FALSE, tried |-> {}, wasActive |-> cli.wasActive]

FirstJournal ==
  IF Exists("configDirectory") THEN Journal("final", {})
                               ELSE Journal("bootstrap", {"configDirectory"})

GivenUp(paths) ==
  [p \in Paths |-> IF p \in paths /\ disk[p] = "ours" THEN "left" ELSE disk[p]]

WriteJournal ==
  /\ At("journal")
  /\ record' = FirstJournal /\ disk' = GivenUp({"configDirectory"})
  /\ GoTo(IF Exists("configDirectory") THEN "package" ELSE "make-config")
  /\ UNCHANGED <<output, guest, bundle, services, cred>>

\* A new file is written in place: an error, or a kill, may leave half of it.
TearJournal ==
  /\ At("journal") /\ record.at = "none"
  /\ record' = [FirstJournal EXCEPT !.whole = FALSE] /\ disk' = GivenUp({"configDirectory"})
  /\ FailTo("undo-package") \/ FailWith("killed")
  /\ UNCHANGED <<output, guest, bundle, services, cred>>

MakeConfig ==
  /\ At("make-config")
  /\ disk' = [disk EXCEPT !.configDirectory = "ours"]
  /\ GoTo("move-journal")
  /\ UNCHANGED <<output, guest, record, bundle, services, cred>>

MoveJournal ==
  /\ At("move-journal")
  /\ record' = [record EXCEPT !.at = "final"]
  /\ GoTo("package")
  /\ UNCHANGED <<output, disk, guest, bundle, services, cred>>

(***************************************************************************)
(* installProfilePackage(): recorded as installed by setup before it is.   *)
(***************************************************************************)
ToPath(i) == cli' = [cli EXCEPT !.at = "own", !.i = i]

RecordPackage ==
  /\ At("package")
  /\ IF output \/ cli.adopt
       THEN ToPath(1) /\ UNCHANGED record
       ELSE record' = [record EXCEPT !.package = TRUE] /\ GoTo("add-package")
  /\ UNCHANGED <<output, disk, guest, bundle, services, cred>>

AddPackage ==
  /\ At("add-package")
  /\ \/ bundle' = "ours" /\ ToPath(1)
     \/ bundle' \in {"none", "ours"} /\ FailTo("undo-package")
  /\ UNCHANGED <<output, disk, guest, record, services, cred>>

(***************************************************************************)
(* createManagedDirectories(), writeManagedConfiguration(): a directory    *)
(* that is there is used and not recorded; a file must be new.             *)
(***************************************************************************)
Path == Order[cli.i]

NextPath ==
  IF cli.i < Len(Order) THEN ToPath(cli.i + 1)
                        ELSE GoTo(IF output THEN "finish" ELSE "record-reload")

\* Slip: an existing directory is recorded like a new one.
RecordEveryPath ==
  /\ At("own")
  /\ record' = [record EXCEPT !.created = @ \cup {Path}]
  /\ IF Path \in Directories /\ Exists(Path) THEN NextPath ELSE GoTo("make")
  /\ UNCHANGED <<output, disk, guest, bundle, services, cred>>

\* Slip: a directory is made without being recorded.
RecordFiles ==
  /\ At("own")
  /\ IF Path \in Directories /\ Exists(Path)
       THEN NextPath /\ UNCHANGED record
       ELSE /\ record' = [record EXCEPT !.created = @ \cup ({Path} \ Directories)]
            /\ GoTo("make")
  /\ UNCHANGED <<output, disk, guest, bundle, services, cred>>

RecordPath ==
  /\ At("own")
  /\ IF Path \in Directories /\ Exists(Path)
       THEN NextPath /\ UNCHANGED record
       ELSE record' = [record EXCEPT !.created = @ \cup {Path}] /\ GoTo("make")
  /\ UNCHANGED <<output, disk, guest, bundle, services, cred>>

MakePath ==
  /\ At("make")
  /\ IF Exists(Path)
       THEN GoTo("undo-package") /\ UNCHANGED <<disk, cred>>
       ELSE /\ disk' = [disk EXCEPT ![Path] = "ours"] /\ NextPath
            /\ cred' = CASE Path = "sessionSecretFile" -> [cred EXCEPT !.secret = 0]
                         [] Path = "authStateFile" -> [cred EXCEPT !.document = 0]
                         [] OTHER -> cred
  /\ UNCHANGED <<output, guest, record, bundle, services>>

-----------------------------------------------------------------------------
(***************************************************************************)
(* activateSystem(): `caddy validate`, then three calls of systemctl, each *)
(* recorded as tried before it is made.  A failing call may have had its   *)
(* effect; a failing restart may have stopped the service.                 *)
(***************************************************************************)
Try(place, what, next) ==
  /\ At(place)
  /\ record' = [record EXCEPT !.tried = @ \cup {what}]
  /\ GoTo(next)
  /\ UNCHANGED <<output, disk, guest, bundle, services, cred>>

Reload ==
  /\ At("reload")
  /\ \/ loaded' = Reloaded /\ GoTo("record-restart")
     \/ loaded' \in {loaded, Reloaded} /\ FailTo("undo-package")
  /\ UNCHANGED <<output, disk, guest, record, bundle, dsh, edge, cred>>

Restart ==
  /\ At("restart")
  /\ \/ dsh' = Booted /\ Booted # "stopped" /\ GoTo("record-enable")
     \/ dsh' \in {dsh, Booted, "stopped"} /\ FailTo("undo-package")
  /\ UNCHANGED <<output, disk, guest, record, bundle, loaded, edge, cred>>

Enable ==
  /\ At("enable")
  /\ \/ edge' = TRUE /\ GoTo("finish")
     \/ edge' \in BOOLEAN /\ FailTo("undo-package")
  /\ UNCHANGED <<output, disk, guest, record, bundle, dsh, loaded, cred>>

FinishSetup ==
  /\ At("finish")
  /\ record' = [record EXCEPT !.status = "installed", !.tried = {}]
  /\ cli' = [Ending("done") EXCEPT !.broken = FALSE]
  /\ UNCHANGED <<output, disk, guest, bundle, services, cred>>

-----------------------------------------------------------------------------
(***************************************************************************)
(* rollbackInstallation(), of the run that failed or of an interrupted     *)
(* one: the bundle, the paths in reverse, the record, the services.  A     *)
(* record that was torn when it was written cannot be rolled back.         *)
(***************************************************************************)
UndoPackage ==
  /\ At("undo-package")
  /\ IF record.at = "final" /\ ~record.whole
       THEN End("broken") /\ UNCHANGED bundle
       ELSE LET next == [cli EXCEPT !.at = "undo-paths", !.i = Len(Order), !.tried = record.tried]
            IN  IF record.package /\ bundle # "none"
                  THEN \/ bundle' = "none" /\ cli' = next
                       \/ bundle' \in {bundle, "none"} /\ FailWith("broken")
                  ELSE UNCHANGED bundle /\ cli' = next
  /\ UNCHANGED <<output, disk, guest, record, services, cred>>

\* removeCreatedPaths(): a directory that is not empty stays.
Remaining == {i \in 1..cli.i : Order[i] \in record.created /\ Exists(Order[i])}

RemovePath ==
  /\ At("undo-paths") /\ Remaining # {}
  /\ LET i == Max(Remaining)
         path == Order[i]
     IN  /\ disk' = [disk EXCEPT ![path] =
                       IF path \in Directories /\ ~Empty(path) THEN @ ELSE "none"]
         /\ cli' = [cli EXCEPT !.i = i - 1]
  /\ UNCHANGED <<output, guest, record, bundle, services, cred>>

RemoveConfig ==
  /\ At("undo-paths") /\ Remaining = {}
  /\ disk' = [disk EXCEPT !.configDirectory =
                IF "configDirectory" \in record.created /\ Empty("configDirectory")
                  THEN "none" ELSE @]
  /\ GoTo("undo-record")
  /\ UNCHANGED <<output, guest, record, bundle, services, cred>>

(***************************************************************************)
(* A record in its place stays and claims only the configuration           *)
(* directory: nothing is left to undo, from now on also of the services.   *)
(* One beside it goes.                                                     *)
(***************************************************************************)
UndoRecord ==
  /\ At("undo-record")
  /\ record' = IF record.at = "final"
                 THEN [record EXCEPT !.created = {"configDirectory"}, !.package = FALSE,
                                     !.tried = {}]
                 ELSE NoRecord
  /\ disk' = GivenUp(Paths \ {"configDirectory"})
  /\ GoTo("undo-enable")
  /\ UNCHANGED <<output, guest, bundle, services, cred>>

UndoEnable ==
  /\ At("undo-enable")
  /\ IF "enable" \in cli.tried
       THEN \/ edge' = FALSE /\ GoTo("undo-reload")
            \/ edge' \in {edge, FALSE} /\ FailWith("broken")
       ELSE UNCHANGED edge /\ GoTo("undo-reload")
  /\ UNCHANGED <<output, disk, guest, record, bundle, dsh, loaded, cred>>

UndoReload ==
  /\ At("undo-reload")
  /\ IF "reload" \in cli.tried
       THEN \/ loaded' = Reloaded /\ GoTo("undo-restart")
            \/ loaded' \in {loaded, Reloaded} /\ FailWith("broken")
       ELSE UNCHANGED loaded /\ GoTo("undo-restart")
  /\ UNCHANGED <<output, disk, guest, record, bundle, dsh, edge, cred>>

\* The run is over, or goes on after the recovery of an interrupted one.
Undone ==
  cli' = IF cli.recovering
           THEN [cli EXCEPT !.at = "journal", !.recovering = FALSE, !.tried = {}]
           ELSE Ending("failed")

\* Slip: the service is restarted whatever it was before.
AlwaysRestart == Booted

\* `restart`, or `stop`, as it was before the run.
Restored == IF record.wasActive THEN Booted ELSE "stopped"

UndoRestart ==
  /\ At("undo-restart")
  /\ IF "restart" \in cli.tried
       THEN \/ dsh' = Restored /\ Undone
            \/ dsh' \in {dsh, Restored, "stopped"} /\ FailWith("broken")
       ELSE UNCHANGED dsh /\ Undone
  /\ UNCHANGED <<output, disk, guest, record, bundle, loaded, edge, cred>>

-----------------------------------------------------------------------------
Installing == {"journal", "make-config", "move-journal", "package", "add-package", "own",
               "make", "record-reload", "reload", "record-restart", "restart",
               "record-enable", "enable", "finish"}
Undoing == {"undo-package", "undo-paths", "undo-record", "undo-enable", "undo-reload",
            "undo-restart"}

\* A host call that fails without an effect.
SetupCallFails ==
  /\ \/ cli.at \in Installing /\ FailTo("undo-package")
     \/ cli.at \in Undoing /\ FailWith("broken")
  /\ UNCHANGED <<output, disk, guest, record, bundle, services, cred>>

SetupStep ==
  \/ PrepareSetup \/ ReadSecrets
  \/ WriteJournal \/ TearJournal \/ MakeConfig \/ MoveJournal
  \/ RecordPackage \/ AddPackage \/ RecordPath \/ MakePath
  \/ Try("record-reload", "reload", "reload") \/ Reload
  \/ Try("record-restart", "restart", "restart") \/ Restart
  \/ Try("record-enable", "enable", "enable") \/ Enable
  \/ FinishSetup
  \/ UndoPackage \/ RemovePath \/ RemoveConfig \/ UndoRecord
  \/ UndoEnable \/ UndoReload \/ UndoRestart
  \/ SetupCallFails

=============================================================================
