------------------------------- MODULE Upgrade -------------------------------
(***************************************************************************)
(* The managed upgrade (src/installer/upgrade.ts): one CLI run moves the   *)
(* profile bundle, the Caddy binary, the version marker in the environment *)
(* file and both services to its own build.  A journal in the ownership    *)
(* record says how far it has come; a run that fails rolls back, and a run *)
(* that finds a journal rolls back what an interrupted one has left before *)
(* it starts.  Meanwhile the DSH service keeps writing its authentication  *)
(* document, and the CLI or the host may go down between any two steps.    *)
(*                                                                         *)
(* A build stands for its package spec and its identity; its version is    *)
(* what tells two builds apart before an upgrade.  Owners and modes of the *)
(* files are left out.                                                     *)
(***************************************************************************)
EXTENDS Integers, Sequences, FiniteSetsExt

CONSTANTS
  Builds,      \* dsh-auth builds, in the order they were released
  VersionOf,   \* the version of each
  First,       \* the build setup installed
  CaddyOf,     \* the Caddy binary that comes with each build
  None,        \* no file, no build, or one that is none of Builds
  MaxRuns,     \* bound: upgrade runs
  MaxWrites,   \* bound: writes the document remembers
  MaxReboots   \* bound: reboots of the host

(***************************************************************************)
(* A version is three numbers and the identifiers of a prerelease.  Of an  *)
(* identifier that is not a number only the place in the order of texts    *)
(* is kept.                                                                *)
(***************************************************************************)
Identifiers == [numeric: BOOLEAN, value: Nat]
Versions == [release: [1..3 -> Nat], prerelease: Seq(Identifiers)]

ASSUME BuildAssumption ==
  /\ Builds \subseteq Nat /\ First \in Builds
  /\ VersionOf \in [Builds -> Versions]
  /\ CaddyOf \in [Builds -> Nat]
  /\ None \notin Builds /\ \A b \in Builds : CaddyOf[b] # None
ASSUME UpgradeBounds == MaxRuns \in Nat /\ MaxWrites \in Nat /\ MaxReboots \in Nat

VARIABLES
  record,   \* the ownership record: installed build, Caddy and the journal
  bundle,   \* the build in the profile
  binary,   \* the managed Caddy binary
  staged,   \* the one about to replace it
  env,      \* the expected version in the environment file
  dsh,      \* the DSH service, and the build whose plugin it has activated
  edge,     \* the Caddy service: the binary it runs
  doc,      \* the authentication document: which build made each change
  backup,   \* its snapshot: a set of one document, or of none
  cli,      \* the running upgrade
  reboots   \* number of reboots

files == <<bundle, binary, staged, env>>
state == <<doc, backup>>
services == <<dsh, edge>>
vars == <<record, files, services, state, cli, reboots>>

(***************************************************************************)
(* compareVersions(): 1, 0 or -1 as `version` is newer than the other, the *)
(* same or older.                                                          *)
(***************************************************************************)
Sign(n) == CASE n > 0 -> 1 [] n < 0 -> -1 [] OTHER -> 0

\* Slip: the digits of two numbers are compared as texts.
CompareIdentifiersAsTexts(left, right) ==
  LET FirstDigit(n) == IF n < 10 THEN n ELSE n \div 10
  IN  CASE left.numeric = right.numeric -> Sign(FirstDigit(left.value) - FirstDigit(right.value))
        [] left.numeric /\ ~right.numeric -> -1
        [] OTHER -> 1

\* A number comes before a text.
CompareIdentifiers(left, right) ==
  CASE left.numeric = right.numeric -> Sign(left.value - right.value)
    [] left.numeric /\ ~right.numeric -> -1
    [] OTHER -> 1

\* What the first place that tells two lists apart says, else what `otherwise` says.
FirstOf(signs, otherwise) ==
  LET telling == {i \in DOMAIN signs : signs[i] # 0}
  IN  IF telling = {} THEN otherwise ELSE signs[Min(telling)]

\* A release is newer than its prereleases, a longer list of identifiers newer than its beginning.
ComparePrereleases(left, right) ==
  LET shared == 1..Min({Len(left), Len(right)})
      signs == [i \in shared |-> CompareIdentifiers(left[i], right[i])]
  IN  CASE left = <<>> \/ right = <<>> -> Sign(Len(right) - Len(left))
        [] OTHER -> FirstOf(signs, Sign(Len(left) - Len(right)))

CompareVersions(version, than) ==
  FirstOf([i \in 1..3 |-> Sign(version.release[i] - than.release[i])],
          ComparePrereleases(version.prerelease, than.prerelease))

Newer(build, than) == CompareVersions(VersionOf[build], VersionOf[than]) > 0

-----------------------------------------------------------------------------
Settled == [from |-> None, phase |-> "none"]
Phase == record.journal.phase
From == record.journal.from

Stopped == [active |-> FALSE, build |-> None]

\* The plugin refuses activation when the marker is not its own version.
Booted == [active |-> TRUE, build |-> IF bundle = env THEN bundle ELSE None]

-----------------------------------------------------------------------------
(***************************************************************************)
(* The control flow of a run.                                              *)
(***************************************************************************)
At(place) == cli.at = place
GoTo(place) == cli' = [cli EXCEPT !.at = place] /\ UNCHANGED reboots

\* Slip: the service of the target build keeps running while it is undone.
UndoFromBundle == "undo-bundle"

UndoFrom == IF Phase = "services" THEN "undo-stop" ELSE "undo-bundle"

Undoing == {"undo-stop", "undo-bundle", "undo-stage", "undo-remove", "undo-rename",
            "undo-document", "undo-environment", "undo-dsh", "undo-edge",
            "undo-finish", "undo-forget"}

\* Inside `try` an error is rolled back; before it, or in a rollback, it ends the run.
Throw ==
  GoTo(IF cli.at \in Undoing \cup {"journal", "forget"} THEN "idle" ELSE UndoFrom)

(***************************************************************************)
(* prepareUpgrade(): without a journal the doctor must find no error, and  *)
(* it compares the recorded Caddy with the one of the CLI's own build.     *)
(***************************************************************************)
Healthy(target) ==
  /\ bundle = record.build /\ env = record.build
  /\ binary = record.caddy /\ CaddyOf[target] = record.caddy
  /\ dsh.active /\ edge # None

Run(target) ==
  /\ At("idle") /\ cli.runs < MaxRuns
  /\ Newer(target, record.build)
  /\ Phase = "none" => Healthy(target)
  /\ cli' = [at |-> IF Phase = "none" THEN "journal" ELSE UndoFrom,
             target |-> target, recovering |-> Phase # "none", runs |-> cli.runs + 1]
  /\ UNCHANGED <<record, files, services, state, reboots>>

-----------------------------------------------------------------------------
(***************************************************************************)
(* executeUpgrade().                                                       *)
(***************************************************************************)
Enter(place, phase, next) ==
  /\ At(place)
  /\ record' = [record EXCEPT !.journal = [from |-> record.build, phase |-> phase]]
  /\ GoTo(next)
  /\ UNCHANGED <<files, services, state>>

\* `dsh plugin add`: on failure, or resolving to another build, it is rolled back.
AddBundle ==
  /\ At("add")
  /\ \/ bundle' = cli.target /\ GoTo("enter-caddy")
     \/ bundle' \in {bundle, cli.target, None} /\ Throw
  /\ UNCHANGED <<record, binary, staged, env, services, state>>

(***************************************************************************)
(* replaceManagedBinary(), on the way forward and back: the managed binary *)
(* is removed before the staged one takes its name.                        *)
(***************************************************************************)
Stage(place, build, next) ==
  /\ At(place)
  /\ staged' = CaddyOf[build]
  /\ GoTo(next)
  /\ UNCHANGED <<record, bundle, binary, env, services, state>>

Remove(place, next) ==
  /\ At(place)
  /\ binary' = None
  /\ GoTo(next)
  /\ UNCHANGED <<record, bundle, staged, env, services, state>>

Rename(place, next) ==
  /\ At(place)
  /\ binary' = staged /\ staged' = None
  /\ GoTo(next)
  /\ UNCHANGED <<record, bundle, env, services, state>>

Environment(place, build, next) ==
  /\ At(place)
  /\ env' = build
  /\ GoTo(next)
  /\ UNCHANGED <<record, bundle, binary, staged, services, state>>

\* `caddy validate` with the new binary.
Validate ==
  /\ At("validate")
  /\ GoTo("stop")
  /\ UNCHANGED <<record, files, services, state>>

\* Slip: the service is not stopped before its document is copied.
StopDshNot(place, next) ==
  /\ At(place)
  /\ GoTo(next)
  /\ UNCHANGED <<record, files, services, state>>

\* `systemctl stop`; a failed one may have stopped the service.
StopDsh(place, next) ==
  /\ At(place)
  /\ \/ dsh' = Stopped /\ GoTo(next)
     \/ dsh' \in {dsh, Stopped} /\ Throw
  /\ UNCHANGED <<record, files, edge, state>>

\* Slip: the services phase begins although the copy was not made.
SnapshotAnyway ==
  /\ At("snapshot")
  /\ backup' \in {{doc}, backup} /\ GoTo("enter-services")
  /\ UNCHANGED <<record, files, services, doc>>

Snapshot ==
  /\ At("snapshot")
  /\ \/ backup' = {doc} /\ GoTo("enter-services")
     \/ backup' \in {backup, {}} /\ Throw
  /\ UNCHANGED <<record, files, services, doc>>

\* `systemctl restart`; a failed one may have stopped the service.
RestartDsh(place, next) ==
  /\ At(place)
  /\ \/ dsh' = Booted /\ GoTo(next)
     \/ dsh' \in {dsh, Stopped} /\ Throw
  /\ UNCHANGED <<record, files, edge, state>>

RestartEdge(place, next) ==
  /\ At(place)
  /\ \/ binary # None /\ edge' = binary /\ GoTo(next)
     \/ edge' \in {edge, None} /\ Throw
  /\ UNCHANGED <<record, files, dsh, state>>

Finish ==
  /\ At("finish")
  /\ record' = [build |-> cli.target, caddy |-> CaddyOf[cli.target], journal |-> Settled]
  /\ GoTo("forget")
  /\ UNCHANGED <<files, services, state>>

\* removeAuthStateBackup(), after the record.
Forget ==
  /\ At("forget")
  /\ backup' = {}
  /\ GoTo("idle")
  /\ UNCHANGED <<record, files, services, doc>>

-----------------------------------------------------------------------------
(***************************************************************************)
(* rollbackUpgrade(): how much is undone depends on the journaled phase.   *)
(***************************************************************************)
UndoBundle ==
  /\ At("undo-bundle")
  /\ \/ bundle' = From /\ GoTo(IF Phase = "bundle" THEN "undo-finish" ELSE "undo-stage")
     \/ bundle' \in {bundle, From, None} /\ Throw
  /\ UNCHANGED <<record, binary, staged, env, services, state>>

\* Slip: only a services-phase rollback puts environment and services back.
AfterBinaryIfServices == IF Phase = "services" THEN "undo-document" ELSE "undo-finish"

AfterBinary ==
  CASE Phase = "caddy" -> "undo-finish"
    [] Phase = "quiescing" -> "undo-environment"
    [] OTHER -> "undo-document"

\* restoreAuthState(); without a snapshot it throws.
UndoDocument ==
  /\ At("undo-document")
  /\ \/ doc' \in backup /\ GoTo("undo-environment")
     \/ doc' \in backup \cup {doc} /\ Throw
  /\ UNCHANGED <<record, files, services, backup>>

UndoFinish ==
  /\ At("undo-finish")
  /\ record' = [build |-> From, journal |-> Settled,
                caddy |-> IF Phase = "bundle" THEN record.caddy ELSE CaddyOf[From]]
  /\ GoTo("undo-forget")
  /\ UNCHANGED <<files, services, state>>

\* The recovery of an interrupted upgrade is done: the new one begins.
UndoForget ==
  /\ At("undo-forget")
  /\ backup' = {}
  /\ cli' = [cli EXCEPT !.at = IF cli.recovering THEN "journal" ELSE "idle",
                        !.recovering = FALSE]
  /\ UNCHANGED <<record, files, services, doc, reboots>>

(***************************************************************************)
(* Any other call of the host may throw, without an effect.                *)
(***************************************************************************)
HostCallFails ==
  /\ ~At("idle")
  /\ Throw
  /\ UNCHANGED <<record, files, services, state>>

Crash ==
  /\ ~At("idle")
  /\ GoTo("idle")
  /\ UNCHANGED <<record, files, services, state>>

\* The host comes back with whatever is installed by then.
Reboot ==
  /\ reboots < MaxReboots
  /\ reboots' = reboots + 1
  /\ cli' = [cli EXCEPT !.at = "idle"]
  /\ dsh' = Booted /\ edge' = binary
  /\ UNCHANGED <<record, files, state>>

\* A login, a logout or a password change at the running service.
Write ==
  /\ dsh.build # None /\ Len(doc) < MaxWrites
  /\ doc' = Append(doc, dsh.build)
  /\ UNCHANGED <<record, files, services, backup, cli, reboots>>

-----------------------------------------------------------------------------
Init ==
  /\ record = [build |-> First, caddy |-> CaddyOf[First], journal |-> Settled]
  /\ bundle = First /\ env = First
  /\ binary = CaddyOf[First] /\ staged = None
  /\ dsh = [active |-> TRUE, build |-> First] /\ edge = CaddyOf[First]
  /\ doc = <<>> /\ backup = {}
  /\ cli = [at |-> "idle", target |-> First, recovering |-> FALSE, runs |-> 0]
  /\ reboots = 0

Forward ==
  \/ Enter("journal", "bundle", "add")
  \/ AddBundle
  \/ Enter("enter-caddy", "caddy", "stage")
  \/ Stage("stage", cli.target, "remove")
  \/ Remove("remove", "rename")
  \/ Rename("rename", "enter-quiescing")
  \/ Enter("enter-quiescing", "quiescing", "environment")
  \/ Environment("environment", cli.target, "validate")
  \/ Validate
  \/ StopDsh("stop", "snapshot")
  \/ Snapshot
  \/ Enter("enter-services", "services", "restart-dsh")
  \/ RestartDsh("restart-dsh", "restart-edge")
  \/ RestartEdge("restart-edge", "finish")
  \/ Finish
  \/ Forget

Backward ==
  \/ StopDsh("undo-stop", "undo-bundle")
  \/ UndoBundle
  \/ Stage("undo-stage", From, "undo-remove")
  \/ Remove("undo-remove", "undo-rename")
  \/ Rename("undo-rename", AfterBinary)
  \/ UndoDocument
  \/ Environment("undo-environment", From, "undo-dsh")
  \/ RestartDsh("undo-dsh", "undo-edge")
  \/ RestartEdge("undo-edge", "undo-finish")
  \/ UndoFinish
  \/ UndoForget

Next ==
  \/ \E target \in Builds : Run(target)
  \/ Forward
  \/ Backward
  \/ HostCallFails
  \/ Crash
  \/ Reboot
  \/ Write

Spec == Init /\ [][Next]_vars

-----------------------------------------------------------------------------
(***************************************************************************)
(* Properties.                                                             *)
(***************************************************************************)
(***************************************************************************)
(* "All or nothing": the journal covers everything that differs from the   *)
(* recorded build, whenever the CLI or the host goes down, so that the     *)
(* next run can put it back; without a journal nothing differs.            *)
(***************************************************************************)
JournalCoversChanges ==
  /\ Phase # "none" => From = record.build
  /\ Phase = "none" => bundle = record.build
  /\ Phase \in {"none", "bundle"} => binary = record.caddy /\ staged = None
  /\ Phase \in {"none", "bundle", "caddy"} => env = record.build
  /\ Phase = "services" => backup # {}

(***************************************************************************)
(* Builds are numbered in the order of their release; the comparison of    *)
(* their versions agrees with it.                                          *)
(***************************************************************************)
VersionsOrdered == \A a, b \in Builds : Newer(a, b) => a > b

(***************************************************************************)
(* docs/installer.md: "if the target service may have written a newer      *)
(* state schema, rollback first stops it and restores the snapshot so the  *)
(* recorded bundle can read the state".  So no build ever serves a         *)
(* document with changes of a newer one, however runs fail and recover.    *)
(***************************************************************************)
RecordedBundleCanRead ==
  dsh.build # None => \A i \in DOMAIN doc : doc[i] <= dsh.build

(***************************************************************************)
(* The same while nobody but the upgrade restarts the service: rollback in *)
(* any phase, after any failure or crash of a run, leaves no newer change  *)
(* to an older build.  Only a restart between the new marker and the       *)
(* snapshot starts the target build behind the journal's back: a reboot of *)
(* the host here, and one of DSH by an operator would do the same.         *)
(***************************************************************************)
NoBuildReadsNewerDocument == reboots = 0 => RecordedBundleCanRead

(***************************************************************************)
(* Bundle, Caddy, record and services move together: when no upgrade is    *)
(* journaled, the services run what is recorded.  After a reboot in the    *)
(* middle of an upgrade they may run something else until restarted.       *)
(***************************************************************************)
ServicesRunTheRecord ==
  reboots = 0 /\ Phase = "none" =>
    /\ dsh = [active |-> TRUE, build |-> record.build]
    /\ edge = record.caddy

(***************************************************************************)
(* What users did with the recorded build stays in the document when an    *)
(* upgrade fails and rolls itself back.  Only a later run, recovering from *)
(* an interrupted one, may lose some of it.                                *)
(***************************************************************************)
ChangesBy(document, build) == {i \in DOMAIN document : document[i] = build}

Loses(build) == ~(ChangesBy(doc, build) \subseteq ChangesBy(doc', build))

RollbackKeepsChanges == [][ Loses(record.build) => cli.recovering ]_vars

=============================================================================
