---------------------------- MODULE InstallerProofs ----------------------------
(***************************************************************************)
(* Theorems about Installer, for any number of commands and of faults.     *)
(* First the inductive invariant, in parts; then, action by action, what a *)
(* step does to the running command and to the host (...Does); then, part  *)
(* by part, why none of these effects disturbs it; last the theorems.      *)
(***************************************************************************)
EXTENDS Installer, WellFoundedInduction, TLAPS

-----------------------------------------------------------------------------
(***************************************************************************)
(* Types, and the places of each command.                                  *)
(***************************************************************************)
SetupPlaces == Installing \cup Undoing \cup {"secrets"}
Activating == {"record-reload", "reload", "record-restart", "restart", "record-enable", "enable"}
Leaving == {"authorize", "disable", "remove-package", "stage", "unload", "delete"}
Restoring == {"restore", "restore-reload", "restore-package", "restore-edge"}
UninstallPlaces == Leaving \cup Restoring
ResetPlaces == {"password", "stop", "replace-document", "replace-secret", "start",
                "restore-document", "restore-secret", "restore-service"}
Places == {"idle"} \cup SetupPlaces \cup UninstallPlaces \cup ResetPlaces

Records ==
  [at: {"none", "bootstrap", "final"}, whole: BOOLEAN, status: {"none", "installing", "installed"},
   created: SUBSET Paths, package: BOOLEAN, tried: SUBSET Calls, wasActive: BOOLEAN]

Credential == [secret: Nat, document: Nat]

Replies == {"none", "done", "failed", "refused", "broken", "killed", "rebooted"}

Commands ==
  [command: {"none", "setup", "uninstall", "reset"}, at: Places, i: Nat,
   recovering: BOOLEAN, recovered: BOOLEAN, adopt: BOOLEAN, wasActive: BOOLEAN,
   tried: SUBSET (Calls \cup {"package"}), saved: Records, aside: SUBSET Paths,
   backup: Credential, runs: Nat, faults: Nat, answer: Replies,
   broken: BOOLEAN, lost: BOOLEAN]

Typed ==
  /\ output \in BOOLEAN /\ guest \in BOOLEAN /\ loaded \in BOOLEAN /\ edge \in BOOLEAN
  /\ disk \in [Paths -> {"none", "ours", "theirs", "left"}]
  /\ record \in Records
  /\ bundle \in {"none", "ours", "theirs", "other"}
  /\ dsh \in {"stopped", "plain", "guarded"}
  /\ cred \in Credential
  /\ cli \in Commands
  /\ cli.at \in {"own", "make"} => cli.i \in 1..Len(Order)
  /\ cli.at = "undo-paths" => cli.i \in 0..Len(Order)

Running ==
  /\ cli.at \in SetupPlaces => cli.command = "setup"
  /\ cli.at \in UninstallPlaces => cli.command = "uninstall" /\ ~output
  /\ cli.at \in ResetPlaces => cli.command = "reset" /\ ~output

(***************************************************************************)
(* The record, by the place of the command.                                *)
(***************************************************************************)
NothingClaimed == record.package = FALSE /\ record.tried = {}

RecordShape ==
  /\ record.at = "none" => record = NoRecord
  /\ record.at = "bootstrap" => record.created = {"configDirectory"} /\ NothingClaimed
  /\ record.at # "none" => record.status # "none"
  /\ record.status = "installed" => record.at = "final" /\ record.whole
  /\ ~record.whole => NothingClaimed
  /\ record.created \subseteq Managed

Bootstrapped ==
  record.at = "bootstrap" =>
    /\ \A p \in Tree("configDirectory") \ {"configDirectory"} : ~Exists(p)
    /\ disk["configDirectory"] \in {"none", "ours"}

RecordAt ==
  /\ cli.at \in SetupPlaces => record.status # "installed"
  /\ cli.at \in ResetPlaces => record.status = "installed"
  /\ cli.at = "secrets" => (record.at = "none" \/ record.whole) /\ (cli.recovering <=> record.at # "none")
  /\ cli.at \in Installing => ~cli.recovering
  /\ cli.at \in {"journal", "undo-enable", "undo-reload", "undo-restart"} =>
       \/ record.at = "none"
       \/ record.at = "final" /\ NothingClaimed /\ record.created = {"configDirectory"}
  /\ cli.at = "journal" => record.whole
  /\ cli.at = "make-config" => record.at = "bootstrap" /\ record.whole /\ ~Exists("configDirectory")
  /\ cli.at = "move-journal" => record.at = "bootstrap" /\ record.whole /\ Exists("configDirectory")
  /\ cli.at \in Installing \ {"journal", "make-config", "move-journal"} =>
       record.at = "final" /\ record.whole
  /\ cli.at = "package" => ~record.package
  /\ cli.at = "add-package" => record.package
  /\ cli.at \in Installing \ {"journal"} =>
       ("configDirectory" \in record.created => disk["configDirectory"] # "theirs")
  /\ cli.at = "make" => Path \in record.created /\ (Path \in Directories => ~Exists(Path))
  /\ cli.at \in {"undo-paths", "undo-record"} => cli.tried = record.tried /\ (record.at = "final" => record.whole)
  /\ cli.at \in {"undo-enable", "undo-reload", "undo-restart"} => (cli.tried # {} => record.at = "final")
  /\ cli.at \in Undoing => (record.at = "final" /\ ~record.whole => cli.at = "undo-package")
  /\ cli.at \in {"idle", "secrets", "undo-package"} \cup Installing \cup ResetPlaces => cli.tried = {}
  /\ cli.at \in SetupPlaces => "package" \notin cli.tried
  /\ cli.at \in SetupPlaces /\ ~cli.recovered /\ record.at # "none" => record.wasActive = cli.wasActive
  /\ cli.recovering => cli.recovered /\ cli.at \in SetupPlaces

SavedAt ==
  /\ cli.at \notin UninstallPlaces => cli.saved = NoRecord /\ cli.aside = {}
  /\ cli.at \in UninstallPlaces =>
       /\ cli.saved.at = "final" /\ cli.saved.whole /\ cli.saved.status # "none"
       /\ cli.saved.created \subseteq Managed
       /\ record \in {cli.saved, NoRecord}
       /\ record # NoRecord => cli.aside = {}
       /\ cli.aside \subseteq RemovalRoots
       /\ cli.tried \subseteq {"package"}
       /\ "package" \in cli.tried => cli.saved.package
  /\ cli.at \in {"authorize", "disable", "remove-package"} => record = cli.saved /\ cli.tried = {}
  /\ cli.at \in {"unload", "delete", "restore-reload"} => record.at = "none"
  /\ cli.at \in {"restore-package", "restore-edge"} => (record.at = "none" => cli.lost /\ cli.broken)

OutputAt ==
  output =>
    /\ cli.at \notin Activating \cup {"add-package"}
    /\ record.tried = {} /\ cli.tried = {} /\ ~record.package
    /\ ~edge /\ ~loaded /\ dsh = "stopped" /\ ~guest /\ bundle = "none"

Nested ==
  \A p \in Paths : Exists(p) /\ Parent(p) # "system" => Exists(Parent(p))

-----------------------------------------------------------------------------
(***************************************************************************)
(* What is on the host and who has put it there.                           *)
(***************************************************************************)
ForeignPaths ==
  /\ \A p \in Paths : disk[p] = "theirs" => p \in {"configDirectory", "systemdDropInDirectory"}
  /\ \A p \in Covering.created : disk[p] = "theirs" => p = "configDirectory" /\ Covering.status = "installing"

ForeignBundle ==
  /\ Covering.package => bundle \in {"none", "ours"}
  /\ cli.at \in SetupPlaces /\ ~output /\ ~cli.adopt => bundle \in {"none", "ours"}
  /\ cli.at \in SetupPlaces /\ cli.adopt => bundle \in {"theirs", "ours"} /\ ~record.package
  /\ bundle = "other" /\ ~output => cli.at \notin SetupPlaces /\ Covering.at = "none"

ClaimedPaths ==
  ~cli.lost =>
    /\ \A p \in Paths : disk[p] = "ours" => p \in Covering.created
    /\ cli.at = "undo-record" /\ record.at # "final" => disk["configDirectory"] # "ours"
    /\ cli.at \in {"unload", "delete"} =>
         \A p \in Paths : disk[p] = "ours" => \E root \in cli.aside : p \in Tree(root)

ClaimedBundle ==
  ~cli.lost =>
    /\ bundle = "ours" => Covering.package
    /\ cli.at \in {"stage", "unload", "delete", "undo-paths", "undo-record"} => bundle # "ours"

EdgeTold ==
  /\ edge => Covering.status = "installed" \/ "enable" \in Covering.tried \cup cli.tried \/ cli.broken
  /\ cli.at \in SetupPlaces /\ edge => "enable" \in record.tried \cup cli.tried
  /\ cli.at \in {"secrets", "undo-reload", "undo-restart", "remove-package", "stage", "unload", "delete"} => ~edge
  /\ cli.at \in {"reload", "restart", "enable"} => cli.at \in record.tried

-----------------------------------------------------------------------------
(***************************************************************************)
(* A complete installation.                                                *)
(***************************************************************************)
Made == {Order[j] : j \in 1..(IF cli.at \in {"own", "make"} THEN cli.i - 1 ELSE Len(Order))}

MakingUp ==
  /\ cli.at \in Installing \ {"journal", "make-config"} => Exists("configDirectory")
  /\ cli.at \in {"own", "make", "finish"} \cup Activating =>
       /\ \A p \in Made : Exists(p)
       /\ "sessionSecretFile" \in Made => cred.secret = 0
       /\ "authStateFile" \in Made => cred.document = 0
       /\ ~output => bundle # "none"
  /\ ~output =>
       /\ cli.at \in {"record-restart", "restart", "record-enable", "enable", "finish"} => loaded
       /\ cli.at \in {"record-enable", "enable", "finish"} => dsh = "guarded"
       /\ cli.at = "finish" => edge

Kept ==
  record.status = "installed" \/ (Covering.status = "installed" /\ cli.at \in {"stage", "unload", "restore", "restore-reload"})
    => \A p \in Managed : Exists(p)

Whole ==
  Covering.status = "installed" /\ ~output /\ ~cli.broken =>
    /\ cli.at \in {"idle", "authorize", "disable"} \cup ResetPlaces => edge
    /\ cli.at \notin {"unload", "delete", "restore-reload"} => loaded
    /\ bundle # "none" \/ ("package" \in cli.tried /\ cli.at # "restore-edge")
    /\ dsh # "plain"
    /\ cli.at = "idle" /\ cli.command = "setup" /\ cli.answer = "done" => dsh = "guarded"

Answered ==
  cli.at = "idle" =>
    /\ cli.command = "setup" /\ cli.answer = "done" => record.status = "installed"
    /\ cli.command = "setup" /\ cli.answer = "failed" => record.status # "installed"
    /\ cli.command = "reset" => record.status = "installed"

Resetting ==
  /\ cred.secret <= cli.runs /\ cred.document <= cli.runs
  /\ cli.at \in ResetPlaces =>
       /\ cli.backup.secret < cli.runs /\ cli.backup.document < cli.runs
       /\ cred.secret \in {cli.backup.secret, cli.runs}
       /\ cred.document \in {cli.backup.document, cli.runs}
       /\ ~cli.broken => cli.backup.secret = cli.backup.document
       /\ ~cli.wasActive => dsh = "stopped"
  /\ cli.at \in {"password", "stop", "replace-document", "restore-service"} => cred = cli.backup
  /\ cli.at = "replace-secret" => cred.document = cli.runs
  /\ cli.at = "start" => cred = [secret |-> cli.runs, document |-> cli.runs]
  /\ cli.at = "restore-secret" => cred.document = cli.backup.document
  /\ cli.at = "password" => Active = cli.wasActive
  /\ cli.at \in {"stop", "start", "restore-service"} => cli.wasActive
  /\ cli.at \notin ResetPlaces /\ ~cli.broken /\ Covering.status = "installed" => cred.secret = cred.document
  /\ cli.at = "idle" /\ cli.command = "reset" /\ cli.answer = "done" => Active = cli.wasActive

-----------------------------------------------------------------------------
(***************************************************************************)
(* What a setup leaves, and a host without a finished one.                 *)
(***************************************************************************)
MayBeLeft(p) ==
  \/ p \in {"configDirectory", "authStateDirectory", "authStateFile"}
  \/ p = "systemdDropInDirectory" /\ guest

LeftPaths ==
  ~cli.lost =>
    /\ \A p \in Paths : disk[p] = "left" => MayBeLeft(p)
    /\ cli.at = "undo-paths" =>
         \A j \in (cli.i + 1)..Len(Order) : disk[Order[j]] = "ours" => MayBeLeft(Order[j])
    /\ cli.at = "undo-record" => \A p \in Paths : disk[p] = "ours" => MayBeLeft(p)
    /\ cli.at \in {"undo-enable", "undo-reload", "undo-restart"} =>
         \A p \in Paths : disk[p] = "ours" => p = "configDirectory"

Unloaded == cli.at = "delete" /\ ~cli.lost => ~loaded

Young == ~cli.broken /\ ~cli.lost /\ Covering.status # "installed"

UnfinishedServices ==
  Young =>
    /\ loaded => "reload" \in Covering.tried \cup cli.tried
    /\ dsh = "guarded" => "restart" \in Covering.tried \cup cli.tried
    /\ cli.at \in SetupPlaces /\ ~cli.recovered /\ "restart" \notin record.tried \cup cli.tried =>
         Active = cli.wasActive
    /\ cli.at = "undo-restart" => ~loaded

IInv ==
  /\ Typed /\ Running /\ RecordShape /\ Bootstrapped /\ RecordAt /\ SavedAt /\ OutputAt /\ Nested
  /\ ForeignPaths /\ ForeignBundle /\ ClaimedPaths /\ ClaimedBundle /\ EdgeTold
  /\ MakingUp /\ Kept /\ Whole /\ Answered /\ Resetting
  /\ LeftPaths /\ Unloaded /\ UnfinishedServices /\ FailedSetupUndone

-----------------------------------------------------------------------------
(***************************************************************************)
(* What the steps do to the running command, field by field.               *)
(***************************************************************************)
Steady ==
  /\ cli'.command = cli.command /\ cli'.recovered = cli.recovered
  /\ cli'.wasActive = cli.wasActive /\ cli'.runs = cli.runs

Onward ==
  /\ Steady
  /\ cli'.recovering = cli.recovering /\ cli'.adopt = cli.adopt /\ cli'.backup = cli.backup
  /\ cli'.saved = cli.saved /\ cli'.answer = cli.answer

Went(place, i, tried, aside, broken) ==
  /\ Onward
  /\ cli'.at = place /\ cli'.i = i /\ cli'.tried = tried /\ cli'.aside = aside
  /\ cli'.broken = broken /\ cli'.lost = cli.lost

Moved(place) == Went(place, cli.i, cli.tried, cli.aside, cli.broken)

OnPath(i) == Went("own", i, cli.tried, cli.aside, cli.broken)

AtIdle(answer) ==
  /\ cli'.at = "idle" /\ cli'.i = 0 /\ cli'.recovering = FALSE /\ cli'.adopt = FALSE
  /\ cli'.tried = {} /\ cli'.saved = NoRecord /\ cli'.aside = {} /\ cli'.backup = cred
  /\ cli'.answer = answer

OverBut(answer, broken, lost) ==
  /\ Steady /\ AtIdle(answer)
  /\ cli'.broken = broken /\ cli'.lost = lost

Bad(answer) == cli.broken \/ (answer \in {"broken", "killed"} /\ ~Told)

Over(answer) == OverBut(answer, Bad(answer), cli.lost)

Began(command, place) ==
  /\ cli'.command = command /\ cli'.at = place /\ cli'.runs = cli.runs + 1
  /\ cli'.answer = "none" /\ cli'.wasActive = Active
  /\ cli'.i = cli.i /\ cli'.tried = cli.tried /\ cli'.aside = cli.aside
  /\ cli'.broken = cli.broken /\ cli'.lost = cli.lost

(* What Ending leaves in each field.                                       *)
LEMMA EndingFields ==
  ASSUME Typed, NEW answer
  PROVE  /\ Ending(answer).at = "idle" /\ Ending(answer).i = 0
         /\ Ending(answer).recovering = FALSE /\ Ending(answer).adopt = FALSE
         /\ Ending(answer).tried = {} /\ Ending(answer).saved = NoRecord
         /\ Ending(answer).aside = {} /\ Ending(answer).backup = cred
         /\ Ending(answer).answer = answer
         /\ Ending(answer).broken = Bad(answer)
         /\ Ending(answer).command = cli.command /\ Ending(answer).recovered = cli.recovered
         /\ Ending(answer).wasActive = cli.wasActive /\ Ending(answer).runs = cli.runs
         /\ Ending(answer).lost = cli.lost /\ Ending(answer).faults = cli.faults
         /\ DOMAIN Ending(answer) = DOMAIN cli
<1> DEFINE b == Bad(answer)
<1>1. Ending(answer) =
        [cli EXCEPT !.at = "idle", !.i = 0, !.recovering = FALSE, !.adopt = FALSE,
                    !.tried = {}, !.saved = NoRecord, !.aside = {}, !.backup = cred,
                    !.answer = answer, !.broken = b]
  BY DEF Ending, Bad
<1> HIDE DEF b
<1>2. /\ cli = [f \in DOMAIN cli |-> cli[f]]
      /\ DOMAIN cli = {"command", "at", "i", "recovering", "recovered", "adopt", "wasActive",
                       "tried", "saved", "aside", "backup", "runs", "faults", "answer",
                       "broken", "lost"}
  BY DEF Typed, Commands
<1>3. /\ Ending(answer).at = "idle" /\ Ending(answer).i = 0
      /\ Ending(answer).recovering = FALSE /\ Ending(answer).adopt = FALSE
      /\ Ending(answer).tried = {} /\ Ending(answer).saved = NoRecord
      /\ Ending(answer).aside = {} /\ Ending(answer).backup = cred
      /\ Ending(answer).answer = answer /\ Ending(answer).broken = b
  BY <1>1, <1>2
<1>4. /\ Ending(answer).command = cli.command /\ Ending(answer).recovered = cli.recovered
      /\ Ending(answer).wasActive = cli.wasActive /\ Ending(answer).runs = cli.runs
      /\ Ending(answer).lost = cli.lost /\ Ending(answer).faults = cli.faults
  BY <1>1, <1>2
<1>5. DOMAIN Ending(answer) = DOMAIN cli
  BY <1>1, <1>2
<1> QED BY <1>3, <1>4, <1>5 DEF b

(* A command that is over but for what it says of being broken or lost.    *)
LEMMA EndsBut ==
  ASSUME Typed, NEW answer,
         \A f \in DOMAIN cli \ {"faults", "broken", "lost"} : cli'[f] = Ending(answer)[f]
  PROVE  Steady /\ AtIdle(answer)
<1>1. DOMAIN cli = {"command", "at", "i", "recovering", "recovered", "adopt", "wasActive",
                   "tried", "saved", "aside", "backup", "runs", "faults", "answer",
                   "broken", "lost"}
  BY DEF Typed, Commands
<1>2. /\ cli'.command = Ending(answer).command /\ cli'.at = Ending(answer).at
      /\ cli'.i = Ending(answer).i /\ cli'.recovering = Ending(answer).recovering
      /\ cli'.recovered = Ending(answer).recovered /\ cli'.adopt = Ending(answer).adopt
      /\ cli'.wasActive = Ending(answer).wasActive /\ cli'.tried = Ending(answer).tried
      /\ cli'.saved = Ending(answer).saved /\ cli'.aside = Ending(answer).aside
      /\ cli'.backup = Ending(answer).backup /\ cli'.runs = Ending(answer).runs
      /\ cli'.answer = Ending(answer).answer
  BY <1>1
<1> QED BY <1>2, EndingFields DEF AtIdle, Steady

(* The four ways on: each is described by Moved and Over.                  *)
LEMMA Control ==
  ASSUME Typed
  PROVE  /\ \A place : GoTo(place) => Moved(place)
         /\ \A place : FailTo(place) => Moved(place)
         /\ \A i : ToPath(i) => OnPath(i)
         /\ \A answer : End(answer) => Over(answer)
         /\ \A answer : FailWith(answer) => Over(answer)
<1>1. ASSUME NEW place, GoTo(place) PROVE Moved(place)
  BY <1>1 DEF Typed, Commands, GoTo, Moved, Went, Onward, Steady
<1>2. ASSUME NEW place, FailTo(place) PROVE Moved(place)
  BY <1>2 DEF Typed, Commands, FailTo, Moved, Went, Onward, Steady
<1>3. ASSUME NEW answer, End(answer) PROVE Over(answer)
  BY <1>3, EndingFields DEF End, Over, OverBut, AtIdle, Steady
<1>4. ASSUME NEW answer, FailWith(answer) PROVE Over(answer)
  <2>1. cli' = [Ending(answer) EXCEPT !.faults = @ + 1]
    BY <1>4 DEF FailWith
  <2>2. /\ cli'.broken = Bad(answer) /\ cli'.lost = cli.lost
        /\ \A f \in DOMAIN cli \ {"faults", "broken", "lost"} : cli'[f] = Ending(answer)[f]
    BY <2>1, EndingFields DEF Typed, Commands
  <2> QED BY <2>2, EndsBut DEF Over, OverBut
<1>5. ASSUME NEW i, ToPath(i) PROVE OnPath(i)
  BY <1>5 DEF Typed, Commands, ToPath, OnPath, Went, Onward, Steady
<1> QED BY <1>1, <1>2, <1>3, <1>4, <1>5

-----------------------------------------------------------------------------
(***************************************************************************)
(* What the steps do that update the command, the record or a path in ways *)
(* of their own.                                                           *)
(***************************************************************************)
Others == <<output, guest, services>>

PrepareSetupDoes ==
  /\ cli.at = "idle" /\ Ready
  /\ Began("setup", "secrets")
  /\ cli'.recovering = Interrupted /\ cli'.recovered = Interrupted /\ cli'.adopt = AdoptsBundle
  /\ cli'.saved = cli.saved /\ cli'.backup = cli.backup
  /\ UNCHANGED <<Others, disk, record, bundle, cred>>

TearJournalDoes ==
  /\ cli.at = "journal" /\ record.at = "none"
  /\ record'.at = FirstJournal.at /\ record'.created = FirstJournal.created
  /\ record'.whole = FALSE /\ record'.status = "installing" /\ record'.package = FALSE
  /\ record'.tried = {} /\ record'.wasActive = cli.wasActive
  /\ disk' = GivenUp({"configDirectory"})
  /\ Moved("undo-package") \/ Over("killed")
  /\ UNCHANGED <<Others, bundle, cred>>

Puts(path, what) ==
  /\ disk'[path] = what
  /\ \A p \in Paths \ {path} : disk'[p] = disk[p]

MakeConfigDoes ==
  /\ cli.at = "make-config"
  /\ Puts("configDirectory", "ours")
  /\ Moved("move-journal")
  /\ UNCHANGED <<Others, record, bundle, cred>>

Notes(at, status, created, package, tried) ==
  /\ record'.at = at /\ record'.status = status /\ record'.created = created
  /\ record'.package = package /\ record'.tried = tried
  /\ record'.whole = record.whole /\ record'.wasActive = record.wasActive

MoveJournalDoes ==
  /\ cli.at = "move-journal"
  /\ Notes("final", record.status, record.created, record.package, record.tried)
  /\ Moved("package")
  /\ UNCHANGED <<Others, disk, bundle, cred>>

RecordPackageDoes ==
  /\ cli.at = "package"
  /\ \/ (output \/ cli.adopt) /\ OnPath(1) /\ UNCHANGED record
     \/ /\ ~output /\ ~cli.adopt
        /\ Notes(record.at, record.status, record.created, TRUE, record.tried)
        /\ Moved("add-package")
  /\ UNCHANGED <<Others, disk, bundle, cred>>

OnNext ==
  \/ cli.i < Len(Order) /\ OnPath(cli.i + 1)
  \/ ~(cli.i < Len(Order)) /\ Moved(IF output THEN "finish" ELSE "record-reload")

RecordPathDoes ==
  /\ cli.at = "own"
  /\ \/ Path \in Directories /\ Exists(Path) /\ OnNext /\ UNCHANGED record
     \/ /\ ~(Path \in Directories /\ Exists(Path))
        /\ Notes(record.at, record.status, record.created \cup {Path}, record.package, record.tried)
        /\ Moved("make")
  /\ UNCHANGED <<Others, disk, bundle, cred>>

MakePathDoes ==
  /\ cli.at = "make"
  /\ \/ Exists(Path) /\ Moved("undo-package") /\ UNCHANGED <<disk, cred>>
     \/ /\ ~Exists(Path)
        /\ Puts(Path, "ours") /\ OnNext
        /\ cred'.secret = (IF Path = "sessionSecretFile" THEN 0 ELSE cred.secret)
        /\ cred'.document = (IF Path = "authStateFile" THEN 0 ELSE cred.document)
  /\ UNCHANGED <<Others, record, bundle>>

TryDoes(place, what, next) ==
  /\ cli.at = place
  /\ Notes(record.at, record.status, record.created, record.package, record.tried \cup {what})
  /\ Moved(next)
  /\ UNCHANGED <<Others, disk, bundle, cred>>

FinishSetupDoes ==
  /\ cli.at = "finish"
  /\ Notes(record.at, "installed", record.created, record.package, {})
  /\ OverBut("done", FALSE, cli.lost)
  /\ UNCHANGED <<Others, disk, bundle, cred>>

UndoPackageDoes ==
  /\ cli.at = "undo-package"
  /\ \/ record.at = "final" /\ ~record.whole /\ Over("broken") /\ UNCHANGED bundle
     \/ /\ record.at = "final" => record.whole
        /\ bundle' = (IF record.package THEN "none" ELSE bundle)
        /\ Went("undo-paths", Len(Order), record.tried, cli.aside, cli.broken)
     \/ record.package /\ bundle' \in {bundle, "none"} /\ Over("broken")
  /\ UNCHANGED <<Others, disk, record, cred>>

RemovePathDoes ==
  /\ cli.at = "undo-paths"
  /\ \E i \in 1..cli.i :
       /\ Order[i] \in record.created /\ Exists(Order[i])
       /\ \A j \in (i + 1)..cli.i : ~(Order[j] \in record.created /\ Exists(Order[j]))
       /\ Puts(Order[i], IF Order[i] \in Directories /\ ~Empty(Order[i])
                           THEN disk[Order[i]] ELSE "none")
       /\ Went("undo-paths", i - 1, cli.tried, cli.aside, cli.broken)
  /\ UNCHANGED <<Others, record, bundle, cred>>

RemoveConfigDoes ==
  /\ cli.at = "undo-paths"
  /\ \A j \in 1..cli.i : ~(Order[j] \in record.created /\ Exists(Order[j]))
  /\ Puts("configDirectory", IF "configDirectory" \in record.created /\ Empty("configDirectory")
                               THEN "none" ELSE disk["configDirectory"])
  /\ Moved("undo-record")
  /\ UNCHANGED <<Others, record, bundle, cred>>

UndoRecordDoes ==
  /\ cli.at = "undo-record"
  /\ \/ /\ record.at = "final"
        /\ Notes("final", record.status, {"configDirectory"}, FALSE, {})
     \/ record.at # "final" /\ record' = NoRecord
  /\ disk' = GivenUp(Paths \ {"configDirectory"})
  /\ Moved("undo-enable")
  /\ UNCHANGED <<Others, bundle, cred>>

Resumed ==
  /\ Steady /\ cli'.at = "journal" /\ cli'.recovering = FALSE /\ cli'.tried = {}
  /\ cli'.adopt = cli.adopt /\ cli'.backup = cli.backup /\ cli'.saved = cli.saved
  /\ cli'.answer = cli.answer /\ cli'.i = cli.i /\ cli'.aside = cli.aside
  /\ cli'.broken = cli.broken /\ cli'.lost = cli.lost

UndoRestartDoes ==
  /\ cli.at = "undo-restart"
  /\ \/ /\ dsh' = (IF "restart" \in cli.tried THEN Restored ELSE dsh)
        /\ IF cli.recovering THEN Resumed ELSE Over("failed")
     \/ "restart" \in cli.tried /\ dsh' \in {dsh, Restored, "stopped"} /\ Over("broken")
  /\ UNCHANGED <<output, disk, guest, record, bundle, loaded, edge, cred>>

PrepareUninstallDoes ==
  /\ cli.at = "idle" /\ Readable /\ ~output
  /\ Began("uninstall", "authorize")
  /\ cli'.recovering = cli.recovering /\ cli'.recovered = FALSE /\ cli'.adopt = cli.adopt
  /\ cli'.saved = record /\ cli'.backup = cli.backup
  /\ UNCHANGED <<Others, disk, record, bundle, cred>>

RemovePackageDoes ==
  /\ cli.at = "remove-package"
  /\ \/ /\ cli.saved.package
        /\ \/ bundle' = "none" /\ Went("stage", cli.i, {"package"}, cli.aside, cli.broken)
           \/ /\ bundle' \in {bundle, "none"}
              /\ Went("restore", cli.i, {"package"}, cli.aside, cli.broken)
     \/ ~cli.saved.package /\ UNCHANGED bundle /\ Moved("stage")
  /\ UNCHANGED <<Others, disk, record, cred>>

StageRecordDoes ==
  /\ cli.at = "stage" /\ record.at = "final"
  /\ record' = NoRecord
  /\ Went("stage", cli.i, cli.tried,
          cli.aside \cup (cli.saved.created \cap {"configDirectory"}), cli.broken)
  /\ UNCHANGED <<Others, disk, bundle, cred>>

StagePathDoes ==
  /\ cli.at = "stage" /\ record.at = "none"
  /\ \E path \in RemovalRoots \ cli.aside :
       Exists(path) /\ Went("stage", cli.i, cli.tried, cli.aside \cup {path}, cli.broken)
  /\ UNCHANGED <<Others, disk, record, bundle, cred>>

RestoreDoes ==
  /\ cli.at \in {"restore", "restore-reload"}
  /\ Onward /\ cli'.at = "restore-package" /\ cli'.i = cli.i
  /\ cli'.tried = cli.tried /\ cli'.aside = {}
  /\ \/ /\ record' = cli.saved /\ UNCHANGED <<disk, guest>>
        /\ loaded' = (IF cli.at = "restore" THEN loaded ELSE Exists("systemdDropInFile"))
        /\ cli'.broken = (cli.broken \/ (loaded' /\ Untold("reload")))
        /\ cli'.lost = cli.lost
     \/ /\ cli.at = "restore-reload"
        /\ record' = cli.saved /\ UNCHANGED <<disk, guest, loaded>>
        /\ cli'.broken = TRUE /\ cli'.lost = cli.lost
     \/ /\ record.at = "none"
        /\ \E kept \in SUBSET cli.aside :
             /\ cli.aside \cap {"configDirectory"} \subseteq kept
             /\ Gone(kept)
        /\ cli'.broken = TRUE /\ cli'.lost = TRUE
        /\ UNCHANGED <<record, loaded>>
  /\ UNCHANGED <<output, bundle, dsh, edge, cred>>

RestorePackageDoes ==
  /\ cli.at = "restore-package"
  /\ \/ /\ "package" \in cli.tried
        /\ \/ bundle' = "ours" /\ Moved("restore-edge")
           \/ /\ UNCHANGED bundle
              /\ Went("restore-edge", cli.i, cli.tried, cli.aside, TRUE)
     \/ "package" \notin cli.tried /\ UNCHANGED bundle /\ Moved("restore-edge")
  /\ UNCHANGED <<Others, disk, record, cred>>

RestoreEdgeDoes ==
  /\ cli.at = "restore-edge"
  /\ \/ /\ edge' = (edge \/ Exists("caddyUnitFile"))
        /\ OverBut("failed", cli.broken \/ (edge' /\ Untold("enable")), cli.lost)
     \/ UNCHANGED edge /\ Over("broken")
  /\ UNCHANGED <<output, disk, guest, record, bundle, dsh, loaded, cred>>

DeleteTreeDoes ==
  /\ cli.at = "delete"
  /\ \E root \in cli.aside :
       /\ Gone({root})
       /\ Went("delete", cli.i, cli.tried, cli.aside \ {root}, cli.broken)
  /\ UNCHANGED <<output, record, bundle, services, cred>>

DeletedDoes ==
  /\ cli.at = "delete" /\ cli.aside = {}
  /\ OverBut("done", cli.broken \/ dsh = "guarded", cli.lost)
  /\ UNCHANGED <<Others, disk, record, bundle, cred>>

PrepareResetDoes ==
  /\ cli.at = "idle" /\ Readable /\ ~output /\ record.status = "installed"
  /\ Began("reset", "password")
  /\ cli'.recovering = cli.recovering /\ cli'.recovered = FALSE /\ cli'.adopt = cli.adopt
  /\ cli'.saved = cli.saved /\ cli'.backup = cred
  /\ UNCHANGED <<Others, disk, record, bundle, cred>>

Replaces(place, secret, document) ==
  /\ cli.at = place
  /\ cred'.secret = secret /\ cred'.document = document
  /\ UNCHANGED <<Others, disk, record, bundle>>

KillDoes ==
  /\ cli.at # "idle"
  /\ OverBut("killed", Bad("killed"),
             cli.lost \/ (cli.command = "uninstall" /\ record.at = "none"))
  /\ Gone(cli.aside)
  /\ UNCHANGED <<output, record, bundle, services, cred>>

RebootDoes ==
  /\ cli.at = "idle" /\ ~output
  /\ Steady
  /\ cli'.at = cli.at /\ cli'.i = cli.i /\ cli'.tried = cli.tried /\ cli'.aside = cli.aside
  /\ cli'.recovering = cli.recovering /\ cli'.adopt = cli.adopt
  /\ cli'.saved = cli.saved /\ cli'.backup = cli.backup
  /\ cli'.answer = "rebooted" /\ cli'.broken = (cli.broken \/ Unjournaled) /\ cli'.lost = cli.lost
  /\ loaded' = Reloaded /\ dsh' \in {"stopped", Booted'} /\ edge' = (edge /\ Exists("caddyUnitFile"))
  /\ UNCHANGED <<output, disk, guest, record, bundle, cred>>

ServiceWritesDoes ==
  /\ dsh = "guarded" /\ InPlace("authStateDirectory") /\ ~Exists("authStateFile")
  /\ Puts("authStateFile", "left")
  /\ UNCHANGED <<Others, record, bundle, cred, cli>>

(***************************************************************************)
(* The others, in the same words.                                          *)
(***************************************************************************)
ReadSecretsDoes ==
  /\ cli.at = "secrets"
  /\ Moved(IF cli.recovering THEN "undo-package" ELSE "journal") \/ Over("refused")
  /\ UNCHANGED <<Others, disk, record, bundle, cred>>

WriteJournalDoes ==
  /\ cli.at = "journal"
  /\ record' = FirstJournal /\ disk' = GivenUp({"configDirectory"})
  /\ Moved(IF Exists("configDirectory") THEN "package" ELSE "make-config")
  /\ UNCHANGED <<Others, bundle, cred>>

AddPackageDoes ==
  /\ cli.at = "add-package"
  /\ \/ bundle' = "ours" /\ OnPath(1)
     \/ bundle' \in {"none", "ours"} /\ Moved("undo-package")
  /\ UNCHANGED <<Others, disk, record, cred>>

ReloadDoes ==
  /\ cli.at = "reload"
  /\ \/ loaded' = Reloaded /\ Moved("record-restart")
     \/ loaded' \in {loaded, Reloaded} /\ Moved("undo-package")
  /\ UNCHANGED <<output, disk, guest, record, bundle, dsh, edge, cred>>

RestartDoes ==
  /\ cli.at = "restart"
  /\ \/ dsh' = Booted /\ Booted # "stopped" /\ Moved("record-enable")
     \/ dsh' \in {dsh, Booted, "stopped"} /\ Moved("undo-package")
  /\ UNCHANGED <<output, disk, guest, record, bundle, loaded, edge, cred>>

EnableDoes ==
  /\ cli.at = "enable"
  /\ \/ edge' = TRUE /\ Moved("finish")
     \/ edge' \in BOOLEAN /\ Moved("undo-package")
  /\ UNCHANGED <<output, disk, guest, record, bundle, dsh, loaded, cred>>

UndoEnableDoes ==
  /\ cli.at = "undo-enable"
  /\ \/ "enable" \notin cli.tried /\ UNCHANGED edge /\ Moved("undo-reload")
     \/ "enable" \in cli.tried /\ edge' = FALSE /\ Moved("undo-reload")
     \/ "enable" \in cli.tried /\ edge' \in {edge, FALSE} /\ Over("broken")
  /\ UNCHANGED <<output, disk, guest, record, bundle, dsh, loaded, cred>>

UndoReloadDoes ==
  /\ cli.at = "undo-reload"
  /\ \/ "reload" \notin cli.tried /\ UNCHANGED loaded /\ Moved("undo-restart")
     \/ "reload" \in cli.tried /\ loaded' = Reloaded /\ Moved("undo-restart")
     \/ "reload" \in cli.tried /\ loaded' \in {loaded, Reloaded} /\ Over("broken")
  /\ UNCHANGED <<output, disk, guest, record, bundle, dsh, edge, cred>>

SetupCallFailsDoes ==
  /\ \/ cli.at \in Installing /\ Moved("undo-package")
     \/ cli.at \in Undoing /\ Over("broken")
  /\ UNCHANGED <<Others, disk, record, bundle, cred>>

AuthorizeUninstallDoes ==
  /\ cli.at = "authorize"
  /\ Moved("disable") \/ Over("refused")
  /\ UNCHANGED <<Others, disk, record, bundle, cred>>

DisableDoes ==
  /\ cli.at = "disable"
  /\ \/ edge' = FALSE /\ Moved("remove-package")
     \/ edge' \in {edge, FALSE} /\ Moved("restore")
  /\ UNCHANGED <<output, disk, guest, record, bundle, dsh, loaded, cred>>

StagedDoes ==
  /\ cli.at = "stage" /\ record.at = "none"
  /\ \A p \in RemovalRoots \ cli.aside : p \in Managed => ~Exists(p)
  /\ Moved("unload")
  /\ UNCHANGED <<Others, disk, record, bundle, cred>>

UnloadDoes ==
  /\ cli.at = "unload"
  /\ \/ loaded' = InPlace("systemdDropInFile") /\ Moved("delete")
     \/ loaded' \in {loaded, InPlace("systemdDropInFile")} /\ Moved("restore-reload")
  /\ UNCHANGED <<output, disk, guest, record, bundle, dsh, edge, cred>>

UninstallCallFailsDoes ==
  /\ \/ /\ cli.at = "stage" /\ Moved("restore")
        /\ UNCHANGED <<disk, guest>>
     \/ /\ cli.at = "delete" /\ Over("broken")
        /\ Gone(cli.aside)
  /\ UNCHANGED <<output, record, bundle, services, cred>>

ReadPasswordDoes ==
  /\ cli.at = "password"
  /\ Moved(IF cli.wasActive THEN "stop" ELSE "replace-document") \/ Over("refused")
  /\ UNCHANGED <<Others, disk, record, bundle, cred>>

StopDoes ==
  /\ cli.at = "stop"
  /\ \/ dsh' = "stopped" /\ Moved("replace-document")
     \/ dsh' \in {dsh, "stopped"} /\ Moved("restore-document")
  /\ UNCHANGED <<output, disk, guest, record, bundle, loaded, edge, cred>>

StartDoes ==
  /\ cli.at = "start"
  /\ \/ dsh' = Booted /\ Over("done")
     \/ dsh' \in {dsh, Booted, "stopped"} /\ Moved("restore-document")
  /\ UNCHANGED <<output, disk, guest, record, bundle, loaded, edge, cred>>

RestoreServiceDoes ==
  /\ cli.at = "restore-service"
  /\ \/ dsh' = Booted /\ Over("failed")
     \/ dsh' \in {dsh, Booted, "stopped"} /\ Over("broken")
  /\ UNCHANGED <<output, disk, guest, record, bundle, loaded, edge, cred>>

ResetCallFailsDoes ==
  /\ \/ /\ cli.at \in {"stop", "replace-document", "replace-secret", "start"}
        /\ Moved("restore-document")
     \/ /\ cli.at \in {"restore-document", "restore-secret", "restore-service"}
        /\ Over("broken")
  /\ UNCHANGED <<Others, disk, record, bundle, cred>>

ReplaceDocumentDoes ==
  /\ Replaces("replace-document", cred.secret, cli.runs)
  /\ Moved("replace-secret")

ReplaceSecretDoes ==
  /\ Replaces("replace-secret", cli.runs, cred.document)
  /\ IF cli.wasActive THEN Moved("start") ELSE Over("done")

RestoreDocumentDoes ==
  /\ Replaces("restore-document", cred.secret, cli.backup.document)
  /\ Moved("restore-secret")

RestoreSecretDoes ==
  /\ Replaces("restore-secret", cli.backup.secret, cred.document)
  /\ IF cli.wasActive THEN Moved("restore-service") ELSE Over("failed")

Steps ==
  \/ PrepareSetupDoes \/ ReadSecretsDoes
  \/ WriteJournalDoes \/ TearJournalDoes \/ MakeConfigDoes \/ MoveJournalDoes
  \/ RecordPackageDoes \/ AddPackageDoes \/ RecordPathDoes \/ MakePathDoes
  \/ TryDoes("record-reload", "reload", "reload") \/ ReloadDoes
  \/ TryDoes("record-restart", "restart", "restart") \/ RestartDoes
  \/ TryDoes("record-enable", "enable", "enable") \/ EnableDoes
  \/ FinishSetupDoes
  \/ UndoPackageDoes \/ RemovePathDoes \/ RemoveConfigDoes \/ UndoRecordDoes
  \/ UndoEnableDoes \/ UndoReloadDoes \/ UndoRestartDoes
  \/ SetupCallFailsDoes
  \/ PrepareUninstallDoes \/ AuthorizeUninstallDoes
  \/ DisableDoes \/ RemovePackageDoes \/ StageRecordDoes \/ StagePathDoes \/ StagedDoes
  \/ UnloadDoes
  \/ RestoreDoes \/ RestorePackageDoes \/ RestoreEdgeDoes
  \/ DeleteTreeDoes \/ DeletedDoes
  \/ UninstallCallFailsDoes
  \/ PrepareResetDoes \/ ReadPasswordDoes \/ StopDoes
  \/ ReplaceDocumentDoes \/ ReplaceSecretDoes
  \/ StartDoes
  \/ RestoreDocumentDoes \/ RestoreSecretDoes
  \/ RestoreServiceDoes
  \/ ResetCallFailsDoes
  \/ KillDoes \/ RebootDoes \/ ServiceWritesDoes
  \/ (OperatorAddsDropIn /\ UNCHANGED cli)

-----------------------------------------------------------------------------
Below == {pair \in Nat \X Nat : pair[1] < pair[2]}

(* A set of numbers that is not empty has a first one.                     *)
LEMMA FirstPlace ==
  ASSUME NEW S, S # {}, S \subseteq Nat
  PROVE  \E m \in S : \A j \in S : m <= j
<1>1. IsWellFoundedOn(OpToRel(<, Nat), Nat) /\ OpToRel(<, Nat) = Below
  BY NatLessThanWellFounded DEF OpToRel, Below
<1>2. PICK t \in S : \A u \in S : <<u, t>> \notin Below
  BY <1>1, WFMin
<1>3. ASSUME NEW u \in S PROVE t <= u
  <2>1. <<u, t>> \in Nat \X Nat /\ <<u, t>>[1] = u /\ <<u, t>>[2] = t
    OBVIOUS
  <2>2. u < t => <<u, t>> \in Below
    BY <2>1 DEF Below
  <2> QED BY <1>2, <2>2
<1> QED BY <1>3

(* A set of numbers up to n has a last one.                                *)
LEMMA LastPlace ==
  ASSUME NEW S, NEW n \in Nat, S # {}, S \subseteq 0..n
  PROVE  \E m \in S : \A j \in S : m >= j
<1> DEFINE T == {n - i : i \in S}
<1>1. T # {}
  OBVIOUS
<1>5. ASSUME NEW t \in T PROVE t \in Nat
  <2>1. PICK i \in S : t = n - i
    OBVIOUS
  <2>2. i \in 0..n
    OBVIOUS
  <2> QED BY <2>1, <2>2
<1>2. PICK t \in T : \A j \in T : t <= j
  BY <1>1, <1>5, FirstPlace
<1>3. PICK m \in S : t = n - m
  BY <1>2
<1>4. ASSUME NEW j \in S PROVE m >= j
  <2>1. n - j \in T
    OBVIOUS
  <2>2. n - m <= n - j
    BY <1>2, <1>3, <2>1
  <2>3. j \in Nat /\ m \in Nat
    OBVIOUS
  <2> QED BY <2>2, <2>3
<1> QED BY <1>4

(* Every managed path has its place in the order of creation.              *)
LEMMA CreationPlaces ==
  /\ DOMAIN CreationOrder \subseteq Nat
  /\ \A p \in Managed : \E i \in DOMAIN CreationOrder : CreationOrder[i] = p
<1>1. /\ Order = OutputOrder \/ Order = SystemOrder
      /\ OutputOrder \in Seq(Paths) /\ SystemOrder \in Seq(Paths)
  BY DEF Order, OutputOrder, SystemOrder, Paths, Directories
<1>2. /\ CreationOrder \in Seq(Paths) /\ Len(CreationOrder) = Len(Order) + 1
      /\ CreationOrder[1] = "configDirectory"
      /\ \A i \in 1..Len(Order) : CreationOrder[i + 1] = Order[i]
  BY <1>1 DEF CreationOrder, Paths, Directories
<1>3. ASSUME NEW p \in Managed PROVE \E i \in DOMAIN CreationOrder : CreationOrder[i] = p
  <2>1. CASE p = "configDirectory"
    BY <1>1, <1>2, <2>1
  <2>2. CASE p \in ToSet(Order)
    <3>1. PICK i \in 1..Len(Order) : Order[i] = p
      BY <1>1, <2>2 DEF ToSet
    <3> QED BY <1>1, <1>2, <3>1
  <2> QED BY <2>1, <2>2 DEF Managed
<1> QED BY <1>2, <1>3

(* The path at hand is one of the managed paths.                           *)
LEMMA PathInOrder ==
  ASSUME Typed, cli.at \in {"own", "make"}
  PROVE  Path \in Paths
<1>1. OutputOrder \in Seq(Paths) /\ SystemOrder \in Seq(Paths)
  BY DEF OutputOrder, SystemOrder, Paths, Directories
<1>2. cli.i \in 1..Len(Order)
  BY DEF Typed
<1> QED BY <1>1, <1>2 DEF Path, Order

(* How far length goes.                                                    *)
LEMMA OrderLength ==
  Len(Order) \in Nat \ {0}
BY DEF Order, OutputOrder, SystemOrder

(* Two of them need the choice of the next path.                           *)
LEMMA RemovePathEffect ==
  ASSUME Typed, RemovePath
  PROVE  RemovePathDoes
<1>1. PICK i \in 1..cli.i :
        /\ i = Max(Remaining)
        /\ Order[i] \in record.created /\ Exists(Order[i])
        /\ \A j \in (i + 1)..cli.i : ~(Order[j] \in record.created /\ Exists(Order[j]))
  <2>1. Remaining # {} /\ Remaining \subseteq 0..cli.i /\ cli.i \in Nat
    BY DEF RemovePath, Remaining, Typed, Commands
  <2>2. PICK m \in Remaining : \A j \in Remaining : m >= j
    BY <2>1, LastPlace
  <2>3. /\ Max(Remaining) \in Remaining
        /\ \A j \in Remaining : Max(Remaining) >= j
    BY <2>2 DEF Max
  <2>4. Max(Remaining) \in 1..cli.i
    BY <2>3 DEF Remaining
  <2>5. Order[Max(Remaining)] \in record.created /\ Exists(Order[Max(Remaining)])
    BY <2>3 DEF Remaining
  <2>6. ASSUME NEW j \in (Max(Remaining) + 1)..cli.i,
               Order[j] \in record.created, Exists(Order[j])
        PROVE  FALSE
    <3>1. j \in 1..cli.i /\ ~(Max(Remaining) >= j)
      BY <2>1, <2>4
    <3> QED BY <2>3, <2>6, <3>1 DEF Remaining
  <2> QED BY <2>4, <2>5, <2>6
<1>2. /\ disk' = [disk EXCEPT ![Order[i]] =
                    IF Order[i] \in Directories /\ ~Empty(Order[i]) THEN @ ELSE "none"]
      /\ cli' = [cli EXCEPT !.i = i - 1]
      /\ cli.at = "undo-paths"
      /\ UNCHANGED <<Others, record, bundle, cred>>
  BY <1>1 DEF RemovePath, At, Others, services
<1>3. Order[i] \in Paths
  BY <1>1 DEF Typed, Records
<1>4. Puts(Order[i], IF Order[i] \in Directories /\ ~Empty(Order[i])
                       THEN disk[Order[i]] ELSE "none")
  BY <1>2, <1>3 DEF Puts, Typed
<1>5. Went("undo-paths", i - 1, cli.tried, cli.aside, cli.broken)
  BY <1>2 DEF Typed, Commands, Went, Onward, Steady
<1> QED BY <1>1, <1>2, <1>4, <1>5 DEF RemovePathDoes

(* Setting a path aside takes the first one that is still to go, in the    *)
(* order of creation.                                                      *)
LEMMA StagePathEffect ==
  ASSUME Typed, StagePath
  PROVE  StagePathDoes
<1>1. PICK i \in DOMAIN CreationOrder :
        /\ i = Min(Unstaged)
        /\ CreationOrder[i] \in RemovalRoots \ cli.aside /\ Exists(CreationOrder[i])
  <2>1. Unstaged # {} /\ Unstaged \subseteq Nat
    BY CreationPlaces DEF StagePath, Unstaged
  <2>2. PICK m \in Unstaged : \A j \in Unstaged : m <= j
    BY <2>1, FirstPlace
  <2>3. Min(Unstaged) \in Unstaged
    BY <2>2 DEF Min
  <2> QED BY <2>3 DEF Unstaged
<1>2. cli' = [cli EXCEPT !.aside = @ \cup {CreationOrder[i]}] /\ cli.at = "stage"
  BY <1>1 DEF StagePath, At
<1>3. Went("stage", cli.i, cli.tried, cli.aside \cup {CreationOrder[i]}, cli.broken)
  BY <1>2 DEF Typed, Commands, Went, Onward, Steady
<1> QED BY <1>1, <1>3 DEF StagePath, StagePathDoes, At, Others, services

(* Every step is one of those.                                             *)
LEMMA EveryStep ==
  ASSUME Typed, Next
  PROVE  Steps
<1>1. ASSUME PrepareSetup PROVE PrepareSetupDoes
  <2>1. Began("setup", "secrets")
    BY <1>1 DEF PrepareSetup, Begun, Began, Typed, Commands, MayRun, At
  <2>2. /\ cli'.recovering = Interrupted /\ cli'.recovered = Interrupted
        /\ cli'.adopt = AdoptsBundle
        /\ cli'.saved = cli.saved /\ cli'.backup = cli.backup
    BY <1>1 DEF PrepareSetup, Begun, Typed, Commands
  <2> QED BY <1>1, <2>1, <2>2 DEF PrepareSetup, PrepareSetupDoes, MayRun, At, Others, services
<1>2. ASSUME ReadSecrets PROVE ReadSecretsDoes
  BY <1>2, Control DEF ReadSecrets, Others, services, At, ReadSecretsDoes
<1>3. ASSUME WriteJournal PROVE WriteJournalDoes
  BY <1>3, Control DEF WriteJournal, FirstJournal, Journal, GivenUp, Others, services, At, WriteJournalDoes
<1>4. ASSUME TearJournal PROVE TearJournalDoes
  <2>1. record' = [FirstJournal EXCEPT !.whole = FALSE]
    BY <1>4 DEF TearJournal
  <2>2. /\ record'.at = FirstJournal.at /\ record'.created = FirstJournal.created
        /\ record'.whole = FALSE /\ record'.status = "installing" /\ record'.package = FALSE
        /\ record'.tried = {} /\ record'.wasActive = cli.wasActive
    BY <2>1 DEF FirstJournal, Journal
  <2> QED BY <1>4, <2>2, Control DEF TearJournal, TearJournalDoes, At, Others, services
<1>5. ASSUME MakeConfig PROVE MakeConfigDoes
  <2>1. Puts("configDirectory", "ours")
    BY <1>5 DEF MakeConfig, Puts, Typed, Paths, Directories
  <2> QED BY <1>5, <2>1, Control DEF MakeConfig, MakeConfigDoes, At, Others, services
<1>6. ASSUME MoveJournal PROVE MoveJournalDoes
  <2>1. Notes("final", record.status, record.created, record.package, record.tried)
    BY <1>6 DEF MoveJournal, Notes, Typed, Records
  <2> QED BY <1>6, <2>1, Control DEF MoveJournal, MoveJournalDoes, At, Others, services
<1>7. ASSUME RecordPackage PROVE RecordPackageDoes
  <2>1. CASE output \/ cli.adopt
    BY <1>7, <2>1, Control DEF RecordPackage, RecordPackageDoes, At, Others, services
  <2>2. CASE ~(output \/ cli.adopt)
    <3>1. Notes(record.at, record.status, record.created, TRUE, record.tried)
      BY <1>7, <2>2 DEF RecordPackage, Notes, Typed, Records
    <3> QED BY <1>7, <2>2, <3>1, Control DEF RecordPackage, RecordPackageDoes, At, Others, services
  <2> QED BY <2>1, <2>2
<1>8. ASSUME AddPackage PROVE AddPackageDoes
  BY <1>8, Control DEF AddPackage, ToPath, Others, services, At, AddPackageDoes
<1>9. ASSUME RecordPath PROVE RecordPathDoes
  <2>1. CASE Path \in Directories /\ Exists(Path)
    <3>1. OnNext
      BY <1>9, <2>1, Control DEF RecordPath, NextPath, OnNext
    <3> QED BY <1>9, <2>1, <3>1 DEF RecordPath, RecordPathDoes, At, Others, services
  <2>2. CASE ~(Path \in Directories /\ Exists(Path))
    <3>1. Notes(record.at, record.status, record.created \cup {Path}, record.package, record.tried)
      BY <1>9, <2>2 DEF RecordPath, Notes, Typed, Records
    <3> QED BY <1>9, <2>2, <3>1, Control DEF RecordPath, RecordPathDoes, At, Others, services
  <2> QED BY <2>1, <2>2
<1>10. ASSUME MakePath PROVE MakePathDoes
  <2>1. CASE Exists(Path)
    BY <1>10, <2>1, Control DEF MakePath, MakePathDoes, At, Others, services
  <2>2. CASE ~Exists(Path)
    <3>1. Puts(Path, "ours")
      <4>1. disk' = [disk EXCEPT ![Path] = "ours"]
        BY <1>10, <2>2 DEF MakePath
      <4>2. Path \in Paths
        BY <1>10, PathInOrder DEF MakePath, At
      <4> QED BY <4>1, <4>2 DEF Puts, Typed
    <3>2. OnNext
      BY <1>10, <2>2, Control DEF MakePath, NextPath, OnNext
    <3>3. /\ cred'.secret = (IF Path = "sessionSecretFile" THEN 0 ELSE cred.secret)
          /\ cred'.document = (IF Path = "authStateFile" THEN 0 ELSE cred.document)
      <4>1. CASE Path = "sessionSecretFile"
        BY <1>10, <2>2, <4>1 DEF MakePath, Typed, Credential
      <4>2. CASE Path = "authStateFile"
        BY <1>10, <2>2, <4>2 DEF MakePath, Typed, Credential
      <4>3. CASE Path # "sessionSecretFile" /\ Path # "authStateFile"
        BY <1>10, <2>2, <4>3 DEF MakePath
      <4> QED BY <4>1, <4>2, <4>3
    <3> QED BY <1>10, <2>2, <3>1, <3>2, <3>3 DEF MakePath, MakePathDoes, At, Others, services
  <2> QED BY <2>1, <2>2
<1>11. ASSUME Try("record-reload", "reload", "reload") PROVE TryDoes("record-reload", "reload", "reload")
  <2>1. Notes(record.at, record.status, record.created, record.package, record.tried \cup {"reload"})
    BY <1>11 DEF Try, Notes, Typed, Records
  <2> QED BY <1>11, <2>1, Control DEF Try, TryDoes, At, Others, services
<1>12. ASSUME Reload PROVE ReloadDoes
  BY <1>12, Control DEF Reload, Others, services, At, ReloadDoes
<1>13. ASSUME Try("record-restart", "restart", "restart") PROVE TryDoes("record-restart", "restart", "restart")
  <2>1. Notes(record.at, record.status, record.created, record.package, record.tried \cup {"restart"})
    BY <1>13 DEF Try, Notes, Typed, Records
  <2> QED BY <1>13, <2>1, Control DEF Try, TryDoes, At, Others, services
<1>14. ASSUME Restart PROVE RestartDoes
  BY <1>14, Control DEF Restart, Others, services, At, RestartDoes
<1>15. ASSUME Try("record-enable", "enable", "enable") PROVE TryDoes("record-enable", "enable", "enable")
  <2>1. Notes(record.at, record.status, record.created, record.package, record.tried \cup {"enable"})
    BY <1>15 DEF Try, Notes, Typed, Records
  <2> QED BY <1>15, <2>1, Control DEF Try, TryDoes, At, Others, services
<1>16. ASSUME Enable PROVE EnableDoes
  BY <1>16, Control DEF Enable, Others, services, At, EnableDoes
<1>17. ASSUME FinishSetup PROVE FinishSetupDoes
  <2>1. cli' = [Ending("done") EXCEPT !.broken = FALSE]
    BY <1>17 DEF FinishSetup
  <2>2. /\ cli'.broken = (FALSE) /\ cli'.lost = (cli.lost)
        /\ \A f \in DOMAIN cli \ {"faults", "broken", "lost"} : cli'[f] = Ending("done")[f]
    BY <2>1, EndingFields DEF Typed, Commands
  <2>3. Steady /\ AtIdle("done")
    BY <2>2, EndsBut
  <2>5. Notes(record.at, "installed", record.created, record.package, {})
    BY <1>17 DEF FinishSetup, Notes, Typed, Records
  <2> QED BY <1>17, <2>2, <2>3, <2>5 DEF FinishSetup, FinishSetupDoes, OverBut, At, Others, services
<1>18. ASSUME UndoPackage PROVE UndoPackageDoes
  <2>1. CASE record.at = "final" /\ ~record.whole
    BY <1>18, <2>1, Control DEF UndoPackage, UndoPackageDoes, At, Others, services
  <2>2. CASE ~(record.at = "final" /\ ~record.whole)
    <3> DEFINE next == [cli EXCEPT !.at = "undo-paths", !.i = Len(Order), !.tried = record.tried]
    <3>1. ASSUME cli' = next
          PROVE  Went("undo-paths", Len(Order), record.tried, cli.aside, cli.broken)
      BY <3>1 DEF Typed, Commands, Went, Onward, Steady
    <3> HIDE DEF next
    <3>2. \/ bundle' = (IF record.package THEN "none" ELSE bundle) /\ cli' = next
          \/ record.package /\ bundle' \in {bundle, "none"} /\ Over("broken")
      BY <1>18, <2>2, Control DEF UndoPackage, next
    <3> QED BY <1>18, <2>2, <3>1, <3>2 DEF UndoPackage, UndoPackageDoes, At, Others, services
  <2> QED BY <2>1, <2>2
<1>19. ASSUME RemovePath PROVE RemovePathDoes
  BY <1>19, RemovePathEffect
<1>20. ASSUME RemoveConfig PROVE RemoveConfigDoes
  <2>1. Puts("configDirectory", IF "configDirectory" \in record.created /\ Empty("configDirectory")
                                  THEN "none" ELSE disk["configDirectory"])
    BY <1>20 DEF RemoveConfig, Puts, Typed, Paths, Directories
  <2>2. \A j \in 1..cli.i : ~(Order[j] \in record.created /\ Exists(Order[j]))
    BY <1>20 DEF RemoveConfig, Remaining
  <2> QED BY <1>20, <2>1, <2>2, Control DEF RemoveConfig, RemoveConfigDoes, At, Others, services
<1>21. ASSUME UndoRecord PROVE UndoRecordDoes
  <2>1. CASE record.at = "final"
    <3>1. Notes("final", record.status, {"configDirectory"}, FALSE, {})
      BY <1>21, <2>1 DEF UndoRecord, Notes, Typed, Records
    <3> QED BY <1>21, <2>1, <3>1, Control DEF UndoRecord, UndoRecordDoes, At, Others, services
  <2>2. CASE record.at # "final"
    BY <1>21, <2>2, Control DEF UndoRecord, UndoRecordDoes, At, Others, services
  <2> QED BY <2>1, <2>2
<1>22. ASSUME UndoEnable PROVE UndoEnableDoes
  BY <1>22, Control DEF UndoEnable, Others, services, At, UndoEnableDoes
<1>23. ASSUME UndoReload PROVE UndoReloadDoes
  BY <1>23, Control DEF UndoReload, Others, services, At, UndoReloadDoes
<1>24. ASSUME UndoRestart PROVE UndoRestartDoes
  <2>1. ASSUME Undone PROVE IF cli.recovering THEN Resumed ELSE Over("failed")
    <3>1. CASE cli.recovering
      BY <2>1, <3>1 DEF Undone, Resumed, Steady, Typed, Commands
    <3>2. CASE ~cli.recovering
      BY <2>1, <3>2, Control DEF Undone, End
    <3> QED BY <3>1, <3>2
  <2> QED BY <1>24, <2>1, Control DEF UndoRestart, UndoRestartDoes, At
<1>25. ASSUME SetupCallFails PROVE SetupCallFailsDoes
  BY <1>25, Control DEF SetupCallFails, Others, services, At, SetupCallFailsDoes
<1>26. ASSUME PrepareUninstall PROVE PrepareUninstallDoes
  <2>1. Began("uninstall", "authorize")
    BY <1>26 DEF PrepareUninstall, Begun, Began, Typed, Commands, MayRun, At
  <2>2. /\ cli'.recovering = cli.recovering /\ cli'.recovered = FALSE /\ cli'.adopt = cli.adopt
        /\ cli'.saved = record /\ cli'.backup = cli.backup
    BY <1>26 DEF PrepareUninstall, Begun, Typed, Commands
  <2> QED BY <1>26, <2>1, <2>2 DEF PrepareUninstall, PrepareUninstallDoes, MayRun, At, Others, services
<1>27. ASSUME AuthorizeUninstall PROVE AuthorizeUninstallDoes
  BY <1>27, Control DEF AuthorizeUninstall, Others, services, At, AuthorizeUninstallDoes
<1>28. ASSUME Disable PROVE DisableDoes
  BY <1>28, Control DEF Disable, Others, services, At, DisableDoes
<1>29. ASSUME RemovePackage PROVE RemovePackageDoes
  <2> DEFINE tried == [cli EXCEPT !.tried = {"package"}]
  <2>1. ASSUME cli' = [tried EXCEPT !.at = "stage"]
        PROVE  Went("stage", cli.i, {"package"}, cli.aside, cli.broken)
    BY <2>1 DEF Typed, Commands, Went, Onward, Steady
  <2>2. ASSUME cli' = [tried EXCEPT !.at = "restore", !.faults = @ + 1]
        PROVE  Went("restore", cli.i, {"package"}, cli.aside, cli.broken)
    BY <2>2 DEF Typed, Commands, Went, Onward, Steady
  <2>3. CASE cli.saved.package
    <3>1. \/ bundle' = "none" /\ cli' = [tried EXCEPT !.at = "stage"]
          \/ /\ bundle' \in {bundle, "none"}
             /\ cli' = [tried EXCEPT !.at = "restore", !.faults = @ + 1]
      BY <1>29, <2>3 DEF RemovePackage
    <3> HIDE DEF tried
    <3> QED BY <1>29, <2>1, <2>2, <2>3, <3>1 DEF RemovePackage, RemovePackageDoes, At, Others, services
  <2>4. CASE ~cli.saved.package
    BY <1>29, <2>4, Control DEF RemovePackage, RemovePackageDoes, At, Others, services
  <2> QED BY <2>3, <2>4
<1>30. ASSUME StageRecord PROVE StageRecordDoes
  <2>1. Went("stage", cli.i, cli.tried,
             cli.aside \cup (cli.saved.created \cap {"configDirectory"}), cli.broken)
    BY <1>30 DEF StageRecord, At, Recorded, Typed, Commands, Went, Onward, Steady
  <2> QED BY <1>30, <2>1 DEF StageRecord, StageRecordDoes, At, Others, services
<1>31. ASSUME StagePath PROVE StagePathDoes
  BY <1>31, StagePathEffect
<1>32. ASSUME Staged PROVE StagedDoes
  <2>1. ASSUME NEW p \in RemovalRoots \ cli.aside, p \in Managed, Exists(p) PROVE FALSE
    <3>1. PICK i \in DOMAIN CreationOrder : CreationOrder[i] = p
      BY <2>1, CreationPlaces
    <3> QED BY <1>32, <2>1, <3>1 DEF Staged, Unstaged
  <2> QED BY <1>32, <2>1, Control DEF Staged, StagedDoes, At, Others, services
<1>33. ASSUME Unload PROVE UnloadDoes
  BY <1>33, Control DEF Unload, Others, services, At, UnloadDoes
<1>34. ASSUME Restore PROVE RestoreDoes
  <2> DEFINE next == [cli EXCEPT !.aside = {}, !.at = "restore-package"]
             passed == [next EXCEPT !.faults = @ + 1, !.broken = TRUE]
             told == cli.broken \/ (loaded' /\ Untold("reload"))
  <2> DEFINE On == /\ Onward /\ cli'.at = "restore-package" /\ cli'.i = cli.i
                   /\ cli'.tried = cli.tried /\ cli'.aside = {}
  <2>0. /\ cli.at \in {"restore", "restore-reload"}
        /\ UNCHANGED <<output, bundle, dsh, edge, cred>>
        /\ \/ /\ record' = cli.saved /\ UNCHANGED <<disk, guest>>
              /\ loaded' = (IF cli.at = "restore" THEN loaded ELSE Exists("systemdDropInFile"))
              /\ cli' = [next EXCEPT !.broken = @ \/ (loaded' /\ Untold("reload"))]
           \/ /\ cli.at = "restore-reload"
              /\ record' = cli.saved /\ UNCHANGED <<disk, guest, loaded>>
              /\ cli' = passed
           \/ /\ record.at = "none"
              /\ \E kept \in SUBSET cli.aside :
                   /\ cli.aside \cap {"configDirectory"} \subseteq kept
                   /\ Gone(kept)
              /\ cli' = [passed EXCEPT !.lost = TRUE]
              /\ UNCHANGED <<record, loaded>>
    BY <1>34 DEF Restore, At
  <2>1. ASSUME cli' = [next EXCEPT !.broken = @ \/ (loaded' /\ Untold("reload"))]
        PROVE  On /\ cli'.broken = (cli.broken \/ (loaded' /\ Untold("reload"))) /\ cli'.lost = cli.lost
    <3>1. cli' = [next EXCEPT !.broken = told]
      BY <2>1 DEF Typed, Commands
    <3> HIDE DEF told
    <3>2. On /\ cli'.broken = told /\ cli'.lost = cli.lost
      BY <3>1 DEF Onward, Steady, Typed, Commands
    <3> QED BY <3>2 DEF told
  <2>2. ASSUME cli' = passed PROVE On /\ cli'.broken = TRUE /\ cli'.lost = cli.lost
    BY <2>2 DEF Onward, Steady, Typed, Commands
  <2>3. ASSUME cli' = [passed EXCEPT !.lost = TRUE] PROVE On /\ cli'.broken = TRUE /\ cli'.lost = TRUE
    BY <2>3 DEF Onward, Steady, Typed, Commands
  <2> HIDE DEF next, passed
  <2> QED BY <2>0, <2>1, <2>2, <2>3 DEF RestoreDoes
<1>35. ASSUME RestorePackage PROVE RestorePackageDoes
  <2>1. ASSUME cli' = [cli EXCEPT !.at = "restore-edge", !.faults = @ + 1, !.broken = TRUE]
        PROVE  Went("restore-edge", cli.i, cli.tried, cli.aside, TRUE)
    BY <2>1 DEF Typed, Commands, Went, Onward, Steady
  <2> QED BY <1>35, <2>1, Control DEF RestorePackage, RestorePackageDoes, At, Others, services
<1>36. ASSUME RestoreEdge PROVE RestoreEdgeDoes
  <2>1. ASSUME cli' = [Ending("failed") EXCEPT !.broken = @ \/ (edge' /\ Untold("enable"))]
        PROVE  OverBut("failed", cli.broken \/ (edge' /\ Untold("enable")), cli.lost)
    <3> DEFINE told == Ending("failed").broken \/ (edge' /\ Untold("enable"))
    <3>1. cli' = [Ending("failed") EXCEPT !.broken = told]
      BY <2>1, EndingFields DEF Typed, Commands
    <3> HIDE DEF told
    <3>2. /\ cli'.broken = told /\ cli'.lost = cli.lost
          /\ \A f \in DOMAIN cli \ {"faults", "broken", "lost"} : cli'[f] = Ending("failed")[f]
      BY <3>1, EndingFields DEF Typed, Commands
    <3>3. Steady /\ AtIdle("failed")
      BY <3>2, EndsBut
    <3>5. told = (cli.broken \/ (edge' /\ Untold("enable")))
      BY EndingFields DEF told, Bad
    <3> QED BY <3>2, <3>3, <3>5 DEF OverBut
  <2> QED BY <1>36, <2>1, Control DEF RestoreEdge, RestoreEdgeDoes, At, Others, services
<1>37. ASSUME DeleteTree PROVE DeleteTreeDoes
  <2>1. ASSUME NEW root, cli.at = "delete", cli' = [cli EXCEPT !.aside = @ \ {root}]
        PROVE  Went("delete", cli.i, cli.tried, cli.aside \ {root}, cli.broken)
    BY <2>1 DEF Typed, Commands, Went, Onward, Steady
  <2> QED BY <1>37, <2>1 DEF DeleteTree, DeleteTreeDoes, At
<1>38. ASSUME Deleted PROVE DeletedDoes
  <2> DEFINE told == Ending("done").broken \/ dsh = "guarded"
  <2>1. cli' = [Ending("done") EXCEPT !.broken = told]
    BY <1>38, EndingFields DEF Deleted, Typed, Commands
  <2> HIDE DEF told
  <2>2. /\ cli'.broken = told /\ cli'.lost = cli.lost
        /\ \A f \in DOMAIN cli \ {"faults", "broken", "lost"} : cli'[f] = Ending("done")[f]
    BY <2>1, EndingFields DEF Typed, Commands
  <2>3. Steady /\ AtIdle("done")
    BY <2>2, EndsBut
  <2>5. told = (cli.broken \/ dsh = "guarded")
    BY EndingFields DEF told, Bad
  <2> QED BY <1>38, <2>2, <2>3, <2>5 DEF Deleted, DeletedDoes, OverBut, At, Others, services
<1>39. ASSUME UninstallCallFails PROVE UninstallCallFailsDoes
  BY <1>39, Control DEF UninstallCallFails, Gone, Others, services, At, UninstallCallFailsDoes, Tree, Within
<1>40. ASSUME PrepareReset PROVE PrepareResetDoes
  <2>1. Began("reset", "password")
    BY <1>40 DEF PrepareReset, Begun, Began, Typed, Commands, MayRun, At
  <2>2. /\ cli'.recovering = cli.recovering /\ cli'.recovered = FALSE /\ cli'.adopt = cli.adopt
        /\ cli'.saved = cli.saved /\ cli'.backup = cred
    BY <1>40 DEF PrepareReset, Begun, Typed, Commands
  <2> QED BY <1>40, <2>1, <2>2 DEF PrepareReset, PrepareResetDoes, MayRun, At, Others, services
<1>41. ASSUME ReadPassword PROVE ReadPasswordDoes
  BY <1>41, Control DEF ReadPassword, Others, services, At, ReadPasswordDoes
<1>42. ASSUME Stop PROVE StopDoes
  BY <1>42, Control DEF Stop, Others, services, At, StopDoes
<1>43. ASSUME Replace("replace-document", "document", cli.runs, GoTo("replace-secret")) PROVE ReplaceDocumentDoes
  <2>1. Replaces("replace-document", cred.secret, cli.runs)
    BY <1>43 DEF Replace, Replaces, Typed, Credential, At, Others, services
  <2> QED BY <1>43, <2>1, Control DEF Replace, AfterSecret, AfterDocument, AfterRestore, ReplaceDocumentDoes
<1>44. ASSUME Replace("replace-secret", "secret", cli.runs, AfterSecret) PROVE ReplaceSecretDoes
  <2>1. Replaces("replace-secret", cli.runs, cred.document)
    BY <1>44 DEF Replace, Replaces, Typed, Credential, At, Others, services
  <2> QED BY <1>44, <2>1, Control DEF Replace, AfterSecret, AfterDocument, AfterRestore, ReplaceSecretDoes
<1>45. ASSUME Start PROVE StartDoes
  BY <1>45, Control DEF Start, Others, services, At, StartDoes
<1>46. ASSUME Replace("restore-document", "document", cli.backup.document, AfterDocument) PROVE RestoreDocumentDoes
  <2>1. Replaces("restore-document", cred.secret, cli.backup.document)
    BY <1>46 DEF Replace, Replaces, Typed, Credential, At, Others, services
  <2> QED BY <1>46, <2>1, Control DEF Replace, AfterSecret, AfterDocument, AfterRestore, RestoreDocumentDoes
<1>47. ASSUME Replace("restore-secret", "secret", cli.backup.secret, AfterRestore) PROVE RestoreSecretDoes
  <2>1. Replaces("restore-secret", cli.backup.secret, cred.document)
    BY <1>47 DEF Replace, Replaces, Typed, Credential, At, Others, services
  <2> QED BY <1>47, <2>1, Control DEF Replace, AfterSecret, AfterDocument, AfterRestore, RestoreSecretDoes
<1>48. ASSUME RestoreService PROVE RestoreServiceDoes
  BY <1>48, Control DEF RestoreService, Others, services, At, RestoreServiceDoes
<1>49. ASSUME ResetCallFails PROVE ResetCallFailsDoes
  BY <1>49, Control DEF ResetCallFails, Others, services, At, ResetCallFailsDoes
<1>50. ASSUME Kill PROVE KillDoes
  <2> DEFINE lost == cli.lost \/ (cli.command = "uninstall" /\ record.at = "none")
  <2>1. cli' = [Ending("killed") EXCEPT !.faults = @ + 1, !.lost = lost]
    BY <1>50, EndingFields DEF Kill, Typed, Commands
  <2> HIDE DEF lost
  <2>2. /\ cli'.broken = Bad("killed") /\ cli'.lost = lost
        /\ \A f \in DOMAIN cli \ {"faults", "broken", "lost"} : cli'[f] = Ending("killed")[f]
    BY <2>1, EndingFields DEF Typed, Commands
  <2>3. Steady /\ AtIdle("killed")
    BY <2>2, EndsBut
  <2> QED BY <1>50, <2>2, <2>3 DEF Kill, KillDoes, OverBut, At, lost
<1>51. ASSUME ServiceWrites PROVE ServiceWritesDoes
  <2>1. Puts("authStateFile", "left")
    BY <1>51 DEF ServiceWrites, Puts, Typed, Paths
  <2> QED BY <1>51, <2>1 DEF ServiceWrites, ServiceWritesDoes, Others, services
<1>52. CASE OperatorAddsDropIn
  BY <1>52 DEF OperatorAddsDropIn, Steps
<1>53. ASSUME Reboot PROVE RebootDoes
  <2> DEFINE broken == cli.broken \/ Unjournaled
  <2>1. cli' = [cli EXCEPT !.answer = "rebooted", !.broken = broken]
    BY <1>53 DEF Reboot, Typed, Commands
  <2> HIDE DEF broken
  <2>2. /\ Steady
        /\ cli'.at = cli.at /\ cli'.i = cli.i /\ cli'.tried = cli.tried /\ cli'.aside = cli.aside
        /\ cli'.recovering = cli.recovering /\ cli'.adopt = cli.adopt
        /\ cli'.saved = cli.saved /\ cli'.backup = cli.backup
        /\ cli'.answer = "rebooted" /\ cli'.broken = broken /\ cli'.lost = cli.lost
    BY <2>1 DEF Steady, Typed, Commands
  <2> QED BY <1>53, <2>2 DEF Reboot, RebootDoes, At, broken
<1> QED BY <1>1, <1>2, <1>3, <1>4, <1>5, <1>6, <1>7, <1>8, <1>9, <1>10, <1>11, <1>12, <1>13, <1>14, <1>15, <1>16, <1>17, <1>18, <1>19, <1>20, <1>21, <1>22, <1>23, <1>24, <1>25, <1>26, <1>27, <1>28, <1>29, <1>30, <1>31, <1>32, <1>33, <1>34, <1>35, <1>36, <1>37, <1>38, <1>39, <1>40, <1>41, <1>42, <1>43, <1>44, <1>45, <1>46, <1>47, <1>48, <1>49, <1>50, <1>51, <1>52, <1>53
         DEF Next, SetupStep, UninstallStep, ResetStep, Steps

-----------------------------------------------------------------------------
(***************************************************************************)
(* Type correctness.                                                       *)
(***************************************************************************)
LEMMA EndingTyped ==
  ASSUME Typed, NEW answer \in Replies
  PROVE  Ending(answer) \in Commands
<1> DEFINE b == cli.broken \/ (answer \in {"broken", "killed"} /\ ~Told)
           c1 == [cli EXCEPT !.at = "idle", !.i = 0, !.recovering = FALSE]
           c2 == [c1 EXCEPT !.adopt = FALSE, !.tried = {}, !.saved = NoRecord]
           c3 == [c2 EXCEPT !.aside = {}, !.backup = cred, !.answer = answer]
<1>1. b \in BOOLEAN /\ cli \in Commands /\ NoRecord \in Records /\ cred \in Credential
  BY DEF Typed, Commands, NoRecord, Records
<1>2. Ending(answer) = [c3 EXCEPT !.broken = b]
  BY DEF Ending
<1> HIDE DEF b
<1>3. c1 \in Commands
  BY <1>1 DEF Commands, Places
<1> HIDE DEF c1
<1>4. c2 \in Commands
  BY <1>1, <1>3 DEF Commands
<1> HIDE DEF c2
<1>5. c3 \in Commands
  BY <1>1, <1>4 DEF Commands
<1> HIDE DEF c3
<1> QED BY <1>1, <1>2, <1>5 DEF Commands

(* One more fault, or another place or verdict, leaves a command typed.    *)
LEMMA CommandUpdates ==
  ASSUME NEW c \in Commands
  PROVE  /\ [c EXCEPT !.faults = @ + 1] \in Commands
         /\ [c EXCEPT !.runs = @ + 1] \in Commands
         /\ \A b \in BOOLEAN : [c EXCEPT !.broken = b] \in Commands
         /\ \A b \in BOOLEAN : [c EXCEPT !.lost = b] \in Commands
         /\ \A place \in Places : [c EXCEPT !.at = place] \in Commands
         /\ \A i \in Nat : [c EXCEPT !.i = i] \in Commands
         /\ \A aside \in SUBSET Paths : [c EXCEPT !.aside = aside] \in Commands
         /\ \A tried \in SUBSET (Calls \cup {"package"}) : [c EXCEPT !.tried = tried] \in Commands
         /\ \A saved \in Records : [c EXCEPT !.saved = saved] \in Commands
         /\ \A backup \in Credential : [c EXCEPT !.backup = backup] \in Commands
         /\ \A b \in BOOLEAN : [c EXCEPT !.recovering = b, !.recovered = b] \in Commands
         /\ \A b \in BOOLEAN : [c EXCEPT !.adopt = b] \in Commands
<1>1. c.faults + 1 \in Nat /\ c.runs + 1 \in Nat
  BY DEF Commands
<1>2. /\ [c EXCEPT !.faults = @ + 1] = [c EXCEPT !.faults = c.faults + 1]
      /\ [c EXCEPT !.runs = @ + 1] = [c EXCEPT !.runs = c.runs + 1]
  BY DEF Commands
<1>3. \A n \in Nat : [c EXCEPT !.faults = n] \in Commands /\ [c EXCEPT !.runs = n] \in Commands
  BY DEF Commands
<1>4. /\ [c EXCEPT !.faults = @ + 1] \in Commands
      /\ [c EXCEPT !.runs = @ + 1] \in Commands
  BY <1>1, <1>2, <1>3
<1>5. /\ \A b \in BOOLEAN : [c EXCEPT !.broken = b] \in Commands
      /\ \A b \in BOOLEAN : [c EXCEPT !.lost = b] \in Commands
      /\ \A place \in Places : [c EXCEPT !.at = place] \in Commands
      /\ \A i \in Nat : [c EXCEPT !.i = i] \in Commands
  BY DEF Commands
<1>6. /\ \A aside \in SUBSET Paths : [c EXCEPT !.aside = aside] \in Commands
      /\ \A tried \in SUBSET (Calls \cup {"package"}) : [c EXCEPT !.tried = tried] \in Commands
      /\ \A saved \in Records : [c EXCEPT !.saved = saved] \in Commands
  BY DEF Commands
<1>7. /\ \A backup \in Credential : [c EXCEPT !.backup = backup] \in Commands
      /\ \A b \in BOOLEAN : [c EXCEPT !.recovering = b, !.recovered = b] \in Commands
      /\ \A b \in BOOLEAN : [c EXCEPT !.adopt = b] \in Commands
  BY DEF Commands
<1> QED BY <1>4, <1>5, <1>6, <1>7

(* The four ways on, and the beginning of a command, are typed.            *)
LEMMA ControlTyped ==
  ASSUME Typed
  PROVE  /\ \A place \in Places : GoTo(place) => cli' \in Commands
         /\ \A place \in Places : FailTo(place) => cli' \in Commands
         /\ \A answer \in Replies : End(answer) => cli' \in Commands
         /\ \A answer \in Replies : FailWith(answer) => cli' \in Commands
         /\ \A i \in Nat : ToPath(i) => cli' \in Commands
         /\ \A command \in {"setup", "uninstall", "reset"}, place \in Places :
              Begun(command, place) \in Commands
<1>0. cli \in Commands /\ Active \in BOOLEAN
  BY DEF Typed, Active
<1>1. ASSUME NEW place \in Places, GoTo(place) PROVE cli' \in Commands
  BY <1>0, <1>1, CommandUpdates DEF GoTo
<1>2. ASSUME NEW place \in Places, FailTo(place) PROVE cli' \in Commands
  <2> DEFINE c1 == [cli EXCEPT !.at = place]
  <2>1. c1 \in Commands
    BY <1>0, CommandUpdates
  <2>2. cli' = [c1 EXCEPT !.faults = @ + 1]
    BY <1>0, <1>2 DEF FailTo, Commands
  <2> HIDE DEF c1
  <2> QED BY <2>1, <2>2, CommandUpdates
<1>3. ASSUME NEW answer \in Replies, End(answer) PROVE cli' \in Commands
  BY <1>3, EndingTyped DEF End
<1>4. ASSUME NEW answer \in Replies, FailWith(answer) PROVE cli' \in Commands
  BY <1>4, EndingTyped, CommandUpdates DEF FailWith
<1>5. ASSUME NEW i \in Nat, ToPath(i) PROVE cli' \in Commands
  BY <1>0, <1>5 DEF ToPath, Commands, Places, SetupPlaces, Installing
<1>6. ASSUME NEW command \in {"setup", "uninstall", "reset"}, NEW place \in Places
      PROVE  Begun(command, place) \in Commands
  <2> DEFINE c1 == [cli EXCEPT !.command = command, !.at = place, !.answer = "none"]
             c2 == [c1 EXCEPT !.recovered = FALSE, !.wasActive = Active]
  <2>1. c1 \in Commands
    BY <1>0 DEF Commands, Replies
  <2>2. Begun(command, place) = [c2 EXCEPT !.runs = @ + 1]
    BY <1>0 DEF Begun, Commands
  <2> HIDE DEF c1
  <2>3. c2 \in Commands
    BY <1>0, <2>1 DEF Commands
  <2> HIDE DEF c2
  <2> QED BY <2>2, <2>3, CommandUpdates
<1> QED BY <1>1, <1>2, <1>3, <1>4, <1>5, <1>6

(* The command stays one.                                                  *)
LEMMA CommandTyped ==
  ASSUME Typed, Next
  PROVE  cli' \in Commands
<1>0. cli \in Commands
  BY DEF Typed
<1>1. CASE PrepareSetup
  <2> DEFINE c == Begun("setup", "secrets")
  <2>1. c \in Commands /\ Interrupted \in BOOLEAN /\ AdoptsBundle \in BOOLEAN
    BY <1>0, ControlTyped DEF Places, SetupPlaces, Interrupted, AdoptsBundle, Adoptable, Typed, Records
  <2>2. cli' = [[c EXCEPT !.recovering = Interrupted, !.recovered = Interrupted]
                  EXCEPT !.adopt = AdoptsBundle]
    BY <1>1 DEF PrepareSetup
  <2> HIDE DEF c
  <2> QED BY <2>1, <2>2, CommandUpdates
<1>2. CASE ReadSecrets
  BY <1>2, ControlTyped DEF ReadSecrets, Places, SetupPlaces, Installing, Undoing, UninstallPlaces, Leaving, Restoring, ResetPlaces, Replies
<1>3. CASE WriteJournal
  BY <1>3, ControlTyped DEF WriteJournal, Places, SetupPlaces, Installing, Undoing, UninstallPlaces, Leaving, Restoring, ResetPlaces, Replies
<1>4. CASE TearJournal
  BY <1>4, ControlTyped DEF TearJournal, Places, SetupPlaces, Installing, Undoing, UninstallPlaces, Leaving, Restoring, ResetPlaces, Replies
<1>5. CASE MakeConfig
  BY <1>5, ControlTyped DEF MakeConfig, Places, SetupPlaces, Installing, Undoing, UninstallPlaces, Leaving, Restoring, ResetPlaces, Replies
<1>6. CASE MoveJournal
  BY <1>6, ControlTyped DEF MoveJournal, Places, SetupPlaces, Installing, Undoing, UninstallPlaces, Leaving, Restoring, ResetPlaces, Replies
<1>7. CASE RecordPackage
  BY <1>7, ControlTyped DEF RecordPackage, Places, SetupPlaces, Installing, Undoing, UninstallPlaces, Leaving, Restoring, ResetPlaces, Replies
<1>8. CASE AddPackage
  BY <1>8, ControlTyped DEF AddPackage, Places, SetupPlaces, Installing, Undoing, UninstallPlaces, Leaving, Restoring, ResetPlaces, Replies
<1>9. CASE RecordPath
  <2>1. cli.i \in Nat /\ cli.i + 1 \in Nat
    BY <1>0 DEF Commands
  <2> QED BY <1>9, <2>1, ControlTyped DEF RecordPath, NextPath, Places, SetupPlaces, Installing
<1>10. CASE MakePath
  <2>1. cli.i \in Nat /\ cli.i + 1 \in Nat
    BY <1>0 DEF Commands
  <2> QED BY <1>10, <2>1, ControlTyped DEF MakePath, NextPath, Places, SetupPlaces, Installing, Undoing
<1>11. CASE Try("record-reload", "reload", "reload")
  BY <1>11, ControlTyped DEF Try, Places, SetupPlaces, Installing
<1>12. CASE Reload
  BY <1>12, ControlTyped DEF Reload, Places, SetupPlaces, Installing, Undoing, UninstallPlaces, Leaving, Restoring, ResetPlaces, Replies
<1>13. CASE Try("record-restart", "restart", "restart")
  BY <1>13, ControlTyped DEF Try, Places, SetupPlaces, Installing
<1>14. CASE Restart
  BY <1>14, ControlTyped DEF Restart, Places, SetupPlaces, Installing, Undoing, UninstallPlaces, Leaving, Restoring, ResetPlaces, Replies
<1>15. CASE Try("record-enable", "enable", "enable")
  BY <1>15, ControlTyped DEF Try, Places, SetupPlaces, Installing
<1>16. CASE Enable
  BY <1>16, ControlTyped DEF Enable, Places, SetupPlaces, Installing, Undoing, UninstallPlaces, Leaving, Restoring, ResetPlaces, Replies
<1>17. CASE FinishSetup
  <2> DEFINE c == Ending("done")
  <2>1. c \in Commands /\ cli' = [c EXCEPT !.broken = FALSE]
    BY <1>17, EndingTyped DEF FinishSetup, Replies
  <2> HIDE DEF c
  <2> QED BY <2>1, CommandUpdates
<1>18. CASE UndoPackage
  <2> DEFINE c1 == [cli EXCEPT !.at = "undo-paths"]
             c2 == [c1 EXCEPT !.i = Len(Order)]
             next == [cli EXCEPT !.at = "undo-paths", !.i = Len(Order), !.tried = record.tried]
  <2>1. Len(Order) \in Nat /\ record.tried \in SUBSET (Calls \cup {"package"})
    BY OrderLength DEF Typed, Records
  <2>2. c1 \in Commands
    BY <1>0, CommandUpdates DEF Places, SetupPlaces, Undoing
  <2>3. next = [c2 EXCEPT !.tried = record.tried]
    OBVIOUS
  <2> HIDE DEF c1
  <2>4. c2 \in Commands
    BY <2>1, <2>2, CommandUpdates
  <2> HIDE DEF c2
  <2>5. next \in Commands
    BY <2>1, <2>3, <2>4, CommandUpdates
  <2> HIDE DEF next
  <2>6. cli' = next \/ End("broken") \/ FailWith("broken")
    BY <1>18 DEF UndoPackage, next
  <2> QED BY <2>5, <2>6, ControlTyped DEF Replies
<1>19. CASE RemovePath
  <2>1. cli.at = "undo-paths" /\ cli' = [cli EXCEPT !.i = Max(Remaining) - 1]
    BY <1>19 DEF RemovePath, At
  <2>2. cli'.i \in Nat /\ cli'.i = Max(Remaining) - 1
    <3>1. RemovePathDoes
      BY <1>19, RemovePathEffect
    <3>2. PICK i \in 1..cli.i : cli'.i = i - 1
      BY <3>1 DEF RemovePathDoes, Went
    <3> QED BY <1>0, <2>1, <3>2 DEF Commands
  <2> QED BY <1>0, <2>1, <2>2, CommandUpdates
<1>20. CASE RemoveConfig
  BY <1>20, ControlTyped DEF RemoveConfig, Places, SetupPlaces, Undoing
<1>21. CASE UndoRecord
  BY <1>21, ControlTyped DEF UndoRecord, Places, SetupPlaces, Undoing
<1>22. CASE UndoEnable
  BY <1>22, ControlTyped DEF UndoEnable, Places, SetupPlaces, Installing, Undoing, UninstallPlaces, Leaving, Restoring, ResetPlaces, Replies
<1>23. CASE UndoReload
  BY <1>23, ControlTyped DEF UndoReload, Places, SetupPlaces, Installing, Undoing, UninstallPlaces, Leaving, Restoring, ResetPlaces, Replies
<1>24. CASE UndoRestart
  <2> DEFINE c1 == [cli EXCEPT !.at = "journal", !.recovering = FALSE, !.tried = {}]
  <2>1. c1 \in Commands
    BY <1>0 DEF Commands, Places, SetupPlaces, Installing
  <2>2. cli' = c1 \/ End("failed") \/ FailWith("broken")
    BY <1>24 DEF UndoRestart, Undone, End
  <2> QED BY <2>1, <2>2, ControlTyped DEF Replies
<1>25. CASE SetupCallFails
  BY <1>25, ControlTyped DEF SetupCallFails, Places, SetupPlaces, Installing, Undoing, UninstallPlaces, Leaving, Restoring, ResetPlaces, Replies
<1>26. CASE PrepareUninstall
  <2> DEFINE c == Begun("uninstall", "authorize")
  <2>1. c \in Commands /\ record \in Records
    BY <1>0, ControlTyped DEF Typed, Places, UninstallPlaces, Leaving, ResetPlaces
  <2>2. cli' = [c EXCEPT !.saved = record]
    BY <1>26 DEF PrepareUninstall
  <2> HIDE DEF c
  <2> QED BY <2>1, <2>2, CommandUpdates
<1>27. CASE AuthorizeUninstall
  BY <1>27, ControlTyped DEF AuthorizeUninstall, Places, SetupPlaces, Installing, Undoing, UninstallPlaces, Leaving, Restoring, ResetPlaces, Replies
<1>28. CASE Disable
  BY <1>28, ControlTyped DEF Disable, Places, SetupPlaces, Installing, Undoing, UninstallPlaces, Leaving, Restoring, ResetPlaces, Replies
<1>29. CASE RemovePackage
  <2> DEFINE tried == [cli EXCEPT !.tried = {"package"}]
             c1 == [tried EXCEPT !.at = "restore"]
  <2>1. tried \in Commands
    BY <1>0, CommandUpdates
  <2>2. \/ cli' = [tried EXCEPT !.at = "stage"]
        \/ cli' = [tried EXCEPT !.at = "restore", !.faults = @ + 1]
        \/ GoTo("stage")
    BY <1>29 DEF RemovePackage
  <2>3. [tried EXCEPT !.at = "restore", !.faults = @ + 1] = [c1 EXCEPT !.faults = @ + 1]
    BY <2>1 DEF Commands
  <2> HIDE DEF tried
  <2>4. c1 \in Commands /\ [tried EXCEPT !.at = "stage"] \in Commands
    BY <2>1, CommandUpdates DEF Places, UninstallPlaces, Leaving, Restoring
  <2> HIDE DEF c1
  <2>5. [c1 EXCEPT !.faults = @ + 1] \in Commands
    BY <2>4, CommandUpdates
  <2>6. GoTo("stage") => cli' \in Commands
    BY ControlTyped DEF Places, UninstallPlaces, Leaving
  <2> QED BY <2>2, <2>3, <2>4, <2>5, <2>6
<1>30. CASE StageRecord
  <2>1. cli.aside \cup (Recorded \cap {"configDirectory"}) \in SUBSET Paths
    BY <1>0 DEF Commands, Recorded, Records
  <2>2. cli' = [cli EXCEPT !.aside = cli.aside \cup (Recorded \cap {"configDirectory"})]
    BY <1>0, <1>30 DEF StageRecord, Commands
  <2> QED BY <1>0, <2>1, <2>2, CommandUpdates
<1>31. CASE StagePath
  <2>1. cli' = [cli EXCEPT !.aside = cli.aside \cup {CreationOrder[Min(Unstaged)]}]
    BY <1>0, <1>31 DEF StagePath, Commands
  <2>2. cli'.aside \in SUBSET Paths /\ cli'.aside = cli.aside \cup {CreationOrder[Min(Unstaged)]}
    <3>1. StagePathDoes
      BY <1>31, StagePathEffect
    <3>2. PICK path \in RemovalRoots \ cli.aside : cli'.aside = cli.aside \cup {path}
      BY <3>1 DEF StagePathDoes, Went
    <3> QED BY <1>0, <2>1, <3>2 DEF Commands, RemovalRoots, Recorded, Records, Tree, Within
  <2> QED BY <1>0, <2>1, <2>2, CommandUpdates
<1>32. CASE Staged
  BY <1>32, ControlTyped DEF Staged, Places, SetupPlaces, Installing, Undoing, UninstallPlaces, Leaving, Restoring, ResetPlaces, Replies
<1>33. CASE Unload
  BY <1>33, ControlTyped DEF Unload, Places, SetupPlaces, Installing, Undoing, UninstallPlaces, Leaving, Restoring, ResetPlaces, Replies
<1>34. CASE Restore
  <2> DEFINE c1 == [cli EXCEPT !.aside = {}]
             next == [cli EXCEPT !.aside = {}, !.at = "restore-package"]
             c2 == [next EXCEPT !.faults = @ + 1]
             passed == [next EXCEPT !.faults = @ + 1, !.broken = TRUE]
             told == next.broken \/ (loaded' /\ Untold("reload"))
  <2>1. \/ cli' = [next EXCEPT !.broken = @ \/ (loaded' /\ Untold("reload"))]
        \/ cli' = passed
        \/ cli' = [passed EXCEPT !.lost = TRUE]
    BY <1>34 DEF Restore
  <2>2. c1 \in Commands
    BY <1>0, CommandUpdates
  <2>3. next = [c1 EXCEPT !.at = "restore-package"]
    OBVIOUS
  <2> HIDE DEF c1
  <2>4. next \in Commands
    BY <2>2, <2>3, CommandUpdates DEF Places, UninstallPlaces, Restoring
  <2>5. passed = [c2 EXCEPT !.broken = TRUE]
    OBVIOUS
  <2> HIDE DEF next
  <2>6. c2 \in Commands
    BY <2>4, CommandUpdates
  <2> HIDE DEF c2
  <2>7. passed \in Commands
    BY <2>5, <2>6, CommandUpdates
  <2> HIDE DEF passed
  <2>8. [passed EXCEPT !.lost = TRUE] \in Commands
    BY <2>7, CommandUpdates
  <2>9. told \in BOOLEAN
    BY <2>4 DEF Commands
  <2>10. [next EXCEPT !.broken = @ \/ (loaded' /\ Untold("reload"))] = [next EXCEPT !.broken = told]
    BY <2>4 DEF Commands
  <2> HIDE DEF told
  <2>11. [next EXCEPT !.broken = told] \in Commands
    BY <2>4, <2>9, CommandUpdates
  <2> QED BY <2>1, <2>7, <2>8, <2>10, <2>11
<1>35. CASE RestorePackage
  <2> DEFINE c1 == [cli EXCEPT !.at = "restore-edge"]
             c2 == [c1 EXCEPT !.faults = @ + 1]
  <2>1. cli' = [c2 EXCEPT !.broken = TRUE] \/ GoTo("restore-edge")
    BY <1>35 DEF RestorePackage
  <2>2. c1 \in Commands
    BY <1>0, CommandUpdates DEF Places, UninstallPlaces, Restoring
  <2> HIDE DEF c1
  <2>3. c2 \in Commands
    BY <2>2, CommandUpdates
  <2> HIDE DEF c2
  <2>4. [c2 EXCEPT !.broken = TRUE] \in Commands
    BY <2>3, CommandUpdates
  <2> QED BY <2>1, <2>4, ControlTyped DEF Places, UninstallPlaces, Restoring
<1>36. CASE RestoreEdge
  <2> DEFINE c == Ending("failed")
             told == c.broken \/ (edge' /\ Untold("enable"))
  <2>1. FailWith("broken") \/ cli' = [c EXCEPT !.broken = @ \/ (edge' /\ Untold("enable"))]
    BY <1>36 DEF RestoreEdge
  <2>2. c \in Commands
    BY EndingTyped DEF Replies
  <2> HIDE DEF c
  <2>3. [c EXCEPT !.broken = @ \/ (edge' /\ Untold("enable"))] = [c EXCEPT !.broken = told]
    BY <2>2 DEF Commands
  <2>4. told \in BOOLEAN
    BY <2>2 DEF Commands
  <2> HIDE DEF told
  <2> QED BY <2>1, <2>2, <2>3, <2>4, CommandUpdates, ControlTyped DEF Replies
<1>37. CASE DeleteTree
  <2>1. PICK root \in cli.aside : cli' = [cli EXCEPT !.aside = cli.aside \ {root}]
    BY <1>0, <1>37 DEF DeleteTree, Commands
  <2>2. cli.aside \ {root} \in SUBSET Paths
    BY <1>0 DEF Commands
  <2> QED BY <1>0, <2>1, <2>2, CommandUpdates
<1>38. CASE Deleted
  <2> DEFINE c == Ending("done")
             told == c.broken \/ dsh = "guarded"
  <2>1. cli' = [c EXCEPT !.broken = @ \/ dsh = "guarded"]
    BY <1>38 DEF Deleted
  <2>2. c \in Commands
    BY EndingTyped DEF Replies
  <2> HIDE DEF c
  <2>3. [c EXCEPT !.broken = @ \/ dsh = "guarded"] = [c EXCEPT !.broken = told]
    BY <2>2 DEF Commands
  <2>4. told \in BOOLEAN
    BY <2>2 DEF Commands
  <2> HIDE DEF told
  <2> QED BY <2>1, <2>2, <2>3, <2>4, CommandUpdates
<1>39. CASE UninstallCallFails
  BY <1>39, ControlTyped DEF UninstallCallFails, Places, SetupPlaces, Installing, Undoing, UninstallPlaces, Leaving, Restoring, ResetPlaces, Replies
<1>40. CASE PrepareReset
  <2> DEFINE c == Begun("reset", "password")
  <2>1. c \in Commands /\ cred \in Credential
    BY <1>0, ControlTyped DEF Typed, Places, UninstallPlaces, Leaving, ResetPlaces
  <2>2. cli' = [c EXCEPT !.backup = cred]
    BY <1>40 DEF PrepareReset
  <2> HIDE DEF c
  <2> QED BY <2>1, <2>2, CommandUpdates
<1>41. CASE ReadPassword
  BY <1>41, ControlTyped DEF ReadPassword, Places, SetupPlaces, Installing, Undoing, UninstallPlaces, Leaving, Restoring, ResetPlaces, Replies
<1>42. CASE Stop
  BY <1>42, ControlTyped DEF Stop, Places, SetupPlaces, Installing, Undoing, UninstallPlaces, Leaving, Restoring, ResetPlaces, Replies
<1>43. CASE Replace("replace-document", "document", cli.runs, GoTo("replace-secret"))
  BY <1>43, ControlTyped DEF Replace, AfterSecret, AfterDocument, AfterRestore, Places, ResetPlaces, Replies
<1>44. CASE Replace("replace-secret", "secret", cli.runs, AfterSecret)
  BY <1>44, ControlTyped DEF Replace, AfterSecret, AfterDocument, AfterRestore, Places, ResetPlaces, Replies
<1>45. CASE Start
  BY <1>45, ControlTyped DEF Start, Places, SetupPlaces, Installing, Undoing, UninstallPlaces, Leaving, Restoring, ResetPlaces, Replies
<1>46. CASE Replace("restore-document", "document", cli.backup.document, AfterDocument)
  BY <1>46, ControlTyped DEF Replace, AfterSecret, AfterDocument, AfterRestore, Places, ResetPlaces, Replies
<1>47. CASE Replace("restore-secret", "secret", cli.backup.secret, AfterRestore)
  BY <1>47, ControlTyped DEF Replace, AfterSecret, AfterDocument, AfterRestore, Places, ResetPlaces, Replies
<1>48. CASE RestoreService
  BY <1>48, ControlTyped DEF RestoreService, Places, SetupPlaces, Installing, Undoing, UninstallPlaces, Leaving, Restoring, ResetPlaces, Replies
<1>49. CASE ResetCallFails
  BY <1>49, ControlTyped DEF ResetCallFails, Places, SetupPlaces, Installing, Undoing, UninstallPlaces, Leaving, Restoring, ResetPlaces, Replies
<1>50. CASE Kill
  <2> DEFINE c == Ending("killed")
             c1 == [c EXCEPT !.faults = @ + 1]
             lost == c1.lost \/ (cli.command = "uninstall" /\ record.at = "none")
  <2>1. cli' = [c EXCEPT !.faults = @ + 1,
                         !.lost = @ \/ (cli.command = "uninstall" /\ record.at = "none")]
    BY <1>50 DEF Kill
  <2>2. c \in Commands
    BY EndingTyped DEF Replies
  <2> HIDE DEF c
  <2>3. c1 \in Commands
    BY <2>2, CommandUpdates
  <2>5. cli' = [c EXCEPT !.faults = c.faults + 1, !.lost = c.lost \/ (cli.command = "uninstall" /\ record.at = "none")]
    BY <2>1, <2>2 DEF Commands
  <2>6. cli' = [c1 EXCEPT !.lost = lost]
    <3>1. c1.lost = c.lost
      BY <2>2 DEF Commands
    <3> QED BY <2>2, <2>5, <3>1 DEF Commands
  <2> HIDE DEF c1
  <2>4. lost \in BOOLEAN
    BY <2>3 DEF Commands
  <2> HIDE DEF lost
  <2> QED BY <2>3, <2>4, <2>6, CommandUpdates
<1>51. CASE ServiceWrites
  BY <1>0, <1>51 DEF ServiceWrites
<1>52. CASE OperatorAddsDropIn
  BY <1>0, <1>52 DEF OperatorAddsDropIn
<1>53. CASE Reboot
  <2> DEFINE broken == cli.broken \/ Unjournaled
  <2>1. cli' = [cli EXCEPT !.answer = "rebooted", !.broken = broken]
    BY <1>0, <1>53 DEF Reboot, Commands
  <2>2. broken \in BOOLEAN
    BY <1>0 DEF Commands, Unjournaled
  <2> HIDE DEF broken
  <2> QED BY <1>0, <2>1, <2>2 DEF Commands, Replies
<1> QED BY <1>1, <1>2, <1>3, <1>4, <1>5, <1>6, <1>7, <1>8, <1>9, <1>10, <1>11, <1>12, <1>13, <1>14, <1>15, <1>16, <1>17, <1>18, <1>19, <1>20, <1>21, <1>22, <1>23, <1>24, <1>25, <1>26, <1>27, <1>28, <1>29, <1>30, <1>31, <1>32, <1>33, <1>34, <1>35, <1>36, <1>37, <1>38, <1>39, <1>40, <1>41, <1>42, <1>43, <1>44, <1>45, <1>46, <1>47, <1>48, <1>49, <1>50, <1>51, <1>52, <1>53
         DEF Next, SetupStep, UninstallStep, ResetStep

(* The record stays one.                                                   *)
LEMMA RecordTyped ==
  ASSUME Typed, Next
  PROVE  record' \in Records
<1>0. record \in Records /\ cli \in Commands /\ NoRecord \in Records
  BY DEF Typed, NoRecord, Records
<1>1. CASE WriteJournal
  BY <1>0, <1>1 DEF WriteJournal, FirstJournal, Journal, Records, Commands, Paths, Directories
<1>2. CASE TearJournal
  <2>1. FirstJournal \in Records
    BY <1>0 DEF FirstJournal, Journal, Records, Commands, Paths, Directories
  <2> QED BY <1>2, <2>1 DEF TearJournal, Records
<1>3. CASE MoveJournal
  BY <1>0, <1>3 DEF MoveJournal, Records
<1>4. CASE RecordPackage
  BY <1>0, <1>4 DEF RecordPackage, Records
<1>5. CASE RecordPath
  BY <1>0, <1>5, PathInOrder DEF RecordPath, Records, At
<1>6. CASE Try("record-reload", "reload", "reload")
  BY <1>0, <1>6 DEF Try, Records, Calls
<1>7. CASE Try("record-restart", "restart", "restart")
  BY <1>0, <1>7 DEF Try, Records, Calls
<1>8. CASE Try("record-enable", "enable", "enable")
  BY <1>0, <1>8 DEF Try, Records, Calls
<1>9. CASE FinishSetup
  BY <1>0, <1>9 DEF FinishSetup, Records
<1>10. CASE UndoRecord
  BY <1>0, <1>10 DEF UndoRecord, Records, Paths, Directories
<1>11. CASE StageRecord
  BY <1>0, <1>11 DEF StageRecord
<1>12. CASE Restore
  <2>1. record' = cli.saved \/ record' = record
    BY <1>12 DEF Restore
  <2> QED BY <1>0, <2>1 DEF Commands
<1>13. CASE UNCHANGED record
  BY <1>0, <1>13
<1> QED BY <1>1, <1>2, <1>3, <1>4, <1>5, <1>6, <1>7, <1>8, <1>9, <1>10, <1>11, <1>12, <1>13
         DEF Next, SetupStep, UninstallStep, ResetStep, AddPackage, AuthorizeUninstall, DeleteTree, Deleted, Disable, Enable, Kill, Reboot, MakeConfig, MakePath, OperatorAddsDropIn, PrepareReset, PrepareSetup, PrepareUninstall, ReadPassword, ReadSecrets, Reload, RemoveConfig, RemovePackage, RemovePath, Replace, ResetCallFails, Restart, RestoreEdge, RestorePackage, RestoreService, ServiceWrites, SetupCallFails, StagePath, Staged, Start, Stop, UndoEnable, UndoPackage, UndoReload, UndoRestart, UninstallCallFails, Unload

(* What depends on `output` alone stays what it is.                        *)
LEMMA SameHost ==
  ASSUME Next
  PROVE  /\ output' = output
         /\ Order' = Order /\ Managed' = Managed /\ CreationOrder' = CreationOrder
         /\ \A p : Parent(p)' = Parent(p)
         /\ \A p : Tree(p)' = Tree(p)
<1>1. output' = output
  BY DEF Next, SetupStep, UninstallStep, ResetStep, PrepareSetup, ReadSecrets, WriteJournal, TearJournal, MakeConfig, MoveJournal, RecordPackage, AddPackage, RecordPath, MakePath, Try, Reload, Restart, Enable, FinishSetup, UndoPackage, RemovePath, RemoveConfig, UndoRecord, UndoEnable, UndoReload, UndoRestart, SetupCallFails, PrepareUninstall, AuthorizeUninstall, Disable, RemovePackage, StageRecord, StagePath, Staged, Unload, Restore, RestorePackage, RestoreEdge, DeleteTree, Deleted, UninstallCallFails, PrepareReset, ReadPassword, Stop, Replace, Start, RestoreService, ResetCallFails, Kill, Reboot, ServiceWrites, OperatorAddsDropIn
<1>2. Order' = Order
  BY <1>1 DEF Order
<1>3. ASSUME NEW p PROVE Parent(p)' = Parent(p)
  BY <1>1 DEF Parent
<1>4. ASSUME NEW p PROVE Tree(p)' = Tree(p)
  BY <1>3 DEF Tree, Within
<1> QED BY <1>1, <1>2, <1>3, <1>4 DEF Managed, CreationOrder

(* The rest stays what it is.                                              *)
LEMMA HostTyped ==
  ASSUME Typed, Next
  PROVE  /\ output' \in BOOLEAN /\ guest' \in BOOLEAN /\ loaded' \in BOOLEAN /\ edge' \in BOOLEAN
         /\ disk' \in [Paths -> {"none", "ours", "theirs", "left"}]
         /\ bundle' \in {"none", "ours", "theirs", "other"}
         /\ dsh' \in {"stopped", "plain", "guarded"}
         /\ cred' \in Credential
<1>1. output' \in BOOLEAN
  BY SameHost DEF Typed
<1>2. disk' \in [Paths -> {"none", "ours", "theirs", "left"}]
  <2>1. CASE UNCHANGED disk
    BY <2>1 DEF Typed
  <2>2. CASE WriteJournal \/ TearJournal \/ UndoRecord
    BY <2>2 DEF Typed, WriteJournal, TearJournal, UndoRecord, GivenUp
  <2>3. CASE MakeConfig \/ RemoveConfig \/ ServiceWrites \/ MakePath \/ RemovePath
    BY <2>3 DEF Typed, MakeConfig, RemoveConfig, ServiceWrites, MakePath, RemovePath
  <2>4. CASE Restore \/ DeleteTree \/ UninstallCallFails \/ Kill
    BY <2>4 DEF Typed, Restore, DeleteTree, UninstallCallFails, Kill, Gone
  <2> QED BY <2>1, <2>2, <2>3, <2>4 DEF Next, SetupStep, UninstallStep, ResetStep, PrepareSetup, ReadSecrets, MoveJournal, RecordPackage, AddPackage, RecordPath, Try, Reload, Restart, Enable, FinishSetup, UndoPackage, UndoEnable, UndoReload, UndoRestart, SetupCallFails, PrepareUninstall, AuthorizeUninstall, Disable, RemovePackage, StageRecord, StagePath, Staged, Unload, Restore, RestorePackage, RestoreEdge, Deleted, UninstallCallFails, PrepareReset, ReadPassword, Stop, Replace, Start, RestoreService, ResetCallFails, Reboot, OperatorAddsDropIn
<1>3. guest' \in BOOLEAN
  BY DEF Typed, Gone, Next, SetupStep, UninstallStep, ResetStep, PrepareSetup, ReadSecrets, WriteJournal, TearJournal, MakeConfig, MoveJournal, RecordPackage, AddPackage, RecordPath, MakePath, Try, Reload, Restart, Enable, FinishSetup, UndoPackage, RemovePath, RemoveConfig, UndoRecord, UndoEnable, UndoReload, UndoRestart, SetupCallFails, PrepareUninstall, AuthorizeUninstall, Disable, RemovePackage, StageRecord, StagePath, Staged, Unload, Restore, RestorePackage, RestoreEdge, DeleteTree, Deleted, UninstallCallFails, PrepareReset, ReadPassword, Stop, Replace, Start, RestoreService, ResetCallFails, Kill, Reboot, ServiceWrites, OperatorAddsDropIn
<1>4. loaded' \in BOOLEAN
  BY DEF Typed, services, Reloaded, InPlace, Exists, Next, SetupStep, UninstallStep, ResetStep, PrepareSetup, ReadSecrets, WriteJournal, TearJournal, MakeConfig, MoveJournal, RecordPackage, AddPackage, RecordPath, MakePath, Try, Reload, Restart, Enable, FinishSetup, UndoPackage, RemovePath, RemoveConfig, UndoRecord, UndoEnable, UndoReload, UndoRestart, SetupCallFails, PrepareUninstall, AuthorizeUninstall, Disable, RemovePackage, StageRecord, StagePath, Staged, Unload, Restore, RestorePackage, RestoreEdge, DeleteTree, Deleted, UninstallCallFails, PrepareReset, ReadPassword, Stop, Replace, Start, RestoreService, ResetCallFails, Kill, Reboot, ServiceWrites, OperatorAddsDropIn
<1>5. edge' \in BOOLEAN
  BY DEF Typed, services, Exists, Next, SetupStep, UninstallStep, ResetStep, PrepareSetup, ReadSecrets, WriteJournal, TearJournal, MakeConfig, MoveJournal, RecordPackage, AddPackage, RecordPath, MakePath, Try, Reload, Restart, Enable, FinishSetup, UndoPackage, RemovePath, RemoveConfig, UndoRecord, UndoEnable, UndoReload, UndoRestart, SetupCallFails, PrepareUninstall, AuthorizeUninstall, Disable, RemovePackage, StageRecord, StagePath, Staged, Unload, Restore, RestorePackage, RestoreEdge, DeleteTree, Deleted, UninstallCallFails, PrepareReset, ReadPassword, Stop, Replace, Start, RestoreService, ResetCallFails, Kill, Reboot, ServiceWrites, OperatorAddsDropIn
<1>6. bundle' \in {"none", "ours", "theirs", "other"}
  BY DEF Typed, Next, SetupStep, UninstallStep, ResetStep, PrepareSetup, ReadSecrets, WriteJournal, TearJournal, MakeConfig, MoveJournal, RecordPackage, AddPackage, RecordPath, MakePath, Try, Reload, Restart, Enable, FinishSetup, UndoPackage, RemovePath, RemoveConfig, UndoRecord, UndoEnable, UndoReload, UndoRestart, SetupCallFails, PrepareUninstall, AuthorizeUninstall, Disable, RemovePackage, StageRecord, StagePath, Staged, Unload, Restore, RestorePackage, RestoreEdge, DeleteTree, Deleted, UninstallCallFails, PrepareReset, ReadPassword, Stop, Replace, Start, RestoreService, ResetCallFails, Kill, Reboot, ServiceWrites, OperatorAddsDropIn
<1>7. dsh' \in {"stopped", "plain", "guarded"}
  BY DEF Typed, services, Booted, Restored, Next, SetupStep, UninstallStep, ResetStep, PrepareSetup, ReadSecrets, WriteJournal, TearJournal, MakeConfig, MoveJournal, RecordPackage, AddPackage, RecordPath, MakePath, Try, Reload, Restart, Enable, FinishSetup, UndoPackage, RemovePath, RemoveConfig, UndoRecord, UndoEnable, UndoReload, UndoRestart, SetupCallFails, PrepareUninstall, AuthorizeUninstall, Disable, RemovePackage, StageRecord, StagePath, Staged, Unload, Restore, RestorePackage, RestoreEdge, DeleteTree, Deleted, UninstallCallFails, PrepareReset, ReadPassword, Stop, Replace, Start, RestoreService, ResetCallFails, Kill, Reboot, ServiceWrites, OperatorAddsDropIn
<1>8. cred' \in Credential
  <2>1. CASE UNCHANGED cred
    BY <2>1 DEF Typed
  <2>2. CASE MakePath
    BY <2>2 DEF MakePath, Typed, Credential
  <2>3. CASE \E place : \E field \in {"secret", "document"} : \E n \in Nat :
               cred' = [cred EXCEPT ![field] = n]
    BY <2>3 DEF Typed, Credential
  <2>4. cli.runs \in Nat /\ cli.backup.document \in Nat /\ cli.backup.secret \in Nat
    BY DEF Typed, Commands, Credential
  <2> QED BY <2>1, <2>2, <2>3, <2>4 DEF Replace, Next, SetupStep, UninstallStep, ResetStep, PrepareSetup, ReadSecrets, WriteJournal, TearJournal, MakeConfig, MoveJournal, RecordPackage, AddPackage, RecordPath, Try, Reload, Restart, Enable, FinishSetup, UndoPackage, RemovePath, RemoveConfig, UndoRecord, UndoEnable, UndoReload, UndoRestart, SetupCallFails, PrepareUninstall, AuthorizeUninstall, Disable, RemovePackage, StageRecord, StagePath, Staged, Unload, Restore, RestorePackage, RestoreEdge, DeleteTree, Deleted, UninstallCallFails, PrepareReset, ReadPassword, Stop, Replace, Start, RestoreService, ResetCallFails, Kill, Reboot, ServiceWrites, OperatorAddsDropIn
<1> QED BY <1>1, <1>2, <1>3, <1>4, <1>5, <1>6, <1>7, <1>8

(* A host without dsh-auth is typed.                                       *)
LEMMA TypedStart == Init => Typed
<1> SUFFICES ASSUME Init PROVE Typed
  OBVIOUS
<1>1. cred \in Credential /\ record \in Records
  BY DEF Init, Credential, Records, NoRecord
<1>2. cli \in Commands
  BY <1>1 DEF Init, Idle, Commands, Places, Replies, NoRecord, Records
<1>3. disk \in [Paths -> {"none", "ours", "theirs", "left"}]
  BY DEF Init
<1>4. cli.at = "idle"
  BY DEF Init, Idle
<1> QED BY <1>1, <1>2, <1>3, <1>4 DEF Init, Typed

(* Every step keeps the types.                                             *)
LEMMA TypedStep ==
  ASSUME Typed, Next
  PROVE  Typed'
<1>1. /\ cli'.at \in {"own", "make"} => cli'.i \in 1..Len(Order)
      /\ cli'.at = "undo-paths" => cli'.i \in 0..Len(Order)
  <2>1. Steps
    BY EveryStep
  <2>2. cli.i \in Nat /\ Len(Order) \in Nat \ {0}
    BY OrderLength DEF Typed, Commands
  <2>3. CASE PrepareSetupDoes
    BY <2>2, <2>3 DEF Typed, PrepareSetupDoes, Went, Moved, Over, OverBut, AtIdle, OnPath, OnNext, Began, Replaces, Resumed, Onward
  <2>4. CASE ReadSecretsDoes
    BY <2>2, <2>4 DEF Typed, ReadSecretsDoes, Went, Moved, Over, OverBut, AtIdle, OnPath, OnNext, Began, Replaces, Resumed, Onward
  <2>5. CASE WriteJournalDoes
    BY <2>2, <2>5 DEF Typed, WriteJournalDoes, Went, Moved, Over, OverBut, AtIdle, OnPath, OnNext, Began, Replaces, Resumed, Onward
  <2>6. CASE TearJournalDoes
    BY <2>2, <2>6 DEF Typed, TearJournalDoes, Went, Moved, Over, OverBut, AtIdle, OnPath, OnNext, Began, Replaces, Resumed, Onward
  <2>7. CASE MakeConfigDoes
    BY <2>2, <2>7 DEF Typed, MakeConfigDoes, Went, Moved, Over, OverBut, AtIdle, OnPath, OnNext, Began, Replaces, Resumed, Onward
  <2>8. CASE MoveJournalDoes
    BY <2>2, <2>8 DEF Typed, MoveJournalDoes, Went, Moved, Over, OverBut, AtIdle, OnPath, OnNext, Began, Replaces, Resumed, Onward
  <2>9. CASE RecordPackageDoes
    <3>1. cli'.i = 1 \/ cli'.at \notin {"own", "make", "undo-paths"}
      BY <2>9 DEF RecordPackageDoes, Went, Moved, OnPath
    <3>2. cli'.at # "undo-paths"
      BY <2>9 DEF RecordPackageDoes, Went, Moved, OnPath
    <3> QED BY <2>2, <3>1, <3>2
  <2>10. CASE AddPackageDoes
    <3>1. cli'.i = 1 \/ cli'.at \notin {"own", "make", "undo-paths"}
      BY <2>10 DEF AddPackageDoes, Went, Moved, OnPath
    <3>2. cli'.at # "undo-paths"
      BY <2>10 DEF AddPackageDoes, Went, Moved, OnPath
    <3> QED BY <2>2, <3>1, <3>2
  <2>11. CASE RecordPathDoes
    BY <2>2, <2>11 DEF Typed, RecordPathDoes, Went, Moved, Over, OverBut, AtIdle, OnPath, OnNext, Began, Replaces, Resumed, Onward
  <2>12. CASE MakePathDoes
    BY <2>2, <2>12 DEF Typed, MakePathDoes, Went, Moved, Over, OverBut, AtIdle, OnPath, OnNext, Began, Replaces, Resumed, Onward
  <2>13. CASE TryDoes("record-reload", "reload", "reload")
    BY <2>2, <2>13 DEF Typed, TryDoes, Went, Moved, Over, OverBut, AtIdle, OnPath, OnNext, Began, Replaces, Resumed, Onward
  <2>14. CASE ReloadDoes
    BY <2>2, <2>14 DEF Typed, ReloadDoes, Went, Moved, Over, OverBut, AtIdle, OnPath, OnNext, Began, Replaces, Resumed, Onward
  <2>15. CASE TryDoes("record-restart", "restart", "restart")
    BY <2>2, <2>15 DEF Typed, TryDoes, Went, Moved, Over, OverBut, AtIdle, OnPath, OnNext, Began, Replaces, Resumed, Onward
  <2>16. CASE RestartDoes
    BY <2>2, <2>16 DEF Typed, RestartDoes, Went, Moved, Over, OverBut, AtIdle, OnPath, OnNext, Began, Replaces, Resumed, Onward
  <2>17. CASE TryDoes("record-enable", "enable", "enable")
    BY <2>2, <2>17 DEF Typed, TryDoes, Went, Moved, Over, OverBut, AtIdle, OnPath, OnNext, Began, Replaces, Resumed, Onward
  <2>18. CASE EnableDoes
    BY <2>2, <2>18 DEF Typed, EnableDoes, Went, Moved, Over, OverBut, AtIdle, OnPath, OnNext, Began, Replaces, Resumed, Onward
  <2>19. CASE FinishSetupDoes
    BY <2>2, <2>19 DEF Typed, FinishSetupDoes, Went, Moved, Over, OverBut, AtIdle, OnPath, OnNext, Began, Replaces, Resumed, Onward
  <2>20. CASE UndoPackageDoes
    BY <2>2, <2>20 DEF Typed, UndoPackageDoes, Went, Moved, Over, OverBut, AtIdle, OnPath, OnNext, Began, Replaces, Resumed, Onward
  <2>21. CASE RemovePathDoes
    BY <2>2, <2>21 DEF Typed, RemovePathDoes, Went, Moved, Over, OverBut, AtIdle, OnPath, OnNext, Began, Replaces, Resumed, Onward
  <2>22. CASE RemoveConfigDoes
    BY <2>2, <2>22 DEF Typed, RemoveConfigDoes, Went, Moved, Over, OverBut, AtIdle, OnPath, OnNext, Began, Replaces, Resumed, Onward
  <2>23. CASE UndoRecordDoes
    BY <2>2, <2>23 DEF Typed, UndoRecordDoes, Went, Moved, Over, OverBut, AtIdle, OnPath, OnNext, Began, Replaces, Resumed, Onward
  <2>24. CASE UndoEnableDoes
    BY <2>2, <2>24 DEF Typed, UndoEnableDoes, Went, Moved, Over, OverBut, AtIdle, OnPath, OnNext, Began, Replaces, Resumed, Onward
  <2>25. CASE UndoReloadDoes
    BY <2>2, <2>25 DEF Typed, UndoReloadDoes, Went, Moved, Over, OverBut, AtIdle, OnPath, OnNext, Began, Replaces, Resumed, Onward
  <2>26. CASE UndoRestartDoes
    BY <2>2, <2>26 DEF Typed, UndoRestartDoes, Went, Moved, Over, OverBut, AtIdle, OnPath, OnNext, Began, Replaces, Resumed, Onward
  <2>27. CASE SetupCallFailsDoes
    BY <2>2, <2>27 DEF Typed, SetupCallFailsDoes, Went, Moved, Over, OverBut, AtIdle, OnPath, OnNext, Began, Replaces, Resumed, Onward
  <2>28. CASE PrepareUninstallDoes
    BY <2>2, <2>28 DEF Typed, PrepareUninstallDoes, Went, Moved, Over, OverBut, AtIdle, OnPath, OnNext, Began, Replaces, Resumed, Onward
  <2>29. CASE AuthorizeUninstallDoes
    BY <2>2, <2>29 DEF Typed, AuthorizeUninstallDoes, Went, Moved, Over, OverBut, AtIdle, OnPath, OnNext, Began, Replaces, Resumed, Onward
  <2>30. CASE DisableDoes
    BY <2>2, <2>30 DEF Typed, DisableDoes, Went, Moved, Over, OverBut, AtIdle, OnPath, OnNext, Began, Replaces, Resumed, Onward
  <2>31. CASE RemovePackageDoes
    BY <2>2, <2>31 DEF Typed, RemovePackageDoes, Went, Moved, Over, OverBut, AtIdle, OnPath, OnNext, Began, Replaces, Resumed, Onward
  <2>32. CASE StageRecordDoes
    BY <2>2, <2>32 DEF Typed, StageRecordDoes, Went, Moved, Over, OverBut, AtIdle, OnPath, OnNext, Began, Replaces, Resumed, Onward
  <2>33. CASE StagePathDoes
    BY <2>2, <2>33 DEF Typed, StagePathDoes, Went, Moved, Over, OverBut, AtIdle, OnPath, OnNext, Began, Replaces, Resumed, Onward
  <2>34. CASE StagedDoes
    BY <2>2, <2>34 DEF Typed, StagedDoes, Went, Moved, Over, OverBut, AtIdle, OnPath, OnNext, Began, Replaces, Resumed, Onward
  <2>35. CASE UnloadDoes
    BY <2>2, <2>35 DEF Typed, UnloadDoes, Went, Moved, Over, OverBut, AtIdle, OnPath, OnNext, Began, Replaces, Resumed, Onward
  <2>36. CASE RestoreDoes
    BY <2>2, <2>36 DEF Typed, RestoreDoes, Went, Moved, Over, OverBut, AtIdle, OnPath, OnNext, Began, Replaces, Resumed, Onward
  <2>37. CASE RestorePackageDoes
    BY <2>2, <2>37 DEF Typed, RestorePackageDoes, Went, Moved, Over, OverBut, AtIdle, OnPath, OnNext, Began, Replaces, Resumed, Onward
  <2>38. CASE RestoreEdgeDoes
    BY <2>2, <2>38 DEF Typed, RestoreEdgeDoes, Went, Moved, Over, OverBut, AtIdle, OnPath, OnNext, Began, Replaces, Resumed, Onward
  <2>39. CASE DeleteTreeDoes
    BY <2>2, <2>39 DEF Typed, DeleteTreeDoes, Went, Moved, Over, OverBut, AtIdle, OnPath, OnNext, Began, Replaces, Resumed, Onward
  <2>40. CASE DeletedDoes
    BY <2>2, <2>40 DEF Typed, DeletedDoes, Went, Moved, Over, OverBut, AtIdle, OnPath, OnNext, Began, Replaces, Resumed, Onward
  <2>41. CASE UninstallCallFailsDoes
    BY <2>2, <2>41 DEF Typed, UninstallCallFailsDoes, Went, Moved, Over, OverBut, AtIdle, OnPath, OnNext, Began, Replaces, Resumed, Onward
  <2>42. CASE PrepareResetDoes
    BY <2>2, <2>42 DEF Typed, PrepareResetDoes, Went, Moved, Over, OverBut, AtIdle, OnPath, OnNext, Began, Replaces, Resumed, Onward
  <2>43. CASE ReadPasswordDoes
    BY <2>2, <2>43 DEF Typed, ReadPasswordDoes, Went, Moved, Over, OverBut, AtIdle, OnPath, OnNext, Began, Replaces, Resumed, Onward
  <2>44. CASE StopDoes
    BY <2>2, <2>44 DEF Typed, StopDoes, Went, Moved, Over, OverBut, AtIdle, OnPath, OnNext, Began, Replaces, Resumed, Onward
  <2>45. CASE ReplaceDocumentDoes
    BY <2>2, <2>45 DEF Typed, ReplaceDocumentDoes, Went, Moved, Over, OverBut, AtIdle, OnPath, OnNext, Began, Replaces, Resumed, Onward
  <2>46. CASE ReplaceSecretDoes
    BY <2>2, <2>46 DEF Typed, ReplaceSecretDoes, Went, Moved, Over, OverBut, AtIdle, OnPath, OnNext, Began, Replaces, Resumed, Onward
  <2>47. CASE StartDoes
    BY <2>2, <2>47 DEF Typed, StartDoes, Went, Moved, Over, OverBut, AtIdle, OnPath, OnNext, Began, Replaces, Resumed, Onward
  <2>48. CASE RestoreDocumentDoes
    BY <2>2, <2>48 DEF Typed, RestoreDocumentDoes, Went, Moved, Over, OverBut, AtIdle, OnPath, OnNext, Began, Replaces, Resumed, Onward
  <2>49. CASE RestoreSecretDoes
    BY <2>2, <2>49 DEF Typed, RestoreSecretDoes, Went, Moved, Over, OverBut, AtIdle, OnPath, OnNext, Began, Replaces, Resumed, Onward
  <2>50. CASE RestoreServiceDoes
    BY <2>2, <2>50 DEF Typed, RestoreServiceDoes, Went, Moved, Over, OverBut, AtIdle, OnPath, OnNext, Began, Replaces, Resumed, Onward
  <2>51. CASE ResetCallFailsDoes
    BY <2>2, <2>51 DEF Typed, ResetCallFailsDoes, Went, Moved, Over, OverBut, AtIdle, OnPath, OnNext, Began, Replaces, Resumed, Onward
  <2>52. CASE KillDoes
    BY <2>2, <2>52 DEF Typed, KillDoes, Went, Moved, Over, OverBut, AtIdle, OnPath, OnNext, Began, Replaces, Resumed, Onward
  <2>53. CASE ServiceWritesDoes
    BY <2>2, <2>53 DEF Typed, ServiceWritesDoes, Went, Moved, Over, OverBut, AtIdle, OnPath, OnNext, Began, Replaces, Resumed, Onward
  <2>54. CASE OperatorAddsDropIn
    BY <2>2, <2>54 DEF Typed, OperatorAddsDropIn, Went, Moved, Over, OverBut, AtIdle, OnPath, OnNext, Began, Replaces, Resumed, Onward
  <2>55. CASE RebootDoes
    BY <2>2, <2>55 DEF Typed, RebootDoes, Went, Moved, Over, OverBut, AtIdle, OnPath, OnNext, Began, Replaces, Resumed, Onward
  <2> QED BY <2>1, <2>3, <2>4, <2>5, <2>6, <2>7, <2>8, <2>9, <2>10, <2>11, <2>12, <2>13, <2>14, <2>15, <2>16, <2>17, <2>18, <2>19, <2>20, <2>21, <2>22, <2>23, <2>24, <2>25, <2>26, <2>27, <2>28, <2>29, <2>30, <2>31, <2>32, <2>33, <2>34, <2>35, <2>36, <2>37, <2>38, <2>39, <2>40, <2>41, <2>42, <2>43, <2>44, <2>45, <2>46, <2>47, <2>48, <2>49, <2>50, <2>51, <2>52, <2>53, <2>54, <2>55 DEF Steps
<1> QED BY <1>1, SameHost, HostTyped, CommandTyped, RecordTyped DEF Typed

-----------------------------------------------------------------------------
(***************************************************************************)
(* The managed paths and what lies in what.                                *)
(***************************************************************************)
(* The paths of a system, in the order of creation.                        *)
LEMMA SystemPaths ==
  ASSUME ~output
  PROVE  /\ Order[1] = "caddyBinaryDirectory" /\ Order[2] = "systemdDropInDirectory"
         /\ Order[3] = "authStateDirectory" /\ Order[4] = "loginTokenDirectory"
         /\ Order[5] = "caddyBinary" /\ Order[6] = "sessionSecretFile"
         /\ Order[7] = "authStateFile" /\ Order[8] = "environmentFile"
         /\ Order[9] = "caddyfile" /\ Order[10] = "systemdDropInFile"
         /\ Order[11] = "caddyUnitFile" /\ Len(Order) = 11 /\ Order \in Seq(Paths)
BY DEF Order, SystemOrder, Paths, Directories

(* Those of an output directory.                                           *)
LEMMA OutputPaths ==
  ASSUME output
  PROVE  /\ Order[1] = "caddyStateDirectory" /\ Order[2] = "authStateDirectory"
         /\ Order[3] = "loginTokenDirectory" /\ Order[4] = "caddyBinary"
         /\ Order[5] = "sessionSecretFile" /\ Order[6] = "authStateFile"
         /\ Order[7] = "environmentFile" /\ Order[8] = "caddyfile"
         /\ Order[9] = "caddyUnitFile" /\ Len(Order) = 9 /\ Order \in Seq(Paths)
BY DEF Order, OutputOrder, Paths, Directories

(* The paths of the order of creation and the configuration directory are  *)
(* the managed ones.                                                       *)
LEMMA ManagedPaths ==
  /\ \A i \in 1..Len(Order) : Order[i] \in Managed \ {"configDirectory"}
  /\ \A p \in Managed \ {"configDirectory"} : \E i \in 1..Len(Order) : Order[i] = p
  /\ "configDirectory" \in Managed /\ Managed \subseteq Paths
  /\ ~output => Managed = Paths \ {"caddyStateDirectory"}
  /\ output => Managed = Paths \ {"caddyBinaryDirectory", "systemdDropInDirectory", "systemdDropInFile"}
<1>1. CASE output
  <2> DEFINE listed == {"caddyStateDirectory", "authStateDirectory", "loginTokenDirectory", "caddyBinary", "sessionSecretFile", "authStateFile", "environmentFile", "caddyfile", "caddyUnitFile"}
  <2>1. Len(Order) = 9 /\ Order \in Seq(Paths)
    BY <1>1, OutputPaths
  <2>2. \A i \in 1..9 : i = 1 \/ i = 2 \/ i = 3 \/ i = 4 \/ i = 5 \/ i = 6 \/ i = 7 \/ i = 8 \/ i = 9
    OBVIOUS
  <2>3. \A i \in 1..9 : Order[i] \in listed
    BY <1>1, <2>2, OutputPaths
  <2>4. \A p \in listed : \E i \in 1..9 : Order[i] = p
    BY <1>1, OutputPaths
  <2>5. ToSet(Order) = {Order[i] : i \in 1..9}
    BY <2>1 DEF ToSet
  <2>6. \A p : p \in ToSet(Order) <=> p \in listed
    BY ONLY <2>3, <2>4, <2>5
  <2>7. Managed = listed \cup {"configDirectory"}
    BY <2>6 DEF Managed
  <2>8. Managed = Paths \ {"caddyBinaryDirectory", "systemdDropInDirectory", "systemdDropInFile"}
    BY <2>7 DEF Paths, Directories
  <2>9. /\ \A i \in 1..Len(Order) : Order[i] \in Managed \ {"configDirectory"}
        /\ \A p \in Managed \ {"configDirectory"} : \E i \in 1..Len(Order) : Order[i] = p
    <3>1. "configDirectory" \notin listed
      OBVIOUS
    <3> HIDE DEF listed
    <3> QED BY <2>1, <2>3, <2>4, <2>7, <3>1
  <2> QED BY <1>1, <2>7, <2>8, <2>9
<1>2. CASE ~output
  <2> DEFINE listed == {"caddyBinaryDirectory", "systemdDropInDirectory", "authStateDirectory", "loginTokenDirectory", "caddyBinary", "sessionSecretFile", "authStateFile", "environmentFile", "caddyfile", "systemdDropInFile", "caddyUnitFile"}
  <2>1. Len(Order) = 11 /\ Order \in Seq(Paths)
    BY <1>2, SystemPaths
  <2>2. \A i \in 1..11 : i = 1 \/ i = 2 \/ i = 3 \/ i = 4 \/ i = 5 \/ i = 6 \/ i = 7 \/ i = 8 \/ i = 9 \/ i = 10 \/ i = 11
    OBVIOUS
  <2>3. \A i \in 1..11 : Order[i] \in listed
    BY <1>2, <2>2, SystemPaths
  <2>4. \A p \in listed : \E i \in 1..11 : Order[i] = p
    BY <1>2, SystemPaths
  <2>5. ToSet(Order) = {Order[i] : i \in 1..11}
    BY <2>1 DEF ToSet
  <2>6. \A p : p \in ToSet(Order) <=> p \in listed
    BY ONLY <2>3, <2>4, <2>5
  <2>7. Managed = listed \cup {"configDirectory"}
    BY <2>6 DEF Managed
  <2>8. Managed = Paths \ {"caddyStateDirectory"}
    BY <2>7 DEF Paths, Directories
  <2>9. /\ \A i \in 1..Len(Order) : Order[i] \in Managed \ {"configDirectory"}
        /\ \A p \in Managed \ {"configDirectory"} : \E i \in 1..Len(Order) : Order[i] = p
    <3>1. "configDirectory" \notin listed
      OBVIOUS
    <3> HIDE DEF listed
    <3> QED BY <2>1, <2>3, <2>4, <2>7, <3>1
  <2> QED BY <1>2, <2>7, <2>8, <2>9
<1> QED BY <1>1, <1>2

(* What lies in what on a system.                                          *)
LEMMA SystemTrees ==
  ASSUME ~output
  PROVE  /\ Tree("configDirectory") =
              {"configDirectory", "sessionSecretFile", "environmentFile", "caddyfile"}
         /\ Tree("authStateDirectory") = {"authStateDirectory", "loginTokenDirectory", "authStateFile"}
         /\ Tree("caddyBinaryDirectory") = {"caddyBinaryDirectory", "caddyBinary"}
         /\ Tree("systemdDropInDirectory") = {"systemdDropInDirectory", "systemdDropInFile"}
         /\ \A p \in Paths \ {"configDirectory", "authStateDirectory", "caddyBinaryDirectory",
                              "systemdDropInDirectory"} : Tree(p) = {p}
BY DEF Tree, Parent, Paths, Directories, Within

(* What lies in what below an output directory.                            *)
LEMMA OutputTrees ==
  ASSUME output
  PROVE  /\ Tree("configDirectory") = Paths
         /\ Tree("authStateDirectory") = {"authStateDirectory", "loginTokenDirectory", "authStateFile"}
         /\ \A p \in {"caddyStateDirectory", "loginTokenDirectory", "caddyBinaryDirectory", "caddyBinary",
                      "sessionSecretFile", "authStateFile", "environmentFile", "caddyfile", "caddyUnitFile"} :
              Tree(p) = {p}
BY DEF Tree, Parent, Paths, Directories, Within

(* The path at hand is a managed one.                                      *)
LEMMA PathManaged ==
  ASSUME Typed, cli.at \in {"own", "make"}
  PROVE  Path \in Managed \ {"configDirectory"}
BY ManagedPaths DEF Typed, Path

(* Once setup has moved its journal, the record is whole and in its place. *)
LEMMA WhileInstalling ==
  ASSUME RecordAt
  PROVE  cli.at \in {"package", "add-package", "own", "make", "record-reload", "reload",
                     "record-restart", "restart", "record-enable", "enable", "finish"} =>
           record.at = "final" /\ record.whole
BY DEF RecordAt, Installing

(* Nothing is in a directory that is not there.                            *)
LEMMA NothingInside ==
  ASSUME Nested, NEW q \in Paths, ~Exists(q), NEW p \in Tree(q) \ {q}
  PROVE  ~Exists(p)
<1>1. p \in Paths /\ "system" \notin Paths /\ Parent(p) \in Paths \cup {"system"}
  BY DEF Tree, Parent, Paths, Directories, Within
<1>2. CASE Parent(p) = q
  BY <1>1, <1>2 DEF Nested
<1>3. CASE Parent(p) # "system" /\ Parent(Parent(p)) = q
  BY <1>1, <1>3 DEF Nested
<1> QED BY <1>2, <1>3 DEF Tree, Within

(* An uninstall works on a record in its place.                            *)
LEMMA WhileUninstalling ==
  ASSUME SavedAt, cli.at \in {"authorize", "disable", "remove-package", "stage", "unload", "delete",
                              "restore", "restore-reload", "restore-package", "restore-edge"}
  PROVE  /\ cli.saved.at = "final" /\ cli.saved.whole /\ cli.saved.status # "none"
         /\ cli.saved.created \subseteq Managed
         /\ record = cli.saved \/ record = NoRecord
         /\ cli.aside \subseteq RemovalRoots /\ RemovalRoots \subseteq cli.saved.created
         /\ record # NoRecord => cli.aside = {}
         /\ cli.tried \subseteq {"package"}
         /\ "package" \in cli.tried => cli.saved.package
         /\ record.at # "bootstrap" /\ (record.at = "none" <=> record = NoRecord)
BY DEF SavedAt, UninstallPlaces, Leaving, Restoring, RemovalRoots, Recorded, NoRecord, Tree, Within

(* Only an uninstall has put anything aside.                               *)
LEMMA NothingAside ==
  ASSUME SavedAt, cli.at \notin {"stage", "unload", "delete", "restore", "restore-reload",
                                 "authorize", "disable", "remove-package",
                                 "restore-package", "restore-edge"}
  PROVE  cli.aside = {} /\ cli.saved = NoRecord
BY DEF SavedAt, UninstallPlaces, Leaving, Restoring

(* The configuration directory lies in no other managed path.              *)
LEMMA ConfigOutermost ==
  \A q \in Paths \ {"configDirectory"} : "configDirectory" \notin Tree(q)
BY DEF Tree, Parent, Paths, Directories, Within

(* What lies in something lies in all that it lies in.                     *)
LEMMA TreesNest ==
  \A q \in Paths, p \in Paths : Parent(p) \in Tree(q) => p \in Tree(q)
<1>1. ASSUME NEW p \in Paths, Parent(p) \in Paths, Parent(Parent(p)) \in Paths
      PROVE  Parent(Parent(Parent(p))) = "system"
  BY <1>1 DEF Parent, Paths, Directories
<1>2. \A p \in Paths : Parent(p) \in Paths \cup {"system"}
  BY DEF Parent, Paths, Directories
<1>3. "system" \notin Paths
  BY DEF Paths, Directories
<1> QED BY <1>1, <1>2, <1>3 DEF Tree, Within

(* Only directories hold anything, and a directory is made before what is  *)
(* in it.                                                                  *)
LEMMA ParentsFirst ==
  /\ \A p \in Paths : Parent(p) \in Directories \cup {"system"}
  /\ "system" \notin Paths /\ Directories \subseteq Paths
  /\ \A i \in 1..Len(Order) :
       Parent(Order[i]) \in {"system", "configDirectory"} \cup {Order[j] : j \in 1..(i - 1)}
<1>1. /\ \A p \in Paths : Parent(p) \in Directories \cup {"system"}
      /\ "system" \notin Paths /\ Directories \subseteq Paths
  BY DEF Parent, Paths, Directories
<1>2. CASE output
  <2>1. \A i \in 1..9 : i = 1 \/ i = 2 \/ i = 3 \/ i = 4 \/ i = 5 \/ i = 6 \/ i = 7 \/ i = 8 \/ i = 9
    OBVIOUS
  <2>2. \A i \in 1..9 : Parent(Order[i]) \in {"configDirectory", "authStateDirectory"}
    BY <1>2, <2>1, OutputPaths DEF Parent
  <2>3. \A i \in 1..9 : Parent(Order[i]) = "authStateDirectory" => i > 2
    BY <1>2, <2>1, OutputPaths DEF Parent
  <2>4. \A i \in 1..9 : i > 2 => Order[2] \in {Order[j] : j \in 1..(i - 1)}
    OBVIOUS
  <2> QED BY <1>1, <1>2, <2>2, <2>3, <2>4, OutputPaths
<1>3. CASE ~output
  <2>1. \A i \in 1..11 : i = 1 \/ i = 2 \/ i = 3 \/ i = 4 \/ i = 5 \/ i = 6 \/ i = 7 \/ i = 8 \/ i = 9 \/ i = 10 \/ i = 11
    OBVIOUS
  <2>2. \A i \in 1..11 : Parent(Order[i]) \in {"system", "configDirectory", Order[1], Order[2], Order[3]}
    BY <1>3, <2>1, SystemPaths DEF Parent
  <2>3. \A i \in 1..11 : Parent(Order[i]) \in {Order[1], Order[2], Order[3]} => i > 3
    BY <1>3, <2>1, SystemPaths DEF Parent
  <2>4. \A i \in 1..11 : i > 3 => {Order[1], Order[2], Order[3]} \subseteq {Order[j] : j \in 1..(i - 1)}
    OBVIOUS
  <2> QED BY <1>1, <1>3, <2>2, <2>3, <2>4, SystemPaths
<1> QED BY <1>1, <1>2, <1>3

(* The record that covers the host: an uninstall has read its own.         *)
LEMMA CoveringIs ==
  ASSUME Running, cli.at \in Places
  PROVE  Covering = IF cli.at \in UninstallPlaces THEN cli.saved ELSE record
BY DEF Running, Covering, At, Places, SetupPlaces, UninstallPlaces, ResetPlaces, Leaving, Restoring,
       Installing, Undoing

(* What an uninstall has recorded lies in one of the paths that it moves.  *)
LEMMA RootAbove ==
  ASSUME Nested, cli.saved.created \subseteq Paths, NEW p \in cli.saved.created, Exists(p)
  PROVE  \E root \in RemovalRoots : p \in Tree(root) /\ Exists(root)
<1>1. "system" \notin Paths /\ \A q \in Paths : Parent(q) \in Paths \cup {"system"}
  BY DEF Parent, Paths, Directories
<1>2. ASSUME NEW q \in Paths, Parent(q) \in Paths, Parent(Parent(q)) \in Paths
      PROVE  Parent(Parent(Parent(q))) = "system"
  BY <1>2 DEF Parent, Paths, Directories
<1>3. ASSUME NEW q \in Paths, NEW r \in Paths, q \in Tree(r), q # r, Exists(q)
      PROVE  /\ Parent(q) = r \/ (Parent(q) \in Paths /\ Parent(Parent(q)) = r)
             /\ Exists(r)
  BY <1>1, <1>3 DEF Tree, Nested, Within
<1>4. ASSUME NEW q \in cli.saved.created, q \notin RemovalRoots
      PROVE  \E r \in cli.saved.created : r # q /\ q \in Tree(r)
  BY <1>4 DEF RemovalRoots, Recorded, Tree, Within
<1>5. \A q \in Paths : q \in Tree(q)
  BY DEF Tree, Within
<1>6. SUFFICES ASSUME p \notin RemovalRoots
               PROVE  \E root \in RemovalRoots : p \in Tree(root) /\ Exists(root)
  BY <1>5
<1>7. PICK q \in cli.saved.created : q # p /\ p \in Tree(q)
  BY <1>4, <1>6
<1>8. Exists(q) /\ p \in Paths /\ q \in Paths
  BY <1>3, <1>7
<1>9. SUFFICES ASSUME q \notin RemovalRoots
               PROVE  \E root \in RemovalRoots : p \in Tree(root) /\ Exists(root)
  BY <1>7, <1>8
<1>10. PICK r \in cli.saved.created : r # q /\ q \in Tree(r)
  BY <1>4, <1>9
<1>11. /\ Parent(p) = q \/ (Parent(p) \in Paths /\ Parent(Parent(p)) = q)
       /\ Parent(q) = r \/ (Parent(q) \in Paths /\ Parent(Parent(q)) = r)
       /\ r \in Paths /\ Exists(r)
  BY <1>3, <1>7, <1>8, <1>10
<1>12. Parent(p) = q /\ Parent(q) = r /\ Parent(r) = "system"
  BY <1>1, <1>2, <1>8, <1>11
<1>13. p \in Tree(r)
  BY <1>1, <1>8, <1>11, <1>12 DEF Tree, Within
<1>14. r \in RemovalRoots
  BY <1>1, <1>3, <1>4, <1>11, <1>12
<1> QED BY <1>11, <1>13, <1>14

(* How the record that covers the host changes: only setup writes it; when *)
(* an uninstall ends, it is there again or gone.                           *)
LEMMA CoveringStep ==
  ASSUME Typed, Running, Running', SavedAt, SavedAt', Next
  PROVE  /\ cli.at \notin SetupPlaces =>
              Covering' = Covering \/ (cli'.at = "idle" /\ Covering' = NoRecord /\ cli.at \in UninstallPlaces)
         /\ cli.at \in SetupPlaces => Covering = record /\ Covering' = record'
         /\ cli'.at \notin UninstallPlaces => Covering' = record'
<1> USE DEF Moved, Went, Onward, Steady, Over, OverBut, AtIdle, OnPath, OnNext, Began, Others, services, Notes, Puts, Replaces, Resumed, SavedAt, SetupPlaces, Installing, Undoing, UninstallPlaces, Leaving, Restoring
<1>1. Steps
  BY EveryStep
<1>2. Typed' /\ output' = output
  BY TypedStep, SameHost
<1>3. Covering = (IF cli.at \in UninstallPlaces THEN cli.saved ELSE record)
  BY CoveringIs DEF Typed, Commands
<1>4. Covering' = (IF cli'.at \in UninstallPlaces THEN cli'.saved ELSE record')
  BY <1>2 DEF Typed, Commands, Running, Covering, At, Places, SetupPlaces, UninstallPlaces, ResetPlaces, Leaving, Restoring,
         Installing, Undoing
<1> HIDE DEF Covering
<1>5. CASE PrepareSetupDoes
  BY <1>2, <1>5, <1>3, <1>4 DEF PrepareSetupDoes
<1>6. CASE ReadSecretsDoes
  BY <1>2, <1>6, <1>3, <1>4 DEF ReadSecretsDoes
<1>7. CASE WriteJournalDoes
  BY <1>2, <1>7, <1>3, <1>4 DEF WriteJournalDoes
<1>8. CASE TearJournalDoes
  BY <1>2, <1>8, <1>3, <1>4 DEF TearJournalDoes
<1>9. CASE MakeConfigDoes
  BY <1>2, <1>9, <1>3, <1>4 DEF MakeConfigDoes
<1>10. CASE MoveJournalDoes
  BY <1>2, <1>10, <1>3, <1>4 DEF MoveJournalDoes
<1>11. CASE RecordPackageDoes
  BY <1>2, <1>11, <1>3, <1>4 DEF RecordPackageDoes
<1>12. CASE AddPackageDoes
  BY <1>2, <1>12, <1>3, <1>4 DEF AddPackageDoes
<1>13. CASE RecordPathDoes
  BY <1>2, <1>13, <1>3, <1>4 DEF RecordPathDoes
<1>14. CASE MakePathDoes
  BY <1>2, <1>14, <1>3, <1>4 DEF MakePathDoes
<1>15. CASE TryDoes("record-reload", "reload", "reload")
  BY <1>2, <1>15, <1>3, <1>4 DEF TryDoes
<1>16. CASE ReloadDoes
  BY <1>2, <1>16, <1>3, <1>4 DEF ReloadDoes
<1>17. CASE TryDoes("record-restart", "restart", "restart")
  BY <1>2, <1>17, <1>3, <1>4 DEF TryDoes
<1>18. CASE RestartDoes
  BY <1>2, <1>18, <1>3, <1>4 DEF RestartDoes
<1>19. CASE TryDoes("record-enable", "enable", "enable")
  BY <1>2, <1>19, <1>3, <1>4 DEF TryDoes
<1>20. CASE EnableDoes
  BY <1>2, <1>20, <1>3, <1>4 DEF EnableDoes
<1>21. CASE FinishSetupDoes
  BY <1>2, <1>21, <1>3, <1>4 DEF FinishSetupDoes
<1>22. CASE UndoPackageDoes
  BY <1>2, <1>22, <1>3, <1>4 DEF UndoPackageDoes
<1>23. CASE RemovePathDoes
  BY <1>2, <1>23, <1>3, <1>4 DEF RemovePathDoes
<1>24. CASE RemoveConfigDoes
  BY <1>2, <1>24, <1>3, <1>4 DEF RemoveConfigDoes
<1>25. CASE UndoRecordDoes
  BY <1>2, <1>25, <1>3, <1>4 DEF UndoRecordDoes
<1>26. CASE UndoEnableDoes
  BY <1>2, <1>26, <1>3, <1>4 DEF UndoEnableDoes
<1>27. CASE UndoReloadDoes
  BY <1>2, <1>27, <1>3, <1>4 DEF UndoReloadDoes
<1>28. CASE UndoRestartDoes
  BY <1>2, <1>28, <1>3, <1>4 DEF UndoRestartDoes
<1>29. CASE SetupCallFailsDoes
  BY <1>2, <1>29, <1>3, <1>4 DEF SetupCallFailsDoes
<1>30. CASE PrepareUninstallDoes
  BY <1>2, <1>30, <1>3, <1>4 DEF PrepareUninstallDoes
<1>31. CASE AuthorizeUninstallDoes
  BY <1>2, <1>31, <1>3, <1>4 DEF AuthorizeUninstallDoes
<1>32. CASE DisableDoes
  BY <1>2, <1>32, <1>3, <1>4 DEF DisableDoes
<1>33. CASE RemovePackageDoes
  BY <1>2, <1>33, <1>3, <1>4 DEF RemovePackageDoes
<1>34. CASE StageRecordDoes
  BY <1>2, <1>34, <1>3, <1>4 DEF StageRecordDoes
<1>35. CASE StagePathDoes
  BY <1>2, <1>35, <1>3, <1>4 DEF StagePathDoes
<1>36. CASE StagedDoes
  BY <1>2, <1>36, <1>3, <1>4 DEF StagedDoes
<1>37. CASE UnloadDoes
  BY <1>2, <1>37, <1>3, <1>4 DEF UnloadDoes
<1>38. CASE RestoreDoes
  BY <1>2, <1>38, <1>3, <1>4 DEF RestoreDoes
<1>39. CASE RestorePackageDoes
  BY <1>2, <1>39, <1>3, <1>4 DEF RestorePackageDoes
<1>40. CASE RestoreEdgeDoes
  BY <1>2, <1>40, <1>3, <1>4 DEF RestoreEdgeDoes
<1>41. CASE DeleteTreeDoes
  BY <1>2, <1>41, <1>3, <1>4 DEF DeleteTreeDoes
<1>42. CASE DeletedDoes
  BY <1>2, <1>42, <1>3, <1>4 DEF DeletedDoes
<1>43. CASE UninstallCallFailsDoes
  BY <1>2, <1>43, <1>3, <1>4 DEF UninstallCallFailsDoes
<1>44. CASE PrepareResetDoes
  BY <1>2, <1>44, <1>3, <1>4 DEF PrepareResetDoes
<1>45. CASE ReadPasswordDoes
  BY <1>2, <1>45, <1>3, <1>4 DEF ReadPasswordDoes
<1>46. CASE StopDoes
  BY <1>2, <1>46, <1>3, <1>4 DEF StopDoes
<1>47. CASE ReplaceDocumentDoes
  BY <1>2, <1>47, <1>3, <1>4 DEF ReplaceDocumentDoes
<1>48. CASE ReplaceSecretDoes
  BY <1>2, <1>48, <1>3, <1>4 DEF ReplaceSecretDoes
<1>49. CASE StartDoes
  BY <1>2, <1>49, <1>3, <1>4 DEF StartDoes
<1>50. CASE RestoreDocumentDoes
  BY <1>2, <1>50, <1>3, <1>4 DEF RestoreDocumentDoes
<1>51. CASE RestoreSecretDoes
  BY <1>2, <1>51, <1>3, <1>4 DEF RestoreSecretDoes
<1>52. CASE RestoreServiceDoes
  BY <1>2, <1>52, <1>3, <1>4 DEF RestoreServiceDoes
<1>53. CASE ResetCallFailsDoes
  BY <1>2, <1>53, <1>3, <1>4 DEF ResetCallFailsDoes
<1>54. CASE KillDoes
  BY <1>2, <1>54, <1>3, <1>4 DEF KillDoes
<1>55. CASE ServiceWritesDoes
  BY <1>2, <1>55, <1>3, <1>4 DEF ServiceWritesDoes
<1>56. CASE OperatorAddsDropIn
  BY <1>2, <1>56, <1>3, <1>4 DEF OperatorAddsDropIn
<1>57. CASE RebootDoes
  BY <1>2, <1>57, <1>3, <1>4 DEF RebootDoes
<1> QED BY <1>1, <1>5, <1>6, <1>7, <1>8, <1>9, <1>10, <1>11, <1>12, <1>13, <1>14, <1>15, <1>16, <1>17, <1>18, <1>19, <1>20, <1>21, <1>22, <1>23, <1>24, <1>25, <1>26, <1>27, <1>28, <1>29, <1>30, <1>31, <1>32, <1>33, <1>34, <1>35, <1>36, <1>37, <1>38, <1>39, <1>40, <1>41, <1>42, <1>43, <1>44, <1>45, <1>46, <1>47, <1>48, <1>49, <1>50, <1>51, <1>52, <1>53, <1>54, <1>55, <1>56, <1>57 DEF Steps

(* Nobody but setup puts anything of setup's on the host, and no step      *)
(* anything of somebody else's.                                            *)
LEMMA NothingAppears ==
  ASSUME Typed, Next
  PROVE  /\ \A p \in Paths : disk'[p] = "theirs" => disk[p] = "theirs"
         /\ cli.at \notin {"make", "make-config"} =>
              \A p \in Paths : disk'[p] = "ours" => disk[p] = "ours"
<1> USE DEF Moved, Went, Onward, Steady, Over, OverBut, AtIdle, OnPath, OnNext, Began, Others, services, Notes, Puts, Replaces, Resumed, Exists
<1>1. Steps
  BY EveryStep
<1>2. Typed' /\ output' = output
  BY TypedStep, SameHost
<1>3. CASE UNCHANGED <<disk>>
  BY <1>2, <1>3
<1>4. CASE WriteJournalDoes
  BY <1>2, <1>4 DEF WriteJournalDoes, GivenUp
<1>5. CASE TearJournalDoes
  BY <1>2, <1>5 DEF TearJournalDoes, GivenUp
<1>6. CASE MakeConfigDoes
  BY <1>2, <1>6 DEF MakeConfigDoes
<1>7. CASE MakePathDoes
  <2>1. CASE UNCHANGED disk
    BY <1>7, <2>1 DEF MakePathDoes
  <2>2. CASE Puts(Path, "ours")
    BY <1>7, <2>2 DEF MakePathDoes
  <2> QED BY <1>7, <2>1, <2>2 DEF MakePathDoes
<1>8. CASE RemovePathDoes
  <2>1. \E path \in Paths : disk'[path] \in {disk[path], "none"} /\ \A p \in Paths \ {path} : disk'[p] = disk[p]
    BY <1>8, ManagedPaths DEF RemovePathDoes, Typed
  <2> QED BY <2>1
<1>9. CASE RemoveConfigDoes
  BY <1>2, <1>9 DEF RemoveConfigDoes
<1>10. CASE UndoRecordDoes
  BY <1>2, <1>10 DEF UndoRecordDoes, GivenUp
<1>11. CASE RestoreDoes
  BY <1>2, <1>11 DEF RestoreDoes, Gone, Tree, Within
<1>12. CASE DeleteTreeDoes
  BY <1>2, <1>12 DEF DeleteTreeDoes, Gone, Tree, Within
<1>13. CASE UninstallCallFailsDoes
  BY <1>2, <1>13 DEF UninstallCallFailsDoes, Gone, Tree, Within
<1>14. CASE KillDoes
  BY <1>2, <1>14 DEF KillDoes, Gone, Tree, Within
<1>15. CASE ServiceWritesDoes
  BY <1>2, <1>15 DEF ServiceWritesDoes
<1> QED BY <1>1, <1>3, <1>4, <1>5, <1>6, <1>7, <1>8, <1>9, <1>10, <1>11, <1>12, <1>13, <1>14, <1>15 DEF Steps, PrepareSetupDoes, ReadSecretsDoes, MoveJournalDoes, RecordPackageDoes, AddPackageDoes, RecordPathDoes, TryDoes, ReloadDoes, RestartDoes, EnableDoes, FinishSetupDoes, UndoPackageDoes, UndoEnableDoes, UndoReloadDoes, UndoRestartDoes, SetupCallFailsDoes, PrepareUninstallDoes, AuthorizeUninstallDoes, DisableDoes, RemovePackageDoes, StageRecordDoes, StagePathDoes, StagedDoes, UnloadDoes, RestorePackageDoes, RestoreEdgeDoes, DeletedDoes, PrepareResetDoes, ReadPasswordDoes, StopDoes, ReplaceDocumentDoes, ReplaceSecretDoes, StartDoes, RestoreDocumentDoes, RestoreSecretDoes, RestoreServiceDoes, ResetCallFailsDoes, OperatorAddsDropIn, RebootDoes

(* What is lost stays lost.                                                *)
LEMMA LostStays ==
  ASSUME Typed, Next
  PROVE  cli.lost => cli'.lost
<1> USE DEF Moved, Went, Onward, Steady, Over, OverBut, AtIdle, OnPath, OnNext, Began, Others, services, Notes, Puts, Replaces, Resumed, Exists
<1>1. Steps
  BY EveryStep
<1>2. Typed' /\ output' = output
  BY TypedStep, SameHost
<1>3. CASE PrepareSetupDoes
  BY <1>2, <1>3 DEF PrepareSetupDoes
<1>4. CASE ReadSecretsDoes
  BY <1>2, <1>4 DEF ReadSecretsDoes
<1>5. CASE WriteJournalDoes
  BY <1>2, <1>5 DEF WriteJournalDoes
<1>6. CASE TearJournalDoes
  BY <1>2, <1>6 DEF TearJournalDoes
<1>7. CASE MakeConfigDoes
  BY <1>2, <1>7 DEF MakeConfigDoes
<1>8. CASE MoveJournalDoes
  BY <1>2, <1>8 DEF MoveJournalDoes
<1>9. CASE RecordPackageDoes
  BY <1>2, <1>9 DEF RecordPackageDoes
<1>10. CASE AddPackageDoes
  BY <1>2, <1>10 DEF AddPackageDoes
<1>11. CASE RecordPathDoes
  BY <1>2, <1>11 DEF RecordPathDoes
<1>12. CASE MakePathDoes
  BY <1>2, <1>12 DEF MakePathDoes
<1>13. CASE TryDoes("record-reload", "reload", "reload")
  BY <1>2, <1>13 DEF TryDoes
<1>14. CASE ReloadDoes
  BY <1>2, <1>14 DEF ReloadDoes
<1>15. CASE TryDoes("record-restart", "restart", "restart")
  BY <1>2, <1>15 DEF TryDoes
<1>16. CASE RestartDoes
  BY <1>2, <1>16 DEF RestartDoes
<1>17. CASE TryDoes("record-enable", "enable", "enable")
  BY <1>2, <1>17 DEF TryDoes
<1>18. CASE EnableDoes
  BY <1>2, <1>18 DEF EnableDoes
<1>19. CASE FinishSetupDoes
  BY <1>2, <1>19 DEF FinishSetupDoes
<1>20. CASE UndoPackageDoes
  BY <1>2, <1>20 DEF UndoPackageDoes
<1>21. CASE RemovePathDoes
  BY <1>2, <1>21 DEF RemovePathDoes
<1>22. CASE RemoveConfigDoes
  BY <1>2, <1>22 DEF RemoveConfigDoes
<1>23. CASE UndoRecordDoes
  BY <1>2, <1>23 DEF UndoRecordDoes
<1>24. CASE UndoEnableDoes
  BY <1>2, <1>24 DEF UndoEnableDoes
<1>25. CASE UndoReloadDoes
  BY <1>2, <1>25 DEF UndoReloadDoes
<1>26. CASE UndoRestartDoes
  BY <1>2, <1>26 DEF UndoRestartDoes
<1>27. CASE SetupCallFailsDoes
  BY <1>2, <1>27 DEF SetupCallFailsDoes
<1>28. CASE PrepareUninstallDoes
  BY <1>2, <1>28 DEF PrepareUninstallDoes
<1>29. CASE AuthorizeUninstallDoes
  BY <1>2, <1>29 DEF AuthorizeUninstallDoes
<1>30. CASE DisableDoes
  BY <1>2, <1>30 DEF DisableDoes
<1>31. CASE RemovePackageDoes
  BY <1>2, <1>31 DEF RemovePackageDoes
<1>32. CASE StageRecordDoes
  BY <1>2, <1>32 DEF StageRecordDoes
<1>33. CASE StagePathDoes
  BY <1>2, <1>33 DEF StagePathDoes
<1>34. CASE StagedDoes
  BY <1>2, <1>34 DEF StagedDoes
<1>35. CASE UnloadDoes
  BY <1>2, <1>35 DEF UnloadDoes
<1>36. CASE RestoreDoes
  BY <1>2, <1>36 DEF RestoreDoes
<1>37. CASE RestorePackageDoes
  BY <1>2, <1>37 DEF RestorePackageDoes
<1>38. CASE RestoreEdgeDoes
  BY <1>2, <1>38 DEF RestoreEdgeDoes
<1>39. CASE DeleteTreeDoes
  BY <1>2, <1>39 DEF DeleteTreeDoes
<1>40. CASE DeletedDoes
  BY <1>2, <1>40 DEF DeletedDoes
<1>41. CASE UninstallCallFailsDoes
  BY <1>2, <1>41 DEF UninstallCallFailsDoes
<1>42. CASE PrepareResetDoes
  BY <1>2, <1>42 DEF PrepareResetDoes
<1>43. CASE ReadPasswordDoes
  BY <1>2, <1>43 DEF ReadPasswordDoes
<1>44. CASE StopDoes
  BY <1>2, <1>44 DEF StopDoes
<1>45. CASE ReplaceDocumentDoes
  BY <1>2, <1>45 DEF ReplaceDocumentDoes
<1>46. CASE ReplaceSecretDoes
  BY <1>2, <1>46 DEF ReplaceSecretDoes
<1>47. CASE StartDoes
  BY <1>2, <1>47 DEF StartDoes
<1>48. CASE RestoreDocumentDoes
  BY <1>2, <1>48 DEF RestoreDocumentDoes
<1>49. CASE RestoreSecretDoes
  BY <1>2, <1>49 DEF RestoreSecretDoes
<1>50. CASE RestoreServiceDoes
  BY <1>2, <1>50 DEF RestoreServiceDoes
<1>51. CASE ResetCallFailsDoes
  BY <1>2, <1>51 DEF ResetCallFailsDoes
<1>52. CASE KillDoes
  BY <1>2, <1>52 DEF KillDoes
<1>53. CASE ServiceWritesDoes
  BY <1>2, <1>53 DEF ServiceWritesDoes
<1>54. CASE OperatorAddsDropIn
  BY <1>2, <1>54 DEF OperatorAddsDropIn
<1>55. CASE RebootDoes
  BY <1>2, <1>55 DEF RebootDoes
<1> QED BY <1>1, <1>3, <1>4, <1>5, <1>6, <1>7, <1>8, <1>9, <1>10, <1>11, <1>12, <1>13, <1>14, <1>15, <1>16, <1>17, <1>18, <1>19, <1>20, <1>21, <1>22, <1>23, <1>24, <1>25, <1>26, <1>27, <1>28, <1>29, <1>30, <1>31, <1>32, <1>33, <1>34, <1>35, <1>36, <1>37, <1>38, <1>39, <1>40, <1>41, <1>42, <1>43, <1>44, <1>45, <1>46, <1>47, <1>48, <1>49, <1>50, <1>51, <1>52, <1>53, <1>54, <1>55 DEF Steps

(* A host on which a setup was once finished stays one, until the edge and *)
(* everything else of it is uninstalled.                                   *)
LEMMA YoungStays ==
  ASSUME Typed, Running, Running', RecordShape, Bootstrapped, RecordAt, SavedAt, SavedAt', Nested, Next
  PROVE  Young' => Young \/ (DeletedDoes /\ dsh # "guarded" /\ ~cli.lost)
<1> USE DEF Moved, Went, Onward, Steady, Over, OverBut, AtIdle, OnPath, OnNext, Began, Others, services, Notes, Puts, Replaces, Resumed, Young, SetupPlaces, Installing, Undoing, UninstallPlaces, Leaving, Restoring, ResetPlaces
<1>1. Steps
  BY EveryStep
<1>2. Typed' /\ output' = output
  BY TypedStep, SameHost
<1>3. /\ cli.at \notin SetupPlaces =>
           Covering' = Covering \/ (cli'.at = "idle" /\ Covering' = NoRecord /\ cli.at \in UninstallPlaces)
      /\ cli.at \in SetupPlaces => Covering = record /\ Covering' = record'
      /\ cli'.at \notin UninstallPlaces => Covering' = record'
  BY CoveringStep
<1>5. NoRecord.package = FALSE /\ NoRecord.created = {} /\ NoRecord.at = "none" /\ NoRecord.tried = {} /\ NoRecord.status = "none"
  BY DEF NoRecord
<1>7. (cli.at \in UninstallPlaces => Covering = cli.saved) /\ (cli.at \notin UninstallPlaces => Covering = record)
  BY CoveringIs DEF Typed, Commands
<1>10. /\ cli.at \in UninstallPlaces => record = cli.saved \/ record = NoRecord
       /\ cli.at \in {"authorize", "disable", "remove-package"} => record = cli.saved /\ cli.tried = {}
       /\ cli.at \in {"restore-package", "restore-edge"} /\ record = NoRecord => cli.lost /\ cli.broken
       /\ cli.at \in {"unload", "delete", "restore-reload"} => record = NoRecord
       /\ cli.at \in UninstallPlaces /\ "package" \in cli.tried => cli.saved.package
       /\ cli.at \in UninstallPlaces => cli.tried \subseteq {"package"} /\ "enable" \notin cli.tried
       /\ cli.at \in UninstallPlaces => cli.saved.at = "final" /\ cli.saved.status # "none"
       /\ cli.at \notin UninstallPlaces => cli.saved = NoRecord /\ cli.aside = {}
  BY <1>5 DEF SavedAt
<1>11. /\ cli.at \in ResetPlaces => record.status = "installed" /\ cli.at \notin SetupPlaces /\ cli.at \notin UninstallPlaces
       /\ cli.at \in ResetPlaces => Covering = record
  BY <1>7 DEF RecordAt, ResetPlaces
<1> HIDE DEF Covering
<1>12. /\ cli.broken \in BOOLEAN /\ cli'.broken \in BOOLEAN
       /\ cli.at \in SetupPlaces => record.status # "installed"
       /\ cli.lost => cli'.lost
  BY <1>2, LostStays DEF Typed, Commands, RecordAt, Running
<1>13. CASE PrepareSetupDoes
  BY <1>2, <1>13, <1>3, <1>5, <1>7, <1>10, <1>11, <1>12 DEF PrepareSetupDoes
<1>14. CASE ReadSecretsDoes
  BY <1>2, <1>14, <1>3, <1>5, <1>7, <1>10, <1>11, <1>12 DEF ReadSecretsDoes, Bad
<1>15. CASE WriteJournalDoes
  BY <1>2, <1>15, <1>3, <1>5, <1>7, <1>10, <1>11, <1>12 DEF WriteJournalDoes
<1>16. CASE TearJournalDoes
  BY <1>2, <1>16, <1>3, <1>5, <1>7, <1>10, <1>11, <1>12 DEF TearJournalDoes, Bad
<1>17. CASE MakeConfigDoes
  BY <1>2, <1>17, <1>3, <1>5, <1>7, <1>10, <1>11, <1>12 DEF MakeConfigDoes
<1>18. CASE MoveJournalDoes
  BY <1>2, <1>18, <1>3, <1>5, <1>7, <1>10, <1>11, <1>12 DEF MoveJournalDoes
<1>19. CASE RecordPackageDoes
  BY <1>2, <1>19, <1>3, <1>5, <1>7, <1>10, <1>11, <1>12 DEF RecordPackageDoes
<1>20. CASE AddPackageDoes
  BY <1>2, <1>20, <1>3, <1>5, <1>7, <1>10, <1>11, <1>12 DEF AddPackageDoes
<1>21. CASE RecordPathDoes
  BY <1>2, <1>21, <1>3, <1>5, <1>7, <1>10, <1>11, <1>12 DEF RecordPathDoes
<1>22. CASE MakePathDoes
  BY <1>2, <1>22, <1>3, <1>5, <1>7, <1>10, <1>11, <1>12 DEF MakePathDoes
<1>23. CASE TryDoes("record-reload", "reload", "reload")
  BY <1>2, <1>23, <1>3, <1>5, <1>7, <1>10, <1>11, <1>12 DEF TryDoes
<1>24. CASE ReloadDoes
  BY <1>2, <1>24, <1>3, <1>5, <1>7, <1>10, <1>11, <1>12 DEF ReloadDoes
<1>25. CASE TryDoes("record-restart", "restart", "restart")
  BY <1>2, <1>25, <1>3, <1>5, <1>7, <1>10, <1>11, <1>12 DEF TryDoes
<1>26. CASE RestartDoes
  BY <1>2, <1>26, <1>3, <1>5, <1>7, <1>10, <1>11, <1>12 DEF RestartDoes
<1>27. CASE TryDoes("record-enable", "enable", "enable")
  BY <1>2, <1>27, <1>3, <1>5, <1>7, <1>10, <1>11, <1>12 DEF TryDoes
<1>28. CASE EnableDoes
  BY <1>2, <1>28, <1>3, <1>5, <1>7, <1>10, <1>11, <1>12 DEF EnableDoes
<1>29. CASE FinishSetupDoes
  BY <1>2, <1>29, <1>3, <1>5, <1>7, <1>10, <1>11, <1>12 DEF FinishSetupDoes
<1>30. CASE UndoPackageDoes
  BY <1>2, <1>30, <1>3, <1>5, <1>7, <1>10, <1>11, <1>12 DEF UndoPackageDoes, Bad
<1>31. CASE RemovePathDoes
  BY <1>2, <1>31, <1>3, <1>5, <1>7, <1>10, <1>11, <1>12 DEF RemovePathDoes
<1>32. CASE RemoveConfigDoes
  BY <1>2, <1>32, <1>3, <1>5, <1>7, <1>10, <1>11, <1>12 DEF RemoveConfigDoes
<1>33. CASE UndoRecordDoes
  BY <1>2, <1>33, <1>3, <1>5, <1>7, <1>10, <1>11, <1>12 DEF UndoRecordDoes
<1>34. CASE UndoEnableDoes
  BY <1>2, <1>34, <1>3, <1>5, <1>7, <1>10, <1>11, <1>12 DEF UndoEnableDoes, Bad
<1>35. CASE UndoReloadDoes
  BY <1>2, <1>35, <1>3, <1>5, <1>7, <1>10, <1>11, <1>12 DEF UndoReloadDoes, Bad
<1>36. CASE UndoRestartDoes
  BY <1>2, <1>36, <1>3, <1>5, <1>7, <1>10, <1>11, <1>12 DEF UndoRestartDoes, Bad
<1>37. CASE SetupCallFailsDoes
  BY <1>2, <1>37, <1>3, <1>5, <1>7, <1>10, <1>11, <1>12 DEF SetupCallFailsDoes, Bad
<1>38. CASE PrepareUninstallDoes
  BY <1>2, <1>38, <1>3, <1>5, <1>7, <1>10, <1>11, <1>12 DEF PrepareUninstallDoes
<1>39. CASE AuthorizeUninstallDoes
  BY <1>2, <1>39, <1>3, <1>5, <1>7, <1>10, <1>11, <1>12 DEF AuthorizeUninstallDoes, Bad
<1>40. CASE DisableDoes
  BY <1>2, <1>40, <1>3, <1>5, <1>7, <1>10, <1>11, <1>12 DEF DisableDoes
<1>41. CASE RemovePackageDoes
  BY <1>2, <1>41, <1>3, <1>5, <1>7, <1>10, <1>11, <1>12 DEF RemovePackageDoes
<1>42. CASE StageRecordDoes
  BY <1>2, <1>42, <1>3, <1>5, <1>7, <1>10, <1>11, <1>12 DEF StageRecordDoes
<1>43. CASE StagePathDoes
  BY <1>2, <1>43, <1>3, <1>5, <1>7, <1>10, <1>11, <1>12 DEF StagePathDoes
<1>44. CASE StagedDoes
  BY <1>2, <1>44, <1>3, <1>5, <1>7, <1>10, <1>11, <1>12 DEF StagedDoes
<1>45. CASE UnloadDoes
  BY <1>2, <1>45, <1>3, <1>5, <1>7, <1>10, <1>11, <1>12 DEF UnloadDoes
<1>46. CASE RestoreDoes
  BY <1>2, <1>46, <1>3, <1>5, <1>7, <1>10, <1>11, <1>12 DEF RestoreDoes
<1>47. CASE RestorePackageDoes
  BY <1>2, <1>47, <1>3, <1>5, <1>7, <1>10, <1>11, <1>12 DEF RestorePackageDoes
<1>48. CASE RestoreEdgeDoes
  BY <1>2, <1>48, <1>3, <1>5, <1>7, <1>10, <1>11, <1>12 DEF RestoreEdgeDoes, Bad
<1>49. CASE DeleteTreeDoes
  BY <1>2, <1>49, <1>3, <1>5, <1>7, <1>10, <1>11, <1>12 DEF DeleteTreeDoes
<1>50. CASE DeletedDoes
  BY <1>2, <1>50, <1>3, <1>5, <1>7, <1>10, <1>11, <1>12 DEF DeletedDoes, Bad
<1>51. CASE UninstallCallFailsDoes
  BY <1>2, <1>51, <1>3, <1>5, <1>7, <1>10, <1>11, <1>12 DEF UninstallCallFailsDoes, Bad, Told, Running, At
<1>52. CASE PrepareResetDoes
  BY <1>2, <1>52, <1>3, <1>5, <1>7, <1>10, <1>11, <1>12 DEF PrepareResetDoes
<1>53. CASE ReadPasswordDoes
  BY <1>2, <1>53, <1>3, <1>5, <1>7, <1>10, <1>11, <1>12 DEF ReadPasswordDoes, Bad
<1>54. CASE StopDoes
  BY <1>2, <1>54, <1>3, <1>5, <1>7, <1>10, <1>11, <1>12 DEF StopDoes
<1>55. CASE ReplaceDocumentDoes
  BY <1>2, <1>55, <1>3, <1>5, <1>7, <1>10, <1>11, <1>12 DEF ReplaceDocumentDoes
<1>56. CASE ReplaceSecretDoes
  BY <1>2, <1>56, <1>3, <1>5, <1>7, <1>10, <1>11, <1>12 DEF ReplaceSecretDoes, Bad
<1>57. CASE StartDoes
  BY <1>2, <1>57, <1>3, <1>5, <1>7, <1>10, <1>11, <1>12 DEF StartDoes, Bad
<1>58. CASE RestoreDocumentDoes
  BY <1>2, <1>58, <1>3, <1>5, <1>7, <1>10, <1>11, <1>12 DEF RestoreDocumentDoes
<1>59. CASE RestoreSecretDoes
  BY <1>2, <1>59, <1>3, <1>5, <1>7, <1>10, <1>11, <1>12 DEF RestoreSecretDoes, Bad
<1>60. CASE RestoreServiceDoes
  BY <1>2, <1>60, <1>3, <1>5, <1>7, <1>10, <1>11, <1>12 DEF RestoreServiceDoes, Bad
<1>61. CASE ResetCallFailsDoes
  BY <1>2, <1>61, <1>3, <1>5, <1>7, <1>10, <1>11, <1>12 DEF ResetCallFailsDoes, Bad
<1>62. CASE KillDoes
  BY <1>2, <1>62, <1>3, <1>5, <1>7, <1>10, <1>11, <1>12 DEF KillDoes, Bad, Told, Running, At
<1>63. CASE ServiceWritesDoes
  BY <1>2, <1>63, <1>3, <1>5, <1>7, <1>10, <1>11, <1>12 DEF ServiceWritesDoes
<1>64. CASE OperatorAddsDropIn
  BY <1>2, <1>64, <1>3, <1>5, <1>7, <1>10, <1>11, <1>12 DEF OperatorAddsDropIn
<1>65. CASE RebootDoes
  BY <1>2, <1>65, <1>3, <1>5, <1>7, <1>10, <1>11, <1>12 DEF RebootDoes
<1> QED BY <1>1, <1>13, <1>14, <1>15, <1>16, <1>17, <1>18, <1>19, <1>20, <1>21, <1>22, <1>23, <1>24, <1>25, <1>26, <1>27, <1>28, <1>29, <1>30, <1>31, <1>32, <1>33, <1>34, <1>35, <1>36, <1>37, <1>38, <1>39, <1>40, <1>41, <1>42, <1>43, <1>44, <1>45, <1>46, <1>47, <1>48, <1>49, <1>50, <1>51, <1>52, <1>53, <1>54, <1>55, <1>56, <1>57, <1>58, <1>59, <1>60, <1>61, <1>62, <1>63, <1>64, <1>65 DEF Steps

-----------------------------------------------------------------------------
(***************************************************************************)
(* The parts of the invariant, each kept by every step.                    *)
(***************************************************************************)
(* Each place belongs to its command, step after step.                     *)
LEMMA RunningStep ==
  ASSUME Typed, Running, Next
  PROVE  Running'
<1> USE DEF Moved, Went, Onward, Steady, Over, OverBut, AtIdle, OnPath, OnNext, Began, Others, services, Notes, Replaces, Resumed, Running, Readable, SetupPlaces, Installing, Undoing, UninstallPlaces, Leaving, Restoring, ResetPlaces
<1>1. Steps
  BY EveryStep
<1>2. Typed' /\ output' = output
  BY TypedStep, SameHost
<1>3. CASE PrepareSetupDoes
  BY <1>2, <1>3 DEF PrepareSetupDoes
<1>4. CASE ReadSecretsDoes
  BY <1>2, <1>4 DEF ReadSecretsDoes
<1>5. CASE WriteJournalDoes
  BY <1>2, <1>5 DEF WriteJournalDoes
<1>6. CASE TearJournalDoes
  BY <1>2, <1>6 DEF TearJournalDoes
<1>7. CASE MakeConfigDoes
  BY <1>2, <1>7 DEF MakeConfigDoes
<1>8. CASE MoveJournalDoes
  BY <1>2, <1>8 DEF MoveJournalDoes
<1>9. CASE RecordPackageDoes
  BY <1>2, <1>9 DEF RecordPackageDoes
<1>10. CASE AddPackageDoes
  BY <1>2, <1>10 DEF AddPackageDoes
<1>11. CASE RecordPathDoes
  BY <1>2, <1>11 DEF RecordPathDoes
<1>12. CASE MakePathDoes
  BY <1>2, <1>12 DEF MakePathDoes
<1>13. CASE TryDoes("record-reload", "reload", "reload")
  BY <1>2, <1>13 DEF TryDoes
<1>14. CASE ReloadDoes
  BY <1>2, <1>14 DEF ReloadDoes
<1>15. CASE TryDoes("record-restart", "restart", "restart")
  BY <1>2, <1>15 DEF TryDoes
<1>16. CASE RestartDoes
  BY <1>2, <1>16 DEF RestartDoes
<1>17. CASE TryDoes("record-enable", "enable", "enable")
  BY <1>2, <1>17 DEF TryDoes
<1>18. CASE EnableDoes
  BY <1>2, <1>18 DEF EnableDoes
<1>19. CASE FinishSetupDoes
  BY <1>2, <1>19 DEF FinishSetupDoes
<1>20. CASE UndoPackageDoes
  BY <1>2, <1>20 DEF UndoPackageDoes
<1>21. CASE RemovePathDoes
  BY <1>2, <1>21 DEF RemovePathDoes
<1>22. CASE RemoveConfigDoes
  BY <1>2, <1>22 DEF RemoveConfigDoes
<1>23. CASE UndoRecordDoes
  BY <1>2, <1>23 DEF UndoRecordDoes
<1>24. CASE UndoEnableDoes
  BY <1>2, <1>24 DEF UndoEnableDoes
<1>25. CASE UndoReloadDoes
  BY <1>2, <1>25 DEF UndoReloadDoes
<1>26. CASE UndoRestartDoes
  BY <1>2, <1>26 DEF UndoRestartDoes
<1>27. CASE SetupCallFailsDoes
  BY <1>2, <1>27 DEF SetupCallFailsDoes
<1>28. CASE PrepareUninstallDoes
  BY <1>2, <1>28 DEF PrepareUninstallDoes
<1>29. CASE AuthorizeUninstallDoes
  BY <1>2, <1>29 DEF AuthorizeUninstallDoes
<1>30. CASE DisableDoes
  <2>1. cli.command = "uninstall" /\ ~output
    BY <1>30 DEF DisableDoes
  <2>2. cli'.at \in {"remove-package", "restore"} /\ cli'.command = cli.command /\ output' = output
    BY <1>30 DEF DisableDoes
  <2> QED BY <2>1, <2>2
<1>31. CASE RemovePackageDoes
  BY <1>2, <1>31 DEF RemovePackageDoes
<1>32. CASE StageRecordDoes
  BY <1>2, <1>32 DEF StageRecordDoes
<1>33. CASE StagePathDoes
  BY <1>2, <1>33 DEF StagePathDoes
<1>34. CASE StagedDoes
  BY <1>2, <1>34 DEF StagedDoes
<1>35. CASE UnloadDoes
  BY <1>2, <1>35 DEF UnloadDoes
<1>36. CASE RestoreDoes
  BY <1>2, <1>36 DEF RestoreDoes
<1>37. CASE RestorePackageDoes
  BY <1>2, <1>37 DEF RestorePackageDoes
<1>38. CASE RestoreEdgeDoes
  BY <1>2, <1>38 DEF RestoreEdgeDoes
<1>39. CASE DeleteTreeDoes
  BY <1>2, <1>39 DEF DeleteTreeDoes
<1>40. CASE DeletedDoes
  BY <1>2, <1>40 DEF DeletedDoes
<1>41. CASE UninstallCallFailsDoes
  BY <1>2, <1>41 DEF UninstallCallFailsDoes
<1>42. CASE PrepareResetDoes
  BY <1>2, <1>42 DEF PrepareResetDoes
<1>43. CASE ReadPasswordDoes
  BY <1>2, <1>43 DEF ReadPasswordDoes
<1>44. CASE StopDoes
  BY <1>2, <1>44 DEF StopDoes
<1>45. CASE ReplaceDocumentDoes
  BY <1>2, <1>45 DEF ReplaceDocumentDoes
<1>46. CASE ReplaceSecretDoes
  BY <1>2, <1>46 DEF ReplaceSecretDoes
<1>47. CASE StartDoes
  BY <1>2, <1>47 DEF StartDoes
<1>48. CASE RestoreDocumentDoes
  BY <1>2, <1>48 DEF RestoreDocumentDoes
<1>49. CASE RestoreSecretDoes
  BY <1>2, <1>49 DEF RestoreSecretDoes
<1>50. CASE RestoreServiceDoes
  BY <1>2, <1>50 DEF RestoreServiceDoes
<1>51. CASE ResetCallFailsDoes
  BY <1>2, <1>51 DEF ResetCallFailsDoes
<1>52. CASE KillDoes
  BY <1>2, <1>52 DEF KillDoes
<1>53. CASE ServiceWritesDoes
  BY <1>2, <1>53 DEF ServiceWritesDoes
<1>54. CASE OperatorAddsDropIn
  BY <1>2, <1>54 DEF OperatorAddsDropIn
<1>55. CASE RebootDoes
  BY <1>2, <1>55 DEF RebootDoes
<1> QED BY <1>1, <1>3, <1>4, <1>5, <1>6, <1>7, <1>8, <1>9, <1>10, <1>11, <1>12, <1>13, <1>14, <1>15, <1>16, <1>17, <1>18, <1>19, <1>20, <1>21, <1>22, <1>23, <1>24, <1>25, <1>26, <1>27, <1>28, <1>29, <1>30, <1>31, <1>32, <1>33, <1>34, <1>35, <1>36, <1>37, <1>38, <1>39, <1>40, <1>41, <1>42, <1>43, <1>44, <1>45, <1>46, <1>47, <1>48, <1>49, <1>50, <1>51, <1>52, <1>53, <1>54, <1>55 DEF Steps

(* The ownership record keeps its shape.                                   *)
LEMMA RecordShapeStep ==
  ASSUME Typed, RecordShape, RecordAt, SavedAt, OutputAt, Next
  PROVE  RecordShape'
<1> USE DEF Moved, Went, Onward, Steady, Over, OverBut, AtIdle, OnPath, OnNext, Began, Others, services, Notes, Replaces, Resumed, RecordShape, NothingClaimed
<1>1. Steps
  BY EveryStep
<1>2. Typed' /\ output' = output
  BY TypedStep, SameHost
<1>3. Managed' = Managed
  BY SameHost
<1>4. CASE UNCHANGED <<record>>
  BY <1>2, <1>4, <1>3
<1>5. CASE WriteJournalDoes
  BY <1>2, <1>5, <1>3, ManagedPaths DEF WriteJournalDoes, FirstJournal, Journal
<1>6. CASE TearJournalDoes
  BY <1>2, <1>6, <1>3, ManagedPaths DEF TearJournalDoes, FirstJournal, Journal
<1>7. CASE MoveJournalDoes
  <2>1. record.at = "bootstrap" /\ record.whole /\ record'.whole = record.whole
    BY <1>7 DEF MoveJournalDoes, RecordAt
  <2> QED BY <1>3, <1>7, <2>1 DEF MoveJournalDoes
<1>8. CASE RecordPackageDoes
  <2>1. record.at = "final" /\ record.whole
    BY <1>8, WhileInstalling DEF RecordPackageDoes
  <2> QED BY <1>3, <1>8, <2>1 DEF RecordPackageDoes
<1>9. CASE RecordPathDoes
  <2>1. record.at = "final" /\ record.whole
    BY <1>9, WhileInstalling DEF RecordPathDoes
  <2> QED BY <1>3, <1>9, <2>1, PathManaged DEF RecordPathDoes
<1>10. CASE TryDoes("record-reload", "reload", "reload")
  <2>1. record.at = "final" /\ record.whole
    BY <1>10, WhileInstalling DEF TryDoes
  <2> QED BY <1>3, <1>10, <2>1 DEF TryDoes
<1>11. CASE TryDoes("record-restart", "restart", "restart")
  <2>1. record.at = "final" /\ record.whole
    BY <1>11, WhileInstalling DEF TryDoes
  <2> QED BY <1>3, <1>11, <2>1 DEF TryDoes
<1>12. CASE TryDoes("record-enable", "enable", "enable")
  <2>1. record.at = "final" /\ record.whole
    BY <1>12, WhileInstalling DEF TryDoes
  <2> QED BY <1>3, <1>12, <2>1 DEF TryDoes
<1>13. CASE FinishSetupDoes
  <2>1. record.at = "final" /\ record.whole
    BY <1>13, WhileInstalling DEF FinishSetupDoes
  <2> QED BY <1>3, <1>13, <2>1 DEF FinishSetupDoes
<1>14. CASE UndoRecordDoes
  BY <1>2, <1>14, <1>3, ManagedPaths DEF UndoRecordDoes, NoRecord
<1>15. CASE StageRecordDoes
  BY <1>2, <1>15, <1>3, ManagedPaths DEF StageRecordDoes, NoRecord
<1>16. CASE RestoreDoes
  <2>1. record' = cli.saved \/ record' = record
    BY <1>16 DEF RestoreDoes
  <2>2. cli.saved.at = "final" /\ cli.saved.whole /\ cli.saved.status # "none"
        /\ cli.saved.created \subseteq Managed
    BY <1>16 DEF RestoreDoes, SavedAt, UninstallPlaces, Restoring
  <2> QED BY <1>3, <2>1, <2>2
<1> QED BY <1>1, <1>4, <1>5, <1>6, <1>7, <1>8, <1>9, <1>10, <1>11, <1>12, <1>13, <1>14, <1>15, <1>16 DEF Steps, PrepareSetupDoes, ReadSecretsDoes, MakeConfigDoes, AddPackageDoes, MakePathDoes, ReloadDoes, RestartDoes, EnableDoes, UndoPackageDoes, RemovePathDoes, RemoveConfigDoes, UndoEnableDoes, UndoReloadDoes, UndoRestartDoes, SetupCallFailsDoes, PrepareUninstallDoes, AuthorizeUninstallDoes, DisableDoes, RemovePackageDoes, StagePathDoes, StagedDoes, UnloadDoes, RestorePackageDoes, RestoreEdgeDoes, DeleteTreeDoes, DeletedDoes, UninstallCallFailsDoes, PrepareResetDoes, ReadPasswordDoes, StopDoes, ReplaceDocumentDoes, ReplaceSecretDoes, StartDoes, RestoreDocumentDoes, RestoreSecretDoes, RestoreServiceDoes, ResetCallFailsDoes, KillDoes, ServiceWritesDoes, OperatorAddsDropIn, RebootDoes

(* Beside the configuration directory, the record covers nothing else.     *)
LEMMA BootstrappedStep ==
  ASSUME Typed, RecordShape, Bootstrapped, RecordAt, SavedAt, OutputAt, Nested, Next
  PROVE  Bootstrapped'
<1> USE DEF Moved, Went, Onward, Steady, Over, OverBut, AtIdle, OnPath, OnNext, Began, Others, services, Notes, Puts, Replaces, Resumed, Bootstrapped, Exists
<1>1. Steps
  BY EveryStep
<1>2. Typed' /\ output' = output
  BY TypedStep, SameHost
<1>3. Managed' = Managed
  BY SameHost
<1>4. Tree("configDirectory")' = Tree("configDirectory")
  BY SameHost
<1>5. CASE UNCHANGED <<record, disk>>
  BY <1>2, <1>5, <1>3, <1>4
<1>6. CASE WriteJournalDoes
  <2>1. CASE Exists("configDirectory")
    BY <1>6, <2>1 DEF WriteJournalDoes, FirstJournal, Journal
  <2>2. CASE ~Exists("configDirectory")
    <3>1. disk["configDirectory"] = "none" /\ "configDirectory" \in Paths
      BY <2>2 DEF Exists, Paths, Directories
    <3>2. \A p \in Paths : disk'[p] = disk[p]
      BY <1>6, <3>1 DEF WriteJournalDoes, GivenUp
    <3>3. \A p \in Tree("configDirectory") : disk'[p] = disk[p]
      BY <3>2 DEF Tree, Within
    <3>4. \A p \in Tree("configDirectory") \ {"configDirectory"} : ~Exists(p)
      BY <2>2, <3>1, NothingInside
    <3> QED BY <1>4, <3>1, <3>2, <3>3, <3>4 DEF Exists
  <2> QED BY <2>1, <2>2
<1>7. CASE TearJournalDoes
  <2>1. CASE Exists("configDirectory")
    BY <1>7, <2>1 DEF TearJournalDoes, FirstJournal, Journal
  <2>2. CASE ~Exists("configDirectory")
    <3>1. disk["configDirectory"] = "none" /\ "configDirectory" \in Paths
      BY <2>2 DEF Exists, Paths, Directories
    <3>2. \A p \in Paths : disk'[p] = disk[p]
      BY <1>7, <3>1 DEF TearJournalDoes, GivenUp
    <3>3. \A p \in Tree("configDirectory") : disk'[p] = disk[p]
      BY <3>2 DEF Tree, Within
    <3>4. \A p \in Tree("configDirectory") \ {"configDirectory"} : ~Exists(p)
      BY <2>2, <3>1, NothingInside
    <3> QED BY <1>4, <3>1, <3>2, <3>3, <3>4 DEF Exists
  <2> QED BY <2>1, <2>2
<1>8. CASE MakeConfigDoes
  <2>1. \A p \in Tree("configDirectory") \ {"configDirectory"} : disk'[p] = disk[p]
    BY <1>8 DEF MakeConfigDoes, Tree, Within
  <2> QED BY <1>8, <2>1, <1>3, <1>4 DEF Exists, MakeConfigDoes
<1>9. CASE MoveJournalDoes
  BY <1>2, <1>9, <1>3, <1>4 DEF MoveJournalDoes
<1>10. CASE RecordPackageDoes
  <2>1. record.at = "final"
    BY <1>10, WhileInstalling DEF RecordPackageDoes
  <2> QED BY <1>10, <2>1 DEF RecordPackageDoes
<1>11. CASE RecordPathDoes
  <2>1. record.at = "final"
    BY <1>11, WhileInstalling DEF RecordPathDoes
  <2> QED BY <1>11, <2>1 DEF RecordPathDoes
<1>12. CASE MakePathDoes
  <2>1. record.at = "final"
    BY <1>12, WhileInstalling DEF MakePathDoes
  <2> QED BY <1>12, <2>1 DEF MakePathDoes
<1>13. CASE TryDoes("record-reload", "reload", "reload")
  <2>1. record.at = "final"
    BY <1>13, WhileInstalling DEF TryDoes
  <2> QED BY <1>13, <2>1 DEF TryDoes
<1>14. CASE TryDoes("record-restart", "restart", "restart")
  <2>1. record.at = "final"
    BY <1>14, WhileInstalling DEF TryDoes
  <2> QED BY <1>14, <2>1 DEF TryDoes
<1>15. CASE TryDoes("record-enable", "enable", "enable")
  <2>1. record.at = "final"
    BY <1>15, WhileInstalling DEF TryDoes
  <2> QED BY <1>15, <2>1 DEF TryDoes
<1>16. CASE FinishSetupDoes
  <2>1. record.at = "final"
    BY <1>16, WhileInstalling DEF FinishSetupDoes
  <2> QED BY <1>16, <2>1 DEF FinishSetupDoes
<1>17. CASE RemovePathDoes
  <2>1. CASE record.at = "bootstrap"
    <3>1. record.created = {"configDirectory"}
      BY <2>1 DEF RecordShape
    <3>2. PICK i \in 1..cli.i : Order[i] \in record.created
      BY <1>17 DEF RemovePathDoes
    <3>3. i \in 1..Len(Order)
      BY <1>17, <3>2, OrderLength DEF RemovePathDoes, Typed, Commands
    <3> QED BY <3>1, <3>2, <3>3, ManagedPaths
  <2>2. CASE record.at # "bootstrap"
    BY <1>17, <2>2 DEF RemovePathDoes
  <2> QED BY <2>1, <2>2
<1>18. CASE RemoveConfigDoes
  <2>1. \A p \in Tree("configDirectory") \ {"configDirectory"} : disk'[p] = disk[p]
    BY <1>18 DEF RemoveConfigDoes, Tree, Within
  <2>2. disk'["configDirectory"] \in {"none", disk["configDirectory"]}
    BY <1>18 DEF RemoveConfigDoes
  <2>3. record' = record
    BY <1>18 DEF RemoveConfigDoes
  <2> QED BY <2>1, <2>2, <2>3, <1>3, <1>4 DEF Exists
<1>19. CASE UndoRecordDoes
  BY <1>2, <1>19, <1>3, <1>4 DEF UndoRecordDoes, NoRecord
<1>20. CASE StageRecordDoes
  BY <1>2, <1>20, <1>3, <1>4 DEF StageRecordDoes, NoRecord
<1>21. CASE RestoreDoes
  <2>1. record' = cli.saved \/ record' = record
    BY <1>21 DEF RestoreDoes
  <2> QED BY <1>21, <2>1, WhileUninstalling DEF RestoreDoes
<1>22. CASE DeleteTreeDoes
  <2>1. record.at # "bootstrap" \/ UNCHANGED <<record, disk>>
    BY <1>22, WhileUninstalling DEF DeleteTreeDoes
  <2>2. record'.at # "bootstrap" \/ UNCHANGED <<record, disk>>
    BY <1>22, <2>1, WhileUninstalling DEF DeleteTreeDoes
  <2> QED BY <2>2, <1>3, <1>4 DEF Exists
<1>23. CASE UninstallCallFailsDoes
  <2>1. record.at # "bootstrap" \/ UNCHANGED <<record, disk>>
    BY <1>23, WhileUninstalling DEF UninstallCallFailsDoes
  <2>2. record'.at # "bootstrap" \/ UNCHANGED <<record, disk>>
    BY <1>23, <2>1, WhileUninstalling DEF UninstallCallFailsDoes
  <2> QED BY <2>2, <1>3, <1>4 DEF Exists
<1>24. CASE KillDoes
  <2>1. CASE cli.aside = {}
    <3>1. UNCHANGED <<record, disk>>
      BY <1>24, <2>1 DEF KillDoes, Gone, Typed, Tree, Within
    <3> QED BY <3>1, <1>3, <1>4
  <2>2. CASE cli.aside # {}
    BY <1>24, <2>2, NothingAside, WhileUninstalling DEF KillDoes
  <2> QED BY <2>1, <2>2
<1>25. CASE ServiceWritesDoes
  <2>1. ~output /\ "authStateFile" \notin Tree("configDirectory") /\ "authStateFile" # "configDirectory"
    <3>1. ~output
      BY <1>25 DEF OutputAt, ServiceWritesDoes
    <3> QED BY <3>1, SystemTrees
  <2>2. \A p \in Tree("configDirectory") \cup {"configDirectory"} : disk'[p] = disk[p]
    BY <1>25, <2>1 DEF ServiceWritesDoes, Tree, Paths, Directories, Within
  <2> QED BY <1>25, <2>2, <1>3, <1>4 DEF ServiceWritesDoes, Exists
<1> QED BY <1>1, <1>5, <1>6, <1>7, <1>8, <1>9, <1>10, <1>11, <1>12, <1>13, <1>14, <1>15, <1>16, <1>17, <1>18, <1>19, <1>20, <1>21, <1>22, <1>23, <1>24, <1>25 DEF Steps, PrepareSetupDoes, ReadSecretsDoes, AddPackageDoes, ReloadDoes, RestartDoes, EnableDoes, UndoPackageDoes, UndoEnableDoes, UndoReloadDoes, UndoRestartDoes, SetupCallFailsDoes, PrepareUninstallDoes, AuthorizeUninstallDoes, DisableDoes, RemovePackageDoes, StagePathDoes, StagedDoes, UnloadDoes, RestorePackageDoes, RestoreEdgeDoes, DeletedDoes, PrepareResetDoes, ReadPasswordDoes, StopDoes, ReplaceDocumentDoes, ReplaceSecretDoes, StartDoes, RestoreDocumentDoes, RestoreSecretDoes, RestoreServiceDoes, ResetCallFailsDoes, OperatorAddsDropIn, RebootDoes

(* What the record says fits the place of the command.                     *)
LEMMA RecordAtStep ==
  ASSUME Typed, Running, RecordShape, Bootstrapped, RecordAt, SavedAt, OutputAt, Nested, Next
  PROVE  RecordAt'
<1> USE DEF Moved, Went, Onward, Steady, Over, OverBut, AtIdle, OnPath, OnNext, Began, Others, services, Notes, Puts, Replaces, Resumed, RecordAt, SetupPlaces, Installing, Undoing, ResetPlaces, NothingClaimed
<1>1. Steps
  BY EveryStep
<1>2. Typed' /\ output' = output
  BY TypedStep, SameHost
<1>3. Order' = Order
  BY SameHost
<1>4. CASE PrepareSetupDoes
  BY <1>2, <1>4, <1>3 DEF PrepareSetupDoes, Ready, Interrupted, RecordShape
<1>5. CASE ReadSecretsDoes
  BY <1>2, <1>5, <1>3 DEF ReadSecretsDoes, RecordShape, NoRecord
<1>6. CASE WriteJournalDoes
  <2>1. cli.at = "journal" /\ cli'.tried = cli.tried /\ cli'.recovered = cli.recovered /\ cli'.wasActive = cli.wasActive
        /\ cli'.recovering = cli.recovering /\ record' = FirstJournal
        /\ cli'.at = (IF Exists("configDirectory") THEN "package" ELSE "make-config")
    BY <1>6 DEF WriteJournalDoes
  <2>2. CASE Exists("configDirectory")
    BY <2>1, <2>2 DEF FirstJournal, Journal
  <2>3. CASE ~Exists("configDirectory")
    <3>1. disk'["configDirectory"] = "none"
      BY <1>6, <2>3 DEF WriteJournalDoes, GivenUp, Exists, Paths, Directories
    <3>2. ~Exists("configDirectory")'
      BY <3>1 DEF Exists
    <3> QED BY <2>1, <2>3, <3>1, <3>2 DEF FirstJournal, Journal
  <2> QED BY <2>2, <2>3
<1>7. CASE TearJournalDoes
  BY <1>2, <1>7, <1>3 DEF TearJournalDoes
<1>8. CASE MakeConfigDoes
  <2>1. record' = record /\ cli.at = "make-config" /\ cli'.at = "move-journal"
        /\ cli'.tried = cli.tried /\ cli'.recovered = cli.recovered /\ cli'.wasActive = cli.wasActive
        /\ cli'.recovering = cli.recovering /\ disk'["configDirectory"] = "ours"
    BY <1>8 DEF MakeConfigDoes
  <2>2. Exists("configDirectory")'
    BY <2>1 DEF Exists
  <2> QED BY <2>1, <2>2
<1>9. CASE MoveJournalDoes
  <2>1. cli.at = "move-journal" /\ cli'.tried = cli.tried /\ cli'.recovered = cli.recovered /\ cli'.wasActive = cli.wasActive
        /\ cli'.recovering = cli.recovering /\ disk' = disk /\ cli'.at = "package"
        /\ Notes("final", record.status, record.created, record.package, record.tried)
    BY <1>9 DEF MoveJournalDoes
  <2>2. record.at = "bootstrap" /\ record.whole
    BY <2>1
  <2>3. ~record.package /\ disk["configDirectory"] # "theirs"
    BY <2>2 DEF RecordShape, Bootstrapped
  <2> QED BY <2>1, <2>2, <2>3
<1>10. CASE RecordPackageDoes
  BY <1>2, <1>10, <1>3 DEF RecordPackageDoes
<1>11. CASE AddPackageDoes
  BY <1>2, <1>11, <1>3 DEF AddPackageDoes
<1>12. CASE RecordPathDoes
  <2>1. cli.at = "own" /\ record.at = "final" /\ record.whole
        /\ cli'.tried = cli.tried /\ cli'.recovered = cli.recovered /\ cli'.wasActive = cli.wasActive
        /\ cli'.recovering = cli.recovering /\ disk' = disk
    BY <1>12 DEF RecordPathDoes
  <2>2. CASE record' = record
    <3>1. cli'.at \in {"own", "finish", "record-reload"} \/ cli'.at = "make"
      BY <1>12, <2>2 DEF RecordPathDoes
    <3>2. CASE cli'.at = "make"
      <4>1. Path \in record'.created /\ ~(Path \in Directories /\ Exists(Path)) /\ cli'.i = cli.i
        BY <1>12, <2>2, <3>2 DEF RecordPathDoes
      <4>2. Path' = Path /\ Exists(Path)' = Exists(Path)
        BY <1>3, <2>1, <4>1 DEF Path, Exists
      <4> QED BY <2>1, <2>2, <3>2, <4>1, <4>2
    <3>3. CASE cli'.at # "make"
      BY <2>1, <2>2, <3>1, <3>3
    <3> QED BY <3>2, <3>3
  <2>3. CASE record' # record
    <3>1. Path \in record'.created /\ ~(Path \in Directories /\ Exists(Path)) /\ cli'.i = cli.i
          /\ cli'.at = "make" /\ Notes(record.at, record.status, record.created \cup {Path}, record.package, record.tried)
      BY <1>12, <2>3 DEF RecordPathDoes
    <3>2. Path' = Path /\ Exists(Path)' = Exists(Path)
      BY <1>3, <2>1, <3>1 DEF Path, Exists
    <3>3. Path # "configDirectory"
      BY <2>1, PathManaged
    <3> QED BY <2>1, <3>1, <3>2, <3>3
  <2> QED BY <2>2, <2>3
<1>13. CASE MakePathDoes
  <2>1. record' = record /\ cli.at = "make" /\ record.at = "final" /\ record.whole
        /\ cli'.tried = cli.tried /\ cli'.recovered = cli.recovered /\ cli'.wasActive = cli.wasActive
        /\ cli'.recovering = cli.recovering
    BY <1>13 DEF MakePathDoes
  <2>2. cli'.at \in {"undo-package", "own", "finish", "record-reload"}
    BY <1>13 DEF MakePathDoes
  <2>3. disk'["configDirectory"] = disk["configDirectory"]
    BY <1>13, PathManaged DEF MakePathDoes, Paths, Directories
  <2> QED BY <2>1, <2>2, <2>3
<1>14. CASE TryDoes("record-reload", "reload", "reload")
  BY <1>2, <1>14, <1>3 DEF TryDoes
<1>15. CASE ReloadDoes
  BY <1>2, <1>15, <1>3 DEF ReloadDoes
<1>16. CASE TryDoes("record-restart", "restart", "restart")
  BY <1>2, <1>16, <1>3 DEF TryDoes
<1>17. CASE RestartDoes
  BY <1>2, <1>17, <1>3 DEF RestartDoes
<1>18. CASE TryDoes("record-enable", "enable", "enable")
  BY <1>2, <1>18, <1>3 DEF TryDoes
<1>19. CASE EnableDoes
  BY <1>2, <1>19, <1>3 DEF EnableDoes
<1>20. CASE FinishSetupDoes
  BY <1>2, <1>20, <1>3 DEF FinishSetupDoes
<1>21. CASE UndoPackageDoes
  <2>1. "package" \notin record.tried
    BY DEF Typed, Records, Calls
  <2> QED BY <1>21, <2>1 DEF UndoPackageDoes, RecordShape
<1>22. CASE RemovePathDoes
  BY <1>2, <1>22, <1>3 DEF RemovePathDoes
<1>23. CASE RemoveConfigDoes
  BY <1>2, <1>23, <1>3 DEF RemoveConfigDoes
<1>24. CASE UndoRecordDoes
  <2>1. cli.at = "undo-record" /\ cli'.at = "undo-enable" /\ cli'.tried = cli.tried /\ cli'.recovered = cli.recovered
        /\ cli'.wasActive = cli.wasActive /\ cli'.recovering = cli.recovering
    BY <1>24 DEF UndoRecordDoes
  <2>2. CASE record.at = "final"
    BY <1>24, <2>1, <2>2 DEF UndoRecordDoes
  <2>3. CASE record.at # "final"
    <3>1. record' = NoRecord
      BY <1>24, <2>3 DEF UndoRecordDoes
    <3>2. cli.tried = {}
      BY <2>1, <2>3 DEF RecordShape, NoRecord, Typed, Records
    <3> QED BY <2>1, <3>1, <3>2 DEF NoRecord
  <2> QED BY <2>2, <2>3
<1>25. CASE UndoEnableDoes
  BY <1>2, <1>25, <1>3 DEF UndoEnableDoes
<1>26. CASE UndoReloadDoes
  BY <1>2, <1>26, <1>3 DEF UndoReloadDoes
<1>27. CASE UndoRestartDoes
  <2>1. record' = record /\ cli'.tried = {} /\ cli'.recovered = cli.recovered /\ cli'.wasActive = cli.wasActive
        /\ (cli'.at = "journal" \/ cli'.at = "idle") /\ ~cli'.recovering
    BY <1>27 DEF UndoRestartDoes
  <2>2. cli.at = "undo-restart"
    BY <1>27 DEF UndoRestartDoes
  <2>3. record.at = "final" => record.whole
    BY <2>2
  <2>4. record.at = "none" => record.whole
    BY DEF RecordShape, NoRecord
  <2>5. cli'.at = "journal" => record.at = "none" \/ (record.at = "final" /\ NothingClaimed /\ record.created = {"configDirectory"})
    BY <2>2
  <2> QED BY <2>1, <2>2, <2>3, <2>4, <2>5
<1>28. CASE SetupCallFailsDoes
  BY <1>2, <1>28, <1>3 DEF SetupCallFailsDoes
<1>29. CASE PrepareUninstallDoes
  BY <1>2, <1>29, <1>3 DEF PrepareUninstallDoes, Readable
<1>30. CASE AuthorizeUninstallDoes
  BY <1>2, <1>30, <1>3 DEF AuthorizeUninstallDoes
<1>31. CASE DisableDoes
  BY <1>2, <1>31, <1>3 DEF DisableDoes
<1>32. CASE RemovePackageDoes
  BY <1>2, <1>32, <1>3 DEF RemovePackageDoes
<1>33. CASE StageRecordDoes
  BY <1>2, <1>33, <1>3 DEF StageRecordDoes
<1>34. CASE StagePathDoes
  BY <1>2, <1>34, <1>3 DEF StagePathDoes
<1>35. CASE StagedDoes
  BY <1>2, <1>35, <1>3 DEF StagedDoes
<1>36. CASE UnloadDoes
  BY <1>2, <1>36, <1>3 DEF UnloadDoes
<1>37. CASE RestoreDoes
  BY <1>2, <1>37, <1>3 DEF RestoreDoes
<1>38. CASE RestorePackageDoes
  BY <1>2, <1>38, <1>3 DEF RestorePackageDoes
<1>39. CASE RestoreEdgeDoes
  BY <1>2, <1>39, <1>3 DEF RestoreEdgeDoes
<1>40. CASE DeleteTreeDoes
  BY <1>2, <1>40, <1>3 DEF DeleteTreeDoes
<1>41. CASE DeletedDoes
  BY <1>2, <1>41, <1>3 DEF DeletedDoes
<1>42. CASE UninstallCallFailsDoes
  BY <1>2, <1>42, <1>3 DEF UninstallCallFailsDoes
<1>43. CASE PrepareResetDoes
  BY <1>2, <1>43, <1>3 DEF PrepareResetDoes, Readable
<1>44. CASE ReadPasswordDoes
  BY <1>2, <1>44, <1>3 DEF ReadPasswordDoes
<1>45. CASE StopDoes
  BY <1>2, <1>45, <1>3 DEF StopDoes
<1>46. CASE ReplaceDocumentDoes
  BY <1>2, <1>46, <1>3 DEF ReplaceDocumentDoes
<1>47. CASE ReplaceSecretDoes
  BY <1>2, <1>47, <1>3 DEF ReplaceSecretDoes
<1>48. CASE StartDoes
  BY <1>2, <1>48, <1>3 DEF StartDoes
<1>49. CASE RestoreDocumentDoes
  BY <1>2, <1>49, <1>3 DEF RestoreDocumentDoes
<1>50. CASE RestoreSecretDoes
  BY <1>2, <1>50, <1>3 DEF RestoreSecretDoes
<1>51. CASE RestoreServiceDoes
  BY <1>2, <1>51, <1>3 DEF RestoreServiceDoes
<1>52. CASE ResetCallFailsDoes
  BY <1>2, <1>52, <1>3 DEF ResetCallFailsDoes
<1>53. CASE KillDoes
  BY <1>2, <1>53, <1>3 DEF KillDoes
<1>54. CASE ServiceWritesDoes
  <2>1. UNCHANGED <<record, cli>> /\ Path' = Path
    BY <1>3, <1>54 DEF ServiceWritesDoes, Path
  <2>2. \A p \in Directories : Exists(p)' = Exists(p)
    BY <1>54 DEF ServiceWritesDoes, Exists, Directories, Paths
  <2>3. disk'["configDirectory"] = disk["configDirectory"] /\ "configDirectory" \in Directories
    BY <1>54 DEF ServiceWritesDoes, Paths, Directories
  <2> QED BY <2>1, <2>2, <2>3
<1>55. CASE OperatorAddsDropIn
  BY <1>2, <1>55, <1>3 DEF OperatorAddsDropIn, Exists, Path
<1>56. CASE RebootDoes
  BY <1>2, <1>56, <1>3 DEF RebootDoes, Exists, Path
<1> QED BY <1>1, <1>4, <1>5, <1>6, <1>7, <1>8, <1>9, <1>10, <1>11, <1>12, <1>13, <1>14, <1>15, <1>16, <1>17, <1>18, <1>19, <1>20, <1>21, <1>22, <1>23, <1>24, <1>25, <1>26, <1>27, <1>28, <1>29, <1>30, <1>31, <1>32, <1>33, <1>34, <1>35, <1>36, <1>37, <1>38, <1>39, <1>40, <1>41, <1>42, <1>43, <1>44, <1>45, <1>46, <1>47, <1>48, <1>49, <1>50, <1>51, <1>52, <1>53, <1>54, <1>55, <1>56 DEF Steps

(* An uninstall keeps in mind the record that it has moved.                *)
LEMMA SavedAtStep ==
  ASSUME Typed, Running, RecordShape, RecordAt, SavedAt, Next
  PROVE  SavedAt'
<1> USE DEF Moved, Went, Onward, Steady, Over, OverBut, AtIdle, OnPath, OnNext, Began, Others, services, Notes, Puts, Replaces, Resumed, SavedAt, UninstallPlaces, Leaving, Restoring
<1>1. Steps
  BY EveryStep
<1>2. Typed' /\ output' = output
  BY TypedStep, SameHost
<1>3. Managed' = Managed
  BY SameHost
<1>4. cli'.saved = cli.saved => RemovalRoots' = RemovalRoots
  BY SameHost DEF RemovalRoots, Recorded, Tree, Within
<1>5. CASE PrepareSetupDoes
  BY <1>2, <1>5, <1>3, <1>4 DEF PrepareSetupDoes
<1>6. CASE ReadSecretsDoes
  BY <1>2, <1>6, <1>3, <1>4 DEF ReadSecretsDoes
<1>7. CASE WriteJournalDoes
  BY <1>2, <1>7, <1>3, <1>4 DEF WriteJournalDoes
<1>8. CASE TearJournalDoes
  BY <1>2, <1>8, <1>3, <1>4 DEF TearJournalDoes
<1>9. CASE MakeConfigDoes
  BY <1>2, <1>9, <1>3, <1>4 DEF MakeConfigDoes
<1>10. CASE MoveJournalDoes
  BY <1>2, <1>10, <1>3, <1>4 DEF MoveJournalDoes
<1>11. CASE RecordPackageDoes
  BY <1>2, <1>11, <1>3, <1>4 DEF RecordPackageDoes
<1>12. CASE AddPackageDoes
  BY <1>2, <1>12, <1>3, <1>4 DEF AddPackageDoes
<1>13. CASE RecordPathDoes
  BY <1>2, <1>13, <1>3, <1>4 DEF RecordPathDoes
<1>14. CASE MakePathDoes
  BY <1>2, <1>14, <1>3, <1>4 DEF MakePathDoes
<1>15. CASE TryDoes("record-reload", "reload", "reload")
  BY <1>2, <1>15, <1>3, <1>4 DEF TryDoes
<1>16. CASE ReloadDoes
  BY <1>2, <1>16, <1>3, <1>4 DEF ReloadDoes
<1>17. CASE TryDoes("record-restart", "restart", "restart")
  BY <1>2, <1>17, <1>3, <1>4 DEF TryDoes
<1>18. CASE RestartDoes
  BY <1>2, <1>18, <1>3, <1>4 DEF RestartDoes
<1>19. CASE TryDoes("record-enable", "enable", "enable")
  BY <1>2, <1>19, <1>3, <1>4 DEF TryDoes
<1>20. CASE EnableDoes
  BY <1>2, <1>20, <1>3, <1>4 DEF EnableDoes
<1>21. CASE FinishSetupDoes
  BY <1>2, <1>21, <1>3, <1>4 DEF FinishSetupDoes
<1>22. CASE UndoPackageDoes
  BY <1>2, <1>22, <1>3, <1>4 DEF UndoPackageDoes
<1>23. CASE RemovePathDoes
  BY <1>2, <1>23, <1>3, <1>4 DEF RemovePathDoes
<1>24. CASE RemoveConfigDoes
  BY <1>2, <1>24, <1>3, <1>4 DEF RemoveConfigDoes
<1>25. CASE UndoRecordDoes
  BY <1>2, <1>25, <1>3, <1>4 DEF UndoRecordDoes
<1>26. CASE UndoEnableDoes
  BY <1>2, <1>26, <1>3, <1>4 DEF UndoEnableDoes
<1>27. CASE UndoReloadDoes
  BY <1>2, <1>27, <1>3, <1>4 DEF UndoReloadDoes
<1>28. CASE UndoRestartDoes
  BY <1>2, <1>28, <1>3, <1>4 DEF UndoRestartDoes
<1>29. CASE SetupCallFailsDoes
  BY <1>2, <1>29, <1>3, <1>4 DEF SetupCallFailsDoes, Installing, Undoing
<1>30. CASE PrepareUninstallDoes
  BY <1>2, <1>30, <1>3, <1>4 DEF PrepareUninstallDoes, RecordAt, Readable, RecordShape, SetupPlaces
<1>31. CASE AuthorizeUninstallDoes
  BY <1>2, <1>31, <1>3, <1>4 DEF AuthorizeUninstallDoes
<1>32. CASE DisableDoes
  BY <1>2, <1>32, <1>3, <1>4 DEF DisableDoes
<1>33. CASE RemovePackageDoes
  BY <1>2, <1>33, <1>3, <1>4 DEF RemovePackageDoes
<1>34. CASE StageRecordDoes
  <2>1. cli.aside = {} /\ cli.saved.created \subseteq Managed /\ RemovalRoots' = RemovalRoots
    BY <1>2, <1>4, <1>34 DEF StageRecordDoes, NoRecord
  <2>2. "configDirectory" \in cli.saved.created => "configDirectory" \in RemovalRoots
    BY <2>1, ConfigOutermost, ManagedPaths DEF RemovalRoots, Recorded, Tree, Within
  <2> QED BY <1>2, <1>3, <1>34, <2>1, <2>2 DEF StageRecordDoes, NoRecord
<1>35. CASE StagePathDoes
  BY <1>2, <1>35, <1>3, <1>4 DEF StagePathDoes
<1>36. CASE StagedDoes
  BY <1>2, <1>36, <1>3, <1>4 DEF StagedDoes
<1>37. CASE UnloadDoes
  BY <1>2, <1>37, <1>3, <1>4 DEF UnloadDoes
<1>38. CASE RestoreDoes
  BY <1>2, <1>38, <1>3, <1>4 DEF RestoreDoes
<1>39. CASE RestorePackageDoes
  BY <1>2, <1>39, <1>3, <1>4 DEF RestorePackageDoes
<1>40. CASE RestoreEdgeDoes
  BY <1>2, <1>40, <1>3, <1>4 DEF RestoreEdgeDoes
<1>41. CASE DeleteTreeDoes
  BY <1>2, <1>41, <1>3, <1>4 DEF DeleteTreeDoes
<1>42. CASE DeletedDoes
  BY <1>2, <1>42, <1>3, <1>4 DEF DeletedDoes
<1>43. CASE UninstallCallFailsDoes
  BY <1>2, <1>43, <1>3, <1>4 DEF UninstallCallFailsDoes
<1>44. CASE PrepareResetDoes
  BY <1>2, <1>44, <1>3, <1>4 DEF PrepareResetDoes
<1>45. CASE ReadPasswordDoes
  BY <1>2, <1>45, <1>3, <1>4 DEF ReadPasswordDoes
<1>46. CASE StopDoes
  BY <1>2, <1>46, <1>3, <1>4 DEF StopDoes
<1>47. CASE ReplaceDocumentDoes
  BY <1>2, <1>47, <1>3, <1>4 DEF ReplaceDocumentDoes
<1>48. CASE ReplaceSecretDoes
  BY <1>2, <1>48, <1>3, <1>4 DEF ReplaceSecretDoes
<1>49. CASE StartDoes
  BY <1>2, <1>49, <1>3, <1>4 DEF StartDoes
<1>50. CASE RestoreDocumentDoes
  BY <1>2, <1>50, <1>3, <1>4 DEF RestoreDocumentDoes
<1>51. CASE RestoreSecretDoes
  BY <1>2, <1>51, <1>3, <1>4 DEF RestoreSecretDoes
<1>52. CASE RestoreServiceDoes
  BY <1>2, <1>52, <1>3, <1>4 DEF RestoreServiceDoes, NoRecord
<1>53. CASE ResetCallFailsDoes
  BY <1>2, <1>53, <1>3, <1>4 DEF ResetCallFailsDoes
<1>54. CASE KillDoes
  BY <1>2, <1>54, <1>3, <1>4 DEF KillDoes
<1>55. CASE ServiceWritesDoes
  BY <1>2, <1>55, <1>3, <1>4 DEF ServiceWritesDoes
<1>56. CASE OperatorAddsDropIn
  BY <1>2, <1>56, <1>3, <1>4 DEF OperatorAddsDropIn
<1>57. CASE RebootDoes
  BY <1>2, <1>57, <1>3, <1>4 DEF RebootDoes
<1> QED BY <1>1, <1>5, <1>6, <1>7, <1>8, <1>9, <1>10, <1>11, <1>12, <1>13, <1>14, <1>15, <1>16, <1>17, <1>18, <1>19, <1>20, <1>21, <1>22, <1>23, <1>24, <1>25, <1>26, <1>27, <1>28, <1>29, <1>30, <1>31, <1>32, <1>33, <1>34, <1>35, <1>36, <1>37, <1>38, <1>39, <1>40, <1>41, <1>42, <1>43, <1>44, <1>45, <1>46, <1>47, <1>48, <1>49, <1>50, <1>51, <1>52, <1>53, <1>54, <1>55, <1>56, <1>57 DEF Steps

(* An output directory has no services and no bundle.                      *)
LEMMA OutputAtStep ==
  ASSUME Typed, Running, RecordShape, RecordAt, SavedAt, OutputAt, Next
  PROVE  OutputAt'
<1> USE DEF Moved, Went, Onward, Steady, Over, OverBut, AtIdle, OnPath, OnNext, Began, Others, services, Notes, Puts, Replaces, Resumed, OutputAt, Activating
<1>1. Steps
  BY EveryStep
<1>2. Typed' /\ output' = output
  BY TypedStep, SameHost
<1>3. output => cli.at \notin {"authorize", "disable", "remove-package", "stage", "unload", "delete",
                             "restore", "restore-reload", "restore-package", "restore-edge",
                             "password", "stop", "replace-document", "replace-secret", "start",
                             "restore-document", "restore-secret", "restore-service"}
  BY DEF Running, UninstallPlaces, ResetPlaces, Leaving, Restoring
<1>4. output => cli.aside = {}
  BY <1>3, NothingAside
<1>5. output => cli.at \notin {"reload", "restart", "enable", "record-reload", "record-restart", "record-enable", "add-package"}
  BY DEF OutputAt, Activating
<1>6. NoRecord.tried = {} /\ NoRecord.package = FALSE
  BY DEF NoRecord
<1>7. CASE PrepareSetupDoes
  BY <1>2, <1>7, <1>3, <1>4, <1>5, <1>6 DEF PrepareSetupDoes
<1>8. CASE ReadSecretsDoes
  BY <1>2, <1>8, <1>3, <1>4, <1>5, <1>6 DEF ReadSecretsDoes
<1>9. CASE WriteJournalDoes
  BY <1>2, <1>9, <1>3, <1>4, <1>5, <1>6 DEF WriteJournalDoes, FirstJournal, Journal
<1>10. CASE TearJournalDoes
  BY <1>2, <1>10, <1>3, <1>4, <1>5, <1>6 DEF TearJournalDoes
<1>11. CASE MakeConfigDoes
  BY <1>2, <1>11, <1>3, <1>4, <1>5, <1>6 DEF MakeConfigDoes
<1>12. CASE MoveJournalDoes
  BY <1>2, <1>12, <1>3, <1>4, <1>5, <1>6 DEF MoveJournalDoes
<1>13. CASE RecordPackageDoes
  BY <1>2, <1>13, <1>3, <1>4, <1>5, <1>6 DEF RecordPackageDoes
<1>14. CASE AddPackageDoes
  BY <1>2, <1>14, <1>3, <1>4, <1>5, <1>6 DEF AddPackageDoes
<1>15. CASE RecordPathDoes
  BY <1>2, <1>15, <1>3, <1>4, <1>5, <1>6 DEF RecordPathDoes
<1>16. CASE MakePathDoes
  BY <1>2, <1>16, <1>3, <1>4, <1>5, <1>6 DEF MakePathDoes
<1>17. CASE TryDoes("record-reload", "reload", "reload")
  BY <1>2, <1>17, <1>3, <1>4, <1>5, <1>6 DEF TryDoes
<1>18. CASE ReloadDoes
  BY <1>2, <1>18, <1>3, <1>4, <1>5, <1>6 DEF ReloadDoes
<1>19. CASE TryDoes("record-restart", "restart", "restart")
  BY <1>2, <1>19, <1>3, <1>4, <1>5, <1>6 DEF TryDoes
<1>20. CASE RestartDoes
  BY <1>2, <1>20, <1>3, <1>4, <1>5, <1>6 DEF RestartDoes
<1>21. CASE TryDoes("record-enable", "enable", "enable")
  BY <1>2, <1>21, <1>3, <1>4, <1>5, <1>6 DEF TryDoes
<1>22. CASE EnableDoes
  BY <1>2, <1>22, <1>3, <1>4, <1>5, <1>6 DEF EnableDoes
<1>23. CASE FinishSetupDoes
  BY <1>2, <1>23, <1>3, <1>4, <1>5, <1>6 DEF FinishSetupDoes
<1>24. CASE UndoPackageDoes
  BY <1>2, <1>24, <1>3, <1>4, <1>5, <1>6 DEF UndoPackageDoes
<1>25. CASE RemovePathDoes
  BY <1>2, <1>25, <1>3, <1>4, <1>5, <1>6 DEF RemovePathDoes
<1>26. CASE RemoveConfigDoes
  BY <1>2, <1>26, <1>3, <1>4, <1>5, <1>6 DEF RemoveConfigDoes
<1>27. CASE UndoRecordDoes
  BY <1>2, <1>27, <1>3, <1>4, <1>5, <1>6 DEF UndoRecordDoes
<1>28. CASE UndoEnableDoes
  <2>1. output => edge' = edge /\ cli'.tried = {} /\ cli'.at \in {"undo-reload", "idle"}
    BY <1>28 DEF UndoEnableDoes
  <2>2. UNCHANGED <<record, bundle, dsh, loaded, guest>>
    BY <1>28 DEF UndoEnableDoes
  <2> QED BY <1>2, <2>1, <2>2
<1>29. CASE UndoReloadDoes
  BY <1>2, <1>29, <1>3, <1>4, <1>5, <1>6 DEF UndoReloadDoes
<1>30. CASE UndoRestartDoes
  BY <1>2, <1>30, <1>3, <1>4, <1>5, <1>6 DEF UndoRestartDoes
<1>31. CASE SetupCallFailsDoes
  BY <1>2, <1>31, <1>3, <1>4, <1>5, <1>6 DEF SetupCallFailsDoes
<1>32. CASE PrepareUninstallDoes
  BY <1>2, <1>32, <1>3, <1>4, <1>5, <1>6 DEF PrepareUninstallDoes
<1>33. CASE AuthorizeUninstallDoes
  BY <1>2, <1>33, <1>3, <1>4, <1>5, <1>6 DEF AuthorizeUninstallDoes
<1>34. CASE DisableDoes
  BY <1>2, <1>34, <1>3, <1>4, <1>5, <1>6 DEF DisableDoes
<1>35. CASE RemovePackageDoes
  BY <1>2, <1>35, <1>3, <1>4, <1>5, <1>6 DEF RemovePackageDoes
<1>36. CASE StageRecordDoes
  BY <1>2, <1>36, <1>3, <1>4, <1>5, <1>6 DEF StageRecordDoes
<1>37. CASE StagePathDoes
  BY <1>2, <1>37, <1>3, <1>4, <1>5, <1>6 DEF StagePathDoes
<1>38. CASE StagedDoes
  BY <1>2, <1>38, <1>3, <1>4, <1>5, <1>6 DEF StagedDoes
<1>39. CASE UnloadDoes
  BY <1>2, <1>39, <1>3, <1>4, <1>5, <1>6 DEF UnloadDoes
<1>40. CASE RestoreDoes
  BY <1>2, <1>40, <1>3, <1>4, <1>5, <1>6 DEF RestoreDoes
<1>41. CASE RestorePackageDoes
  BY <1>2, <1>41, <1>3, <1>4, <1>5, <1>6 DEF RestorePackageDoes
<1>42. CASE RestoreEdgeDoes
  BY <1>2, <1>42, <1>3, <1>4, <1>5, <1>6 DEF RestoreEdgeDoes
<1>43. CASE DeleteTreeDoes
  BY <1>2, <1>43, <1>3, <1>4, <1>5, <1>6 DEF DeleteTreeDoes
<1>44. CASE DeletedDoes
  BY <1>2, <1>44, <1>3, <1>4, <1>5, <1>6 DEF DeletedDoes
<1>45. CASE UninstallCallFailsDoes
  BY <1>2, <1>45, <1>3, <1>4, <1>5, <1>6 DEF UninstallCallFailsDoes, Gone, Tree, Within
<1>46. CASE PrepareResetDoes
  BY <1>2, <1>46, <1>3, <1>4, <1>5, <1>6 DEF PrepareResetDoes
<1>47. CASE ReadPasswordDoes
  BY <1>2, <1>47, <1>3, <1>4, <1>5, <1>6 DEF ReadPasswordDoes
<1>48. CASE StopDoes
  BY <1>2, <1>48, <1>3, <1>4, <1>5, <1>6 DEF StopDoes
<1>49. CASE ReplaceDocumentDoes
  BY <1>2, <1>49, <1>3, <1>4, <1>5, <1>6 DEF ReplaceDocumentDoes
<1>50. CASE ReplaceSecretDoes
  BY <1>2, <1>50, <1>3, <1>4, <1>5, <1>6 DEF ReplaceSecretDoes
<1>51. CASE StartDoes
  BY <1>2, <1>51, <1>3, <1>4, <1>5, <1>6 DEF StartDoes
<1>52. CASE RestoreDocumentDoes
  BY <1>2, <1>52, <1>3, <1>4, <1>5, <1>6 DEF RestoreDocumentDoes
<1>53. CASE RestoreSecretDoes
  BY <1>2, <1>53, <1>3, <1>4, <1>5, <1>6 DEF RestoreSecretDoes
<1>54. CASE RestoreServiceDoes
  BY <1>2, <1>54, <1>3, <1>4, <1>5, <1>6 DEF RestoreServiceDoes
<1>55. CASE ResetCallFailsDoes
  BY <1>2, <1>55, <1>3, <1>4, <1>5, <1>6 DEF ResetCallFailsDoes
<1>56. CASE KillDoes
  <2>1. output => ~guest'
    BY <1>56 DEF KillDoes, Gone, Tree, Within
  <2>2. output => cli'.at = "idle" /\ cli'.tried = {}
    BY <1>56 DEF KillDoes
  <2>3. UNCHANGED <<record, bundle, services>>
    BY <1>56 DEF KillDoes
  <2> QED BY <1>2, <2>1, <2>2, <2>3
<1>57. CASE ServiceWritesDoes
  BY <1>2, <1>57, <1>3, <1>4, <1>5, <1>6 DEF ServiceWritesDoes
<1>58. CASE OperatorAddsDropIn
  BY <1>2, <1>58, <1>3, <1>4, <1>5, <1>6 DEF OperatorAddsDropIn
<1>59. CASE RebootDoes
  BY <1>2, <1>59, <1>3, <1>4, <1>5, <1>6 DEF RebootDoes
<1> QED BY <1>1, <1>7, <1>8, <1>9, <1>10, <1>11, <1>12, <1>13, <1>14, <1>15, <1>16, <1>17, <1>18, <1>19, <1>20, <1>21, <1>22, <1>23, <1>24, <1>25, <1>26, <1>27, <1>28, <1>29, <1>30, <1>31, <1>32, <1>33, <1>34, <1>35, <1>36, <1>37, <1>38, <1>39, <1>40, <1>41, <1>42, <1>43, <1>44, <1>45, <1>46, <1>47, <1>48, <1>49, <1>50, <1>51, <1>52, <1>53, <1>54, <1>55, <1>56, <1>57, <1>58, <1>59 DEF Steps

(* Whatever exists lies in a directory that exists.                        *)
LEMMA NestedStep ==
  ASSUME Typed, RecordShape, RecordAt, SavedAt, Nested, MakingUp, Next
  PROVE  Nested'
<1> USE DEF Moved, Went, Onward, Steady, Over, OverBut, AtIdle, OnPath, OnNext, Began, Others, services, Notes, Puts, Replaces, Resumed, Nested, Exists
<1>1. Steps
  BY EveryStep
<1>2. Typed' /\ output' = output
  BY TypedStep, SameHost
<1>3. \A p : Parent(p)' = Parent(p)
  BY SameHost
<1>4. \A p \in Paths : Parent(p) \in Directories \cup {"system"} /\ (Parent(p) = "system" \/ Parent(p) \in Paths)
  BY ParentsFirst
<1>5. ASSUME NEW paths, disk' = GivenUp(paths) PROVE Nested'
  <2>1. \A p \in Paths : (disk'[p] = "none") <=> (disk[p] = "none")
    BY <1>5 DEF GivenUp
  <2> QED BY <1>3, <1>4, <2>1
<1>6. ASSUME NEW roots, Gone(roots), roots \subseteq Paths PROVE Nested'
  <2>1. \A p \in Paths : disk'[p] = "none" \/ (disk'[p] = disk[p] /\ \A root \in roots : p \notin Tree(root))
    BY <1>6 DEF Gone, Tree, Within
  <2>2. \A p \in Paths : (\A root \in roots : p \notin Tree(root)) => disk'[p] = disk[p]
    BY <1>6 DEF Gone, Tree, Within
  <2> QED BY <1>3, <1>4, <1>6, <2>1, <2>2, TreesNest
<1>7. cli.aside \subseteq Paths
  <2>1. cli.at \in {"stage", "unload", "delete", "restore", "restore-reload", "authorize", "disable",
                   "remove-package", "restore-package", "restore-edge"} => cli.aside \subseteq Paths
    BY WhileUninstalling, ManagedPaths
  <2> QED BY <2>1, NothingAside
<1>8. CASE UNCHANGED <<disk>>
  BY <1>2, <1>8, <1>3, <1>4, <1>5, <1>6, <1>7
<1>9. CASE WriteJournalDoes
  BY <1>5, <1>9 DEF WriteJournalDoes
<1>10. CASE TearJournalDoes
  BY <1>5, <1>10 DEF TearJournalDoes
<1>11. CASE MakeConfigDoes
  <2>1. Parent("configDirectory") = "system"
    BY DEF Parent
  <2> QED BY <1>3, <1>4, <1>11, <2>1 DEF MakeConfigDoes, Puts
<1>12. CASE MakePathDoes
  <2>1. Path \in Paths /\ (Parent(Path) # "system" => Exists(Parent(Path)))
    <3>1. Path \in Paths /\ Parent(Path) \in {"system", "configDirectory"} \cup {Order[j] : j \in 1..(cli.i - 1)}
      BY <1>12, PathManaged, ManagedPaths, ParentsFirst DEF MakePathDoes, Path, Typed
    <3>2. Exists("configDirectory") /\ \A j \in 1..(cli.i - 1) : Exists(Order[j])
      BY <1>12 DEF MakePathDoes, MakingUp, Made, Installing
    <3> QED BY <3>1, <3>2
  <2>2. CASE Exists(Path)
    BY <1>3, <1>12, <2>2 DEF MakePathDoes
  <2>3. CASE ~Exists(Path)
    BY <1>3, <1>4, <1>12, <2>1, <2>3 DEF MakePathDoes, Puts
  <2> QED BY <2>2, <2>3
<1>13. CASE RemovePathDoes
  <2>1. PICK i \in 1..cli.i :
               Puts(Order[i], IF Order[i] \in Directories /\ ~Empty(Order[i]) THEN disk[Order[i]] ELSE "none")
    BY <1>13 DEF RemovePathDoes
  <2>2. Order[i] \in Paths
    BY <1>13, <2>1, ManagedPaths DEF RemovePathDoes, Typed
  <2>3. ASSUME NEW p \in Paths, Parent(p) = Order[i], Exists(p) PROVE Order[i] \in Directories /\ ~Empty(Order[i])
    <3>1. Order[i] \in Directories /\ p \in Tree(Order[i])
      BY <1>4, <2>2, <2>3, ParentsFirst DEF Tree, Within
    <3>2. p # Order[i]
      BY <2>3 DEF Parent, Paths, Directories
    <3> QED BY <2>3, <3>1, <3>2 DEF Empty
  <2> QED BY <1>3, <1>4, <2>1, <2>2, <2>3 DEF Puts
<1>14. CASE RemoveConfigDoes
  <2>1. ASSUME NEW p \in Paths, Parent(p) = "configDirectory", Exists(p) PROVE ~Empty("configDirectory")
    <3>1. p \in Tree("configDirectory") /\ p # "configDirectory"
      BY <2>1 DEF Tree, Parent, Within
    <3> QED BY <2>1, <3>1 DEF Empty
  <2> QED BY <1>3, <1>4, <1>14, <2>1 DEF RemoveConfigDoes, Puts
<1>15. CASE UndoRecordDoes
  BY <1>5, <1>15 DEF UndoRecordDoes
<1>16. CASE RestoreDoes
  <2>1. CASE UNCHANGED disk
    BY <1>3, <2>1
  <2>2. CASE \E kept \in SUBSET cli.aside : Gone(kept)
    BY <1>6, <1>7, <2>2
  <2> QED BY <1>16, <2>1, <2>2 DEF RestoreDoes
<1>17. CASE DeleteTreeDoes
  BY <1>6, <1>7, <1>17 DEF DeleteTreeDoes
<1>18. CASE UninstallCallFailsDoes
  <2>1. CASE UNCHANGED disk
    BY <1>3, <2>1
  <2>2. CASE Gone(cli.aside)
    BY <1>6, <1>7, <2>2
  <2> QED BY <1>18, <2>1, <2>2 DEF UninstallCallFailsDoes, Gone, Tree, Within
<1>19. CASE KillDoes
  BY <1>6, <1>7, <1>19 DEF KillDoes
<1>20. CASE ServiceWritesDoes
  <2>1. Parent("authStateFile") = "authStateDirectory" /\ Exists("authStateDirectory")
    BY <1>20 DEF ServiceWritesDoes, InPlace, Parent, Tree, Within
  <2> QED BY <1>3, <1>4, <1>20, <2>1 DEF ServiceWritesDoes, Puts
<1> QED BY <1>1, <1>8, <1>9, <1>10, <1>11, <1>12, <1>13, <1>14, <1>15, <1>16, <1>17, <1>18, <1>19, <1>20 DEF Steps, PrepareSetupDoes, ReadSecretsDoes, MoveJournalDoes, RecordPackageDoes, AddPackageDoes, RecordPathDoes, TryDoes, ReloadDoes, RestartDoes, EnableDoes, FinishSetupDoes, UndoPackageDoes, UndoEnableDoes, UndoReloadDoes, UndoRestartDoes, SetupCallFailsDoes, PrepareUninstallDoes, AuthorizeUninstallDoes, DisableDoes, RemovePackageDoes, StageRecordDoes, StagePathDoes, StagedDoes, UnloadDoes, RestorePackageDoes, RestoreEdgeDoes, DeletedDoes, PrepareResetDoes, ReadPasswordDoes, StopDoes, ReplaceDocumentDoes, ReplaceSecretDoes, StartDoes, RestoreDocumentDoes, RestoreSecretDoes, RestoreServiceDoes, ResetCallFailsDoes, OperatorAddsDropIn, RebootDoes

(* Setup claims no directory that was there before.                        *)
LEMMA ForeignPathsStep ==
  ASSUME Typed, Running, Running', RecordShape, RecordAt, SavedAt, SavedAt', OutputAt, ForeignPaths, Next
  PROVE  ForeignPaths'
<1> USE DEF Moved, Went, Onward, Steady, Over, OverBut, AtIdle, OnPath, OnNext, Began, Others, services, Notes, Puts, Replaces, Resumed, ForeignPaths, SetupPlaces, Installing, Undoing, UninstallPlaces, Leaving, Restoring
<1>1. Steps
  BY EveryStep
<1>2. Typed' /\ output' = output
  BY TypedStep, SameHost
<1>3. /\ cli.at \notin SetupPlaces =>
           Covering' = Covering \/ (cli'.at = "idle" /\ Covering' = NoRecord /\ cli.at \in UninstallPlaces)
      /\ cli.at \in SetupPlaces => Covering = record /\ Covering' = record'
  BY CoveringStep
<1>4. \A p \in Paths : disk'[p] = "theirs" => disk[p] = "theirs"
  BY NothingAppears
<1>5. NoRecord.package = FALSE /\ NoRecord.created = {} /\ NoRecord.at = "none"
  BY DEF NoRecord
<1>6. record \in Records /\ cli.adopt \in BOOLEAN /\ output \in BOOLEAN /\ record.created \subseteq Paths
  BY DEF Typed, Commands, Records
<1>7. (cli.at \in UninstallPlaces => Covering = cli.saved) /\ (cli.at \notin UninstallPlaces => Covering = record)
  BY CoveringIs DEF Typed, Commands
<1>8. Covering.created \subseteq Paths
  BY <1>7 DEF Typed, Commands, Records
<1> HIDE DEF Covering
<1>9. ASSUME cli.at \notin SetupPlaces PROVE ForeignPaths'
  BY <1>3, <1>4, <1>5, <1>8, <1>9
<1>10. CASE UNCHANGED <<record>>
  BY <1>2, <1>10, <1>3, <1>4, <1>5, <1>6, <1>7, <1>8, <1>9
<1>11. CASE WriteJournalDoes
  BY <1>2, <1>11, <1>3, <1>4, <1>5, <1>6, <1>7, <1>8, <1>9 DEF WriteJournalDoes, FirstJournal, Journal, Exists
<1>12. CASE TearJournalDoes
  BY <1>2, <1>12, <1>3, <1>4, <1>5, <1>6, <1>7, <1>8, <1>9 DEF TearJournalDoes, FirstJournal, Journal, Exists
<1>13. CASE MoveJournalDoes
  BY <1>2, <1>13, <1>3, <1>4, <1>5, <1>6, <1>7, <1>8, <1>9 DEF MoveJournalDoes
<1>14. CASE RecordPackageDoes
  BY <1>2, <1>14, <1>3, <1>4, <1>5, <1>6, <1>7, <1>8, <1>9 DEF RecordPackageDoes
<1>15. CASE RecordPathDoes
  <2>1. Path \in Managed \ {"configDirectory"}
    BY <1>15, PathManaged DEF RecordPathDoes
  <2>2. disk[Path] = "theirs" => Path \in Directories /\ Exists(Path)
    BY <2>1, ManagedPaths DEF Exists, Directories
  <2> QED BY <1>3, <1>4, <1>6, <1>15, <2>1, <2>2 DEF RecordPathDoes
<1>16. CASE TryDoes("record-reload", "reload", "reload")
  BY <1>2, <1>16, <1>3, <1>4, <1>5, <1>6, <1>7, <1>8, <1>9 DEF TryDoes
<1>17. CASE TryDoes("record-restart", "restart", "restart")
  BY <1>2, <1>17, <1>3, <1>4, <1>5, <1>6, <1>7, <1>8, <1>9 DEF TryDoes
<1>18. CASE TryDoes("record-enable", "enable", "enable")
  BY <1>2, <1>18, <1>3, <1>4, <1>5, <1>6, <1>7, <1>8, <1>9 DEF TryDoes
<1>19. CASE FinishSetupDoes
  BY <1>3, <1>4, <1>6, <1>19 DEF FinishSetupDoes, RecordAt
<1>20. CASE UndoRecordDoes
  <2>1. CASE record.at = "final"
    BY <1>3, <1>4, <1>6, <1>20, <2>1 DEF UndoRecordDoes, RecordAt, RecordShape, Records
  <2>2. CASE record.at # "final"
    BY <1>3, <1>4, <1>5, <1>6, <1>20, <2>2 DEF UndoRecordDoes, RecordAt, RecordShape
  <2> QED BY <2>1, <2>2
<1>21. CASE StageRecordDoes
  BY <1>9, <1>21 DEF StageRecordDoes
<1>22. CASE RestoreDoes
  BY <1>9, <1>22 DEF RestoreDoes
<1> QED BY <1>1, <1>10, <1>11, <1>12, <1>13, <1>14, <1>15, <1>16, <1>17, <1>18, <1>19, <1>20, <1>21, <1>22 DEF Steps, PrepareSetupDoes, ReadSecretsDoes, MakeConfigDoes, AddPackageDoes, MakePathDoes, ReloadDoes, RestartDoes, EnableDoes, UndoPackageDoes, RemovePathDoes, RemoveConfigDoes, UndoEnableDoes, UndoReloadDoes, UndoRestartDoes, SetupCallFailsDoes, PrepareUninstallDoes, AuthorizeUninstallDoes, DisableDoes, RemovePackageDoes, StagePathDoes, StagedDoes, UnloadDoes, RestorePackageDoes, RestoreEdgeDoes, DeleteTreeDoes, DeletedDoes, UninstallCallFailsDoes, PrepareResetDoes, ReadPasswordDoes, StopDoes, ReplaceDocumentDoes, ReplaceSecretDoes, StartDoes, RestoreDocumentDoes, RestoreSecretDoes, RestoreServiceDoes, ResetCallFailsDoes, KillDoes, ServiceWritesDoes, OperatorAddsDropIn, RebootDoes

(* Setup claims no bundle that was there before.                           *)
LEMMA ForeignBundleStep ==
  ASSUME Typed, Running, Running', RecordShape, RecordAt, SavedAt, SavedAt', OutputAt, ForeignBundle, Next
  PROVE  ForeignBundle'
<1> USE DEF Moved, Went, Onward, Steady, Over, OverBut, AtIdle, OnPath, OnNext, Began, Others, services, Notes, Puts, Replaces, Resumed, ForeignBundle, SetupPlaces, Installing, Undoing, UninstallPlaces, Leaving, Restoring
<1>1. Steps
  BY EveryStep
<1>2. Typed' /\ output' = output
  BY TypedStep, SameHost
<1>3. /\ cli.at \notin SetupPlaces =>
           Covering' = Covering \/ (cli'.at = "idle" /\ Covering' = NoRecord /\ cli.at \in UninstallPlaces)
      /\ cli.at \in SetupPlaces => Covering = record /\ Covering' = record'
  BY CoveringStep
<1>4. \A p \in Paths : disk'[p] = "theirs" => disk[p] = "theirs"
  BY NothingAppears
<1>5. NoRecord.package = FALSE /\ NoRecord.created = {} /\ NoRecord.at = "none"
  BY DEF NoRecord
<1>6. record \in Records /\ cli.adopt \in BOOLEAN /\ output \in BOOLEAN /\ record.created \subseteq Paths
  BY DEF Typed, Commands, Records
<1>7. (cli.at \in UninstallPlaces => Covering = cli.saved) /\ (cli.at \notin UninstallPlaces => Covering = record)
  BY CoveringIs DEF Typed, Commands
<1>8. Covering.created \subseteq Paths
  BY <1>7 DEF Typed, Commands, Records
<1> HIDE DEF Covering
<1>9. CASE PrepareSetupDoes
  <2>1. bundle \in {"none", "ours", "theirs", "other"} /\ (~Interrupted => record.at = "none" /\ ~record.package)
    BY <1>5, <1>9 DEF PrepareSetupDoes, Ready, Typed, RecordShape
  <2>2. AdoptsBundle => bundle \in {"ours", "theirs"} /\ ~record.package
    BY <2>1 DEF AdoptsBundle, Adoptable
  <2>3. ~AdoptsBundle /\ ~output => bundle \in {"none", "ours"}
    BY <1>7, <1>9, <2>1 DEF PrepareSetupDoes, AdoptsBundle, Adoptable, Ready
  <2>4. /\ cli.at = "idle" /\ cli'.at = "secrets" /\ UNCHANGED <<record, bundle>>
        /\ cli'.adopt = AdoptsBundle /\ (~output => bundle # "other")
    BY <1>9 DEF PrepareSetupDoes, Ready
  <2>5. (cli'.adopt => AdoptsBundle) /\ (~cli'.adopt => ~AdoptsBundle)
    BY <2>4
  <2> QED BY <1>2, <1>3, <2>2, <2>3, <2>4, <2>5
<1>10. CASE ReadSecretsDoes
  BY <1>2, <1>10, <1>3, <1>4, <1>5, <1>6, <1>7, <1>8 DEF ReadSecretsDoes
<1>11. CASE WriteJournalDoes
  BY <1>2, <1>11, <1>3, <1>4, <1>5, <1>6, <1>7, <1>8 DEF WriteJournalDoes, FirstJournal, Journal
<1>12. CASE TearJournalDoes
  BY <1>2, <1>12, <1>3, <1>4, <1>5, <1>6, <1>7, <1>8 DEF TearJournalDoes
<1>13. CASE MakeConfigDoes
  BY <1>2, <1>13, <1>3, <1>4, <1>5, <1>6, <1>7, <1>8 DEF MakeConfigDoes
<1>14. CASE MoveJournalDoes
  BY <1>2, <1>14, <1>3, <1>4, <1>5, <1>6, <1>7, <1>8 DEF MoveJournalDoes
<1>15. CASE RecordPackageDoes
  BY <1>2, <1>15, <1>3, <1>4, <1>5, <1>6, <1>7, <1>8 DEF RecordPackageDoes
<1>16. CASE AddPackageDoes
  BY <1>2, <1>16, <1>3, <1>4, <1>5, <1>6, <1>7, <1>8 DEF AddPackageDoes, RecordAt
<1>17. CASE RecordPathDoes
  BY <1>2, <1>17, <1>3, <1>4, <1>5, <1>6, <1>7, <1>8 DEF RecordPathDoes
<1>18. CASE MakePathDoes
  BY <1>2, <1>18, <1>3, <1>4, <1>5, <1>6, <1>7, <1>8 DEF MakePathDoes
<1>19. CASE TryDoes("record-reload", "reload", "reload")
  BY <1>2, <1>19, <1>3, <1>4, <1>5, <1>6, <1>7, <1>8 DEF TryDoes
<1>20. CASE ReloadDoes
  BY <1>2, <1>20, <1>3, <1>4, <1>5, <1>6, <1>7, <1>8 DEF ReloadDoes
<1>21. CASE TryDoes("record-restart", "restart", "restart")
  BY <1>2, <1>21, <1>3, <1>4, <1>5, <1>6, <1>7, <1>8 DEF TryDoes
<1>22. CASE RestartDoes
  BY <1>2, <1>22, <1>3, <1>4, <1>5, <1>6, <1>7, <1>8 DEF RestartDoes
<1>23. CASE TryDoes("record-enable", "enable", "enable")
  BY <1>2, <1>23, <1>3, <1>4, <1>5, <1>6, <1>7, <1>8 DEF TryDoes
<1>24. CASE EnableDoes
  BY <1>2, <1>24, <1>3, <1>4, <1>5, <1>6, <1>7, <1>8 DEF EnableDoes
<1>25. CASE FinishSetupDoes
  BY <1>2, <1>25, <1>3, <1>4, <1>5, <1>6, <1>7, <1>8 DEF FinishSetupDoes
<1>26. CASE UndoPackageDoes
  BY <1>2, <1>26, <1>3, <1>4, <1>5, <1>6, <1>7, <1>8 DEF UndoPackageDoes
<1>27. CASE RemovePathDoes
  BY <1>2, <1>27, <1>3, <1>4, <1>5, <1>6, <1>7, <1>8 DEF RemovePathDoes
<1>28. CASE RemoveConfigDoes
  BY <1>2, <1>28, <1>3, <1>4, <1>5, <1>6, <1>7, <1>8 DEF RemoveConfigDoes
<1>29. CASE UndoRecordDoes
  BY <1>2, <1>29, <1>3, <1>4, <1>5, <1>6, <1>7, <1>8 DEF UndoRecordDoes
<1>30. CASE UndoEnableDoes
  <2>1. /\ UNCHANGED <<record, bundle>> /\ cli'.at \in {"undo-reload", "idle"}
        /\ cli'.at # "idle" => cli'.adopt = cli.adopt
    BY <1>30 DEF UndoEnableDoes
  <2>2. cli.at = "undo-enable"
    BY <1>30 DEF UndoEnableDoes
  <2> QED BY <1>2, <1>3, <2>1, <2>2
<1>31. CASE UndoReloadDoes
  BY <1>2, <1>31, <1>3, <1>4, <1>5, <1>6, <1>7, <1>8 DEF UndoReloadDoes
<1>32. CASE UndoRestartDoes
  BY <1>2, <1>32, <1>3, <1>4, <1>5, <1>6, <1>7, <1>8 DEF UndoRestartDoes
<1>33. CASE SetupCallFailsDoes
  BY <1>2, <1>33, <1>3, <1>4, <1>5, <1>6, <1>7, <1>8 DEF SetupCallFailsDoes
<1>34. CASE PrepareUninstallDoes
  BY <1>2, <1>34, <1>3, <1>4, <1>5, <1>6, <1>7, <1>8 DEF PrepareUninstallDoes
<1>35. CASE AuthorizeUninstallDoes
  BY <1>2, <1>35, <1>3, <1>4, <1>5, <1>6, <1>7, <1>8 DEF AuthorizeUninstallDoes
<1>36. CASE DisableDoes
  <2>1. /\ UNCHANGED <<record, bundle>> /\ cli'.at \in {"remove-package", "restore"}
        /\ cli'.at # "idle" => cli'.adopt = cli.adopt
    BY <1>36 DEF DisableDoes
  <2>2. cli.at = "disable"
    BY <1>36 DEF DisableDoes
  <2> QED BY <1>2, <1>3, <2>1, <2>2
<1>37. CASE RemovePackageDoes
  BY <1>2, <1>37, <1>3, <1>4, <1>5, <1>6, <1>7, <1>8 DEF RemovePackageDoes
<1>38. CASE StageRecordDoes
  BY <1>2, <1>38, <1>3, <1>4, <1>5, <1>6, <1>7, <1>8 DEF StageRecordDoes
<1>39. CASE StagePathDoes
  BY <1>2, <1>39, <1>3, <1>4, <1>5, <1>6, <1>7, <1>8 DEF StagePathDoes
<1>40. CASE StagedDoes
  BY <1>2, <1>40, <1>3, <1>4, <1>5, <1>6, <1>7, <1>8 DEF StagedDoes
<1>41. CASE UnloadDoes
  BY <1>2, <1>41, <1>3, <1>4, <1>5, <1>6, <1>7, <1>8 DEF UnloadDoes
<1>42. CASE RestoreDoes
  BY <1>2, <1>42, <1>3, <1>4, <1>5, <1>6, <1>7, <1>8 DEF RestoreDoes
<1>43. CASE RestorePackageDoes
  BY <1>2, <1>43, <1>3, <1>4, <1>5, <1>6, <1>7, <1>8 DEF RestorePackageDoes
<1>44. CASE RestoreEdgeDoes
  BY <1>2, <1>44, <1>3, <1>4, <1>5, <1>6, <1>7, <1>8 DEF RestoreEdgeDoes
<1>45. CASE DeleteTreeDoes
  BY <1>2, <1>45, <1>3, <1>4, <1>5, <1>6, <1>7, <1>8 DEF DeleteTreeDoes
<1>46. CASE DeletedDoes
  BY <1>2, <1>46, <1>3, <1>4, <1>5, <1>6, <1>7, <1>8 DEF DeletedDoes
<1>47. CASE UninstallCallFailsDoes
  BY <1>2, <1>47, <1>3, <1>4, <1>5, <1>6, <1>7, <1>8 DEF UninstallCallFailsDoes
<1>48. CASE PrepareResetDoes
  BY <1>2, <1>48, <1>3, <1>4, <1>5, <1>6, <1>7, <1>8 DEF PrepareResetDoes
<1>49. CASE ReadPasswordDoes
  BY <1>2, <1>49, <1>3, <1>4, <1>5, <1>6, <1>7, <1>8 DEF ReadPasswordDoes
<1>50. CASE StopDoes
  BY <1>2, <1>50, <1>3, <1>4, <1>5, <1>6, <1>7, <1>8 DEF StopDoes
<1>51. CASE ReplaceDocumentDoes
  BY <1>2, <1>51, <1>3, <1>4, <1>5, <1>6, <1>7, <1>8 DEF ReplaceDocumentDoes
<1>52. CASE ReplaceSecretDoes
  BY <1>2, <1>52, <1>3, <1>4, <1>5, <1>6, <1>7, <1>8 DEF ReplaceSecretDoes
<1>53. CASE StartDoes
  BY <1>2, <1>53, <1>3, <1>4, <1>5, <1>6, <1>7, <1>8 DEF StartDoes
<1>54. CASE RestoreDocumentDoes
  BY <1>2, <1>54, <1>3, <1>4, <1>5, <1>6, <1>7, <1>8 DEF RestoreDocumentDoes
<1>55. CASE RestoreSecretDoes
  BY <1>2, <1>55, <1>3, <1>4, <1>5, <1>6, <1>7, <1>8 DEF RestoreSecretDoes
<1>56. CASE RestoreServiceDoes
  BY <1>2, <1>56, <1>3, <1>4, <1>5, <1>6, <1>7, <1>8 DEF RestoreServiceDoes
<1>57. CASE ResetCallFailsDoes
  BY <1>2, <1>57, <1>3, <1>4, <1>5, <1>6, <1>7, <1>8 DEF ResetCallFailsDoes
<1>58. CASE KillDoes
  BY <1>2, <1>58, <1>3, <1>4, <1>5, <1>6, <1>7, <1>8 DEF KillDoes
<1>59. CASE ServiceWritesDoes
  BY <1>2, <1>59, <1>3, <1>4, <1>5, <1>6, <1>7, <1>8 DEF ServiceWritesDoes
<1>60. CASE OperatorAddsDropIn
  BY <1>2, <1>60, <1>3, <1>4, <1>5, <1>6, <1>7, <1>8 DEF OperatorAddsDropIn
<1>61. CASE RebootDoes
  BY <1>2, <1>61, <1>3, <1>4, <1>5, <1>6, <1>7, <1>8 DEF RebootDoes
<1> QED BY <1>1, <1>9, <1>10, <1>11, <1>12, <1>13, <1>14, <1>15, <1>16, <1>17, <1>18, <1>19, <1>20, <1>21, <1>22, <1>23, <1>24, <1>25, <1>26, <1>27, <1>28, <1>29, <1>30, <1>31, <1>32, <1>33, <1>34, <1>35, <1>36, <1>37, <1>38, <1>39, <1>40, <1>41, <1>42, <1>43, <1>44, <1>45, <1>46, <1>47, <1>48, <1>49, <1>50, <1>51, <1>52, <1>53, <1>54, <1>55, <1>56, <1>57, <1>58, <1>59, <1>60, <1>61 DEF Steps

(* Every path that setup makes is claimed before.                          *)
LEMMA ClaimedPathsStep ==
  ASSUME Typed, Running, Running', RecordShape, Bootstrapped, RecordAt, SavedAt, SavedAt', Nested, ClaimedPaths, Next
  PROVE  ClaimedPaths'
<1> USE DEF Moved, Went, Onward, Steady, Over, OverBut, AtIdle, OnPath, OnNext, Began, Others, services, Notes, Puts, Replaces, Resumed, ClaimedPaths, SetupPlaces, Installing, Undoing, UninstallPlaces, Leaving, Restoring
<1>1. Steps
  BY EveryStep
<1>2. Typed' /\ output' = output
  BY TypedStep, SameHost
<1>3. /\ cli.at \notin SetupPlaces =>
           Covering' = Covering \/ (cli'.at = "idle" /\ Covering' = NoRecord /\ cli.at \in UninstallPlaces)
      /\ cli.at \in SetupPlaces => Covering = record /\ Covering' = record'
      /\ cli'.at \notin UninstallPlaces => Covering' = record'
  BY CoveringStep
<1>4. cli.at \notin {"make", "make-config"} => \A p \in Paths : disk'[p] = "ours" => disk[p] = "ours"
  BY NothingAppears
<1>5. NoRecord.package = FALSE /\ NoRecord.created = {} /\ NoRecord.at = "none"
  BY DEF NoRecord
<1>6. record \in Records /\ output \in BOOLEAN /\ record.created \subseteq Paths
  BY DEF Typed, Commands, Records
<1>7. (cli.at \in UninstallPlaces => Covering = cli.saved) /\ (cli.at \notin UninstallPlaces => Covering = record)
  BY CoveringIs DEF Typed, Commands
<1>8. \A p : Tree(p)' = Tree(p)
  BY SameHost
<1>9. cli'.lost \in BOOLEAN /\ cli.lost \in BOOLEAN /\ (cli.lost => cli'.lost)
  BY <1>2, LostStays DEF Typed, Commands
<1>10. /\ cli.at \in UninstallPlaces => record = cli.saved \/ record = NoRecord
       /\ cli.at = "authorize" => record = cli.saved
       /\ cli.at = "restore-edge" /\ record = NoRecord => cli.lost
       /\ cli.at \in UninstallPlaces /\ "package" \in cli.tried => cli.saved.package
  BY <1>5 DEF SavedAt
<1> HIDE DEF Covering
<1>11. CASE PrepareSetupDoes
  BY <1>2, <1>11, <1>3, <1>4, <1>5, <1>6, <1>7, <1>8, <1>9, <1>10 DEF PrepareSetupDoes
<1>12. CASE ReadSecretsDoes
  BY <1>2, <1>12, <1>3, <1>4, <1>5, <1>6, <1>7, <1>8, <1>9, <1>10 DEF ReadSecretsDoes
<1>13. CASE WriteJournalDoes
  <2>1. ~cli.lost => \A p \in Paths : disk[p] = "ours" => p = "configDirectory"
    BY <1>3, <1>5, <1>13 DEF WriteJournalDoes, RecordAt, RecordShape
  <2>2. ~cli.lost => \A p \in Paths : disk'[p] # "ours"
    BY <1>13, <2>1 DEF WriteJournalDoes, GivenUp
  <2>3. cli.at = "journal" /\ cli'.at \in {"undo-package", "idle", "package", "make-config"}
    BY <1>13 DEF WriteJournalDoes
  <2> QED BY <1>9, <2>2, <2>3
<1>14. CASE TearJournalDoes
  <2>1. ~cli.lost => \A p \in Paths : disk[p] = "ours" => p = "configDirectory"
    BY <1>3, <1>5, <1>14 DEF TearJournalDoes, RecordAt, RecordShape
  <2>2. ~cli.lost => \A p \in Paths : disk'[p] # "ours"
    BY <1>14, <2>1 DEF TearJournalDoes, GivenUp
  <2>3. cli.at = "journal" /\ cli'.at \in {"undo-package", "idle", "package", "make-config"}
    BY <1>14 DEF TearJournalDoes
  <2> QED BY <1>9, <2>2, <2>3
<1>15. CASE MakeConfigDoes
  BY <1>2, <1>15, <1>3, <1>4, <1>5, <1>6, <1>7, <1>8, <1>9, <1>10 DEF MakeConfigDoes, RecordAt, RecordShape
<1>16. CASE MoveJournalDoes
  BY <1>2, <1>16, <1>3, <1>4, <1>5, <1>6, <1>7, <1>8, <1>9, <1>10 DEF MoveJournalDoes
<1>17. CASE RecordPackageDoes
  BY <1>2, <1>17, <1>3, <1>4, <1>5, <1>6, <1>7, <1>8, <1>9, <1>10 DEF RecordPackageDoes
<1>18. CASE AddPackageDoes
  BY <1>2, <1>18, <1>3, <1>4, <1>5, <1>6, <1>7, <1>8, <1>9, <1>10 DEF AddPackageDoes
<1>19. CASE RecordPathDoes
  BY <1>2, <1>19, <1>3, <1>4, <1>5, <1>6, <1>7, <1>8, <1>9, <1>10 DEF RecordPathDoes, Path
<1>20. CASE MakePathDoes
  BY <1>2, <1>20, <1>3, <1>4, <1>5, <1>6, <1>7, <1>8, <1>9, <1>10 DEF MakePathDoes, RecordAt, Path
<1>21. CASE TryDoes("record-reload", "reload", "reload")
  BY <1>2, <1>21, <1>3, <1>4, <1>5, <1>6, <1>7, <1>8, <1>9, <1>10 DEF TryDoes
<1>22. CASE ReloadDoes
  BY <1>2, <1>22, <1>3, <1>4, <1>5, <1>6, <1>7, <1>8, <1>9, <1>10 DEF ReloadDoes
<1>23. CASE TryDoes("record-restart", "restart", "restart")
  BY <1>2, <1>23, <1>3, <1>4, <1>5, <1>6, <1>7, <1>8, <1>9, <1>10 DEF TryDoes
<1>24. CASE RestartDoes
  BY <1>2, <1>24, <1>3, <1>4, <1>5, <1>6, <1>7, <1>8, <1>9, <1>10 DEF RestartDoes
<1>25. CASE TryDoes("record-enable", "enable", "enable")
  BY <1>2, <1>25, <1>3, <1>4, <1>5, <1>6, <1>7, <1>8, <1>9, <1>10 DEF TryDoes
<1>26. CASE EnableDoes
  BY <1>2, <1>26, <1>3, <1>4, <1>5, <1>6, <1>7, <1>8, <1>9, <1>10 DEF EnableDoes
<1>27. CASE FinishSetupDoes
  BY <1>2, <1>27, <1>3, <1>4, <1>5, <1>6, <1>7, <1>8, <1>9, <1>10 DEF FinishSetupDoes
<1>28. CASE UndoPackageDoes
  BY <1>2, <1>28, <1>3, <1>4, <1>5, <1>6, <1>7, <1>8, <1>9, <1>10 DEF UndoPackageDoes
<1>29. CASE RemovePathDoes
  BY <1>2, <1>29, <1>3, <1>4, <1>5, <1>6, <1>7, <1>8, <1>9, <1>10 DEF RemovePathDoes
<1>30. CASE RemoveConfigDoes
  <2>1. record.at # "final" /\ "configDirectory" \in record.created => Empty("configDirectory")
    BY DEF RecordShape, Bootstrapped, Empty, NoRecord, Records, Typed
  <2>2. disk["configDirectory"] # "ours" \/ "configDirectory" \in record.created \/ cli.lost
    BY <1>3, <1>30 DEF RemoveConfigDoes, Paths, Directories
  <2> QED BY <1>2, <1>3, <1>4, <1>9, <1>30, <2>1, <2>2 DEF RemoveConfigDoes, Paths, Directories
<1>31. CASE UndoRecordDoes
  BY <1>2, <1>31, <1>3, <1>4, <1>5, <1>6, <1>7, <1>8, <1>9, <1>10 DEF UndoRecordDoes, GivenUp
<1>32. CASE UndoEnableDoes
  BY <1>2, <1>32, <1>3, <1>4, <1>5, <1>6, <1>7, <1>8, <1>9, <1>10 DEF UndoEnableDoes
<1>33. CASE UndoReloadDoes
  BY <1>2, <1>33, <1>3, <1>4, <1>5, <1>6, <1>7, <1>8, <1>9, <1>10 DEF UndoReloadDoes
<1>34. CASE UndoRestartDoes
  BY <1>2, <1>34, <1>3, <1>4, <1>5, <1>6, <1>7, <1>8, <1>9, <1>10 DEF UndoRestartDoes
<1>35. CASE SetupCallFailsDoes
  BY <1>2, <1>35, <1>3, <1>4, <1>5, <1>6, <1>7, <1>8, <1>9, <1>10 DEF SetupCallFailsDoes
<1>36. CASE PrepareUninstallDoes
  BY <1>2, <1>36, <1>3, <1>4, <1>5, <1>6, <1>7, <1>8, <1>9, <1>10 DEF PrepareUninstallDoes
<1>37. CASE AuthorizeUninstallDoes
  <2>1. /\ UNCHANGED <<record, bundle, disk>> /\ cli.at = "authorize" /\ cli'.at \in {"disable", "idle"}
        /\ cli'.at = "disable" => cli'.saved = cli.saved
    BY <1>37 DEF AuthorizeUninstallDoes
  <2>2. Covering' = Covering
    BY <1>3, <1>7, <1>10, <2>1
  <2> QED BY <1>8, <1>9, <2>1, <2>2
<1>38. CASE DisableDoes
  BY <1>2, <1>38, <1>3, <1>4, <1>5, <1>6, <1>7, <1>8, <1>9, <1>10 DEF DisableDoes
<1>39. CASE RemovePackageDoes
  BY <1>2, <1>39, <1>3, <1>4, <1>5, <1>6, <1>7, <1>8, <1>9, <1>10 DEF RemovePackageDoes
<1>40. CASE StageRecordDoes
  BY <1>2, <1>40, <1>3, <1>4, <1>5, <1>6, <1>7, <1>8, <1>9, <1>10 DEF StageRecordDoes
<1>41. CASE StagePathDoes
  BY <1>2, <1>41, <1>3, <1>4, <1>5, <1>6, <1>7, <1>8, <1>9, <1>10 DEF StagePathDoes
<1>42. CASE StagedDoes
  <2>1. cli.saved.created \subseteq Paths /\ RemovalRoots \subseteq Managed
    BY <1>42, WhileUninstalling, ManagedPaths DEF StagedDoes
  <2>2. ASSUME ~cli.lost, NEW p \in Paths, disk[p] = "ours" PROVE \E root \in cli.aside : p \in Tree(root)
    <3>1. p \in cli.saved.created /\ Exists(p)
      BY <1>7, <1>42, <2>2 DEF StagedDoes, Exists
    <3>2. PICK root \in RemovalRoots : p \in Tree(root) /\ Exists(root)
      BY <2>1, <3>1, RootAbove
    <3>3. root \in cli.aside
      BY <1>42, <2>1, <3>2 DEF StagedDoes
    <3> QED BY <3>2, <3>3
  <2> QED BY <1>2, <1>3, <1>4, <1>8, <1>9, <1>42, <2>2 DEF StagedDoes
<1>43. CASE UnloadDoes
  BY <1>2, <1>43, <1>3, <1>4, <1>5, <1>6, <1>7, <1>8, <1>9, <1>10 DEF UnloadDoes
<1>44. CASE RestoreDoes
  BY <1>2, <1>44, <1>3, <1>4, <1>5, <1>6, <1>7, <1>8, <1>9, <1>10 DEF RestoreDoes
<1>45. CASE RestorePackageDoes
  BY <1>2, <1>45, <1>3, <1>4, <1>5, <1>6, <1>7, <1>8, <1>9, <1>10 DEF RestorePackageDoes
<1>46. CASE RestoreEdgeDoes
  <2>1. Covering' = Covering \/ cli'.lost
    BY <1>3, <1>5, <1>7, <1>10, <1>46 DEF RestoreEdgeDoes
  <2>2. cli'.at = "idle" /\ UNCHANGED <<record, bundle, disk>>
    BY <1>46 DEF RestoreEdgeDoes
  <2> QED BY <1>8, <1>9, <2>1, <2>2
<1>47. CASE DeleteTreeDoes
  BY <1>2, <1>47, <1>3, <1>4, <1>5, <1>6, <1>7, <1>8, <1>9, <1>10 DEF DeleteTreeDoes, Gone, Tree, Within
<1>48. CASE DeletedDoes
  BY <1>2, <1>48, <1>3, <1>4, <1>5, <1>6, <1>7, <1>8, <1>9, <1>10 DEF DeletedDoes
<1>49. CASE UninstallCallFailsDoes
  BY <1>2, <1>49, <1>3, <1>4, <1>5, <1>6, <1>7, <1>8, <1>9, <1>10 DEF UninstallCallFailsDoes, Gone, Tree, Within
<1>50. CASE PrepareResetDoes
  BY <1>2, <1>50, <1>3, <1>4, <1>5, <1>6, <1>7, <1>8, <1>9, <1>10 DEF PrepareResetDoes
<1>51. CASE ReadPasswordDoes
  BY <1>2, <1>51, <1>3, <1>4, <1>5, <1>6, <1>7, <1>8, <1>9, <1>10 DEF ReadPasswordDoes
<1>52. CASE StopDoes
  BY <1>2, <1>52, <1>3, <1>4, <1>5, <1>6, <1>7, <1>8, <1>9, <1>10 DEF StopDoes
<1>53. CASE ReplaceDocumentDoes
  BY <1>2, <1>53, <1>3, <1>4, <1>5, <1>6, <1>7, <1>8, <1>9, <1>10 DEF ReplaceDocumentDoes
<1>54. CASE ReplaceSecretDoes
  BY <1>2, <1>54, <1>3, <1>4, <1>5, <1>6, <1>7, <1>8, <1>9, <1>10 DEF ReplaceSecretDoes
<1>55. CASE StartDoes
  BY <1>2, <1>55, <1>3, <1>4, <1>5, <1>6, <1>7, <1>8, <1>9, <1>10 DEF StartDoes
<1>56. CASE RestoreDocumentDoes
  BY <1>2, <1>56, <1>3, <1>4, <1>5, <1>6, <1>7, <1>8, <1>9, <1>10 DEF RestoreDocumentDoes
<1>57. CASE RestoreSecretDoes
  BY <1>2, <1>57, <1>3, <1>4, <1>5, <1>6, <1>7, <1>8, <1>9, <1>10 DEF RestoreSecretDoes
<1>58. CASE RestoreServiceDoes
  BY <1>2, <1>58, <1>3, <1>4, <1>5, <1>6, <1>7, <1>8, <1>9, <1>10 DEF RestoreServiceDoes
<1>59. CASE ResetCallFailsDoes
  BY <1>2, <1>59, <1>3, <1>4, <1>5, <1>6, <1>7, <1>8, <1>9, <1>10 DEF ResetCallFailsDoes
<1>60. CASE KillDoes
  <2>1. cli.at \in UninstallPlaces => record = cli.saved \/ cli'.lost
    BY <1>5, <1>10, <1>60 DEF KillDoes, Running
  <2>2. cli.at \in UninstallPlaces \/ cli.at \in SetupPlaces \/ Covering = record
    BY <1>7
  <2>3. record' = record /\ cli'.at = "idle"
    BY <1>60 DEF KillDoes
  <2>4. Covering' = Covering \/ cli'.lost
    BY <1>3, <1>7, <2>1, <2>2, <2>3
  <2>5. \A p \in Paths : disk'[p] = "ours" => disk[p] = "ours"
    BY <1>60 DEF KillDoes, Gone, Tree, Within
  <2>6. UNCHANGED bundle
    BY <1>60 DEF KillDoes
  <2> QED BY <1>9, <2>3, <2>4, <2>5, <2>6
<1>61. CASE ServiceWritesDoes
  <2>1. cli'.at = cli.at /\ cli'.aside = cli.aside /\ UNCHANGED <<record, cli>>
    BY <1>61 DEF ServiceWritesDoes
  <2>2. disk'["configDirectory"] = disk["configDirectory"] /\ Covering' = Covering
    BY <1>3, <1>61, <2>1 DEF ServiceWritesDoes, Paths, Directories, Covering, At
  <2>3. cli.at \notin {"make", "make-config"} \/ disk' = disk \/ \A p \in Paths : disk'[p] = "ours" => disk[p] = "ours"
    BY <1>61 DEF ServiceWritesDoes
  <2> QED BY <1>4, <1>8, <1>9, <2>1, <2>2, <2>3
<1>62. CASE OperatorAddsDropIn
  BY <1>2, <1>62, <1>3, <1>4, <1>5, <1>6, <1>7, <1>8, <1>9, <1>10 DEF OperatorAddsDropIn
<1>63. CASE RebootDoes
  BY <1>2, <1>63, <1>3, <1>4, <1>5, <1>6, <1>7, <1>8, <1>9, <1>10 DEF RebootDoes
<1> QED BY <1>1, <1>11, <1>12, <1>13, <1>14, <1>15, <1>16, <1>17, <1>18, <1>19, <1>20, <1>21, <1>22, <1>23, <1>24, <1>25, <1>26, <1>27, <1>28, <1>29, <1>30, <1>31, <1>32, <1>33, <1>34, <1>35, <1>36, <1>37, <1>38, <1>39, <1>40, <1>41, <1>42, <1>43, <1>44, <1>45, <1>46, <1>47, <1>48, <1>49, <1>50, <1>51, <1>52, <1>53, <1>54, <1>55, <1>56, <1>57, <1>58, <1>59, <1>60, <1>61, <1>62, <1>63 DEF Steps

(* So is the bundle.                                                       *)
LEMMA ClaimedBundleStep ==
  ASSUME Typed, Running, Running', RecordShape, Bootstrapped, RecordAt, SavedAt, SavedAt', Nested, ClaimedBundle, Next
  PROVE  ClaimedBundle'
<1> USE DEF Moved, Went, Onward, Steady, Over, OverBut, AtIdle, OnPath, OnNext, Began, Others, services, Notes, Puts, Replaces, Resumed, ClaimedBundle, SetupPlaces, Installing, Undoing, UninstallPlaces, Leaving, Restoring
<1>1. Steps
  BY EveryStep
<1>2. Typed' /\ output' = output
  BY TypedStep, SameHost
<1>3. /\ cli.at \notin SetupPlaces =>
           Covering' = Covering \/ (cli'.at = "idle" /\ Covering' = NoRecord /\ cli.at \in UninstallPlaces)
      /\ cli.at \in SetupPlaces => Covering = record /\ Covering' = record'
      /\ cli'.at \notin UninstallPlaces => Covering' = record'
  BY CoveringStep
<1>4. cli.at \notin {"make", "make-config"} => \A p \in Paths : disk'[p] = "ours" => disk[p] = "ours"
  BY NothingAppears
<1>5. NoRecord.package = FALSE /\ NoRecord.created = {} /\ NoRecord.at = "none"
  BY DEF NoRecord
<1>6. record \in Records /\ output \in BOOLEAN /\ record.created \subseteq Paths
  BY DEF Typed, Commands, Records
<1>7. (cli.at \in UninstallPlaces => Covering = cli.saved) /\ (cli.at \notin UninstallPlaces => Covering = record)
  BY CoveringIs DEF Typed, Commands
<1>8. \A p : Tree(p)' = Tree(p)
  BY SameHost
<1>9. cli'.lost \in BOOLEAN /\ cli.lost \in BOOLEAN /\ (cli.lost => cli'.lost)
  BY <1>2, LostStays DEF Typed, Commands
<1>10. /\ cli.at \in UninstallPlaces => record = cli.saved \/ record = NoRecord
       /\ cli.at = "authorize" => record = cli.saved
       /\ cli.at = "restore-edge" /\ record = NoRecord => cli.lost
       /\ cli.at \in UninstallPlaces /\ "package" \in cli.tried => cli.saved.package
  BY <1>5 DEF SavedAt
<1> HIDE DEF Covering
<1>11. CASE PrepareSetupDoes
  BY <1>2, <1>11, <1>3, <1>4, <1>5, <1>6, <1>7, <1>8, <1>9, <1>10 DEF PrepareSetupDoes
<1>12. CASE ReadSecretsDoes
  BY <1>2, <1>12, <1>3, <1>4, <1>5, <1>6, <1>7, <1>8, <1>9, <1>10 DEF ReadSecretsDoes
<1>13. CASE WriteJournalDoes
  <2>1. cli.lost \/ bundle # "ours"
    BY <1>3, <1>5, <1>13 DEF WriteJournalDoes, RecordAt, RecordShape, NothingClaimed
  <2>2. cli.at = "journal" /\ UNCHANGED bundle
    BY <1>13 DEF WriteJournalDoes
  <2> QED BY <1>9, <2>1, <2>2
<1>14. CASE TearJournalDoes
  <2>1. cli.lost \/ bundle # "ours"
    BY <1>3, <1>5, <1>14 DEF TearJournalDoes, RecordAt, RecordShape, NothingClaimed
  <2>2. cli.at = "journal" /\ UNCHANGED bundle
    BY <1>14 DEF TearJournalDoes
  <2> QED BY <1>9, <2>1, <2>2
<1>15. CASE MakeConfigDoes
  BY <1>2, <1>15, <1>3, <1>4, <1>5, <1>6, <1>7, <1>8, <1>9, <1>10 DEF MakeConfigDoes
<1>16. CASE MoveJournalDoes
  BY <1>2, <1>16, <1>3, <1>4, <1>5, <1>6, <1>7, <1>8, <1>9, <1>10 DEF MoveJournalDoes
<1>17. CASE RecordPackageDoes
  BY <1>2, <1>17, <1>3, <1>4, <1>5, <1>6, <1>7, <1>8, <1>9, <1>10 DEF RecordPackageDoes
<1>18. CASE AddPackageDoes
  BY <1>2, <1>18, <1>3, <1>4, <1>5, <1>6, <1>7, <1>8, <1>9, <1>10 DEF AddPackageDoes, RecordAt
<1>19. CASE RecordPathDoes
  BY <1>2, <1>19, <1>3, <1>4, <1>5, <1>6, <1>7, <1>8, <1>9, <1>10 DEF RecordPathDoes
<1>20. CASE MakePathDoes
  BY <1>2, <1>20, <1>3, <1>4, <1>5, <1>6, <1>7, <1>8, <1>9, <1>10 DEF MakePathDoes
<1>21. CASE TryDoes("record-reload", "reload", "reload")
  BY <1>2, <1>21, <1>3, <1>4, <1>5, <1>6, <1>7, <1>8, <1>9, <1>10 DEF TryDoes
<1>22. CASE ReloadDoes
  BY <1>2, <1>22, <1>3, <1>4, <1>5, <1>6, <1>7, <1>8, <1>9, <1>10 DEF ReloadDoes
<1>23. CASE TryDoes("record-restart", "restart", "restart")
  BY <1>2, <1>23, <1>3, <1>4, <1>5, <1>6, <1>7, <1>8, <1>9, <1>10 DEF TryDoes
<1>24. CASE RestartDoes
  BY <1>2, <1>24, <1>3, <1>4, <1>5, <1>6, <1>7, <1>8, <1>9, <1>10 DEF RestartDoes
<1>25. CASE TryDoes("record-enable", "enable", "enable")
  BY <1>2, <1>25, <1>3, <1>4, <1>5, <1>6, <1>7, <1>8, <1>9, <1>10 DEF TryDoes
<1>26. CASE EnableDoes
  BY <1>2, <1>26, <1>3, <1>4, <1>5, <1>6, <1>7, <1>8, <1>9, <1>10 DEF EnableDoes
<1>27. CASE FinishSetupDoes
  BY <1>2, <1>27, <1>3, <1>4, <1>5, <1>6, <1>7, <1>8, <1>9, <1>10 DEF FinishSetupDoes
<1>28. CASE UndoPackageDoes
  BY <1>2, <1>28, <1>3, <1>4, <1>5, <1>6, <1>7, <1>8, <1>9, <1>10 DEF UndoPackageDoes
<1>29. CASE RemovePathDoes
  BY <1>2, <1>29, <1>3, <1>4, <1>5, <1>6, <1>7, <1>8, <1>9, <1>10 DEF RemovePathDoes
<1>30. CASE RemoveConfigDoes
  BY <1>2, <1>30, <1>3, <1>4, <1>5, <1>6, <1>7, <1>8, <1>9, <1>10 DEF RemoveConfigDoes
<1>31. CASE UndoRecordDoes
  BY <1>2, <1>31, <1>3, <1>4, <1>5, <1>6, <1>7, <1>8, <1>9, <1>10 DEF UndoRecordDoes
<1>32. CASE UndoEnableDoes
  BY <1>2, <1>32, <1>3, <1>4, <1>5, <1>6, <1>7, <1>8, <1>9, <1>10 DEF UndoEnableDoes
<1>33. CASE UndoReloadDoes
  BY <1>2, <1>33, <1>3, <1>4, <1>5, <1>6, <1>7, <1>8, <1>9, <1>10 DEF UndoReloadDoes
<1>34. CASE UndoRestartDoes
  BY <1>2, <1>34, <1>3, <1>4, <1>5, <1>6, <1>7, <1>8, <1>9, <1>10 DEF UndoRestartDoes
<1>35. CASE SetupCallFailsDoes
  BY <1>2, <1>35, <1>3, <1>4, <1>5, <1>6, <1>7, <1>8, <1>9, <1>10 DEF SetupCallFailsDoes
<1>36. CASE PrepareUninstallDoes
  BY <1>2, <1>36, <1>3, <1>4, <1>5, <1>6, <1>7, <1>8, <1>9, <1>10 DEF PrepareUninstallDoes
<1>37. CASE AuthorizeUninstallDoes
  <2>1. /\ UNCHANGED <<record, bundle, disk>> /\ cli.at = "authorize" /\ cli'.at \in {"disable", "idle"}
        /\ cli'.at = "disable" => cli'.saved = cli.saved
    BY <1>37 DEF AuthorizeUninstallDoes
  <2>2. Covering' = Covering
    BY <1>3, <1>7, <1>10, <2>1
  <2> QED BY <1>8, <1>9, <2>1, <2>2
<1>38. CASE DisableDoes
  BY <1>2, <1>38, <1>3, <1>4, <1>5, <1>6, <1>7, <1>8, <1>9, <1>10 DEF DisableDoes
<1>39. CASE RemovePackageDoes
  BY <1>2, <1>39, <1>3, <1>4, <1>5, <1>6, <1>7, <1>8, <1>9, <1>10 DEF RemovePackageDoes
<1>40. CASE StageRecordDoes
  BY <1>2, <1>40, <1>3, <1>4, <1>5, <1>6, <1>7, <1>8, <1>9, <1>10 DEF StageRecordDoes
<1>41. CASE StagePathDoes
  BY <1>2, <1>41, <1>3, <1>4, <1>5, <1>6, <1>7, <1>8, <1>9, <1>10 DEF StagePathDoes
<1>42. CASE StagedDoes
  BY <1>2, <1>42, <1>3, <1>4, <1>5, <1>6, <1>7, <1>8, <1>9, <1>10 DEF StagedDoes
<1>43. CASE UnloadDoes
  BY <1>2, <1>43, <1>3, <1>4, <1>5, <1>6, <1>7, <1>8, <1>9, <1>10 DEF UnloadDoes
<1>44. CASE RestoreDoes
  BY <1>2, <1>44, <1>3, <1>4, <1>5, <1>6, <1>7, <1>8, <1>9, <1>10 DEF RestoreDoes
<1>45. CASE RestorePackageDoes
  <2>1. "package" \in cli.tried => Covering.package
    BY <1>7, <1>10, <1>45 DEF RestorePackageDoes
  <2>2. Covering' = Covering /\ cli'.at = "restore-edge" /\ (bundle' # bundle => "package" \in cli.tried)
    BY <1>3, <1>45 DEF RestorePackageDoes
  <2> QED BY <1>9, <2>1, <2>2
<1>46. CASE RestoreEdgeDoes
  <2>1. Covering' = Covering \/ cli'.lost
    BY <1>3, <1>5, <1>7, <1>10, <1>46 DEF RestoreEdgeDoes
  <2>2. cli'.at = "idle" /\ UNCHANGED <<record, bundle, disk>>
    BY <1>46 DEF RestoreEdgeDoes
  <2> QED BY <1>8, <1>9, <2>1, <2>2
<1>47. CASE DeleteTreeDoes
  BY <1>2, <1>47, <1>3, <1>4, <1>5, <1>6, <1>7, <1>8, <1>9, <1>10 DEF DeleteTreeDoes
<1>48. CASE DeletedDoes
  BY <1>2, <1>48, <1>3, <1>4, <1>5, <1>6, <1>7, <1>8, <1>9, <1>10 DEF DeletedDoes
<1>49. CASE UninstallCallFailsDoes
  BY <1>2, <1>49, <1>3, <1>4, <1>5, <1>6, <1>7, <1>8, <1>9, <1>10 DEF UninstallCallFailsDoes
<1>50. CASE PrepareResetDoes
  BY <1>2, <1>50, <1>3, <1>4, <1>5, <1>6, <1>7, <1>8, <1>9, <1>10 DEF PrepareResetDoes
<1>51. CASE ReadPasswordDoes
  BY <1>2, <1>51, <1>3, <1>4, <1>5, <1>6, <1>7, <1>8, <1>9, <1>10 DEF ReadPasswordDoes
<1>52. CASE StopDoes
  BY <1>2, <1>52, <1>3, <1>4, <1>5, <1>6, <1>7, <1>8, <1>9, <1>10 DEF StopDoes
<1>53. CASE ReplaceDocumentDoes
  BY <1>2, <1>53, <1>3, <1>4, <1>5, <1>6, <1>7, <1>8, <1>9, <1>10 DEF ReplaceDocumentDoes
<1>54. CASE ReplaceSecretDoes
  BY <1>2, <1>54, <1>3, <1>4, <1>5, <1>6, <1>7, <1>8, <1>9, <1>10 DEF ReplaceSecretDoes
<1>55. CASE StartDoes
  BY <1>2, <1>55, <1>3, <1>4, <1>5, <1>6, <1>7, <1>8, <1>9, <1>10 DEF StartDoes
<1>56. CASE RestoreDocumentDoes
  BY <1>2, <1>56, <1>3, <1>4, <1>5, <1>6, <1>7, <1>8, <1>9, <1>10 DEF RestoreDocumentDoes
<1>57. CASE RestoreSecretDoes
  BY <1>2, <1>57, <1>3, <1>4, <1>5, <1>6, <1>7, <1>8, <1>9, <1>10 DEF RestoreSecretDoes
<1>58. CASE RestoreServiceDoes
  BY <1>2, <1>58, <1>3, <1>4, <1>5, <1>6, <1>7, <1>8, <1>9, <1>10 DEF RestoreServiceDoes
<1>59. CASE ResetCallFailsDoes
  BY <1>2, <1>59, <1>3, <1>4, <1>5, <1>6, <1>7, <1>8, <1>9, <1>10 DEF ResetCallFailsDoes
<1>60. CASE KillDoes
  <2>1. cli.at \in UninstallPlaces => record = cli.saved \/ cli'.lost
    BY <1>5, <1>10, <1>60 DEF KillDoes, Running
  <2>2. cli.at \in UninstallPlaces \/ cli.at \in SetupPlaces \/ Covering = record
    BY <1>7
  <2>3. record' = record /\ cli'.at = "idle"
    BY <1>60 DEF KillDoes
  <2>4. Covering' = Covering \/ cli'.lost
    BY <1>3, <1>7, <2>1, <2>2, <2>3
  <2>5. \A p \in Paths : disk'[p] = "ours" => disk[p] = "ours"
    BY <1>60 DEF KillDoes, Gone, Tree, Within
  <2>6. UNCHANGED bundle
    BY <1>60 DEF KillDoes
  <2> QED BY <1>9, <2>3, <2>4, <2>5, <2>6
<1>61. CASE ServiceWritesDoes
  BY <1>2, <1>61, <1>3, <1>4, <1>5, <1>6, <1>7, <1>8, <1>9, <1>10 DEF ServiceWritesDoes
<1>62. CASE OperatorAddsDropIn
  BY <1>2, <1>62, <1>3, <1>4, <1>5, <1>6, <1>7, <1>8, <1>9, <1>10 DEF OperatorAddsDropIn
<1>63. CASE RebootDoes
  BY <1>2, <1>63, <1>3, <1>4, <1>5, <1>6, <1>7, <1>8, <1>9, <1>10 DEF RebootDoes
<1> QED BY <1>1, <1>11, <1>12, <1>13, <1>14, <1>15, <1>16, <1>17, <1>18, <1>19, <1>20, <1>21, <1>22, <1>23, <1>24, <1>25, <1>26, <1>27, <1>28, <1>29, <1>30, <1>31, <1>32, <1>33, <1>34, <1>35, <1>36, <1>37, <1>38, <1>39, <1>40, <1>41, <1>42, <1>43, <1>44, <1>45, <1>46, <1>47, <1>48, <1>49, <1>50, <1>51, <1>52, <1>53, <1>54, <1>55, <1>56, <1>57, <1>58, <1>59, <1>60, <1>61, <1>62, <1>63 DEF Steps

(* So is the edge, or else a command has said that it is not.              *)
LEMMA EdgeToldStep ==
  ASSUME Typed, Running, Running', RecordShape, Bootstrapped, RecordAt, SavedAt, SavedAt', Nested, OutputAt, EdgeTold, Next
  PROVE  EdgeTold'
<1> USE DEF Moved, Went, Onward, Steady, Over, OverBut, AtIdle, OnPath, OnNext, Began, Others, services, Notes, Puts, Replaces, Resumed, EdgeTold, SetupPlaces, Installing, Undoing, UninstallPlaces, Leaving, Restoring, ResetPlaces
<1>1. Steps
  BY EveryStep
<1>2. Typed' /\ output' = output
  BY TypedStep, SameHost
<1>3. /\ cli.at \notin SetupPlaces =>
           Covering' = Covering \/ (cli'.at = "idle" /\ Covering' = NoRecord /\ cli.at \in UninstallPlaces)
      /\ cli.at \in SetupPlaces => Covering = record /\ Covering' = record'
      /\ cli'.at \notin UninstallPlaces => Covering' = record'
  BY CoveringStep
<1>5. NoRecord.package = FALSE /\ NoRecord.created = {} /\ NoRecord.at = "none" /\ NoRecord.tried = {} /\ NoRecord.status = "none"
  BY DEF NoRecord
<1>7. (cli.at \in UninstallPlaces => Covering = cli.saved) /\ (cli.at \notin UninstallPlaces => Covering = record)
  BY CoveringIs DEF Typed, Commands
<1>10. /\ cli.at \in UninstallPlaces => record = cli.saved \/ record = NoRecord
       /\ cli.at \in {"authorize", "disable", "remove-package"} => record = cli.saved /\ cli.tried = {}
       /\ cli.at \in {"restore-package", "restore-edge"} /\ record = NoRecord => cli.lost /\ cli.broken
       /\ cli.at \in {"unload", "delete", "restore-reload"} => record = NoRecord
       /\ cli.at \in UninstallPlaces /\ "package" \in cli.tried => cli.saved.package
       /\ cli.at \in UninstallPlaces => cli.tried \subseteq {"package"} /\ "enable" \notin cli.tried
       /\ cli.at \in UninstallPlaces => cli.saved.at = "final" /\ cli.saved.status # "none"
       /\ cli.at \notin UninstallPlaces => cli.saved = NoRecord /\ cli.aside = {}
  BY <1>5 DEF SavedAt
<1>11. /\ cli.at \in ResetPlaces => record.status = "installed" /\ cli.at \notin SetupPlaces /\ cli.at \notin UninstallPlaces
       /\ cli.at \in ResetPlaces => Covering = record
  BY <1>7 DEF RecordAt, ResetPlaces
<1> HIDE DEF Covering
<1>12. record.tried \subseteq Calls /\ "enable" \in Calls /\ edge \in BOOLEAN /\ cli.broken \in BOOLEAN
  BY DEF Typed, Records, Calls, Commands
<1>13. CASE PrepareSetupDoes
  BY <1>2, <1>13, <1>3, <1>5, <1>7, <1>10, <1>11, <1>12 DEF PrepareSetupDoes, Ready, PublicPortsFree, OutputAt
<1>14. CASE ReadSecretsDoes
  BY <1>2, <1>14, <1>3, <1>5, <1>7, <1>10, <1>11, <1>12 DEF ReadSecretsDoes
<1>15. CASE WriteJournalDoes
  <2>1. ~edge
    BY <1>5, <1>15 DEF WriteJournalDoes, RecordAt, RecordShape, NothingClaimed
  <2>2. cli.at = "journal" /\ UNCHANGED edge /\ cli'.at \notin {"reload", "restart", "enable"}
    BY <1>15 DEF WriteJournalDoes
  <2> QED BY <2>1, <2>2
<1>16. CASE TearJournalDoes
  <2>1. ~edge
    BY <1>5, <1>16 DEF TearJournalDoes, RecordAt, RecordShape, NothingClaimed
  <2>2. cli.at = "journal" /\ UNCHANGED edge /\ cli'.at \notin {"reload", "restart", "enable"}
    BY <1>16 DEF TearJournalDoes
  <2> QED BY <2>1, <2>2
<1>17. CASE MakeConfigDoes
  BY <1>2, <1>17, <1>3, <1>5, <1>7, <1>10, <1>11, <1>12 DEF MakeConfigDoes
<1>18. CASE MoveJournalDoes
  BY <1>2, <1>18, <1>3, <1>5, <1>7, <1>10, <1>11, <1>12 DEF MoveJournalDoes
<1>19. CASE RecordPackageDoes
  BY <1>2, <1>19, <1>3, <1>5, <1>7, <1>10, <1>11, <1>12 DEF RecordPackageDoes
<1>20. CASE AddPackageDoes
  BY <1>2, <1>20, <1>3, <1>5, <1>7, <1>10, <1>11, <1>12 DEF AddPackageDoes
<1>21. CASE RecordPathDoes
  BY <1>2, <1>21, <1>3, <1>5, <1>7, <1>10, <1>11, <1>12 DEF RecordPathDoes
<1>22. CASE MakePathDoes
  BY <1>2, <1>22, <1>3, <1>5, <1>7, <1>10, <1>11, <1>12 DEF MakePathDoes
<1>23. CASE TryDoes("record-reload", "reload", "reload")
  BY <1>2, <1>23, <1>3, <1>5, <1>7, <1>10, <1>11, <1>12 DEF TryDoes
<1>24. CASE ReloadDoes
  BY <1>2, <1>24, <1>3, <1>5, <1>7, <1>10, <1>11, <1>12 DEF ReloadDoes
<1>25. CASE TryDoes("record-restart", "restart", "restart")
  BY <1>2, <1>25, <1>3, <1>5, <1>7, <1>10, <1>11, <1>12 DEF TryDoes
<1>26. CASE RestartDoes
  BY <1>2, <1>26, <1>3, <1>5, <1>7, <1>10, <1>11, <1>12 DEF RestartDoes
<1>27. CASE TryDoes("record-enable", "enable", "enable")
  BY <1>2, <1>27, <1>3, <1>5, <1>7, <1>10, <1>11, <1>12 DEF TryDoes
<1>28. CASE EnableDoes
  BY <1>2, <1>28, <1>3, <1>5, <1>7, <1>10, <1>11, <1>12 DEF EnableDoes
<1>29. CASE FinishSetupDoes
  BY <1>2, <1>29, <1>3, <1>5, <1>7, <1>10, <1>11, <1>12 DEF FinishSetupDoes
<1>30. CASE UndoPackageDoes
  <2>1. UNCHANGED <<record, edge>> /\ cli.at = "undo-package" /\ cli'.at \in {"idle", "undo-paths"} /\ cli'.tried \in {{}, record.tried}
    BY <1>30 DEF UndoPackageDoes
  <2>2. cli.tried = {}
    BY <2>1 DEF RecordAt
  <2> QED BY <1>3, <2>1, <2>2
<1>31. CASE RemovePathDoes
  BY <1>2, <1>31, <1>3, <1>5, <1>7, <1>10, <1>11, <1>12 DEF RemovePathDoes
<1>32. CASE RemoveConfigDoes
  BY <1>2, <1>32, <1>3, <1>5, <1>7, <1>10, <1>11, <1>12 DEF RemoveConfigDoes
<1>33. CASE UndoRecordDoes
  <2>1. UNCHANGED edge /\ cli.at = "undo-record" /\ cli'.at = "undo-enable" /\ cli'.tried = cli.tried
    BY <1>33 DEF UndoRecordDoes
  <2>2. cli.tried = record.tried
    BY <2>1 DEF RecordAt
  <2> QED BY <1>3, <2>1, <2>2
<1>34. CASE UndoEnableDoes
  <2>1. edge' => edge
    BY <1>34 DEF UndoEnableDoes, Typed
  <2>2. cli.at = "undo-enable" /\ UNCHANGED record /\ record.tried = {}
    BY <1>5, <1>34 DEF UndoEnableDoes, RecordAt, RecordShape, NothingClaimed
  <2>3. \/ cli'.at = "undo-reload" /\ ("enable" \notin cli.tried \/ ~edge')
        \/ cli'.at = "idle" /\ cli'.broken
    BY <1>34 DEF UndoEnableDoes, Bad, Told, At
  <2> QED BY <2>1, <2>2, <2>3
<1>35. CASE UndoReloadDoes
  BY <1>2, <1>35, <1>3, <1>5, <1>7, <1>10, <1>11, <1>12 DEF UndoReloadDoes, Bad, Told, Running
<1>36. CASE UndoRestartDoes
  BY <1>2, <1>36, <1>3, <1>5, <1>7, <1>10, <1>11, <1>12 DEF UndoRestartDoes, Bad, Told, Running
<1>37. CASE SetupCallFailsDoes
  <2>1. UNCHANGED <<record, edge>> /\ cli.at \in SetupPlaces
    BY <1>37 DEF SetupCallFailsDoes
  <2>2. \/ cli'.at = "undo-package" /\ cli'.tried = cli.tried /\ cli'.broken = cli.broken
        \/ cli'.at = "idle" /\ cli'.tried = {} /\ cli'.broken = Bad("broken")
    BY <1>37 DEF SetupCallFailsDoes
  <2>3. Bad("broken") \/ cli.at \notin {"undo-enable", "undo-reload", "undo-restart"}
    BY DEF Bad, Told, At
  <2>4. cli.at \in SetupPlaces /\ cli.at \notin {"undo-enable", "undo-reload", "undo-restart"} => cli.tried \subseteq record.tried
    BY DEF RecordAt
  <2> QED BY <1>3, <2>1, <2>2, <2>3, <2>4
<1>38. CASE PrepareUninstallDoes
  BY <1>2, <1>38, <1>3, <1>5, <1>7, <1>10, <1>11, <1>12 DEF PrepareUninstallDoes
<1>39. CASE AuthorizeUninstallDoes
  <2>1. /\ UNCHANGED <<record, edge>> /\ cli.at = "authorize" /\ cli'.at \in {"disable", "idle"}
        /\ cli'.at = "disable" => cli'.tried = cli.tried /\ cli'.saved = cli.saved
        /\ cli.broken => cli'.broken
    BY <1>39 DEF AuthorizeUninstallDoes, Bad
  <2>2. Covering' = Covering
    BY <1>3, <1>7, <1>10, <2>1
  <2> QED BY <1>10, <2>1, <2>2
<1>40. CASE DisableDoes
  <2>1. edge' => edge
    BY <1>40 DEF DisableDoes, Typed
  <2>2. cli'.at = "remove-package" => ~edge'
    BY <1>40 DEF DisableDoes
  <2>3. cli'.tried = cli.tried /\ cli'.broken = cli.broken /\ cli'.at \in {"remove-package", "restore"} /\ cli.at = "disable"
    BY <1>40 DEF DisableDoes
  <2> QED BY <1>3, <2>1, <2>2, <2>3
<1>41. CASE RemovePackageDoes
  BY <1>2, <1>41, <1>3, <1>5, <1>7, <1>10, <1>11, <1>12 DEF RemovePackageDoes
<1>42. CASE StageRecordDoes
  BY <1>2, <1>42, <1>3, <1>5, <1>7, <1>10, <1>11, <1>12 DEF StageRecordDoes
<1>43. CASE StagePathDoes
  BY <1>2, <1>43, <1>3, <1>5, <1>7, <1>10, <1>11, <1>12 DEF StagePathDoes
<1>44. CASE StagedDoes
  BY <1>2, <1>44, <1>3, <1>5, <1>7, <1>10, <1>11, <1>12 DEF StagedDoes
<1>45. CASE UnloadDoes
  BY <1>2, <1>45, <1>3, <1>5, <1>7, <1>10, <1>11, <1>12 DEF UnloadDoes
<1>46. CASE RestoreDoes
  BY <1>2, <1>46, <1>3, <1>5, <1>7, <1>10, <1>11, <1>12 DEF RestoreDoes
<1>47. CASE RestorePackageDoes
  BY <1>2, <1>47, <1>3, <1>5, <1>7, <1>10, <1>11, <1>12 DEF RestorePackageDoes
<1>48. CASE RestoreEdgeDoes
  <2>1. cli'.at = "idle" /\ cli.at = "restore-edge" /\ UNCHANGED record
    BY <1>48 DEF RestoreEdgeDoes
  <2>2. cli'.broken \/ (edge' => ~Untold("enable"))
    BY <1>48 DEF RestoreEdgeDoes, Bad, Told, Running
  <2>3. cli.broken => cli'.broken
    BY <1>48 DEF RestoreEdgeDoes, Bad
  <2>4. Covering' = cli.saved \/ cli'.broken
    BY <1>3, <1>10, <2>1, <2>3
  <2> QED BY <2>1, <2>2, <2>4 DEF Untold
<1>49. CASE DeleteTreeDoes
  BY <1>2, <1>49, <1>3, <1>5, <1>7, <1>10, <1>11, <1>12 DEF DeleteTreeDoes
<1>50. CASE DeletedDoes
  BY <1>2, <1>50, <1>3, <1>5, <1>7, <1>10, <1>11, <1>12 DEF DeletedDoes
<1>51. CASE UninstallCallFailsDoes
  BY <1>2, <1>51, <1>3, <1>5, <1>7, <1>10, <1>11, <1>12 DEF UninstallCallFailsDoes, Bad, Told, Running
<1>52. CASE PrepareResetDoes
  BY <1>2, <1>52, <1>3, <1>5, <1>7, <1>10, <1>11, <1>12 DEF PrepareResetDoes
<1>53. CASE ReadPasswordDoes
  <2>1. UNCHANGED <<record, edge>> /\ cli.at \in ResetPlaces /\ (cli'.at \in ResetPlaces \/ cli'.at = "idle")
    BY <1>53 DEF ReadPasswordDoes
  <2> QED BY <1>3, <1>11, <2>1
<1>54. CASE StopDoes
  BY <1>2, <1>54, <1>3, <1>5, <1>7, <1>10, <1>11, <1>12 DEF StopDoes
<1>55. CASE ReplaceDocumentDoes
  BY <1>2, <1>55, <1>3, <1>5, <1>7, <1>10, <1>11, <1>12 DEF ReplaceDocumentDoes
<1>56. CASE ReplaceSecretDoes
  <2>1. UNCHANGED <<record, edge>> /\ cli.at \in ResetPlaces /\ (cli'.at \in ResetPlaces \/ cli'.at = "idle")
    BY <1>56 DEF ReplaceSecretDoes
  <2> QED BY <1>3, <1>11, <2>1
<1>57. CASE StartDoes
  <2>1. UNCHANGED <<record, edge>> /\ cli.at \in ResetPlaces /\ (cli'.at \in ResetPlaces \/ cli'.at = "idle")
    BY <1>57 DEF StartDoes
  <2> QED BY <1>3, <1>11, <2>1
<1>58. CASE RestoreDocumentDoes
  BY <1>2, <1>58, <1>3, <1>5, <1>7, <1>10, <1>11, <1>12 DEF RestoreDocumentDoes
<1>59. CASE RestoreSecretDoes
  <2>1. UNCHANGED <<record, edge>> /\ cli.at \in ResetPlaces /\ (cli'.at \in ResetPlaces \/ cli'.at = "idle")
    BY <1>59 DEF RestoreSecretDoes
  <2> QED BY <1>3, <1>11, <2>1
<1>60. CASE RestoreServiceDoes
  <2>1. UNCHANGED <<record, edge>> /\ cli.at \in ResetPlaces /\ (cli'.at \in ResetPlaces \/ cli'.at = "idle")
    BY <1>60 DEF RestoreServiceDoes
  <2> QED BY <1>3, <1>11, <2>1
<1>61. CASE ResetCallFailsDoes
  <2>1. UNCHANGED <<record, edge>> /\ cli.at \in ResetPlaces /\ (cli'.at \in ResetPlaces \/ cli'.at = "idle")
    BY <1>61 DEF ResetCallFailsDoes
  <2> QED BY <1>3, <1>11, <2>1
<1>62. CASE KillDoes
  <2>1. cli'.at = "idle" /\ UNCHANGED <<record, edge>> /\ cli'.tried = {} /\ cli'.broken = Bad("killed")
    BY <1>62 DEF KillDoes
  <2>2. cli'.broken \/ (cli.at \in SetupPlaces /\ cli.at \notin {"undo-enable", "undo-reload", "undo-restart"})
    BY <1>62, <2>1 DEF KillDoes, Bad, Told, Running, Typed, Commands, Places, At
  <2>3. cli.at \in SetupPlaces /\ cli.at \notin {"undo-enable", "undo-reload", "undo-restart"} => cli.tried \subseteq record.tried
    BY DEF RecordAt
  <2> QED BY <1>3, <2>1, <2>2, <2>3
<1>63. CASE ServiceWritesDoes
  BY <1>2, <1>63, <1>3, <1>5, <1>7, <1>10, <1>11, <1>12 DEF ServiceWritesDoes
<1>64. CASE OperatorAddsDropIn
  BY <1>2, <1>64, <1>3, <1>5, <1>7, <1>10, <1>11, <1>12 DEF OperatorAddsDropIn
<1>65. CASE RebootDoes
  BY <1>2, <1>65, <1>3, <1>5, <1>7, <1>10, <1>11, <1>12 DEF RebootDoes
<1> QED BY <1>1, <1>13, <1>14, <1>15, <1>16, <1>17, <1>18, <1>19, <1>20, <1>21, <1>22, <1>23, <1>24, <1>25, <1>26, <1>27, <1>28, <1>29, <1>30, <1>31, <1>32, <1>33, <1>34, <1>35, <1>36, <1>37, <1>38, <1>39, <1>40, <1>41, <1>42, <1>43, <1>44, <1>45, <1>46, <1>47, <1>48, <1>49, <1>50, <1>51, <1>52, <1>53, <1>54, <1>55, <1>56, <1>57, <1>58, <1>59, <1>60, <1>61, <1>62, <1>63, <1>64, <1>65 DEF Steps

(* A setup that goes on has made what it has passed.                       *)
LEMMA MakingUpStep ==
  ASSUME Typed, Running, Running', RecordShape, Bootstrapped, RecordAt, SavedAt, SavedAt', Nested, OutputAt, ForeignBundle, MakingUp, Next
  PROVE  MakingUp'
<1> USE DEF Moved, Went, Onward, Steady, Over, OverBut, AtIdle, OnPath, OnNext, Began, Others, services, Notes, Puts, Replaces, Resumed, SetupPlaces
<1>1. Steps
  BY EveryStep
<1>2. Typed' /\ output' = output
  BY TypedStep, SameHost
<1>3. ASSUME cli'.at \notin Installing PROVE MakingUp'
  BY <1>3 DEF MakingUp, Installing, Activating
<1>4. Order' = Order /\ Len(Order) \in Nat /\ Len(Order) >= 1
  BY SameHost, OrderLength
<1>6. ASSUME cli'.at \notin {"own", "make", "finish"} \cup Activating,
             cli'.at \in Installing \ {"journal", "make-config"} => Exists("configDirectory")'
      PROVE  MakingUp'
  BY <1>6 DEF MakingUp, Activating
<1>7. ASSUME \A p \in Paths : Exists(p) => Exists(p)',
             cli.at \in {"own", "make", "finish"} \cup Activating, Made' \subseteq Made,
             cli'.at \in {"own", "make", "finish"} \cup Activating,
             cred' = cred, bundle' = bundle,
             ~output =>
                /\ cli'.at \in {"record-restart", "restart", "record-enable", "enable", "finish"} => loaded'
                /\ cli'.at \in {"record-enable", "enable", "finish"} => dsh' = "guarded"
                /\ cli'.at = "finish" => edge'
      PROVE  MakingUp'
  <2>1. Made \subseteq Paths /\ "configDirectory" \in Paths
    BY ManagedPaths DEF Made, Typed
  <2>2. Exists("configDirectory")
    BY <1>7 DEF MakingUp, Activating, Installing
  <2> HIDE DEF Made, Exists
  <2> QED BY <1>2, <1>7, <2>1, <2>2 DEF MakingUp
<1>8. CASE PrepareSetupDoes
  BY <1>3, <1>8 DEF PrepareSetupDoes, Installing, Undoing
<1>9. CASE ReadSecretsDoes
  <2>1. cli'.at \notin Installing \/ cli'.at = "journal"
    BY <1>9 DEF ReadSecretsDoes, Installing
  <2> QED BY <1>3, <1>6, <2>1 DEF Activating
<1>10. CASE WriteJournalDoes
  <2>1. cli'.at = (IF Exists("configDirectory") THEN "package" ELSE "make-config")
    BY <1>10 DEF WriteJournalDoes
  <2>2. Exists("configDirectory") => Exists("configDirectory")'
    BY <1>10 DEF WriteJournalDoes, GivenUp, Exists, Paths, Directories
  <2> QED BY <1>6, <2>1, <2>2 DEF Activating
<1>11. CASE TearJournalDoes
  BY <1>3, <1>11 DEF TearJournalDoes, Installing, Undoing
<1>12. CASE MakeConfigDoes
  <2>1. cli'.at = "move-journal" /\ Exists("configDirectory")'
    BY <1>12 DEF MakeConfigDoes, Exists
  <2> QED BY <1>6, <2>1 DEF Activating
<1>13. CASE MoveJournalDoes
  <2>1. cli'.at = "package" /\ Exists("configDirectory")'
    BY <1>13 DEF MoveJournalDoes, Exists, MakingUp, Installing
  <2> QED BY <1>6, <2>1 DEF Activating
<1>14. CASE RecordPackageDoes
  <2>1. cli.at = "package" /\ Exists("configDirectory") /\ Exists("configDirectory")' /\ UNCHANGED bundle
    BY <1>14 DEF RecordPackageDoes, Exists, MakingUp, Installing
  <2>2. ~output /\ cli.adopt => bundle # "none"
    BY <2>1 DEF ForeignBundle, SetupPlaces, Installing
  <2>3. ASSUME cli'.at = "own", cli'.i = 1, Exists("configDirectory")', ~output => bundle' # "none" PROVE MakingUp'
    <3>1. Made' = {}
      BY <1>4, <2>3 DEF Made
    <3> HIDE DEF Made, Exists
    <3> QED BY <1>2, <2>3, <3>1 DEF MakingUp, Activating
  <2>4. \/ cli'.at = "own" /\ cli'.i = 1 /\ (output \/ cli.adopt)
        \/ cli'.at = "add-package"
    BY <1>14 DEF RecordPackageDoes
  <2> QED BY <1>6, <2>1, <2>2, <2>3, <2>4 DEF Activating
<1>15. CASE AddPackageDoes
  <2>1. cli.at = "add-package" /\ Exists("configDirectory") /\ Exists("configDirectory")'
    BY <1>15 DEF AddPackageDoes, Exists, MakingUp, Installing
  <2>3. ASSUME cli'.at = "own", cli'.i = 1, Exists("configDirectory")', ~output => bundle' # "none" PROVE MakingUp'
    <3>1. Made' = {}
      BY <1>4, <2>3 DEF Made
    <3> HIDE DEF Made, Exists
    <3> QED BY <1>2, <2>3, <3>1 DEF MakingUp, Activating
  <2>4. \/ cli'.at = "own" /\ cli'.i = 1 /\ bundle' = "ours"
        \/ cli'.at = "undo-package"
    BY <1>15 DEF AddPackageDoes
  <2> QED BY <1>3, <2>1, <2>3, <2>4 DEF Installing
<1>16. CASE RecordPathDoes
  <2>1. UNCHANGED <<disk, bundle, cred, loaded, dsh, edge>> /\ cli.at = "own" /\ cli.i \in 1..Len(Order)
    BY <1>16 DEF RecordPathDoes, Typed
  <2>2. CASE cli'.at = "make" /\ cli'.i = cli.i
    <3>1. Made' = Made
      BY <1>4, <2>1, <2>2 DEF Made
    <3> QED BY <1>7, <2>1, <2>2, <3>1 DEF Exists
  <2>3. CASE Exists(Path) /\ OnNext
    <3>1. \/ cli'.at = "own" /\ cli'.i = cli.i + 1
          \/ cli'.at \in {"finish", "record-reload"} /\ ~(cli.i < Len(Order)) /\ (cli'.at = "finish" => output)
      BY <2>3
    <3>2. \A p \in Made' : p \in Made \/ p = Path
      BY <1>4, <2>1, <3>1 DEF Made, Path
    <3>7. \A p \in Made : Exists(p)
      BY <2>1 DEF MakingUp
    <3>3. \A p \in Made' : Exists(p)'
      <4> HIDE DEF Made
      <4> QED BY <2>1, <2>3, <3>2, <3>7 DEF Exists
    <3>4. Path \in Directories
      BY <1>16, <3>1 DEF RecordPathDoes
    <3>5. /\ "sessionSecretFile" \in Made' => cred'.secret = 0
          /\ "authStateFile" \in Made' => cred'.document = 0
      BY <2>1, <3>2, <3>4 DEF MakingUp, Directories
    <3>6. Exists("configDirectory")' /\ (~output => bundle' # "none")
      BY <2>1 DEF MakingUp, Installing, Exists
    <3> HIDE DEF Made, Exists
    <3> QED BY <1>2, <2>3, <3>1, <3>3, <3>5, <3>6 DEF MakingUp, Activating
  <2> QED BY <1>16, <2>2, <2>3 DEF RecordPathDoes
<1>17. CASE MakePathDoes
  <2>1. UNCHANGED <<bundle, loaded, dsh, edge>> /\ cli.at = "make" /\ cli.i \in 1..Len(Order)
    BY <1>17 DEF MakePathDoes, Typed
  <2>2. CASE cli'.at = "undo-package"
    BY <1>3, <2>2 DEF Installing
  <2>3. CASE Puts(Path, "ours") /\ OnNext
    <3>1. \/ cli'.at = "own" /\ cli'.i = cli.i + 1
          \/ cli'.at \in {"finish", "record-reload"} /\ ~(cli.i < Len(Order)) /\ (cli'.at = "finish" => output)
      BY <2>3
    <3>2. \A p \in Made' : p \in Made \/ p = Path
      BY <1>4, <2>1, <3>1 DEF Made, Path
    <3>3. Made \subseteq Paths /\ Path \in Paths
      BY <2>1, ManagedPaths DEF Made, Path
    <3>4. \A p \in Made' : Exists(p)'
      BY <2>1, <2>3, <3>2, <3>3 DEF MakingUp, Exists
    <3>5. /\ cred'.secret = (IF Path = "sessionSecretFile" THEN 0 ELSE cred.secret)
          /\ cred'.document = (IF Path = "authStateFile" THEN 0 ELSE cred.document)
      BY <1>17, <3>1 DEF MakePathDoes
    <3>6. /\ "sessionSecretFile" \in Made' => cred'.secret = 0
          /\ "authStateFile" \in Made' => cred'.document = 0
      BY <2>1, <3>2, <3>5 DEF MakingUp
    <3>7. Exists("configDirectory")' /\ (~output => bundle' # "none")
      BY <2>1, <2>3 DEF MakingUp, Installing, Exists, Paths, Directories
    <3> HIDE DEF Made, Exists
    <3> QED BY <1>2, <2>3, <3>1, <3>4, <3>6, <3>7 DEF MakingUp, Activating
  <2> QED BY <1>17, <2>2, <2>3 DEF MakePathDoes
<1>18. CASE TryDoes("record-reload", "reload", "reload")
  <2>1. UNCHANGED <<disk, cred, bundle>> /\ cli'.i = cli.i
    BY <1>18 DEF TryDoes
  <2>3. /\ UNCHANGED <<loaded, dsh, edge>>
        /\ <<cli.at, cli'.at>> \in {<<"record-reload", "reload">>, <<"record-restart", "restart">>, <<"record-enable", "enable">>}
    BY <1>18 DEF TryDoes
  <2>4. Made' = Made /\ cli.at \in Activating /\ cli'.at \in Activating
    BY <1>4, <2>1, <2>3 DEF Made, Activating
  <2>5. ~output =>
          /\ cli'.at \in {"record-restart", "restart", "record-enable", "enable", "finish"} => loaded'
          /\ cli'.at \in {"record-enable", "enable", "finish"} => dsh' = "guarded"
          /\ cli'.at = "finish" => edge'
    BY <2>3 DEF MakingUp
  <2> QED BY <1>7, <2>1, <2>4, <2>5 DEF Exists
<1>19. CASE ReloadDoes
  <2>1. UNCHANGED <<disk, cred, bundle>> /\ cli'.i = cli.i
    BY <1>19 DEF ReloadDoes
  <2>2. CASE cli'.at = "undo-package"
    BY <1>3, <2>2 DEF Installing
  <2>3. CASE cli'.at = "record-restart"
    <3>1. Made' = Made /\ cli.at = "reload"
      BY <1>4, <1>19, <2>1, <2>3 DEF Made, ReloadDoes
    <3>2. \A p \in Made : Exists(p)
      BY <3>1 DEF MakingUp, Activating
    <3>3. ~output => loaded' /\ ("record-restart" \in {"record-enable", "finish"} => dsh' = "guarded") /\ ("record-restart" = "finish" => edge')
      <4>1. ASSUME NEW p \in Managed \ {"configDirectory"} PROVE Exists(p)
        BY <3>1, <3>2, ManagedPaths DEF Made
      <4>2. ~output => Exists("systemdDropInFile")
        BY <4>1, ManagedPaths DEF Paths, Directories
      <4> QED BY <1>19, <2>3, <4>2 DEF ReloadDoes, Reloaded
    <3> QED BY <1>7, <2>1, <2>3, <3>1, <3>3 DEF Exists, Activating
  <2> QED BY <1>19, <2>2, <2>3 DEF ReloadDoes
<1>20. CASE TryDoes("record-restart", "restart", "restart")
  <2>1. UNCHANGED <<disk, cred, bundle>> /\ cli'.i = cli.i
    BY <1>20 DEF TryDoes
  <2>3. /\ UNCHANGED <<loaded, dsh, edge>>
        /\ <<cli.at, cli'.at>> \in {<<"record-reload", "reload">>, <<"record-restart", "restart">>, <<"record-enable", "enable">>}
    BY <1>20 DEF TryDoes
  <2>4. Made' = Made /\ cli.at \in Activating /\ cli'.at \in Activating
    BY <1>4, <2>1, <2>3 DEF Made, Activating
  <2>5. ~output =>
          /\ cli'.at \in {"record-restart", "restart", "record-enable", "enable", "finish"} => loaded'
          /\ cli'.at \in {"record-enable", "enable", "finish"} => dsh' = "guarded"
          /\ cli'.at = "finish" => edge'
    BY <2>3 DEF MakingUp
  <2> QED BY <1>7, <2>1, <2>4, <2>5 DEF Exists
<1>21. CASE RestartDoes
  <2>1. UNCHANGED <<disk, cred, bundle>> /\ cli'.i = cli.i
    BY <1>21 DEF RestartDoes
  <2>2. CASE cli'.at = "undo-package"
    BY <1>3, <2>2 DEF Installing
  <2>3. CASE cli'.at = "record-enable"
    <3>1. Made' = Made /\ cli.at = "restart"
      BY <1>4, <1>21, <2>1, <2>3 DEF Made, RestartDoes
    <3>2. \A p \in Made : Exists(p)
      BY <3>1 DEF MakingUp, Activating
    <3>3. ~output => loaded' /\ ("record-enable" \in {"record-enable", "finish"} => dsh' = "guarded") /\ ("record-enable" = "finish" => edge')
      <4>1. ASSUME NEW p \in Managed \ {"configDirectory"} PROVE Exists(p)
        BY <3>1, <3>2, ManagedPaths DEF Made
      <4>2. ~output => Exists("environmentFile") /\ loaded /\ bundle # "none"
        BY <3>1, <4>1, ManagedPaths DEF Paths, Directories, MakingUp, Activating
      <4>3. ~output => Booted = "guarded"
        BY <4>2 DEF Booted
      <4> QED BY <1>21, <2>3, <4>2, <4>3 DEF RestartDoes
    <3> QED BY <1>7, <2>1, <2>3, <3>1, <3>3 DEF Exists, Activating
  <2> QED BY <1>21, <2>2, <2>3 DEF RestartDoes
<1>22. CASE TryDoes("record-enable", "enable", "enable")
  <2>1. UNCHANGED <<disk, cred, bundle>> /\ cli'.i = cli.i
    BY <1>22 DEF TryDoes
  <2>3. /\ UNCHANGED <<loaded, dsh, edge>>
        /\ <<cli.at, cli'.at>> \in {<<"record-reload", "reload">>, <<"record-restart", "restart">>, <<"record-enable", "enable">>}
    BY <1>22 DEF TryDoes
  <2>4. Made' = Made /\ cli.at \in Activating /\ cli'.at \in Activating
    BY <1>4, <2>1, <2>3 DEF Made, Activating
  <2>5. ~output =>
          /\ cli'.at \in {"record-restart", "restart", "record-enable", "enable", "finish"} => loaded'
          /\ cli'.at \in {"record-enable", "enable", "finish"} => dsh' = "guarded"
          /\ cli'.at = "finish" => edge'
    BY <2>3 DEF MakingUp
  <2> QED BY <1>7, <2>1, <2>4, <2>5 DEF Exists
<1>23. CASE EnableDoes
  <2>1. UNCHANGED <<disk, cred, bundle>> /\ cli'.i = cli.i
    BY <1>23 DEF EnableDoes
  <2>2. CASE cli'.at = "undo-package"
    BY <1>3, <2>2 DEF Installing
  <2>3. CASE cli'.at = "finish"
    <3>1. Made' = Made /\ cli.at = "enable"
      BY <1>4, <1>23, <2>1, <2>3 DEF Made, EnableDoes
    <3>2. \A p \in Made : Exists(p)
      BY <3>1 DEF MakingUp, Activating
    <3>3. ~output => loaded' /\ ("finish" \in {"record-enable", "finish"} => dsh' = "guarded") /\ ("finish" = "finish" => edge')
      <4>1. ~output => loaded /\ dsh = "guarded"
        BY <3>1 DEF MakingUp
      <4> QED BY <1>23, <2>3, <4>1 DEF EnableDoes
    <3> QED BY <1>7, <2>1, <2>3, <3>1, <3>3 DEF Exists, Activating
  <2> QED BY <1>23, <2>2, <2>3 DEF EnableDoes
<1>24. CASE FinishSetupDoes
  BY <1>3, <1>24 DEF FinishSetupDoes, Installing, Undoing
<1>25. CASE UndoPackageDoes
  BY <1>3, <1>25 DEF UndoPackageDoes, Installing, Undoing
<1>26. CASE RemovePathDoes
  BY <1>3, <1>26 DEF RemovePathDoes, Installing, Undoing
<1>27. CASE RemoveConfigDoes
  BY <1>3, <1>27 DEF RemoveConfigDoes, Installing, Undoing
<1>28. CASE UndoRecordDoes
  BY <1>3, <1>28 DEF UndoRecordDoes, Installing, Undoing
<1>29. CASE UndoEnableDoes
  BY <1>3, <1>29 DEF UndoEnableDoes, Installing, Undoing
<1>30. CASE UndoReloadDoes
  BY <1>3, <1>30 DEF UndoReloadDoes, Installing, Undoing
<1>31. CASE UndoRestartDoes
  <2>1. cli'.at \notin Installing \/ cli'.at = "journal"
    BY <1>31 DEF UndoRestartDoes, Installing
  <2> QED BY <1>3, <1>6, <2>1 DEF Activating
<1>32. CASE SetupCallFailsDoes
  BY <1>3, <1>32 DEF SetupCallFailsDoes, Installing, Undoing
<1>33. CASE PrepareUninstallDoes
  BY <1>3, <1>33 DEF PrepareUninstallDoes, Installing, Undoing
<1>34. CASE AuthorizeUninstallDoes
  BY <1>3, <1>34 DEF AuthorizeUninstallDoes, Installing, Undoing
<1>35. CASE DisableDoes
  BY <1>3, <1>35 DEF DisableDoes, Installing, Undoing
<1>36. CASE RemovePackageDoes
  BY <1>3, <1>36 DEF RemovePackageDoes, Installing, Undoing
<1>37. CASE StageRecordDoes
  BY <1>3, <1>37 DEF StageRecordDoes, Installing, Undoing
<1>38. CASE StagePathDoes
  BY <1>3, <1>38 DEF StagePathDoes, Installing, Undoing
<1>39. CASE StagedDoes
  BY <1>3, <1>39 DEF StagedDoes, Installing, Undoing
<1>40. CASE UnloadDoes
  BY <1>3, <1>40 DEF UnloadDoes, Installing, Undoing
<1>41. CASE RestoreDoes
  BY <1>3, <1>41 DEF RestoreDoes, Installing, Undoing
<1>42. CASE RestorePackageDoes
  BY <1>3, <1>42 DEF RestorePackageDoes, Installing, Undoing
<1>43. CASE RestoreEdgeDoes
  BY <1>3, <1>43 DEF RestoreEdgeDoes, Installing, Undoing
<1>44. CASE DeleteTreeDoes
  BY <1>3, <1>44 DEF DeleteTreeDoes, Installing, Undoing
<1>45. CASE DeletedDoes
  BY <1>3, <1>45 DEF DeletedDoes, Installing, Undoing
<1>46. CASE UninstallCallFailsDoes
  BY <1>3, <1>46 DEF UninstallCallFailsDoes, Installing, Undoing
<1>47. CASE PrepareResetDoes
  BY <1>3, <1>47 DEF PrepareResetDoes, Installing, Undoing
<1>48. CASE ReadPasswordDoes
  BY <1>3, <1>48 DEF ReadPasswordDoes, Installing, Undoing
<1>49. CASE StopDoes
  BY <1>3, <1>49 DEF StopDoes, Installing, Undoing
<1>50. CASE ReplaceDocumentDoes
  BY <1>3, <1>50 DEF ReplaceDocumentDoes, Installing, Undoing
<1>51. CASE ReplaceSecretDoes
  BY <1>3, <1>51 DEF ReplaceSecretDoes, Installing, Undoing
<1>52. CASE StartDoes
  BY <1>3, <1>52 DEF StartDoes, Installing, Undoing
<1>53. CASE RestoreDocumentDoes
  BY <1>3, <1>53 DEF RestoreDocumentDoes, Installing, Undoing
<1>54. CASE RestoreSecretDoes
  BY <1>3, <1>54 DEF RestoreSecretDoes, Installing, Undoing
<1>55. CASE RestoreServiceDoes
  BY <1>3, <1>55 DEF RestoreServiceDoes, Installing, Undoing
<1>56. CASE ResetCallFailsDoes
  BY <1>3, <1>56 DEF ResetCallFailsDoes, Installing, Undoing
<1>57. CASE KillDoes
  BY <1>3, <1>57 DEF KillDoes, Installing, Undoing
<1>58. CASE ServiceWritesDoes
  <2>1. \A p \in Paths : Exists(p) => Exists(p)'
    BY <1>58 DEF ServiceWritesDoes, Exists
  <2>2. UNCHANGED <<cli, cred, bundle, loaded, dsh, edge>>
    BY <1>58 DEF ServiceWritesDoes
  <2>3. Made' = Made
    BY <1>4, <2>2 DEF Made
  <2>4. Made \subseteq Paths /\ "configDirectory" \in Paths
    BY ManagedPaths DEF Made, Typed, Paths, Directories
  <2> HIDE DEF Made, Exists
  <2> QED BY <1>2, <2>1, <2>2, <2>3, <2>4 DEF MakingUp
<1>59. CASE OperatorAddsDropIn
  <2>1. \A p \in Paths : Exists(p) => Exists(p)'
    BY <1>59 DEF OperatorAddsDropIn, Exists
  <2>2. UNCHANGED <<cli, cred, bundle, loaded, dsh, edge>>
    BY <1>59 DEF OperatorAddsDropIn
  <2>3. Made' = Made
    BY <1>4, <2>2 DEF Made
  <2>4. Made \subseteq Paths /\ "configDirectory" \in Paths
    BY ManagedPaths DEF Made, Typed, Paths, Directories
  <2> HIDE DEF Made, Exists
  <2> QED BY <1>2, <2>1, <2>2, <2>3, <2>4 DEF MakingUp
<1>60. CASE RebootDoes
  BY <1>3, <1>60 DEF RebootDoes, Installing, Undoing
<1> QED BY <1>1, <1>8, <1>9, <1>10, <1>11, <1>12, <1>13, <1>14, <1>15, <1>16, <1>17, <1>18, <1>19, <1>20, <1>21, <1>22, <1>23, <1>24, <1>25, <1>26, <1>27, <1>28, <1>29, <1>30, <1>31, <1>32, <1>33, <1>34, <1>35, <1>36, <1>37, <1>38, <1>39, <1>40, <1>41, <1>42, <1>43, <1>44, <1>45, <1>46, <1>47, <1>48, <1>49, <1>50, <1>51, <1>52, <1>53, <1>54, <1>55, <1>56, <1>57, <1>58, <1>59, <1>60 DEF Steps

(* What a complete installation has made, it keeps.                        *)
LEMMA KeptStep ==
  ASSUME Typed, Running, Running', RecordShape, Bootstrapped, RecordAt, SavedAt, SavedAt', Nested, MakingUp, Kept, Next
  PROVE  Kept'
<1> USE DEF Moved, Went, Onward, Steady, Over, OverBut, AtIdle, OnPath, OnNext, Began, Others, services, Notes, Puts, Replaces, Resumed, SetupPlaces, Installing, Undoing, UninstallPlaces, Leaving, Restoring, ResetPlaces
<1>1. Steps
  BY EveryStep
<1>2. Typed' /\ output' = output
  BY TypedStep, SameHost
<1>3. /\ cli.at \notin SetupPlaces =>
           Covering' = Covering \/ (cli'.at = "idle" /\ Covering' = NoRecord /\ cli.at \in UninstallPlaces)
      /\ cli.at \in SetupPlaces => Covering = record /\ Covering' = record'
      /\ cli'.at \notin UninstallPlaces => Covering' = record'
  BY CoveringStep
<1>5. NoRecord.package = FALSE /\ NoRecord.created = {} /\ NoRecord.at = "none" /\ NoRecord.tried = {} /\ NoRecord.status = "none"
  BY DEF NoRecord
<1>7. (cli.at \in UninstallPlaces => Covering = cli.saved) /\ (cli.at \notin UninstallPlaces => Covering = record)
  BY CoveringIs DEF Typed, Commands
<1>10. /\ cli.at \in UninstallPlaces => record = cli.saved \/ record = NoRecord
       /\ cli.at \in {"authorize", "disable", "remove-package"} => record = cli.saved /\ cli.tried = {}
       /\ cli.at \in {"restore-package", "restore-edge"} /\ record = NoRecord => cli.lost /\ cli.broken
       /\ cli.at \in {"unload", "delete", "restore-reload"} => record = NoRecord
       /\ cli.at \in UninstallPlaces /\ "package" \in cli.tried => cli.saved.package
       /\ cli.at \in UninstallPlaces => cli.tried \subseteq {"package"} /\ "enable" \notin cli.tried
       /\ cli.at \in UninstallPlaces => cli.saved.at = "final" /\ cli.saved.status # "none"
       /\ cli.at \notin UninstallPlaces => cli.saved = NoRecord /\ cli.aside = {}
  BY <1>5 DEF SavedAt
<1>11. /\ cli.at \in ResetPlaces => record.status = "installed" /\ cli.at \notin SetupPlaces /\ cli.at \notin UninstallPlaces
       /\ cli.at \in ResetPlaces => Covering = record
  BY <1>7 DEF RecordAt, ResetPlaces
<1> HIDE DEF Covering
<1>12. /\ Managed' = Managed /\ Managed \subseteq Paths
       /\ cli.at \in SetupPlaces => record.status # "installed"
  BY SameHost, ManagedPaths DEF RecordAt
<1>13. ASSUME \A p \in Paths : Exists(p) => Exists(p)',
              record'.status = "installed" \/ (Covering'.status = "installed" /\ cli'.at \in {"stage", "unload", "restore", "restore-reload"})
                => record.status = "installed" \/ (Covering.status = "installed" /\ cli.at \in {"stage", "unload", "restore", "restore-reload"})
       PROVE  Kept'
  BY <1>12, <1>13 DEF Kept
<1>14. ASSUME UNCHANGED disk PROVE \A p \in Paths : Exists(p) => Exists(p)'
  BY <1>14 DEF Exists
<1>15. ASSUME record'.status # "installed", cli'.at \notin {"stage", "unload", "restore", "restore-reload"} PROVE Kept'
  BY <1>15 DEF Kept
<1> HIDE DEF Exists, Kept
<1>16. CASE PrepareSetupDoes
  BY <1>3, <1>5, <1>7, <1>10, <1>11, <1>12, <1>13, <1>14, <1>16 DEF PrepareSetupDoes
<1>17. CASE ReadSecretsDoes
  BY <1>3, <1>5, <1>7, <1>10, <1>11, <1>12, <1>13, <1>14, <1>17 DEF ReadSecretsDoes
<1>18. CASE WriteJournalDoes
  <2>1. record'.status # "installed"
    BY <1>5, <1>12, <1>18 DEF WriteJournalDoes, FirstJournal, Journal
  <2>2. cli'.at \notin {"stage", "unload", "restore", "restore-reload"}
    BY <1>18 DEF WriteJournalDoes
  <2> QED BY <1>15, <2>1, <2>2
<1>19. CASE TearJournalDoes
  <2>1. record'.status # "installed"
    BY <1>5, <1>12, <1>19 DEF TearJournalDoes, FirstJournal, Journal
  <2>2. cli'.at \notin {"stage", "unload", "restore", "restore-reload"}
    BY <1>19 DEF TearJournalDoes
  <2> QED BY <1>15, <2>1, <2>2
<1>20. CASE MakeConfigDoes
  <2>1. \A p \in Paths : Exists(p) => Exists(p)'
    BY <1>20 DEF MakeConfigDoes, Exists
  <2>2. (UNCHANGED record /\ cli'.at \notin {"stage", "unload", "restore", "restore-reload"}) \/ UNCHANGED <<cli, record>>
    BY <1>20 DEF MakeConfigDoes
  <2>3. UNCHANGED <<cli, record>> => Covering' = Covering
    BY DEF Covering, At
  <2> QED BY <1>13, <2>1, <2>2, <2>3
<1>21. CASE MoveJournalDoes
  <2>1. record'.status # "installed"
    BY <1>5, <1>12, <1>21 DEF MoveJournalDoes, FirstJournal, Journal
  <2>2. cli'.at \notin {"stage", "unload", "restore", "restore-reload"}
    BY <1>21 DEF MoveJournalDoes
  <2> QED BY <1>15, <2>1, <2>2
<1>22. CASE RecordPackageDoes
  <2>1. record'.status # "installed"
    BY <1>5, <1>12, <1>22 DEF RecordPackageDoes, FirstJournal, Journal
  <2>2. cli'.at \notin {"stage", "unload", "restore", "restore-reload"}
    BY <1>22 DEF RecordPackageDoes
  <2> QED BY <1>15, <2>1, <2>2
<1>23. CASE AddPackageDoes
  BY <1>3, <1>5, <1>7, <1>10, <1>11, <1>12, <1>13, <1>14, <1>23 DEF AddPackageDoes
<1>24. CASE RecordPathDoes
  <2>1. record'.status # "installed"
    BY <1>5, <1>12, <1>24 DEF RecordPathDoes, FirstJournal, Journal
  <2>2. cli'.at \notin {"stage", "unload", "restore", "restore-reload"}
    BY <1>24 DEF RecordPathDoes
  <2> QED BY <1>15, <2>1, <2>2
<1>25. CASE MakePathDoes
  <2>1. \A p \in Paths : Exists(p) => Exists(p)'
    BY <1>25 DEF MakePathDoes, Exists
  <2>2. (UNCHANGED record /\ cli'.at \notin {"stage", "unload", "restore", "restore-reload"}) \/ UNCHANGED <<cli, record>>
    BY <1>25 DEF MakePathDoes
  <2>3. UNCHANGED <<cli, record>> => Covering' = Covering
    BY DEF Covering, At
  <2> QED BY <1>13, <2>1, <2>2, <2>3
<1>26. CASE TryDoes("record-reload", "reload", "reload")
  <2>1. record'.status # "installed"
    BY <1>5, <1>12, <1>26 DEF TryDoes, FirstJournal, Journal
  <2>2. cli'.at \notin {"stage", "unload", "restore", "restore-reload"}
    BY <1>26 DEF TryDoes
  <2> QED BY <1>15, <2>1, <2>2
<1>27. CASE ReloadDoes
  BY <1>3, <1>5, <1>7, <1>10, <1>11, <1>12, <1>13, <1>14, <1>27 DEF ReloadDoes
<1>28. CASE TryDoes("record-restart", "restart", "restart")
  <2>1. record'.status # "installed"
    BY <1>5, <1>12, <1>28 DEF TryDoes, FirstJournal, Journal
  <2>2. cli'.at \notin {"stage", "unload", "restore", "restore-reload"}
    BY <1>28 DEF TryDoes
  <2> QED BY <1>15, <2>1, <2>2
<1>29. CASE RestartDoes
  BY <1>3, <1>5, <1>7, <1>10, <1>11, <1>12, <1>13, <1>14, <1>29 DEF RestartDoes
<1>30. CASE TryDoes("record-enable", "enable", "enable")
  <2>1. record'.status # "installed"
    BY <1>5, <1>12, <1>30 DEF TryDoes, FirstJournal, Journal
  <2>2. cli'.at \notin {"stage", "unload", "restore", "restore-reload"}
    BY <1>30 DEF TryDoes
  <2> QED BY <1>15, <2>1, <2>2
<1>31. CASE EnableDoes
  BY <1>3, <1>5, <1>7, <1>10, <1>11, <1>12, <1>13, <1>14, <1>31 DEF EnableDoes
<1>32. CASE FinishSetupDoes
  <2>1. cli.at = "finish" /\ Exists("configDirectory") /\ \A p \in Made : Exists(p)
    BY <1>32 DEF FinishSetupDoes, MakingUp, Installing
  <2>2. \A p \in Managed \ {"configDirectory"} : p \in Made
    BY <2>1, ManagedPaths DEF Made
  <2> HIDE DEF Made
  <2>3. \A p \in Managed : Exists(p)
    BY <2>1, <2>2
  <2>4. \A p \in Paths : Exists(p) => Exists(p)'
    BY <1>14, <1>32 DEF FinishSetupDoes
  <2> QED BY <1>12, <2>3, <2>4 DEF Kept
<1>33. CASE UndoPackageDoes
  BY <1>3, <1>5, <1>7, <1>10, <1>11, <1>12, <1>13, <1>14, <1>33 DEF UndoPackageDoes
<1>34. CASE RemovePathDoes
  <2>1. record'.status # "installed"
    BY <1>5, <1>12, <1>34 DEF RemovePathDoes, FirstJournal, Journal
  <2>2. cli'.at \notin {"stage", "unload", "restore", "restore-reload"}
    BY <1>34 DEF RemovePathDoes
  <2> QED BY <1>15, <2>1, <2>2
<1>35. CASE RemoveConfigDoes
  <2>1. record'.status # "installed"
    BY <1>5, <1>12, <1>35 DEF RemoveConfigDoes, FirstJournal, Journal
  <2>2. cli'.at \notin {"stage", "unload", "restore", "restore-reload"}
    BY <1>35 DEF RemoveConfigDoes
  <2> QED BY <1>15, <2>1, <2>2
<1>36. CASE UndoRecordDoes
  <2>1. record'.status # "installed"
    BY <1>5, <1>12, <1>36 DEF UndoRecordDoes, FirstJournal, Journal
  <2>2. cli'.at \notin {"stage", "unload", "restore", "restore-reload"}
    BY <1>36 DEF UndoRecordDoes
  <2> QED BY <1>15, <2>1, <2>2
<1>37. CASE UndoEnableDoes
  BY <1>3, <1>5, <1>7, <1>10, <1>11, <1>12, <1>13, <1>14, <1>37 DEF UndoEnableDoes
<1>38. CASE UndoReloadDoes
  BY <1>3, <1>5, <1>7, <1>10, <1>11, <1>12, <1>13, <1>14, <1>38 DEF UndoReloadDoes
<1>39. CASE UndoRestartDoes
  BY <1>3, <1>5, <1>7, <1>10, <1>11, <1>12, <1>13, <1>14, <1>39 DEF UndoRestartDoes
<1>40. CASE SetupCallFailsDoes
  BY <1>3, <1>5, <1>7, <1>10, <1>11, <1>12, <1>13, <1>14, <1>40 DEF SetupCallFailsDoes
<1>41. CASE PrepareUninstallDoes
  BY <1>3, <1>5, <1>7, <1>10, <1>11, <1>12, <1>13, <1>14, <1>41 DEF PrepareUninstallDoes
<1>42. CASE AuthorizeUninstallDoes
  BY <1>3, <1>5, <1>7, <1>10, <1>11, <1>12, <1>13, <1>14, <1>42 DEF AuthorizeUninstallDoes
<1>43. CASE DisableDoes
  BY <1>3, <1>5, <1>7, <1>10, <1>11, <1>12, <1>13, <1>14, <1>43 DEF DisableDoes
<1>44. CASE RemovePackageDoes
  BY <1>3, <1>5, <1>7, <1>10, <1>11, <1>12, <1>13, <1>14, <1>44 DEF RemovePackageDoes
<1>45. CASE StageRecordDoes
  <2>1. record = cli.saved /\ Covering' = Covering /\ Covering = cli.saved /\ cli.at = "stage"
    BY <1>3, <1>5, <1>7, <1>10, <1>45 DEF StageRecordDoes
  <2> QED BY <1>5, <1>13, <1>14, <1>45, <2>1 DEF StageRecordDoes
<1>46. CASE StagePathDoes
  BY <1>3, <1>5, <1>7, <1>10, <1>11, <1>12, <1>13, <1>14, <1>46 DEF StagePathDoes
<1>47. CASE StagedDoes
  BY <1>3, <1>5, <1>7, <1>10, <1>11, <1>12, <1>13, <1>14, <1>47 DEF StagedDoes
<1>48. CASE UnloadDoes
  BY <1>3, <1>5, <1>7, <1>10, <1>11, <1>12, <1>13, <1>14, <1>48 DEF UnloadDoes
<1>49. CASE RestoreDoes
  <2>1. CASE record' = cli.saved /\ UNCHANGED disk
    <3>1. Covering = cli.saved
      BY <1>7, <1>49 DEF RestoreDoes
    <3>2. cli.at \in {"restore", "restore-reload"} /\ cli'.at = "restore-package"
      BY <1>49 DEF RestoreDoes
    <3> QED BY <1>13, <1>14, <2>1, <3>1, <3>2
  <2>2. CASE record.at = "none" /\ record' = record
    <3>1. record = NoRecord /\ cli'.at = "restore-package"
      BY <1>5, <1>10, <1>49, <2>2 DEF RestoreDoes
    <3> QED BY <1>5, <1>15, <2>2, <3>1
  <2> QED BY <1>49, <2>1, <2>2 DEF RestoreDoes
<1>50. CASE RestorePackageDoes
  BY <1>3, <1>5, <1>7, <1>10, <1>11, <1>12, <1>13, <1>14, <1>50 DEF RestorePackageDoes
<1>51. CASE RestoreEdgeDoes
  BY <1>3, <1>5, <1>7, <1>10, <1>11, <1>12, <1>13, <1>14, <1>51 DEF RestoreEdgeDoes
<1>52. CASE DeleteTreeDoes
  BY <1>5, <1>10, <1>15, <1>52 DEF DeleteTreeDoes
<1>53. CASE DeletedDoes
  BY <1>3, <1>5, <1>7, <1>10, <1>11, <1>12, <1>13, <1>14, <1>53 DEF DeletedDoes
<1>54. CASE UninstallCallFailsDoes
  <2>1. CASE cli.at = "stage"
    BY <1>3, <1>7, <1>10, <1>13, <1>14, <1>54, <2>1 DEF UninstallCallFailsDoes
  <2>2. CASE cli.at = "delete"
    BY <1>5, <1>10, <1>15, <1>54, <2>2 DEF UninstallCallFailsDoes
  <2> QED BY <1>54, <2>1, <2>2 DEF UninstallCallFailsDoes
<1>55. CASE PrepareResetDoes
  BY <1>3, <1>5, <1>7, <1>10, <1>11, <1>12, <1>13, <1>14, <1>55 DEF PrepareResetDoes
<1>56. CASE ReadPasswordDoes
  BY <1>3, <1>5, <1>7, <1>10, <1>11, <1>12, <1>13, <1>14, <1>56 DEF ReadPasswordDoes
<1>57. CASE StopDoes
  BY <1>3, <1>5, <1>7, <1>10, <1>11, <1>12, <1>13, <1>14, <1>57 DEF StopDoes
<1>58. CASE ReplaceDocumentDoes
  BY <1>3, <1>5, <1>7, <1>10, <1>11, <1>12, <1>13, <1>14, <1>58 DEF ReplaceDocumentDoes
<1>59. CASE ReplaceSecretDoes
  BY <1>3, <1>5, <1>7, <1>10, <1>11, <1>12, <1>13, <1>14, <1>59 DEF ReplaceSecretDoes
<1>60. CASE StartDoes
  BY <1>3, <1>5, <1>7, <1>10, <1>11, <1>12, <1>13, <1>14, <1>60 DEF StartDoes
<1>61. CASE RestoreDocumentDoes
  BY <1>3, <1>5, <1>7, <1>10, <1>11, <1>12, <1>13, <1>14, <1>61 DEF RestoreDocumentDoes
<1>62. CASE RestoreSecretDoes
  BY <1>3, <1>5, <1>7, <1>10, <1>11, <1>12, <1>13, <1>14, <1>62 DEF RestoreSecretDoes
<1>63. CASE RestoreServiceDoes
  BY <1>3, <1>5, <1>7, <1>10, <1>11, <1>12, <1>13, <1>14, <1>63 DEF RestoreServiceDoes
<1>64. CASE ResetCallFailsDoes
  BY <1>3, <1>5, <1>7, <1>10, <1>11, <1>12, <1>13, <1>14, <1>64 DEF ResetCallFailsDoes
<1>65. CASE KillDoes
  <2>1. record' = record /\ cli'.at = "idle" /\ Gone(cli.aside)
    BY <1>65 DEF KillDoes
  <2>2. CASE cli.aside = {}
    <3>1. \A p \in Paths : Exists(p) => Exists(p)'
      BY <2>1, <2>2 DEF Gone, Exists, Tree, Within
    <3> QED BY <1>13, <2>1, <3>1
  <2>3. CASE cli.aside # {}
    <3>1. record = NoRecord
      BY <2>3 DEF SavedAt
    <3> QED BY <1>5, <1>15, <2>1, <3>1
  <2> QED BY <2>2, <2>3
<1>66. CASE ServiceWritesDoes
  <2>1. \A p \in Paths : Exists(p) => Exists(p)'
    BY <1>66 DEF ServiceWritesDoes, Exists
  <2>2. (UNCHANGED record /\ cli'.at \notin {"stage", "unload", "restore", "restore-reload"}) \/ UNCHANGED <<cli, record>>
    BY <1>66 DEF ServiceWritesDoes
  <2>3. UNCHANGED <<cli, record>> => Covering' = Covering
    BY DEF Covering, At
  <2> QED BY <1>13, <2>1, <2>2, <2>3
<1>67. CASE OperatorAddsDropIn
  BY <1>3, <1>5, <1>7, <1>10, <1>11, <1>12, <1>13, <1>14, <1>67 DEF OperatorAddsDropIn
<1>68. CASE RebootDoes
  BY <1>3, <1>5, <1>7, <1>10, <1>11, <1>12, <1>13, <1>14, <1>68 DEF RebootDoes
<1> QED BY <1>1, <1>16, <1>17, <1>18, <1>19, <1>20, <1>21, <1>22, <1>23, <1>24, <1>25, <1>26, <1>27, <1>28, <1>29, <1>30, <1>31, <1>32, <1>33, <1>34, <1>35, <1>36, <1>37, <1>38, <1>39, <1>40, <1>41, <1>42, <1>43, <1>44, <1>45, <1>46, <1>47, <1>48, <1>49, <1>50, <1>51, <1>52, <1>53, <1>54, <1>55, <1>56, <1>57, <1>58, <1>59, <1>60, <1>61, <1>62, <1>63, <1>64, <1>65, <1>66, <1>67, <1>68 DEF Steps

(* A complete installation keeps its bundle, drop-in, edge and service.    *)
LEMMA WholeStep ==
  ASSUME Typed, Running, Running', RecordShape, Bootstrapped, RecordAt, SavedAt, SavedAt', Nested, MakingUp, Kept, Kept', Resetting, Whole, Next
  PROVE  Whole'
<1> USE DEF Moved, Went, Onward, Steady, Over, OverBut, AtIdle, OnPath, OnNext, Began, Others, services, Notes, Puts, Replaces, Resumed, SetupPlaces, Installing, Undoing, UninstallPlaces, Leaving, Restoring, ResetPlaces
<1>1. Steps
  BY EveryStep
<1>2. Typed' /\ output' = output
  BY TypedStep, SameHost
<1>3. /\ cli.at \notin SetupPlaces =>
           Covering' = Covering \/ (cli'.at = "idle" /\ Covering' = NoRecord /\ cli.at \in UninstallPlaces)
      /\ cli.at \in SetupPlaces => Covering = record /\ Covering' = record'
      /\ cli'.at \notin UninstallPlaces => Covering' = record'
  BY CoveringStep
<1>5. NoRecord.package = FALSE /\ NoRecord.created = {} /\ NoRecord.at = "none" /\ NoRecord.tried = {} /\ NoRecord.status = "none"
  BY DEF NoRecord
<1>7. (cli.at \in UninstallPlaces => Covering = cli.saved) /\ (cli.at \notin UninstallPlaces => Covering = record)
  BY CoveringIs DEF Typed, Commands
<1>10. /\ cli.at \in UninstallPlaces => record = cli.saved \/ record = NoRecord
       /\ cli.at \in {"authorize", "disable", "remove-package"} => record = cli.saved /\ cli.tried = {}
       /\ cli.at \in {"restore-package", "restore-edge"} /\ record = NoRecord => cli.lost /\ cli.broken
       /\ cli.at \in {"unload", "delete", "restore-reload"} => record = NoRecord
       /\ cli.at \in UninstallPlaces /\ "package" \in cli.tried => cli.saved.package
       /\ cli.at \in UninstallPlaces => cli.tried \subseteq {"package"} /\ "enable" \notin cli.tried
       /\ cli.at \in UninstallPlaces => cli.saved.at = "final" /\ cli.saved.status # "none"
       /\ cli.at \notin UninstallPlaces => cli.saved = NoRecord /\ cli.aside = {}
  BY <1>5 DEF SavedAt
<1>11. /\ cli.at \in ResetPlaces => record.status = "installed" /\ cli.at \notin SetupPlaces /\ cli.at \notin UninstallPlaces
       /\ cli.at \in ResetPlaces => Covering = record
  BY <1>7 DEF RecordAt, ResetPlaces
<1> HIDE DEF Covering
<1>12. /\ Managed \subseteq Paths /\ (~output => {"systemdDropInFile", "environmentFile", "caddyUnitFile"} \subseteq Managed)
       /\ cli.at \in SetupPlaces => record.status # "installed"
  BY ManagedPaths DEF RecordAt, Paths, Directories
<1>13. ASSUME Covering'.status # "installed" PROVE Whole'
  BY <1>13 DEF Whole
<1>14. output \in BOOLEAN /\ edge \in BOOLEAN /\ loaded \in BOOLEAN /\ cli.broken \in BOOLEAN /\ cli.wasActive \in BOOLEAN
  BY DEF Typed, Commands
<1>15. ASSUME ~output, record.status = "installed", loaded, bundle # "none" PROVE Booted = "guarded"
  BY <1>12, <1>15 DEF Booted, Kept
<1>16. cli.at \in ResetPlaces \cup {"idle"} /\ ~cli.broken /\ record.status = "installed" /\ ~output =>
         loaded /\ edge /\ bundle # "none" /\ dsh # "plain" /\ Booted = "guarded"
  <2>1. cli.at \in ResetPlaces => cli.tried = {}
    BY DEF RecordAt
  <2>2. cli.at = "idle" => Covering = record /\ cli.tried = {}
    BY <1>7 DEF RecordAt
  <2> QED BY <1>11, <1>15, <2>1, <2>2 DEF Whole
<1>17. ASSUME cli.at \in ResetPlaces \cup {"idle"}, cli'.at \in ResetPlaces \cup {"idle", "authorize"},
              UNCHANGED <<record, bundle, loaded, edge>>, cli.broken => cli'.broken,
              dsh' \in {dsh, "stopped", Booted}, cli'.at = "idle" => cli'.command = "reset"
       PROVE  Whole'
  <2>1. Covering' = record
    BY <1>3, <1>7, <1>17
  <2> QED BY <1>2, <1>16, <1>17, <2>1 DEF Whole
<1>19. ASSUME cli'.broken, cli'.broken \in BOOLEAN PROVE Whole'
  BY <1>19 DEF Whole
<1> HIDE DEF Exists, Booted, Whole
<1>20. CASE PrepareSetupDoes
  <2>1. cli'.at = "secrets" /\ record'.status # "installed"
    BY <1>5, <1>20 DEF PrepareSetupDoes, Ready, Interrupted, RecordShape
  <2> QED BY <1>3, <1>13, <2>1
<1>21. CASE ReadSecretsDoes
  <2>1. cli.at \in SetupPlaces /\ record'.status # "installed"
    BY <1>5, <1>12, <1>21 DEF ReadSecretsDoes, FirstJournal, Journal
  <2> QED BY <1>3, <1>13, <2>1
<1>22. CASE WriteJournalDoes
  <2>1. cli.at \in SetupPlaces /\ record'.status # "installed"
    BY <1>5, <1>12, <1>22 DEF WriteJournalDoes, FirstJournal, Journal
  <2> QED BY <1>3, <1>13, <2>1
<1>23. CASE TearJournalDoes
  <2>1. cli.at \in SetupPlaces /\ record'.status # "installed"
    BY <1>5, <1>12, <1>23 DEF TearJournalDoes, FirstJournal, Journal
  <2> QED BY <1>3, <1>13, <2>1
<1>24. CASE MakeConfigDoes
  <2>1. cli.at \in SetupPlaces /\ record'.status # "installed"
    BY <1>5, <1>12, <1>24 DEF MakeConfigDoes, FirstJournal, Journal
  <2> QED BY <1>3, <1>13, <2>1
<1>25. CASE MoveJournalDoes
  <2>1. cli.at \in SetupPlaces /\ record'.status # "installed"
    BY <1>5, <1>12, <1>25 DEF MoveJournalDoes, FirstJournal, Journal
  <2> QED BY <1>3, <1>13, <2>1
<1>26. CASE RecordPackageDoes
  <2>1. cli.at \in SetupPlaces /\ record'.status # "installed"
    BY <1>5, <1>12, <1>26 DEF RecordPackageDoes, FirstJournal, Journal
  <2> QED BY <1>3, <1>13, <2>1
<1>27. CASE AddPackageDoes
  <2>1. cli.at \in SetupPlaces /\ record'.status # "installed"
    BY <1>5, <1>12, <1>27 DEF AddPackageDoes, FirstJournal, Journal
  <2> QED BY <1>3, <1>13, <2>1
<1>28. CASE RecordPathDoes
  <2>1. cli.at \in SetupPlaces /\ record'.status # "installed"
    BY <1>5, <1>12, <1>28 DEF RecordPathDoes, FirstJournal, Journal
  <2> QED BY <1>3, <1>13, <2>1
<1>29. CASE MakePathDoes
  <2>1. cli.at \in SetupPlaces /\ record'.status # "installed"
    BY <1>5, <1>12, <1>29 DEF MakePathDoes, FirstJournal, Journal
  <2> QED BY <1>3, <1>13, <2>1
<1>30. CASE TryDoes("record-reload", "reload", "reload")
  <2>1. cli.at \in SetupPlaces /\ record'.status # "installed"
    BY <1>5, <1>12, <1>30 DEF TryDoes, FirstJournal, Journal
  <2> QED BY <1>3, <1>13, <2>1
<1>31. CASE ReloadDoes
  <2>1. cli.at \in SetupPlaces /\ record'.status # "installed"
    BY <1>5, <1>12, <1>31 DEF ReloadDoes, FirstJournal, Journal
  <2> QED BY <1>3, <1>13, <2>1
<1>32. CASE TryDoes("record-restart", "restart", "restart")
  <2>1. cli.at \in SetupPlaces /\ record'.status # "installed"
    BY <1>5, <1>12, <1>32 DEF TryDoes, FirstJournal, Journal
  <2> QED BY <1>3, <1>13, <2>1
<1>33. CASE RestartDoes
  <2>1. cli.at \in SetupPlaces /\ record'.status # "installed"
    BY <1>5, <1>12, <1>33 DEF RestartDoes, FirstJournal, Journal
  <2> QED BY <1>3, <1>13, <2>1
<1>34. CASE TryDoes("record-enable", "enable", "enable")
  <2>1. cli.at \in SetupPlaces /\ record'.status # "installed"
    BY <1>5, <1>12, <1>34 DEF TryDoes, FirstJournal, Journal
  <2> QED BY <1>3, <1>13, <2>1
<1>35. CASE EnableDoes
  <2>1. cli.at \in SetupPlaces /\ record'.status # "installed"
    BY <1>5, <1>12, <1>35 DEF EnableDoes, FirstJournal, Journal
  <2> QED BY <1>3, <1>13, <2>1
<1>36. CASE FinishSetupDoes
  <2>1. cli.at = "finish" /\ cli'.at = "idle" /\ UNCHANGED <<bundle, edge, loaded, dsh>>
    BY <1>36 DEF FinishSetupDoes
  <2>2. ~output => edge /\ loaded /\ dsh = "guarded" /\ bundle # "none"
    BY <2>1 DEF MakingUp
  <2> QED BY <1>2, <2>1, <2>2 DEF Whole
<1>37. CASE UndoPackageDoes
  <2>1. cli.at \in SetupPlaces /\ record'.status # "installed"
    BY <1>5, <1>12, <1>37 DEF UndoPackageDoes, FirstJournal, Journal
  <2> QED BY <1>3, <1>13, <2>1
<1>38. CASE RemovePathDoes
  <2>1. cli.at \in SetupPlaces /\ record'.status # "installed"
    BY <1>5, <1>12, <1>38 DEF RemovePathDoes, FirstJournal, Journal
  <2> QED BY <1>3, <1>13, <2>1
<1>39. CASE RemoveConfigDoes
  <2>1. cli.at \in SetupPlaces /\ record'.status # "installed"
    BY <1>5, <1>12, <1>39 DEF RemoveConfigDoes, FirstJournal, Journal
  <2> QED BY <1>3, <1>13, <2>1
<1>40. CASE UndoRecordDoes
  <2>1. cli.at \in SetupPlaces /\ record'.status # "installed"
    BY <1>5, <1>12, <1>40 DEF UndoRecordDoes, FirstJournal, Journal
  <2> QED BY <1>3, <1>13, <2>1
<1>41. CASE UndoEnableDoes
  <2>1. cli.at \in SetupPlaces /\ record'.status # "installed"
    BY <1>5, <1>12, <1>41 DEF UndoEnableDoes, FirstJournal, Journal
  <2> QED BY <1>3, <1>13, <2>1
<1>42. CASE UndoReloadDoes
  <2>1. cli.at \in SetupPlaces /\ record'.status # "installed"
    BY <1>5, <1>12, <1>42 DEF UndoReloadDoes, FirstJournal, Journal
  <2> QED BY <1>3, <1>13, <2>1
<1>43. CASE UndoRestartDoes
  <2>1. cli.at \in SetupPlaces /\ record'.status # "installed"
    BY <1>5, <1>12, <1>43 DEF UndoRestartDoes, FirstJournal, Journal
  <2> QED BY <1>3, <1>13, <2>1
<1>44. CASE SetupCallFailsDoes
  <2>1. cli.at \in SetupPlaces /\ record'.status # "installed"
    BY <1>5, <1>12, <1>44 DEF SetupCallFailsDoes, FirstJournal, Journal
  <2> QED BY <1>3, <1>13, <2>1
<1>45. CASE PrepareUninstallDoes
  <2>1. /\ cli.at \in ResetPlaces \cup {"idle"} /\ cli'.at \in ResetPlaces \cup {"idle", "authorize"}
        /\ UNCHANGED <<record, bundle, loaded, edge>>
    BY <1>45 DEF PrepareUninstallDoes
  <2>2. cli.broken => cli'.broken
    BY <1>45 DEF PrepareUninstallDoes, Bad
  <2>3. dsh' \in {dsh, "stopped", Booted} /\ (cli'.at = "idle" => cli'.command = "reset")
    BY <1>45, <2>1 DEF PrepareUninstallDoes, Running
  <2> QED BY <1>17, <2>1, <2>2, <2>3
<1>46. CASE AuthorizeUninstallDoes
  <2>1. /\ UNCHANGED <<dsh, edge, loaded, bundle, record>> /\ cli.at = "authorize" /\ cli'.at \in {"disable", "idle"}
        /\ (cli.broken => cli'.broken) /\ cli'.command # "setup"
    BY <1>46 DEF AuthorizeUninstallDoes, Bad, Running
  <2> QED BY <1>2, <1>3, <1>5, <1>7, <1>10, <2>1 DEF Whole
<1>47. CASE DisableDoes
  <2>1. /\ UNCHANGED <<dsh, loaded, bundle, record>> /\ cli.at = "disable" /\ cli'.at \in {"remove-package", "restore"}
        /\ cli'.broken = cli.broken /\ cli'.tried = cli.tried
    BY <1>47 DEF DisableDoes
  <2> QED BY <1>2, <1>3, <1>5, <1>7, <1>10, <2>1 DEF Whole
<1>48. CASE RemovePackageDoes
  <2>1. /\ UNCHANGED <<dsh, edge, loaded, record>> /\ cli.at = "remove-package" /\ cli'.at \in {"stage", "restore"}
        /\ cli'.broken = cli.broken
        /\ \/ cli'.tried = {"package"}
           \/ cli'.tried = cli.tried /\ UNCHANGED bundle
    BY <1>48 DEF RemovePackageDoes
  <2> QED BY <1>2, <1>3, <1>5, <1>7, <1>10, <2>1 DEF Whole
<1>49. CASE StageRecordDoes
  <2>1. UNCHANGED <<dsh, edge, loaded, bundle>> /\ cli'.broken = cli.broken /\ cli'.tried = cli.tried /\ cli.at = "stage" /\ cli'.at \in {"stage", "unload"}
    BY <1>49 DEF StageRecordDoes
  <2> QED BY <1>2, <1>3, <1>5, <1>7, <1>10, <2>1 DEF Whole
<1>50. CASE StagePathDoes
  <2>1. UNCHANGED <<dsh, edge, loaded, bundle>> /\ cli'.broken = cli.broken /\ cli'.tried = cli.tried /\ cli.at = "stage" /\ cli'.at \in {"stage", "unload"}
    BY <1>50 DEF StagePathDoes
  <2> QED BY <1>2, <1>3, <1>5, <1>7, <1>10, <2>1 DEF Whole
<1>51. CASE StagedDoes
  <2>1. UNCHANGED <<dsh, edge, loaded, bundle>> /\ cli'.broken = cli.broken /\ cli'.tried = cli.tried /\ cli.at = "stage" /\ cli'.at \in {"stage", "unload"}
    BY <1>51 DEF StagedDoes
  <2> QED BY <1>2, <1>3, <1>5, <1>7, <1>10, <2>1 DEF Whole
<1>52. CASE UnloadDoes
  <2>1. /\ UNCHANGED <<dsh, edge, bundle>> /\ cli'.broken = cli.broken /\ cli'.tried = cli.tried
        /\ cli.at = "unload" /\ cli'.at \in {"delete", "restore-reload"}
    BY <1>52 DEF UnloadDoes
  <2> QED BY <1>2, <1>3, <1>5, <1>7, <1>10, <2>1 DEF Whole
<1>53. CASE RestoreDoes
  <2>1. /\ UNCHANGED <<dsh, edge, bundle>> /\ cli'.tried = cli.tried
        /\ cli.at \in {"restore", "restore-reload"} /\ cli'.at = "restore-package"
        /\ cli.broken => cli'.broken
    BY <1>53 DEF RestoreDoes
  <2>2. cli'.broken \/ loaded' = (IF cli.at = "restore" THEN loaded ELSE Exists("systemdDropInFile"))
    BY <1>53 DEF RestoreDoes
  <2>3. Covering = cli.saved /\ Covering' = Covering
    BY <1>3, <1>7, <1>53, <2>1 DEF RestoreDoes
  <2>4. Covering.status = "installed" /\ ~output => Exists("systemdDropInFile")
    BY <1>12, <2>1 DEF Kept
  <2> QED BY <1>2, <2>1, <2>2, <2>3, <2>4 DEF Whole
<1>54. CASE RestorePackageDoes
  <2>1. /\ UNCHANGED <<dsh, edge, loaded>> /\ cli'.tried = cli.tried
        /\ cli.at = "restore-package" /\ cli'.at = "restore-edge"
        /\ cli'.broken = TRUE \/ (cli'.broken = cli.broken /\ (bundle' = "ours" \/ ("package" \notin cli.tried /\ UNCHANGED bundle)))
    BY <1>54 DEF RestorePackageDoes
  <2> QED BY <1>2, <1>3, <1>5, <1>7, <1>10, <2>1 DEF Whole
<1>55. CASE RestoreEdgeDoes
  <2>1. /\ UNCHANGED <<dsh, loaded, bundle, record>> /\ cli.at = "restore-edge" /\ cli'.at = "idle"
        /\ (cli.broken => cli'.broken) /\ cli'.command # "setup"
    BY <1>55 DEF RestoreEdgeDoes, Bad, Running
  <2>2. cli'.broken \/ (Exists("caddyUnitFile") => edge')
    BY <1>55 DEF RestoreEdgeDoes, Bad, Told, Running
  <2>3. cli.broken \/ (record = cli.saved /\ Covering = record /\ Covering' = record)
    BY <1>3, <1>7, <1>10, <2>1
  <2>4. record.status = "installed" /\ ~output => Exists("caddyUnitFile")
    BY <1>12 DEF Kept
  <2> QED BY <1>2, <2>1, <2>2, <2>3, <2>4 DEF Whole
<1>56. CASE DeleteTreeDoes
  <2>1. UNCHANGED <<dsh, edge, loaded, bundle>> /\ cli'.broken = cli.broken /\ cli'.tried = cli.tried /\ cli.at = "delete" /\ cli'.at = "delete"
    BY <1>56 DEF DeleteTreeDoes
  <2> QED BY <1>2, <1>3, <1>5, <1>7, <1>10, <2>1 DEF Whole
<1>57. CASE DeletedDoes
  <2>1. record' = NoRecord /\ cli'.at = "idle"
    BY <1>10, <1>57 DEF DeletedDoes
  <2> QED BY <1>3, <1>5, <1>13, <2>1
<1>58. CASE UninstallCallFailsDoes
  <2>1. CASE cli.at = "stage"
    <3>1. UNCHANGED <<dsh, edge, loaded, bundle>> /\ cli'.broken = cli.broken /\ cli'.tried = cli.tried /\ cli'.at = "restore"
      BY <1>58, <2>1 DEF UninstallCallFailsDoes
    <3> QED BY <1>2, <1>3, <1>7, <2>1, <3>1 DEF Whole
  <2>2. CASE cli.at = "delete"
    <3>1. record' = NoRecord /\ cli'.at = "idle"
      BY <1>10, <1>58, <2>2 DEF UninstallCallFailsDoes
    <3> QED BY <1>3, <1>5, <1>13, <3>1
  <2> QED BY <1>58, <2>1, <2>2 DEF UninstallCallFailsDoes
<1>59. CASE PrepareResetDoes
  <2>1. /\ cli.at \in ResetPlaces \cup {"idle"} /\ cli'.at \in ResetPlaces \cup {"idle", "authorize"}
        /\ UNCHANGED <<record, bundle, loaded, edge>>
    BY <1>59 DEF PrepareResetDoes
  <2>2. cli.broken => cli'.broken
    BY <1>59 DEF PrepareResetDoes, Bad
  <2>3. dsh' \in {dsh, "stopped", Booted} /\ (cli'.at = "idle" => cli'.command = "reset")
    BY <1>59, <2>1 DEF PrepareResetDoes, Running
  <2> QED BY <1>17, <2>1, <2>2, <2>3
<1>60. CASE ReadPasswordDoes
  <2>1. /\ cli.at \in ResetPlaces \cup {"idle"} /\ cli'.at \in ResetPlaces \cup {"idle", "authorize"}
        /\ UNCHANGED <<record, bundle, loaded, edge>>
    BY <1>60 DEF ReadPasswordDoes
  <2>2. cli.broken => cli'.broken
    BY <1>60 DEF ReadPasswordDoes, Bad
  <2>3. dsh' \in {dsh, "stopped", Booted} /\ (cli'.at = "idle" => cli'.command = "reset")
    BY <1>60, <2>1 DEF ReadPasswordDoes, Running
  <2> QED BY <1>17, <2>1, <2>2, <2>3
<1>61. CASE StopDoes
  <2>1. /\ cli.at \in ResetPlaces \cup {"idle"} /\ cli'.at \in ResetPlaces \cup {"idle", "authorize"}
        /\ UNCHANGED <<record, bundle, loaded, edge>>
    BY <1>61 DEF StopDoes
  <2>2. cli.broken => cli'.broken
    BY <1>61 DEF StopDoes, Bad
  <2>3. dsh' \in {dsh, "stopped", Booted} /\ (cli'.at = "idle" => cli'.command = "reset")
    BY <1>61, <2>1 DEF StopDoes, Running
  <2> QED BY <1>17, <2>1, <2>2, <2>3
<1>62. CASE ReplaceDocumentDoes
  <2>1. /\ cli.at \in ResetPlaces \cup {"idle"} /\ cli'.at \in ResetPlaces \cup {"idle", "authorize"}
        /\ UNCHANGED <<record, bundle, loaded, edge>>
    BY <1>62 DEF ReplaceDocumentDoes
  <2>2. cli.broken => cli'.broken
    BY <1>62 DEF ReplaceDocumentDoes, Bad
  <2>3. dsh' \in {dsh, "stopped", Booted} /\ (cli'.at = "idle" => cli'.command = "reset")
    BY <1>62, <2>1 DEF ReplaceDocumentDoes, Running
  <2> QED BY <1>17, <2>1, <2>2, <2>3
<1>63. CASE ReplaceSecretDoes
  <2>1. /\ cli.at \in ResetPlaces \cup {"idle"} /\ cli'.at \in ResetPlaces \cup {"idle", "authorize"}
        /\ UNCHANGED <<record, bundle, loaded, edge>>
    BY <1>63 DEF ReplaceSecretDoes
  <2>2. cli.broken => cli'.broken
    BY <1>63 DEF ReplaceSecretDoes, Bad
  <2>3. dsh' \in {dsh, "stopped", Booted} /\ (cli'.at = "idle" => cli'.command = "reset")
    BY <1>63, <2>1 DEF ReplaceSecretDoes, Running
  <2> QED BY <1>17, <2>1, <2>2, <2>3
<1>64. CASE StartDoes
  <2>1. /\ cli.at \in ResetPlaces \cup {"idle"} /\ cli'.at \in ResetPlaces \cup {"idle", "authorize"}
        /\ UNCHANGED <<record, bundle, loaded, edge>>
    BY <1>64 DEF StartDoes
  <2>2. cli.broken => cli'.broken
    BY <1>64 DEF StartDoes, Bad
  <2>3. dsh' \in {dsh, "stopped", Booted} /\ (cli'.at = "idle" => cli'.command = "reset")
    BY <1>64, <2>1 DEF StartDoes, Running
  <2> QED BY <1>17, <2>1, <2>2, <2>3
<1>65. CASE RestoreDocumentDoes
  <2>1. /\ cli.at \in ResetPlaces \cup {"idle"} /\ cli'.at \in ResetPlaces \cup {"idle", "authorize"}
        /\ UNCHANGED <<record, bundle, loaded, edge>>
    BY <1>65 DEF RestoreDocumentDoes
  <2>2. cli.broken => cli'.broken
    BY <1>65 DEF RestoreDocumentDoes, Bad
  <2>3. dsh' \in {dsh, "stopped", Booted} /\ (cli'.at = "idle" => cli'.command = "reset")
    BY <1>65, <2>1 DEF RestoreDocumentDoes, Running
  <2> QED BY <1>17, <2>1, <2>2, <2>3
<1>66. CASE RestoreSecretDoes
  <2>1. /\ cli.at \in ResetPlaces \cup {"idle"} /\ cli'.at \in ResetPlaces \cup {"idle", "authorize"}
        /\ UNCHANGED <<record, bundle, loaded, edge>>
    BY <1>66 DEF RestoreSecretDoes
  <2>2. cli.broken => cli'.broken
    BY <1>66 DEF RestoreSecretDoes, Bad
  <2>3. dsh' \in {dsh, "stopped", Booted} /\ (cli'.at = "idle" => cli'.command = "reset")
    BY <1>66, <2>1 DEF RestoreSecretDoes, Running
  <2> QED BY <1>17, <2>1, <2>2, <2>3
<1>67. CASE RestoreServiceDoes
  <2>1. /\ cli.at \in ResetPlaces \cup {"idle"} /\ cli'.at \in ResetPlaces \cup {"idle", "authorize"}
        /\ UNCHANGED <<record, bundle, loaded, edge>>
    BY <1>67 DEF RestoreServiceDoes
  <2>2. cli.broken => cli'.broken
    BY <1>67 DEF RestoreServiceDoes, Bad
  <2>3. dsh' \in {dsh, "stopped", Booted} /\ (cli'.at = "idle" => cli'.command = "reset")
    BY <1>67, <2>1 DEF RestoreServiceDoes, Running
  <2> QED BY <1>17, <2>1, <2>2, <2>3
<1>68. CASE ResetCallFailsDoes
  <2>1. /\ cli.at \in ResetPlaces \cup {"idle"} /\ cli'.at \in ResetPlaces \cup {"idle", "authorize"}
        /\ UNCHANGED <<record, bundle, loaded, edge>>
    BY <1>68 DEF ResetCallFailsDoes
  <2>2. cli.broken => cli'.broken
    BY <1>68 DEF ResetCallFailsDoes, Bad
  <2>3. dsh' \in {dsh, "stopped", Booted} /\ (cli'.at = "idle" => cli'.command = "reset")
    BY <1>68, <2>1 DEF ResetCallFailsDoes, Running
  <2> QED BY <1>17, <2>1, <2>2, <2>3
<1>69. CASE KillDoes
  <2>1. cli'.at = "idle" /\ cli'.broken = Bad("killed") /\ UNCHANGED record /\ cli.at # "idle"
    BY <1>69 DEF KillDoes
  <2>2. CASE cli.at \in SetupPlaces
    BY <1>3, <1>12, <1>13, <2>1, <2>2
  <2>3. CASE cli.at \notin SetupPlaces
    <3>1. cli.command # "setup"
      BY <2>1, <2>3 DEF Running, Typed, Commands, Places
    <3>2. cli'.broken
      BY <2>1, <3>1 DEF Bad, Told
    <3> QED BY <1>19, <3>2
  <2> QED BY <2>2, <2>3
<1>70. CASE ServiceWritesDoes
  <2>1. UNCHANGED <<cli, record, bundle, dsh, loaded, edge>>
    BY <1>70 DEF ServiceWritesDoes
  <2>2. Covering' = Covering
    BY <2>1 DEF Covering, At
  <2> QED BY <1>2, <2>1, <2>2 DEF Whole
<1>71. CASE OperatorAddsDropIn
  <2>1. UNCHANGED <<cli, record, bundle, dsh, loaded, edge>>
    BY <1>71 DEF OperatorAddsDropIn
  <2>2. Covering' = Covering
    BY <2>1 DEF Covering, At
  <2> QED BY <1>2, <2>1, <2>2 DEF Whole
<1>72. CASE RebootDoes
  <2>1. /\ UNCHANGED <<disk, record, bundle>> /\ cli.at = "idle" /\ cli'.at = "idle" /\ cli'.tried = cli.tried
        /\ cli'.answer = "rebooted" /\ (cli.broken => cli'.broken)
        /\ loaded' = Reloaded /\ edge' = (edge /\ Exists("caddyUnitFile")) /\ dsh' \in {"stopped", Booted'}
    BY <1>72 DEF RebootDoes
  <2>2. Covering = record /\ Covering' = record
    BY <1>3, <1>7, <2>1
  <2>3. record.status = "installed" /\ ~output => Exists("caddyUnitFile") /\ loaded'
    BY <1>12, <2>1 DEF Kept, Reloaded
  <2>4. loaded' /\ bundle' # "none" => Booted' # "plain"
    BY DEF Booted
  <2> QED BY <1>2, <1>10, <1>16, <2>1, <2>2, <2>3, <2>4 DEF Whole
<1> QED BY <1>1, <1>20, <1>21, <1>22, <1>23, <1>24, <1>25, <1>26, <1>27, <1>28, <1>29, <1>30, <1>31, <1>32, <1>33, <1>34, <1>35, <1>36, <1>37, <1>38, <1>39, <1>40, <1>41, <1>42, <1>43, <1>44, <1>45, <1>46, <1>47, <1>48, <1>49, <1>50, <1>51, <1>52, <1>53, <1>54, <1>55, <1>56, <1>57, <1>58, <1>59, <1>60, <1>61, <1>62, <1>63, <1>64, <1>65, <1>66, <1>67, <1>68, <1>69, <1>70, <1>71, <1>72 DEF Steps

(* What a command answers fits the record that it leaves.                  *)
LEMMA AnsweredStep ==
  ASSUME Typed, Running, Running', RecordShape, Bootstrapped, RecordAt, SavedAt, SavedAt', Nested, Answered, Next
  PROVE  Answered'
<1> USE DEF Moved, Went, Onward, Steady, Over, OverBut, AtIdle, OnPath, OnNext, Began, Others, services, Notes, Puts, Replaces, Resumed, Answered, SetupPlaces, Installing, Undoing, UninstallPlaces, Leaving, Restoring, ResetPlaces
<1>1. Steps
  BY EveryStep
<1>2. Typed' /\ output' = output
  BY TypedStep, SameHost
<1>3. /\ cli.at \in SetupPlaces => record.status # "installed"
      /\ cli.at \in ResetPlaces => record.status = "installed"
      /\ cli.at \in SetupPlaces => cli.command = "setup"
      /\ cli.at \in UninstallPlaces => cli.command = "uninstall"
      /\ cli.at \in ResetPlaces => cli.command = "reset"
  BY DEF RecordAt, Running
<1>4. CASE PrepareSetupDoes
  BY <1>2, <1>4, <1>3 DEF PrepareSetupDoes
<1>5. CASE ReadSecretsDoes
  BY <1>2, <1>5, <1>3 DEF ReadSecretsDoes
<1>6. CASE WriteJournalDoes
  BY <1>2, <1>6, <1>3 DEF WriteJournalDoes, FirstJournal, Journal
<1>7. CASE TearJournalDoes
  BY <1>2, <1>7, <1>3 DEF TearJournalDoes, FirstJournal, Journal
<1>8. CASE MakeConfigDoes
  BY <1>2, <1>8, <1>3 DEF MakeConfigDoes
<1>9. CASE MoveJournalDoes
  BY <1>2, <1>9, <1>3 DEF MoveJournalDoes
<1>10. CASE RecordPackageDoes
  BY <1>2, <1>10, <1>3 DEF RecordPackageDoes
<1>11. CASE AddPackageDoes
  BY <1>2, <1>11, <1>3 DEF AddPackageDoes
<1>12. CASE RecordPathDoes
  BY <1>2, <1>12, <1>3 DEF RecordPathDoes
<1>13. CASE MakePathDoes
  BY <1>2, <1>13, <1>3 DEF MakePathDoes
<1>14. CASE TryDoes("record-reload", "reload", "reload")
  BY <1>2, <1>14, <1>3 DEF TryDoes
<1>15. CASE ReloadDoes
  BY <1>2, <1>15, <1>3 DEF ReloadDoes
<1>16. CASE TryDoes("record-restart", "restart", "restart")
  BY <1>2, <1>16, <1>3 DEF TryDoes
<1>17. CASE RestartDoes
  BY <1>2, <1>17, <1>3 DEF RestartDoes
<1>18. CASE TryDoes("record-enable", "enable", "enable")
  BY <1>2, <1>18, <1>3 DEF TryDoes
<1>19. CASE EnableDoes
  BY <1>2, <1>19, <1>3 DEF EnableDoes
<1>20. CASE FinishSetupDoes
  BY <1>2, <1>20, <1>3 DEF FinishSetupDoes
<1>21. CASE UndoPackageDoes
  BY <1>2, <1>21, <1>3 DEF UndoPackageDoes
<1>22. CASE RemovePathDoes
  BY <1>2, <1>22, <1>3 DEF RemovePathDoes
<1>23. CASE RemoveConfigDoes
  BY <1>2, <1>23, <1>3 DEF RemoveConfigDoes
<1>24. CASE UndoRecordDoes
  BY <1>2, <1>24, <1>3 DEF UndoRecordDoes
<1>25. CASE UndoEnableDoes
  BY <1>2, <1>25, <1>3 DEF UndoEnableDoes
<1>26. CASE UndoReloadDoes
  BY <1>2, <1>26, <1>3 DEF UndoReloadDoes
<1>27. CASE UndoRestartDoes
  BY <1>2, <1>27, <1>3 DEF UndoRestartDoes
<1>28. CASE SetupCallFailsDoes
  BY <1>2, <1>28, <1>3 DEF SetupCallFailsDoes
<1>29. CASE PrepareUninstallDoes
  BY <1>2, <1>29, <1>3 DEF PrepareUninstallDoes
<1>30. CASE AuthorizeUninstallDoes
  BY <1>2, <1>30, <1>3 DEF AuthorizeUninstallDoes
<1>31. CASE DisableDoes
  BY <1>2, <1>31, <1>3 DEF DisableDoes
<1>32. CASE RemovePackageDoes
  BY <1>2, <1>32, <1>3 DEF RemovePackageDoes
<1>33. CASE StageRecordDoes
  BY <1>2, <1>33, <1>3 DEF StageRecordDoes
<1>34. CASE StagePathDoes
  BY <1>2, <1>34, <1>3 DEF StagePathDoes
<1>35. CASE StagedDoes
  BY <1>2, <1>35, <1>3 DEF StagedDoes
<1>36. CASE UnloadDoes
  BY <1>2, <1>36, <1>3 DEF UnloadDoes
<1>37. CASE RestoreDoes
  BY <1>2, <1>37, <1>3 DEF RestoreDoes
<1>38. CASE RestorePackageDoes
  BY <1>2, <1>38, <1>3 DEF RestorePackageDoes
<1>39. CASE RestoreEdgeDoes
  BY <1>2, <1>39, <1>3 DEF RestoreEdgeDoes
<1>40. CASE DeleteTreeDoes
  BY <1>2, <1>40, <1>3 DEF DeleteTreeDoes
<1>41. CASE DeletedDoes
  BY <1>2, <1>41, <1>3 DEF DeletedDoes
<1>42. CASE UninstallCallFailsDoes
  BY <1>2, <1>42, <1>3 DEF UninstallCallFailsDoes
<1>43. CASE PrepareResetDoes
  BY <1>2, <1>43, <1>3 DEF PrepareResetDoes
<1>44. CASE ReadPasswordDoes
  BY <1>2, <1>44, <1>3 DEF ReadPasswordDoes
<1>45. CASE StopDoes
  BY <1>2, <1>45, <1>3 DEF StopDoes
<1>46. CASE ReplaceDocumentDoes
  BY <1>2, <1>46, <1>3 DEF ReplaceDocumentDoes
<1>47. CASE ReplaceSecretDoes
  BY <1>2, <1>47, <1>3 DEF ReplaceSecretDoes
<1>48. CASE StartDoes
  BY <1>2, <1>48, <1>3 DEF StartDoes
<1>49. CASE RestoreDocumentDoes
  BY <1>2, <1>49, <1>3 DEF RestoreDocumentDoes
<1>50. CASE RestoreSecretDoes
  BY <1>2, <1>50, <1>3 DEF RestoreSecretDoes
<1>51. CASE RestoreServiceDoes
  BY <1>2, <1>51, <1>3 DEF RestoreServiceDoes
<1>52. CASE ResetCallFailsDoes
  BY <1>2, <1>52, <1>3 DEF ResetCallFailsDoes
<1>53. CASE KillDoes
  <2>1. cli'.at = "idle" /\ UNCHANGED record /\ cli'.command = cli.command /\ cli'.answer = "killed" /\ cli.at # "idle"
    BY <1>53 DEF KillDoes
  <2>2. cli.command = "reset" => record.status = "installed"
    BY <1>3, <2>1 DEF Typed, Commands, Places
  <2> QED BY <2>1, <2>2
<1>54. CASE ServiceWritesDoes
  BY <1>2, <1>54, <1>3 DEF ServiceWritesDoes
<1>55. CASE OperatorAddsDropIn
  BY <1>2, <1>55, <1>3 DEF OperatorAddsDropIn
<1>56. CASE RebootDoes
  BY <1>2, <1>56, <1>3 DEF RebootDoes
<1> QED BY <1>1, <1>4, <1>5, <1>6, <1>7, <1>8, <1>9, <1>10, <1>11, <1>12, <1>13, <1>14, <1>15, <1>16, <1>17, <1>18, <1>19, <1>20, <1>21, <1>22, <1>23, <1>24, <1>25, <1>26, <1>27, <1>28, <1>29, <1>30, <1>31, <1>32, <1>33, <1>34, <1>35, <1>36, <1>37, <1>38, <1>39, <1>40, <1>41, <1>42, <1>43, <1>44, <1>45, <1>46, <1>47, <1>48, <1>49, <1>50, <1>51, <1>52, <1>53, <1>54, <1>55, <1>56 DEF Steps

(* The secret and the document change together.                            *)
LEMMA ResettingStep ==
  ASSUME Typed, Running, Running', RecordShape, Bootstrapped, RecordAt, RecordAt', SavedAt, SavedAt', Nested, MakingUp, Kept, Resetting, Next
  PROVE  Resetting'
<1> USE DEF Moved, Went, Onward, Steady, Over, OverBut, AtIdle, OnPath, OnNext, Began, Others, services, Notes, Puts, Replaces, Resumed, Resetting, Active, SetupPlaces, Installing, Undoing, UninstallPlaces, Leaving, Restoring, ResetPlaces
<1>1. Steps
  BY EveryStep
<1>2. Typed' /\ output' = output
  BY TypedStep, SameHost
<1>3. /\ cli.at \in SetupPlaces => record.status # "installed" /\ Covering = record
      /\ cli.at \in ResetPlaces => record.status = "installed"
      /\ cli.at \in SetupPlaces => cli.command = "setup"
      /\ cli.at \in UninstallPlaces => cli.command = "uninstall"
      /\ cli.at \in ResetPlaces => cli.command = "reset"
  BY CoveringIs DEF RecordAt, Running, SetupPlaces, Installing, Undoing, UninstallPlaces, Leaving, Restoring, Typed, Commands
<1>4. Covering'.status = "installed" =>
        IF cli.at \in SetupPlaces THEN record'.status = "installed" /\ cli'.at \notin SetupPlaces
                                  ELSE Covering.status = "installed"
  <2>1. NoRecord.status = "none"
    BY DEF NoRecord
  <2>2. cli'.at \in SetupPlaces => record'.status # "installed"
    BY DEF RecordAt
  <2> QED BY <2>1, <2>2, CoveringStep
<1>5. /\ cli.runs \in Nat /\ cli'.runs \in Nat /\ cli.at \in Places /\ cli'.at \in Places
      /\ cred.secret \in Nat /\ cred.document \in Nat /\ cli.backup.secret \in Nat /\ cli.backup.document \in Nat
      /\ cli.broken \in BOOLEAN /\ cli'.broken \in BOOLEAN /\ cli.wasActive \in BOOLEAN
      /\ dsh \in {"stopped", "plain", "guarded"} /\ dsh' \in {"stopped", "plain", "guarded"}
  BY <1>2 DEF Typed, Commands, Credential
<1>6. /\ \A s, d : cred = [secret |-> s, document |-> d] <=> cred.secret = s /\ cred.document = d
      /\ \A s, d : cred' = [secret |-> s, document |-> d] <=> cred'.secret = s /\ cred'.document = d
      /\ cred = cli.backup <=> cred.secret = cli.backup.secret /\ cred.document = cli.backup.document
      /\ cred' = cli'.backup <=> cred'.secret = cli'.backup.secret /\ cred'.document = cli'.backup.document
  BY <1>2 DEF Typed, Commands, Credential
<1>7. cli.at \in ResetPlaces => Booted # "stopped"
  <2>1. cli.at \in ResetPlaces => Exists("environmentFile")
    BY <1>3, ManagedPaths DEF Kept, Running, Paths, Directories
  <2> QED BY <2>1 DEF Booted
<1> HIDE DEF Exists, Booted, Covering
<1>8. ASSUME UNCHANGED cred, cli.at \in SetupPlaces \cup UninstallPlaces, cli'.at \notin ResetPlaces,
             cli'.command = cli.command, cli'.runs = cli.runs, cli.broken => cli'.broken,
             \/ cli.at \in UninstallPlaces \/ cli'.at \in SetupPlaces
             \/ UNCHANGED record \/ record'.status = "installing"
      PROVE  Resetting'
  <2>1. cli.command # "reset" /\ cli.at \notin ResetPlaces
    BY <1>3, <1>8
  <2>2. ~cli'.broken /\ Covering'.status = "installed" => cred'.secret = cred'.document
    BY <1>3, <1>4, <1>5, <1>8, <2>1
  <2> QED BY <1>8, <2>1, <2>2
<1>9. CASE PrepareSetupDoes
  BY <1>2, <1>9, <1>3, <1>4, <1>5, <1>6, <1>7 DEF PrepareSetupDoes
<1>10. CASE ReadSecretsDoes
  <2>1. /\ UNCHANGED cred /\ cli.at \in SetupPlaces \cup UninstallPlaces /\ cli'.at \notin ResetPlaces
        /\ cli'.command = cli.command /\ cli'.runs = cli.runs /\ (cli.broken => cli'.broken)
        /\ \/ cli.at \in UninstallPlaces \/ cli'.at \in SetupPlaces
           \/ UNCHANGED record \/ record'.status = "installing"
    BY <1>10 DEF ReadSecretsDoes, Bad
  <2> QED BY <1>8, <2>1
<1>11. CASE WriteJournalDoes
  <2>1. /\ UNCHANGED cred /\ cli.at \in SetupPlaces \cup UninstallPlaces /\ cli'.at \notin ResetPlaces
        /\ cli'.command = cli.command /\ cli'.runs = cli.runs /\ (cli.broken => cli'.broken)
        /\ \/ cli.at \in UninstallPlaces \/ cli'.at \in SetupPlaces
           \/ UNCHANGED record \/ record'.status = "installing"
    BY <1>11 DEF WriteJournalDoes, Bad
  <2> QED BY <1>8, <2>1
<1>12. CASE TearJournalDoes
  <2>1. /\ UNCHANGED cred /\ cli.at \in SetupPlaces \cup UninstallPlaces /\ cli'.at \notin ResetPlaces
        /\ cli'.command = cli.command /\ cli'.runs = cli.runs /\ (cli.broken => cli'.broken)
        /\ \/ cli.at \in UninstallPlaces \/ cli'.at \in SetupPlaces
           \/ UNCHANGED record \/ record'.status = "installing"
    BY <1>12 DEF TearJournalDoes, Bad
  <2> QED BY <1>8, <2>1
<1>13. CASE MakeConfigDoes
  <2>1. /\ UNCHANGED cred /\ cli.at \in SetupPlaces \cup UninstallPlaces /\ cli'.at \notin ResetPlaces
        /\ cli'.command = cli.command /\ cli'.runs = cli.runs /\ (cli.broken => cli'.broken)
        /\ \/ cli.at \in UninstallPlaces \/ cli'.at \in SetupPlaces
           \/ UNCHANGED record \/ record'.status = "installing"
    BY <1>13 DEF MakeConfigDoes, Bad
  <2> QED BY <1>8, <2>1
<1>14. CASE MoveJournalDoes
  <2>1. /\ UNCHANGED cred /\ cli.at \in SetupPlaces \cup UninstallPlaces /\ cli'.at \notin ResetPlaces
        /\ cli'.command = cli.command /\ cli'.runs = cli.runs /\ (cli.broken => cli'.broken)
        /\ \/ cli.at \in UninstallPlaces \/ cli'.at \in SetupPlaces
           \/ UNCHANGED record \/ record'.status = "installing"
    BY <1>14 DEF MoveJournalDoes, Bad
  <2> QED BY <1>8, <2>1
<1>15. CASE RecordPackageDoes
  <2>1. /\ UNCHANGED cred /\ cli.at \in SetupPlaces \cup UninstallPlaces /\ cli'.at \notin ResetPlaces
        /\ cli'.command = cli.command /\ cli'.runs = cli.runs /\ (cli.broken => cli'.broken)
        /\ \/ cli.at \in UninstallPlaces \/ cli'.at \in SetupPlaces
           \/ UNCHANGED record \/ record'.status = "installing"
    BY <1>15 DEF RecordPackageDoes, Bad
  <2> QED BY <1>8, <2>1
<1>16. CASE AddPackageDoes
  <2>1. /\ UNCHANGED cred /\ cli.at \in SetupPlaces \cup UninstallPlaces /\ cli'.at \notin ResetPlaces
        /\ cli'.command = cli.command /\ cli'.runs = cli.runs /\ (cli.broken => cli'.broken)
        /\ \/ cli.at \in UninstallPlaces \/ cli'.at \in SetupPlaces
           \/ UNCHANGED record \/ record'.status = "installing"
    BY <1>16 DEF AddPackageDoes, Bad
  <2> QED BY <1>8, <2>1
<1>17. CASE RecordPathDoes
  <2>1. /\ UNCHANGED cred /\ cli.at \in SetupPlaces \cup UninstallPlaces /\ cli'.at \notin ResetPlaces
        /\ cli'.command = cli.command /\ cli'.runs = cli.runs /\ (cli.broken => cli'.broken)
        /\ \/ cli.at \in UninstallPlaces \/ cli'.at \in SetupPlaces
           \/ UNCHANGED record \/ record'.status = "installing"
    BY <1>17 DEF RecordPathDoes, Bad
  <2> QED BY <1>8, <2>1
<1>18. CASE MakePathDoes
  <2>1. /\ cli.at \in SetupPlaces /\ cli'.at \in SetupPlaces /\ cli'.runs = cli.runs
        /\ cred'.secret \in {0, cred.secret} /\ cred'.document \in {0, cred.document}
    BY <1>18 DEF MakePathDoes
  <2>2. cli'.at \notin ResetPlaces /\ cli'.at # "idle"
    BY <2>1
  <2>3. cred'.secret <= cli'.runs /\ cred'.document <= cli'.runs
    BY <1>5, <2>1
  <2> QED BY <1>4, <2>1, <2>2, <2>3
<1>19. CASE TryDoes("record-reload", "reload", "reload")
  <2>1. /\ UNCHANGED cred /\ cli.at \in SetupPlaces \cup UninstallPlaces /\ cli'.at \notin ResetPlaces
        /\ cli'.command = cli.command /\ cli'.runs = cli.runs /\ (cli.broken => cli'.broken)
        /\ \/ cli.at \in UninstallPlaces \/ cli'.at \in SetupPlaces
           \/ UNCHANGED record \/ record'.status = "installing"
    BY <1>19 DEF TryDoes, Bad
  <2> QED BY <1>8, <2>1
<1>20. CASE ReloadDoes
  <2>1. /\ UNCHANGED cred /\ cli.at \in SetupPlaces \cup UninstallPlaces /\ cli'.at \notin ResetPlaces
        /\ cli'.command = cli.command /\ cli'.runs = cli.runs /\ (cli.broken => cli'.broken)
        /\ \/ cli.at \in UninstallPlaces \/ cli'.at \in SetupPlaces
           \/ UNCHANGED record \/ record'.status = "installing"
    BY <1>20 DEF ReloadDoes, Bad
  <2> QED BY <1>8, <2>1
<1>21. CASE TryDoes("record-restart", "restart", "restart")
  <2>1. /\ UNCHANGED cred /\ cli.at \in SetupPlaces \cup UninstallPlaces /\ cli'.at \notin ResetPlaces
        /\ cli'.command = cli.command /\ cli'.runs = cli.runs /\ (cli.broken => cli'.broken)
        /\ \/ cli.at \in UninstallPlaces \/ cli'.at \in SetupPlaces
           \/ UNCHANGED record \/ record'.status = "installing"
    BY <1>21 DEF TryDoes, Bad
  <2> QED BY <1>8, <2>1
<1>22. CASE RestartDoes
  <2>1. /\ UNCHANGED cred /\ cli.at \in SetupPlaces \cup UninstallPlaces /\ cli'.at \notin ResetPlaces
        /\ cli'.command = cli.command /\ cli'.runs = cli.runs /\ (cli.broken => cli'.broken)
        /\ \/ cli.at \in UninstallPlaces \/ cli'.at \in SetupPlaces
           \/ UNCHANGED record \/ record'.status = "installing"
    BY <1>22 DEF RestartDoes, Bad
  <2> QED BY <1>8, <2>1
<1>23. CASE TryDoes("record-enable", "enable", "enable")
  <2>1. /\ UNCHANGED cred /\ cli.at \in SetupPlaces \cup UninstallPlaces /\ cli'.at \notin ResetPlaces
        /\ cli'.command = cli.command /\ cli'.runs = cli.runs /\ (cli.broken => cli'.broken)
        /\ \/ cli.at \in UninstallPlaces \/ cli'.at \in SetupPlaces
           \/ UNCHANGED record \/ record'.status = "installing"
    BY <1>23 DEF TryDoes, Bad
  <2> QED BY <1>8, <2>1
<1>24. CASE EnableDoes
  <2>1. /\ UNCHANGED cred /\ cli.at \in SetupPlaces \cup UninstallPlaces /\ cli'.at \notin ResetPlaces
        /\ cli'.command = cli.command /\ cli'.runs = cli.runs /\ (cli.broken => cli'.broken)
        /\ \/ cli.at \in UninstallPlaces \/ cli'.at \in SetupPlaces
           \/ UNCHANGED record \/ record'.status = "installing"
    BY <1>24 DEF EnableDoes, Bad
  <2> QED BY <1>8, <2>1
<1>25. CASE FinishSetupDoes
  <2>1. cli.at = "finish" /\ cli'.at = "idle" /\ UNCHANGED <<cred, dsh>> /\ cli'.command = cli.command /\ cli'.runs = cli.runs
    BY <1>25 DEF FinishSetupDoes
  <2>2. cred.secret = 0 /\ cred.document = 0
    <3>1. "sessionSecretFile" \in Managed \ {"configDirectory"} /\ "authStateFile" \in Managed \ {"configDirectory"}
      BY ManagedPaths DEF Paths, Directories
    <3>2. "sessionSecretFile" \in Made /\ "authStateFile" \in Made
      BY <2>1, <3>1, ManagedPaths DEF Made
    <3> HIDE DEF Made
    <3> QED BY <2>1, <3>2 DEF MakingUp
  <2> QED BY <1>3, <2>1, <2>2
<1>26. CASE UndoPackageDoes
  <2>1. /\ UNCHANGED cred /\ cli.at \in SetupPlaces \cup UninstallPlaces /\ cli'.at \notin ResetPlaces
        /\ cli'.command = cli.command /\ cli'.runs = cli.runs /\ (cli.broken => cli'.broken)
        /\ \/ cli.at \in UninstallPlaces \/ cli'.at \in SetupPlaces
           \/ UNCHANGED record \/ record'.status = "installing"
    BY <1>26 DEF UndoPackageDoes, Bad
  <2> QED BY <1>8, <2>1
<1>27. CASE RemovePathDoes
  <2>1. /\ UNCHANGED cred /\ cli.at \in SetupPlaces \cup UninstallPlaces /\ cli'.at \notin ResetPlaces
        /\ cli'.command = cli.command /\ cli'.runs = cli.runs /\ (cli.broken => cli'.broken)
        /\ \/ cli.at \in UninstallPlaces \/ cli'.at \in SetupPlaces
           \/ UNCHANGED record \/ record'.status = "installing"
    BY <1>27 DEF RemovePathDoes, Bad
  <2> QED BY <1>8, <2>1
<1>28. CASE RemoveConfigDoes
  <2>1. /\ UNCHANGED cred /\ cli.at \in SetupPlaces \cup UninstallPlaces /\ cli'.at \notin ResetPlaces
        /\ cli'.command = cli.command /\ cli'.runs = cli.runs /\ (cli.broken => cli'.broken)
        /\ \/ cli.at \in UninstallPlaces \/ cli'.at \in SetupPlaces
           \/ UNCHANGED record \/ record'.status = "installing"
    BY <1>28 DEF RemoveConfigDoes, Bad
  <2> QED BY <1>8, <2>1
<1>29. CASE UndoRecordDoes
  <2>1. /\ UNCHANGED cred /\ cli.at \in SetupPlaces \cup UninstallPlaces /\ cli'.at \notin ResetPlaces
        /\ cli'.command = cli.command /\ cli'.runs = cli.runs /\ (cli.broken => cli'.broken)
        /\ \/ cli.at \in UninstallPlaces \/ cli'.at \in SetupPlaces
           \/ UNCHANGED record \/ record'.status = "installing"
    BY <1>29 DEF UndoRecordDoes, Bad
  <2> QED BY <1>8, <2>1
<1>30. CASE UndoEnableDoes
  <2>1. /\ UNCHANGED cred /\ cli.at \in SetupPlaces \cup UninstallPlaces /\ cli'.at \notin ResetPlaces
        /\ cli'.command = cli.command /\ cli'.runs = cli.runs /\ (cli.broken => cli'.broken)
        /\ \/ cli.at \in UninstallPlaces \/ cli'.at \in SetupPlaces
           \/ UNCHANGED record \/ record'.status = "installing"
    BY <1>30 DEF UndoEnableDoes, Bad
  <2> QED BY <1>8, <2>1
<1>31. CASE UndoReloadDoes
  <2>1. /\ UNCHANGED cred /\ cli.at \in SetupPlaces \cup UninstallPlaces /\ cli'.at \notin ResetPlaces
        /\ cli'.command = cli.command /\ cli'.runs = cli.runs /\ (cli.broken => cli'.broken)
        /\ \/ cli.at \in UninstallPlaces \/ cli'.at \in SetupPlaces
           \/ UNCHANGED record \/ record'.status = "installing"
    BY <1>31 DEF UndoReloadDoes, Bad
  <2> QED BY <1>8, <2>1
<1>32. CASE UndoRestartDoes
  <2>1. /\ UNCHANGED cred /\ cli.at \in SetupPlaces \cup UninstallPlaces /\ cli'.at \notin ResetPlaces
        /\ cli'.command = cli.command /\ cli'.runs = cli.runs /\ (cli.broken => cli'.broken)
        /\ \/ cli.at \in UninstallPlaces \/ cli'.at \in SetupPlaces
           \/ UNCHANGED record \/ record'.status = "installing"
    BY <1>32 DEF UndoRestartDoes, Bad
  <2> QED BY <1>8, <2>1
<1>33. CASE SetupCallFailsDoes
  <2>1. /\ UNCHANGED cred /\ cli.at \in SetupPlaces \cup UninstallPlaces /\ cli'.at \notin ResetPlaces
        /\ cli'.command = cli.command /\ cli'.runs = cli.runs /\ (cli.broken => cli'.broken)
        /\ \/ cli.at \in UninstallPlaces \/ cli'.at \in SetupPlaces
           \/ UNCHANGED record \/ record'.status = "installing"
    BY <1>33 DEF SetupCallFailsDoes, Bad
  <2> QED BY <1>8, <2>1
<1>34. CASE PrepareUninstallDoes
  BY <1>2, <1>34, <1>3, <1>4, <1>5, <1>6, <1>7 DEF PrepareUninstallDoes
<1>35. CASE AuthorizeUninstallDoes
  <2>1. /\ UNCHANGED cred /\ cli.at \in SetupPlaces \cup UninstallPlaces /\ cli'.at \notin ResetPlaces
        /\ cli'.command = cli.command /\ cli'.runs = cli.runs /\ (cli.broken => cli'.broken)
        /\ \/ cli.at \in UninstallPlaces \/ cli'.at \in SetupPlaces
           \/ UNCHANGED record \/ record'.status = "installing"
    BY <1>35 DEF AuthorizeUninstallDoes, Bad
  <2> QED BY <1>8, <2>1
<1>36. CASE DisableDoes
  <2>1. /\ UNCHANGED cred /\ cli.at \in SetupPlaces \cup UninstallPlaces /\ cli'.at \notin ResetPlaces
        /\ cli'.command = cli.command /\ cli'.runs = cli.runs /\ (cli.broken => cli'.broken)
        /\ \/ cli.at \in UninstallPlaces \/ cli'.at \in SetupPlaces
           \/ UNCHANGED record \/ record'.status = "installing"
    BY <1>36 DEF DisableDoes, Bad
  <2> QED BY <1>8, <2>1
<1>37. CASE RemovePackageDoes
  <2>1. /\ UNCHANGED cred /\ cli.at \in SetupPlaces \cup UninstallPlaces /\ cli'.at \notin ResetPlaces
        /\ cli'.command = cli.command /\ cli'.runs = cli.runs /\ (cli.broken => cli'.broken)
        /\ \/ cli.at \in UninstallPlaces \/ cli'.at \in SetupPlaces
           \/ UNCHANGED record \/ record'.status = "installing"
    BY <1>37 DEF RemovePackageDoes, Bad
  <2> QED BY <1>8, <2>1
<1>38. CASE StageRecordDoes
  <2>1. /\ UNCHANGED cred /\ cli.at \in SetupPlaces \cup UninstallPlaces /\ cli'.at \notin ResetPlaces
        /\ cli'.command = cli.command /\ cli'.runs = cli.runs /\ (cli.broken => cli'.broken)
        /\ \/ cli.at \in UninstallPlaces \/ cli'.at \in SetupPlaces
           \/ UNCHANGED record \/ record'.status = "installing"
    BY <1>38 DEF StageRecordDoes, Bad
  <2> QED BY <1>8, <2>1
<1>39. CASE StagePathDoes
  <2>1. /\ UNCHANGED cred /\ cli.at \in SetupPlaces \cup UninstallPlaces /\ cli'.at \notin ResetPlaces
        /\ cli'.command = cli.command /\ cli'.runs = cli.runs /\ (cli.broken => cli'.broken)
        /\ \/ cli.at \in UninstallPlaces \/ cli'.at \in SetupPlaces
           \/ UNCHANGED record \/ record'.status = "installing"
    BY <1>39 DEF StagePathDoes, Bad
  <2> QED BY <1>8, <2>1
<1>40. CASE StagedDoes
  <2>1. /\ UNCHANGED cred /\ cli.at \in SetupPlaces \cup UninstallPlaces /\ cli'.at \notin ResetPlaces
        /\ cli'.command = cli.command /\ cli'.runs = cli.runs /\ (cli.broken => cli'.broken)
        /\ \/ cli.at \in UninstallPlaces \/ cli'.at \in SetupPlaces
           \/ UNCHANGED record \/ record'.status = "installing"
    BY <1>40 DEF StagedDoes, Bad
  <2> QED BY <1>8, <2>1
<1>41. CASE UnloadDoes
  <2>1. /\ UNCHANGED cred /\ cli.at \in SetupPlaces \cup UninstallPlaces /\ cli'.at \notin ResetPlaces
        /\ cli'.command = cli.command /\ cli'.runs = cli.runs /\ (cli.broken => cli'.broken)
        /\ \/ cli.at \in UninstallPlaces \/ cli'.at \in SetupPlaces
           \/ UNCHANGED record \/ record'.status = "installing"
    BY <1>41 DEF UnloadDoes, Bad
  <2> QED BY <1>8, <2>1
<1>42. CASE RestoreDoes
  <2>1. /\ UNCHANGED cred /\ cli.at \in SetupPlaces \cup UninstallPlaces /\ cli'.at \notin ResetPlaces
        /\ cli'.command = cli.command /\ cli'.runs = cli.runs /\ (cli.broken => cli'.broken)
        /\ \/ cli.at \in UninstallPlaces \/ cli'.at \in SetupPlaces
           \/ UNCHANGED record \/ record'.status = "installing"
    BY <1>42 DEF RestoreDoes, Bad
  <2> QED BY <1>8, <2>1
<1>43. CASE RestorePackageDoes
  <2>1. /\ UNCHANGED cred /\ cli.at \in SetupPlaces \cup UninstallPlaces /\ cli'.at \notin ResetPlaces
        /\ cli'.command = cli.command /\ cli'.runs = cli.runs /\ (cli.broken => cli'.broken)
        /\ \/ cli.at \in UninstallPlaces \/ cli'.at \in SetupPlaces
           \/ UNCHANGED record \/ record'.status = "installing"
    BY <1>43 DEF RestorePackageDoes, Bad
  <2> QED BY <1>8, <2>1
<1>44. CASE RestoreEdgeDoes
  <2>1. /\ UNCHANGED cred /\ cli.at \in SetupPlaces \cup UninstallPlaces /\ cli'.at \notin ResetPlaces
        /\ cli'.command = cli.command /\ cli'.runs = cli.runs /\ (cli.broken => cli'.broken)
        /\ \/ cli.at \in UninstallPlaces \/ cli'.at \in SetupPlaces
           \/ UNCHANGED record \/ record'.status = "installing"
    BY <1>44 DEF RestoreEdgeDoes, Bad
  <2> QED BY <1>8, <2>1
<1>45. CASE DeleteTreeDoes
  <2>1. /\ UNCHANGED cred /\ cli.at \in SetupPlaces \cup UninstallPlaces /\ cli'.at \notin ResetPlaces
        /\ cli'.command = cli.command /\ cli'.runs = cli.runs /\ (cli.broken => cli'.broken)
        /\ \/ cli.at \in UninstallPlaces \/ cli'.at \in SetupPlaces
           \/ UNCHANGED record \/ record'.status = "installing"
    BY <1>45 DEF DeleteTreeDoes, Bad
  <2> QED BY <1>8, <2>1
<1>46. CASE DeletedDoes
  <2>1. /\ UNCHANGED cred /\ cli.at \in SetupPlaces \cup UninstallPlaces /\ cli'.at \notin ResetPlaces
        /\ cli'.command = cli.command /\ cli'.runs = cli.runs /\ (cli.broken => cli'.broken)
        /\ \/ cli.at \in UninstallPlaces \/ cli'.at \in SetupPlaces
           \/ UNCHANGED record \/ record'.status = "installing"
    BY <1>46 DEF DeletedDoes, Bad
  <2> QED BY <1>8, <2>1
<1>47. CASE UninstallCallFailsDoes
  <2>1. /\ UNCHANGED cred /\ cli.at \in SetupPlaces \cup UninstallPlaces /\ cli'.at \notin ResetPlaces
        /\ cli'.command = cli.command /\ cli'.runs = cli.runs /\ (cli.broken => cli'.broken)
        /\ \/ cli.at \in UninstallPlaces \/ cli'.at \in SetupPlaces
           \/ UNCHANGED record \/ record'.status = "installing"
    BY <1>47 DEF UninstallCallFailsDoes, Bad
  <2> QED BY <1>8, <2>1
<1>48. CASE PrepareResetDoes
  <2>1. cli.at = "idle" /\ cli'.at = "password" /\ cli'.backup = cred /\ cli'.runs = cli.runs + 1 /\ UNCHANGED <<cred, dsh>>
        /\ cli'.wasActive = Active /\ cli'.broken = cli.broken /\ record.status = "installed"
    BY <1>48 DEF PrepareResetDoes
  <2>2. ~cli.broken => cred.secret = cred.document
    BY <2>1, CoveringIs DEF Typed, Commands
  <2>3. (cli'.wasActive => dsh' # "stopped") /\ (~cli'.wasActive => dsh' = "stopped")
    BY <2>1
  <2>4. cred.secret <= cli.runs /\ cred.document <= cli.runs
    OBVIOUS
  <2>5. (dsh' # "stopped") = cli'.wasActive
    BY <2>1
  <2> QED BY <1>5, <2>1, <2>2, <2>3, <2>4, <2>5
<1>49. CASE ReadPasswordDoes
  BY <1>2, <1>49, <1>3, <1>4, <1>5, <1>6, <1>7 DEF ReadPasswordDoes, Bad, Told, Active
<1>50. CASE StopDoes
  BY <1>2, <1>50, <1>3, <1>4, <1>5, <1>6, <1>7 DEF StopDoes, Bad, Told, Active
<1>51. CASE ReplaceDocumentDoes
  BY <1>2, <1>51, <1>3, <1>4, <1>5, <1>6, <1>7 DEF ReplaceDocumentDoes, Bad, Told, Active
<1>52. CASE ReplaceSecretDoes
  BY <1>2, <1>52, <1>3, <1>4, <1>5, <1>6, <1>7 DEF ReplaceSecretDoes, Bad, Told, Active
<1>53. CASE StartDoes
  BY <1>2, <1>53, <1>3, <1>4, <1>5, <1>6, <1>7 DEF StartDoes, Bad, Told, Active
<1>54. CASE RestoreDocumentDoes
  BY <1>2, <1>54, <1>3, <1>4, <1>5, <1>6, <1>7 DEF RestoreDocumentDoes, Bad, Told, Active
<1>55. CASE RestoreSecretDoes
  BY <1>2, <1>55, <1>3, <1>4, <1>5, <1>6, <1>7 DEF RestoreSecretDoes, Bad, Told, Active
<1>56. CASE RestoreServiceDoes
  BY <1>2, <1>56, <1>3, <1>4, <1>5, <1>6, <1>7 DEF RestoreServiceDoes, Bad, Told, Active
<1>57. CASE ResetCallFailsDoes
  BY <1>2, <1>57, <1>3, <1>4, <1>5, <1>6, <1>7 DEF ResetCallFailsDoes, Bad, Told, Active
<1>58. CASE KillDoes
  <2>1. cli'.at = "idle" /\ UNCHANGED <<cred, record>> /\ cli'.command = cli.command /\ cli'.runs = cli.runs
        /\ cli'.answer = "killed" /\ cli.at # "idle" /\ cli'.broken = Bad("killed")
    BY <1>58 DEF KillDoes
  <2>2. cli'.broken \/ (~cli.broken /\ cli.at \in SetupPlaces)
    BY <1>3, <1>5, <2>1 DEF Bad, Told, Places, At
  <2> QED BY <1>3, <1>4, <1>5, <2>1, <2>2
<1>59. CASE ServiceWritesDoes
  BY <1>2, <1>59, <1>3, <1>4, <1>5, <1>6, <1>7 DEF ServiceWritesDoes
<1>60. CASE OperatorAddsDropIn
  BY <1>2, <1>60, <1>3, <1>4, <1>5, <1>6, <1>7 DEF OperatorAddsDropIn
<1>61. CASE RebootDoes
  BY <1>2, <1>61, <1>3, <1>4, <1>5, <1>6, <1>7 DEF RebootDoes
<1> QED BY <1>1, <1>9, <1>10, <1>11, <1>12, <1>13, <1>14, <1>15, <1>16, <1>17, <1>18, <1>19, <1>20, <1>21, <1>22, <1>23, <1>24, <1>25, <1>26, <1>27, <1>28, <1>29, <1>30, <1>31, <1>32, <1>33, <1>34, <1>35, <1>36, <1>37, <1>38, <1>39, <1>40, <1>41, <1>42, <1>43, <1>44, <1>45, <1>46, <1>47, <1>48, <1>49, <1>50, <1>51, <1>52, <1>53, <1>54, <1>55, <1>56, <1>57, <1>58, <1>59, <1>60, <1>61 DEF Steps

\* What the rollback has still to take back, by its place.
OursLeft ==
  /\ cli.at = "undo-paths" =>
       \A j \in (cli.i + 1)..Len(Order) : disk[Order[j]] = "ours" => MayBeLeft(Order[j])
  /\ cli.at = "undo-record" => \A p \in Paths : disk[p] = "ours" => MayBeLeft(p)
  /\ cli.at \in {"undo-enable", "undo-reload", "undo-restart"} =>
       \A p \in Paths : disk[p] = "ours" => p = "configDirectory"

(* What an unfinished setup has left is what it may leave.                 *)
LEMMA LeftPathsStay ==
  ASSUME Typed, Running, Running', RecordShape, Bootstrapped, RecordAt, SavedAt, SavedAt', Nested, LeftPaths, ~cli.lost, ~cli'.lost, Next
  PROVE  \A p \in Paths : disk'[p] = "left" => MayBeLeft(p)'
<1> USE DEF Moved, Went, Onward, Steady, Over, OverBut, AtIdle, OnPath, OnNext, Began, Others, services, Notes, Puts, Replaces, Resumed, SetupPlaces, Installing, Undoing, UninstallPlaces, Leaving, Restoring, ResetPlaces
<1>1. Steps
  BY EveryStep
<1>2. Typed' /\ output' = output
  BY TypedStep, SameHost
<1>3. \A p \in Paths : disk[p] = "left" => MayBeLeft(p)
  BY DEF LeftPaths
<1>6. ASSUME UNCHANGED guest, NEW p, MayBeLeft(p) PROVE MayBeLeft(p)'
  BY <1>6 DEF MayBeLeft
<1>7. ASSUME UNCHANGED <<disk, guest>> PROVE \A p \in Paths : disk'[p] = "left" => MayBeLeft(p)'
  BY <1>3, <1>6, <1>7
<1>8. ASSUME NEW roots, Gone(roots), NEW p \in Paths, disk'[p] = "left" PROVE MayBeLeft(p)'
  <2>1. disk[p] = "left" /\ \A root \in roots : p \notin Tree(root)
    BY <1>8 DEF Gone, Tree, Within
  <2>2. p \in Tree(p)
    BY DEF Tree, Within
  <2>3. p \notin roots
    BY <2>1, <2>2
  <2>4. MayBeLeft(p)
    BY <1>3, <2>1
  <2>5. p = "systemdDropInDirectory" /\ guest => guest'
    BY <1>8, <2>3 DEF Gone, Tree, Within
  <2> QED BY <2>4, <2>5 DEF MayBeLeft
<1>9. ASSUME disk' = GivenUp({"configDirectory"}), UNCHANGED guest, NEW p \in Paths, disk'[p] = "left" PROVE MayBeLeft(p)'
  <2>1. disk[p] = "left" \/ p = "configDirectory"
    BY <1>9 DEF GivenUp
  <2> QED BY <1>3, <1>9, <2>1 DEF MayBeLeft
<1>10. CASE PrepareSetupDoes
  BY <1>7, <1>10 DEF PrepareSetupDoes
<1>11. CASE ReadSecretsDoes
  BY <1>7, <1>11 DEF ReadSecretsDoes
<1>12. CASE WriteJournalDoes
  BY <1>9, <1>12 DEF WriteJournalDoes
<1>13. CASE TearJournalDoes
  BY <1>9, <1>13 DEF TearJournalDoes
<1>14. CASE MakeConfigDoes
  <2>1. UNCHANGED guest /\ \A p \in Paths : disk'[p] = "left" => disk[p] = "left"
    BY <1>14 DEF MakeConfigDoes
  <2> QED BY <1>3, <1>6, <2>1
<1>15. CASE MoveJournalDoes
  BY <1>7, <1>15 DEF MoveJournalDoes
<1>16. CASE RecordPackageDoes
  BY <1>7, <1>16 DEF RecordPackageDoes
<1>17. CASE AddPackageDoes
  BY <1>7, <1>17 DEF AddPackageDoes
<1>18. CASE RecordPathDoes
  BY <1>7, <1>18 DEF RecordPathDoes
<1>19. CASE MakePathDoes
  <2>1. UNCHANGED guest /\ \A p \in Paths : disk'[p] = "left" => disk[p] = "left"
    BY <1>19 DEF MakePathDoes
  <2> QED BY <1>3, <1>6, <2>1
<1>20. CASE TryDoes("record-reload", "reload", "reload")
  BY <1>7, <1>20 DEF TryDoes
<1>21. CASE ReloadDoes
  BY <1>7, <1>21 DEF ReloadDoes
<1>22. CASE TryDoes("record-restart", "restart", "restart")
  BY <1>7, <1>22 DEF TryDoes
<1>23. CASE RestartDoes
  BY <1>7, <1>23 DEF RestartDoes
<1>24. CASE TryDoes("record-enable", "enable", "enable")
  BY <1>7, <1>24 DEF TryDoes
<1>25. CASE EnableDoes
  BY <1>7, <1>25 DEF EnableDoes
<1>26. CASE FinishSetupDoes
  BY <1>7, <1>26 DEF FinishSetupDoes
<1>27. CASE UndoPackageDoes
  BY <1>7, <1>27 DEF UndoPackageDoes
<1>28. CASE RemovePathDoes
  <2>1. UNCHANGED guest /\ \A p \in Paths : disk'[p] = "left" => disk[p] = "left"
    BY <1>28 DEF RemovePathDoes
  <2> QED BY <1>3, <1>6, <2>1
<1>29. CASE RemoveConfigDoes
  <2>1. UNCHANGED guest /\ \A p \in Paths : disk'[p] = "left" => disk[p] = "left"
    BY <1>29 DEF RemoveConfigDoes
  <2> QED BY <1>3, <1>6, <2>1
<1>30. CASE UndoRecordDoes
  <2>1. UNCHANGED guest /\ \A p \in Paths : disk'[p] = "left" => disk[p] = "left" \/ disk[p] = "ours"
    BY <1>30 DEF UndoRecordDoes, GivenUp
  <2>2. \A p \in Paths : disk[p] = "ours" => MayBeLeft(p)
    BY <1>30 DEF UndoRecordDoes, LeftPaths
  <2> QED BY <1>3, <1>6, <2>1, <2>2
<1>31. CASE UndoEnableDoes
  BY <1>7, <1>31 DEF UndoEnableDoes
<1>32. CASE UndoReloadDoes
  BY <1>7, <1>32 DEF UndoReloadDoes
<1>33. CASE UndoRestartDoes
  BY <1>7, <1>33 DEF UndoRestartDoes
<1>34. CASE SetupCallFailsDoes
  BY <1>7, <1>34 DEF SetupCallFailsDoes
<1>35. CASE PrepareUninstallDoes
  BY <1>7, <1>35 DEF PrepareUninstallDoes
<1>36. CASE AuthorizeUninstallDoes
  BY <1>7, <1>36 DEF AuthorizeUninstallDoes
<1>37. CASE DisableDoes
  BY <1>7, <1>37 DEF DisableDoes
<1>38. CASE RemovePackageDoes
  BY <1>7, <1>38 DEF RemovePackageDoes
<1>39. CASE StageRecordDoes
  BY <1>7, <1>39 DEF StageRecordDoes
<1>40. CASE StagePathDoes
  BY <1>7, <1>40 DEF StagePathDoes
<1>41. CASE StagedDoes
  BY <1>7, <1>41 DEF StagedDoes
<1>42. CASE UnloadDoes
  BY <1>7, <1>42 DEF UnloadDoes
<1>43. CASE RestoreDoes
  <2>1. UNCHANGED <<disk, guest>> \/ \E roots \in SUBSET cli.aside : Gone(roots)
    BY <1>43 DEF RestoreDoes
  <2> QED BY <1>7, <1>8, <2>1
<1>44. CASE RestorePackageDoes
  BY <1>7, <1>44 DEF RestorePackageDoes
<1>45. CASE RestoreEdgeDoes
  BY <1>7, <1>45 DEF RestoreEdgeDoes
<1>46. CASE DeleteTreeDoes
  <2>1. \E root \in cli.aside : Gone({root})
    BY <1>46 DEF DeleteTreeDoes
  <2> QED BY <1>8, <2>1
<1>47. CASE DeletedDoes
  BY <1>7, <1>47 DEF DeletedDoes
<1>48. CASE UninstallCallFailsDoes
  <2>1. UNCHANGED <<disk, guest>> \/ Gone(cli.aside)
    BY <1>48 DEF UninstallCallFailsDoes
  <2> QED BY <1>7, <1>8, <2>1
<1>49. CASE PrepareResetDoes
  BY <1>7, <1>49 DEF PrepareResetDoes
<1>50. CASE ReadPasswordDoes
  BY <1>7, <1>50 DEF ReadPasswordDoes
<1>51. CASE StopDoes
  BY <1>7, <1>51 DEF StopDoes
<1>52. CASE ReplaceDocumentDoes
  BY <1>7, <1>52 DEF ReplaceDocumentDoes
<1>53. CASE ReplaceSecretDoes
  BY <1>7, <1>53 DEF ReplaceSecretDoes
<1>54. CASE StartDoes
  BY <1>7, <1>54 DEF StartDoes
<1>55. CASE RestoreDocumentDoes
  BY <1>7, <1>55 DEF RestoreDocumentDoes
<1>56. CASE RestoreSecretDoes
  BY <1>7, <1>56 DEF RestoreSecretDoes
<1>57. CASE RestoreServiceDoes
  BY <1>7, <1>57 DEF RestoreServiceDoes
<1>58. CASE ResetCallFailsDoes
  BY <1>7, <1>58 DEF ResetCallFailsDoes
<1>59. CASE KillDoes
  <2>1. Gone(cli.aside)
    BY <1>59 DEF KillDoes
  <2> QED BY <1>8, <2>1
<1>60. CASE ServiceWritesDoes
  <2>1. UNCHANGED guest /\ \A p \in Paths : disk'[p] = "left" => disk[p] = "left" \/ p = "authStateFile"
    BY <1>60 DEF ServiceWritesDoes
  <2> QED BY <1>3, <2>1 DEF MayBeLeft
<1>61. CASE OperatorAddsDropIn
  <2>1. disk' = disk /\ guest'
    BY <1>61 DEF OperatorAddsDropIn
  <2> QED BY <1>3, <2>1 DEF MayBeLeft
<1>62. CASE RebootDoes
  BY <1>7, <1>62 DEF RebootDoes
<1> QED BY <1>1, <1>10, <1>11, <1>12, <1>13, <1>14, <1>15, <1>16, <1>17, <1>18, <1>19, <1>20, <1>21, <1>22, <1>23, <1>24, <1>25, <1>26, <1>27, <1>28, <1>29, <1>30, <1>31, <1>32, <1>33, <1>34, <1>35, <1>36, <1>37, <1>38, <1>39, <1>40, <1>41, <1>42, <1>43, <1>44, <1>45, <1>46, <1>47, <1>48, <1>49, <1>50, <1>51, <1>52, <1>53, <1>54, <1>55, <1>56, <1>57, <1>58, <1>59, <1>60, <1>61, <1>62 DEF Steps

(* A rollback on a host without a finished setup takes back, from the last *)
(* path to the first, all that setup has made but what it may leave.       *)
LEMMA OursLeftStays ==
  ASSUME Typed, Running, Running', RecordShape, Bootstrapped, RecordAt, SavedAt, SavedAt', Nested, LeftPaths, ForeignPaths, ClaimedPaths, ~cli.lost, ~cli'.lost, Next
  PROVE  OursLeft'
<1> USE DEF Moved, Went, Onward, Steady, Over, OverBut, AtIdle, OnPath, OnNext, Began, Others, services, Notes, Puts, Replaces, Resumed, SetupPlaces, Installing, Undoing, UninstallPlaces, Leaving, Restoring, ResetPlaces
<1>1. Steps
  BY EveryStep
<1>2. Typed' /\ output' = output
  BY TypedStep, SameHost
<1>3. \A p \in Paths : disk[p] = "left" => MayBeLeft(p)
  BY DEF LeftPaths
<1>6. ASSUME UNCHANGED guest, NEW p, MayBeLeft(p) PROVE MayBeLeft(p)'
  BY <1>6 DEF MayBeLeft
<1>7. cli.at \notin {"make", "make-config"} => \A p \in Paths : disk'[p] = "ours" => disk[p] = "ours"
  BY NothingAppears
<1>8. Order' = Order /\ output' = output
  BY SameHost
<1>9. cli.at = "undo-paths" =>
        /\ \A j \in (cli.i + 1)..Len(Order) : disk[Order[j]] = "ours" => MayBeLeft(Order[j])
        /\ \A p \in Paths : disk[p] = "ours" => p \in record.created
        /\ \A p \in Paths : disk[p] = "theirs" => p \in {"configDirectory", "systemdDropInDirectory"}
        /\ cli.i \in 0..Len(Order) /\ Len(Order) \in Nat /\ record.created \subseteq Managed
  BY <1>3, CoveringIs, OutputPaths, SystemPaths DEF LeftPaths, ClaimedPaths, ForeignPaths, Typed, Commands, RecordShape
<1>10. ASSUME cli'.at \notin {"undo-paths", "undo-record", "undo-enable", "undo-reload", "undo-restart"}
       PROVE  OursLeft'
  BY <1>10 DEF OursLeft
<1>11. ASSUME UNCHANGED guest, cli'.at = cli.at, cli'.i = cli.i,
              \A p \in Paths : disk'[p] = "ours" => disk[p] = "ours"
       PROVE  OursLeft'
  <2>1. OursLeft
    BY DEF OursLeft, LeftPaths
  <2>2. \A j \in (cli.i + 1)..Len(Order) : cli.at = "undo-paths" => Order[j] \in Paths
    BY <1>9, ManagedPaths
  <2> QED BY <1>6, <1>8, <1>11, <2>1, <2>2 DEF OursLeft
<1>12. CASE PrepareSetupDoes
  BY <1>10, <1>12 DEF PrepareSetupDoes
<1>13. CASE ReadSecretsDoes
  BY <1>10, <1>13 DEF ReadSecretsDoes
<1>14. CASE WriteJournalDoes
  BY <1>10, <1>14 DEF WriteJournalDoes
<1>15. CASE TearJournalDoes
  BY <1>10, <1>15 DEF TearJournalDoes
<1>16. CASE MakeConfigDoes
  BY <1>10, <1>16 DEF MakeConfigDoes
<1>17. CASE MoveJournalDoes
  BY <1>10, <1>17 DEF MoveJournalDoes
<1>18. CASE RecordPackageDoes
  BY <1>10, <1>18 DEF RecordPackageDoes
<1>19. CASE AddPackageDoes
  BY <1>10, <1>19 DEF AddPackageDoes
<1>20. CASE RecordPathDoes
  BY <1>10, <1>20 DEF RecordPathDoes
<1>21. CASE MakePathDoes
  BY <1>10, <1>21 DEF MakePathDoes
<1>22. CASE TryDoes("record-reload", "reload", "reload")
  BY <1>10, <1>22 DEF TryDoes
<1>23. CASE ReloadDoes
  BY <1>10, <1>23 DEF ReloadDoes
<1>24. CASE TryDoes("record-restart", "restart", "restart")
  BY <1>10, <1>24 DEF TryDoes
<1>25. CASE RestartDoes
  BY <1>10, <1>25 DEF RestartDoes
<1>26. CASE TryDoes("record-enable", "enable", "enable")
  BY <1>10, <1>26 DEF TryDoes
<1>27. CASE EnableDoes
  BY <1>10, <1>27 DEF EnableDoes
<1>28. CASE FinishSetupDoes
  BY <1>10, <1>28 DEF FinishSetupDoes
<1>29. CASE UndoPackageDoes
  <2>1. cli'.at = "undo-paths" => cli'.i = Len(Order) /\ cli.at = "undo-package"
    BY <1>29 DEF UndoPackageDoes
  <2>2. cli'.at \in {"undo-paths", "idle"} /\ Len(Order) \in Nat
    BY <1>29, OutputPaths, SystemPaths DEF UndoPackageDoes
  <2> QED BY <1>8, <1>10, <2>1, <2>2 DEF OursLeft
<1>30. CASE RemovePathDoes
  <2>1. PICK i \in 1..cli.i :
          /\ \A j \in (i + 1)..cli.i : ~(Order[j] \in record.created /\ Exists(Order[j]))
          /\ \A p \in Paths \ {Order[i]} : disk'[p] = disk[p]
          /\ disk'[Order[i]] = "ours" => Order[i] \in Directories /\ ~Empty(Order[i])
          /\ cli'.at = "undo-paths" /\ cli'.i = i - 1 /\ cli.at = "undo-paths" /\ UNCHANGED guest
    BY <1>30 DEF RemovePathDoes
  <2>2. i \in Nat \ {0} /\ i <= cli.i /\ cli.i \in Nat /\ cli.i <= Len(Order) /\ Len(Order) \in Nat
    BY <1>9, <2>1
  <2>3. ASSUME NEW j \in Nat, j > i, j <= Len(Order), disk[Order[j]] = "ours" PROVE MayBeLeft(Order[j])
    <3>1. CASE j > cli.i
      BY <1>9, <2>1, <2>2, <2>3, <3>1
    <3>2. CASE j <= cli.i
      <4>1. j \in (i + 1)..cli.i /\ j \in 1..Len(Order)
        BY <2>2, <2>3, <3>2
      <4>2. Order[j] \in Paths
        BY <4>1, ManagedPaths
      <4> QED BY <1>9, <2>1, <2>3, <4>1, <4>2 DEF Exists
    <3> QED BY <2>2, <2>3, <3>1, <3>2
  <2>4. ASSUME NEW j \in Nat, j > i, j <= Len(Order), Exists(Order[j]), Order[j] \in {"caddyBinary", "systemdDropInFile"}
        PROVE  FALSE
    <3>1. Order[j] \in Paths /\ ~MayBeLeft(Order[j])
      BY <2>4 DEF Paths, MayBeLeft
    <3>2. disk[Order[j]] \notin {"ours", "left", "theirs"}
      BY <1>3, <1>9, <2>1, <2>3, <2>4, <3>1
    <3> QED BY <2>4, <3>1, <3>2 DEF Typed, Exists
  <2>5. ASSUME disk'[Order[i]] = "ours" PROVE MayBeLeft(Order[i])
    <3>1. Order[i] \in Directories /\ ~Empty(Order[i]) /\ Order[i] # "configDirectory" /\ i \in 1..Len(Order)
      BY <2>1, <2>2, <2>5, ManagedPaths
    <3>2. CASE output
      <4>1. Order[i] \in {"caddyStateDirectory", "authStateDirectory", "loginTokenDirectory"}
        <5>1. i = 1 \/ i = 2 \/ i = 3 \/ i = 4 \/ i = 5 \/ i = 6 \/ i = 7 \/ i = 8 \/ i = 9
          <6>1. Len(Order) = 9
            BY <3>2, OutputPaths
          <6> QED BY <2>2, <6>1
        <5> QED BY <3>1, <3>2, <5>1, OutputPaths DEF Directories
      <4>2. Order[i] # "authStateDirectory" => Empty(Order[i])
        BY <3>2, <4>1, OutputTrees DEF Empty
      <4> QED BY <3>1, <4>1, <4>2 DEF MayBeLeft
    <3>3. CASE ~output
      <4>1. \/ Order[i] = "caddyBinaryDirectory" /\ i = 1
            \/ Order[i] = "systemdDropInDirectory" /\ i = 2
            \/ Order[i] = "authStateDirectory" \/ Order[i] = "loginTokenDirectory"
        <5>1. i = 1 \/ i = 2 \/ i = 3 \/ i = 4 \/ i = 5 \/ i = 6 \/ i = 7 \/ i = 8 \/ i = 9 \/ i = 10 \/ i = 11
          <6>1. Len(Order) = 11
            BY <3>3, SystemPaths
          <6> QED BY <2>2, <6>1
        <5> QED BY <3>1, <3>3, <5>1, SystemPaths DEF Directories
      <4>2. CASE Order[i] = "caddyBinaryDirectory" /\ i = 1
        <5>1. Exists("caddyBinary")
          BY <3>1, <3>3, <4>2, SystemTrees DEF Empty
        <5>2. 5 \in Nat /\ 5 > i /\ 5 <= Len(Order) /\ Order[5] = "caddyBinary"
          <6>1. Len(Order) = 11 /\ Order[5] = "caddyBinary"
            BY <3>3, SystemPaths
          <6> QED BY <4>2, <6>1
        <5> QED BY <2>4, <5>1, <5>2
      <4>3. CASE Order[i] = "systemdDropInDirectory" /\ i = 2
        <5>1. guest \/ Exists("systemdDropInFile")
          BY <3>1, <3>3, <4>3, SystemTrees DEF Empty
        <5>2. ~Exists("systemdDropInFile")
          <6>1. 10 \in Nat /\ 10 > i /\ 10 <= Len(Order) /\ Order[10] = "systemdDropInFile"
            <7>1. Len(Order) = 11 /\ Order[10] = "systemdDropInFile"
              BY <3>3, SystemPaths
            <7> QED BY <4>3, <7>1
          <6> QED BY <2>4, <6>1
        <5> QED BY <4>3, <5>1, <5>2 DEF MayBeLeft
      <4>4. Order[i] = "loginTokenDirectory" => Empty(Order[i])
        <5>1. "loginTokenDirectory" \in Paths
          BY DEF Paths, Directories
        <5>2. Tree("loginTokenDirectory") = {"loginTokenDirectory"}
          BY <3>3, <5>1, SystemTrees
        <5> QED BY <5>2 DEF Empty
      <4> QED BY <3>1, <4>1, <4>2, <4>3, <4>4 DEF MayBeLeft
    <3> QED BY <3>2, <3>3
  <2>6. ASSUME NEW j \in (cli'.i + 1)..Len(Order), disk'[Order[j]] = "ours" PROVE MayBeLeft(Order[j])
    <3>1. j = i \/ j > i
      BY <2>1, <2>2
    <3>2. j \in 1..Len(Order) /\ j \in Nat
      BY <2>1, <2>2
    <3>3. disk[Order[j]] = "ours"
      BY <1>7, <2>1, <2>6, <3>2, ManagedPaths
    <3> QED BY <2>3, <2>5, <2>6, <3>1, <3>2, <3>3
  <2> QED BY <1>6, <1>8, <2>1, <2>6 DEF OursLeft
<1>31. CASE RemoveConfigDoes
  <2>1. /\ \A j \in 1..cli.i : ~(Order[j] \in record.created /\ Exists(Order[j]))
        /\ cli.at = "undo-paths" /\ cli'.at = "undo-record" /\ UNCHANGED guest
    BY <1>31 DEF RemoveConfigDoes
  <2>2. ASSUME NEW p \in Paths, disk'[p] = "ours", p # "configDirectory" PROVE MayBeLeft(p)
    <3>1. disk[p] = "ours" /\ p \in record.created /\ p \in Managed
      BY <1>7, <1>9, <2>1, <2>2
    <3>2. PICK j \in 1..Len(Order) : Order[j] = p
      BY <2>2, <3>1, ManagedPaths
    <3>3. ~(j \in 1..cli.i)
      BY <2>1, <3>1, <3>2 DEF Exists
    <3>4. j \in (cli.i + 1)..Len(Order)
      BY <1>9, <2>1, <3>2, <3>3
    <3> QED BY <1>9, <2>1, <3>1, <3>2, <3>4
  <2>3. MayBeLeft("configDirectory")
    BY DEF MayBeLeft
  <2> QED BY <1>6, <2>1, <2>2, <2>3 DEF OursLeft
<1>32. CASE UndoRecordDoes
  <2>1. cli'.at = "undo-enable" /\ \A p \in Paths : disk'[p] = "ours" => p = "configDirectory"
    BY <1>32 DEF UndoRecordDoes, GivenUp
  <2> QED BY <2>1 DEF OursLeft
<1>33. CASE UndoEnableDoes
  <2>1. cli.at = "undo-enable" /\ disk' = disk /\ cli'.at \in {"undo-reload", "idle"}
    BY <1>33 DEF UndoEnableDoes
  <2> QED BY <2>1 DEF OursLeft, LeftPaths
<1>34. CASE UndoReloadDoes
  <2>1. cli.at = "undo-reload" /\ disk' = disk /\ cli'.at \in {"undo-restart", "idle"}
    BY <1>34 DEF UndoReloadDoes
  <2> QED BY <2>1 DEF OursLeft, LeftPaths
<1>35. CASE UndoRestartDoes
  <2>1. cli'.at \in {"journal", "idle"}
    BY <1>35 DEF UndoRestartDoes
  <2> QED BY <1>10, <2>1
<1>36. CASE SetupCallFailsDoes
  BY <1>10, <1>36 DEF SetupCallFailsDoes
<1>37. CASE PrepareUninstallDoes
  BY <1>10, <1>37 DEF PrepareUninstallDoes
<1>38. CASE AuthorizeUninstallDoes
  BY <1>10, <1>38 DEF AuthorizeUninstallDoes
<1>39. CASE DisableDoes
  BY <1>10, <1>39 DEF DisableDoes
<1>40. CASE RemovePackageDoes
  BY <1>10, <1>40 DEF RemovePackageDoes
<1>41. CASE StageRecordDoes
  BY <1>10, <1>41 DEF StageRecordDoes
<1>42. CASE StagePathDoes
  BY <1>10, <1>42 DEF StagePathDoes
<1>43. CASE StagedDoes
  BY <1>10, <1>43 DEF StagedDoes
<1>44. CASE UnloadDoes
  BY <1>10, <1>44 DEF UnloadDoes
<1>45. CASE RestoreDoes
  BY <1>10, <1>45 DEF RestoreDoes
<1>46. CASE RestorePackageDoes
  BY <1>10, <1>46 DEF RestorePackageDoes
<1>47. CASE RestoreEdgeDoes
  BY <1>10, <1>47 DEF RestoreEdgeDoes
<1>48. CASE DeleteTreeDoes
  BY <1>10, <1>48 DEF DeleteTreeDoes
<1>49. CASE DeletedDoes
  BY <1>10, <1>49 DEF DeletedDoes
<1>50. CASE UninstallCallFailsDoes
  BY <1>10, <1>50 DEF UninstallCallFailsDoes
<1>51. CASE PrepareResetDoes
  BY <1>10, <1>51 DEF PrepareResetDoes
<1>52. CASE ReadPasswordDoes
  BY <1>10, <1>52 DEF ReadPasswordDoes
<1>53. CASE StopDoes
  BY <1>10, <1>53 DEF StopDoes
<1>54. CASE ReplaceDocumentDoes
  BY <1>10, <1>54 DEF ReplaceDocumentDoes
<1>55. CASE ReplaceSecretDoes
  BY <1>10, <1>55 DEF ReplaceSecretDoes
<1>56. CASE StartDoes
  BY <1>10, <1>56 DEF StartDoes
<1>57. CASE RestoreDocumentDoes
  BY <1>10, <1>57 DEF RestoreDocumentDoes
<1>58. CASE RestoreSecretDoes
  BY <1>10, <1>58 DEF RestoreSecretDoes
<1>59. CASE RestoreServiceDoes
  BY <1>10, <1>59 DEF RestoreServiceDoes
<1>60. CASE ResetCallFailsDoes
  BY <1>10, <1>60 DEF ResetCallFailsDoes
<1>61. CASE KillDoes
  BY <1>10, <1>61 DEF KillDoes
<1>62. CASE ServiceWritesDoes
  <2>1. UNCHANGED guest /\ cli' = cli /\ \A p \in Paths : disk'[p] = "ours" => disk[p] = "ours"
    BY <1>62 DEF ServiceWritesDoes
  <2> QED BY <1>11, <2>1
<1>63. CASE OperatorAddsDropIn
  <2>1. disk' = disk /\ cli' = cli /\ guest'
    BY <1>63 DEF OperatorAddsDropIn
  <2>2. \A p : MayBeLeft(p) => MayBeLeft(p)'
    BY <2>1 DEF MayBeLeft
  <2> QED BY <1>8, <2>1, <2>2 DEF OursLeft, LeftPaths
<1>64. CASE RebootDoes
  BY <1>10, <1>64 DEF RebootDoes
<1> QED BY <1>1, <1>12, <1>13, <1>14, <1>15, <1>16, <1>17, <1>18, <1>19, <1>20, <1>21, <1>22, <1>23, <1>24, <1>25, <1>26, <1>27, <1>28, <1>29, <1>30, <1>31, <1>32, <1>33, <1>34, <1>35, <1>36, <1>37, <1>38, <1>39, <1>40, <1>41, <1>42, <1>43, <1>44, <1>45, <1>46, <1>47, <1>48, <1>49, <1>50, <1>51, <1>52, <1>53, <1>54, <1>55, <1>56, <1>57, <1>58, <1>59, <1>60, <1>61, <1>62, <1>63, <1>64 DEF Steps

(* So the paths of an unfinished setup are in order.                       *)
LEMMA LeftPathsStep ==
  ASSUME Typed, Running, Running', RecordShape, Bootstrapped, RecordAt, SavedAt, SavedAt', Nested, ForeignPaths, ClaimedPaths, LeftPaths, Next
  PROVE  LeftPaths'
<1>1. SUFFICES ASSUME ~cli.lost, ~cli'.lost PROVE LeftPaths'
  BY LostStays DEF LeftPaths
<1> QED BY <1>1, LeftPathsStay, OursLeftStays DEF LeftPaths, OursLeft

(* Where a failing or missing setup has left the drop-in, if it has, an    *)
(* uninstall has moved it aside before systemd reads its files again.      *)
LEMMA NothingToLoad ==
  ASSUME Typed, ForeignPaths, ClaimedPaths, LeftPaths, cli.at = "unload", ~cli.lost
  PROVE  ~InPlace("systemdDropInFile")
<1>1. "systemdDropInFile" \in Paths /\ ~MayBeLeft("systemdDropInFile")
  BY DEF Paths, MayBeLeft
<1>2. disk["systemdDropInFile"] \notin {"left", "theirs"}
  BY <1>1 DEF LeftPaths, ForeignPaths
<1>3. disk["systemdDropInFile"] = "ours" => \E root \in cli.aside : "systemdDropInFile" \in Tree(root)
  BY <1>1 DEF ClaimedPaths
<1> QED BY <1>1, <1>2, <1>3 DEF InPlace, Exists, Typed, Tree

(* So nothing of setup's is loaded when an uninstall begins to delete.     *)
LEMMA UnloadedStep ==
  ASSUME Typed, ForeignPaths, ClaimedPaths, LeftPaths, Unloaded, Next
  PROVE  Unloaded'
<1> USE DEF Moved, Went, Onward, Steady, Over, OverBut, AtIdle, OnPath, OnNext, Began, Others, services, Notes, Replaces, Resumed
<1>1. Steps
  BY EveryStep
<1>2. SUFFICES ASSUME cli'.at = "delete", ~cli.lost PROVE ~loaded'
  BY LostStays DEF Unloaded
<1>3. cli.at = "delete" => ~loaded
  BY <1>2 DEF Unloaded
<1>4. cli.at = "unload" => ~InPlace("systemdDropInFile")
  BY <1>2, NothingToLoad
<1>5. CASE PrepareSetupDoes
  BY <1>2, <1>3, <1>5 DEF PrepareSetupDoes
<1>6. CASE ReadSecretsDoes
  BY <1>2, <1>3, <1>6 DEF ReadSecretsDoes
<1>7. CASE WriteJournalDoes
  BY <1>2, <1>3, <1>7 DEF WriteJournalDoes
<1>8. CASE TearJournalDoes
  BY <1>2, <1>3, <1>8 DEF TearJournalDoes
<1>9. CASE MakeConfigDoes
  BY <1>2, <1>3, <1>9 DEF MakeConfigDoes
<1>10. CASE MoveJournalDoes
  BY <1>2, <1>3, <1>10 DEF MoveJournalDoes
<1>11. CASE RecordPackageDoes
  BY <1>2, <1>3, <1>11 DEF RecordPackageDoes
<1>12. CASE AddPackageDoes
  BY <1>2, <1>3, <1>12 DEF AddPackageDoes
<1>13. CASE RecordPathDoes
  BY <1>2, <1>3, <1>13 DEF RecordPathDoes
<1>14. CASE MakePathDoes
  BY <1>2, <1>3, <1>14 DEF MakePathDoes
<1>15. CASE TryDoes("record-reload", "reload", "reload")
  BY <1>2, <1>3, <1>15 DEF TryDoes
<1>16. CASE ReloadDoes
  BY <1>2, <1>3, <1>16 DEF ReloadDoes
<1>17. CASE TryDoes("record-restart", "restart", "restart")
  BY <1>2, <1>3, <1>17 DEF TryDoes
<1>18. CASE RestartDoes
  BY <1>2, <1>3, <1>18 DEF RestartDoes
<1>19. CASE TryDoes("record-enable", "enable", "enable")
  BY <1>2, <1>3, <1>19 DEF TryDoes
<1>20. CASE EnableDoes
  BY <1>2, <1>3, <1>20 DEF EnableDoes
<1>21. CASE FinishSetupDoes
  BY <1>2, <1>3, <1>21 DEF FinishSetupDoes
<1>22. CASE UndoPackageDoes
  BY <1>2, <1>3, <1>22 DEF UndoPackageDoes
<1>23. CASE RemovePathDoes
  BY <1>2, <1>3, <1>23 DEF RemovePathDoes
<1>24. CASE RemoveConfigDoes
  BY <1>2, <1>3, <1>24 DEF RemoveConfigDoes
<1>25. CASE UndoRecordDoes
  BY <1>2, <1>3, <1>25 DEF UndoRecordDoes
<1>26. CASE UndoEnableDoes
  BY <1>2, <1>3, <1>26 DEF UndoEnableDoes
<1>27. CASE UndoReloadDoes
  BY <1>2, <1>3, <1>27 DEF UndoReloadDoes
<1>28. CASE UndoRestartDoes
  BY <1>2, <1>3, <1>28 DEF UndoRestartDoes
<1>29. CASE SetupCallFailsDoes
  BY <1>2, <1>3, <1>29 DEF SetupCallFailsDoes
<1>30. CASE PrepareUninstallDoes
  BY <1>2, <1>3, <1>30 DEF PrepareUninstallDoes
<1>31. CASE AuthorizeUninstallDoes
  BY <1>2, <1>3, <1>31 DEF AuthorizeUninstallDoes
<1>32. CASE DisableDoes
  BY <1>2, <1>3, <1>32 DEF DisableDoes
<1>33. CASE RemovePackageDoes
  BY <1>2, <1>3, <1>33 DEF RemovePackageDoes
<1>34. CASE StageRecordDoes
  BY <1>2, <1>3, <1>34 DEF StageRecordDoes
<1>35. CASE StagePathDoes
  BY <1>2, <1>3, <1>35 DEF StagePathDoes
<1>36. CASE StagedDoes
  BY <1>2, <1>3, <1>36 DEF StagedDoes
<1>37. CASE UnloadDoes
  BY <1>2, <1>4, <1>37 DEF UnloadDoes
<1>38. CASE RestoreDoes
  BY <1>2, <1>3, <1>38 DEF RestoreDoes
<1>39. CASE RestorePackageDoes
  BY <1>2, <1>3, <1>39 DEF RestorePackageDoes
<1>40. CASE RestoreEdgeDoes
  BY <1>2, <1>3, <1>40 DEF RestoreEdgeDoes
<1>41. CASE DeleteTreeDoes
  BY <1>2, <1>3, <1>41 DEF DeleteTreeDoes
<1>42. CASE DeletedDoes
  BY <1>2, <1>3, <1>42 DEF DeletedDoes
<1>43. CASE UninstallCallFailsDoes
  BY <1>2, <1>3, <1>43 DEF UninstallCallFailsDoes
<1>44. CASE PrepareResetDoes
  BY <1>2, <1>3, <1>44 DEF PrepareResetDoes
<1>45. CASE ReadPasswordDoes
  BY <1>2, <1>3, <1>45 DEF ReadPasswordDoes
<1>46. CASE StopDoes
  BY <1>2, <1>3, <1>46 DEF StopDoes
<1>47. CASE ReplaceDocumentDoes
  BY <1>2, <1>3, <1>47 DEF ReplaceDocumentDoes
<1>48. CASE ReplaceSecretDoes
  BY <1>2, <1>3, <1>48 DEF ReplaceSecretDoes
<1>49. CASE StartDoes
  BY <1>2, <1>3, <1>49 DEF StartDoes
<1>50. CASE RestoreDocumentDoes
  BY <1>2, <1>3, <1>50 DEF RestoreDocumentDoes
<1>51. CASE RestoreSecretDoes
  BY <1>2, <1>3, <1>51 DEF RestoreSecretDoes
<1>52. CASE RestoreServiceDoes
  BY <1>2, <1>3, <1>52 DEF RestoreServiceDoes
<1>53. CASE ResetCallFailsDoes
  BY <1>2, <1>3, <1>53 DEF ResetCallFailsDoes
<1>54. CASE KillDoes
  BY <1>2, <1>3, <1>54 DEF KillDoes
<1>55. CASE RebootDoes
  BY <1>2, <1>3, <1>55 DEF RebootDoes
<1>56. CASE ServiceWritesDoes
  BY <1>2, <1>3, <1>56 DEF ServiceWritesDoes
<1>57. CASE OperatorAddsDropIn
  BY <1>2, <1>3, <1>57 DEF OperatorAddsDropIn
<1> QED BY <1>1, <1>5, <1>6, <1>7, <1>8, <1>9, <1>10, <1>11, <1>12, <1>13, <1>14, <1>15, <1>16, <1>17, <1>18, <1>19, <1>20, <1>21, <1>22, <1>23, <1>24, <1>25, <1>26, <1>27, <1>28, <1>29, <1>30, <1>31, <1>32, <1>33, <1>34, <1>35, <1>36, <1>37, <1>38, <1>39, <1>40, <1>41, <1>42, <1>43, <1>44, <1>45, <1>46, <1>47, <1>48, <1>49, <1>50, <1>51, <1>52, <1>53, <1>54, <1>55, <1>56, <1>57 DEF Steps

(* On one without, whatever the services do is in a record.                *)
LEMMA UnfinishedServicesStep ==
  ASSUME Typed, Running, Running', RecordShape, Bootstrapped, RecordAt, SavedAt, SavedAt', Nested, EdgeTold, ForeignPaths, ClaimedPaths, LeftPaths, Unloaded, UnfinishedServices, Young, Young', Next
  PROVE  UnfinishedServices'
<1> USE DEF Moved, Went, Onward, Steady, Over, OverBut, AtIdle, OnPath, OnNext, Began, Others, services, Notes, Puts, Replaces, Resumed, SetupPlaces, Installing, Undoing, UninstallPlaces, Leaving, Restoring, ResetPlaces
<1>1. Steps
  BY EveryStep
<1>2. Typed' /\ output' = output
  BY TypedStep, SameHost
<1>3. /\ cli.at \notin SetupPlaces =>
           Covering' = Covering \/ (cli'.at = "idle" /\ Covering' = NoRecord /\ cli.at \in UninstallPlaces)
      /\ cli.at \in SetupPlaces => Covering = record /\ Covering' = record'
      /\ cli'.at \notin UninstallPlaces => Covering' = record'
  BY CoveringStep
<1>5. NoRecord.package = FALSE /\ NoRecord.created = {} /\ NoRecord.at = "none" /\ NoRecord.tried = {} /\ NoRecord.status = "none"
  BY DEF NoRecord
<1>7. (cli.at \in UninstallPlaces => Covering = cli.saved) /\ (cli.at \notin UninstallPlaces => Covering = record)
  BY CoveringIs DEF Typed, Commands
<1>10. /\ cli.at \in UninstallPlaces => record = cli.saved \/ record = NoRecord
       /\ cli.at \in {"authorize", "disable", "remove-package"} => record = cli.saved /\ cli.tried = {}
       /\ cli.at \in {"restore-package", "restore-edge"} /\ record = NoRecord => cli.lost /\ cli.broken
       /\ cli.at \in {"unload", "delete", "restore-reload"} => record = NoRecord
       /\ cli.at \in UninstallPlaces /\ "package" \in cli.tried => cli.saved.package
       /\ cli.at \in UninstallPlaces => cli.tried \subseteq {"package"} /\ "enable" \notin cli.tried
       /\ cli.at \in UninstallPlaces => cli.saved.at = "final" /\ cli.saved.status # "none"
       /\ cli.at \notin UninstallPlaces => cli.saved = NoRecord /\ cli.aside = {}
  BY <1>5 DEF SavedAt
<1>11. /\ cli.at \in ResetPlaces => record.status = "installed" /\ cli.at \notin SetupPlaces /\ cli.at \notin UninstallPlaces
       /\ cli.at \in ResetPlaces => Covering = record
  BY <1>7 DEF RecordAt, ResetPlaces
<1> HIDE DEF Covering
<1>12. /\ ~cli.broken /\ ~cli'.broken /\ Covering.status # "installed" /\ Covering'.status # "installed"
       /\ cli.at \notin ResetPlaces
  BY <1>11 DEF Young, RecordAt
<1>13. /\ loaded => "reload" \in Covering.tried \cup cli.tried
       /\ dsh = "guarded" => "restart" \in Covering.tried \cup cli.tried
       /\ cli.at \in SetupPlaces /\ ~cli.recovered /\ "restart" \notin record.tried \cup cli.tried => Active = cli.wasActive
       /\ cli.at = "undo-restart" => ~loaded
  BY DEF UnfinishedServices
<1>14. /\ cli.at \in {"journal", "undo-enable", "undo-reload", "undo-restart"} => record.tried = {}
       /\ cli.at \in {"idle", "secrets", "undo-package"} \cup Installing => cli.tried = {}
       /\ cli.at \in {"undo-paths", "undo-record"} => cli.tried = record.tried
       /\ cli.recovering => cli.recovered
       /\ record.at = "none" => record.tried = {}
       /\ cli.at \in {"unload", "delete", "restore-reload"} => cli.saved.tried = Covering.tried
  BY <1>5, <1>7 DEF RecordAt, RecordShape, NothingClaimed
<1>15. Active' = (dsh' # "stopped") /\ Active = (dsh # "stopped")
  BY DEF Active
<1> DEFINE told == Covering.tried \cup cli.tried
           toldThen == Covering'.tried \cup cli'.tried
<1>16. ASSUME loaded' => loaded, dsh' = "guarded" => dsh = "guarded", Active' = Active, told \subseteq toldThen,
              cli'.at # "undo-restart" \/ ~loaded',
              cli'.at \in SetupPlaces /\ ~cli'.recovered => 
                cli.at \in SetupPlaces /\ ~cli.recovered /\ cli'.wasActive = cli.wasActive
       PROVE  UnfinishedServices'
  <2>1. cli'.at \in SetupPlaces /\ ~cli'.recovered => told = record.tried \cup cli.tried /\ toldThen = record'.tried \cup cli'.tried
    BY <1>3, <1>16 DEF UnfinishedServices
  <2> QED BY <1>13, <1>16, <2>1 DEF UnfinishedServices
<1> HIDE DEF Active
<1>17. cli.at \in SetupPlaces \cup UninstallPlaces \/ cli.at = "idle"
  BY <1>12 DEF Typed, Commands, Places
<1>18. cli.at \in UninstallPlaces => cli.command = "uninstall"
  BY DEF Running
<1>19. cli.at \in SetupPlaces => cli.command = "setup"
  BY DEF Running
<1>20. /\ cli.at = "reload" => "reload" \in told
       /\ cli.at = "restart" => "restart" \in told
  BY <1>3 DEF EdgeTold
<1>21. cli.at \in SetupPlaces /\ cli.at \notin {"undo-enable", "undo-reload", "undo-restart"} => cli.tried = {} \/ cli.tried = record.tried
  BY <1>14
<1>22. CASE PrepareSetupDoes
  <2>1. /\ loaded' = loaded /\ dsh' = dsh /\ Active' = Active /\ cli'.wasActive = Active
        /\ cli.at = "idle" /\ cli'.at = "secrets" /\ record' = record /\ cli'.tried = cli.tried
    BY <1>15, <1>22 DEF PrepareSetupDoes
  <2>2. told = record.tried \cup cli.tried /\ Covering' = record'
    BY <1>3, <1>7, <1>10, <2>1
  <2> QED BY <1>13, <2>1, <2>2 DEF UnfinishedServices
<1>23. CASE ReadSecretsDoes
  BY <1>2, <1>23, <1>3, <1>5, <1>7, <1>10, <1>11, <1>12, <1>13, <1>14, <1>15, <1>16, <1>17, <1>18, <1>19, <1>20, <1>21 DEF ReadSecretsDoes, Bad, Told, At
<1>24. CASE WriteJournalDoes
  BY <1>2, <1>24, <1>3, <1>5, <1>7, <1>10, <1>11, <1>12, <1>13, <1>14, <1>15, <1>16, <1>17, <1>18, <1>19, <1>20, <1>21 DEF WriteJournalDoes, FirstJournal, Journal
<1>25. CASE TearJournalDoes
  BY <1>2, <1>25, <1>3, <1>5, <1>7, <1>10, <1>11, <1>12, <1>13, <1>14, <1>15, <1>16, <1>17, <1>18, <1>19, <1>20, <1>21 DEF TearJournalDoes, Bad, Told, At, FirstJournal, Journal
<1>26. CASE MakeConfigDoes
  BY <1>2, <1>26, <1>3, <1>5, <1>7, <1>10, <1>11, <1>12, <1>13, <1>14, <1>15, <1>16, <1>17, <1>18, <1>19, <1>20, <1>21 DEF MakeConfigDoes
<1>27. CASE MoveJournalDoes
  BY <1>2, <1>27, <1>3, <1>5, <1>7, <1>10, <1>11, <1>12, <1>13, <1>14, <1>15, <1>16, <1>17, <1>18, <1>19, <1>20, <1>21 DEF MoveJournalDoes
<1>28. CASE RecordPackageDoes
  BY <1>2, <1>28, <1>3, <1>5, <1>7, <1>10, <1>11, <1>12, <1>13, <1>14, <1>15, <1>16, <1>17, <1>18, <1>19, <1>20, <1>21 DEF RecordPackageDoes
<1>29. CASE AddPackageDoes
  BY <1>2, <1>29, <1>3, <1>5, <1>7, <1>10, <1>11, <1>12, <1>13, <1>14, <1>15, <1>16, <1>17, <1>18, <1>19, <1>20, <1>21 DEF AddPackageDoes
<1>30. CASE RecordPathDoes
  BY <1>2, <1>30, <1>3, <1>5, <1>7, <1>10, <1>11, <1>12, <1>13, <1>14, <1>15, <1>16, <1>17, <1>18, <1>19, <1>20, <1>21 DEF RecordPathDoes
<1>31. CASE MakePathDoes
  BY <1>2, <1>31, <1>3, <1>5, <1>7, <1>10, <1>11, <1>12, <1>13, <1>14, <1>15, <1>16, <1>17, <1>18, <1>19, <1>20, <1>21 DEF MakePathDoes
<1>32. CASE TryDoes("record-reload", "reload", "reload")
  BY <1>2, <1>32, <1>3, <1>5, <1>7, <1>10, <1>11, <1>12, <1>13, <1>14, <1>15, <1>16, <1>17, <1>18, <1>19, <1>20, <1>21 DEF TryDoes
<1>33. CASE ReloadDoes
  <2>1. /\ cli.at = "reload" /\ dsh' = dsh /\ record' = record /\ cli'.tried = cli.tried
        /\ cli'.at \in {"record-restart", "undo-package"} /\ cli'.recovered = cli.recovered /\ cli'.wasActive = cli.wasActive
    BY <1>33 DEF ReloadDoes
  <2>2. Covering = record /\ Covering' = record' /\ Active' = Active
    BY <1>3, <1>15, <2>1
  <2> QED BY <1>13, <1>20, <2>1, <2>2 DEF UnfinishedServices
<1>34. CASE TryDoes("record-restart", "restart", "restart")
  BY <1>2, <1>34, <1>3, <1>5, <1>7, <1>10, <1>11, <1>12, <1>13, <1>14, <1>15, <1>16, <1>17, <1>18, <1>19, <1>20, <1>21 DEF TryDoes
<1>35. CASE RestartDoes
  <2>1. /\ cli.at = "restart" /\ loaded' = loaded /\ record' = record /\ cli'.tried = cli.tried
        /\ cli'.at \in {"record-enable", "undo-package"} /\ cli'.recovered = cli.recovered /\ cli'.wasActive = cli.wasActive
    BY <1>35 DEF RestartDoes
  <2>2. Covering = record /\ Covering' = record'
    BY <1>3, <2>1
  <2> QED BY <1>13, <1>20, <2>1, <2>2 DEF UnfinishedServices
<1>36. CASE TryDoes("record-enable", "enable", "enable")
  BY <1>2, <1>36, <1>3, <1>5, <1>7, <1>10, <1>11, <1>12, <1>13, <1>14, <1>15, <1>16, <1>17, <1>18, <1>19, <1>20, <1>21 DEF TryDoes
<1>37. CASE EnableDoes
  BY <1>2, <1>37, <1>3, <1>5, <1>7, <1>10, <1>11, <1>12, <1>13, <1>14, <1>15, <1>16, <1>17, <1>18, <1>19, <1>20, <1>21 DEF EnableDoes
<1>38. CASE FinishSetupDoes
  BY <1>2, <1>38, <1>3, <1>5, <1>7, <1>10, <1>11, <1>12, <1>13, <1>14, <1>15, <1>16, <1>17, <1>18, <1>19, <1>20, <1>21 DEF FinishSetupDoes
<1>39. CASE UndoPackageDoes
  BY <1>2, <1>39, <1>3, <1>5, <1>7, <1>10, <1>11, <1>12, <1>13, <1>14, <1>15, <1>16, <1>17, <1>18, <1>19, <1>20, <1>21 DEF UndoPackageDoes, Bad, Told, At
<1>40. CASE RemovePathDoes
  BY <1>2, <1>40, <1>3, <1>5, <1>7, <1>10, <1>11, <1>12, <1>13, <1>14, <1>15, <1>16, <1>17, <1>18, <1>19, <1>20, <1>21 DEF RemovePathDoes
<1>41. CASE RemoveConfigDoes
  BY <1>2, <1>41, <1>3, <1>5, <1>7, <1>10, <1>11, <1>12, <1>13, <1>14, <1>15, <1>16, <1>17, <1>18, <1>19, <1>20, <1>21 DEF RemoveConfigDoes
<1>42. CASE UndoRecordDoes
  BY <1>2, <1>42, <1>3, <1>5, <1>7, <1>10, <1>11, <1>12, <1>13, <1>14, <1>15, <1>16, <1>17, <1>18, <1>19, <1>20, <1>21 DEF UndoRecordDoes
<1>43. CASE UndoEnableDoes
  BY <1>2, <1>43, <1>3, <1>5, <1>7, <1>10, <1>11, <1>12, <1>13, <1>14, <1>15, <1>16, <1>17, <1>18, <1>19, <1>20, <1>21 DEF UndoEnableDoes, Bad, Told, At
<1>44. CASE UndoReloadDoes
  <2>1. /\ cli.at = "undo-reload" /\ dsh' = dsh /\ record' = record
        /\ cli'.at = "undo-restart" /\ cli'.tried = cli.tried
        /\ cli'.recovered = cli.recovered /\ cli'.wasActive = cli.wasActive
        /\ loaded' = (IF "reload" \in cli.tried THEN Reloaded ELSE loaded)
    BY <1>12, <1>44 DEF UndoReloadDoes, Bad, Told, At
  <2>2. ~Exists("systemdDropInFile")
    <3>1. "systemdDropInFile" \in Paths /\ ~MayBeLeft("systemdDropInFile")
      BY DEF Paths, MayBeLeft
    <3>2. disk["systemdDropInFile"] \notin {"ours", "left", "theirs"}
      BY <2>1, <3>1 DEF LeftPaths, ForeignPaths, Young
    <3> QED BY <3>1, <3>2 DEF Exists, Typed
  <2>3. ~loaded'
    <3>1. told = cli.tried
      BY <1>3, <1>14, <2>1
    <3> QED BY <1>13, <2>1, <2>2, <3>1 DEF Reloaded
  <2>4. told = toldThen /\ Active' = Active
    BY <1>3, <1>15, <2>1
  <2> QED BY <1>16, <2>1, <2>3, <2>4
<1>45. CASE UndoRestartDoes
  <2>1. /\ cli.at = "undo-restart" /\ loaded' = loaded
        /\ dsh' = (IF "restart" \in cli.tried THEN Restored ELSE dsh)
        /\ cli'.at \in {"idle", "journal"} /\ (cli'.at = "journal" => cli.recovering)
        /\ cli'.recovered = cli.recovered
    BY <1>12, <1>45 DEF UndoRestartDoes, Bad, Told, At
  <2>2. ~loaded /\ (dsh = "guarded" => "restart" \in cli.tried)
    BY <1>3, <1>13, <1>14, <2>1
  <2>3. Restored # "guarded"
    BY <2>2 DEF Restored, Booted
  <2> QED BY <1>14, <2>1, <2>2, <2>3 DEF UnfinishedServices
<1>46. CASE SetupCallFailsDoes
  BY <1>2, <1>46, <1>3, <1>5, <1>7, <1>10, <1>11, <1>12, <1>13, <1>14, <1>15, <1>16, <1>17, <1>18, <1>19, <1>20, <1>21 DEF SetupCallFailsDoes, Bad, Told, At
<1>47. CASE PrepareUninstallDoes
  BY <1>2, <1>47, <1>3, <1>5, <1>7, <1>10, <1>11, <1>12, <1>13, <1>14, <1>15, <1>16, <1>17, <1>18, <1>19, <1>20, <1>21 DEF PrepareUninstallDoes
<1>48. CASE AuthorizeUninstallDoes
  BY <1>2, <1>48, <1>3, <1>5, <1>7, <1>10, <1>11, <1>12, <1>13, <1>14, <1>15, <1>16, <1>17, <1>18, <1>19, <1>20, <1>21 DEF AuthorizeUninstallDoes, Bad, Told, At
<1>49. CASE DisableDoes
  BY <1>2, <1>49, <1>3, <1>5, <1>7, <1>10, <1>11, <1>12, <1>13, <1>14, <1>15, <1>16, <1>17, <1>18, <1>19, <1>20, <1>21 DEF DisableDoes
<1>50. CASE RemovePackageDoes
  BY <1>2, <1>50, <1>3, <1>5, <1>7, <1>10, <1>11, <1>12, <1>13, <1>14, <1>15, <1>16, <1>17, <1>18, <1>19, <1>20, <1>21 DEF RemovePackageDoes
<1>51. CASE StageRecordDoes
  BY <1>2, <1>51, <1>3, <1>5, <1>7, <1>10, <1>11, <1>12, <1>13, <1>14, <1>15, <1>16, <1>17, <1>18, <1>19, <1>20, <1>21 DEF StageRecordDoes
<1>52. CASE StagePathDoes
  BY <1>2, <1>52, <1>3, <1>5, <1>7, <1>10, <1>11, <1>12, <1>13, <1>14, <1>15, <1>16, <1>17, <1>18, <1>19, <1>20, <1>21 DEF StagePathDoes
<1>53. CASE StagedDoes
  BY <1>2, <1>53, <1>3, <1>5, <1>7, <1>10, <1>11, <1>12, <1>13, <1>14, <1>15, <1>16, <1>17, <1>18, <1>19, <1>20, <1>21 DEF StagedDoes
<1>54. CASE UnloadDoes
  <2>1. /\ cli.at = "unload" /\ dsh' = dsh /\ record' = record /\ cli'.tried = cli.tried
        /\ cli'.at \in {"delete", "restore-reload"} /\ cli'.saved = cli.saved
        /\ loaded' = InPlace("systemdDropInFile") \/ loaded' = loaded
    BY <1>54 DEF UnloadDoes
  <2>2. loaded' => loaded
    BY <2>1, NothingToLoad DEF Young
  <2>3. Covering' = Covering /\ Active' = Active
    BY <1>3, <1>15, <2>1
  <2> QED BY <1>16, <2>1, <2>2, <2>3
<1>55. CASE RestoreDoes
  <2>1. /\ dsh' = dsh /\ cli'.tried = cli.tried /\ cli'.at = "restore-package"
        /\ loaded' => "reload" \in cli.saved.tried
    BY <1>7, <1>12, <1>55 DEF RestoreDoes, Untold
  <2>2. Covering' = Covering /\ Covering = cli.saved
    BY <1>3, <1>7, <1>55, <2>1 DEF RestoreDoes
  <2> QED BY <1>13, <2>1, <2>2 DEF UnfinishedServices
<1>56. CASE RestorePackageDoes
  BY <1>2, <1>56, <1>3, <1>5, <1>7, <1>10, <1>11, <1>12, <1>13, <1>14, <1>15, <1>16, <1>17, <1>18, <1>19, <1>20, <1>21 DEF RestorePackageDoes
<1>57. CASE RestoreEdgeDoes
  <2>1. /\ cli.at = "restore-edge" /\ loaded' = loaded /\ dsh' = dsh /\ record' = record /\ cli'.at = "idle"
    BY <1>57 DEF RestoreEdgeDoes
  <2>2. record = cli.saved /\ Covering = cli.saved /\ Covering' = record'
    BY <1>3, <1>7, <1>10, <1>12, <2>1
  <2>3. "reload" \notin cli.tried /\ "restart" \notin cli.tried
    BY <1>10, <2>1
  <2> QED BY <1>13, <2>1, <2>2, <2>3 DEF UnfinishedServices
<1>58. CASE DeleteTreeDoes
  BY <1>2, <1>58, <1>3, <1>5, <1>7, <1>10, <1>11, <1>12, <1>13, <1>14, <1>15, <1>16, <1>17, <1>18, <1>19, <1>20, <1>21 DEF DeleteTreeDoes
<1>59. CASE DeletedDoes
  <2>1. loaded' = loaded /\ cli.at = "delete" /\ dsh' = dsh /\ dsh # "guarded" /\ cli'.at = "idle"
    BY <1>12, <1>59 DEF DeletedDoes
  <2>2. ~loaded
    BY <2>1 DEF Unloaded, Young
  <2> QED BY <2>1, <2>2 DEF UnfinishedServices
<1>60. CASE UninstallCallFailsDoes
  <2>1. /\ loaded' = loaded /\ dsh' = dsh /\ cli'.tried = cli.tried /\ cli'.at = "restore" /\ cli.at = "stage"
    BY <1>12, <1>18, <1>60 DEF UninstallCallFailsDoes, Bad, Told, At
  <2>2. Covering' = Covering
    BY <1>3, <2>1
  <2> QED BY <1>13, <2>1, <2>2 DEF UnfinishedServices
<1>61. CASE PrepareResetDoes
  BY <1>2, <1>61, <1>3, <1>5, <1>7, <1>10, <1>11, <1>12, <1>13, <1>14, <1>15, <1>16, <1>17, <1>18, <1>19, <1>20, <1>21 DEF PrepareResetDoes
<1>62. CASE ReadPasswordDoes
  BY <1>2, <1>62, <1>3, <1>5, <1>7, <1>10, <1>11, <1>12, <1>13, <1>14, <1>15, <1>16, <1>17, <1>18, <1>19, <1>20, <1>21 DEF ReadPasswordDoes
<1>63. CASE StopDoes
  BY <1>2, <1>63, <1>3, <1>5, <1>7, <1>10, <1>11, <1>12, <1>13, <1>14, <1>15, <1>16, <1>17, <1>18, <1>19, <1>20, <1>21 DEF StopDoes
<1>64. CASE ReplaceDocumentDoes
  BY <1>2, <1>64, <1>3, <1>5, <1>7, <1>10, <1>11, <1>12, <1>13, <1>14, <1>15, <1>16, <1>17, <1>18, <1>19, <1>20, <1>21 DEF ReplaceDocumentDoes
<1>65. CASE ReplaceSecretDoes
  BY <1>2, <1>65, <1>3, <1>5, <1>7, <1>10, <1>11, <1>12, <1>13, <1>14, <1>15, <1>16, <1>17, <1>18, <1>19, <1>20, <1>21 DEF ReplaceSecretDoes
<1>66. CASE StartDoes
  BY <1>2, <1>66, <1>3, <1>5, <1>7, <1>10, <1>11, <1>12, <1>13, <1>14, <1>15, <1>16, <1>17, <1>18, <1>19, <1>20, <1>21 DEF StartDoes
<1>67. CASE RestoreDocumentDoes
  BY <1>2, <1>67, <1>3, <1>5, <1>7, <1>10, <1>11, <1>12, <1>13, <1>14, <1>15, <1>16, <1>17, <1>18, <1>19, <1>20, <1>21 DEF RestoreDocumentDoes
<1>68. CASE RestoreSecretDoes
  BY <1>2, <1>68, <1>3, <1>5, <1>7, <1>10, <1>11, <1>12, <1>13, <1>14, <1>15, <1>16, <1>17, <1>18, <1>19, <1>20, <1>21 DEF RestoreSecretDoes
<1>69. CASE RestoreServiceDoes
  BY <1>2, <1>69, <1>3, <1>5, <1>7, <1>10, <1>11, <1>12, <1>13, <1>14, <1>15, <1>16, <1>17, <1>18, <1>19, <1>20, <1>21 DEF RestoreServiceDoes
<1>70. CASE ResetCallFailsDoes
  BY <1>2, <1>70, <1>3, <1>5, <1>7, <1>10, <1>11, <1>12, <1>13, <1>14, <1>15, <1>16, <1>17, <1>18, <1>19, <1>20, <1>21 DEF ResetCallFailsDoes
<1>71. CASE KillDoes
  <2>1. /\ loaded' = loaded /\ dsh' = dsh /\ record' = record /\ cli'.at = "idle" /\ cli.at # "idle"
        /\ cli.command = "setup" /\ cli.at \notin {"undo-enable", "undo-reload", "undo-restart"}
    BY <1>12, <1>71 DEF KillDoes, Bad, Told, At
  <2>2. Covering = record /\ Covering' = record' /\ cli.at \in SetupPlaces
    BY <1>3, <1>17, <1>18, <2>1
  <2> QED BY <1>13, <1>21, <2>1, <2>2 DEF UnfinishedServices
<1>72. CASE ServiceWritesDoes
  BY <1>2, <1>72, <1>3, <1>5, <1>7, <1>10, <1>11, <1>12, <1>13, <1>14, <1>15, <1>16, <1>17, <1>18, <1>19, <1>20, <1>21 DEF ServiceWritesDoes
<1>73. CASE OperatorAddsDropIn
  BY <1>2, <1>73, <1>3, <1>5, <1>7, <1>10, <1>11, <1>12, <1>13, <1>14, <1>15, <1>16, <1>17, <1>18, <1>19, <1>20, <1>21 DEF OperatorAddsDropIn
<1>74. CASE RebootDoes
  <2>1. /\ cli.at = "idle" /\ cli'.at = "idle" /\ record' = record /\ cli'.tried = cli.tried
        /\ cli'.broken = (cli.broken \/ Unjournaled)
    BY <1>74 DEF RebootDoes
  <2>2. Covering = record /\ Covering' = record'
    BY <1>3, <1>7, <2>1
  <2>3. /\ loaded' => "reload" \in record.tried
        /\ dsh' = "guarded" => "restart" \in record.tried
    BY <1>12, <2>1, <2>2 DEF Unjournaled
  <2> QED BY <2>1, <2>2, <2>3 DEF UnfinishedServices
<1> QED BY <1>1, <1>22, <1>23, <1>24, <1>25, <1>26, <1>27, <1>28, <1>29, <1>30, <1>31, <1>32, <1>33, <1>34, <1>35, <1>36, <1>37, <1>38, <1>39, <1>40, <1>41, <1>42, <1>43, <1>44, <1>45, <1>46, <1>47, <1>48, <1>49, <1>50, <1>51, <1>52, <1>53, <1>54, <1>55, <1>56, <1>57, <1>58, <1>59, <1>60, <1>61, <1>62, <1>63, <1>64, <1>65, <1>66, <1>67, <1>68, <1>69, <1>70, <1>71, <1>72, <1>73, <1>74 DEF Steps

(* A rollback that ends has put everything back.                           *)
LEMMA FailedSetupUndoneStep ==
  ASSUME Typed, Running, Running', RecordShape, Bootstrapped, RecordAt, SavedAt, SavedAt', Nested, ClaimedBundle, EdgeTold, LeftPaths, UnfinishedServices, FailedSetupUndone, Next
  PROVE  FailedSetupUndone'
<1> USE DEF Moved, Went, Onward, Steady, Over, OverBut, AtIdle, OnPath, OnNext, Began, Others, services, Notes, Puts, Replaces, Resumed, SetupPlaces, Installing, Undoing, UninstallPlaces, Leaving, Restoring, ResetPlaces
<1>1. Steps
  BY EveryStep
<1>2. Typed' /\ output' = output
  BY TypedStep, SameHost
<1>3. ASSUME cli'.at # "idle" \/ cli'.answer # "failed" \/ cli'.command # "setup" PROVE FailedSetupUndone'
  BY <1>3 DEF FailedSetupUndone, At
<1>4. CASE PrepareSetupDoes
  BY <1>3, <1>4 DEF PrepareSetupDoes
<1>5. CASE ReadSecretsDoes
  BY <1>3, <1>5 DEF ReadSecretsDoes
<1>6. CASE WriteJournalDoes
  BY <1>3, <1>6 DEF WriteJournalDoes
<1>7. CASE TearJournalDoes
  BY <1>3, <1>7 DEF TearJournalDoes
<1>8. CASE MakeConfigDoes
  BY <1>3, <1>8 DEF MakeConfigDoes
<1>9. CASE MoveJournalDoes
  BY <1>3, <1>9 DEF MoveJournalDoes
<1>10. CASE RecordPackageDoes
  BY <1>3, <1>10 DEF RecordPackageDoes
<1>11. CASE AddPackageDoes
  BY <1>3, <1>11 DEF AddPackageDoes
<1>12. CASE RecordPathDoes
  BY <1>3, <1>12 DEF RecordPathDoes
<1>13. CASE MakePathDoes
  BY <1>3, <1>13 DEF MakePathDoes
<1>14. CASE TryDoes("record-reload", "reload", "reload")
  BY <1>3, <1>14 DEF TryDoes
<1>15. CASE ReloadDoes
  BY <1>3, <1>15 DEF ReloadDoes
<1>16. CASE TryDoes("record-restart", "restart", "restart")
  BY <1>3, <1>16 DEF TryDoes
<1>17. CASE RestartDoes
  BY <1>3, <1>17 DEF RestartDoes
<1>18. CASE TryDoes("record-enable", "enable", "enable")
  BY <1>3, <1>18 DEF TryDoes
<1>19. CASE EnableDoes
  BY <1>3, <1>19 DEF EnableDoes
<1>20. CASE FinishSetupDoes
  BY <1>3, <1>20 DEF FinishSetupDoes
<1>21. CASE UndoPackageDoes
  BY <1>3, <1>21 DEF UndoPackageDoes
<1>22. CASE RemovePathDoes
  BY <1>3, <1>22 DEF RemovePathDoes
<1>23. CASE RemoveConfigDoes
  BY <1>3, <1>23 DEF RemoveConfigDoes
<1>24. CASE UndoRecordDoes
  BY <1>3, <1>24 DEF UndoRecordDoes
<1>25. CASE UndoEnableDoes
  BY <1>3, <1>25 DEF UndoEnableDoes
<1>26. CASE UndoReloadDoes
  BY <1>3, <1>26 DEF UndoReloadDoes
<1>27. CASE UndoRestartDoes
  <2>1. SUFFICES ASSUME At("idle")', cli'.command = "setup", cli'.answer = "failed", ~cli'.broken, ~cli'.lost
                 PROVE FailedSetupUndone'
    BY DEF FailedSetupUndone
  <2>2. /\ cli.at = "undo-restart" /\ loaded' = loaded /\ disk' = disk /\ guest' = guest /\ bundle' = bundle /\ edge' = edge
        /\ dsh' = (IF "restart" \in cli.tried THEN Restored ELSE dsh)
        /\ cli'.recovered = cli.recovered /\ cli'.wasActive = cli.wasActive
        /\ ~cli.broken /\ ~cli.lost
    BY <1>27, <2>1 DEF UndoRestartDoes, Bad, At
  <2>3. /\ Covering = record /\ record.status # "installed" /\ record.tried = {} /\ ~record.package
        /\ cli.tried # {} => record.at = "final"
        /\ ~cli.recovered /\ record.at # "none" => record.wasActive = cli.wasActive
    BY <2>2, CoveringIs DEF RecordAt, RecordShape, NothingClaimed, NoRecord, Typed, Commands
  <2>4. Young
    BY <2>1, <2>2, <2>3 DEF Young
  <2>5. /\ \A p \in Paths : disk[p] = "ours" => p = "configDirectory"
        /\ \A p \in Paths : disk[p] = "left" => MayBeLeft(p)
    BY <2>2, <2>4 DEF LeftPaths
  <2>6. bundle # "ours" /\ ~edge
    BY <2>2, <2>3, <2>5 DEF ClaimedBundle, EdgeTold
  <2>7. /\ ~loaded /\ (dsh = "guarded" => "restart" \in cli.tried)
        /\ ~cli.recovered /\ "restart" \notin cli.tried => Active = cli.wasActive
    BY <2>2, <2>3, <2>4 DEF UnfinishedServices
  <2>8. Booted = "plain"
    BY <2>7 DEF Booted
  <2>9. Restored # "guarded" /\ ((Restored # "stopped") = record.wasActive)
    BY <2>8, <1>2 DEF Restored, Typed, Records
  <2>10. dsh' # "guarded"
    BY <2>2, <2>7, <2>9
  <2>11. ~cli'.recovered => Active' = cli'.wasActive
    BY <2>2, <2>3, <2>7, <2>9 DEF Active
  <2>12. \A p \in Paths : disk'[p] = "left" =>
           \/ p \in {"configDirectory", "authStateDirectory", "authStateFile"}
           \/ p = "systemdDropInDirectory" /\ guest'
    BY <2>2, <2>5 DEF MayBeLeft
  <2> HIDE DEF Active
  <2> QED BY <2>2, <2>5, <2>6, <2>7, <2>10, <2>11, <2>12 DEF FailedSetupUndone
<1>28. CASE SetupCallFailsDoes
  BY <1>3, <1>28 DEF SetupCallFailsDoes
<1>29. CASE PrepareUninstallDoes
  BY <1>3, <1>29 DEF PrepareUninstallDoes
<1>30. CASE AuthorizeUninstallDoes
  BY <1>3, <1>30 DEF AuthorizeUninstallDoes
<1>31. CASE DisableDoes
  BY <1>3, <1>31 DEF DisableDoes
<1>32. CASE RemovePackageDoes
  BY <1>3, <1>32 DEF RemovePackageDoes
<1>33. CASE StageRecordDoes
  BY <1>3, <1>33 DEF StageRecordDoes
<1>34. CASE StagePathDoes
  BY <1>3, <1>34 DEF StagePathDoes
<1>35. CASE StagedDoes
  BY <1>3, <1>35 DEF StagedDoes
<1>36. CASE UnloadDoes
  BY <1>3, <1>36 DEF UnloadDoes
<1>37. CASE RestoreDoes
  BY <1>3, <1>37 DEF RestoreDoes
<1>38. CASE RestorePackageDoes
  BY <1>3, <1>38 DEF RestorePackageDoes
<1>39. CASE RestoreEdgeDoes
  BY <1>3, <1>39 DEF RestoreEdgeDoes, Running
<1>40. CASE DeleteTreeDoes
  BY <1>3, <1>40 DEF DeleteTreeDoes
<1>41. CASE DeletedDoes
  BY <1>3, <1>41 DEF DeletedDoes
<1>42. CASE UninstallCallFailsDoes
  BY <1>3, <1>42 DEF UninstallCallFailsDoes
<1>43. CASE PrepareResetDoes
  BY <1>3, <1>43 DEF PrepareResetDoes
<1>44. CASE ReadPasswordDoes
  BY <1>3, <1>44 DEF ReadPasswordDoes
<1>45. CASE StopDoes
  BY <1>3, <1>45 DEF StopDoes
<1>46. CASE ReplaceDocumentDoes
  BY <1>3, <1>46 DEF ReplaceDocumentDoes
<1>47. CASE ReplaceSecretDoes
  BY <1>3, <1>47 DEF ReplaceSecretDoes
<1>48. CASE StartDoes
  BY <1>3, <1>48 DEF StartDoes
<1>49. CASE RestoreDocumentDoes
  BY <1>3, <1>49 DEF RestoreDocumentDoes
<1>50. CASE RestoreSecretDoes
  BY <1>3, <1>50 DEF RestoreSecretDoes, Running
<1>51. CASE RestoreServiceDoes
  BY <1>3, <1>51 DEF RestoreServiceDoes, Running
<1>52. CASE ResetCallFailsDoes
  BY <1>3, <1>52 DEF ResetCallFailsDoes
<1>53. CASE KillDoes
  BY <1>3, <1>53 DEF KillDoes
<1>54. CASE ServiceWritesDoes
  <2>1. cli' = cli /\ dsh = "guarded"
    BY <1>54 DEF ServiceWritesDoes
  <2> QED BY <2>1 DEF FailedSetupUndone, At
<1>55. CASE OperatorAddsDropIn
  <2>1. /\ cli' = cli /\ disk' = disk /\ bundle' = bundle /\ edge' = edge /\ loaded' = loaded /\ dsh' = dsh
        /\ guest'
    BY <1>55 DEF OperatorAddsDropIn
  <2>2. Active' = Active
    BY <2>1 DEF Active
  <2> HIDE DEF Active
  <2> QED BY <2>1, <2>2 DEF FailedSetupUndone, At
<1>56. CASE RebootDoes
  BY <1>3, <1>56 DEF RebootDoes
<1> QED BY <1>1, <1>4, <1>5, <1>6, <1>7, <1>8, <1>9, <1>10, <1>11, <1>12, <1>13, <1>14, <1>15, <1>16, <1>17, <1>18, <1>19, <1>20, <1>21, <1>22, <1>23, <1>24, <1>25, <1>26, <1>27, <1>28, <1>29, <1>30, <1>31, <1>32, <1>33, <1>34, <1>35, <1>36, <1>37, <1>38, <1>39, <1>40, <1>41, <1>42, <1>43, <1>44, <1>45, <1>46, <1>47, <1>48, <1>49, <1>50, <1>51, <1>52, <1>53, <1>54, <1>55, <1>56 DEF Steps

-----------------------------------------------------------------------------
(***************************************************************************)
(* The invariant and what follows from it.                                 *)
(***************************************************************************)
(* A host without dsh-auth is in order.                                    *)
LEMMA StartsInOrder == Init => IInv
<1> SUFFICES ASSUME Init PROVE IInv
  OBVIOUS
<1>1. Typed
  BY TypedStart
<1>2. /\ cli.command = "none" /\ cli.at = "idle" /\ cli.tried = {} /\ cli.saved = NoRecord
      /\ cli.aside = {} /\ cli.answer = "none" /\ ~cli.broken /\ ~cli.lost /\ cli.runs = 0
      /\ ~cli.recovering
  BY DEF Init, Idle
<1>3. /\ record = NoRecord /\ NoRecord.at = "none" /\ NoRecord.whole /\ NoRecord.status = "none"
      /\ NoRecord.created = {} /\ ~NoRecord.package /\ NoRecord.tried = {} /\ Covering = record
  BY <1>2 DEF Init, NoRecord, Covering, At
<1>4. /\ ~loaded /\ ~edge /\ ~guest /\ dsh # "guarded" /\ bundle # "ours"
      /\ cred = [secret |-> 0, document |-> 0] /\ cred.secret = 0 /\ cred.document = 0
      /\ output => bundle = "none" /\ dsh = "stopped" /\ ~Exists("systemdDropInDirectory")
  BY DEF Init
<1>5. \A p \in Paths : disk[p] \in {"none", "theirs"} /\ (disk[p] = "theirs" => p \in {"configDirectory", "systemdDropInDirectory"})
  BY DEF Init
<1>6. /\ "idle" \notin SetupPlaces \cup UninstallPlaces \cup ResetPlaces \cup Activating
      /\ "idle" \notin Installing \cup Undoing
  BY DEF SetupPlaces, Installing, Undoing, UninstallPlaces, Leaving, Restoring, ResetPlaces, Activating
<1>7. Running /\ RecordShape /\ Bootstrapped /\ SavedAt /\ OutputAt
  BY <1>2, <1>3, <1>4, <1>6 DEF Running, RecordShape, Bootstrapped, SavedAt, OutputAt, NothingClaimed
<1>8. RecordAt
  BY <1>2, <1>3, <1>6 DEF RecordAt, NothingClaimed
<1>9. Nested
  <2>1. ASSUME NEW p \in Paths, Exists(p) PROVE Parent(p) = "system"
    BY <1>4, <1>5, <2>1 DEF Exists, Parent
  <2> QED BY <2>1 DEF Nested
<1>10. ForeignPaths /\ ForeignBundle /\ ClaimedPaths /\ ClaimedBundle /\ EdgeTold
  BY <1>2, <1>3, <1>4, <1>5, <1>6 DEF ForeignPaths, ForeignBundle, ClaimedPaths, ClaimedBundle, EdgeTold
<1>11. MakingUp /\ Kept /\ Whole /\ Answered
  BY <1>2, <1>3, <1>6 DEF MakingUp, Kept, Whole, Answered
<1>12. Resetting
  BY <1>2, <1>4, <1>6 DEF Resetting
<1>13. LeftPaths /\ Unloaded
  BY <1>2, <1>4, <1>5 DEF LeftPaths, Unloaded
<1>14. UnfinishedServices
  BY <1>2, <1>4, <1>6 DEF UnfinishedServices
<1>15. FailedSetupUndone
  BY <1>2 DEF FailedSetupUndone
<1> QED BY <1>1, <1>7, <1>8, <1>9, <1>10, <1>11, <1>12, <1>13, <1>14, <1>15 DEF IInv

(* Every step keeps it in order.                                           *)
LEMMA StaysInOrder == IInv /\ [Next]_vars => IInv'
<1>1. ASSUME IInv, Next PROVE IInv'
  <2>1. /\ Typed /\ Running /\ RecordShape /\ Bootstrapped /\ RecordAt /\ SavedAt /\ OutputAt /\ Nested
        /\ ForeignPaths /\ ForeignBundle /\ ClaimedPaths /\ ClaimedBundle /\ EdgeTold
        /\ MakingUp /\ Kept /\ Whole /\ Answered /\ Resetting
        /\ LeftPaths /\ Unloaded /\ UnfinishedServices /\ FailedSetupUndone
    BY <1>1 DEF IInv
  <2>2. Typed' /\ Running'
    BY <1>1, <2>1, TypedStep, RunningStep
  <2>3. RecordShape' /\ Bootstrapped' /\ RecordAt' /\ SavedAt' /\ OutputAt' /\ Nested'
    BY <1>1, <2>1, RecordShapeStep, BootstrappedStep, RecordAtStep, SavedAtStep, OutputAtStep, NestedStep
  <2>4. ForeignPaths' /\ ForeignBundle' /\ ClaimedPaths' /\ ClaimedBundle' /\ EdgeTold'
    BY <1>1, <2>1, <2>2, <2>3, ForeignPathsStep, ForeignBundleStep, ClaimedPathsStep, ClaimedBundleStep, EdgeToldStep
  <2>5. MakingUp' /\ Kept' /\ Answered' /\ Resetting'
    BY <1>1, <2>1, <2>2, <2>3, MakingUpStep, KeptStep, AnsweredStep, ResettingStep
  <2>6. Whole'
    BY <1>1, <2>1, <2>2, <2>3, <2>5, WholeStep
  <2>7. LeftPaths' /\ Unloaded' /\ FailedSetupUndone'
    BY <1>1, <2>1, <2>2, <2>3, LeftPathsStep, UnloadedStep, FailedSetupUndoneStep
  <2>8. UnfinishedServices'
    <3>1. CASE Young'
      <4>1. CASE Young
        BY <1>1, <2>1, <2>2, <2>3, <3>1, <4>1, UnfinishedServicesStep
      <4>2. CASE DeletedDoes /\ dsh # "guarded" /\ ~cli.lost
        <5>1. loaded' = loaded /\ dsh' = dsh /\ cli'.at = "idle" /\ ~loaded
          BY <2>1, <4>2 DEF DeletedDoes, OverBut, AtIdle, Others, services, Unloaded
        <5> QED BY <4>2, <5>1 DEF UnfinishedServices, SetupPlaces, Installing, Undoing
      <4> QED BY <1>1, <2>1, <2>2, <2>3, <3>1, <4>1, <4>2, YoungStays
    <3>2. CASE ~Young'
      BY <3>2 DEF UnfinishedServices
    <3> QED BY <3>1, <3>2
  <2> QED BY <2>2, <2>3, <2>4, <2>5, <2>6, <2>7, <2>8 DEF IInv
<1>2. ASSUME IInv, UNCHANGED vars PROVE IInv'
  <2> USE DEF vars, services
  <2>1. Order' = Order /\ Managed' = Managed /\ Covering' = Covering /\ Active' = Active /\ Path' = Path
    BY <1>2 DEF Order, Managed, Covering, At, Active, Path
  <2>2. /\ \A p : Exists(p)' = Exists(p) /\ Parent(p)' = Parent(p) /\ Tree(p)' = Tree(p)
        /\ \A p : MayBeLeft(p)' = MayBeLeft(p)
    BY <1>2 DEF Exists, Parent, Tree, MayBeLeft, Within
  <2>3. RemovalRoots' = RemovalRoots
    BY <1>2 DEF RemovalRoots, Recorded, Tree, Parent, Within
  <2>4. Made' = Made /\ Young' = Young
    BY <1>2, <2>1 DEF Made, Young
  <2>5. Typed' /\ Running' /\ RecordShape' /\ Bootstrapped' /\ OutputAt'
    BY <1>2, <2>1, <2>2 DEF IInv, Typed, Running, RecordShape, NothingClaimed, Bootstrapped, OutputAt
  <2>6. RecordAt' /\ SavedAt'
    BY <1>2, <2>1, <2>2, <2>3 DEF IInv, RecordAt, NothingClaimed, SavedAt
  <2>7. Nested' /\ ForeignPaths' /\ ForeignBundle' /\ ClaimedPaths' /\ ClaimedBundle' /\ EdgeTold'
    BY <1>2, <2>1, <2>2 DEF IInv, Nested, ForeignPaths, ForeignBundle, ClaimedPaths, ClaimedBundle, EdgeTold
  <2>8. MakingUp' /\ Kept' /\ Whole' /\ Answered' /\ Resetting'
    BY <1>2, <2>1, <2>2, <2>4 DEF IInv, MakingUp, Kept, Whole, Answered, Resetting
  <2>9. LeftPaths' /\ Unloaded' /\ UnfinishedServices' /\ FailedSetupUndone'
    BY <1>2, <2>1, <2>2, <2>4 DEF IInv, LeftPaths, Unloaded, UnfinishedServices, FailedSetupUndone, At
  <2> QED BY <2>5, <2>6, <2>7, <2>8, <2>9 DEF IInv
<1> QED BY <1>1, <1>2
(* The invariant holds at every step, of every number of commands and      *)
(* faults.                                                                 *)
LEMMA AlwaysInOrder == Spec => []IInv
  BY StartsInOrder, StaysInOrder, PTL DEF Spec

(* JournalCoversHost: whatever setup (src/installer/executor.ts) has made  *)
(* on the host is claimed by the ownership record on disk, wherever a      *)
(* command fails or is killed, but for what an uninstall was working on    *)
(* when it was killed.                                                     *)
THEOREM JournalCovers == Spec => []JournalCoversHost
<1>1. IInv => JournalCoversHost
  BY DEF IInv, JournalCoversHost, ClaimedPaths, ClaimedBundle, EdgeTold
<1> QED BY <1>1, AlwaysInOrder, PTL

(* FailedSetupUndone: a setup that fails and rolls itself back             *)
(* (rollbackInstallation() of src/installer/executor.ts) leaves the host   *)
(* as it was, but for the paths that it may leave, also when commands were *)
(* killed and the host was rebooted before it.  It says nothing of a host  *)
(* where a reboot, or whatever else makes a host broken, has done what no  *)
(* journal tells of, nor of one where an uninstall has lost its paths.     *)
THEOREM FailedSetupsAreUndone == Spec => []FailedSetupUndone
<1>1. IInv => FailedSetupUndone
  BY DEF IInv
<1> QED BY <1>1, AlwaysInOrder, PTL

(* Between commands, of a complete and unbroken installation.              *)
LEMMA CompleteWhenIdle ==
  ASSUME IInv, At("idle"), record.status = "installed", ~cli.broken
  PROVE  /\ \A p \in Managed : Exists(p)
         /\ ~output => bundle # "none" /\ loaded /\ edge /\ dsh # "plain"
         /\ ~output /\ cli.command = "setup" /\ cli.answer = "done" => dsh = "guarded"
         /\ record.at = "final" /\ record.whole
<1>1. cli.at = "idle" /\ Covering = record /\ cli.tried = {}
  BY DEF IInv, At, Covering, RecordAt
<1>2. "idle" \notin ResetPlaces
  BY DEF ResetPlaces
<1>3. \A p \in Managed : Exists(p)
  BY DEF IInv, Kept
<1>4. /\ ~output => bundle # "none" /\ loaded /\ edge /\ dsh # "plain"
      /\ ~output /\ cli.command = "setup" /\ cli.answer = "done" => dsh = "guarded"
  BY <1>1, <1>2 DEF IInv, Whole
<1>5. record.at = "final" /\ record.whole
  BY DEF IInv, RecordShape
<1> QED BY <1>3, <1>4, <1>5

(* InstalledIsComplete: an installation that is recorded as complete is    *)
(* complete, also after interrupted setups, failed uninstalls that have    *)
(* put things back, and reboots.  It says nothing of a host on which an    *)
(* uninstall or a reset was killed, or could not put things back.          *)
THEOREM InstalledStaysComplete == Spec => []InstalledIsComplete
<1>1. IInv => InstalledIsComplete
  BY CompleteWhenIdle DEF InstalledIsComplete
<1> QED BY <1>1, AlwaysInOrder, PTL

(* The end of a reset.                                                     *)
LEMMA ResetEnds ==
  ASSUME IInv, Next, cli.command = "reset", ~At("idle"), At("idle")'
  PROVE  /\ cli'.answer = "done" => cred' = [secret |-> cli.runs, document |-> cli.runs]
         /\ cli'.answer \in {"failed", "refused"} => cred' = cli.backup
         /\ cli'.answer \in {"killed", "broken"} =>
              /\ cred'.secret \in {cli.backup.secret, cli.runs}
              /\ cred'.document \in {cli.backup.document, cli.runs}
         /\ cli'.answer \in {"done", "failed", "refused"} => Active' = cli.wasActive
<1> DEFINE ends ==
             /\ cli'.answer = "done" => cred'.secret = cli.runs /\ cred'.document = cli.runs
             /\ cli'.answer \in {"failed", "refused"} =>
                  cred'.secret = cli.backup.secret /\ cred'.document = cli.backup.document
             /\ cli'.answer \in {"killed", "broken"} =>
                  /\ cred'.secret \in {cli.backup.secret, cli.runs}
                  /\ cred'.document \in {cli.backup.document, cli.runs}
             /\ cli'.answer \in {"done", "failed", "refused"} => Active' = cli.wasActive
<1> USE DEF Moved, Went, Onward, Steady, Over, OverBut, AtIdle, OnPath, OnNext, Began, Others, services, Notes, Replaces, Resumed
<1>1. Steps /\ Typed /\ Typed'
  BY EveryStep, TypedStep DEF IInv
<1>0. SUFFICES ends
  <2>1. \A c, d : c \in Credential /\ d \in Credential /\ c.secret = d.secret /\ c.document = d.document => c = d
    BY DEF Credential
  <2>2. cred' \in Credential /\ cli.backup \in Credential /\ [secret |-> cli.runs, document |-> cli.runs] \in Credential
    BY <1>1 DEF Typed, Commands, Credential
  <2> QED BY <2>1, <2>2
<1>2. cli.at # "idle" /\ cli'.at = "idle" /\ cli.at \in ResetPlaces /\ ~output
  BY DEF IInv, Running, Typed, Commands, Places, At
<1>3. cli.at \notin SetupPlaces \cup UninstallPlaces
  BY DEF IInv, Running
<1>4. Booted # "stopped"
  <2>1. record.status = "installed"
    BY <1>2 DEF IInv, RecordAt
  <2>2. Exists("environmentFile")
    BY <1>2, <2>1, ManagedPaths DEF IInv, Kept, Paths, Directories
  <2> QED BY <2>2 DEF Booted
<1>5. /\ cred.secret \in {cli.backup.secret, cli.runs}
      /\ cred.document \in {cli.backup.document, cli.runs}
      /\ cli.at \in {"password", "restore-service"} =>
           cred.secret = cli.backup.secret /\ cred.document = cli.backup.document
      /\ cli.at = "replace-secret" => cred.document = cli.runs
      /\ cli.at = "start" => cred.secret = cli.runs /\ cred.document = cli.runs
      /\ cli.at = "restore-secret" => cred.document = cli.backup.document
      /\ cli.at = "password" => Active = cli.wasActive
      /\ cli.at \in {"start", "restore-service"} => cli.wasActive
      /\ ~cli.wasActive => ~Active
  BY <1>2 DEF IInv, Resetting, Active
<1>6. cli.wasActive \in BOOLEAN /\ Active = (dsh # "stopped") /\ Active' = (dsh' # "stopped")
  BY <1>1 DEF Typed, Commands, Active
<1> HIDE DEF Active, Booted
<1>7. CASE PrepareSetupDoes
  BY <1>2, <1>7 DEF PrepareSetupDoes
<1>8. CASE ReadSecretsDoes
  BY <1>3, <1>8 DEF ReadSecretsDoes, SetupPlaces, Installing, Undoing, UninstallPlaces, Leaving, Restoring
<1>9. CASE WriteJournalDoes
  BY <1>3, <1>9 DEF WriteJournalDoes, SetupPlaces, Installing, Undoing, UninstallPlaces, Leaving, Restoring
<1>10. CASE TearJournalDoes
  BY <1>3, <1>10 DEF TearJournalDoes, SetupPlaces, Installing, Undoing, UninstallPlaces, Leaving, Restoring
<1>11. CASE MakeConfigDoes
  BY <1>3, <1>11 DEF MakeConfigDoes, SetupPlaces, Installing, Undoing, UninstallPlaces, Leaving, Restoring
<1>12. CASE MoveJournalDoes
  BY <1>3, <1>12 DEF MoveJournalDoes, SetupPlaces, Installing, Undoing, UninstallPlaces, Leaving, Restoring
<1>13. CASE RecordPackageDoes
  BY <1>3, <1>13 DEF RecordPackageDoes, SetupPlaces, Installing, Undoing, UninstallPlaces, Leaving, Restoring
<1>14. CASE AddPackageDoes
  BY <1>3, <1>14 DEF AddPackageDoes, SetupPlaces, Installing, Undoing, UninstallPlaces, Leaving, Restoring
<1>15. CASE RecordPathDoes
  BY <1>3, <1>15 DEF RecordPathDoes, SetupPlaces, Installing, Undoing, UninstallPlaces, Leaving, Restoring
<1>16. CASE MakePathDoes
  BY <1>3, <1>16 DEF MakePathDoes, SetupPlaces, Installing, Undoing, UninstallPlaces, Leaving, Restoring
<1>17. CASE TryDoes("record-reload", "reload", "reload")
  BY <1>3, <1>17 DEF TryDoes, SetupPlaces, Installing, Undoing, UninstallPlaces, Leaving, Restoring
<1>18. CASE ReloadDoes
  BY <1>3, <1>18 DEF ReloadDoes, SetupPlaces, Installing, Undoing, UninstallPlaces, Leaving, Restoring
<1>19. CASE TryDoes("record-restart", "restart", "restart")
  BY <1>3, <1>19 DEF TryDoes, SetupPlaces, Installing, Undoing, UninstallPlaces, Leaving, Restoring
<1>20. CASE RestartDoes
  BY <1>3, <1>20 DEF RestartDoes, SetupPlaces, Installing, Undoing, UninstallPlaces, Leaving, Restoring
<1>21. CASE TryDoes("record-enable", "enable", "enable")
  BY <1>3, <1>21 DEF TryDoes, SetupPlaces, Installing, Undoing, UninstallPlaces, Leaving, Restoring
<1>22. CASE EnableDoes
  BY <1>3, <1>22 DEF EnableDoes, SetupPlaces, Installing, Undoing, UninstallPlaces, Leaving, Restoring
<1>23. CASE FinishSetupDoes
  BY <1>3, <1>23 DEF FinishSetupDoes, SetupPlaces, Installing, Undoing, UninstallPlaces, Leaving, Restoring
<1>24. CASE UndoPackageDoes
  BY <1>3, <1>24 DEF UndoPackageDoes, SetupPlaces, Installing, Undoing, UninstallPlaces, Leaving, Restoring
<1>25. CASE RemovePathDoes
  BY <1>3, <1>25 DEF RemovePathDoes, SetupPlaces, Installing, Undoing, UninstallPlaces, Leaving, Restoring
<1>26. CASE RemoveConfigDoes
  BY <1>3, <1>26 DEF RemoveConfigDoes, SetupPlaces, Installing, Undoing, UninstallPlaces, Leaving, Restoring
<1>27. CASE UndoRecordDoes
  BY <1>3, <1>27 DEF UndoRecordDoes, SetupPlaces, Installing, Undoing, UninstallPlaces, Leaving, Restoring
<1>28. CASE UndoEnableDoes
  BY <1>3, <1>28 DEF UndoEnableDoes, SetupPlaces, Installing, Undoing, UninstallPlaces, Leaving, Restoring
<1>29. CASE UndoReloadDoes
  BY <1>3, <1>29 DEF UndoReloadDoes, SetupPlaces, Installing, Undoing, UninstallPlaces, Leaving, Restoring
<1>30. CASE UndoRestartDoes
  BY <1>3, <1>30 DEF UndoRestartDoes, SetupPlaces, Installing, Undoing, UninstallPlaces, Leaving, Restoring
<1>31. CASE SetupCallFailsDoes
  BY <1>3, <1>31 DEF SetupCallFailsDoes, SetupPlaces, Installing, Undoing, UninstallPlaces, Leaving, Restoring
<1>32. CASE PrepareUninstallDoes
  BY <1>2, <1>32 DEF PrepareUninstallDoes
<1>33. CASE AuthorizeUninstallDoes
  BY <1>3, <1>33 DEF AuthorizeUninstallDoes, SetupPlaces, Installing, Undoing, UninstallPlaces, Leaving, Restoring
<1>34. CASE DisableDoes
  BY <1>3, <1>34 DEF DisableDoes, SetupPlaces, Installing, Undoing, UninstallPlaces, Leaving, Restoring
<1>35. CASE RemovePackageDoes
  BY <1>3, <1>35 DEF RemovePackageDoes, SetupPlaces, Installing, Undoing, UninstallPlaces, Leaving, Restoring
<1>36. CASE StageRecordDoes
  BY <1>3, <1>36 DEF StageRecordDoes, SetupPlaces, Installing, Undoing, UninstallPlaces, Leaving, Restoring
<1>37. CASE StagePathDoes
  BY <1>3, <1>37 DEF StagePathDoes, SetupPlaces, Installing, Undoing, UninstallPlaces, Leaving, Restoring
<1>38. CASE StagedDoes
  BY <1>3, <1>38 DEF StagedDoes, SetupPlaces, Installing, Undoing, UninstallPlaces, Leaving, Restoring
<1>39. CASE UnloadDoes
  BY <1>3, <1>39 DEF UnloadDoes, SetupPlaces, Installing, Undoing, UninstallPlaces, Leaving, Restoring
<1>40. CASE RestoreDoes
  BY <1>3, <1>40 DEF RestoreDoes, SetupPlaces, Installing, Undoing, UninstallPlaces, Leaving, Restoring
<1>41. CASE RestorePackageDoes
  BY <1>3, <1>41 DEF RestorePackageDoes, SetupPlaces, Installing, Undoing, UninstallPlaces, Leaving, Restoring
<1>42. CASE RestoreEdgeDoes
  BY <1>3, <1>42 DEF RestoreEdgeDoes, SetupPlaces, Installing, Undoing, UninstallPlaces, Leaving, Restoring
<1>43. CASE DeleteTreeDoes
  BY <1>3, <1>43 DEF DeleteTreeDoes, SetupPlaces, Installing, Undoing, UninstallPlaces, Leaving, Restoring
<1>44. CASE DeletedDoes
  BY <1>3, <1>44 DEF DeletedDoes, SetupPlaces, Installing, Undoing, UninstallPlaces, Leaving, Restoring
<1>45. CASE UninstallCallFailsDoes
  BY <1>3, <1>45 DEF UninstallCallFailsDoes, SetupPlaces, Installing, Undoing, UninstallPlaces, Leaving, Restoring
<1>46. CASE PrepareResetDoes
  BY <1>2, <1>46 DEF PrepareResetDoes
<1>47. CASE ReadPasswordDoes
  BY <1>2, <1>4, <1>5, <1>6, <1>47 DEF ReadPasswordDoes
<1>48. CASE StopDoes
  BY <1>2, <1>48 DEF StopDoes
<1>49. CASE ReplaceDocumentDoes
  BY <1>2, <1>49 DEF ReplaceDocumentDoes
<1>50. CASE ReplaceSecretDoes
  BY <1>2, <1>4, <1>5, <1>6, <1>50 DEF ReplaceSecretDoes
<1>51. CASE StartDoes
  BY <1>2, <1>4, <1>5, <1>6, <1>51 DEF StartDoes
<1>52. CASE RestoreDocumentDoes
  BY <1>2, <1>52 DEF RestoreDocumentDoes
<1>53. CASE RestoreSecretDoes
  BY <1>2, <1>4, <1>5, <1>6, <1>53 DEF RestoreSecretDoes
<1>54. CASE RestoreServiceDoes
  BY <1>2, <1>4, <1>5, <1>6, <1>54 DEF RestoreServiceDoes
<1>55. CASE ResetCallFailsDoes
  BY <1>2, <1>4, <1>5, <1>6, <1>55 DEF ResetCallFailsDoes
<1>56. CASE KillDoes
  BY <1>2, <1>4, <1>5, <1>6, <1>56 DEF KillDoes
<1>57. CASE RebootDoes
  BY <1>2, <1>57 DEF RebootDoes
<1>58. CASE ServiceWritesDoes
  BY <1>2, <1>58 DEF ServiceWritesDoes
<1>59. CASE OperatorAddsDropIn
  BY <1>2, <1>59 DEF OperatorAddsDropIn
<1> QED
  BY <1>1, <1>7, <1>8, <1>9, <1>10, <1>11, <1>12, <1>13, <1>14, <1>15, <1>16, <1>17, <1>18, <1>19, <1>20, <1>21, <1>22, <1>23, <1>24, <1>25, <1>26, <1>27, <1>28, <1>29, <1>30, <1>31, <1>32, <1>33, <1>34, <1>35, <1>36, <1>37, <1>38, <1>39, <1>40, <1>41, <1>42, <1>43, <1>44, <1>45, <1>46, <1>47, <1>48, <1>49, <1>50, <1>51, <1>52, <1>53, <1>54, <1>55, <1>56, <1>57, <1>58, <1>59 DEF Steps

(* ResetAllOrNothing: a password reset (src/installer/reset-password.ts)   *)
(* that is done has replaced the session secret and the authentication     *)
(* document, one that has failed or was refused leaves both as it found    *)
(* them, and each leaves the service running, or not, as it found it; one  *)
(* that was killed between the two, or could not put them back, may leave  *)
(* one of them new and the other old.                                      *)
THEOREM ResetsAreAllOrNothing == Spec => ResetAllOrNothing
<1> DEFINE allOrNothing ==
       cli.command = "reset" /\ ~At("idle") /\ At("idle")' =>
         /\ cli'.answer = "done" => cred' = [secret |-> cli.runs, document |-> cli.runs]
         /\ cli'.answer \in {"failed", "refused"} => cred' = cli.backup
         /\ cli'.answer \in {"killed", "broken"} =>
              /\ cred'.secret \in {cli.backup.secret, cli.runs}
              /\ cred'.document \in {cli.backup.document, cli.runs}
         /\ cli'.answer \in {"done", "failed", "refused"} => Active' = cli.wasActive
<1>1. IInv /\ [Next]_vars => [allOrNothing]_vars
  BY ResetEnds
<1>2. Spec => [][allOrNothing]_vars
  BY <1>1, AlwaysInOrder, PTL DEF Spec
<1> QED BY <1>2 DEF ResetAllOrNothing

(* HealthyIsGuarded: a host that the doctor (buildDoctorPlan() of          *)
(* src/installer/doctor.ts) calls healthy, and that is not broken, runs    *)
(* the guarded service with a document and a secret that belong together;  *)
(* after a setup, or the reset of a running service, it does call the host *)
(* healthy.                                                                *)
THEOREM HealthyHostsAreGuarded == Spec => []HealthyIsGuarded
<1>1. IInv => HealthyIsGuarded
  <2> SUFFICES ASSUME IInv, At("idle"), ~output PROVE HealthyIsGuarded
    BY DEF HealthyIsGuarded
  <2>1. "idle" \notin ResetPlaces \cup SetupPlaces
    BY DEF ResetPlaces, SetupPlaces, Installing, Undoing
  <2>2. ASSUME DoctorHealthy, ~cli.broken PROVE dsh = "guarded" /\ cred.secret = cred.document
    <3>1. record.status = "installed" /\ dsh # "stopped"
      BY <2>2 DEF DoctorHealthy, Active
    <3>2. dsh = "guarded"
      BY <2>2, <3>1, CompleteWhenIdle DEF IInv, Typed
    <3>3. Covering = record
      BY DEF Covering, At
    <3> QED BY <2>1, <2>2, <3>1, <3>2, <3>3 DEF IInv, Resetting, At
  <2>3. ASSUME record.status = "installed", ~cli.broken, Active PROVE DoctorHealthy
    <3>1. /\ \A p \in Managed : Exists(p)
          /\ bundle # "none" /\ edge /\ record.at = "final" /\ record.whole
      BY <2>3, CompleteWhenIdle
    <3>2. bundle \in {"ours", "theirs"}
      BY <3>1 DEF IInv, Typed, ForeignBundle, Covering, At
    <3> QED BY <2>3, <3>1, <3>2 DEF DoctorHealthy, DoctorPaths, Readable
  <2>4. /\ cli.command = "setup" /\ cli.answer = "done" => record.status = "installed"
        /\ cli.command = "reset" => record.status = "installed"
        /\ cli.command = "reset" /\ cli.answer = "done" => Active = cli.wasActive
    BY DEF IInv, Answered, Resetting, At
  <2>5. ASSUME cli.command = "setup", cli.answer = "done", ~cli.broken PROVE Active
    BY <2>4, <2>5, CompleteWhenIdle DEF Active
  <2> QED BY <2>2, <2>3, <2>4, <2>5 DEF HealthyIsGuarded
<1> QED BY <1>1, AlwaysInOrder, PTL

(* No step takes what was on the host before.                              *)
LEMMA ForeignStays ==
  ASSUME Typed, RecordShape, Bootstrapped, RecordAt, SavedAt, Running, ForeignPaths, ForeignBundle, Next
  PROVE  /\ \A p \in Paths :
              disk[p] = "theirs" =>
                \/ disk'[p] = "theirs"
                \/ p = "configDirectory" /\ cli.saved.status = "installing"
         /\ bundle \in {"theirs", "other"} => bundle' = bundle
         /\ guest => guest' \/ cli.command = "uninstall"
<1> USE DEF Moved, Went, Onward, Steady, Over, OverBut, AtIdle, OnPath, OnNext, Began, Others, services, Notes, Puts, Replaces, Resumed
<1>1. Steps
  BY EveryStep
<1>2. Typed' /\ output' = output
  BY TypedStep, SameHost
<1>3. /\ \A p \in Paths : disk[p] = "theirs" => p \in {"configDirectory", "systemdDropInDirectory"}
      /\ \A p \in Covering.created : disk[p] = "theirs" => p = "configDirectory" /\ Covering.status = "installing"
  BY DEF ForeignPaths
<1>4. (cli.at \in UninstallPlaces => Covering = cli.saved) /\ (cli.at \notin UninstallPlaces => Covering = record)
  BY CoveringIs DEF Typed, Commands
<1> HIDE DEF Covering
<1>5. ASSUME NEW roots \in SUBSET cli.aside, Gone(roots), NEW p \in Paths, disk[p] = "theirs", disk'[p] # "theirs"
      PROVE  p = "configDirectory" /\ cli.saved.status = "installing"
  <2>1. PICK root \in roots : p \in Tree(root)
    BY <1>5 DEF Gone, Tree, Within
  <2>2. cli.at \in UninstallPlaces
    BY <2>1 DEF SavedAt
  <2>3. root \in cli.saved.created /\ root \in Paths /\ ~output /\ Covering = cli.saved
    BY <1>4, <2>1, <2>2, ManagedPaths DEF SavedAt, RemovalRoots, Recorded, Running, Tree, Within
  <2>4. CASE p = "configDirectory"
    <3>1. root = "configDirectory"
      BY <2>1, <2>3, <2>4, ConfigOutermost
    <3> QED BY <1>3, <1>5, <2>3, <2>4, <3>1
  <2>5. CASE p = "systemdDropInDirectory"
    <3>1. \A q \in Paths : p \in Tree(q) => q = p
      <4>1. ASSUME NEW q \in Paths, q \in {"configDirectory", "authStateDirectory", "caddyBinaryDirectory", "systemdDropInDirectory"}, p \in Tree(q) PROVE q = p
        BY <2>3, <2>5, <4>1, SystemTrees
      <4>2. ASSUME NEW q \in Paths, q \notin {"configDirectory", "authStateDirectory", "caddyBinaryDirectory", "systemdDropInDirectory"}, p \in Tree(q) PROVE q = p
        BY <2>3, <4>2, SystemTrees
      <4> QED BY <4>1, <4>2
    <3>2. root = p
      BY <2>1, <2>3, <3>1
    <3> QED BY <1>3, <1>5, <2>3, <2>5, <3>2
  <2> QED BY <1>3, <1>5, <2>4, <2>5
<1> DEFINE pathsSurvive ==
             \A p \in Paths :
               disk[p] = "theirs" =>
                 \/ disk'[p] = "theirs"
                 \/ p = "configDirectory" /\ cli.saved.status = "installing"
           bundleSurvives == bundle \in {"theirs", "other"} => bundle' = bundle
           guestSurvives == guest => guest' \/ cli.command = "uninstall"
<1>6. ASSUME NEW p, disk[p] # "theirs", \A q \in Paths \ {p} : disk'[q] = disk[q]
      PROVE  pathsSurvive
  BY <1>6
<1>7. ASSUME NEW roots \in SUBSET cli.aside, Gone(roots) PROVE pathsSurvive /\ guestSurvives
  <2>1. guestSurvives
    <3>1. cli.at \in UninstallPlaces \/ roots = {}
      BY DEF SavedAt
    <3> QED BY <1>7, <3>1 DEF Gone, Running, Tree, Within
  <2>2. pathsSurvive
    BY <1>5, <1>7
  <2> QED BY <2>1, <2>2
<1>8. Covering.package => bundle \notin {"theirs", "other"}
  BY DEF ForeignBundle
<1>9. /\ cli.at \in {"add-package", "undo-package"} => Covering = record
      /\ cli.at = "add-package" => record.package
      /\ cli.at \in {"remove-package", "restore-package"} => Covering = cli.saved /\ ("package" \in cli.tried => cli.saved.package)
  BY <1>4 DEF RecordAt, SavedAt, SetupPlaces, Installing, Undoing, UninstallPlaces, Leaving, Restoring
<1>10. CASE UNCHANGED <<disk, guest, bundle>>
  BY <1>10
<1>11. CASE WriteJournalDoes
  BY <1>2, <1>11 DEF WriteJournalDoes, GivenUp
<1>12. CASE TearJournalDoes
  BY <1>2, <1>12 DEF TearJournalDoes, GivenUp
<1>13. CASE MakeConfigDoes
  <2>1. disk["configDirectory"] = "none" /\ "configDirectory" \in Paths
    BY <1>13, ManagedPaths DEF MakeConfigDoes, RecordAt, Exists
  <2>2. pathsSurvive
    BY <1>13, <2>1 DEF MakeConfigDoes
  <2> QED BY <1>13, <2>2 DEF MakeConfigDoes
<1>14. CASE AddPackageDoes
  <2>1. UNCHANGED <<disk, guest>> /\ cli.at = "add-package"
    BY <1>14 DEF AddPackageDoes
  <2> QED BY <1>8, <1>9, <2>1
<1>15. CASE MakePathDoes
  <2>1. UNCHANGED disk \/ (disk[Path] = "none" /\ \A q \in Paths \ {Path} : disk'[q] = disk[q])
    BY <1>15 DEF MakePathDoes, Exists
  <2>2. pathsSurvive
    BY <2>1
  <2> QED BY <1>15, <2>2 DEF MakePathDoes
<1>16. CASE UndoPackageDoes
  <2>1. UNCHANGED <<disk, guest>> /\ (bundle' = bundle \/ record.package) /\ cli.at = "undo-package"
    BY <1>16 DEF UndoPackageDoes
  <2> QED BY <1>8, <1>9, <2>1
<1>17. CASE RemovePathDoes
  <2>1. PICK i \in 1..cli.i : Order[i] \in record.created /\ \A q \in Paths \ {Order[i]} : disk'[q] = disk[q]
    BY <1>17 DEF RemovePathDoes
  <2>2. Order[i] # "configDirectory" /\ cli.at = "undo-paths"
    <3>1. i \in 1..Len(Order) /\ cli.at = "undo-paths"
      BY <1>17, <2>1, OutputPaths, SystemPaths DEF RemovePathDoes, Typed
    <3> QED BY <3>1, ManagedPaths
  <2>3. Covering = record
    BY <1>4, <2>2 DEF UninstallPlaces, Leaving, Restoring
  <2>4. pathsSurvive
    BY <1>3, <2>1, <2>2, <2>3
  <2> QED BY <1>17, <2>4 DEF RemovePathDoes
<1>18. CASE RemoveConfigDoes
  <2>1. "configDirectory" \in record.created /\ Empty("configDirectory") => disk["configDirectory"] # "theirs"
    BY <1>2, <1>18 DEF RemoveConfigDoes, Empty, Bootstrapped, RecordShape, NoRecord, Typed, Records
  <2>2. pathsSurvive
    BY <1>18, <2>1 DEF RemoveConfigDoes
  <2> QED BY <1>18, <2>2 DEF RemoveConfigDoes
<1>19. CASE UndoRecordDoes
  BY <1>2, <1>19 DEF UndoRecordDoes, GivenUp
<1>20. CASE RemovePackageDoes
  <2>1. UNCHANGED <<disk, guest>> /\ (bundle' = bundle \/ cli.saved.package) /\ cli.at = "remove-package"
    BY <1>20 DEF RemovePackageDoes
  <2> QED BY <1>8, <1>9, <2>1
<1>21. CASE RestoreDoes
  <2>1. bundle' = bundle /\ (UNCHANGED <<disk, guest>> \/ \E roots \in SUBSET cli.aside : Gone(roots))
    BY <1>21 DEF RestoreDoes
  <2> QED BY <1>7, <2>1
<1>22. CASE RestorePackageDoes
  <2>1. UNCHANGED <<disk, guest>> /\ (bundle' = bundle \/ "package" \in cli.tried) /\ cli.at = "restore-package"
    BY <1>22 DEF RestorePackageDoes
  <2> QED BY <1>8, <1>9, <2>1
<1>23. CASE DeleteTreeDoes
  <2>1. bundle' = bundle /\ \E root \in cli.aside : Gone({root})
    BY <1>23 DEF DeleteTreeDoes
  <2> QED BY <1>7, <2>1
<1>24. CASE UninstallCallFailsDoes
  <2>1. bundle' = bundle /\ (UNCHANGED <<disk, guest>> \/ Gone(cli.aside))
    BY <1>24 DEF UninstallCallFailsDoes
  <2> QED BY <1>7, <2>1
<1>25. CASE KillDoes
  <2>1. bundle' = bundle /\ Gone(cli.aside)
    BY <1>25 DEF KillDoes
  <2> QED BY <1>7, <2>1
<1>26. CASE ServiceWritesDoes
  BY <1>2, <1>26 DEF ServiceWritesDoes, Exists
<1>27. CASE OperatorAddsDropIn
  BY <1>2, <1>27 DEF OperatorAddsDropIn
<1>28. CASE RebootDoes
  BY <1>2, <1>28 DEF RebootDoes
<1> QED BY <1>1, <1>10, <1>11, <1>12, <1>13, <1>14, <1>15, <1>16, <1>17, <1>18, <1>19, <1>20, <1>21, <1>22, <1>23, <1>24, <1>25, <1>26, <1>27, <1>28 DEF Steps, PrepareSetupDoes, ReadSecretsDoes, MoveJournalDoes, RecordPackageDoes, RecordPathDoes, TryDoes, ReloadDoes, RestartDoes, EnableDoes, FinishSetupDoes, UndoEnableDoes, UndoReloadDoes, UndoRestartDoes, SetupCallFailsDoes, PrepareUninstallDoes, AuthorizeUninstallDoes, DisableDoes, StageRecordDoes, StagePathDoes, StagedDoes, UnloadDoes, RestoreEdgeDoes, DeletedDoes, PrepareResetDoes, ReadPasswordDoes, StopDoes, ReplaceDocumentDoes, ReplaceSecretDoes, StartDoes, RestoreDocumentDoes, RestoreSecretDoes, RestoreServiceDoes, ResetCallFailsDoes

(* ForeignSurvives: no command takes a directory, a file or a bundle that  *)
(* was on the host before.                                                 *)
THEOREM ForeignIsSafe == Spec => ForeignSurvives
<1> DEFINE survives ==
       /\ \A p \in Paths :
            disk[p] = "theirs" =>
              \/ disk'[p] = "theirs"
              \/ p = "configDirectory" /\ cli.saved.status = "installing"
       /\ bundle \in {"theirs", "other"} => bundle' = bundle
       /\ guest => guest' \/ cli.command = "uninstall"
<1>1. IInv /\ [Next]_vars => [survives]_vars
  BY ForeignStays DEF IInv
<1>2. Spec => [][survives]_vars
  BY <1>1, AlwaysInOrder, PTL DEF Spec
<1> QED BY <1>2 DEF ForeignSurvives

=============================================================================
