----------------------------- MODULE Installation -----------------------------
(***************************************************************************)
(* What the installer's commands share: the managed paths, the ownership   *)
(* record, the profile bundle, the two services and the one running        *)
(* command (src/installer/host.ts, plan.ts, cli.ts).  Setup, Uninstall and *)
(* ResetPassword are the commands, Installer composes them.                *)
(*                                                                         *)
(* A path is absent ("none"), made by setup ("ours"), somebody else's      *)
(* ("theirs"), or "left": made here, and no longer in the record.  Modes,  *)
(* owners and contents are left out, except for the generation of the two  *)
(* credential files.                                                       *)
(***************************************************************************)
EXTENDS Integers, Sequences, FiniteSets, FiniteSetsExt, SequencesExt

CONSTANTS
  MaxRuns,    \* bound: commands
  MaxFaults   \* bound: failing host calls and killed commands

ASSUME InstallerBounds == MaxRuns \in Nat /\ MaxFaults \in Nat

VARIABLES
  output,   \* --output-dir: files for a container, no services
  disk,     \* whose each managed path is
  guest,    \* the DSH drop-in directory holds somebody else's file
  record,   \* the ownership record
  bundle,   \* the bundle in the DSH profile: none, ours, theirs or another build
  dsh,      \* the DSH service: stopped, running plain, or guarded by the plugin
  loaded,   \* systemd has read the drop-in
  edge,     \* dsh-auth-caddy.service is enabled and running
  cred,     \* generations of the session secret and the authentication document
  cli       \* the running command

services == <<dsh, loaded, edge>>
vars == <<output, disk, guest, record, bundle, services, cred, cli>>

(***************************************************************************)
(* managedPathsFor(): the paths in the order setup makes them, and where   *)
(* each lies.  The configuration directory comes before all of them.       *)
(***************************************************************************)
SystemOrder ==
  <<"caddyBinaryDirectory", "systemdDropInDirectory", "authStateDirectory",
    "loginTokenDirectory", "caddyBinary", "sessionSecretFile", "authStateFile",
    "environmentFile", "caddyfile", "systemdDropInFile", "caddyUnitFile">>

OutputOrder ==
  <<"caddyStateDirectory", "authStateDirectory", "loginTokenDirectory", "caddyBinary",
    "sessionSecretFile", "authStateFile", "environmentFile", "caddyfile", "caddyUnitFile">>

Order == IF output THEN OutputOrder ELSE SystemOrder

Managed == ToSet(Order) \cup {"configDirectory"}

Directories == {"configDirectory", "caddyBinaryDirectory", "caddyStateDirectory",
                "systemdDropInDirectory", "authStateDirectory", "loginTokenDirectory"}

Paths == Directories \cup
  {"caddyBinary", "sessionSecretFile", "authStateFile", "environmentFile", "caddyfile",
   "systemdDropInFile", "caddyUnitFile"}

Parent(path) ==
  CASE path \in {"loginTokenDirectory", "authStateFile"} -> "authStateDirectory"
    [] path \in {"sessionSecretFile", "environmentFile", "caddyfile"} -> "configDirectory"
    [] path = "caddyBinary" /\ ~output -> "caddyBinaryDirectory"
    [] path = "systemdDropInFile" -> "systemdDropInDirectory"
    [] output /\ path \in {"caddyBinaryDirectory", "caddyStateDirectory", "systemdDropInDirectory",
                          "authStateDirectory", "caddyBinary", "caddyUnitFile"} -> "configDirectory"
    [] OTHER -> "system"

\* Within(path, root): the path is the root, or lies in it.
Within(path, root) ==
  \/ path = root
  \/ Parent(path) = root
  \/ Parent(path) # "system" /\ Parent(Parent(path)) = root

Tree(root) == {p \in Paths : Within(p, root)}

Exists(path) == disk[path] # "none"

\* rmdir: only an empty directory goes.
Empty(path) ==
  /\ \A p \in Tree(path) \ {path} : ~Exists(p)
  /\ path = "configDirectory" => record.at # "final"
  /\ path = "systemdDropInDirectory" => ~guest

(***************************************************************************)
(* The ownership record, beside the configuration directory until there is *)
(* one; `whole` is FALSE of a half-written one, which every command        *)
(* refuses.  `created` leaves out the record itself.                       *)
(***************************************************************************)
NoRecord == [at |-> "none", whole |-> TRUE, status |-> "none", created |-> {},
             package |-> FALSE, tried |-> {}, wasActive |-> FALSE]

Readable == record.at = "final" /\ record.whole

(***************************************************************************)
(* The services.  The drop-in names an environment file: without it a      *)
(* service that has the drop-in does not start.                            *)
(***************************************************************************)
Active == dsh # "stopped"

Booted ==
  CASE loaded /\ ~Exists("environmentFile") -> "stopped"
    [] loaded /\ Exists("environmentFile") /\ bundle # "none" -> "guarded"
    [] OTHER -> "plain"

\* daemon-reload
Reloaded == Exists("systemdDropInFile")

(***************************************************************************)
(* The control flow of a command.                                          *)
(***************************************************************************)
Idle == [command |-> "none", at |-> "idle", i |-> 0, recovering |-> FALSE, recovered |-> FALSE,
         adopt |-> FALSE, wasActive |-> FALSE, tried |-> {}, saved |-> NoRecord, aside |-> {},
         backup |-> cred, runs |-> 0, faults |-> 0,
         answer |-> "none", broken |-> FALSE, lost |-> FALSE]

At(place) == cli.at = place
GoTo(place) == cli' = [cli EXCEPT !.at = place]

\* What is half done is in the record, unless the rollback has passed the record already.
Told == cli.command = "setup" /\ cli.at \notin {"undo-enable", "undo-reload", "undo-restart"}

\* The command is over: what it answers, and whether it has left something that no record tells.
Ending(answer) ==
  [cli EXCEPT !.at = "idle", !.i = 0, !.recovering = FALSE, !.adopt = FALSE, !.tried = {},
              !.saved = NoRecord, !.aside = {}, !.backup = cred, !.answer = answer,
              !.broken = @ \/ (answer \in {"broken", "killed"} /\ ~Told)]

End(answer) == cli' = Ending(answer)

\* A command begins with what it finds.
Begun(command, place) ==
  [cli EXCEPT !.command = command, !.at = place, !.runs = @ + 1, !.answer = "none",
              !.recovered = FALSE, !.wasActive = Active]

MayRun == At("idle") /\ cli.runs < MaxRuns

\* A host call fails: the command goes on elsewhere.
MayFail == cli.faults < MaxFaults
FailTo(place) == MayFail /\ cli' = [cli EXCEPT !.at = place, !.faults = @ + 1]
FailWith(answer) == MayFail /\ cli' = [Ending(answer) EXCEPT !.faults = @ + 1]

=============================================================================
