------------------------------- MODULE Custody -------------------------------
(***************************************************************************)
(* Who owns a managed file and with which mode: setup, reset-password,     *)
(* upgrade, issue-login-token and the service each write some of them, and *)
(* each, with the doctor, refuses a file that is not as it expects.  There *)
(* is no common table in the code: every writer and reader has its own     *)
(* numbers (src/installer, src/config.ts, src/auth-state.ts).              *)
(*                                                                         *)
(* Of a system installation; a mode is its octal digits read as a number.  *)
(***************************************************************************)
EXTENDS Naturals

Root == "root"
Dsh == "dsh"   \* the user, and the group, of the DSH service

File(mode, owner, group) == [mode |-> mode, owner |-> owner, group |-> group]

Absent == File(0, "nobody", "nobody")

GroupDigit(file) == (file.mode \div 10) % 10
OthersDigit(file) == file.mode % 10

-----------------------------------------------------------------------------
(***************************************************************************)
(* The writers.                                                            *)
(***************************************************************************)
\* createManagedDirectories(), writeManagedConfiguration()
SetupFile(path) ==
  CASE path = "configDirectory" -> File(750, Root, Dsh)
    [] path = "stateFile" -> File(600, Root, Root)
    [] path \in {"caddyBinaryDirectory", "caddyBinary"} -> File(755, Root, Root)
    [] path \in {"authStateDirectory", "loginTokenDirectory"} -> File(700, Dsh, Dsh)
    [] path \in {"sessionSecretFile", "environmentFile"} -> File(640, Root, Dsh)
    [] path = "authStateFile" -> File(600, Dsh, Dsh)
    [] path \in {"caddyfile", "systemdDropInFile", "caddyUnitFile"} -> File(644, Root, Root)
    [] OTHER -> Absent

\* The same of an output directory, which all belongs to the user who runs setup.
OutputMode(path) ==
  CASE path \in {"configDirectory", "caddyBinaryDirectory", "caddyStateDirectory",
                "authStateDirectory", "loginTokenDirectory"} -> 700
    [] path \in {"stateFile", "sessionSecretFile", "environmentFile", "authStateFile"} -> 600
    [] path = "caddyBinary" -> 755
    [] OTHER -> 644

\* replaceCredential(), of a reset and of its rollback
ResetFile(path) ==
  CASE path = "authStateFile" -> File(600, Dsh, Dsh)
    [] path = "sessionSecretFile" -> File(640, Root, Dsh)
    [] OTHER -> Absent

\* Slip: the new file keeps the owner it was made with.
UpgradeFileAsRoot(path) ==
  CASE path = "environmentFile" -> File(640, Root, Root)
    [] path = "caddyBinary" -> File(755, Root, Root)
    [] path = "authStateFile" -> File(600, Dsh, Dsh)
    [] path = "stateFile" -> File(600, Root, Root)
    [] OTHER -> Absent

\* replaceEnvironment(), replaceManagedBinary(), restoreAuthState(), updateState()
UpgradeFile(path) ==
  CASE path = "environmentFile" -> File(640, Root, Dsh)
    [] path = "caddyBinary" -> File(755, Root, Root)
    [] path = "authStateFile" -> File(600, Dsh, Dsh)
    [] path = "stateFile" -> File(600, Root, Root)
    [] OTHER -> Absent

\* issue(), by root for the owner of the directory
IssueFile(path) == IF path = "tokenFile" THEN File(600, Dsh, Dsh) ELSE Absent

\* persistAuthState()
ServiceFile(path) == IF path = "authStateFile" THEN File(600, Dsh, Dsh) ELSE Absent

Files ==
  {"configDirectory", "stateFile", "caddyBinaryDirectory", "caddyBinary", "authStateDirectory",
   "loginTokenDirectory", "sessionSecretFile", "environmentFile", "authStateFile", "caddyfile",
   "systemdDropInFile", "caddyUnitFile", "tokenFile"}

Written(path) ==
  {SetupFile(path), ResetFile(path), UpgradeFile(path), IssueFile(path), ServiceFile(path)} \ {Absent}

-----------------------------------------------------------------------------
(***************************************************************************)
(* The readers.                                                            *)
(***************************************************************************)
\* expectedManagedOwners()
ExpectedOwner(path) ==
  CASE path \in {"configDirectory", "environmentFile", "sessionSecretFile"} -> <<Root, Dsh>>
    [] path \in {"authStateDirectory", "authStateFile", "loginTokenDirectory"} -> <<Dsh, Dsh>>
    [] OTHER -> <<Root, Root>>

\* managedFileDiagnostics(), and verifyInstalledState() when setup is run again
ExpectedMode(path) ==
  CASE path = "configDirectory" -> 750
    [] path \in {"stateFile", "authStateFile"} -> 600
    [] path \in {"environmentFile", "sessionSecretFile"} -> 640
    [] path \in {"caddyfile", "caddyUnitFile", "systemdDropInFile"} -> 644
    [] path \in {"caddyBinary", "caddyBinaryDirectory"} -> 755
    [] OTHER -> 700

Unchecked == 0

\* verifyInstalledState() of an output directory
ExpectedOutputMode(path) ==
  CASE path \in {"configDirectory", "caddyBinaryDirectory", "authStateDirectory",
               "loginTokenDirectory"} -> 700
    [] path \in {"stateFile", "environmentFile", "sessionSecretFile", "authStateFile"} -> 600
    [] path = "caddyfile" -> 644
    [] path = "caddyBinary" -> 755
    [] OTHER -> Unchecked

DoctorAccepts(path, file) ==
  path # "tokenFile" =>
    /\ file.mode = ExpectedMode(path)
    /\ <<file.owner, file.group>> = ExpectedOwner(path)

\* resolveConfig() and loadAuthState(), as the DSH service
PluginAccepts(path, file) ==
  CASE path = "sessionSecretFile" ->
         /\ GroupDigit(file) \div 2 % 2 = 0 /\ OthersDigit(file) = 0
         /\ file.owner = Dsh \/ file.group = Dsh
    [] path = "authStateFile" -> file.mode = 600 /\ file.owner = Dsh
    [] path = "loginTokenDirectory" -> file = File(700, Dsh, Dsh)
    [] path = "tokenFile" -> file = File(600, Dsh, Dsh)
    [] OTHER -> TRUE

\* inspectCredentials() of reset-password; snapshotAuthState() of upgrade
RootAccepts(path, file) ==
  CASE path = "authStateFile" -> file = File(600, Dsh, Dsh)
    [] path = "sessionSecretFile" -> file = File(640, Root, Dsh)
    [] path = "stateFile" ->
         GroupDigit(file) = 0 /\ OthersDigit(file) = 0 /\ file.owner = Root
    [] OTHER -> TRUE

\* requireAuthStateShape(), requireTokenDirectory() of issue-login-token
IssuerAccepts(path, file) ==
  CASE path = "authStateFile" -> file = File(600, Dsh, Dsh)
    [] path = "loginTokenDirectory" -> file = File(700, Dsh, Dsh)
    [] OTHER -> TRUE

=============================================================================
