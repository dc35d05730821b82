---------------------------- MODULE OwnershipRecord ----------------------------
(***************************************************************************)
(* What is in the ownership record, install-state.json: every form in      *)
(* which setup (installer/executor.ts), its rollback, an upgrade and the   *)
(* rollback of that (installer/upgrade.ts) write it, and what a later      *)
(* command demands of it (installer/plan.ts).  Setup and Upgrade say when  *)
(* each is written.                                                        *)
(*                                                                         *)
(* A record is a function of its fields; one that is left out, as JSON     *)
(* leaves out what is undefined, is not in its domain.  A path is its      *)
(* segments.                                                               *)
(***************************************************************************)
EXTENDS Installation, Deployment

\* What follows the slash that a directory may end with.
Nothing == ""

Join(path, name) == Append(IF Last(path) = Nothing THEN Front(path) ELSE path, name)
Dirname(path) == Front(path)

(***************************************************************************)
(* The configuration directory: the output directory as an operator may    *)
(* spell it, and validateAbsolutePath() lets it pass; the first is as the  *)
(* documentation writes it.                                                *)
(***************************************************************************)
DottedSegments == {"a..b"}

Roots ==
  IF output THEN {<<"srv", "auth">>, <<"srv", "auth", Nothing>>, <<"srv", "a..b">>}
  ELSE {<<"etc", "dsh-auth">>}

PlainlySpelled(root) == ToSet(root) \cap (DottedSegments \cup {Nothing}) = {}

\* managedPathsFor()
PathsFor(root) ==
  [p \in Paths \cup {"stateFile"} |->
     IF \/ p = "configDirectory"
        \/ output /\ p \in {"caddyBinaryDirectory", "systemdDropInDirectory"}
       THEN root
     ELSE IF output /\ Parent(p) = "authStateDirectory" THEN Join(Join(root, Parent(p)), p)
     ELSE IF output \/ p \in {"stateFile", "environmentFile", "sessionSecretFile", "caddyfile"}
       THEN Join(root, p)
     ELSE <<"system", p>>]

-----------------------------------------------------------------------------
(***************************************************************************)
(* The writers.                                                            *)
(***************************************************************************)
Calls == {"reload", "restart", "enable"}

Tried(calls) == [dshWasActive |-> TRUE, tried |-> calls]

\* initialInstallState(), executionContext(); texts without a rule are left out.
InitialState(r, root) ==
  [schemaVersion |-> 2, status |-> "installing", fingerprint |-> PersistentRequest(r),
   request |-> PersistentRequest(r), root |-> root, paths |-> PathsFor(root),
   dshService |-> IF output THEN "output" ELSE "service", publicOrigin |-> PublicOrigin(r),
   authStateFile |-> PathsFor(root).authStateFile,
   loginTokenEnabled |-> r.loginToken = "enabled", caddyVersion |-> "caddy",
   profilePackageInstalledByDshAuth |-> FALSE, createdPaths |-> << >>]
  ++ IF output THEN << >> ELSE [activation |-> Tried({})]

\* Slip: where the bundle lies is not recorded.
FactsWithoutPath(origin, version) ==
  [profilePackageOrigin |-> origin, profilePackageSpec |-> "spec",
   profilePackageVersion |-> version, profilePackageBuildIdentity |-> version]

\* profilePackageStateFields()
Facts(origin, version) ==
  [profilePackageOrigin |-> origin, profilePackageSpec |-> "spec",
   profilePackageVersion |-> version, profilePackageBuildIdentity |-> version,
   profilePackagePath |-> "path"]

Updated(state, changes) == changes ++ state
Without(state, field) == [f \in DOMAIN state \ {field} |-> state[f]]

\* createdPaths, each under its name: the reader does not look at their order.
Creating(state, names) ==
  Updated(state, [createdPaths |-> [p \in names |-> state.paths[p]]])
Trying(state, calls) == IF output THEN state ELSE Updated(state, [activation |-> Tried(calls)])

\* installProfilePackage(): an adopted bundle stays external.
Packaged(state, adopts) ==
  CASE output -> state
    [] ~output /\ adopts -> Updated(state, Facts("external", "own"))
    [] OTHER -> Updated(state, [profilePackageInstalledByDshAuth |-> TRUE] ++ Facts("dsh-auth", "own"))

\* The names setup creates: `found` are the directories that are there.
Journaled(found) == {"configDirectory", "stateFile"} \ found
Created(found, n) == Journaled(found) \cup ({Order[i] : i \in 1..n} \ found)

Activation == {{}, {"reload"}, {"reload", "restart"}, Calls}

Installed(r, root, found, adopts) ==
  LET all == Packaged(Creating(InitialState(r, root), Created(found, Len(Order))), adopts)
  IN  Updated(all, [status |-> "installed"])

\* rollbackInstallation(); `left` is what is still there of the first two.
RolledBack(state, left) ==
  Trying(Creating(Updated(state, [profilePackageInstalledByDshAuth |-> FALSE]), left), {})

SetupRecords(r, root, found, adopts) ==
  LET first == Creating(InitialState(r, root), Journaled(found))
      packaged == Packaged(InitialState(r, root), adopts)
      creating == {Creating(packaged, Created(found, n)) : n \in 0..Len(Order)}
      complete == Updated(Installed(r, root, found, adopts), [status |-> "installing"])
      written == {first, Updated(first, [profilePackageInstalledByDshAuth |-> ~output /\ ~adopts])}
                   \cup creating \cup {Trying(complete, calls) : calls \in Activation}
  IN  written \cup {Installed(r, root, found, adopts)}
        \cup {RolledBack(state, {"configDirectory", "stateFile"}) : state \in written}

(***************************************************************************)
(* executeUpgrade(), rollbackUpgrade(): of an installed record, to a build *)
(* of another version.  The facts of the bundle change only at the end.    *)
(***************************************************************************)
UpgradeJournal(phase) ==
  [fromVersion |-> "own", fromSpec |-> "spec", fromBuildIdentity |-> "own",
   targetVersion |-> "target", targetBuildIdentity |-> "target", phase |-> phase]

UpgradePhases == {"bundle", "caddy", "quiescing", "services"}

Upgrading(state, phase) ==
  Updated(state, [status |-> "installing", upgrade |-> UpgradeJournal(phase)])

Upgraded(state) ==
  Without(Updated(state, [status |-> "installed"] ++ Facts(state.profilePackageOrigin, "target")),
          "upgrade")

UpgradeRolledBack(state) ==
  Without(Updated(state, [status |-> "installed", profilePackageVersion |-> state.upgrade.fromVersion,
                          profilePackageSpec |-> state.upgrade.fromSpec,
                          profilePackageBuildIdentity |-> state.upgrade.fromBuildIdentity]),
          "upgrade")

UpgradeRecords(state) ==
  LET upgrading == {Upgrading(state, phase) : phase \in UpgradePhases}
  IN  upgrading \cup {Upgraded(state)} \cup {UpgradeRolledBack(u) : u \in upgrading}

-----------------------------------------------------------------------------
(***************************************************************************)
(* The reader, readInstallState().                                         *)
(***************************************************************************)
PackageFields == DOMAIN Facts("external", "own") \cup {"profilePackagePath"}

HasSupportedProfilePackageGroup(c) ==
  \/ PackageFields \cap DOMAIN c = {}
  \/ PackageFields \subseteq DOMAIN c /\ c.profilePackageOrigin \in {"dsh-auth", "external"}

HasSupportedUpgradeJournal(c) ==
  "upgrade" \in DOMAIN c =>
    /\ DOMAIN UpgradeJournal("bundle") \subseteq DOMAIN c.upgrade
    /\ c.upgrade.phase \in UpgradePhases

HasSupportedIdentity(c) ==
  /\ c.schemaVersion = 2 /\ c.status \in {"installing", "installed"}
  /\ {"fingerprint", "dshService", "publicOrigin", "authStateFile", "loginTokenEnabled",
      "caddyVersion", "profilePackageInstalledByDshAuth"} \subseteq DOMAIN c
  /\ HasSupportedProfilePackageGroup(c) /\ HasSupportedUpgradeJournal(c)

HasSupportedPaths(c) ==
  {"request", "paths", "createdPaths"} \subseteq DOMAIN c /\ Cardinality(DOMAIN c.paths) = 14

HasSupportedActivation(c) == "activation" \in DOMAIN c => c.activation.tried \subseteq Calls

\* validateStatePaths()
SafePaths(c) ==
  /\ \A p \in DOMAIN c.paths : ToSet(c.paths[p]) \cap DottedSegments = {}
  /\ Dirname(c.paths.stateFile) = c.paths.configDirectory

\* validateOwnedPaths(), with the paths that the recorded request gives
OwnsPaths(c) ==
  /\ SafePaths(c) /\ c.paths = PathsFor(c.root)
  /\ IsInjective(c.createdPaths)
  /\ Range(c.createdPaths) \subseteq {c.paths[p] : p \in DOMAIN c.paths}

ReadsRecord(c) ==
  /\ HasSupportedIdentity(c) /\ HasSupportedPaths(c) /\ HasSupportedActivation(c)
  /\ Valid(c.request) /\ OwnsPaths(c)

(***************************************************************************)
(* resolveSetupContext() and verifyInstalledState(), of the same setup run *)
(* again: the record is of the same request, and the environment is the    *)
(* one that request and record give.                                       *)
(***************************************************************************)
SameSettings(c, r) == c.fingerprint = PersistentRequest(r)

RecordedVersion(c) ==
  IF "profilePackageVersion" \in DOMAIN c THEN c.profilePackageVersion ELSE "absent"

Drifted(c, r, environment) == environment # Environment(r, RecordedVersion(c))

=============================================================================
