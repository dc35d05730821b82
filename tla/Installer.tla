------------------------------ MODULE Installer ------------------------------
(***************************************************************************)
(* The installer on one host: setup, reset-password and uninstall, run one *)
(* after the other, each of which may fail at any host call or be killed   *)
(* between two of them, while the DSH service writes its authentication    *)
(* document and an operator adds a drop-in of their own.  Custody and      *)
(* Deployment say what the files are and what is in them.                  *)
(***************************************************************************)
EXTENDS Setup, Uninstall, ResetPassword, Custody, OwnershipRecord, Credentials

(***************************************************************************)
(* A host without dsh-auth: some of the shared directories are there, with *)
(* or without somebody's file, and the profile may have a bundle.          *)
(***************************************************************************)
Init ==
  /\ output \in BOOLEAN
  /\ \E theirs \in SUBSET {"configDirectory", "systemdDropInDirectory"} :
       disk = [p \in Paths |-> IF p \in theirs THEN "theirs" ELSE "none"]
  /\ guest = FALSE
  /\ record = NoRecord
  /\ bundle \in {"none", "theirs", "other"}
  /\ dsh \in {"stopped", "plain"}
  /\ output => bundle = "none" /\ dsh = "stopped" /\ ~Exists("systemdDropInDirectory")
  /\ loaded = FALSE /\ edge = FALSE
  /\ cred = [secret |-> 0, document |-> 0]
  /\ cli = Idle

(***************************************************************************)
(* The command is killed, and nobody puts anything back.  What uninstall   *)
(* has renamed aside is out of reach from then on.                         *)
(***************************************************************************)
Kill ==
  /\ ~At("idle") /\ MayFail
  /\ cli' = [Ending("killed") EXCEPT
               !.faults = @ + 1,
               !.lost = @ \/ (cli.command = "uninstall" /\ record.at = "none")]
  /\ Gone(cli.aside)
  /\ UNCHANGED <<output, record, bundle, services, cred>>

(***************************************************************************)
(* The host goes down between two commands (under one: Kill comes first)   *)
(* and is up again with the files it had.  systemd reads the drop-in if it *)
(* is there, and starts the edge if that is enabled and has a unit, and    *)
(* the DSH service if that is enabled, which nobody here knows.            *)
(* What an unfinished setup has not journaled, its rollback will not undo: *)
(* neither the drop-in that systemd has read before setup told it to, nor  *)
(* the guarded service that it has started with it.                        *)
(***************************************************************************)
Unjournaled ==
  /\ record.status # "installed"
  /\ \/ loaded' /\ "reload" \notin record.tried
     \/ dsh' = "guarded" /\ "restart" \notin record.tried

Reboot ==
  /\ At("idle") /\ ~output
  /\ UNCHANGED <<output, disk, guest, record, bundle, cred>>
  /\ loaded' = Reloaded
  /\ dsh' \in {"stopped", Booted'}
  /\ edge' = (edge /\ Exists("caddyUnitFile"))
  /\ cli' = [cli EXCEPT !.answer = "rebooted", !.broken = @ \/ Unjournaled]

\* persistAuthState() of a running plugin: the directory is enough.
ServiceWrites ==
  /\ dsh = "guarded"
  /\ InPlace("authStateDirectory") /\ ~Exists("authStateFile")
  /\ disk' = [disk EXCEPT !.authStateFile = "left"]
  /\ UNCHANGED <<output, guest, record, bundle, services, cred, cli>>

OperatorAddsDropIn ==
  /\ ~output /\ ~guest /\ InPlace("systemdDropInDirectory")
  /\ guest' = TRUE
  /\ UNCHANGED <<output, disk, record, bundle, services, cred, cli>>

Next ==
  \/ SetupStep
  \/ UninstallStep
  \/ ResetStep
  \/ Kill
  \/ Reboot
  \/ ServiceWrites
  \/ OperatorAddsDropIn

Spec == Init /\ [][Next]_vars

-----------------------------------------------------------------------------
(***************************************************************************)
(* buildDoctorPlan(): what the doctor answers now.  It does not look at    *)
(* what systemd has loaded, nor at what the service runs.                  *)
(***************************************************************************)
DoctorPaths == Managed \ {"caddyStateDirectory", "systemdDropInDirectory"}

\* Slip: the doctor knows only a bundle that setup has brought.
DoctorHealthyOwn ==
  /\ Readable /\ ~output
  /\ record.status = "installed" /\ \A p \in DoctorPaths : Exists(p)
  /\ Active
  /\ bundle = "ours"
  /\ edge

\* Slip: the doctor asks for the edge alone, not for the DSH service.
DoctorHealthyInactive ==
  /\ Readable /\ ~output
  /\ record.status = "installed" /\ \A p \in DoctorPaths : Exists(p)
  /\ bundle \in {"ours", "theirs"}
  /\ edge

DoctorHealthy ==
  /\ Readable /\ ~output
  /\ record.status = "installed" /\ \A p \in DoctorPaths : Exists(p)
  /\ Active
  /\ bundle \in {"ours", "theirs"}
  /\ edge

-----------------------------------------------------------------------------
(***************************************************************************)
(* Properties.  Those about the whole host leave out what is `broken`:     *)
(* since the last setup that was done, something has been left that no     *)
(* record tells of, so that no later command can know of it.  These are a  *)
(* reset or an uninstall that was killed or could not put things back, or  *)
(* an uninstall that has left the guarded service running; a setup that    *)
(* was killed or has failed in the last steps of its rollback, which come  *)
(* after the record; a failed uninstall of an unfinished setup that has    *)
(* reloaded systemd or started the edge; and a reboot that has done more   *)
(* than an unfinished setup had journaled.                                 *)
(***************************************************************************)
(***************************************************************************)
(* docs/installer.md: "An interrupted setup retains an ownership journal": *)
(* whatever setup has made on the host is claimed by the record on disk,   *)
(* wherever a command fails or is killed, so that a later one can undo it. *)
(* Only the uninstall, which renames the record aside before the rest and  *)
(* keeps no journal, loses what it was working on when it is killed.       *)
(***************************************************************************)
Covering == IF cli.command = "uninstall" /\ ~At("idle") THEN cli.saved ELSE record

JournalCoversHost ==
  ~cli.lost =>
    /\ \A p \in Paths : disk[p] = "ours" => p \in Covering.created
    /\ bundle = "ours" => Covering.package
    /\ edge => \/ Covering.status = "installed"
               \/ "enable" \in Covering.tried \cup cli.tried
               \/ cli.broken

(***************************************************************************)
(* "Only recorded files are removed": no command takes a directory, a file *)
(* or a bundle that was on the host before, however runs fail and recover. *)
(* Two things the code does not keep are left out: the uninstall empties a *)
(* drop-in directory it has made, and after a setup that failed it takes   *)
(* the configuration directory whoever made it.                            *)
(***************************************************************************)
ForeignSurvives ==
  [][ /\ \A p \in Paths :
           disk[p] = "theirs" =>
             \/ disk'[p] = "theirs"
             \/ p = "configDirectory" /\ cli.saved.status = "installing"
      /\ bundle \in {"theirs", "other"} => bundle' = bundle
      /\ guest => guest' \/ cli.command = "uninstall"
    ]_vars

(***************************************************************************)
(* executeSetup(): "transactional rollback".  A setup that fails and rolls *)
(* itself back leaves the configuration directory with its record, a       *)
(* drop-in directory with somebody's file, the document that a still       *)
(* running service has written meanwhile, and nothing else; and the        *)
(* service runs unguarded, or not at all, as it did before, also when      *)
(* commands were killed and the host was down before it.  (A run that      *)
(* first recovered an interrupted one takes for "before" what it found     *)
(* then.)  Left out is a host that is broken, above all one that came up   *)
(* between the drop-in and the journal of the reload or of the restart,    *)
(* and one on which an uninstall has lost what it was working on.          *)
(***************************************************************************)
FailedSetupUndone ==
  At("idle") /\ cli.command = "setup" /\ cli.answer = "failed" /\ ~cli.broken /\ ~cli.lost =>
    /\ \A p \in Paths : disk[p] = "ours" => p = "configDirectory"
    /\ \A p \in Paths :
         disk[p] = "left" =>
           \/ p \in {"configDirectory", "authStateDirectory", "authStateFile"}
           \/ p = "systemdDropInDirectory" /\ guest
    /\ bundle # "ours" /\ ~edge /\ ~loaded /\ dsh # "guarded"
    /\ ~cli.recovered => Active = cli.wasActive

(***************************************************************************)
(* An installation that is recorded as complete is complete, also after    *)
(* setups that were interrupted, uninstalls that failed and reboots: every *)
(* managed path, a bundle, systemd's drop-in, the edge, and after a setup  *)
(* the guarded service.  Of a broken host it says nothing: one on which an *)
(* uninstall or a reset was killed, or could not put things back.          *)
(***************************************************************************)
InstalledIsComplete ==
  At("idle") /\ record.status = "installed" /\ ~cli.broken =>
    /\ \A p \in Managed : Exists(p)
    /\ ~output => bundle # "none" /\ loaded /\ edge
    /\ ~output /\ cli.command = "setup" /\ cli.answer = "done" => dsh = "guarded"

(***************************************************************************)
(* "restores both files": a reset that is done has replaced document and   *)
(* secret, one that has failed or was refused leaves both as it found      *)
(* them, and each leaves the service running, or not, as it found it.  One *)
(* that was killed, or could not put things back, may leave a new document *)
(* beside the old secret, or the other way round, but no third of either:  *)
(* the next reset begins with what is there.                               *)
(***************************************************************************)
ResetAllOrNothing ==
  [][ cli.command = "reset" /\ ~At("idle") /\ At("idle")' =>
        /\ cli'.answer = "done" => cred' = [secret |-> cli.runs, document |-> cli.runs]
        /\ cli'.answer \in {"failed", "refused"} => cred' = cli.backup
        /\ cli'.answer \in {"killed", "broken"} =>
             /\ cred'.secret \in {cli.backup.secret, cli.runs}
             /\ cred'.document \in {cli.backup.document, cli.runs}
        /\ cli'.answer \in {"done", "failed", "refused"} => Active' = cli.wasActive
    ]_vars

(***************************************************************************)
(* README.md: "doctor checks ... service state": whatever commands have    *)
(* failed or been killed before, and however often the host was down, a    *)
(* host that it calls healthy runs the guarded service, whose document and *)
(* secret belong together.  Only on a broken host may the doctor be wrong, *)
(* as after a reset that was killed between the two: it looks neither at   *)
(* what systemd has loaded, nor at what the service runs, nor into the     *)
(* files.  After a setup, or a reset of a running service, it does call    *)
(* the host healthy.                                                       *)
(***************************************************************************)
HealthyIsGuarded ==
  At("idle") /\ ~output =>
    /\ DoctorHealthy /\ ~cli.broken => dsh = "guarded" /\ cred.secret = cred.document
    /\ cli.answer = "done" /\ ~cli.broken =>
         /\ cli.command = "setup" => DoctorHealthy
         /\ cli.command = "reset" /\ cli.wasActive => DoctorHealthy

(***************************************************************************)
(* The next four are about what the commands write from their inputs: they *)
(* read nothing but `output`, which no step changes, and are stated of the *)
(* step with which a host gets its first setup.                            *)
(***************************************************************************)
FirstSetup == cli.runs = 0 /\ cli'.command = "setup"

(***************************************************************************)
(* A request that setup has accepted lasts: spelled out as a command line  *)
(* it is the same request, later commands accept it from the record and    *)
(* render the same environment, edge and origin from it, and the           *)
(* administrator has a first way to sign in.  With that environment the    *)
(* build of setup activates, and on a system no other; a plugin that       *)
(* activates whatever an operator adds to it can keep sessions and limits; *)
(* and nothing wakes a plugin whose service has no drop-in.                *)
(***************************************************************************)
\* profilePackageVersion, which is recorded on a system only
Marker == IF output THEN "absent" ELSE "own"

RequestsLast ==
  LET accepted == {r \in Requests : r.outputDirectory = output}
  IN  /\ \A r \in accepted :
           LET recorded == ReadBack(r)
               environment == Environment(recorded, Marker)
           IN  /\ Accepted(r) /\ WithDefaults(r) = r
               /\ Valid(recorded)
               /\ environment = Environment(r, Marker)
               /\ PublicOrigin(recorded) = PublicOrigin(r)
               /\ HasAdministrator(r) \/ environment.loginTokenEnabled
               /\ Activates(Row(environment, NothingAdded), "own")
      /\ \A environment \in {Environment(r, Marker) : r \in accepted}, added \in Additions :
           /\ Activates(Row(environment, added), "own") => Usable(Row(environment, added))
           /\ Activates(Row(environment, added), "another") => output
           /\ Dormant(Row(NoEnvironment, added))

(* RequestsLast: no reader takes what setup has accepted for anything else. *)
AcceptedRequestLasts == [][FirstSetup => RequestsLast]_vars

(***************************************************************************)
(* Whatever URL issue-login-token prints for a system, the page it opens   *)
(* can sign in: the edge serves that origin, the plugin takes the form for *)
(* one of its own pages and the browser keeps the cookie, whatever         *)
(* forwarded headers the browser sends along; and the attempt counts for   *)
(* the browser's own address.  With tokens enabled some URL can be issued. *)
(* What the page then asks for is admitted, what another site's page wants *)
(* changed is not.                                                         *)
(***************************************************************************)
UrlsSignIn ==
  \A r \in Requests :
    r.outputDirectory = output /\ ~output /\ r.loginToken = "enabled" =>
      /\ \E given \in Origins \cup {NoOrigin} : Issues(r, given)
      /\ \A given \in Origins \cup {NoOrigin}, headers \in Headers :
           Issues(r, given) =>
             LET page == IssuedOrigin(r, given)
                 arriving == Arriving(r, page, headers)
                 forwarded == Forwarded(r, arriving)
             IN  /\ Admits(r, page, arriving)
                 /\ SeenOrigin(forwarded) = page
                 /\ ClientAddress(forwarded) = "browser"
                 /\ Environment(r, Marker).secureCookies = (page.scheme = "https")
                 /\ SameOrigin(forwarded, page)
                 /\ \A request \in PageRequests(page, {"same-origin"}) :
                      ProtectedOriginAllowed(forwarded, request)
                 /\ \A other \in (Origins \cup {NoOrigin}) \ {page} :
                      \A request \in PageRequests(other, {"same-site", "cross-site"}) :
                        ProtectedOriginAllowed(forwarded, request)
                          => ~request.changes /\ ~request.upgrade

(* UrlsSignIn: no URL issued on the host of a setup leads to a page that cannot sign in. *)
IssuedUrlSignsIn == [][FirstSetup => UrlsSignIn]_vars

(***************************************************************************)
(* Whoever sets a username and a password on the command line, or in a     *)
(* form, can sign in with them: the document that holds them loads, the    *)
(* login form's field holds the username, the login takes both, the change *)
(* form takes the password for the current one, and no form with them is   *)
(* too large.  Left out is what the code does not keep: a username typed   *)
(* with decomposed accents, a password file with control characters or     *)
(* inner lines, and a return target that parsing as a URL makes longer.    *)
(***************************************************************************)
Serves(stored, username, password) ==
  /\ Loads(stored)
  /\ Typeable(password) /\ username.composed =>
       /\ LoginFieldHolds(username) /\ SignsIn(stored, username, password)
       /\ FromChangeForm(stored, password, password, password) = {stored}
       /\ \A target \in ReturnTargets : target.sort = "plain" =>
            /\ FormAccepted(target, <<username, password, password>>)
            /\ FormAccepted(target, <<password, password, password>>)

CredentialsServe ==
  \A choice \in Choosing :
    LET username == choice[1]
        password == choice[2]
    IN  /\ \A stored \in FromSetupForm(username, password, password) :
             Serves(stored, username, password)
        /\ \A source \in {"interactive", "file", "stdin"}, end \in LineEnds :
             /\ \A stored \in FromSetup(source, username, password, end) :
                  Serves(stored, UsernameRead(source, username),
                         IF source = "interactive" THEN ReadHidden(password) ELSE password)
             /\ ~output =>
                  \A before \in FromSetupForm(username, Text(20, 1), Text(20, 1)) :
                    \A stored \in FromReset(source, before, password, end) :
                      Serves(stored, username,
                             IF source = "interactive" THEN ReadHidden(password) ELSE password)

(* CredentialsServe: no credential that a host is given can later not sign in. *)
CredentialsSignIn == [][FirstSetup => CredentialsServe]_vars

(***************************************************************************)
(* A managed file is accepted by everyone who checks it whoever wrote it   *)
(* last: a reset, an upgrade, its rollback, the service itself or a newly  *)
(* issued token makes no file that the doctor, the plugin at its next      *)
(* start, or the next command refuses.  The same goes for what is in the   *)
(* ownership record, at every step of a setup or an upgrade and of their   *)
(* rollbacks; and after each of them the same setup finds its settings and *)
(* no drift.  (Of an output directory that is spelled oddly the code       *)
(* writes a record that it does not read.)                                 *)
(***************************************************************************)
AcceptsRecords(r, root, found, adopts) ==
  LET installed == Installed(r, root, found, adopts)
  IN  /\ \A c \in SetupRecords(r, root, found, adopts) : ReadsRecord(c) /\ SameSettings(c, r)
      /\ ~Drifted(installed, r, Environment(r, Marker))
      /\ ~output =>
           /\ \A c \in UpgradeRecords(installed) : ReadsRecord(c) /\ SameSettings(c, r)
           /\ ~Drifted(Upgraded(installed), r, Environment(installed.request, "target"))
           /\ \A phase \in UpgradePhases :
                LET upgrading == Upgrading(installed, phase)
                IN  ~Drifted(UpgradeRolledBack(upgrading), r,
                             Environment(upgrading.request, upgrading.upgrade.fromVersion))

ReadersAccept ==
  LET accepted == {r \in Requests : r.outputDirectory = output}
  IN  /\ ~output =>
           \A path \in Files : \A file \in Written(path) :
             /\ DoctorAccepts(path, file)
             /\ PluginAccepts(path, file)
             /\ RootAccepts(path, file)
             /\ IssuerAccepts(path, file)
      /\ output =>
           \A path \in Files : ExpectedOutputMode(path) \in {OutputMode(path), Unchecked}
      /\ \A r \in accepted, root \in {spelled \in Roots : PlainlySpelled(spelled)},
            adopts \in BOOLEAN, found \in SUBSET {"configDirectory", "systemdDropInDirectory"} :
            AcceptsRecords(r, root, found, adopts)

(* ReadersAccept: no command leaves a file or record that another one refuses. *)
EveryReaderAccepts == [][FirstSetup => ReadersAccept]_vars

=============================================================================
