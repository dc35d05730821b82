# dsh-auth in TLA+

dsh-auth is a single-administrator authentication plugin for the DeepSeek Harness
web server, with a command-line installer.  One Node.js process serves the login
pages and the forward-auth endpoint and keeps the administrator and the sessions
in a JSON document.  Beside it run short-lived CLI processes that issue one-time
login tokens, reset the password, or install, upgrade and remove the service.
This directory models the state of that system, checks the models with TLC on
small instances, and proves most of their safety properties for all instances.

## The parts of the system

**Session and administrator store** (`session.ts`, `auth-state.ts`, `crypto.ts`).
State: a Map of sessions (method, identity, created, last seen, expiry) in
insertion order, the administrator record, and the document on disk with the
identifier of the session secret.  Operations: the constructor (load, drop expired
sessions and those of another secret, cut down to the capacity), `create`,
`authenticate` (touch or renew), `revoke`, `initializeAdministrator`,
`updateAdministratorPassword`.  Each change goes through `mutate`: change the
memory, write the document, restore the memory if the write throws.  Hard:
writes that fail before or after replacing the file, crashes between write and
answer, restarts under another configuration, a host clock that steps back.
Correct if: memory and document agree, what a caller was told is final, every
document written is accepted by the next start, no session outlives its secret,
a logout or a password change, and the capacity holds.

**Authentication state file** (`persistAuthState` in `auth-state.ts`).  State: the
directory of the document, with a temporary file and a backup link while a write
goes on.  Hard: each of about ten system calls may fail, and the undo after it too;
the process may die, or the host lose power, between any two.  Correct if a write is
atomic: old or new document, whole, durable when the call returns, and a write
that reports a plain error never shows up later.

**Login token store** (`login-token-store.ts`, the token handlers of
`application.ts`).  State: a directory of one file per token, a lock file, nothing
in memory.  CLI processes issue tokens under the lock (create exclusively, inspect,
reclaim from a dead process, give up after ten seconds); the server claims one by
renaming its file, creates a session and removes the claim.  All of them delete
expired files on the way.  Hard: every directory access of every process
interleaves with the others, and any of them may die.  Correct if a token buys one
session at most, no live token is lost, the capacity holds, and nobody waits for a
dead process.

**Login limiter** (`limiter.ts`).  State: per client address the times of recent
attempts and the end of a block, in a map of bounded size that lives in the process.
Operations: `consume`, `reset`, pruning of all keys on every call.  Correct if the
attempts in any window are bounded and a denial is worth what it announces.

**HTTP application** (`application.ts`, `admin-password.ts`, `password.ts`).  Its
handlers call the parts above.  The server is one thread, so the store's operations
are atomic towards each other, but login, first-time setup, password change and the
external callback await in the middle (Argon2, the provider) and other handlers run
meanwhile.  Correct if what was checked before the await still carries the effect
after it.  Every page with a form carries a CSRF token and sets a cookie that all tabs
of the browser share.

**External login** (`externalLogin()`, `externalCallback()`, `external-identity.ts`).
State: a table of pending states in the process, a state cookie in the browser, and the
callbacks that wait for the provider.  Correct if a state is exchanged once, for the
browser it was given to, and what comes out of it can be served.

**Gateway identity** (`gateway-identity.ts`).  State: the replay cache, pruned by age.
Correct if no assertion is accepted twice although cache and timestamp are measured in
different units.

**Diagnostic log** (`logging.ts`).  State: the start of a window, the events written and
kept back in it.  Correct if no event gets lost uncounted and a clock that steps back does
not silence the log.

**Native bridge** (`native-auth.ts`).  State: the methods of the host's connection, which
other plugins wrap as well.  Correct if installing and disposing in any order takes nobody
else's wrapper off.

**Configuration, edge and credentials** (`config.ts`, `http.ts`, `cordis.patch.yml`,
`deploy/caddy`, `installer/validation.ts`, `config-files.ts`, `issue-login-token.ts`).  No
state, but a chain of functions written in different places: the command line of `setup`
becomes a request, the request a record, an environment and an edge configuration, the
environment a row of the host, the row the plugin's configuration; a browser's request
passes the edge and arrives with forwarded headers.  Correct if the two ends fit.

**Installer** (`installer/*.ts`, `cli.ts`).  State: the managed files, an ownership record
that is the journal of whatever is going on, a bundle in the profile, two services.
`setup` (plan, write owned files, start services, roll back on error), `upgrade` (journal
with the phases bundle, caddy, quiescing and services; an interrupted upgrade is rolled
back by the next run), `reset-password` and `uninstall`.  Hard: crashes between any two
steps, and what a later command makes of what they leave.

**The rest**: pages and bootstrap scripts, the registration of routes (`index.ts`), the
client bundle, build and release scripts.

How they interact: the HTTP application calls limiter, session store and token
store in the server process; the CLI shares with the server only the token
directory and, for reset and upgrade, the document of the session store.

## Modules

| Module | Models | State and actions |
|---|---|---|
| `SessionStore` | `session.ts`, the loading half of `auth-state.ts` | `mem` and `disk` are the Map with the administrator and the document; `Start`, `Create`, `Authenticate…`, `Revoke`, `InitializeAdministrator`, `UpdateAdministratorPassword` are the methods, `Mutate` is `mutate()` with its four outcomes; `Stop` and the last outcome of `Mutate` are crashes |
| `AuthStateFile` | `persistAuthState()` | one action per system call, on a directory (`dir`) and the set of directories a power loss may leave (`durable`) |
| `AtomicDocument` | the promise of `persistAuthState()` | abstract specification that `AuthStateFile` implements |
| `LoginTokenStore` | `login-token-store.ts`, `token()` in `application.ts` | one action per directory access of each issuer and of the server; `files`, `lock` are the directory, `issuer[i].at` and `server.at` the program counters |
| `LoginLimiter` | `limiter.ts` | operators on the map of buckets |
| `ServerClock` | `Date.now` of the request handlers | the clock the next four share; it does not step back |
| `LimiterClients` | requests against one limiter | `Consume`, `Reset`, `LimiterLost` (a restart), and the history the properties need |
| `ExternalLogin` | `externalLogin()`, `externalCallback()`, the checks of `external-identity.ts` | `table`, `cookie` and `exchanging` (callbacks at their await); `StartLogin`, `CallbackAccepted`/`Refused`, and the three ends of an exchange.  Spends the limiter's budget |
| `GatewayIdentity` | `resolveGatewayIdentity()` in `verify()` | `replayCache` in milliseconds against stamps in seconds; `VerifyAssertion` |
| `FormTabs` | `issueCsrf()`, `csrfFailureReason()` and every GET and POST that calls them | `csrf` is the cookie of the browser, `form[t]` what tab `t` shows; one action per page and per outcome of a form |
| `DiagnosticLog` | `createAuthEventLogger()` | `windowStart`, `spent`, `suppressed`; `Diagnostic`, `Informational`, and a clock that steps both ways |
| `NativeBridge` | `installNativeAuthBridge()` and its effect | `method[m]` is the chain of wrappers of a host method; `Install`, `Dispose`, and other plugins that `Wrap` and `Unwrap` |
| `Gate` | the six before it in one process | each behaviour exercises one of them (`focus`), login at a provider with the limiter it spends; all but the log and the bridge share the clock |
| `AuthFlow` | `login()`, `adminSetupPost()`, `passwordChangePost()`, `logout()` | composes `SessionStore` and `LoginLimiter`: `request[r].at` says at which await a handler is; what other handlers do in one step is `Meanwhile` |
| `Upgrade` | `upgrade.ts`, the health check in `doctor.ts` | one action per host call: `cli.at` is the program counter of a run, `record.journal` the journal; `bundle`, `binary`, `staged`, `env` the files, `dsh` and `edge` the services, `doc` and `backup` the authentication document and its snapshot; `CompareVersions` orders the builds |
| `Installation` | `host.ts`, the paths of `plan.ts` | what the commands share: `disk` says whose each managed path is, `record` the ownership record, `bundle`, the services (`dsh`, `loaded`, `edge`), `cred` the generations of secret and document, `cli.at` the program counter of the running command |
| `Setup` | `prepareSetup()`, `executeSetup()`, `rollbackInstallation()` | one action per host call, each of which may fail (`SetupCallFails`), and a torn first write of the record |
| `ResetPassword` | `resetManagedPassword()` | one action per host call, and the rollback |
| `Uninstall` | `uninstall.ts` | renaming aside, removal of bundle and edge, restoration, deletion |
| `Custody` | writers and readers of the managed files in six files | owner and mode each writer gives, owner and mode each reader demands |
| `OwnershipRecord` | every write of `install-state.json`, `readInstallState()`, the comparison of a rerun setup | the record as a function of its fields, the records of setup, upgrade and their rollbacks, the reader's conditions |
| `Configuration` | `resolveConfig()`, `cordis.patch.yml` | which rows activate, with defaults and bounds |
| `Deployment` | `cli.ts`, `validation.ts`, `config-files.ts`, the Caddyfile template, `issue-login-token.ts`, `http.ts` | command line → request → record, environment, edge, origin; what the plugin sees of a browser |
| `Credentials` | `password.ts`, `admin-password.ts`, password input of `cli.ts`, `html.ts`, `http.ts` | a username and a password from the place they are chosen to the login form |
| `Installer` | the host | composes the last nine with kills (`Kill`), reboots between commands (`Reboot`), a service that writes its document and an operator who adds a drop-in; all properties of the installer but the upgrade's |
| `Records` | – | `f ++ g`, a record made of parts, for `Configuration`, `Credentials` and `OwnershipRecord`, which build theirs with it |
| `SessionStoreProofs` | – | theorems about `SessionStore` |
| `LoginTokenStoreProofs`, `AuthStateFileProofs` | – | theorems about `LoginTokenStore`, and about `AuthStateFile` with its refinement of `AtomicDocument` |
| `GateProofs` | – | theorems about the six parts of `Gate`, as invariants of the whole process |
| `AuthFlowProofs` | – | theorems about `AuthFlow`, on top of the invariant of `SessionStoreProofs` |
| `UpgradeProofs`, `InstallerProofs` | – | theorems about `Upgrade` and `Installer` |
| `DeploymentProofs` | – | theorems about what setup makes of a request: `Deployment`, `Configuration`, `Credentials`, `Custody` and `OwnershipRecord` |
| `MC…` | – | configurations, symmetry and other values for TLC |

An operator under a comment that begins with *Slip* is a plausible mistake in the
definition that follows it (a dropped guard, a missing reset, an off-by-one).  It is
never used by the specification.  Substituted for that definition it breaks the
property paired with it in `PROJECT.json` ("mutants"), which shows that the property
looks at the code it claims to look at.

### Abstractions

- A session token is random in the code.  Here tokens are numbered in the order of
  issue, which is the insertion order of the Map and decides evictions.
- In `SessionStore` the write of the document is one step that succeeds, throws with
  nothing changed, throws although the new document is in place (the undo failed),
  or is cut off by a crash with either document left.  `AuthStateFile` is the
  justification: it shows that the system calls have these outcomes and no other
  (`Saved`, `Restored`, `Unknown` and `Crash` of `AtomicDocument`, whose `maybe` says
  what a power loss may still reveal).  The Windows path, which does not sync directories, is
  not modelled.
- Loading is a predicate, `Loadable`, on the fields that can vary; JSON syntax and
  the sizes of strings are left out.
- A session carries `key`, the secret its cookie was signed with: the signature
  check is equality with the current secret.  A password and its hash are one value.
- Files of the token directory have a name and a kind; who may read them is in
  `Custody`.  An issuer process issues at most one token.
- The clocks of `SessionStore` and `DiagnosticLog` step in both directions, as
  `Date.now()` may.  In `LoginTokenStore` and on the `ServerClock` time only advances.
- In `Upgrade` a build stands for package spec and identity together, with its version,
  and the document is the list of builds that changed it.  Replacing a file by rename is
  one step; a call that fails after its effect is the effect followed by a failure of the
  next call.
- In `Installation` a managed path is absent, made by setup, somebody else's, or left
  behind by a rollback.  What is *in* the record and the files is in `OwnershipRecord`,
  `Custody`, `Deployment` and `Credentials`, which are functions without state: `Setup`
  says when each form of the record is written.  A host call that fails either has had no
  effect or, for the services, any of the effects a service manager can leave.
- In `Deployment` a host is a loopback, private or public address or a name, a port the
  default of its scheme or another; a text in `Credentials` is its length, its width in
  UTF-8 and whether it has edges, control characters, line ends or decomposed accents.
- `FormTabs`: a CSRF token is its number; a signature is valid while the secret is the one
  it was made under.  `GatewayIdentity`: safe mode, where the encrypted identity is required.
- In `ExternalLogin` a profile is one field at a time absent, good, or bad in one way.
- `AuthFlow` sees one client address, so that requests meet in one bucket.

## What is checked

Bounds are constants named in each module and set in the `.cfg` files.

**session_restarting** – `SessionStore` with three configurations: the normal one,
one with a shorter lifetime and a capacity of one, one with another secret.  Two
names, three tokens, a clock of 0..4 with a lifetime of 3, idle time 2 and renewal
interval 2: enough to touch, renew, idle out, expire, evict and restart under every
change of configuration, from a document with or without an administrator.
Checked: `TypeOK`, `DocumentLoadable`, `MemoryMatchesDocument`,
`SessionsUnderCurrentSecret`, `WithinLargestCapacity`, `OnlyTheCallerSurvives`,
`RevocationIsForever`, `AdministratorNamedOnce`, `RestartKeepsLiveSessions`.  With
one token more, or a clock that runs longer, no new kind of step appears; the
theorems below remove the bounds.

**file_atomic** – `AuthStateFile`, three writes in a row (the first may find no
document), a failure of any system call at any place, and a crash of the process or
a power loss anywhere.  `AtomicWrites` is the refinement of `AtomicDocument`, in
which a name that reached the disk before its content is no version of the document;
`NoLeftovers` says that a call that returns or reports a plain error leaves no temporary
file.

**token_crashing** – two issuers, one of which may die anywhere, a server that may
restart, capacity one, one directory access at a time: `RedeemedAtMostOnce`,
`OnlySpentOrExpiredVanish`, `CapacityRespected`, `LockExcludes`, and `WaitingEnds`: an
issuer that waits for the lock gets it or gives up, unless the dead process left a lock
without a payload.  Two issuers are not a bound for convenience: with a third one the
capacity fails (token_reclaim).

**gate_parts** – `Gate`: limiter, external login, gateway, forms, log and bridge, each over
all its interleavings, with restarts.  Two units to the second let blocks and windows end
within one.
- Limiter: two keys for one bucket, a window of two, a block of three, two attempts.
  `WindowRespected` bounds the attempts of any window; `DenialsHold` says that a blocked
  client stays denied for the whole announced time, whatever is pruned meanwhile, and not
  by its own bucket longer if the block is at least as long as the window.
- External login: two browsers of one address, three logins for a table of two.
  `StateServesItsLoginOnce`: one exchange per state, and a session only in the browser that
  began that login.  `SignedInIsServed`: a profile accepted at sign-in is one `/auth/verify`
  can send on.
- Gateway: two timestamps, one sequence number, an age limit of one second, so that an
  assertion arrives before, in and after its second.  `AssertionOnce` is about assertions
  that arrive in a later second than their own; one that arrives earlier outlives its cache
  entry by up to a second (see below).
- Forms: two tabs, four tokens.  `TabsShareTheLogin`: opening the login page, or being
  refused there, invalidates no form of another tab, and a stale form gets one that works.
- Log: windows of two, budget two, four events.  `DiagnosticsAccounted`.
- Bridge: two bridges, one other plugin.  `OthersStayWrapped`.

**flow_two** – two requests of any kind (login, setup, change) awaiting at once, with
redemptions, logouts, page views, failed writes, crashes and restarts between:
`AdministratorChangedByItsSession`, `ChangeSignsOthersOut`.  Two
requests are enough for every pair of handlers to overlap at every pair of awaits.

**upgrade_recovering** – three upgrade runs between four builds, whose versions differ in
a pre-release or a number of two digits, the last of which brings another Caddy; any host call may fail, forward or in a rollback, the CLI may be
killed at any step, the service writes its document meanwhile and the host may reboot
once.  `JournalCoversChanges` is what makes an interrupted upgrade recoverable;
`NoBuildReadsNewerDocument` and `ServicesRunTheRecord` hold as long as the host stays up
and nobody else restarts DSH (after a reboot in the middle of an upgrade the service may stay
refused until the next restart); `RollbackKeepsChanges` is about the run that fails, not about a later one: a
recovery restores a snapshot that is older than what the recorded build has written
since an unfinished rollback restarted it, and those sessions are lost.  Three runs
allow an upgrade, the interruption of the next and its recovery.  The doctor compares
the record with the Caddy of the CLI's own build, so a run that starts healthy never
brings another Caddy; one that starts with a recovery may.

**installer_lifecycle** – `Installer`: three commands, any of setup, reset-password and
uninstall, on every host that setup may find (some directories there already, a bundle of
this or another build, a running service), as a system installation or into an output
directory; two of their host calls fail, or commands are killed, at any step, and the host
may reboot between any two commands (1,834,547 states).  A killed command and a host that
goes down are two steps: `Kill` leaves the services as they are, `Reboot`, after it or
without it, has systemd read the drop-in, start the edge if it is enabled, and DSH or not,
since nobody here knows whether that is enabled.  Three
commands are a first one, one that fails or is killed, and one that finds what it left;
reboots need no bound.
- `JournalCoversHost`: what setup made is claimed by the record, wherever it was stopped.
- `ForeignSurvives`: nothing that was there before is taken.
- `FailedSetupUndone`, `InstalledIsComplete`: a setup that fails leaves what it found, one
  that is recorded as complete is complete.
- `ResetAllOrNothing`: a reset that is done has replaced secret and document, one that failed
  or was refused leaves both as it found them, and each leaves the service running, or not, as
  it was.  One that was killed between the two, or could not put them back, may leave one new
  and one old, which the code does not repair either; but no third of either.
- `HealthyIsGuarded`: a host the doctor calls healthy runs the guarded service, with a
  document and a secret that belong together, unless the host is broken; and after a setup, or
  a reset of a running service, the doctor does call it so.

Three of these leave out a host that is *broken* (`cli.broken`): since the last setup that was
done, something has been left that no record tells of, so that no later command can know of
it.  A host breaks by a reset or an uninstall that was killed or could not put things back, an
uninstall that has left the guarded service running, a setup that was killed or failed in the
last steps of its rollback, which come after the record, a failed uninstall of an unfinished
setup that has reloaded systemd or started the edge, and a reboot that has done more than an
unfinished setup had journaled.  `JournalCoversHost` leaves out the edge of such a host.  It
and `FailedSetupUndone` also leave out what is *lost* (`cli.lost`): an uninstall was killed
after it had renamed the record aside.  What of this contradicts a document of the repository is
under "Noted while modelling".

Four properties of the same run are about functions, not states.  They read nothing but
`output`, which tells a system from an output directory, and are stated of the step with
which a host gets its first setup (`FirstSetup`):
- `AcceptedRequestLasts` over every transport with two kinds of administrator, every
  administrator with one transport, and every interactive dialogue: what setup accepts,
  later commands and the plugin accept too, with whatever an operator adds to the
  environment.
- `IssuedUrlSignsIn`: a URL that `issue-login-token` prints can sign in through the edge,
  whatever forwarded headers a browser sends.
- `CredentialsSignIn`: a username and password that setup, reset or a form accepts can be
  used in the login form.
- `EveryReaderAccepts`: every file is accepted by everyone who checks it whoever wrote it
  last, and every form of the ownership record is read by the next command and found
  without drift.

The deadlock check is off where the system may stop: all issuers finished at the
last clock reading, all requests served, all commands used.

Each part of `Gate` uses the same bounds on time: 8 units are four windows of the limiter
or eight lives of a state over two.

### Disagreements found

Each of these runs checks one property and TLC finds it violated.

| Run | What the code does |
|---|---|
| session_capacity | `prune(now()) \|\| enforceCapacity()` in the constructor skips the capacity when pruning removed a session, so a store restarted with a lower `maxSessions` holds too many |
| session_identity | `create` stores an identity with a blank field that the loader refuses: the plugin does not start on its own document |
| token_reclaim | two issuers that reclaim the lock of a dead one can both enter and publish past the capacity: the lock is compared twice and then removed by name |
| flow_stale | a login that verifies the old password while a password change commits creates its session after the change has signed everybody else out |
| upgrade_reboot | a host that reboots after the new environment marker and before the snapshot starts the target build; the rollback of that phase restores no document, so the recorded build continues with the newer one's |

### Fairness

Only `WaitingEnds` needs any.  `FairSpec` asks for weak fairness of the next step of
every live issuer process: the operating system schedules it, and its steps are
synchronous file accesses that return.  Starting a process, its ten-second deadline,
crashes, the server's requests and the clock are not fair: progress does not rest
on them.

## What is proved

Each theorem holds for every value of the constants that the named assumptions allow: any
number of sessions, processes, builds, commands, faults and clock readings, where the runs
above take two or three.

| Module | Theorem | Property |
|---|---|---|
| `SessionStoreProofs` | `Invariance` | the inductive invariant that the rest follows from |
| | `TypeCorrect` | `TypeOK` |
| | `DocumentFollowsMemory` | `MemoryMatchesDocument` |
| | `RotationRevokes` | `SessionsUnderCurrentSecret` |
| | `ChangeLeavesTheCaller` | `OnlyTheCallerSurvives` |
| | `LogoutLasts` | `RevocationIsForever` |
| | `NamedOnce` | `AdministratorNamedOnce` |
| | `CapacityBounded` | `WithinLargestCapacity` |
| | `RestartDropsNothingLive` | `RestartKeepsLiveSessions` |
| | `AlwaysLoadable` | `DocumentLoadable`, if no identity has a blank field |
| `AuthStateFileProofs` | `LeavesNothingBehind` | `NoLeftovers` |
| | `WritesAreAtomic` | `AtomicWrites`: the refinement of `AtomicDocument` |
| `LoginTokenStoreProofs` | `RedeemedOnce` | `RedeemedAtMostOnce` |
| | `LiveTokensStay` | `OnlySpentOrExpiredVanish` |
| | `LockExcludesUnlessUnlinked` | `LockExcludes`, if `HeldLocksStay` |
| | `CapacityUnlessUnlinked` | `CapacityRespected`, if `HeldLocksStay` |
| | `LockExcludesFewHands`, `CapacityFewHands` | the same two, if `FewHands` |
| `AuthFlowProofs` | `ChangedByItsSession` | `AdministratorChangedByItsSession` |
| | `OthersAreSignedOut` | `ChangeSignsOthersOut` |
| `GateProofs` | `WindowIsRespected` | `WindowRespected` |
| | `DenialsAreHonoured` | `DenialsHold` |
| | `StatesServeTheirLogin` | `StateServesItsLoginOnce` |
| | `SignedInServed` | `SignedInIsServed` |
| | `AssertionsAreOnce` | `AssertionOnce` |
| | `TabsShare` | `TabsShareTheLogin` |
| | `GateLogAccounted` | `DiagnosticsAccounted` |
| | `WrappersStay` | `OthersStayWrapped` |
| `UpgradeProofs` | `JournalCovers` | `JournalCoversChanges` |
| | `ServicesFollowTheRecord` | `ServicesRunTheRecord` |
| | `OlderBuildsReadOlderDocuments` | `NoBuildReadsNewerDocument`, if `VersionsOrdered` |
| | `RollbackKeeps` | `RollbackKeepsChanges` |
| | `CompareVersionsTurned` | comparing two versions the other way round turns the result |
| `InstallerProofs` | `JournalCovers` | `JournalCoversHost` |
| | `FailedSetupsAreUndone` | `FailedSetupUndone` |
| | `InstalledStaysComplete` | `InstalledIsComplete` |
| | `ResetsAreAllOrNothing` | `ResetAllOrNothing` |
| | `HealthyHostsAreGuarded` | `HealthyIsGuarded` |
| | `ForeignIsSafe` | `ForeignSurvives` |
| `DeploymentProofs` | `AnyRequestLasts`, `AnyAdditionIsUsable` | what `AcceptedRequestLasts` says, of every command line and every addition |
| | `AnyUrlSignsIn` | what `IssuedUrlSignsIn` says, of every command line |
| | `AnyCredentialServes` | what `CredentialsSignIn` says, of texts of every length |
| | `AnyRecordIsAccepted` | what `EveryReaderAccepts` says of records, for every command line and plain root |
| | `AcceptedRequestsLast` | `AcceptedRequestLasts` |
| | `IssuedUrlsSignIn` | `IssuedUrlSignsIn` |
| | `ChosenCredentialsSignIn` | `CredentialsSignIn` |
| | `WritersAreAccepted` | `EveryReaderAccepts` |

### From which assumptions

Every module names what it assumes of its constants, and TLC evaluates it on the instances.
`ConfigAssumption`, `LimiterAssumption`, `NumberAssumption`, `GatewayAssumption`,
`FormAssumption`, `ExternalAssumption` and `LogAssumption` are what `resolveConfig()`
enforces or the code fixes: lifetimes, windows, blocks and capacities are positive, the
lifetimes of a session are ordered, a capacity is within 1..1024.  `IssuerAssumption` and
`BridgeAssumption` say that different things have different names, `BuildAssumption` that
builds are numbers, `FlowAssumption` that the handlers' three ways to sign in are among the
methods of the store.  The rest are bounds of the models, any natural number.

Some theorems have a hypothesis beside those.  `AlwaysLoadable` needs identities without blank
fields, because `session_identity` shows that it fails with them.
`OlderBuildsReadOlderDocuments` needs `VersionsOrdered`: the upgrade asks `compareVersions()`
whether a build is newer, and the property asks the order of release.  That is a fact about
the versions somebody gives the builds.  It holds of those in `MCUpgrade`; the mutant of
`CompareIdentifiers` makes it false of them, and breaks the property.

The lock of `issue-login-token` excludes and the capacity holds on the behaviours with
`HeldLocksStay`: no reclaimer unlinks a lock whose holder is alive.  Something like it is
needed, because `token_reclaim` shows that both fail without.  When it is true is proved too:
`FewHands` says that no process crashes or that there are at most two issuers, and from it
`HeldLocksStay` follows.  It takes three for the race, one that died with the lock and two
that find it, so `FewHands` is as much as the code gives.

### Along which argument

**Session store.**  The inductive invariant is the conjunction of `Typed` (types that the
provers can use, with every token in memory or document issued), `Kept` (in memory and in
the document alike, sessions are sane – created ≤ seen ≤ expires, expiry at most a
longest lifetime after the last sight – and signed with the right secret, and the
administrator has a name and a password or neither), `Confirmed` (what the last call told
its caller is true in memory *and* document) and `MemoryMatchesDocument`.  None is inductive
alone: the lag between memory and document is bounded only because `lastSeenAt` cannot pass
the renewal date, which needs the sanity of the session; a restart re-establishes the
properties of the memory from those of the document; and `RevocationIsForever` needs to know
that a confirmed logout has left the document, not the memory alone.  The proof has one
lemma per operation; the lemma on `Mutate` reduces each to what it does to a session
map and is shared.  The capacity is a separate argument, `Room`: memory and document are
finite and each fits the capacity of some configuration.  That eviction leaves at most `n`
sessions (`NewestCardinality`) is proved from the least element of a non-empty set of
naturals and the cardinality of the sets above it.  `RestartKeepsLiveSessions` needs the other
direction, that eviction leaves at least as many as fit: of the tokens that were dropped there
is a youngest, everything younger stayed, and that is no fewer than the capacity
(`NewestFull`).

**State file.**  `Own` and `Value` say for every place of `persistAuthState()` which of its
two extra names exist, what they hold, and what a reader would find now and after a power
loss; `Whole` that no directory a power loss may find has a version that was never synced,
or a name that a later call will draw.  With them each system call is a step of
`AtomicDocument` or a stutter: the rename is the replacement, the sync of the directory
makes it durable, and the undo by the backup link is the step back.

**Login tokens.**  `RedeemedAtMostOnce` and `OnlySpentOrExpiredVanish` need no exclusion:
neither theorem mentions who holds the lock.  Their common invariant says that nobody knows
a token before its file has been renamed into place (`UnknownBefore`); that a file still
under its own name was never redeemed, and the claim the server is about to redeem has left
that name (`ClaimedOnce`); that whatever a cleaner is about to unlink has expired
(`OnlyOverdueDoomed`, which needs that no process has read a later clock than the
present one); and `OnlySpentOrExpiredVanish` also of a token whose directory is not
synced yet.  Every action of an issuer is first shown to be one of three kinds of step
(preparing, publishing, settling), and the invariant is proved of those.

`LockExcludes` rests on `Exclusive`: who is between taking and giving back the lock owns it.
Only a reclaimer can break that, between its second look at the lock and the unlink by name.
With few hands it cannot.  A reclaimer knows of a dead owner (`Mourned`), so where nobody dies
nobody reclaims (`NobodyDied`), and of two issuers, one of which is dead, there is no third to
take the lock meanwhile.  `CapacityRespected` adds `Tallied`: what the holder has counted is an
upper bound on the tokens that are unexpired, until it publishes.  It stays one because nobody
else publishes, and because what the counting has passed can only expire or be spent.

**Requests.**  Every step of a handler is a step of the session store (`StoreSteps`), so the
store's invariant holds beneath the handlers.  What they add is `InFlight`: a request at an
await runs in a live process, has a session that was issued and a password to store, and,
if it is a setup, its session, should it still be there, came from a login token.  Only the
method is kept over the await, not the session: any other handler may delete or evict it
meanwhile, so that the two theorems rest on the second look that
`initializeAdministrator()` and `updateAdministratorPassword()` take.  The method stays
because no operation of the store changes it and no token number is used twice
(`StoreKeeps`).

**Gate.**  `OnePartSteps` reduces each part to its own actions, the clock and a restart.
- Limiter: what is in the bucket of a client is the end of the list of all its admissions
  (`Ends`), and what is not in it is out of the window (`Covers`), whether pruning, filtering
  or eviction took it; so the attempt `MaxAttempts` before a new one is old (`Spaced`).  For
  denials, what was announced lies within a second above the end of the block
  (`SecondsRoundUp`), and a block that is running keeps its bucket from being pruned.
- External login: a state in the table or at its exchange belongs to the browser that began
  that login, and is in neither once it was exchanged.
- Gateway: everything accepted within the lifetime of a cache entry is in the cache
  (`RememberedLast`), and an assertion that is accepted twice was early the first time
  (`RepeatsEarly`); the two clocks, in milliseconds and in seconds, meet in
  `FreshAfterLifetime`.
- Log: the diagnostics the budget counts are the last ones written, all within the window
  (`SpentInWindow`), so a full budget is a set of written diagnostics near the present
  reading.  `DiagnosticsNeverLost` is about the log alone, `GateLogAccounted` about the log in
  the gate.
- Bridge: the wrappers a bridge found when it came are still the end of the chain
  (`StillThere`), and its two methods are wrapped or unwrapped together (`BothOrNone`).

**Upgrade.**  `Covered` says at each place of a run what it has put in place (`Advanced`) or
put back (`Undone`) and in which phase the journal then is (`InPhase`); without the places
`JournalCoversChanges` says nothing of what a rollback has already undone, and the next step
of the rollback breaks it.  `Halted` and `Serving` add the services, `Reading` who may have
written the document and the snapshot, `Snapshots` that the snapshot of a run has all that
the recorded build had changed when the target build starts.

**Installer.**  None of its six properties is inductive, and they need each other: that the
edge is claimed rests on the record, the record on the place of the command, a rollback on
what the interrupted setup had made, and a reset on the installation being complete.  The
common invariant `IInv` has these parts:
- the command: `Typed`, `Running` (which command may be where), `RecordAt` and `SavedAt`
  (what record it has there, on disk or renamed aside), `OutputAt` (an output directory has
  no services);
- the record and the paths: `RecordShape`, `Bootstrapped` (before the record has moved into
  the configuration directory there is nothing else in it), `Nested` (a path lies in a
  directory that exists), `ForeignPaths`, `ForeignBundle`, `ClaimedPaths`, `ClaimedBundle`,
  `EdgeTold`;
- a complete installation: `MakingUp` (setup, up to where it is), `Kept` and `Whole` (after
  it, through resets and failing uninstalls), `Resetting`, `Answered`;
- an unfinished one: `LeftPaths`, `Unloaded`, `UnfinishedServices` (what a rollback has still
  to do, also after reboots) and `FailedSetupUndone` itself.

`ResetAllOrNothing` is about the step that ends a reset: `ResetEnds` reads it off `Resetting`,
which says at every place of the command how far the two files are replaced.  `Reboot` is a
step like the others; what systemd starts fits the disk, and where an unfinished setup has not
journaled it, the host is broken and `UnfinishedServices` says nothing more.

The proof first states for each action what it does (`EveryStep`: one formula per action, in
terms of the fields that the parts mention), and then has a lemma per part, with a step per
action.  TLC checks `IInv` as an invariant up to three commands with two faults.

**Deployment.**  These are functions, and the proofs are about any argument: `IsLine` is a
command line with any value of any option, `IsRequest` one that setup accepts with its
defaults, `IsText` a text of any length, `PlainRoot` a root of any segments that the record's
reader does not refuse.  The `Any…` theorems say of all of those what the four properties
of the run say of the ones TLC enumerates; these are then corollaries (`RequestsAreLines`,
`AdditionsFit`, `ChosenAreTexts`, `RootsArePlain`).
- Requests: the groups of options make a line, the dialogue and the defaults keep it one, and
  the defaults are idempotent.  `SetUp` and `RowHas` say which part of a row each setting comes
  from, `ActivatedIsUsable` that the conditions of `resolveConfig()` are enough for the session
  store, the limiters and the proxies.
- Credentials: every writer normalises and hashes what it has read, and what was read is what
  is typed later (`ValidServes`); a form with a name and two passwords fits into 20 KiB
  (`FormFits`).
- Records: `Sound` has one conjunct for each thing that a reader demands, `SoundIsRead` shows
  that it is enough, and `UpdatedIsSound` that a change which is `Harmless` keeps it.  Each
  writer is then a lemma about the fields it changes.  That no two created paths are the same
  (`CreatedDiffer`) follows from where they end (`PathsLie`).

### What the attempts showed

- `DenialsHold` does not hold of every configuration that `resolveConfig()` accepts: it
  relates neither `loginBlockSeconds` to `loginWindowSeconds` (`config.ts:398-400`), and a
  block shorter than the window ends while the bucket is still full.  The second half of the
  property now says so.
- `HealthyIsGuarded` promised guarded service of every host the doctor calls healthy.  Four
  commands with three faults violate that: a failed rollback, of which setup does say that it
  failed, leaves more than the doctor looks at.  The property now excepts a command that has
  said so.
- `FailedSetupUndone` was lost by a failed uninstall between two setups (see *Noted while
  modelling*, the reload that no record tells); the two faults of the run are too
  few to reach it.
- A tick of the clock may end the life of a page, so `TabsShareTheLogin` is about the steps
  of the forms' own variables.  Some definitions whose `CASE` arms overlapped (`Parent`,
  `Booted`, the comparison of identifiers, `PathsFor`) were made disjoint: TLC takes the first
  arm that applies, a proof may not.
- `LockExcludes` was thought to need no more than that no holder dies.  It needs less and more:
  a holder may die, but nobody may unlink the lock that a third one has taken since.
- Some operators of the community modules and of `TLC` are beyond the provers (`@@`, folds,
  `SelectSeq`).  The definitions that used them say the same without: `Records` for `@@`, the
  sum of a form's three fields written out, the created paths as a function of their names.

### What stays with TLC

- `WaitingEnds` is liveness.
- `CapacityRespected` and `LockExcludes` with three issuers and a crash do not hold:
  `token_reclaim` shows it.
- The five disagreements: their runs show what the code does, and there is nothing to prove.
- Every other property of the passing runs has its theorem in the table above, for every value
  of the bounds (`MaxRuns`, `MaxFaults` and the like).

## Noted while modelling

Behaviour of the code that the properties above leave out by name or that has no run of its
own.  None of it is needed to read the models.

Installer:
- `prepareSetup()` asks for free ports (`plan.ts:435`) before it looks whether the
  installation is already complete (438), so a rerun on a healthy host, or after a kill
  between starting the edge and the last record, is refused.
- `setup` over an interrupted *upgrade* takes the record for an interrupted setup
  (`plan.ts:447`) and would roll the installation back, authentication state included; the
  port check usually refuses it, not when the edge is down.
- After a rollback the record claims the configuration directory whoever made it
  (`executor.ts:213`), and a later uninstall deletes it; `uninstall` deletes other people's
  files in a drop-in directory it owns (`uninstall.ts:115`); a file that appears after the
  plan is journaled, then found, then deleted by the rollback.
- The rollback rewrites the record before it rolls the services back (`executor.ts:216`);
  `dshWasActive` is from before the recovery (`executor.ts:256`); a running service writes
  its document again during a rollback, and the retry fails on it.
- A setup that is interrupted after it has written the drop-in (`executor.ts:370`) and before
  it journals `daemonReloadAttempted` (153) leaves a drop-in that systemd reads if the host
  reboots then; between the reload and `dshRestartAttempted` (157) a reboot may start DSH
  guarded.  The recovery and the rollback go by these flags (197, 200) and undo neither, so a
  setup that then fails leaves the drop-in loaded and the service guarded.
  `docs/installer.md:40` has the rollback restart or stop DSH "to restore its prior state".
  The model marks such a reboot (`Unjournaled`), and `FailedSetupUndone` leaves it out.
  What was written is taken to be there after a reboot; a power loss that loses unsynced
  files is not modelled for the installer.
- A reset that is killed between the document (`reset-password.ts:112`) and the secret (113)
  leaves two that do not belong together: the service starts on them, with no session of
  before, until the next reset replaces both.
- A failed reset restores the document read before the prompt (`reset-password.ts:89`); a
  kill inside `replaceCredential` leaves it to root (`reset-password.ts:42`).
- A failed uninstall of an unfinished setup reloads systemd (`uninstall.ts:123`) although the
  record says that no reload was attempted; a later recovery, which goes by the record
  (`executor.ts:197`), removes the drop-in without another, and systemd keeps it.
  `docs/installer.md:38` has a failed uninstall put the service state back.  The model marks
  such a command (`Untold`), and `FailedSetupUndone` leaves it out.
- `uninstall` does not restart the DSH service, which goes on guarded with its files gone; a
  failed uninstall of an unfinished setup starts the edge (`uninstall.ts:134`).
- No lock keeps two commands apart.  A first record torn by a kill blocks every later
  command.  A kill during validation with manual TLS leaves `Caddyfile.validate`.
- The doctor sees neither what systemd has loaded nor whether document and secret match.
- An output directory with a trailing slash, or with `..` inside a name, passes
  `validateAbsolutePath()` and gets a record that `validateStatePaths()` refuses; a `[::1]`
  origin is refused although `docs/installer.md:13` allows it (`validation.ts:198`), and a name
  such as `http://10.example.com` is taken for a private address (`validation.ts:47`), although
  it demands a literal one.
- An upgrade keeps the Caddyfile, unit and drop-in of the build that set up; a build with
  other templates would report drift.

Server:
- An assertion that arrives within its own second or before is accepted again once its cache
  entry is pruned; a restart empties the cache.
- A username is normalised when it is stored (`password.ts:118`) and compared as typed
  (`application.ts:258`); a password file with a line end inside cannot be typed.
- `safeReturnTarget()` bounds its input, not its encoded result: a login form with a long
  target exceeds the 20 KiB of `readForm()`.
- Ending one external login clears the state cookie of another started meanwhile; a failing
  callback deletes the state it names, whoever sends it.
- A gateway identity with an empty or unprintable name gets a session whose every
  `/auth/verify` answers 502.
- A disposed bridge under another plugin's wrapper stays in the chain and keeps admitting.
- Only a shorter `sessionTtlSeconds` than the default idle time makes the configuration
  refuse to activate, because the row always passes its own defaults (`config.ts:355`).

## What is not modelled

- Cryptography is equality; page text, languages, styles and the bootstrap scripts are
  rendering; the registration of routes in `index.ts` is one call per route.
- Field-by-field parsing of documents, sizes in bytes (a document above 1 MiB is written but
  not loaded, `auth-state.ts:194`), what crashes leave under random names in the document's
  directory, and the Windows path of `persistAuthState()`.
- The external provider, systemd, the DSH profile manager and Caddy are external: their calls
  succeed, fail, or fail with part of their effect.
- Argument syntax, output formats, the build identity's hashes and the lookup of the Caddy
  package.  Two commands at the same time: nothing in the code keeps them apart.
- `setup` and `upgrade` on one record in one model: their state spaces multiply.
  `OwnershipRecord` covers what each makes of the other's record.
- Build, release and integration scripts (`scripts/`), which run outside the system.
