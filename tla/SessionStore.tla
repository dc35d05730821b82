---------------------------- MODULE SessionStore ----------------------------
(***************************************************************************)
(* The administrator and session store of dsh-auth (src/session.ts): a map *)
(* of signed-cookie sessions and the administrator's credentials, kept in  *)
(* memory and rewritten to one JSON document on every change except the    *)
(* "last seen" update of a request that is not due for renewal.            *)
(*                                                                         *)
(* Tokens are random in the code.  Here they are numbered in the order in  *)
(* which they are issued, so the insertion order of the Map, which decides *)
(* eviction, is the order of the numbers.  The write of the document is    *)
(* one step with the outcomes that module AuthStateFile shows it can have. *)
(***************************************************************************)
EXTENDS Integers, FiniteSets, Functions

CONSTANTS
  None,         \* a null field of the administrator record
  Configs,      \* the configurations the operator may (re)start the store with
  Usernames,    \* administrator names
  Hashes,       \* password hashes
  Secrets,      \* session secrets, named by their secretId
  Methods,      \* authentication methods, of "password", "login-token", "external"
  Identities,   \* external identities, "none" for a local session
  LongestTtl,   \* the longest session lifetime among Configs
  MaxTokens,    \* bound: sessions ever issued
  MaxTime       \* bound: largest reading of the clock

(***************************************************************************)
(* What resolveConfig() guarantees of a configuration (src/config.ts).     *)
(***************************************************************************)
ASSUME ConfigAssumption ==
  \A c \in Configs :
    /\ c \in [ttl: Nat, idle: Nat, renewal: Nat, max: 1..1024, secret: Secrets]
    /\ 0 < c.renewal /\ c.renewal <= c.idle /\ c.idle <= c.ttl
    /\ c.ttl <= LongestTtl

ASSUME BoundAssumption ==
  LongestTtl \in Nat /\ MaxTokens \in Nat /\ MaxTime \in Nat

ASSUME NoneAssumption == None \notin Usernames /\ None \notin Hashes

VARIABLES
  up,        \* is the process running?
  cfg,       \* the configuration it was last started with
  clock,     \* Date.now(): may also be stepped back by the host
  issued,    \* number of tokens issued so far
  mem,       \* the store's memory: administrator and sessions
  disk,      \* the document at authStateFile that the next start will find
  adrift,    \* did the last write of this process fail and fail to roll back?
  confirmed \* what the last call has told its caller is done

vars == <<up, cfg, clock, issued, mem, disk, adrift, confirmed>>

Tokens == 1..MaxTokens

Administrators == [username: Usernames \cup {None}, hash: Hashes \cup {None}]

(***************************************************************************)
(* key is the secret the cookie of the session is signed with; the code    *)
(* keeps it in the client's cookie, not in the document.                   *)
(***************************************************************************)
Session == [method: Methods, identity: Identities, key: Secrets,
            created: Nat, seen: Nat, expires: Nat]

IsSessionMap(S) == DOMAIN S \subseteq Tokens /\ S \in [DOMAIN S -> Session]

NoAdministrator == [username |-> None, hash |-> None]
NoSessions == [t \in {} |-> t]
NoMemory == [admin |-> NoAdministrator, sessions |-> NoSessions]

-----------------------------------------------------------------------------
(***************************************************************************)
(* Helpers on session maps.                                                *)
(***************************************************************************)
Expired(s, c, now) == s.expires <= now \/ s.seen + c.idle <= now

Prune(S, c, now) == Restrict(S, {t \in DOMAIN S : ~Expired(S[t], c, now)})

\* Slip: one session more than asked for survives the eviction.
NewestAndOne(S, n) ==
  Restrict(S, {t \in DOMAIN S : Cardinality({u \in DOMAIN S : t < u}) <= n})

\* What is left when the oldest sessions are deleted until at most n remain.
Newest(S, n) ==
  Restrict(S, {t \in DOMAIN S : Cardinality({u \in DOMAIN S : t < u}) < n})

\* Map.set(): a session already there is replaced where it is.
Insert(S, t, s) == [u \in DOMAIN S \cup {t} |-> IF u = t THEN s ELSE S[u]]

Delete(S, t) == Restrict(S, DOMAIN S \ {t})

\* Slip: the deletion passes over sessions issued after the caller's.
OnlyAndNewer(S, t) == Restrict(S, {u \in DOMAIN S : t <= u})

Only(S, t) == Restrict(S, {t})

RenewalDue(s, c) == s.expires - c.ttl + c.renewal

Later(a, b) == IF a < b THEN b ELSE a

(***************************************************************************)
(* What loadAuthState() accepts of the document that persist() writes.     *)
(***************************************************************************)
Loadable(doc) ==
  /\ (doc.admin.username = None) <=> (doc.admin.hash = None)
  /\ Cardinality(DOMAIN doc.sessions) <= 4096
  /\ \A t \in DOMAIN doc.sessions :
       /\ doc.sessions[t].identity # "blank-field"
       /\ doc.sessions[t].created <= doc.sessions[t].seen
       /\ doc.sessions[t].seen <= doc.sessions[t].expires

Document(m, c) == [secret |-> c.secret, admin |-> m.admin, sessions |-> m.sessions]

Done(op, t) == [op |-> op, token |-> t]
Nothing == Done("none", 0)

-----------------------------------------------------------------------------
\* Slip: the memory is not restored when the write throws.
MutateUnrestored(next, done) ==
  \/ /\ mem' = next
     /\ disk' = Document(next, cfg)
     /\ adrift' = FALSE
     /\ confirmed' = done
     /\ UNCHANGED up
  \/ /\ mem' = next
     /\ confirmed' = Nothing
     /\ UNCHANGED <<up, disk, adrift>>

\* Slip: the caller is answered before the document is written.
MutateUnwritten(next, done) ==
  /\ mem' = next
  /\ confirmed' = done
  /\ disk' \in {disk, Document(next, cfg)}
  /\ UNCHANGED <<up, adrift>>

(***************************************************************************)
(* mutate(): change the memory, write the document, restore the memory if  *)
(* the write throws.  The write may leave the new document in place and    *)
(* still throw ("update and rollback failed"); the process may die before  *)
(* or after the document is replaced.                                      *)
(***************************************************************************)
Mutate(next, done) ==
  \/ /\ mem' = next
     /\ disk' = Document(next, cfg)
     /\ adrift' = FALSE
     /\ confirmed' = done
     /\ UNCHANGED up
  \/ /\ disk' = disk
     /\ confirmed' = Nothing
     /\ UNCHANGED <<up, mem, adrift>>
  \/ /\ disk' = Document(next, cfg)
     /\ adrift' = TRUE
     /\ confirmed' = Nothing
     /\ UNCHANGED <<up, mem>>
  \/ /\ disk' \in {disk, Document(next, cfg)}
     /\ up' = FALSE
     /\ mem' = NoMemory
     /\ adrift' = FALSE
     /\ confirmed' = Nothing

Sessions(S) == [mem EXCEPT !.sessions = S]

\* The call returns without a change.
Unchanged == confirmed' = Nothing /\ UNCHANGED <<up, mem, disk, adrift>>

(***************************************************************************)
(* The constructor.  `prune(now) || enforceCapacity()` does not enforce    *)
(* the capacity when the pruning removed something.                        *)
(***************************************************************************)
\* Slip: the document's secretId is not compared.
LoadedUnderAnySecret(c) == disk.sessions

LoadedSessions(c) == IF disk.secret = c.secret THEN disk.sessions ELSE NoSessions

\* Slip: the capacity is enforced with the bound of create().
StartingWithRoom(c) ==
  LET pruned == Prune(LoadedSessions(c), c, clock) IN Newest(pruned, c.max - 1)

StartingSessions(c) ==
  LET loaded == LoadedSessions(c)
      pruned == Prune(loaded, c, clock)
  IN  IF pruned # loaded THEN pruned ELSE Newest(loaded, c.max)

MustPersist(c) ==
  disk.secret # c.secret \/ StartingSessions(c) # LoadedSessions(c)

Start(c) ==
  /\ ~up
  /\ Loadable(disk)
  /\ cfg' = c
  /\ confirmed' = Nothing
  /\ adrift' = FALSE
  /\ LET started == [admin |-> disk.admin, sessions |-> StartingSessions(c)]
     IN  \/ /\ disk' = IF MustPersist(c) THEN Document(started, c) ELSE disk
            /\ up' = TRUE
            /\ mem' = started
         \/ /\ MustPersist(c)          \* the write throws: the plugin does not start
            /\ disk' \in {disk, Document(started, c)}
            /\ UNCHANGED <<up, mem>>
  /\ UNCHANGED <<clock, issued>>

Stop ==
  /\ up
  /\ up' = FALSE
  /\ mem' = NoMemory
  /\ adrift' = FALSE
  /\ confirmed' = Nothing
  /\ UNCHANGED <<cfg, clock, issued, disk>>

Tick ==
  /\ clock' \in {clock - 1, clock + 1} \cap (0..MaxTime)
  /\ confirmed' = Nothing
  /\ UNCHANGED <<up, cfg, issued, mem, disk, adrift>>

-----------------------------------------------------------------------------
NewSession(method, identity) ==
  [method |-> method, identity |-> identity, key |-> cfg.secret,
   created |-> clock, seen |-> clock, expires |-> clock + cfg.ttl]

WithNewSession(t, s) ==
  Insert(Newest(Prune(mem.sessions, cfg, clock), cfg.max - 1), t, s)

Create(method, identity) ==
  /\ up /\ issued < MaxTokens
  /\ issued' = issued + 1
  /\ Mutate(Sessions(WithNewSession(issued + 1, NewSession(method, identity))), Nothing)
  /\ UNCHANGED <<cfg, clock>>

(***************************************************************************)
(* authenticate(): the cookie of token t is presented.  Its signature is   *)
(* the one of the key it was issued under.                                 *)
(***************************************************************************)
Known(t) == t \in DOMAIN mem.sessions /\ mem.sessions[t].key = cfg.secret

AuthenticateUnknown(t) ==
  /\ up /\ ~Known(t)
  /\ Unchanged
  /\ UNCHANGED <<cfg, clock, issued>>

AuthenticateExpired(t) ==
  /\ up /\ Known(t)
  /\ Expired(mem.sessions[t], cfg, clock)
  /\ Mutate(Sessions(Delete(mem.sessions, t)), Nothing)
  /\ UNCHANGED <<cfg, clock, issued>>

\* Slip: lastSeenAt follows a clock that was stepped back.
TouchedByClock(s) == [s EXCEPT !.seen = clock]

Touched(s) == [s EXCEPT !.seen = Later(s.seen, clock)]

\* Not due for renewal: lastSeenAt moves in memory only.
AuthenticateTouch(t) ==
  /\ up /\ Known(t)
  /\ ~Expired(mem.sessions[t], cfg, clock)
  /\ clock < RenewalDue(mem.sessions[t], cfg)
  /\ mem' = Sessions(Insert(mem.sessions, t, Touched(mem.sessions[t])))
  /\ confirmed' = Nothing
  /\ UNCHANGED <<up, cfg, clock, issued, disk, adrift>>

Renewed(s) ==
  [s EXCEPT !.seen = Later(s.seen, clock), !.expires = Later(s.expires, clock + cfg.ttl)]

AuthenticateRenew(t) ==
  /\ up /\ Known(t)
  /\ ~Expired(mem.sessions[t], cfg, clock)
  /\ RenewalDue(mem.sessions[t], cfg) <= clock
  /\ Mutate(Sessions(Insert(mem.sessions, t, Renewed(mem.sessions[t]))), Nothing)
  /\ UNCHANGED <<cfg, clock, issued>>

Revoke(t) ==
  /\ up
  /\ IF Known(t)
     THEN Mutate(Sessions(Delete(mem.sessions, t)), Done("revoke", t))
     ELSE Unchanged
  /\ UNCHANGED <<cfg, clock, issued>>

(***************************************************************************)
(* initializeAdministrator() and updateAdministratorPassword().  Neither   *)
(* looks at the expiry of the caller's session again.                      *)
(***************************************************************************)
\* Slip: the name and the hash are passed in the wrong order.
ChangeAdministratorSwapped(op, t, username, hash) ==
  Mutate([admin |-> [username |-> hash, hash |-> username],
          sessions |-> Only(mem.sessions, t)],
         Done(op, t))

ChangeAdministrator(op, t, username, hash) ==
  Mutate([admin |-> [username |-> username, hash |-> hash],
          sessions |-> Only(mem.sessions, t)],
         Done(op, t))

\* Slip: setup does not look whether an administrator exists.
InitializeAgain(t, username, hash) ==
  /\ up
  /\ IF t \notin DOMAIN mem.sessions
     THEN Unchanged
     ELSE ChangeAdministrator("initialize", t, username, hash)
  /\ UNCHANGED <<cfg, clock, issued>>

InitializeAdministrator(t, username, hash) ==
  /\ up
  /\ IF mem.admin.username # None \/ t \notin DOMAIN mem.sessions
     THEN Unchanged
     ELSE ChangeAdministrator("initialize", t, username, hash)
  /\ UNCHANGED <<cfg, clock, issued>>

PasswordConfigured == mem.admin.username # None /\ mem.admin.hash # None

UpdateAdministratorPassword(t, hash) ==
  /\ up
  /\ IF ~PasswordConfigured \/ t \notin DOMAIN mem.sessions
     THEN Unchanged
     ELSE ChangeAdministrator("update", t, mem.admin.username, hash)
  /\ UNCHANGED <<cfg, clock, issued>>

-----------------------------------------------------------------------------
(***************************************************************************)
(* The document setup writes (createAuthStateDocument): an administrator   *)
(* given to setup, or none, and no session.                                *)
(***************************************************************************)
InitialAdministrators ==
  {NoAdministrator} \cup [username: Usernames, hash: Hashes]

Init ==
  /\ up = FALSE
  /\ cfg \in Configs
  /\ clock = 0
  /\ issued = 0
  /\ mem = NoMemory
  /\ disk \in [secret: {cfg.secret}, admin: InitialAdministrators, sessions: {NoSessions}]
  /\ adrift = FALSE
  /\ confirmed = Nothing

\* Only sessions of an external provider or gateway carry an identity.
CreateAny ==
  \E method \in Methods, identity \in Identities :
    /\ (identity # "none") <=> (method = "external")
    /\ Create(method, identity)

Next ==
  \/ \E c \in Configs : Start(c)
  \/ Stop
  \/ Tick
  \/ CreateAny
  \/ \E t \in 1..issued :
       \/ AuthenticateUnknown(t)
       \/ AuthenticateExpired(t)
       \/ AuthenticateTouch(t)
       \/ AuthenticateRenew(t)
       \/ Revoke(t)
       \/ \E username \in Usernames, hash \in Hashes :
            InitializeAdministrator(t, username, hash)
       \/ \E hash \in Hashes : UpdateAdministratorPassword(t, hash)

Spec == Init /\ [][Next]_vars

-----------------------------------------------------------------------------
(***************************************************************************)
(* Properties.                                                             *)
(***************************************************************************)
Confirmations == [op: {"none", "revoke", "initialize", "update"}, token: 0..MaxTokens]

(* Type correctness; tokens in the memory or the document were issued. *)
TypeOK ==
  /\ up \in BOOLEAN /\ adrift \in BOOLEAN
  /\ cfg \in Configs
  /\ clock \in 0..MaxTime
  /\ issued \in 0..MaxTokens
  /\ mem \in [admin: Administrators, sessions: {mem.sessions}]
  /\ disk \in [secret: Secrets, admin: Administrators, sessions: {disk.sessions}]
  /\ IsSessionMap(mem.sessions) /\ IsSessionMap(disk.sessions)
  /\ DOMAIN mem.sessions \cup DOMAIN disk.sessions \subseteq 1..issued
  /\ confirmed \in Confirmations
  /\ ~up => mem = NoMemory

(***************************************************************************)
(* Whatever the store has written, loadAuthState() accepts: a document it  *)
(* refuses keeps the plugin, and with it every login, down after the next  *)
(* restart (src/auth-state.ts storedSession, administrator).               *)
(***************************************************************************)
DocumentLoadable == Loadable(disk)

(***************************************************************************)
(* The mutate() contract: unless the last write failed to roll back, the   *)
(* running store and its document differ in lastSeenAt alone, and memory   *)
(* is ahead by less than a renewal interval (plus what a shortened ttl     *)
(* adds), so a crash ages no session by more than that.                    *)
(***************************************************************************)
LagBound == cfg.renewal + (LongestTtl - cfg.ttl)

SameButSeen(s, d) == s = [d EXCEPT !.seen = s.seen]

MemoryMatchesDocument ==
  up /\ ~adrift =>
    /\ mem.admin = disk.admin
    /\ DOMAIN mem.sessions = DOMAIN disk.sessions
    /\ \A t \in DOMAIN mem.sessions :
         /\ SameButSeen(mem.sessions[t], disk.sessions[t])
         /\ disk.sessions[t].seen <= mem.sessions[t].seen
         /\ mem.sessions[t].seen - disk.sessions[t].seen < LagBound

(***************************************************************************)
(* Rotating the session secret revokes every session: no session of the    *)
(* running store, and none of a document of the current secret, was issued *)
(* under another one (mustPersist in loadAuthState).                       *)
(***************************************************************************)
SessionsUnderCurrentSecret ==
  /\ up => \A t \in DOMAIN mem.sessions : mem.sessions[t].key = cfg.secret
  /\ \A t \in DOMAIN disk.sessions : disk.sessions[t].key = disk.secret

(***************************************************************************)
(* Neither the memory nor the document ever holds more sessions than the   *)
(* largest capacity the store was configured with.                         *)
(***************************************************************************)
CapacityOfSomeConfig(n) == \E c \in Configs : n <= c.max

WithinLargestCapacity ==
  /\ CapacityOfSomeConfig(Cardinality(DOMAIN mem.sessions))
  /\ CapacityOfSomeConfig(Cardinality(DOMAIN disk.sessions))

(***************************************************************************)
(* What tests/session-persistence.spec.ts promises ("keeps only the        *)
(* configured session capacity across restarts").  The code breaks it: see *)
(* Start.                                                                  *)
(***************************************************************************)
CapacityHonoured == up => Cardinality(DOMAIN mem.sessions) <= cfg.max

(***************************************************************************)
(* A confirmed logout lasts: once revoke() has returned, the session is in *)
(* neither the memory nor the document, and a session that is in neither   *)
(* never comes back, whatever crashes, failed writes and restarts follow.  *)
(***************************************************************************)
Gone(t) == t \notin DOMAIN mem.sessions \cup DOMAIN disk.sessions

RevocationIsForever ==
  [][ /\ confirmed.op = "revoke" => Gone(confirmed.token)
      /\ \A t \in 1..issued : Gone(t) => Gone(t)' ]_vars

(***************************************************************************)
(* A confirmed setup or password change leaves only the caller signed in,  *)
(* in the memory and in the document a restart would load.                 *)
(***************************************************************************)
OnlyTheCallerSurvives ==
  confirmed.op \in {"initialize", "update"} =>
    DOMAIN mem.sessions \cup DOMAIN disk.sessions \subseteq {confirmed.token}

(***************************************************************************)
(* First-time setup happens once: a document with an administrator keeps   *)
(* that name for ever, unless the write that named it was reported as      *)
(* failed and left behind.                                                 *)
(***************************************************************************)
AdministratorNamedOnce ==
  [][ /\ disk.admin.username # None /\ ~adrift => disk'.admin.username = disk.admin.username
      /\ up /\ up' /\ mem.admin.username # None =>
           mem'.admin.username = mem.admin.username ]_vars

(***************************************************************************)
(* A restart under the same secret signs nobody out early: a live session  *)
(* of the document is loaded, or enough newer ones fill the capacity.      *)
(***************************************************************************)
RestartKeepsLiveSessions ==
  [][ ~up /\ up' /\ disk.secret = cfg'.secret =>
        \A t \in DOMAIN disk.sessions \ DOMAIN mem'.sessions :
          \/ Expired(disk.sessions[t], cfg', clock)
          \/ cfg'.max <= Cardinality({u \in DOMAIN mem'.sessions : t < u}) ]_vars

=============================================================================
