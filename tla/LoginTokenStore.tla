-------------------------- MODULE LoginTokenStore --------------------------
(***************************************************************************)
(* One-time login tokens (src/login-token-store.ts): a directory of files  *)
(* named by the digest of a token.  CLI processes publish tokens under an  *)
(* advisory lock file; the one server process claims a token by renaming   *)
(* its file, creates a session and drops the claim (the POST branch of     *)
(* token() in src/application.ts).  All of them first remove expired       *)
(* files.  Every step below is one access to the directory; a process may  *)
(* die between any two.                                                    *)
(*                                                                         *)
(* An issuer process publishes at most one token, so the issuer names its  *)
(* token, its lock payload (pid and nonce) and its process.                *)
(***************************************************************************)
EXTENDS Integers, FiniteSets

CONSTANTS
  Issuers,     \* CLI processes running issue-login-token
  None,        \* no issuer
  Ttl,         \* lifetime of a token
  Capacity,    \* LOGIN_TOKEN_CAPACITY
  MaxCrashes,  \* bound: issuer processes that die
  MaxTime      \* bound: largest reading of the clock

ASSUME IssuerAssumption == IsFiniteSet(Issuers) /\ None \notin Issuers
ASSUME NumberAssumption ==
  /\ Ttl \in Nat \ {0} /\ Capacity \in Nat \ {0}
  /\ MaxCrashes \in Nat /\ MaxTime \in Nat

VARIABLES
  clock,     \* the common clock of the processes
  files,     \* the file of each token: "absent", "token" or "consuming"
  lock,      \* the lock file: who created it, and is its payload written?
  issuer,    \* each issuer: where it is and what it remembers
  server,    \* the request the server is serving
  redeemed   \* sessions created for each token

vars == <<clock, files, lock, issuer, server, redeemed>>

Holding == {"list", "clean", "clean-remove", "relist", "count", "publish",
            "sync", "release", "unlock"}
Waiting == {"acquire", "write", "inspect", "confirm", "reclaim"}

Kinds == {"token", "consuming"}
Entry == Issuers \X Kinds
NoEntry == <<None, "token">>

NoLock == [owner |-> None, written |-> FALSE]
NotStarted == [at |-> "new", issuedAt |-> 0, todo |-> {}, doomed |-> NoEntry,
               count |-> 0, seen |-> None, outcome |-> "none"]
Idle == [at |-> "idle", token |-> None, now |-> 0, todo |-> {}, doomed |-> NoEntry]

Expires(d) == issuer[d].issuedAt + Ttl

\* Slip: the time of issue is compared instead of the expiry.
PastIssue(d, now) == issuer[d].issuedAt <= now

Past(d, now) == Expires(d) <= now

\* managedEntries(): a name is the digest of a token, with or without prefix.
Entries == {<<d, files[d]>> : d \in {i \in Issuers : files[i] # "absent"}}

Present(e) == files[e[1]] = e[2]

Removed(e) == IF Present(e) THEN [files EXCEPT ![e[1]] = "absent"] ELSE files

Alive(i) == issuer[i].at \notin {"new", "done", "crashed"}

-----------------------------------------------------------------------------
(***************************************************************************)
(* One step of issuer i, from one place to another.                        *)
(***************************************************************************)
At(i, place) == issuer[i].at = place

Become(i, record) ==
  /\ issuer' = [issuer EXCEPT ![i] = record]
  /\ UNCHANGED <<clock, server, redeemed>>

GoTo(i, place) == Become(i, [issuer[i] EXCEPT !.at = place])

\* An error inside the lock: `finally` releases it, then the error is reported.
Abandon(i) == Become(i, [issuer[i] EXCEPT !.at = "release", !.outcome = "failed"])

(***************************************************************************)
(* acquireIssueLock() and reclaimStaleIssueLock().  writeNewFile() creates *)
(* the lock file and then writes it; an empty file names process 0, which  *)
(* is never taken for stale.  The acquisition gives up after ten seconds.  *)
(***************************************************************************)
Begin(i) == At(i, "new") /\ GoTo(i, "acquire") /\ UNCHANGED <<files, lock>>

CreateLock(i) ==
  /\ At(i, "acquire") /\ lock = NoLock
  /\ lock' = [owner |-> i, written |-> FALSE]
  /\ GoTo(i, "write")
  /\ UNCHANGED files

LockExists(i) ==
  /\ At(i, "acquire") /\ lock # NoLock
  /\ GoTo(i, "inspect")
  /\ UNCHANGED <<files, lock>>

\* The open file is written even when its name is gone by now.
WriteLock(i) ==
  /\ At(i, "write")
  /\ lock' = IF lock.owner = i THEN [lock EXCEPT !.written = TRUE] ELSE lock
  /\ GoTo(i, "list")
  /\ UNCHANGED files

\* Slip: the process named by the payload is not looked up.
StaleIfWritten(l) == l.written

\* Slip: the answer of processExists() is inverted.
StaleIfAlive(l) == l.written /\ Alive(l.owner)

Stale(l) == l.written /\ ~Alive(l.owner)

InspectLock(i) ==
  /\ At(i, "inspect")
  /\ IF Stale(lock)
     THEN Become(i, [issuer[i] EXCEPT !.at = "confirm", !.seen = lock.owner])
     ELSE GoTo(i, "acquire")
  /\ UNCHANGED <<files, lock>>

ConfirmLock(i) ==
  /\ At(i, "confirm")
  /\ LET same == lock.written /\ lock.owner = issuer[i].seen
     IN  Become(i, [issuer[i] EXCEPT !.at = IF same THEN "reclaim" ELSE "acquire",
                                     !.seen = None])
  /\ UNCHANGED <<files, lock>>

\* unlink() removes whichever lock has the name by now.
ReclaimLock(i) ==
  /\ At(i, "reclaim")
  /\ lock' = NoLock
  /\ GoTo(i, "acquire")
  /\ UNCHANGED files

TimeOut(i) ==
  /\ At(i, "acquire")
  /\ Become(i, [issuer[i] EXCEPT !.at = "done", !.outcome = "failed"])
  /\ UNCHANGED <<files, lock>>

-----------------------------------------------------------------------------
(***************************************************************************)
(* publishIssuedToken(): remove what has expired, count what has not, then *)
(* write a temporary file and rename it to the digest.  An entry of the    *)
(* listing that has gone or changed its name fails the operation.          *)
(***************************************************************************)
List(i) ==
  /\ At(i, "list")
  /\ Become(i, [issuer[i] EXCEPT !.at = "clean", !.issuedAt = clock, !.todo = Entries])
  /\ UNCHANGED <<files, lock>>

CleanEntry(i, e) ==
  /\ At(i, "clean") /\ e \in issuer[i].todo
  /\ IF ~Present(e)
     THEN Abandon(i)
     ELSE Become(i, [issuer[i] EXCEPT
            !.todo = @ \ {e},
            !.at = IF Past(e[1], issuer[i].issuedAt) THEN "clean-remove" ELSE "clean",
            !.doomed = IF Past(e[1], issuer[i].issuedAt) THEN e ELSE NoEntry])
  /\ UNCHANGED <<files, lock>>

CleanRemove(i) ==
  /\ At(i, "clean-remove")
  /\ files' = Removed(issuer[i].doomed)
  /\ Become(i, [issuer[i] EXCEPT !.at = "clean", !.doomed = NoEntry])
  /\ UNCHANGED lock

Cleaned(i) ==
  /\ At(i, "clean") /\ issuer[i].todo = {}
  /\ GoTo(i, "relist")
  /\ UNCHANGED <<files, lock>>

Relist(i) ==
  /\ At(i, "relist")
  /\ Become(i, [issuer[i] EXCEPT !.at = "count", !.todo = Entries, !.count = 0])
  /\ UNCHANGED <<files, lock>>

CountEntry(i, e) ==
  /\ At(i, "count") /\ e \in issuer[i].todo
  /\ IF ~Present(e)
     THEN Abandon(i)
     ELSE Become(i, [issuer[i] EXCEPT
            !.todo = @ \ {e},
            !.count = IF Past(e[1], issuer[i].issuedAt) THEN @ ELSE @ + 1])
  /\ UNCHANGED <<files, lock>>

\* Slip: the capacity is exceeded by one before it is refused.
FullPastCapacity(n) == n > Capacity

Full(n) == n >= Capacity

Counted(i) ==
  /\ At(i, "count") /\ issuer[i].todo = {}
  /\ IF Full(issuer[i].count) THEN Abandon(i) ELSE GoTo(i, "publish")
  /\ UNCHANGED <<files, lock>>

Publish(i) ==
  /\ At(i, "publish")
  /\ files' = [files EXCEPT ![i] = "token"]
  /\ GoTo(i, "sync")
  /\ UNCHANGED lock

\* The temporary file cannot be written, synced, chowned or renamed.
PublishFails(i) == At(i, "publish") /\ Abandon(i) /\ UNCHANGED <<files, lock>>

Sync(i) ==
  /\ At(i, "sync")
  /\ Become(i, [issuer[i] EXCEPT !.at = "release", !.outcome = "issued"])
  /\ UNCHANGED <<files, lock>>

\* The token is published, but its caller is told that issuing failed.
SyncFails(i) == At(i, "sync") /\ Abandon(i) /\ UNCHANGED <<files, lock>>

(***************************************************************************)
(* releaseIssueLock(): remove the lock if it is ours, and also (the catch) *)
(* when it has gone by the time it is read.                                *)
(***************************************************************************)
ReadOwnLock(i) ==
  /\ At(i, "release")
  /\ IF lock = NoLock \/ (lock.owner = i /\ lock.written)
     THEN GoTo(i, "unlock")
     ELSE GoTo(i, "done")
  /\ UNCHANGED <<files, lock>>

Unlock(i) ==
  /\ At(i, "unlock")
  /\ lock' = NoLock
  /\ GoTo(i, "done")
  /\ UNCHANGED files

Crash(i) ==
  /\ Alive(i)
  /\ Cardinality({j \in Issuers : At(j, "crashed")}) < MaxCrashes
  /\ GoTo(i, "crashed")
  /\ UNCHANGED <<files, lock>>

-----------------------------------------------------------------------------
(***************************************************************************)
(* The server: one redemption at a time, without an await between claim()  *)
(* and the answer, but interleaved with the CLI processes.                 *)
(***************************************************************************)
Serving(place) == server.at = place

ServerStep(record) ==
  /\ server' = record
  /\ UNCHANGED <<clock, lock, issuer>>

Reply == ServerStep(Idle)

\* The caller of issue() holds the raw token only if issue() returned it.
ClaimBegin(d) ==
  /\ Serving("idle") /\ issuer[d].outcome = "issued"
  /\ ServerStep([Idle EXCEPT !.at = "clean", !.token = d, !.now = clock, !.todo = Entries])
  /\ UNCHANGED <<files, redeemed>>

ClaimCleanEntry(e) ==
  /\ Serving("clean") /\ e \in server.todo
  /\ IF ~Present(e)
     THEN Reply
     ELSE /\ ServerStep([server EXCEPT
                !.todo = @ \ {e},
                !.at = IF Past(e[1], server.now) THEN "clean-remove" ELSE "clean",
                !.doomed = IF Past(e[1], server.now) THEN e ELSE NoEntry])
  /\ UNCHANGED <<files, redeemed>>

ClaimCleanRemove ==
  /\ Serving("clean-remove")
  /\ files' = Removed(server.doomed)
  /\ ServerStep([server EXCEPT !.at = "clean", !.doomed = NoEntry])
  /\ UNCHANGED redeemed

\* Slip: the token stays in place while its session is created.
ClaimInPlace ==
  /\ Serving("clean") /\ server.todo = {}
  /\ IF files[server.token] # "absent"
     THEN ServerStep([server EXCEPT !.at = "create"]) /\ UNCHANGED files
     ELSE Reply /\ UNCHANGED files
  /\ UNCHANGED redeemed

ClaimRename ==
  /\ Serving("clean") /\ server.todo = {}
  /\ IF files[server.token] = "token"
     THEN /\ files' = [files EXCEPT ![server.token] = "consuming"]
          /\ ServerStep([server EXCEPT !.at = "read"])
     ELSE Reply /\ UNCHANGED files
  /\ UNCHANGED redeemed

ClaimRead ==
  /\ Serving("read")
  /\ IF files[server.token] = "consuming" /\ ~Past(server.token, server.now)
     THEN ServerStep([server EXCEPT !.at = "create"])
     ELSE Reply
  /\ UNCHANGED <<files, redeemed>>

CreateSession ==
  /\ Serving("create")
  /\ redeemed' = [redeemed EXCEPT ![server.token] = @ + 1]
  /\ ServerStep([server EXCEPT !.at = "release"])
  /\ UNCHANGED files

\* The claim is never restored.
CreateSessionFails ==
  /\ Serving("create")
  /\ Reply
  /\ UNCHANGED <<files, redeemed>>

ReleaseClaim ==
  /\ Serving("release")
  /\ files' = Removed(<<server.token, "consuming">>)
  /\ Reply
  /\ UNCHANGED redeemed

\* The server dies and starts again; what it was serving is not answered.
ServerRestart ==
  /\ ~Serving("idle")
  /\ ServerStep(Idle)
  /\ UNCHANGED <<files, redeemed>>

Tick ==
  /\ clock < MaxTime
  /\ clock' = clock + 1
  /\ UNCHANGED <<files, lock, issuer, server, redeemed>>

-----------------------------------------------------------------------------
Init ==
  /\ clock = 0
  /\ files = [d \in Issuers |-> "absent"]
  /\ lock = NoLock
  /\ issuer = [i \in Issuers |-> NotStarted]
  /\ server = Idle
  /\ redeemed = [d \in Issuers |-> 0]

IssuerNext(i) ==
  \/ CreateLock(i) \/ LockExists(i) \/ WriteLock(i)
  \/ InspectLock(i) \/ ConfirmLock(i) \/ ReclaimLock(i)
  \/ List(i) \/ Cleaned(i) \/ CleanRemove(i) \/ Relist(i) \/ Counted(i)
  \/ \E e \in Entry : CleanEntry(i, e) \/ CountEntry(i, e)
  \/ Publish(i) \/ PublishFails(i) \/ Sync(i) \/ SyncFails(i)
  \/ ReadOwnLock(i) \/ Unlock(i)

ServerNext ==
  \/ \E d \in Issuers : ClaimBegin(d)
  \/ \E e \in Entry : ClaimCleanEntry(e)
  \/ ClaimCleanRemove \/ ClaimRename \/ ClaimRead
  \/ CreateSession \/ CreateSessionFails \/ ReleaseClaim
  \/ ServerRestart

Next ==
  \/ \E i \in Issuers : Begin(i) \/ IssuerNext(i) \/ TimeOut(i) \/ Crash(i)
  \/ ServerNext
  \/ Tick

Spec == Init /\ [][Next]_vars

(***************************************************************************)
(* The operating system runs every live process.  Nobody has to start one, *)
(* and the ten-second deadline is not needed for progress.                 *)
(***************************************************************************)
FairSpec == Spec /\ \A i \in Issuers : WF_vars(IssuerNext(i))

-----------------------------------------------------------------------------
(***************************************************************************)
(* Properties.                                                             *)
(***************************************************************************)
IssuerStates ==
  [at: {"new", "done", "crashed"} \cup Waiting \cup Holding, issuedAt: 0..MaxTime,
   todo: SUBSET Entry, doomed: Entry \cup {NoEntry}, count: Nat,
   seen: Issuers \cup {None}, outcome: {"none", "issued", "failed"}]

ServerStates ==
  [at: {"idle", "clean", "clean-remove", "read", "create", "release"},
   token: Issuers \cup {None}, now: 0..MaxTime, todo: SUBSET Entry,
   doomed: Entry \cup {NoEntry}]

(* Type correctness. *)
TypeOK ==
  /\ clock \in 0..MaxTime
  /\ files \in [Issuers -> Kinds \cup {"absent"}]
  /\ lock \in [owner: Issuers \cup {None}, written: BOOLEAN]
  /\ issuer \in [Issuers -> IssuerStates]
  /\ server \in ServerStates
  /\ redeemed \in [Issuers -> Nat]

(***************************************************************************)
(* A token buys one session at most, whatever crashes and cleanups come    *)
(* between the rename that claims it and the release of the claim.         *)
(***************************************************************************)
RedeemedAtMostOnce == \A d \in Issuers : redeemed[d] <= 1

(***************************************************************************)
(* Cleaning never costs anybody a live token: an issued token that has no  *)
(* file any more was redeemed or has expired.                              *)
(***************************************************************************)
OnlySpentOrExpiredVanish ==
  \A d \in Issuers :
    issuer[d].outcome = "issued" /\ files[d] = "absent" =>
      redeemed[d] > 0 \/ Expires(d) <= clock

(***************************************************************************)
(* What the comment on withIssueLock() says of concurrent issuers: the     *)
(* directory never holds more than Capacity unexpired tokens and claims.   *)
(***************************************************************************)
Unexpired == {d \in Issuers : files[d] # "absent" /\ clock < Expires(d)}

CapacityRespected == Cardinality(Unexpired) <= Capacity

(***************************************************************************)
(* The lock serialises issuers: at most one is inside, and while it is,    *)
(* the lock file is its own.                                               *)
(***************************************************************************)
InsideLock(i) == issuer[i].at \in Holding \ {"unlock"}

LockExcludes ==
  \A i \in Issuers :
    InsideLock(i) => lock.owner = i /\ \A j \in Issuers \ {i} : ~InsideLock(j)

(***************************************************************************)
(* Every waiting issuer gets the lock or gives up, even when the holder of *)
(* a written lock has died; only a lock orphaned before its payload was    *)
(* written keeps issuers out until they time out.                          *)
(***************************************************************************)
OrphanedUnwritten == lock # NoLock /\ ~lock.written /\ ~Alive(lock.owner)

WaitingEnds ==
  \A i \in Issuers :
    issuer[i].at \in Waiting ~> issuer[i].at \notin Waiting \/ OrphanedUnwritten
=============================================================================
