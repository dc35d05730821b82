----------------------- MODULE LoginTokenStoreProofs -----------------------
(***************************************************************************)
(* Theorems about LoginTokenStore, for every set of issuers, capacity and  *)
(* lifetime.  The first ones do not need the lock to exclude anybody: they *)
(* rest on the rename that claims a token and on the order of the steps    *)
(* around it.  The others are about the lock, and about what it protects.  *)
(***************************************************************************)
EXTENDS LoginTokenStore, FiniteSetTheorems, TLAPS

(***************************************************************************)
(* The inductive invariant.  An issuer that is not Settled has published   *)
(* nothing yet, so nobody can know its token.                              *)
(***************************************************************************)
Settled == {"sync", "release", "unlock", "done", "crashed"}

Fresh(d) == issuer[d].at \notin Settled

UnknownBefore ==
  \A d \in Issuers :
    Fresh(d) => /\ files[d] = "absent" /\ redeemed[d] = 0
                /\ server.token # d /\ issuer[d].outcome # "issued"

ClaimedOnce ==
  /\ \A d \in Issuers : files[d] = "token" => redeemed[d] = 0
  /\ server.at # "idle" => server.token \in Issuers
  /\ server.at \in {"read", "create"} =>
       redeemed[server.token] = 0 /\ files[server.token] # "token"
  /\ server.at = "release" => redeemed[server.token] > 0

Overdue(d) == ~Fresh(d) /\ Expires(d) <= clock

DoomedOverdue(at, e) == at = "clean-remove" => e \in Entry /\ Overdue(e[1])

OnlyOverdueDoomed ==
  /\ \A i \in Issuers : DoomedOverdue(issuer[i].at, issuer[i].doomed)
  /\ DoomedOverdue(server.at, server.doomed)

ClocksRead == server.now <= clock /\ \A i \in Issuers : issuer[i].issuedAt <= clock

Vanished ==
  \A d \in Issuers :
    issuer[d].at = "sync" \/ issuer[d].outcome = "issued" =>
      files[d] # "absent" \/ redeemed[d] > 0 \/ Expires(d) <= clock

IInv ==
  /\ TypeOK /\ RedeemedAtMostOnce
  /\ UnknownBefore /\ ClaimedOnce /\ OnlyOverdueDoomed /\ ClocksRead /\ Vanished

-----------------------------------------------------------------------------
(***************************************************************************)
(* What a step of an issuer may do: prepare, publish or settle.            *)
(***************************************************************************)
OneOverdueRemoved ==
  \/ files' = files
  \/ \E d \in Issuers : Overdue(d) /\ files' = [files EXCEPT ![d] = "absent"]

Prepares(i, r) ==
  /\ Fresh(i) /\ r.at \notin Settled
  /\ r.outcome = issuer[i].outcome
  /\ r.issuedAt \in {issuer[i].issuedAt, clock}
  /\ DoomedOverdue(r.at, r.doomed)
  /\ OneOverdueRemoved

Publishes(i, r) ==
  /\ Fresh(i) /\ r.at = "sync"
  /\ r.issuedAt = issuer[i].issuedAt
  /\ files' = [files EXCEPT ![i] = "token"]

Settles(i, r) ==
  /\ r.at \in Settled \ {"sync"}
  /\ r.issuedAt = issuer[i].issuedAt
  /\ r.outcome = "issued" => issuer[i].at = "sync" \/ issuer[i].outcome = "issued"
  /\ UNCHANGED files

Locks == [owner: Issuers \cup {None}, written: BOOLEAN]

IssuerStep(i) ==
  /\ UNCHANGED <<clock, server, redeemed>>
  /\ lock' \in Locks
  /\ \E r \in IssuerStates :
       /\ issuer' = [issuer EXCEPT ![i] = r]
       /\ Prepares(i, r) \/ Publishes(i, r) \/ Settles(i, r)

(* Every action of an issuer is such a step. *)
LEMMA IssuerSteps ==
  ASSUME IInv, NEW i \in Issuers,
         Begin(i) \/ IssuerNext(i) \/ TimeOut(i) \/ Crash(i)
  PROVE  IssuerStep(i)
<1> DEFINE me == issuer[i]
<1>0. /\ me \in IssuerStates /\ clock \in 0..MaxTime /\ lock \in Locks
      /\ me = [at |-> me.at, issuedAt |-> me.issuedAt, todo |-> me.todo,
               doomed |-> me.doomed, count |-> me.count, seen |-> me.seen,
               outcome |-> me.outcome]
  BY DEF IInv, TypeOK, Locks, IssuerStates
<1>g. ASSUME NEW place \in {"acquire", "write", "inspect", "list", "relist", "publish"},
             GoTo(i, place), Fresh(i), UNCHANGED files, lock' \in Locks
      PROVE  IssuerStep(i)
  <2>1. [me EXCEPT !.at = place] \in IssuerStates
    BY <1>0, <1>g DEF IssuerStates, Waiting, Holding
  <2>2. Prepares(i, [me EXCEPT !.at = place])
    BY <1>0, <1>g DEF Prepares, IssuerStates, Settled, DoomedOverdue, OneOverdueRemoved
  <2> QED BY <2>1, <2>2, <1>g DEF IssuerStep, GoTo, Become
<1>s. ASSUME NEW place \in {"release", "unlock", "done", "crashed"},
             NEW outcome \in {me.outcome, "failed", "issued"},
             Become(i, [me EXCEPT !.at = place, !.outcome = outcome]),
             outcome = "issued" => me.at = "sync" \/ me.outcome = "issued",
             UNCHANGED files, lock' \in Locks
      PROVE  IssuerStep(i)
  <2>1. [me EXCEPT !.at = place, !.outcome = outcome] \in IssuerStates
    BY <1>0, <1>s DEF IssuerStates, Waiting, Holding
  <2>2. Settles(i, [me EXCEPT !.at = place, !.outcome = outcome])
    BY <1>0, <1>s DEF Settles, IssuerStates, Settled
  <2> QED BY <2>1, <2>2, <1>s DEF IssuerStep, Become
<1>e. ASSUME NEW place \in {"release", "unlock", "done", "crashed"},
             GoTo(i, place), UNCHANGED files, lock' \in Locks
      PROVE  IssuerStep(i)
  <2>1. [me EXCEPT !.at = place] = [me EXCEPT !.at = place, !.outcome = me.outcome]
    BY <1>0
  <2> QED BY <2>1, <1>e, <1>s DEF GoTo
<1>a. ASSUME Abandon(i), UNCHANGED <<files, lock>>
      PROVE  IssuerStep(i)
  BY <1>0, <1>a, <1>s DEF Abandon
<1>1. CASE Begin(i)
  BY <1>0, <1>1, <1>g DEF Begin, At, Fresh, Settled
<1>2. CASE CreateLock(i)
  BY <1>0, <1>2, <1>g DEF CreateLock, At, Fresh, Settled, Locks
<1>3. CASE LockExists(i)
  BY <1>0, <1>3, <1>g DEF LockExists, At, Fresh, Settled
<1>4. CASE WriteLock(i)
  BY <1>0, <1>4, <1>g DEF WriteLock, At, Fresh, Settled, Locks
<1>5. CASE InspectLock(i)
  <2> DEFINE r == [me EXCEPT !.at = "confirm", !.seen = lock.owner]
  <2>1. CASE Stale(lock)
    <3>1. r \in IssuerStates
      BY <1>0 DEF IssuerStates, Waiting, Holding, Locks
    <3>2. Prepares(i, r)
      BY <1>0, <1>5 DEF InspectLock, At, Prepares, Fresh, IssuerStates, Settled,
                        DoomedOverdue, OneOverdueRemoved
    <3> QED BY <1>0, <1>5, <2>1, <3>1, <3>2 DEF InspectLock, IssuerStep, Become
  <2>2. CASE ~Stale(lock)
    BY <1>0, <1>5, <2>2, <1>g DEF InspectLock, At, Fresh, Settled
  <2> QED BY <2>1, <2>2
<1>6. CASE ConfirmLock(i)
  <2> DEFINE same == lock.written /\ lock.owner = me.seen
             r == [me EXCEPT !.at = IF same THEN "reclaim" ELSE "acquire", !.seen = None]
  <2>1. r \in IssuerStates
    BY <1>0 DEF IssuerStates, Waiting, Holding
  <2>2. Prepares(i, r)
    BY <1>0, <1>6 DEF ConfirmLock, At, Prepares, Fresh, IssuerStates, Settled,
                      DoomedOverdue, OneOverdueRemoved
  <2> QED BY <1>0, <1>6, <2>1, <2>2 DEF ConfirmLock, IssuerStep, Become
<1>7. CASE ReclaimLock(i)
  BY <1>0, <1>7, <1>g DEF ReclaimLock, At, Fresh, Settled, Locks, NoLock
<1>8. CASE List(i)
  <2> DEFINE r == [me EXCEPT !.at = "clean", !.issuedAt = clock, !.todo = Entries]
  <2>1. Entries \in SUBSET Entry
    BY DEF IInv, TypeOK, Entries, Entry, Kinds
  <2>2. r \in IssuerStates
    BY <1>0, <2>1 DEF IssuerStates, Waiting, Holding
  <2>3. Prepares(i, r)
    BY <1>0, <1>8 DEF List, At, Prepares, Fresh, IssuerStates, Settled,
                      DoomedOverdue, OneOverdueRemoved
  <2> QED BY <1>0, <1>8, <2>2, <2>3 DEF List, IssuerStep, Become
<1>9. ASSUME NEW e \in Entry, CleanEntry(i, e) PROVE IssuerStep(i)
  <2> DEFINE late == Past(e[1], me.issuedAt)
             r == [me EXCEPT !.todo = @ \ {e},
                             !.at = IF late THEN "clean-remove" ELSE "clean",
                             !.doomed = IF late THEN e ELSE NoEntry]
  <2>1. CASE ~Present(e)
    BY <1>9, <2>1, <1>a DEF CleanEntry
  <2>2. CASE Present(e)
    <3>1. r \in IssuerStates
      BY <1>0, <1>9 DEF IssuerStates, Waiting, Holding
    <3>2. e[1] \in Issuers /\ e[2] \in {"token", "consuming"}
      BY DEF Entry, Kinds
    <3>3. ~Fresh(e[1])
      BY <2>2, <3>2 DEF Present, IInv, UnknownBefore
    <3>4. late => Overdue(e[1])
      <4>1. me.issuedAt <= clock /\ me.issuedAt \in Int /\ clock \in Int
        BY <1>0 DEF IInv, ClocksRead, IssuerStates
      <4>2. Expires(e[1]) \in Int
        BY <3>2, NumberAssumption DEF Expires, IInv, TypeOK, IssuerStates
      <4> QED BY <3>3, <4>1, <4>2 DEF Past, Overdue
    <3>5. Prepares(i, r)
      BY <1>0, <1>9, <3>4 DEF CleanEntry, At, Prepares, Fresh, IssuerStates, Settled,
                              DoomedOverdue, OneOverdueRemoved
    <3> QED BY <1>0, <1>9, <2>2, <3>1, <3>5 DEF CleanEntry, IssuerStep, Become
  <2> QED BY <2>1, <2>2
<1>10. CASE CleanRemove(i)
  <2> DEFINE r == [me EXCEPT !.at = "clean", !.doomed = NoEntry]
  <2>1. r \in IssuerStates
    BY <1>0 DEF IssuerStates, Waiting, Holding
  <2>2. me.doomed \in Entry /\ Overdue(me.doomed[1])
    BY <1>10 DEF CleanRemove, At, IInv, OnlyOverdueDoomed, DoomedOverdue
  <2>3. me.doomed[1] \in Issuers
    BY <2>2 DEF Entry
  <2>4. OneOverdueRemoved
    BY <1>10, <2>2, <2>3 DEF CleanRemove, Removed, OneOverdueRemoved
  <2>5. Prepares(i, r)
    BY <1>0, <1>10, <2>4 DEF CleanRemove, At, Prepares, Fresh, IssuerStates, Settled,
                             DoomedOverdue
  <2> QED BY <1>0, <1>10, <2>1, <2>5 DEF CleanRemove, IssuerStep, Become
<1>11. CASE Cleaned(i)
  BY <1>0, <1>11, <1>g DEF Cleaned, At, Fresh, Settled
<1>12. CASE Relist(i)
  <2> DEFINE r == [me EXCEPT !.at = "count", !.todo = Entries, !.count = 0]
  <2>1. Entries \in SUBSET Entry
    BY DEF IInv, TypeOK, Entries, Entry, Kinds
  <2>2. r \in IssuerStates
    BY <1>0, <2>1 DEF IssuerStates, Waiting, Holding
  <2>3. Prepares(i, r)
    BY <1>0, <1>12 DEF Relist, At, Prepares, Fresh, IssuerStates, Settled,
                       DoomedOverdue, OneOverdueRemoved
  <2> QED BY <1>0, <1>12, <2>2, <2>3 DEF Relist, IssuerStep, Become
<1>13. ASSUME NEW e \in Entry, CountEntry(i, e) PROVE IssuerStep(i)
  <2> DEFINE late == Past(e[1], me.issuedAt)
             n == IF late THEN me.count ELSE me.count + 1
             r == [me EXCEPT !.todo = @ \ {e}, !.count = n]
  <2>1. CASE ~Present(e)
    BY <1>13, <2>1, <1>a DEF CountEntry
  <2>2. CASE Present(e)
    <3>n. n \in Nat
      BY <1>0 DEF IssuerStates
    <3>1. r \in IssuerStates
      <4> HIDE DEF n
      <4> QED BY <1>0, <3>n DEF IssuerStates, Waiting, Holding
    <3>2. Prepares(i, r)
      BY <1>0, <1>13 DEF CountEntry, At, Prepares, Fresh, IssuerStates, Settled,
                         DoomedOverdue, OneOverdueRemoved
    <3> QED BY <1>0, <1>13, <2>2, <3>1, <3>2 DEF CountEntry, IssuerStep, Become
  <2> QED BY <2>1, <2>2
<1>14. CASE Counted(i)
  BY <1>0, <1>14, <1>g, <1>a DEF Counted, At, Fresh, Settled
<1>15. CASE Publish(i)
  <2>1. [me EXCEPT !.at = "sync"] \in IssuerStates
    BY <1>0 DEF IssuerStates, Waiting, Holding
  <2>2. Publishes(i, [me EXCEPT !.at = "sync"])
    BY <1>0, <1>15 DEF Publish, At, Publishes, Fresh, Settled, IssuerStates
  <2> QED BY <1>0, <1>15, <2>1, <2>2 DEF Publish, IssuerStep, GoTo, Become
<1>16. CASE PublishFails(i)
  BY <1>16, <1>a DEF PublishFails
<1>17. CASE Sync(i)
  BY <1>0, <1>17, <1>s DEF Sync, At
<1>18. CASE SyncFails(i)
  BY <1>18, <1>a DEF SyncFails
<1>19. CASE ReadOwnLock(i)
  BY <1>0, <1>19, <1>e DEF ReadOwnLock
<1>20. CASE Unlock(i)
  BY <1>0, <1>20, <1>e DEF Unlock, Locks, NoLock
<1>21. CASE TimeOut(i)
  BY <1>0, <1>21, <1>s DEF TimeOut
<1>22. CASE Crash(i)
  BY <1>0, <1>22, <1>e DEF Crash
<1> QED
  BY <1>1, <1>2, <1>3, <1>4, <1>5, <1>6, <1>7, <1>8, <1>9, <1>10, <1>11, <1>12, <1>13,
     <1>14, <1>15, <1>16, <1>17, <1>18, <1>19, <1>20, <1>21, <1>22 DEF IssuerNext

(* A step of an issuer keeps the invariant. *)
LEMMA IssuerKeeps ==
  ASSUME IInv, NEW i \in Issuers, IssuerStep(i)
  PROVE  IInv'
<1>1. PICK r \in IssuerStates :
         /\ issuer' = [issuer EXCEPT ![i] = r]
         /\ Prepares(i, r) \/ Publishes(i, r) \/ Settles(i, r)
  BY DEF IssuerStep
<1>2. UNCHANGED <<clock, server, redeemed>> /\ lock' \in Locks
  BY DEF IssuerStep
<1>3. /\ issuer \in [Issuers -> IssuerStates] /\ issuer' \in [Issuers -> IssuerStates]
      /\ issuer'[i] = r
      /\ \A d \in Issuers : d # i => issuer'[d] = issuer[d]
  BY <1>1 DEF IInv, TypeOK
<1>4. /\ files \in [Issuers -> Kinds \cup {"absent"}]
      /\ files' \in [Issuers -> Kinds \cup {"absent"}]
      /\ \A d \in Issuers : d # i => files'[d] = files[d] \/ (files'[d] = "absent" /\ Overdue(d))
  BY <1>1 DEF IInv, TypeOK, Kinds, Prepares, Publishes, Settles, OneOverdueRemoved
<1>5. files'[i] = files[i] \/ Publishes(i, r)
  BY <1>1, <1>4 DEF Prepares, Settles, OneOverdueRemoved, Overdue
<1>6. /\ ~Fresh(i) => r.at \in Settled
      /\ r.at \notin Settled => Prepares(i, r)
      /\ r.issuedAt # issuer[i].issuedAt => Prepares(i, r)
  BY <1>1 DEF Prepares, Publishes, Settles, Settled
<1>7. \A d \in Issuers : ~Fresh(d) => ~Fresh(d)' /\ Expires(d)' = Expires(d)
  BY <1>1, <1>3, <1>6 DEF Fresh, Expires, Prepares
<1>8. TypeOK'
  BY <1>2, <1>3, <1>4 DEF IInv, TypeOK, Locks
<1>9. RedeemedAtMostOnce'
  BY <1>2 DEF IInv, RedeemedAtMostOnce
<1>10. UnknownBefore'
  <2> SUFFICES ASSUME NEW d \in Issuers, Fresh(d)'
               PROVE  /\ files'[d] = "absent" /\ redeemed'[d] = 0
                      /\ server'.token # d /\ issuer'[d].outcome # "issued"
    BY DEF UnknownBefore
  <2>1. Fresh(d)
    BY <1>7
  <2>2. CASE d = i
    BY <1>1, <1>2, <1>3, <1>5, <1>6, <2>1, <2>2 DEF Fresh, Prepares, Publishes, Settled,
                                                    IInv, UnknownBefore
  <2>3. CASE d # i
    BY <1>2, <1>3, <1>4, <2>1, <2>3 DEF IInv, UnknownBefore
  <2> QED BY <2>2, <2>3
<1>11. ClaimedOnce'
  <2>1. ASSUME NEW d \in Issuers, files'[d] = "token", files[d] # "token"
        PROVE  redeemed[d] = 0 /\ server.token # d
    BY <1>4, <1>5, <2>1 DEF Publishes, IInv, UnknownBefore
  <2> QED BY <1>2, <2>1 DEF IInv, ClaimedOnce
<1>12. OnlyOverdueDoomed'
  <2>1. \A d \in Issuers : Overdue(d) => Overdue(d)'
    BY <1>2, <1>7 DEF Overdue
  <2>2. \A at, e : DoomedOverdue(at, e) => DoomedOverdue(at, e)'
    BY <2>1 DEF DoomedOverdue, Entry
  <2>3. DoomedOverdue(r.at, r.doomed)
    BY <1>1 DEF Prepares, Publishes, Settles, Settled, DoomedOverdue
  <2> QED BY <1>2, <1>3, <2>2, <2>3 DEF IInv, OnlyOverdueDoomed
<1>13. ClocksRead'
  <2>1. r.issuedAt <= clock
    BY <1>1 DEF Prepares, Publishes, Settles, IInv, ClocksRead, TypeOK
  <2> QED BY <1>2, <1>3, <2>1 DEF IInv, ClocksRead
<1>14. Vanished'
  <2> SUFFICES ASSUME NEW d \in Issuers,
                      issuer'[d].at = "sync" \/ issuer'[d].outcome = "issued",
                      files'[d] = "absent", ~(redeemed'[d] > 0)
               PROVE  Expires(d)' <= clock'
    BY DEF Vanished
  <2>1. CASE d = i
    <3>1. ~Publishes(i, r)
      BY <1>4, <2>1 DEF Publishes, Kinds
    <3>2. ~Prepares(i, r)
      BY <1>1, <1>3, <2>1 DEF Prepares, Settled, IInv, UnknownBefore
    <3>3. Settles(i, r)
      BY <1>1, <3>1, <3>2
    <3>4. Expires(d)' = Expires(d)
      BY <1>3, <2>1, <3>3 DEF Settles, Expires
    <3>5. issuer[d].at = "sync" \/ issuer[d].outcome = "issued"
      BY <1>3, <2>1, <3>3 DEF Settles, Settled
    <3> QED BY <1>2, <3>3, <3>4, <3>5, <2>1 DEF Settles, IInv, Vanished
  <2>2. CASE d # i
    <3>1. Expires(d)' = Expires(d)
      BY <1>3, <2>2 DEF Expires
    <3>2. CASE files'[d] = files[d]
      BY <1>2, <1>3, <2>2, <3>1, <3>2 DEF IInv, Vanished
    <3>3. CASE Overdue(d)
      BY <1>2, <3>1, <3>3 DEF Overdue
    <3> QED BY <1>4, <2>2, <3>2, <3>3
  <2> QED BY <2>1, <2>2
<1> QED BY <1>8, <1>9, <1>10, <1>11, <1>12, <1>13, <1>14 DEF IInv

-----------------------------------------------------------------------------
(* An answer puts the server back to waiting. *)
LEMMA ReplyKeeps ==
  ASSUME IInv, Reply, UNCHANGED <<files, redeemed>>
  PROVE  IInv'
<1>1. server' = Idle /\ UNCHANGED <<clock, lock, issuer, files, redeemed>>
  BY DEF Reply, ServerStep
<1>2. Idle \in ServerStates /\ Idle.at = "idle" /\ Idle.token = None /\ Idle.now = 0
  BY NumberAssumption DEF Idle, ServerStates
<1>3. TypeOK' /\ RedeemedAtMostOnce'
  BY <1>1, <1>2 DEF IInv, TypeOK, RedeemedAtMostOnce
<1>4. UnknownBefore'
  BY <1>1, <1>2, IssuerAssumption DEF IInv, UnknownBefore, Fresh
<1>5. ClaimedOnce'
  BY <1>1, <1>2 DEF IInv, ClaimedOnce
<1>6. OnlyOverdueDoomed'
  BY <1>1, <1>2 DEF IInv, OnlyOverdueDoomed, DoomedOverdue, Overdue, Fresh, Expires
<1>7. ClocksRead'
  BY <1>1, <1>2 DEF IInv, ClocksRead, TypeOK
<1>8. Vanished'
  BY <1>1 DEF IInv, Vanished, Expires
<1> QED BY <1>3, <1>4, <1>5, <1>6, <1>7, <1>8 DEF IInv

(* Every step of the server keeps the invariant. *)
LEMMA ServerKeeps ==
  ASSUME IInv, ServerNext
  PROVE  IInv'
<1>0. /\ server \in ServerStates
      /\ server = [at |-> server.at, token |-> server.token, now |-> server.now,
                   todo |-> server.todo, doomed |-> server.doomed]
      /\ files \in [Issuers -> Kinds \cup {"absent"}]
      /\ redeemed \in [Issuers -> Nat]
      /\ clock \in 0..MaxTime
  BY DEF IInv, TypeOK, ServerStates
<1>k. ASSUME server' \in ServerStates, UNCHANGED <<clock, lock, issuer>>,
             files' \in [Issuers -> Kinds \cup {"absent"}],
             redeemed' \in [Issuers -> Nat],
             server'.token \in Issuers, ~Fresh(server'.token), server'.now <= clock,
             DoomedOverdue(server'.at, server'.doomed),
             \A d \in Issuers : files'[d] = "token" => files[d] = "token",
             \A d \in Issuers : files'[d] = "absent" =>
               files[d] = "absent" \/ redeemed[d] > 0 \/ Overdue(d),
             \A d \in Issuers : redeemed'[d] >= redeemed[d] /\ redeemed'[d] <= 1,
             \A d \in Issuers :
               redeemed'[d] # redeemed[d] => ~Fresh(d) /\ files'[d] # "token",
             \A d \in Issuers : Fresh(d) => files'[d] = "absent",
             server'.at \in {"read", "create"} =>
               redeemed'[server'.token] = 0 /\ files'[server'.token] # "token",
             server'.at = "release" => redeemed'[server'.token] > 0
      PROVE  IInv'
  <2>1. TypeOK' /\ RedeemedAtMostOnce'
    BY <1>k, <1>0 DEF IInv, TypeOK, RedeemedAtMostOnce
  <2>2. UnknownBefore'
    BY <1>k DEF IInv, UnknownBefore, Fresh
  <2>3. ClaimedOnce'
    BY <1>k DEF IInv, ClaimedOnce
  <2>4. OnlyOverdueDoomed'
    BY <1>k DEF IInv, OnlyOverdueDoomed, DoomedOverdue, Overdue, Fresh, Expires
  <2>5. ClocksRead'
    BY <1>k DEF IInv, ClocksRead
  <2>6. Vanished'
    <3> SUFFICES ASSUME NEW d \in Issuers,
                        issuer[d].at = "sync" \/ issuer[d].outcome = "issued",
                        files'[d] = "absent", ~(redeemed'[d] > 0)
                 PROVE  Expires(d) <= clock
      BY <1>k DEF Vanished, Expires
    <3>1. ~(redeemed[d] > 0)
      BY <1>k, <1>0
    <3>2. files[d] = "absent" \/ Overdue(d)
      BY <1>k, <3>1
    <3> QED BY <3>1, <3>2 DEF IInv, Vanished, Overdue
  <2> QED BY <2>1, <2>2, <2>3, <2>4, <2>5, <2>6 DEF IInv
<1>b. server.at # "idle" =>
        server.token \in Issuers /\ ~Fresh(server.token) /\ server.now <= clock
  BY DEF IInv, ClaimedOnce, UnknownBefore, ClocksRead
<1>c. \A d \in Issuers : Fresh(d) => files[d] = "absent" /\ redeemed[d] = 0
  BY DEF IInv, UnknownBefore
<1>d. \A d \in Issuers : redeemed[d] <= 1 /\ redeemed[d] \in Nat
  BY <1>0 DEF IInv, RedeemedAtMostOnce
<1>1. ASSUME NEW d \in Issuers, ClaimBegin(d) PROVE IInv'
  <2> DEFINE r == [Idle EXCEPT !.at = "clean", !.token = d, !.now = clock, !.todo = Entries]
  <2>1. Entries \in SUBSET Entry
    BY <1>0 DEF Entries, Entry, Kinds
  <2>2. r \in ServerStates /\ r.token = d /\ r.now = clock /\ r.at = "clean"
    BY <1>0, <2>1 DEF Idle, ServerStates
  <2>3. server' = r /\ UNCHANGED <<clock, lock, issuer, files, redeemed>>
    BY <1>1 DEF ClaimBegin, ServerStep
  <2>4. ~Fresh(d)
    BY <1>1 DEF ClaimBegin, IInv, UnknownBefore
  <2>5. DoomedOverdue(r.at, r.doomed)
    BY <2>2 DEF DoomedOverdue
  <2> HIDE DEF r
  <2> QED BY <1>k, <1>0, <1>c, <1>d, <2>2, <2>3, <2>4, <2>5
<1>2. ASSUME NEW e \in Entry, ClaimCleanEntry(e) PROVE IInv'
  <2> DEFINE late == Past(e[1], server.now)
             r == [server EXCEPT !.todo = @ \ {e},
                                 !.at = IF late THEN "clean-remove" ELSE "clean",
                                 !.doomed = IF late THEN e ELSE NoEntry]
  <2>1. CASE ~Present(e)
    BY <1>2, <2>1, ReplyKeeps DEF ClaimCleanEntry
  <2>2. CASE Present(e)
    <3>1. r \in ServerStates /\ r.token = server.token /\ r.now = server.now
      BY <1>0 DEF ServerStates
    <3>2. r.at \in {"clean-remove", "clean"} /\ (r.at = "clean-remove" => late /\ r.doomed = e)
      <4> HIDE DEF late
      <4> QED BY <1>0
    <3>3. e[1] \in Issuers /\ e[2] \in {"token", "consuming"}
      BY DEF Entry, Kinds
    <3>4. late => Overdue(e[1])
      <4>1. ~Fresh(e[1])
        BY <1>c, <2>2, <3>3 DEF Present
      <4>2. server.now <= clock /\ server.now \in Int /\ clock \in Int
        BY <1>0 DEF IInv, ClocksRead, ServerStates
      <4>3. Expires(e[1]) \in Int
        BY <3>3, NumberAssumption DEF Expires, IInv, TypeOK, IssuerStates
      <4> QED BY <4>1, <4>2, <4>3 DEF Past, Overdue
    <3>5. DoomedOverdue(r.at, r.doomed)
      BY <3>2, <3>4 DEF DoomedOverdue
    <3>6. server' = r /\ UNCHANGED <<clock, lock, issuer, files, redeemed>> /\ server.at # "idle"
      BY <1>2, <2>2 DEF ClaimCleanEntry, ServerStep, Serving
    <3> HIDE DEF r
    <3> QED BY <1>k, <1>0, <1>b, <1>c, <1>d, <3>1, <3>2, <3>5, <3>6
  <2> QED BY <2>1, <2>2
<1>3. CASE ClaimCleanRemove
  <2> DEFINE r == [server EXCEPT !.at = "clean", !.doomed = NoEntry]
  <2>1. r \in ServerStates /\ r.token = server.token /\ r.now = server.now /\ r.at = "clean"
    BY <1>0 DEF ServerStates
  <2>2. server' = r /\ UNCHANGED <<clock, lock, issuer, redeemed>> /\ server.at = "clean-remove"
    BY <1>3 DEF ClaimCleanRemove, ServerStep, Serving
  <2>3. server.doomed[1] \in Issuers /\ Overdue(server.doomed[1])
    BY <2>2 DEF IInv, OnlyOverdueDoomed, DoomedOverdue, Entry
  <2>4. files' = files \/ files' = [files EXCEPT ![server.doomed[1]] = "absent"]
    BY <1>3 DEF ClaimCleanRemove, Removed
  <2>5. DoomedOverdue(r.at, r.doomed)
    BY <2>1 DEF DoomedOverdue
  <2> HIDE DEF r
  <2> QED BY <1>k, <1>0, <1>b, <1>c, <1>d, <2>1, <2>2, <2>3, <2>4, <2>5
<1>4. CASE ClaimRename
  <2> DEFINE r == [server EXCEPT !.at = "read"]
  <2>1. CASE files[server.token] # "token"
    BY <1>4, <2>1, ReplyKeeps DEF ClaimRename
  <2>2. CASE files[server.token] = "token"
    <3>1. r \in ServerStates /\ r.token = server.token /\ r.now = server.now /\ r.at = "read"
      BY <1>0 DEF ServerStates
    <3>2. /\ server' = r /\ UNCHANGED <<clock, lock, issuer, redeemed>>
          /\ server.at # "idle"
          /\ files' = [files EXCEPT ![server.token] = "consuming"]
      BY <1>4, <2>2 DEF ClaimRename, ServerStep, Serving
    <3>3. redeemed[server.token] = 0
      BY <1>b, <2>2, <3>2 DEF IInv, ClaimedOnce
    <3>4. DoomedOverdue(r.at, r.doomed)
      BY <3>1 DEF DoomedOverdue
    <3> HIDE DEF r
    <3> QED BY <1>k, <1>0, <1>b, <1>c, <1>d, <3>1, <3>2, <3>3, <3>4 DEF Kinds
  <2> QED BY <2>1, <2>2
<1>5. CASE ClaimRead
  <2> DEFINE r == [server EXCEPT !.at = "create"]
  <2>1. CASE ~(files[server.token] = "consuming" /\ ~Past(server.token, server.now))
    BY <1>5, <2>1, ReplyKeeps DEF ClaimRead
  <2>2. CASE files[server.token] = "consuming" /\ ~Past(server.token, server.now)
    <3>1. r \in ServerStates /\ r.token = server.token /\ r.now = server.now /\ r.at = "create"
      BY <1>0 DEF ServerStates
    <3>2. /\ server' = r /\ UNCHANGED <<clock, lock, issuer, files, redeemed>>
          /\ server.at = "read"
      BY <1>5, <2>2 DEF ClaimRead, ServerStep, Serving
    <3>3. redeemed[server.token] = 0 /\ files[server.token] # "token"
      BY <3>2 DEF IInv, ClaimedOnce
    <3>4. DoomedOverdue(r.at, r.doomed)
      BY <3>1 DEF DoomedOverdue
    <3> HIDE DEF r
    <3> QED BY <1>k, <1>0, <1>b, <1>c, <1>d, <3>1, <3>2, <3>3, <3>4
  <2> QED BY <2>1, <2>2
<1>6. CASE CreateSession
  <2> DEFINE r == [server EXCEPT !.at = "release"]
  <2>1. r \in ServerStates /\ r.token = server.token /\ r.now = server.now /\ r.at = "release"
    BY <1>0 DEF ServerStates
  <2>2. /\ server' = r /\ UNCHANGED <<clock, lock, issuer, files>>
        /\ server.at = "create"
        /\ redeemed' = [redeemed EXCEPT ![server.token] = @ + 1]
    BY <1>6 DEF CreateSession, ServerStep, Serving
  <2>3. redeemed[server.token] = 0 /\ files[server.token] # "token"
    BY <2>2 DEF IInv, ClaimedOnce
  <2>4. DoomedOverdue(r.at, r.doomed)
    BY <2>1 DEF DoomedOverdue
  <2> HIDE DEF r
  <2> QED BY <1>k, <1>0, <1>b, <1>c, <1>d, <2>1, <2>2, <2>3, <2>4
<1>7. CASE CreateSessionFails
  BY <1>7, ReplyKeeps DEF CreateSessionFails
<1>8. CASE ReleaseClaim
  <2>1. /\ server' = Idle /\ UNCHANGED <<clock, lock, issuer, redeemed>>
        /\ server.at = "release"
        /\ files' = files \/ files' = [files EXCEPT ![server.token] = "absent"]
    BY <1>8 DEF ReleaseClaim, Reply, ServerStep, Serving, Removed
  <2>2. server.token \in Issuers /\ redeemed[server.token] > 0
    BY <2>1 DEF IInv, ClaimedOnce
  <2>3. Idle \in ServerStates /\ Idle.at = "idle" /\ Idle.token = None /\ Idle.now = 0
    BY NumberAssumption DEF Idle, ServerStates
  <2>4. files' \in [Issuers -> Kinds \cup {"absent"}]
    BY <1>0, <2>1
  <2>5. TypeOK' /\ RedeemedAtMostOnce'
    BY <2>1, <2>3, <2>4 DEF IInv, TypeOK, RedeemedAtMostOnce
  <2>6. UnknownBefore'
    BY <1>0, <2>1, <2>3, IssuerAssumption DEF IInv, UnknownBefore, Fresh
  <2>7. ClaimedOnce'
    BY <1>0, <2>1, <2>3 DEF IInv, ClaimedOnce
  <2>8. OnlyOverdueDoomed'
    BY <2>1, <2>3 DEF IInv, OnlyOverdueDoomed, DoomedOverdue, Overdue, Fresh, Expires
  <2>9. ClocksRead'
    BY <2>1, <2>3 DEF IInv, ClocksRead, TypeOK
  <2>10. Vanished'
    BY <1>0, <2>1, <2>2 DEF IInv, Vanished, Expires
  <2> QED BY <2>5, <2>6, <2>7, <2>8, <2>9, <2>10 DEF IInv
<1>9. CASE ServerRestart
  BY <1>9, ReplyKeeps DEF ServerRestart, Reply
<1> QED BY <1>1, <1>2, <1>3, <1>4, <1>5, <1>6, <1>7, <1>8, <1>9 DEF ServerNext

(* The passing of time keeps the invariant. *)
LEMMA TickKeeps ==
  ASSUME IInv, Tick
  PROVE  IInv'
<1>1. /\ clock' = clock + 1 /\ clock' \in 0..MaxTime
      /\ UNCHANGED <<files, lock, issuer, server, redeemed>>
  BY NumberAssumption DEF Tick, IInv, TypeOK
<1>2. \A n \in Int : n <= clock => n <= clock'
  BY <1>1 DEF IInv, TypeOK
<1>3. \A d \in Issuers : Expires(d) \in Int /\ issuer[d].issuedAt \in Int
  BY NumberAssumption DEF Expires, IInv, TypeOK, IssuerStates
<1>4. TypeOK' /\ RedeemedAtMostOnce' /\ UnknownBefore' /\ ClaimedOnce'
  BY <1>1 DEF IInv, TypeOK, RedeemedAtMostOnce, UnknownBefore, ClaimedOnce, Fresh
<1>5. OnlyOverdueDoomed'
  <2>1. \A d \in Issuers : Overdue(d) => Overdue(d)'
    BY <1>1, <1>2, <1>3 DEF Overdue, Fresh, Expires
  <2> QED BY <1>1, <2>1 DEF IInv, OnlyOverdueDoomed, DoomedOverdue, Entry
<1>6. ClocksRead'
  BY <1>1, <1>2, <1>3 DEF IInv, ClocksRead, TypeOK, ServerStates
<1>7. Vanished'
  BY <1>1, <1>2, <1>3 DEF IInv, Vanished, Expires
<1> QED BY <1>4, <1>5, <1>6, <1>7 DEF IInv

(* The invariant holds at the beginning. *)
LEMMA InitEstablishes == Init => IInv
<1> SUFFICES ASSUME Init PROVE IInv
  OBVIOUS
<1>1. NotStarted \in IssuerStates /\ NotStarted.at = "new" /\ NotStarted.issuedAt = 0
      /\ NotStarted.outcome = "none"
  BY NumberAssumption DEF NotStarted, IssuerStates
<1>2. Idle \in ServerStates /\ Idle.at = "idle" /\ Idle.token = None /\ Idle.now = 0
  BY NumberAssumption DEF Idle, ServerStates
<1>3. TypeOK /\ RedeemedAtMostOnce
  BY <1>1, <1>2, NumberAssumption DEF Init, TypeOK, RedeemedAtMostOnce, NoLock
<1>4. UnknownBefore
  BY <1>1, <1>2, IssuerAssumption DEF Init, UnknownBefore
<1>5. ClaimedOnce
  BY <1>2 DEF Init, ClaimedOnce
<1>6. OnlyOverdueDoomed
  BY <1>1, <1>2 DEF Init, OnlyOverdueDoomed, DoomedOverdue
<1>7. ClocksRead
  BY <1>1, <1>2 DEF Init, ClocksRead
<1>8. Vanished
  BY <1>1 DEF Init, Vanished
<1> QED BY <1>3, <1>4, <1>5, <1>6, <1>7, <1>8 DEF IInv

(* The invariant is inductive. *)
LEMMA Invariant == Spec => []IInv
<1>1. IInv /\ [Next]_vars => IInv'
  <2> SUFFICES ASSUME IInv, [Next]_vars PROVE IInv'
    OBVIOUS
  <2>1. ASSUME NEW i \in Issuers, Begin(i) \/ IssuerNext(i) \/ TimeOut(i) \/ Crash(i)
        PROVE  IInv'
    BY <2>1, IssuerSteps, IssuerKeeps
  <2>2. CASE ServerNext
    BY <2>2, ServerKeeps
  <2>3. CASE Tick
    BY <2>3, TickKeeps
  <2>4. CASE UNCHANGED vars
    BY <2>4 DEF vars, IInv, TypeOK, RedeemedAtMostOnce, UnknownBefore, ClaimedOnce,
                OnlyOverdueDoomed, DoomedOverdue, Overdue, ClocksRead, Vanished, Fresh,
                Expires
  <2> QED BY <2>1, <2>2, <2>3, <2>4 DEF Next
<1> QED BY <1>1, InitEstablishes, PTL DEF Spec

-----------------------------------------------------------------------------
(***************************************************************************)
(* Every variable keeps its type; a step never leaves the places that the  *)
(* code of issue() and of claim() has.                                     *)
(***************************************************************************)
THEOREM TokenTypesCorrect == Spec => []TypeOK
<1>1. IInv => TypeOK
  BY DEF IInv
<1> QED BY <1>1, Invariant, PTL

(***************************************************************************)
(* A token buys one session at most, for any number of issuers, whatever   *)
(* the lock does and whoever dies between the claim and its release.       *)
(***************************************************************************)
THEOREM RedeemedOnce == Spec => []RedeemedAtMostOnce
<1>1. IInv => RedeemedAtMostOnce
  BY DEF IInv
<1> QED BY <1>1, Invariant, PTL

(***************************************************************************)
(* The cleaning of issuers and server takes no live token, for any number  *)
(* of issuers: what was issued and is gone was redeemed or has expired.    *)
(***************************************************************************)
THEOREM LiveTokensStay == Spec => []OnlySpentOrExpiredVanish
<1>1. IInv => OnlySpentOrExpiredVanish
  BY DEF IInv, Vanished, OnlySpentOrExpiredVanish
<1> QED BY <1>1, Invariant, PTL

-----------------------------------------------------------------------------
(***************************************************************************)
(* The lock.  Its name belongs to whoever owns it from the creation of the *)
(* file to its removal.                                                    *)
(***************************************************************************)
Owns(i) == issuer[i].at \in Holding \cup {"write"}

Exclusive == \A i \in Issuers : Owns(i) => lock.owner = i

Crashed(i) == At(i, "crashed")

Takes(i) ==
  /\ lock = NoLock /\ lock' = [owner |-> i, written |-> FALSE]
  /\ issuer'[i].at = "write"

Writes(i) ==
  /\ lock' = IF lock.owner = i THEN [lock EXCEPT !.written = TRUE] ELSE lock
  /\ At(i, "write") /\ issuer'[i].at \in Holding

Reclaims(i) == lock' = NoLock /\ ReclaimLock(i) /\ At(i, "reclaim") /\ issuer'[i].at = "acquire"

Unlocks(i) == lock' = NoLock /\ At(i, "unlock") /\ issuer'[i].at = "done"

\* What an issuer without the lock may find out.
LooksOn(i) ==
  /\ lock' = lock /\ ~Owns(i)
  /\ issuer'[i].at \in {"acquire", "inspect", "confirm", "reclaim", "done"}
  /\ issuer'[i].at = "confirm" => Stale(lock) /\ issuer'[i].seen = lock.owner
  /\ issuer'[i].at = "reclaim" => At(i, "confirm") /\ lock.owner = issuer[i].seen

WorksInside(i) ==
  /\ lock' = lock /\ issuer[i].at \in Holding
  /\ \/ issuer'[i].at \in Holding
     \/ issuer'[i].at = "done" /\ ~(lock.owner = i /\ lock.written)

Dies(i) == Crash(i) /\ lock' = lock /\ issuer'[i].at = "crashed"

LockStep(i) ==
  \/ Takes(i) \/ Writes(i) \/ Reclaims(i) \/ Unlocks(i)
  \/ LooksOn(i) \/ WorksInside(i) \/ Dies(i)

(* What each action of an issuer does to the lock.                         *)
LEMMA LockSteps ==
  ASSUME IInv, NEW i \in Issuers, Begin(i) \/ IssuerNext(i) \/ TimeOut(i) \/ Crash(i)
  PROVE  LockStep(i)
<1> DEFINE me == issuer[i]
<1>0. /\ lock \in Locks
      /\ me = [at |-> me.at, issuedAt |-> me.issuedAt, todo |-> me.todo,
               doomed |-> me.doomed, count |-> me.count, seen |-> me.seen,
               outcome |-> me.outcome]
  BY DEF IInv, TypeOK, Locks, IssuerStates
<1>1. ASSUME NEW r, Become(i, r) PROVE issuer'[i] = r
  BY <1>1 DEF Become, IInv, TypeOK
<1>2. ASSUME NEW place, GoTo(i, place) PROVE issuer'[i].at = place
  BY <1>0, <1>1, <1>2 DEF GoTo
<1>3. Abandon(i) => issuer'[i].at = "release"
  BY <1>0, <1>1 DEF Abandon
<1>4. CASE CreateLock(i)
  BY <1>2, <1>4 DEF CreateLock, Takes, LockStep
<1>5. CASE WriteLock(i)
  BY <1>2, <1>5 DEF WriteLock, Writes, LockStep, Holding
<1>6. CASE ReclaimLock(i)
  BY <1>2, <1>6 DEF ReclaimLock, Reclaims, LockStep
<1>7. CASE Unlock(i)
  BY <1>2, <1>7 DEF Unlock, Unlocks, LockStep
<1>8. CASE Begin(i) \/ LockExists(i)
  BY <1>2, <1>8 DEF Begin, LockExists, At, Owns, Holding, LooksOn, LockStep
<1>9. CASE InspectLock(i)
  <2>1. CASE Stale(lock)
    <3>1. issuer'[i] = [me EXCEPT !.at = "confirm", !.seen = lock.owner]
      BY <1>1, <1>9, <2>1 DEF InspectLock
    <3>2. issuer'[i].at = "confirm" /\ issuer'[i].seen = lock.owner
      BY <1>0, <3>1
    <3> QED BY <1>9, <2>1, <3>2 DEF InspectLock, At, Owns, Holding, LooksOn, LockStep
  <2>2. CASE ~Stale(lock)
    BY <1>2, <1>9, <2>2 DEF InspectLock, At, Owns, Holding, LooksOn, LockStep
  <2> QED BY <2>1, <2>2
<1>10. CASE ConfirmLock(i)
  <2> DEFINE same == lock.written /\ lock.owner = me.seen
  <2>1. issuer'[i] = [me EXCEPT !.at = IF same THEN "reclaim" ELSE "acquire", !.seen = None]
    BY <1>1, <1>10 DEF ConfirmLock
  <2>2. issuer'[i].at = IF same THEN "reclaim" ELSE "acquire"
    BY <1>0, <2>1
  <2> QED BY <1>10, <2>2 DEF ConfirmLock, At, Owns, Holding, LooksOn, LockStep
<1>11. CASE TimeOut(i)
  <2>1. issuer'[i].at = "done"
    BY <1>0, <1>1, <1>11 DEF TimeOut
  <2> QED BY <1>11, <2>1 DEF TimeOut, At, Owns, Holding, LooksOn, LockStep
<1>12. CASE Crash(i)
  BY <1>2, <1>12 DEF Crash, Dies, LockStep
<1>13. CASE List(i)
  BY <1>0, <1>1, <1>13 DEF List, At, Holding, WorksInside, LockStep
<1>14. ASSUME NEW e, CleanEntry(i, e) PROVE LockStep(i)
  <2>1. issuer'[i].at \in {"release", "clean", "clean-remove"}
    BY <1>0, <1>1, <1>3, <1>14 DEF CleanEntry
  <2> QED BY <1>14, <2>1 DEF CleanEntry, At, Holding, WorksInside, LockStep
<1>15. CASE CleanRemove(i)
  BY <1>0, <1>1, <1>15 DEF CleanRemove, At, Holding, WorksInside, LockStep
<1>16. CASE Cleaned(i) \/ Publish(i)
  BY <1>2, <1>16 DEF Cleaned, Publish, At, Holding, WorksInside, LockStep
<1>17. CASE Relist(i)
  BY <1>0, <1>1, <1>17 DEF Relist, At, Holding, WorksInside, LockStep
<1>18. ASSUME NEW e, CountEntry(i, e) PROVE LockStep(i)
  <2>1. issuer'[i].at \in {"release", "count"}
    BY <1>0, <1>1, <1>3, <1>18 DEF CountEntry, At
  <2> QED BY <1>18, <2>1 DEF CountEntry, At, Holding, WorksInside, LockStep
<1>19. CASE Counted(i)
  BY <1>2, <1>3, <1>19 DEF Counted, At, Holding, WorksInside, LockStep
<1>20. CASE PublishFails(i) \/ SyncFails(i)
  BY <1>3, <1>20 DEF PublishFails, SyncFails, At, Holding, WorksInside, LockStep
<1>21. CASE Sync(i)
  <2>1. issuer'[i].at = "release"
    BY <1>0, <1>1, <1>21 DEF Sync
  <2> QED BY <1>21, <2>1 DEF Sync, At, Holding, WorksInside, LockStep
<1>22. CASE ReadOwnLock(i)
  BY <1>2, <1>22 DEF ReadOwnLock, At, Holding, WorksInside, LockStep
<1> QED
  BY <1>4, <1>5, <1>6, <1>7, <1>8, <1>9, <1>10, <1>11, <1>12, <1>13, <1>14, <1>15, <1>16, <1>17,
     <1>18, <1>19, <1>20, <1>21, <1>22 DEF IssuerNext

(* Who moves: the other issuers stay as they are.                          *)
LEMMA OneIssuerMoves ==
  ASSUME IInv, NEW i \in Issuers, IssuerStep(i)
  PROVE  /\ issuer'[i] \in IssuerStates
         /\ \A j \in Issuers \ {i} : issuer'[j] = issuer[j]
BY DEF IssuerStep, IInv, TypeOK

(* Neither the server nor the clock touches the lock or an issuer, and the *)
(* server publishes nothing.                                               *)
LEMMA OthersLeaveIssuers ==
  ASSUME IInv, ServerNext \/ Tick \/ UNCHANGED vars
  PROVE  /\ UNCHANGED <<lock, issuer>> /\ clock <= clock' /\ clock' \in Nat
         /\ \A d \in Issuers : files'[d] # "absent" => files[d] # "absent"
<1>0. clock \in Nat
  BY NumberAssumption DEF IInv, TypeOK
<1>1. CASE Tick \/ UNCHANGED vars
  BY <1>0, <1>1 DEF Tick, vars
<1>2. CASE ServerNext
  <2>1. UNCHANGED <<clock, lock, issuer>>
    BY <1>2 DEF ServerNext, ClaimBegin, ClaimCleanEntry, ClaimCleanRemove, ClaimRename, ClaimRead,
       CreateSession, CreateSessionFails, ReleaseClaim, ServerRestart, ServerStep, Reply
  <2>2. \/ files' = files
        \/ \E e : files' = Removed(e)
        \/ files[server.token] = "token" /\ files' = [files EXCEPT ![server.token] = "consuming"]
    BY <1>2 DEF ServerNext, ClaimBegin, ClaimCleanEntry, ClaimCleanRemove, ClaimRename, ClaimRead,
       CreateSession, CreateSessionFails, ReleaseClaim, ServerRestart
  <2>3. files \in [Issuers -> Kinds \cup {"absent"}]
    BY DEF IInv, TypeOK
  <2> QED BY <1>0, <2>1, <2>2, <2>3 DEF Removed
<1> QED BY <1>1, <1>2

\* reclaimStaleIssueLock() unlinks a lock whose owner is still at work.
UnlinksHeld == \E i, j \in Issuers : ReclaimLock(i) /\ lock.owner = j /\ Owns(j)

HeldLocksStay == [][~UnlinksHeld]_vars

(* An issuer takes the lock only when it is free, and gives it back only   *)
(* as its owner; so nobody loses it but to a reclaimer.                    *)
LEMMA ExclusiveKept ==
  ASSUME IInv, Exclusive, [Next]_vars, ~UnlinksHeld
  PROVE  Exclusive'
<1>1. CASE ServerNext \/ Tick \/ UNCHANGED vars
  BY <1>1, OthersLeaveIssuers DEF Exclusive, Owns
<1>2. ASSUME NEW i \in Issuers, Begin(i) \/ IssuerNext(i) \/ TimeOut(i) \/ Crash(i)
      PROVE  Exclusive'
  <2>1. \A j \in Issuers \ {i} : issuer'[j] = issuer[j]
    BY <1>2, IssuerSteps, OneIssuerMoves
  <2>2. LockStep(i)
    BY <1>2, LockSteps
  <2>3. CASE Takes(i)
    <3>1. \A j \in Issuers : ~Owns(j)
      BY <2>3, IssuerAssumption DEF Takes, Exclusive, NoLock
    <3> QED BY <2>1, <2>3, <3>1 DEF Takes, Exclusive, Owns
  <2>4. CASE Reclaims(i)
    <3>1. \A j \in Issuers : ~Owns(j)
      BY <2>4 DEF Reclaims, Exclusive, UnlinksHeld
    <3> QED BY <2>1, <2>4, <3>1 DEF Reclaims, Exclusive, Owns, Holding
  <2>5. CASE Unlocks(i)
    <3>1. \A j \in Issuers \ {i} : ~Owns(j)
      BY <2>5 DEF Unlocks, At, Exclusive, Owns, Holding
    <3> QED BY <2>1, <2>5, <3>1 DEF Unlocks, Exclusive, Owns, Holding
  <2>6. CASE Writes(i) \/ WorksInside(i)
    <3>1. Owns(i)
      BY <2>6 DEF Writes, WorksInside, At, Owns
    <3>2. lock'.owner = lock.owner
      BY <2>6 DEF Writes, WorksInside, IInv, TypeOK
    <3> QED BY <2>1, <3>1, <3>2 DEF Exclusive, Owns
  <2>7. CASE LooksOn(i) \/ Dies(i)
    BY <2>1, <2>7 DEF LooksOn, Dies, Exclusive, Owns, Holding
  <2> QED BY <2>2, <2>3, <2>4, <2>5, <2>6, <2>7 DEF LockStep
<1> QED BY <1>1, <1>2 DEF Next

(***************************************************************************)
(* Whoever is named by the lock holds it or has died, so that a stale lock *)
(* is one of a process that died; and only then anybody reclaims.          *)
(***************************************************************************)
HeldOrDead ==
  /\ lock.written => lock.owner # None
  /\ \A j \in Issuers :
       lock.owner = j =>
         At(j, "write") \/ Crashed(j) \/ (issuer[j].at \in Holding /\ lock.written)

Mourned ==
  \A i \in Issuers :
    /\ At(i, "confirm") => issuer[i].seen \in {j \in Issuers : Crashed(j)}
    /\ At(i, "reclaim") => \E j \in Issuers : Crashed(j)

(* Every step keeps both.                                                  *)
LEMMA MournedKept ==
  ASSUME IInv, HeldOrDead, Mourned, [Next]_vars
  PROVE  HeldOrDead' /\ Mourned'
<1>1. CASE ServerNext \/ Tick \/ UNCHANGED vars
  BY <1>1, OthersLeaveIssuers DEF HeldOrDead, Mourned, At, Crashed
<1>2. ASSUME NEW i \in Issuers, Begin(i) \/ IssuerNext(i) \/ TimeOut(i) \/ Crash(i)
      PROVE  HeldOrDead' /\ Mourned'
  <2>1. \A j \in Issuers \ {i} : issuer'[j] = issuer[j]
    BY <1>2, IssuerSteps, OneIssuerMoves
  <2>2. LockStep(i)
    BY <1>2, LockSteps
  <2>3. ~Crashed(i)
    BY <1>2 DEF Crashed, At, IssuerNext, Begin, CreateLock, LockExists, WriteLock, InspectLock,
       ConfirmLock, ReclaimLock, List, Cleaned, CleanRemove, Relist, Counted, CleanEntry,
       CountEntry, Publish, PublishFails, Sync, SyncFails, ReadOwnLock, Unlock, TimeOut, Crash,
       Alive
  <2>4. \A j \in Issuers : Crashed(j) => Crashed(j)'
    BY <2>1, <2>3 DEF Crashed, At
  <2>5. HeldOrDead'
    <3> SUFFICES ASSUME NEW j \in Issuers, lock'.owner = j
                 PROVE  \/ issuer'[j].at \in {"write", "crashed"}
                        \/ issuer'[j].at \in Holding /\ lock'.written
      <4>1. lock'.written => lock'.owner # None
        BY <2>2, IssuerAssumption DEF LockStep, Takes, Writes, Reclaims, Unlocks, LooksOn,
           WorksInside, Dies, HeldOrDead, NoLock, IInv, TypeOK
      <4> QED BY <4>1 DEF HeldOrDead, At, Crashed
    <3>1. j # None /\ NoLock.owner = None
      BY IssuerAssumption DEF NoLock
    <3>2. CASE Takes(i)
      BY <3>1, <3>2 DEF Takes
    <3>3. CASE Writes(i)
      BY <2>1, <3>3 DEF Writes, HeldOrDead, At, Crashed, IInv, TypeOK
    <3>4. CASE Reclaims(i) \/ Unlocks(i)
      BY <3>1, <3>4 DEF Reclaims, Unlocks
    <3>5. CASE LooksOn(i)
      BY <2>1, <2>3, <3>5 DEF LooksOn, HeldOrDead, At, Crashed, Owns
    <3>6. CASE WorksInside(i)
      BY <2>1, <2>3, <3>6 DEF WorksInside, HeldOrDead, At, Crashed, Holding
    <3>7. CASE Dies(i)
      BY <2>1, <3>7 DEF Dies, HeldOrDead, At, Crashed
    <3> QED BY <2>2, <3>2, <3>3, <3>4, <3>5, <3>6, <3>7 DEF LockStep
  <2>6. Mourned'
    <3>1. ASSUME issuer'[i].at = "confirm" PROVE issuer'[i].seen \in {j \in Issuers : Crashed(j)'}
      <4>1. Stale(lock) /\ issuer'[i].seen = lock.owner
        BY <2>2, <3>1 DEF LockStep, Takes, Writes, Reclaims, Unlocks, LooksOn,
           WorksInside, Dies, Holding
      <4>2. lock.owner \in Issuers
        BY <4>1 DEF Stale, HeldOrDead, IInv, TypeOK
      <4>3. Crashed(lock.owner)
        BY <4>1, <4>2 DEF Stale, Alive, HeldOrDead, At, Crashed, Holding
      <4> QED BY <2>4, <4>1, <4>2, <4>3
    <3>2. ASSUME issuer'[i].at = "reclaim" PROVE \E j \in Issuers : Crashed(j)'
      <4>1. At(i, "confirm")
        BY <2>2, <3>2 DEF LockStep, Takes, Writes, Reclaims, Unlocks, LooksOn,
           WorksInside, Dies, Holding
      <4> QED BY <2>4, <4>1 DEF Mourned
    <3>3. \A j \in Issuers \ {i} :
            /\ At(j, "confirm")' => issuer'[j].seen \in {k \in Issuers : Crashed(k)'}
            /\ At(j, "reclaim")' => \E k \in Issuers : Crashed(k)'
      BY <2>1, <2>4 DEF Mourned, At
    <3> QED BY <3>1, <3>2, <3>3 DEF Mourned, At
  <2> QED BY <2>5, <2>6
<1> QED BY <1>1, <1>2 DEF Next

(* While no held lock is unlinked, the lock is exclusive.                  *)
LEMMA ExclusiveUnlessUnlinked == Spec /\ HeldLocksStay => []Exclusive
<1>1. Init => Exclusive
  BY DEF Init, NotStarted, Exclusive, Owns, Holding
<1>2. IInv /\ Exclusive /\ [Next]_vars /\ [~UnlinksHeld]_vars => Exclusive'
  <2>1. ASSUME IInv, Exclusive, UNCHANGED vars PROVE Exclusive'
    BY <2>1 DEF vars, Exclusive, Owns
  <2> QED BY <2>1, ExclusiveKept
<1> QED BY <1>1, <1>2, Invariant, PTL DEF Spec, HeldLocksStay

(***************************************************************************)
(* While no held lock is unlinked, at most one issuer is inside the lock,  *)
(* and the lock file is its own: for any number of issuers and crashes.    *)
(* reclaimStaleIssueLock() is the only code that can break the exclusion.  *)
(***************************************************************************)
THEOREM LockExcludesUnlessUnlinked == Spec /\ HeldLocksStay => []LockExcludes
<1>1. Exclusive => LockExcludes
  BY DEF Exclusive, LockExcludes, InsideLock, Owns
<1> QED BY <1>1, ExclusiveUnlessUnlinked, PTL

(***************************************************************************)
(* Where nobody dies, or where there are two issuers at most, no held lock *)
(* is ever unlinked: it takes an owner that died, a reclaimer that judged  *)
(* its lock, and a third issuer that got the name in between.              *)
(***************************************************************************)
NobodyDied == MaxCrashes = 0 => \A j \in Issuers : ~Crashed(j)

FewHands == MaxCrashes = 0 \/ Cardinality(Issuers) <= 2

(* Nobody dies who may not.                                                *)
LEMMA NobodyDiesKept ==
  ASSUME IInv, NobodyDied, [Next]_vars
  PROVE  NobodyDied'
<1> SUFFICES ASSUME MaxCrashes = 0 PROVE \A j \in Issuers : ~Crashed(j)'
  BY DEF NobodyDied
<1>1. CASE ServerNext \/ Tick \/ UNCHANGED vars
  BY <1>1, OthersLeaveIssuers DEF NobodyDied, Crashed, At
<1>2. ASSUME NEW i \in Issuers, Begin(i) \/ IssuerNext(i) \/ TimeOut(i) \/ Crash(i)
      PROVE  \A j \in Issuers : ~Crashed(j)'
  <2>1. \A j \in Issuers \ {i} : issuer'[j] = issuer[j]
    BY <1>2, IssuerSteps, OneIssuerMoves
  <2>2. {j \in Issuers : At(j, "crashed")} = {}
    BY DEF NobodyDied, Crashed
  <2>3. ~Crash(i)
    <3>1. Cardinality({j \in Issuers : At(j, "crashed")}) = 0
      BY <2>2, FS_EmptySet
    <3> QED BY <3>1 DEF Crash
  <2>4. issuer'[i].at # "crashed"
    BY <1>2, <2>3, LockSteps DEF LockStep, Takes, Writes, Reclaims, Unlocks, LooksOn,
       WorksInside, Dies, Holding
  <2> QED BY <2>1, <2>4 DEF NobodyDied, Crashed, At
<1> QED BY <1>1, <1>2 DEF Next

(* A reclaimer, the owner it takes the lock from and the dead one are      *)
(* three.                                                                  *)
LEMMA FewHandsUnlinkNothing ==
  ASSUME FewHands, IInv, Mourned, NobodyDied
  PROVE  ~UnlinksHeld
<1> SUFFICES ASSUME NEW i \in Issuers, NEW j \in Issuers, ReclaimLock(i), Owns(j)
             PROVE  FALSE
  BY DEF UnlinksHeld
<1>1. PICK k \in Issuers : Crashed(k)
  BY DEF ReclaimLock, Mourned
<1>2. i # j /\ i # k /\ j # k
  BY <1>1 DEF ReclaimLock, At, Owns, Holding, Crashed
<1>3. Cardinality({i, j, k}) = 3
  <2>1. IsFiniteSet({}) /\ Cardinality({}) = 0
    BY FS_EmptySet
  <2>2. IsFiniteSet({} \cup {i}) /\ Cardinality({} \cup {i}) = 1
    BY <2>1, FS_AddElement
  <2>3. IsFiniteSet({i} \cup {j}) /\ Cardinality({i} \cup {j}) = 2
    <3>1. {} \cup {i} = {i} /\ j \notin {i}
      BY <1>2
    <3> QED BY <2>2, <3>1, FS_AddElement
  <2>4. {i} \cup {j} \cup {k} = {i, j, k} /\ k \notin {i} \cup {j}
    BY <1>2
  <2> QED BY <2>3, <2>4, FS_AddElement
<1>4. Cardinality({i, j, k}) <= Cardinality(Issuers) /\ Cardinality(Issuers) \in Nat
  BY FS_Subset, FS_CardinalityType, IssuerAssumption
<1> QED BY <1>1, <1>3, <1>4 DEF FewHands, NobodyDied

(* So no step unlinks a held lock.                                         *)
LEMMA FewHandsKeepLocks ==
  ASSUME FewHands PROVE Spec => HeldLocksStay
<1> DEFINE Inv == HeldOrDead /\ Mourned /\ NobodyDied
<1>1. Init => Inv
  BY IssuerAssumption DEF Init, NotStarted, NoLock, HeldOrDead, Mourned, NobodyDied, At, Crashed
<1>2. IInv /\ Inv => [~UnlinksHeld]_vars
  BY FewHandsUnlinkNothing
<1>3. IInv /\ Inv /\ [Next]_vars => Inv'
  BY MournedKept, NobodyDiesKept
<1> HIDE DEF Inv
<1> QED BY <1>1, <1>2, <1>3, Invariant, PTL DEF Spec, HeldLocksStay

(***************************************************************************)
(* The lock serialises issuers when nobody dies, however many there are,   *)
(* and for two issuers whoever dies.                                       *)
(***************************************************************************)
THEOREM LockExcludesFewHands == ASSUME FewHands PROVE Spec => []LockExcludes
<1> QED BY FewHandsKeepLocks, LockExcludesUnlessUnlinked, PTL

-----------------------------------------------------------------------------
(***************************************************************************)
(* What the lock protects.  While an issuer counts, the files that were    *)
(* live when it began and that it has not counted are still listed; when   *)
(* it publishes, there is room.                                            *)
(***************************************************************************)
Live(i) == {d \in Issuers : files[d] # "absent" /\ ~Past(d, issuer[i].issuedAt)}

Listed(i) == {e[1] : e \in issuer[i].todo}

TalliedBy(i) ==
  /\ At(i, "count") => Cardinality(Live(i) \ Listed(i)) <= issuer[i].count
  /\ At(i, "publish") => Cardinality(Live(i)) < Capacity

Tallied == CapacityRespected /\ \A i \in Issuers : TalliedBy(i)

\* The steps after which an issuer is counting, may publish or has published.
Counts(i) ==
  \/ Relist(i) /\ issuer'[i].at = "count" /\ issuer'[i].todo = Entries /\ issuer'[i].count = 0
  \/ \E e \in Entry :
       /\ CountEntry(i, e) /\ issuer'[i].at = "count"
       /\ issuer'[i].todo = issuer[i].todo \ {e}
       /\ issuer'[i].count = IF Past(e[1], issuer[i].issuedAt) THEN issuer[i].count
                                                             ELSE issuer[i].count + 1
  \/ Counted(i) /\ issuer'[i].at = "publish" /\ ~Full(issuer[i].count)

(* No other step gets an issuer to one of these places.                    *)
LEMMA CountSteps ==
  ASSUME IInv, NEW i \in Issuers, Begin(i) \/ IssuerNext(i) \/ TimeOut(i) \/ Crash(i)
  PROVE  \/ issuer'[i].at \notin {"count", "publish", "sync"}
         \/ Publish(i) /\ issuer'[i].at = "sync"
         \/ Counts(i) /\ files' = files /\ issuer'[i].issuedAt = issuer[i].issuedAt
<1> DEFINE me == issuer[i]
<1>0. me = [at |-> me.at, issuedAt |-> me.issuedAt, todo |-> me.todo,
            doomed |-> me.doomed, count |-> me.count, seen |-> me.seen,
            outcome |-> me.outcome]
  BY DEF IInv, TypeOK, IssuerStates
<1>1. ASSUME NEW r, Become(i, r) PROVE issuer'[i] = r
  BY <1>1 DEF Become, IInv, TypeOK
<1>2. ASSUME NEW place, GoTo(i, place)
      PROVE  issuer'[i].at = place /\ issuer'[i].issuedAt = issuer[i].issuedAt
  BY <1>0, <1>1, <1>2 DEF GoTo
<1>3. Abandon(i) => issuer'[i].at = "release"
  BY <1>0, <1>1 DEF Abandon
<1>4. CASE Begin(i) \/ CreateLock(i) \/ LockExists(i) \/ WriteLock(i) \/ ReclaimLock(i)
  BY <1>2, <1>4 DEF Begin, CreateLock, LockExists, WriteLock, ReclaimLock
<1>5. CASE Cleaned(i) \/ Unlock(i) \/ Crash(i) \/ ReadOwnLock(i)
  BY <1>2, <1>5 DEF Cleaned, Unlock, Crash, ReadOwnLock
<1>6. CASE InspectLock(i) \/ ConfirmLock(i)
  <2>1. issuer'[i].at \in {"confirm", "reclaim", "acquire"}
    BY <1>0, <1>1, <1>2, <1>6 DEF InspectLock, ConfirmLock
  <2> QED BY <2>1
<1>7. CASE List(i) \/ TimeOut(i) \/ CleanRemove(i) \/ Sync(i)
  BY <1>0, <1>1, <1>7 DEF List, TimeOut, CleanRemove, Sync
<1>8. CASE PublishFails(i) \/ SyncFails(i)
  BY <1>3, <1>8 DEF PublishFails, SyncFails
<1>9. ASSUME NEW e \in Entry, CleanEntry(i, e)
      PROVE  issuer'[i].at \in {"release", "clean", "clean-remove"}
  BY <1>0, <1>1, <1>3, <1>9 DEF CleanEntry
<1>10. CASE Publish(i)
  BY <1>2, <1>10 DEF Publish
<1>11. CASE Relist(i)
  BY <1>0, <1>1, <1>11 DEF Relist, Counts
<1>12. ASSUME NEW e \in Entry, CountEntry(i, e)
       PROVE  \/ issuer'[i].at = "release"
              \/ Counts(i) /\ files' = files /\ issuer'[i].issuedAt = issuer[i].issuedAt
  <2>1. CASE Present(e)
    <3> DEFINE n == IF Past(e[1], me.issuedAt) THEN me.count ELSE me.count + 1
    <3>1. issuer'[i] = [me EXCEPT !.todo = @ \ {e}, !.count = n]
      BY <1>1, <1>12, <2>1 DEF CountEntry
    <3>2. /\ issuer'[i].at = "count" /\ issuer'[i].todo = me.todo \ {e}
          /\ issuer'[i].count = n /\ issuer'[i].issuedAt = me.issuedAt
      <4> HIDE DEF n
      <4> QED BY <1>0, <1>12, <3>1 DEF CountEntry, At
    <3> QED BY <1>12, <3>2 DEF CountEntry, Counts
  <2>2. CASE ~Present(e)
    BY <1>3, <1>12, <2>2 DEF CountEntry
  <2> QED BY <2>1, <2>2
<1>13. CASE Counted(i)
  BY <1>2, <1>3, <1>13 DEF Counted, Counts
<1> QED
  BY <1>4, <1>5, <1>6, <1>7, <1>8, <1>9, <1>10, <1>11, <1>12, <1>13 DEF IssuerNext

(* Fewer issuers count for less.                                           *)
LEMMA FewerIssuers ==
  ASSUME NEW S \in SUBSET Issuers, NEW R \in SUBSET S
  PROVE  /\ IsFiniteSet(S) /\ Cardinality(S) \in Nat /\ Cardinality(R) \in Nat
         /\ Cardinality(R) <= Cardinality(S)
<1>1. IsFiniteSet(S) /\ IsFiniteSet(R)
  BY FS_Subset, IssuerAssumption
<1> QED BY <1>1, FS_Subset, FS_CardinalityType

\* No file is new, and those that stay keep their expiry.
NoneNew ==
  \A d \in Issuers :
    files'[d] # "absent" => files[d] # "absent" /\ issuer'[d].issuedAt = issuer[d].issuedAt

(* Without a new file, what is live and what is unexpired can only shrink. *)
LEMMA NoneNewShrinks ==
  ASSUME IInv, NoneNew, clock <= clock', clock' \in Nat
  PROVE  /\ Unexpired' \subseteq Unexpired
         /\ \A j \in Issuers :
              issuer'[j].issuedAt = issuer[j].issuedAt => Live(j)' \subseteq Live(j)
<1>1. \A d \in Issuers : files'[d] # "absent" => files[d] # "absent" /\ Expires(d)' = Expires(d)
  BY DEF NoneNew, Expires
<1>2. \A d \in Issuers : Expires(d) \in Int
  BY NumberAssumption DEF Expires, IInv, TypeOK, IssuerStates
<1>3. ASSUME NEW d \in Issuers, files'[d] # "absent", clock' < Expires(d)' PROVE clock < Expires(d)
  BY <1>1, <1>2, <1>3, NumberAssumption DEF IInv, TypeOK
<1> QED BY <1>1, <1>3 DEF Unexpired, Live, Past

(* A step that publishes nothing adds no file.                             *)
LEMMA OnlyPublishAdds ==
  ASSUME IInv, NEW i \in Issuers, IssuerStep(i), issuer'[i].at # "sync"
  PROVE  NoneNew /\ clock' = clock
<1>1. PICK r \in IssuerStates :
         /\ issuer' = [issuer EXCEPT ![i] = r]
         /\ Prepares(i, r) \/ Publishes(i, r) \/ Settles(i, r)
  BY DEF IssuerStep
<1>2. issuer'[i] = r /\ \A d \in Issuers : d # i => issuer'[d] = issuer[d]
  BY <1>1 DEF IInv, TypeOK
<1>3. \/ Prepares(i, r)
      \/ files' = files /\ r.issuedAt = issuer[i].issuedAt
  BY <1>1, <1>2 DEF Publishes, Settles
<1>4. \A d \in Issuers : files'[d] # "absent" => files'[d] = files[d]
  BY <1>3 DEF Prepares, OneOverdueRemoved, IInv, TypeOK
<1>5. files[i] # "absent" => r.issuedAt = issuer[i].issuedAt
  BY <1>3 DEF Prepares, IInv, UnknownBefore
<1> QED BY <1>2, <1>4, <1>5 DEF NoneNew, IssuerStep

(* Publishing adds one file to fewer live ones than the capacity, and the  *)
(* lock keeps every other issuer from counting meanwhile.                  *)
LEMMA PublishFits ==
  ASSUME IInv, Exclusive, Tallied, NEW i \in Issuers, Publish(i), issuer'[i].at = "sync"
  PROVE  Tallied'
<1>1. \A j \in Issuers \ {i} : issuer'[j] = issuer[j]
  BY DEF Publish, GoTo, Become, IInv, TypeOK
<1>2. \A d \in Issuers : issuer'[d].issuedAt = issuer[d].issuedAt
  BY DEF Publish, GoTo, Become, IInv, TypeOK, IssuerStates
<1>3. Unexpired' \subseteq Live(i) \cup {i}
  <2> SUFFICES ASSUME NEW d \in Issuers, d # i, files'[d] # "absent", clock' < Expires(d)'
               PROVE  d \in Live(i)
    BY DEF Unexpired
  <2>1. files[d] # "absent" /\ clock' = clock
    BY DEF Publish, GoTo, Become, IInv, TypeOK
  <2>2. Expires(d)' = Expires(d) /\ Expires(d) \in Int
    BY <1>2, NumberAssumption DEF Expires, IInv, TypeOK, IssuerStates
  <2>3. issuer[i].issuedAt <= clock /\ issuer[i].issuedAt \in Int /\ clock \in Int
    BY DEF IInv, ClocksRead, TypeOK, IssuerStates
  <2> QED BY <2>1, <2>2, <2>3 DEF Live, Past
<1>4. Cardinality(Live(i)) < Capacity
  BY DEF Publish, Tallied, TalliedBy
<1>5. IsFiniteSet(Live(i)) /\ Cardinality(Live(i)) \in Nat
  BY FewerIssuers DEF Live
<1>6. Cardinality(Live(i) \cup {i}) <= Capacity
  <2>1. CASE i \in Live(i)
    <3>1. Live(i) \cup {i} = Live(i)
      BY <2>1
    <3> QED BY <1>4, <1>5, <3>1, NumberAssumption
  <2>2. CASE i \notin Live(i)
    <3>1. Cardinality(Live(i) \cup {i}) = Cardinality(Live(i)) + 1
      BY <1>5, <2>2, FS_AddElement
    <3> QED BY <1>4, <1>5, <3>1, NumberAssumption
  <2> QED BY <2>1, <2>2
<1>7. CapacityRespected'
  <2>1. Live(i) \cup {i} \in SUBSET Issuers
    BY DEF Live
  <2>2. /\ Cardinality(Unexpired') <= Cardinality(Live(i) \cup {i})
        /\ Cardinality(Unexpired') \in Nat /\ Cardinality(Live(i) \cup {i}) \in Nat
    BY <1>3, <2>1, FewerIssuers
  <2> QED BY <1>6, <2>2, NumberAssumption DEF CapacityRespected
<1>8. \A j \in Issuers : issuer'[j].at \notin {"count", "publish"}
  <2>1. \A j \in Issuers \ {i} : ~Owns(j)
    BY DEF Publish, At, Exclusive, Owns, Holding
  <2> QED BY <1>1, <2>1 DEF Owns, Holding
<1> QED BY <1>7, <1>8 DEF Tallied, TalliedBy, At

(* Counting one entry, or beginning to count, keeps the tally.             *)
LEMMA CountFits ==
  ASSUME IInv, Tallied, NEW i \in Issuers, Counts(i),
         files' = files, issuer'[i].issuedAt = issuer[i].issuedAt, Live(i)' \subseteq Live(i)
  PROVE  TalliedBy(i)'
<1>0. Live(i) \in SUBSET Issuers /\ issuer[i].count \in Nat
  BY DEF Live, IInv, TypeOK, IssuerStates
<1>1. CASE Relist(i) /\ issuer'[i].at = "count" /\ issuer'[i].todo = Entries
           /\ issuer'[i].count = 0
  <2>1. ASSUME NEW d \in Live(i) PROVE \E e \in Entries : e[1] = d
    <3>1. <<d, files[d]>> \in Entries /\ <<d, files[d]>>[1] = d
      BY DEF Live, Entries
    <3> QED BY <3>1
  <2>2. (Live(i) \ Listed(i))' = {}
    BY <1>1, <2>1 DEF Listed
  <2>3. Cardinality((Live(i) \ Listed(i))') = 0
    BY <2>2, FS_EmptySet
  <2> QED BY <1>1, <2>3 DEF TalliedBy, At
<1>2. ASSUME NEW e \in Entry, CountEntry(i, e), issuer'[i].at = "count",
             issuer'[i].todo = issuer[i].todo \ {e},
             issuer'[i].count = IF Past(e[1], issuer[i].issuedAt) THEN issuer[i].count
                                                                 ELSE issuer[i].count + 1
      PROVE  TalliedBy(i)'
  <2> DEFINE D == Live(i) \ Listed(i)
  <2>1. Cardinality(D) <= issuer[i].count
    BY <1>2 DEF CountEntry, Tallied, TalliedBy
  <2>2. IsFiniteSet(D) /\ Cardinality(D) \in Nat
    BY <1>0, FewerIssuers
  <2>3. \A d \in Live(i) : d \in D \/ d \in Listed(i)' \/ d = e[1]
    BY <1>2 DEF Listed
  <2>4. CASE Past(e[1], issuer[i].issuedAt)
    <3>1. e[1] \notin Live(i)
      BY <2>4 DEF Live
    <3>2. (Live(i) \ Listed(i))' \subseteq D
      BY <2>3, <3>1
    <3>3. Cardinality((Live(i) \ Listed(i))') <= Cardinality(D)
          /\ Cardinality((Live(i) \ Listed(i))') \in Nat
      BY <1>0, <3>2, FewerIssuers
    <3>4. issuer'[i].count = issuer[i].count
      BY <1>2, <2>4
    <3> QED BY <1>0, <1>2, <2>1, <2>2, <3>3, <3>4 DEF TalliedBy, At
  <2>5. CASE ~Past(e[1], issuer[i].issuedAt)
    <3>1. (Live(i) \ Listed(i))' \subseteq D \cup {e[1]}
      BY <2>3
    <3>2. D \cup {e[1]} \in SUBSET Issuers
      BY <1>0 DEF Entry
    <3>3. /\ Cardinality((Live(i) \ Listed(i))') <= Cardinality(D \cup {e[1]})
          /\ Cardinality((Live(i) \ Listed(i))') \in Nat
          /\ Cardinality(D \cup {e[1]}) \in Nat
      BY <3>1, <3>2, FewerIssuers
    <3>4. Cardinality(D \cup {e[1]}) <= Cardinality(D) + 1
      <4>1. CASE e[1] \in D
        <5>1. D \cup {e[1]} = D
          BY <4>1
        <5> QED BY <2>2, <5>1
      <4>2. CASE e[1] \notin D
        <5> HIDE DEF D
        <5>1. Cardinality(D \cup {e[1]}) = Cardinality(D) + 1
          BY <2>2, <4>2, FS_AddElement
        <5> QED BY <2>2, <5>1
      <4> QED BY <4>1, <4>2
    <3>5. issuer'[i].count = issuer[i].count + 1
      BY <1>2, <2>5
    <3> QED BY <1>0, <1>2, <2>1, <2>2, <3>3, <3>4, <3>5 DEF TalliedBy, At
  <2> QED BY <2>4, <2>5
<1>3. CASE Counted(i) /\ issuer'[i].at = "publish" /\ ~Full(issuer[i].count)
  <2>1. Live(i) \ Listed(i) = Live(i) /\ At(i, "count")
    BY <1>3 DEF Counted, Listed
  <2>2. Cardinality(Live(i)) <= issuer[i].count
    BY <2>1 DEF Tallied, TalliedBy
  <2>3. Cardinality(Live(i)') <= Cardinality(Live(i))
        /\ Cardinality(Live(i)') \in Nat /\ Cardinality(Live(i)) \in Nat
    BY <1>0, FewerIssuers
  <2>4. Cardinality(Live(i)') < Capacity
    BY <1>0, <1>3, <2>2, <2>3, NumberAssumption DEF Full
  <2> QED BY <1>3, <2>4 DEF TalliedBy, At
<1> QED BY <1>1, <1>2, <1>3 DEF Counts

(* Every step keeps the tally.                                             *)
LEMMA TalliedKept ==
  ASSUME IInv, Exclusive, Tallied, [Next]_vars
  PROVE  Tallied'
<1>1. ASSUME Unexpired' \subseteq Unexpired
      PROVE  CapacityRespected'
  <2>1. /\ Cardinality(Unexpired') <= Cardinality(Unexpired)
        /\ Cardinality(Unexpired') \in Nat /\ Cardinality(Unexpired) \in Nat
    BY <1>1, FewerIssuers DEF Unexpired
  <2> QED BY <2>1, NumberAssumption DEF Tallied, CapacityRespected
<1>2. ASSUME NEW j \in Issuers, issuer'[j] = issuer[j], Live(j)' \subseteq Live(j)
      PROVE  TalliedBy(j)'
  <2>1. issuer[j].count \in Nat /\ Live(j) \in SUBSET Issuers /\ Listed(j)' = Listed(j)
    BY <1>2 DEF IInv, TypeOK, IssuerStates, Live, Listed
  <2>2. /\ Cardinality(Live(j)') <= Cardinality(Live(j))
        /\ Cardinality(Live(j)') \in Nat /\ Cardinality(Live(j)) \in Nat
    BY <1>2, <2>1, FewerIssuers
  <2>3. /\ Cardinality((Live(j) \ Listed(j))') <= Cardinality(Live(j) \ Listed(j))
        /\ Cardinality((Live(j) \ Listed(j))') \in Nat
        /\ Cardinality(Live(j) \ Listed(j)) \in Nat
    <3>1. (Live(j) \ Listed(j))' \subseteq Live(j) \ Listed(j)
      BY <1>2, <2>1
    <3>2. Live(j) \ Listed(j) \in SUBSET Issuers
      BY <2>1
    <3> QED BY <3>1, <3>2, FewerIssuers
  <2> QED BY <1>2, <2>1, <2>2, <2>3, NumberAssumption DEF Tallied, TalliedBy, At
<1>3. CASE ServerNext \/ Tick \/ UNCHANGED vars
  <2>1. UNCHANGED issuer /\ NoneNew /\ clock <= clock' /\ clock' \in Nat
    BY <1>3, OthersLeaveIssuers DEF NoneNew
  <2>2. Unexpired' \subseteq Unexpired /\ \A j \in Issuers : Live(j)' \subseteq Live(j)
    BY <2>1, NoneNewShrinks
  <2> QED BY <1>1, <1>2, <2>1, <2>2 DEF Tallied
<1>4. ASSUME NEW i \in Issuers, Begin(i) \/ IssuerNext(i) \/ TimeOut(i) \/ Crash(i)
      PROVE  Tallied'
  <2>1. IssuerStep(i)
    BY <1>4, IssuerSteps
  <2>2. \A j \in Issuers \ {i} : issuer'[j] = issuer[j]
    BY <2>1, OneIssuerMoves
  <2>3. CASE issuer'[i].at = "sync"
    BY <1>4, <2>3, CountSteps, PublishFits DEF Counts
  <2>4. CASE issuer'[i].at # "sync"
    <3>1. NoneNew /\ clock <= clock' /\ clock' \in Nat
      BY <2>1, <2>4, OnlyPublishAdds, NumberAssumption DEF IInv, TypeOK
    <3>2. /\ Unexpired' \subseteq Unexpired
          /\ \A j \in Issuers :
               issuer'[j].issuedAt = issuer[j].issuedAt => Live(j)' \subseteq Live(j)
      BY <3>1, NoneNewShrinks
    <3>3. ASSUME NEW j \in Issuers \ {i} PROVE TalliedBy(j)'
      BY <1>2, <2>2, <3>2
    <3>4. TalliedBy(i)'
      <4>1. CASE issuer'[i].at \in {"count", "publish"}
        BY <1>4, <3>2, <4>1, CountSteps, CountFits
      <4>2. CASE issuer'[i].at \notin {"count", "publish"}
        BY <4>2 DEF TalliedBy, At
      <4> QED BY <4>1, <4>2
    <3> QED BY <1>1, <3>2, <3>3, <3>4 DEF Tallied
  <2> QED BY <2>3, <2>4
<1> QED BY <1>3, <1>4 DEF Next

(* An empty directory is within the capacity.                              *)
LEMMA InitTallied == Init => Tallied
<1> SUFFICES ASSUME Init PROVE Tallied
  OBVIOUS
<1>1. Cardinality(Unexpired) = 0
  <2>1. Unexpired = {}
    BY DEF Init, Unexpired
  <2> QED BY <2>1, FS_EmptySet
<1>2. \A i \in Issuers : TalliedBy(i)
  BY DEF Init, NotStarted, TalliedBy, At
<1> QED BY <1>1, <1>2, NumberAssumption DEF Tallied, CapacityRespected

(***************************************************************************)
(* While no held lock is unlinked, the directory never holds more than     *)
(* Capacity unexpired tokens and claims, for any number of issuers and     *)
(* crashes and any capacity: the count of publishIssuedToken() is right.   *)
(***************************************************************************)
THEOREM CapacityUnlessUnlinked == Spec /\ HeldLocksStay => []CapacityRespected
<1>1. Tallied => CapacityRespected
  BY DEF Tallied
<1> QED
  BY <1>1, ExclusiveUnlessUnlinked, InitTallied, TalliedKept, Invariant, PTL DEF Spec

(***************************************************************************)
(* What the comment on withIssueLock() promises holds for any number of    *)
(* issuers when nobody dies, and for two issuers whoever dies.             *)
(***************************************************************************)
THEOREM CapacityFewHands == ASSUME FewHands PROVE Spec => []CapacityRespected
<1> QED BY FewHandsKeepLocks, CapacityUnlessUnlinked, PTL

=============================================================================
