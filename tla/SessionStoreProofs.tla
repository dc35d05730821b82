------------------------- MODULE SessionStoreProofs -------------------------
(***************************************************************************)
(* Theorems about SessionStore, for every set of configurations and every  *)
(* bound.  The proofs follow the shape of the code: what a change of the   *)
(* session map preserves, what mutate() makes of it, and then each         *)
(* operation.                                                              *)
(***************************************************************************)
EXTENDS SessionStore, WellFoundedInduction, FiniteSetTheorems, TLAPS

(***************************************************************************)
(* The inductive invariant.  Good(m, secret) says of a memory or document: *)
(* it has the right type, its sessions were issued under the secret, their *)
(* times are in order and none outlives its last visit by more than the    *)
(* longest lifetime, and the administrator is named with a password or not *)
(* at all.                                                                 *)
(***************************************************************************)
SaneSession(s, secret) ==
  /\ s.key = secret
  /\ s.created <= s.seen /\ s.seen <= s.expires
  /\ s.expires <= s.seen + LongestTtl

Good(m, secret) ==
  /\ m.admin \in Administrators
  /\ m.admin.username = None <=> m.admin.hash = None
  /\ IsSessionMap(m.sessions)
  /\ \A t \in DOMAIN m.sessions : SaneSession(m.sessions[t], secret)

IsMemory(m) == m = [admin |-> m.admin, sessions |-> m.sessions]

IsDocument(d) == d = [secret |-> d.secret, admin |-> d.admin, sessions |-> d.sessions]

Typed ==
  /\ up \in BOOLEAN /\ adrift \in BOOLEAN
  /\ cfg \in Configs
  /\ clock \in 0..MaxTime
  /\ issued \in 0..MaxTokens
  /\ confirmed \in Confirmations
  /\ IsMemory(mem) /\ IsDocument(disk) /\ disk.secret \in Secrets
  /\ DOMAIN mem.sessions \cup DOMAIN disk.sessions \subseteq 1..issued
  /\ ~up => mem = NoMemory

Kept ==
  /\ Good(disk, disk.secret)
  /\ up => Good(mem, cfg.secret)

(***************************************************************************)
(* What the last call confirmed still holds in memory and document.        *)
(***************************************************************************)
Honest(done, m) ==
  /\ done.op = "revoke" => done.token \notin DOMAIN m.sessions
  /\ done.op \in {"initialize", "update"} => DOMAIN m.sessions \subseteq {done.token}

Confirmed == Honest(confirmed, mem) /\ Honest(confirmed, disk)

IInv == Typed /\ Kept /\ Confirmed /\ MemoryMatchesDocument

-----------------------------------------------------------------------------
(***************************************************************************)
(* Session maps.                                                           *)
(***************************************************************************)

(* prune() only deletes.                                                    *)
LEMMA PruneMap ==
  ASSUME NEW S, IsSessionMap(S), NEW c, NEW now
  PROVE  /\ IsSessionMap(Prune(S, c, now)) /\ DOMAIN Prune(S, c, now) \subseteq DOMAIN S
         /\ \A u \in DOMAIN Prune(S, c, now) : Prune(S, c, now)[u] = S[u]
  BY DEF Prune, Restrict, IsSessionMap

(* deleteOldest() only deletes.                                            *)
LEMMA NewestMap ==
  ASSUME NEW S, IsSessionMap(S), NEW n
  PROVE  /\ IsSessionMap(Newest(S, n)) /\ DOMAIN Newest(S, n) \subseteq DOMAIN S
         /\ \A u \in DOMAIN Newest(S, n) : Newest(S, n)[u] = S[u]
  BY DEF Newest, Restrict, IsSessionMap

(* Deleting one session leaves the others.                                 *)
LEMMA DeleteMap ==
  ASSUME NEW S, IsSessionMap(S), NEW t
  PROVE  /\ IsSessionMap(Delete(S, t)) /\ DOMAIN Delete(S, t) = DOMAIN S \ {t}
         /\ \A u \in DOMAIN Delete(S, t) : Delete(S, t)[u] = S[u]
  BY DEF Delete, Restrict, IsSessionMap

(* Signing the others out leaves the caller's session.                     *)
LEMMA OnlyMap ==
  ASSUME NEW S, IsSessionMap(S), NEW t \in DOMAIN S
  PROVE  /\ IsSessionMap(Only(S, t)) /\ DOMAIN Only(S, t) = {t}
         /\ Only(S, t)[t] = S[t]
  BY DEF Only, Restrict, IsSessionMap

-----------------------------------------------------------------------------
(***************************************************************************)
(* Good memories.                                                          *)
(***************************************************************************)

(* Deleting sessions keeps a memory good.                                  *)
LEMMA GoodRestriction ==
  ASSUME NEW m, NEW secret, Good(m, secret),
         NEW R, IsSessionMap(R), DOMAIN R \subseteq DOMAIN m.sessions,
         \A t \in DOMAIN R : R[t] = m.sessions[t]
  PROVE  Good([admin |-> m.admin, sessions |-> R], secret)
  BY DEF Good

(* Replacing or adding one sane session keeps a memory good.               *)
LEMMA GoodInsertion ==
  ASSUME NEW m, NEW secret, Good(m, secret),
         NEW t \in Tokens, NEW s \in Session, SaneSession(s, secret)
  PROVE  Good([admin |-> m.admin, sessions |-> Insert(m.sessions, t, s)], secret)
<1> DEFINE S == Insert(m.sessions, t, s)
<1>1. IsSessionMap(m.sessions)
  BY DEF Good
<1>2. /\ IsSessionMap(S)
      /\ \A u \in DOMAIN S : S[u] = s \/ (u \in DOMAIN m.sessions /\ S[u] = m.sessions[u])
  BY <1>1 DEF IsSessionMap, Insert
<1>3. \A u \in DOMAIN S : SaneSession(S[u], secret)
  BY <1>2 DEF Good
<1> QED
  BY <1>2, <1>3 DEF Good

(* Renaming the administrator or changing the password keeps a memory good. *)
LEMMA GoodAdministrator ==
  ASSUME NEW m, NEW secret, Good(m, secret),
         NEW username \in Usernames, NEW hash \in Hashes
  PROVE  Good([admin |-> [username |-> username, hash |-> hash], sessions |-> m.sessions], secret)
  BY NoneAssumption DEF Good, Administrators

-----------------------------------------------------------------------------
(***************************************************************************)
(* Sane sessions.                                                          *)
(***************************************************************************)

(* What resolveConfig() guarantees, for the configuration in force.        *)
LEMMA ConfigFacts ==
  ASSUME NEW c \in Configs
  PROVE  /\ c.ttl \in Nat /\ c.idle \in Nat /\ c.renewal \in Nat
         /\ c.max \in Nat /\ 1 <= c.max /\ c.max <= 1024
         /\ c.secret \in Secrets
         /\ 0 < c.renewal /\ c.renewal <= c.ttl /\ c.ttl <= LongestTtl
         /\ LongestTtl \in Nat
<1>1. /\ c \in [ttl: Nat, idle: Nat, renewal: Nat, max: 1..1024, secret: Secrets]
      /\ 0 < c.renewal /\ c.renewal <= c.idle /\ c.idle <= c.ttl
      /\ c.ttl <= LongestTtl
  BY ConfigAssumption
<1> QED
  BY <1>1, BoundAssumption

(* create() makes a sane session.                                          *)
LEMMA NewSessionSane ==
  ASSUME cfg \in Configs, clock \in Nat, NEW method \in Methods, NEW identity \in Identities
  PROVE  /\ NewSession(method, identity) \in Session
         /\ SaneSession(NewSession(method, identity), cfg.secret)
  BY ConfigFacts DEF NewSession, Session, SaneSession

(* A request that finds its session alive moves it forward in time only.   *)
LEMMA TouchedSane ==
  ASSUME NEW s \in Session, NEW secret, SaneSession(s, secret), clock \in Nat, clock < s.expires
  PROVE  /\ Touched(s) \in Session /\ SaneSession(Touched(s), secret)
         /\ SameButSeen(Touched(s), s)
         /\ s.seen <= Touched(s).seen
         /\ Touched(s).seen = s.seen \/ Touched(s).seen = clock
  BY BoundAssumption DEF Touched, Later, Session, SaneSession, SameButSeen

(* So does a renewal.                                                      *)
LEMMA RenewedSane ==
  ASSUME NEW s \in Session, cfg \in Configs, SaneSession(s, cfg.secret), clock \in Nat,
         clock < s.expires
  PROVE  Renewed(s) \in Session /\ SaneSession(Renewed(s), cfg.secret)
<1>1. cfg.ttl \in Nat /\ cfg.ttl <= LongestTtl /\ LongestTtl \in Nat
  BY ConfigFacts
<1>2. /\ s.created \in Nat /\ s.seen \in Nat /\ s.expires \in Nat
      /\ s = [method |-> s.method, identity |-> s.identity, key |-> s.key,
              created |-> s.created, seen |-> s.seen, expires |-> s.expires]
      /\ s.method \in Methods /\ s.identity \in Identities /\ s.key \in Secrets
  BY DEF Session
<1> DEFINE seen == Later(s.seen, clock)
           expires == Later(s.expires, clock + cfg.ttl)
<1>3. seen \in Nat /\ expires \in Nat /\ s.seen <= seen /\ s.expires <= expires
  BY <1>1, <1>2 DEF Later
<1>4. s.created <= seen /\ seen <= expires /\ expires <= seen + LongestTtl
  BY <1>1, <1>2 DEF Later, SaneSession
<1>5. /\ Renewed(s) \in Session
      /\ Renewed(s).key = s.key /\ Renewed(s).created = s.created
      /\ Renewed(s).seen = seen /\ Renewed(s).expires = expires
  BY <1>3 DEF Renewed, Session
<1> QED
  BY <1>4, <1>5 DEF SaneSession

(* A session that was just written does not lag behind the document.       *)
LEMMA NoLag ==
  ASSUME NEW S, IsSessionMap(S), NEW c \in Configs, NEW t \in DOMAIN S
  PROVE  /\ SameButSeen(S[t], S[t])
         /\ S[t].seen <= S[t].seen
         /\ S[t].seen - S[t].seen < c.renewal + (LongestTtl - c.ttl)
<1>1. S[t] \in Session
  BY DEF IsSessionMap
<1>2. S[t].seen \in Nat /\ SameButSeen(S[t], S[t])
  BY <1>1 DEF Session, SameButSeen
<1>3. 0 < c.renewal + (LongestTtl - c.ttl)
  BY ConfigFacts
<1> QED
  BY <1>2, <1>3

-----------------------------------------------------------------------------
(***************************************************************************)
(* mutate(): whatever becomes of the write, the invariant holds if the     *)
(* change is a good memory for which what would be confirmed is true.      *)
(***************************************************************************)
LEMMA MutateIInv ==
  ASSUME IInv, up,
         NEW next, IsMemory(next), Good(next, cfg.secret),
         NEW done \in Confirmations, Honest(done, next),
         issued' \in 0..MaxTokens, issued <= issued', DOMAIN next.sessions \subseteq 1..issued',
         Mutate(next, done), UNCHANGED <<cfg, clock>>
  PROVE  IInv'
<1> DEFINE doc == Document(next, cfg)
<1>1. /\ IsDocument(doc) /\ doc.secret = cfg.secret /\ Good(doc, doc.secret)
      /\ doc.sessions = next.sessions /\ doc.admin = next.admin
  BY DEF Document, IsDocument, Good
<1>2. cfg \in Configs /\ cfg.secret \in Secrets
  BY ConfigFacts DEF IInv, Typed
<1>3. IsMemory(NoMemory) /\ DOMAIN NoMemory.sessions = {}
  BY DEF IsMemory, NoMemory, NoSessions
<1>4. \A m : Honest(Nothing, m)
  BY DEF Honest, Nothing, Done
<1>5. Honest(done, doc)
  BY <1>1 DEF Honest
<1>6. 1..issued \subseteq 1..issued'
  BY DEF IInv, Typed
<1>7. Nothing \in Confirmations
  BY BoundAssumption DEF Nothing, Done, Confirmations
<1>8. CASE /\ mem' = next /\ disk' = doc /\ adrift' = FALSE /\ confirmed' = done
           /\ UNCHANGED up
  <2>1. Typed'
    <3>1. /\ up' \in BOOLEAN /\ adrift' \in BOOLEAN /\ cfg' \in Configs /\ clock' \in 0..MaxTime
          /\ issued' \in 0..MaxTokens /\ confirmed' \in Confirmations
      BY <1>8 DEF IInv, Typed
    <3>2. /\ IsMemory(mem') /\ IsDocument(disk') /\ disk'.secret \in Secrets
          /\ DOMAIN mem'.sessions \cup DOMAIN disk'.sessions \subseteq 1..issued'
      BY <1>1, <1>2, <1>8
    <3>3. ~up' => mem' = NoMemory
      BY <1>8
    <3> QED
      BY <3>1, <3>2, <3>3 DEF Typed
  <2>2. Kept'
    BY <1>1, <1>8 DEF Kept
  <2>3. Confirmed'
    BY <1>5, <1>8 DEF Confirmed
  <2>4. MemoryMatchesDocument'
    BY <1>1, <1>2, <1>8, NoLag DEF Good, MemoryMatchesDocument, LagBound
  <2> QED
    BY <2>1, <2>2, <2>3, <2>4 DEF IInv
<1>9. CASE /\ disk' = disk /\ confirmed' = Nothing /\ UNCHANGED <<up, mem, adrift>>
  <2>1. Typed'
    BY <1>6, <1>7, <1>9 DEF IInv, Typed
  <2>2. Kept'
    BY <1>9 DEF IInv, Kept
  <2>3. Confirmed'
    BY <1>4, <1>9 DEF Confirmed
  <2>4. MemoryMatchesDocument'
    BY <1>9 DEF IInv, MemoryMatchesDocument, LagBound
  <2> QED
    BY <2>1, <2>2, <2>3, <2>4 DEF IInv
<1>10. CASE /\ disk' = doc /\ adrift' = TRUE /\ confirmed' = Nothing
            /\ UNCHANGED <<up, mem>>
  <2>1. Typed'
    BY <1>1, <1>2, <1>6, <1>7, <1>10 DEF IInv, Typed
  <2>2. Kept'
    BY <1>1, <1>10 DEF IInv, Kept
  <2>3. Confirmed'
    BY <1>4, <1>10 DEF Confirmed
  <2>4. MemoryMatchesDocument'
    BY <1>10 DEF MemoryMatchesDocument
  <2> QED
    BY <2>1, <2>2, <2>3, <2>4 DEF IInv
<1>11. CASE /\ disk' \in {disk, doc} /\ up' = FALSE /\ mem' = NoMemory
            /\ adrift' = FALSE /\ confirmed' = Nothing
  <2>1. Typed'
    BY <1>1, <1>2, <1>3, <1>6, <1>7, <1>11 DEF IInv, Typed
  <2>2. Kept'
    BY <1>1, <1>11 DEF IInv, Kept
  <2>3. Confirmed'
    BY <1>4, <1>11 DEF Confirmed
  <2>4. MemoryMatchesDocument'
    BY <1>11 DEF MemoryMatchesDocument
  <2> QED
    BY <2>1, <2>2, <2>3, <2>4 DEF IInv
<1> QED
  BY <1>8, <1>9, <1>10, <1>11 DEF Mutate

-----------------------------------------------------------------------------
(***************************************************************************)
(* The operations.                                                         *)
(***************************************************************************)

LEMMA SessionsRecord ==
  ASSUME IsMemory(mem), NEW S
  PROVE  /\ Sessions(S) = [admin |-> mem.admin, sessions |-> S]
         /\ IsMemory(Sessions(S))
  BY DEF Sessions, IsMemory

LEMMA NothingConfirmed ==
  /\ Nothing \in Confirmations
  /\ \A m : Honest(Nothing, m)
  BY BoundAssumption DEF Nothing, Done, Confirmations, Honest

(* A call that changes nothing, and a step of the clock.                   *)
LEMMA QuietIInv ==
  ASSUME IInv, clock' \in 0..MaxTime, confirmed' = Nothing,
         UNCHANGED <<up, cfg, issued, mem, disk, adrift>>
  PROVE  IInv'
<1>1. Typed'
  BY NothingConfirmed DEF IInv, Typed
<1>2. Kept'
  BY DEF IInv, Kept
<1>3. Confirmed'
  BY NothingConfirmed DEF Confirmed
<1>4. MemoryMatchesDocument'
  BY DEF IInv, MemoryMatchesDocument, LagBound
<1> QED
  BY <1>1, <1>2, <1>3, <1>4 DEF IInv

(* What a running store offers its operations.                             *)
LEMMA Running ==
  ASSUME IInv, up
  PROVE  /\ cfg \in Configs /\ clock \in Nat /\ issued \in Nat /\ issued <= MaxTokens
         /\ MaxTokens \in Nat
         /\ IsMemory(mem) /\ Good(mem, cfg.secret) /\ IsSessionMap(mem.sessions)
         /\ DOMAIN mem.sessions \subseteq 1..issued
  BY BoundAssumption DEF IInv, Typed, Kept, Good

(* create().                                                               *)
LEMMA CreateIInv ==
  ASSUME IInv, NEW method \in Methods, NEW identity \in Identities, Create(method, identity)
  PROVE  IInv'
<1> DEFINE t == issued + 1
           s == NewSession(method, identity)
           P == Prune(mem.sessions, cfg, clock)
           N == Newest(P, cfg.max - 1)
           R == [admin |-> mem.admin, sessions |-> N]
           next == Sessions(WithNewSession(t, s))
<1>1. up /\ issued < MaxTokens /\ issued' = issued + 1
  BY DEF Create
<1>2. /\ IsMemory(mem) /\ Good(mem, cfg.secret) /\ IsSessionMap(mem.sessions)
      /\ DOMAIN mem.sessions \subseteq 1..issued
      /\ t \in Tokens /\ issued \in Nat /\ cfg \in Configs /\ clock \in Nat
      /\ issued' \in 0..MaxTokens
  BY <1>1, Running DEF Tokens
<1>3. /\ IsSessionMap(P) /\ DOMAIN P \subseteq DOMAIN mem.sessions
      /\ \A u \in DOMAIN P : P[u] = mem.sessions[u]
  BY <1>2, PruneMap
<1>4. /\ IsSessionMap(N) /\ DOMAIN N \subseteq DOMAIN P
      /\ \A u \in DOMAIN N : N[u] = P[u]
  BY <1>3, NewestMap
<1>5. Good(R, cfg.secret)
  <2>1. DOMAIN N \subseteq DOMAIN mem.sessions /\ \A u \in DOMAIN N : N[u] = mem.sessions[u]
    BY <1>3, <1>4
  <2> QED
    BY <1>2, <1>4, <2>1, GoodRestriction
<1>6. s \in Session /\ SaneSession(s, cfg.secret)
  BY <1>2, NewSessionSane
<1>7. next = [admin |-> mem.admin, sessions |-> Insert(N, t, s)] /\ IsMemory(next)
  BY <1>2, SessionsRecord DEF WithNewSession
<1>8. Good([admin |-> R.admin, sessions |-> Insert(R.sessions, t, s)], cfg.secret)
  BY <1>2, <1>5, <1>6, GoodInsertion
<1>9. Good(next, cfg.secret)
  BY <1>7, <1>8
<1>10. DOMAIN next.sessions \subseteq 1..issued'
  <2>1. DOMAIN Insert(N, t, s) = DOMAIN N \cup {t}
    BY DEF Insert
  <2> QED
    BY <1>1, <1>2, <1>3, <1>4, <1>7, <2>1
<1>11. Mutate(next, Nothing) /\ UNCHANGED <<cfg, clock>>
  BY DEF Create
<1>12. issued <= issued'
  BY <1>1, <1>2
<1> HIDE DEF next
<1> QED
  BY <1>1, <1>2, <1>7, <1>9, <1>10, <1>11, <1>12, NothingConfirmed, MutateIInv

(* Deleting one session: an expired one, or one that is signed out.        *)
LEMMA DeleteIInv ==
  ASSUME IInv, up, NEW t, NEW done \in {Nothing, Done("revoke", t)}, done \in Confirmations,
         Mutate(Sessions(Delete(mem.sessions, t)), done), UNCHANGED <<cfg, clock, issued>>
  PROVE  IInv'
<1> DEFINE D == Delete(mem.sessions, t)
           next == Sessions(D)
<1>1. /\ IsMemory(mem) /\ Good(mem, cfg.secret) /\ IsSessionMap(mem.sessions)
      /\ DOMAIN mem.sessions \subseteq 1..issued
      /\ issued \in Nat /\ issued <= MaxTokens /\ MaxTokens \in Nat
  BY Running
<1>2. /\ IsSessionMap(D) /\ DOMAIN D = DOMAIN mem.sessions \ {t}
      /\ \A u \in DOMAIN D : D[u] = mem.sessions[u]
  BY <1>1, DeleteMap
<1>3. next = [admin |-> mem.admin, sessions |-> D] /\ IsMemory(next)
  BY <1>1, SessionsRecord
<1>4. Good(next, cfg.secret)
  BY <1>1, <1>2, <1>3, GoodRestriction
<1>5. Honest(done, next)
  BY <1>2, <1>3 DEF Honest, Done, Nothing
<1>6. DOMAIN next.sessions \subseteq 1..issued'
  BY <1>1, <1>2, <1>3
<1>7. issued' \in 0..MaxTokens /\ issued <= issued'
  BY <1>1
<1>8. Mutate(next, done)
  OBVIOUS
<1> HIDE DEF next
<1> QED
  BY <1>3, <1>4, <1>5, <1>6, <1>7, <1>8, MutateIInv

(* authenticate() of a live session that is not due for renewal: memory    *)
(* moves ahead of the document by less than the bound, because the session *)
(* would be due for renewal otherwise.                                     *)
LEMMA TouchIInv ==
  ASSUME IInv, NEW t, AuthenticateTouch(t)
  PROVE  IInv'
<1> DEFINE s == mem.sessions[t]
           n == Touched(s)
           S == Insert(mem.sessions, t, n)
<1>1. /\ up /\ t \in DOMAIN mem.sessions
      /\ ~Expired(s, cfg, clock) /\ clock < RenewalDue(s, cfg)
      /\ mem' = Sessions(S) /\ confirmed' = Nothing
      /\ UNCHANGED <<up, cfg, clock, issued, disk, adrift>>
  BY DEF AuthenticateTouch, Known
<1>2. /\ cfg \in Configs /\ clock \in Nat
      /\ IsMemory(mem) /\ Good(mem, cfg.secret)
      /\ s \in Session /\ t \in Tokens /\ SaneSession(s, cfg.secret)
  BY <1>1, Running DEF Good, IsSessionMap
<1>3. clock < s.expires
  BY <1>1, <1>2 DEF Expired, Session
<1>4. /\ n \in Session /\ SaneSession(n, cfg.secret) /\ SameButSeen(n, s)
      /\ s.seen <= n.seen
      /\ n.seen = s.seen \/ n.seen = clock
  BY <1>2, <1>3, TouchedSane
<1>5. mem' = [admin |-> mem.admin, sessions |-> S] /\ IsMemory(mem')
  BY <1>1, <1>2, SessionsRecord
<1>6. Good(mem', cfg.secret)
  BY <1>2, <1>4, <1>5, GoodInsertion
<1>7. /\ DOMAIN S = DOMAIN mem.sessions
      /\ S[t] = n
      /\ \A u \in DOMAIN mem.sessions \ {t} : S[u] = mem.sessions[u]
  BY <1>1 DEF Insert
<1>8. Typed'
  BY <1>1, <1>5, <1>7, NothingConfirmed DEF IInv, Typed
<1>9. Kept'
  BY <1>1, <1>6 DEF IInv, Kept
<1>10. Confirmed'
  BY <1>1, NothingConfirmed DEF Confirmed
<1>11. MemoryMatchesDocument'
  <2> SUFFICES ASSUME ~adrift
               PROVE  MemoryMatchesDocument'
    BY <1>1 DEF MemoryMatchesDocument
  <2> DEFINE d == disk.sessions[t]
             InStep(u, m) == /\ SameButSeen(m, disk.sessions[u])
                             /\ disk.sessions[u].seen <= m.seen
                             /\ m.seen - disk.sessions[u].seen < LagBound
  <2>1. /\ mem.admin = disk.admin
        /\ DOMAIN mem.sessions = DOMAIN disk.sessions
        /\ \A u \in DOMAIN mem.sessions : InStep(u, mem.sessions[u])
    BY <1>1 DEF IInv, MemoryMatchesDocument
  <2>2. d \in Session /\ SaneSession(d, disk.secret)
    BY <1>1, <2>1 DEF IInv, Kept, Good, IsSessionMap
  <2>3. SameButSeen(s, d) /\ d.seen <= s.seen /\ s.seen - d.seen < LagBound
    BY <1>1, <2>1
  <2>4. s.expires = d.expires
    BY <2>2, <2>3 DEF SameButSeen, Session
  <2>5. SameButSeen(n, d)
    BY <1>2, <1>4, <2>2, <2>3 DEF SameButSeen, Session
  <2>6. d.seen <= n.seen /\ n.seen - d.seen < LagBound
    <3>1. n.seen = clock => n.seen - d.seen < LagBound
      BY <1>1, <1>2, <2>2, <2>4, ConfigFacts
         DEF RenewalDue, LagBound, SaneSession, Session
    <3>2. d.seen \in Nat /\ s.seen \in Nat /\ n.seen \in Nat
      BY <1>2, <1>4, <2>2 DEF Session
    <3> QED
      BY <1>4, <2>3, <3>1, <3>2
  <2>7. \A u \in DOMAIN S : InStep(u, S[u])
    BY <1>7, <2>1, <2>5, <2>6
  <2>8. LagBound' = LagBound
    BY <1>1 DEF LagBound
  <2> HIDE DEF S
  <2> QED
    BY <1>1, <1>5, <1>7, <2>1, <2>7, <2>8 DEF MemoryMatchesDocument
<1> QED
  BY <1>8, <1>9, <1>10, <1>11 DEF IInv

(* authenticate() of a session that is due for renewal.                    *)
LEMMA RenewIInv ==
  ASSUME IInv, NEW t, AuthenticateRenew(t)
  PROVE  IInv'
<1> DEFINE s == mem.sessions[t]
           n == Renewed(s)
           S == Insert(mem.sessions, t, n)
           next == Sessions(S)
<1>1. /\ up /\ t \in DOMAIN mem.sessions /\ ~Expired(s, cfg, clock)
      /\ Mutate(next, Nothing) /\ UNCHANGED <<cfg, clock, issued>>
  BY DEF AuthenticateRenew, Known
<1>2. /\ cfg \in Configs /\ clock \in Nat
      /\ IsMemory(mem) /\ Good(mem, cfg.secret)
      /\ s \in Session /\ t \in Tokens /\ SaneSession(s, cfg.secret)
      /\ DOMAIN mem.sessions \subseteq 1..issued
      /\ issued \in Nat /\ issued <= MaxTokens /\ MaxTokens \in Nat
  BY <1>1, Running DEF Good, IsSessionMap
<1>3. clock < s.expires
  BY <1>1, <1>2 DEF Expired, Session
<1>4. n \in Session /\ SaneSession(n, cfg.secret)
  BY <1>2, <1>3, RenewedSane
<1>5. next = [admin |-> mem.admin, sessions |-> S] /\ IsMemory(next)
  BY <1>2, SessionsRecord
<1>6. Good(next, cfg.secret)
  BY <1>2, <1>4, <1>5, GoodInsertion
<1>7. DOMAIN next.sessions \subseteq 1..issued'
  <2>1. DOMAIN S = DOMAIN mem.sessions
    BY <1>1 DEF Insert
  <2> QED
    BY <1>1, <1>2, <1>5, <2>1
<1>8. issued' \in 0..MaxTokens /\ issued <= issued'
  BY <1>1, <1>2
<1> HIDE DEF next
<1> QED
  BY <1>1, <1>5, <1>6, <1>7, <1>8, NothingConfirmed, MutateIInv

(* Setting up the administrator and changing the password.                 *)
LEMMA ChangeIInv ==
  ASSUME IInv, up, NEW t \in DOMAIN mem.sessions, NEW op \in {"initialize", "update"},
         NEW username \in Usernames, NEW hash \in Hashes,
         ChangeAdministrator(op, t, username, hash), UNCHANGED <<cfg, clock, issued>>
  PROVE  IInv'
<1> DEFINE O == Only(mem.sessions, t)
           kept == [admin |-> mem.admin, sessions |-> O]
           next == [admin |-> [username |-> username, hash |-> hash], sessions |-> O]
<1>1. /\ Good(mem, cfg.secret) /\ IsSessionMap(mem.sessions)
      /\ DOMAIN mem.sessions \subseteq 1..issued
      /\ issued \in Nat /\ issued <= MaxTokens /\ MaxTokens \in Nat
  BY Running
<1>2. IsSessionMap(O) /\ DOMAIN O = {t} /\ O[t] = mem.sessions[t]
  BY <1>1, OnlyMap
<1>3. Good(kept, cfg.secret)
  BY <1>1, <1>2, GoodRestriction
<1>4. Good([admin |-> [username |-> username, hash |-> hash], sessions |-> kept.sessions],
           cfg.secret)
  BY <1>3, GoodAdministrator
<1>5. Good(next, cfg.secret) /\ IsMemory(next) /\ next.sessions = O
  BY <1>4 DEF IsMemory
<1>6. Done(op, t) \in Confirmations /\ Honest(Done(op, t), next)
  BY <1>1, <1>2, <1>5 DEF Done, Confirmations, Honest
<1>7. DOMAIN next.sessions \subseteq 1..issued'
  BY <1>1, <1>2, <1>5
<1>8. issued' \in 0..MaxTokens /\ issued <= issued'
  BY <1>1
<1>9. Mutate(next, Done(op, t)) /\ UNCHANGED <<cfg, clock>>
  BY DEF ChangeAdministrator
<1> HIDE DEF next
<1> QED
  BY <1>5, <1>6, <1>7, <1>8, <1>9, MutateIInv

(* The sessions a start keeps are sessions of the document, and all of     *)
(* them when it has nothing to write.                                      *)
LEMMA StartingMap ==
  ASSUME NEW c, IsSessionMap(disk.sessions)
  PROVE  LET X == StartingSessions(c)
         IN  /\ IsSessionMap(X) /\ DOMAIN X \subseteq DOMAIN disk.sessions
             /\ \A t \in DOMAIN X : X[t] = disk.sessions[t]
             /\ disk.secret # c.secret => DOMAIN X = {}
             /\ ~MustPersist(c) => disk.secret = c.secret /\ X = disk.sessions
<1> DEFINE L == LoadedSessions(c)
           P == Prune(L, c, clock)
           X == StartingSessions(c)
<1>1. /\ IsSessionMap(L) /\ DOMAIN L \subseteq DOMAIN disk.sessions
      /\ \A t \in DOMAIN L : L[t] = disk.sessions[t]
      /\ disk.secret # c.secret => DOMAIN L = {}
      /\ disk.secret = c.secret => L = disk.sessions
  BY DEF LoadedSessions, NoSessions, IsSessionMap
<1>2. /\ IsSessionMap(P) /\ DOMAIN P \subseteq DOMAIN L
      /\ \A t \in DOMAIN P : P[t] = L[t]
  BY <1>1, PruneMap
<1>3. /\ IsSessionMap(Newest(L, c.max)) /\ DOMAIN Newest(L, c.max) \subseteq DOMAIN L
      /\ \A t \in DOMAIN Newest(L, c.max) : Newest(L, c.max)[t] = L[t]
  BY <1>1, NewestMap
<1>4. X = P \/ X = Newest(L, c.max)
  BY DEF StartingSessions
<1>5. /\ IsSessionMap(X) /\ DOMAIN X \subseteq DOMAIN L
      /\ \A t \in DOMAIN X : X[t] = L[t]
  BY <1>2, <1>3, <1>4
<1>6. ~MustPersist(c) => disk.secret = c.secret /\ X = L
  BY DEF MustPersist
<1> HIDE DEF L, X
<1>7. /\ IsSessionMap(X) /\ DOMAIN X \subseteq DOMAIN disk.sessions
      /\ \A t \in DOMAIN X : X[t] = disk.sessions[t]
      /\ disk.secret # c.secret => DOMAIN X = {}
      /\ ~MustPersist(c) => disk.secret = c.secret /\ X = disk.sessions
  BY <1>1, <1>5, <1>6
<1> QED
  BY <1>7 DEF X

(* The constructor.                                                        *)
LEMMA StartIInv ==
  ASSUME IInv, NEW c \in Configs, Start(c)
  PROVE  IInv'
<1> DEFINE X == StartingSessions(c)
           m == [admin |-> disk.admin, sessions |-> X]
           doc == Document(m, c)
<1>1. /\ up = FALSE /\ mem = NoMemory /\ cfg' = c /\ confirmed' = Nothing /\ adrift' = FALSE
      /\ UNCHANGED <<clock, issued>>
  BY DEF Start, IInv, Typed
<1>2. /\ IsDocument(disk) /\ disk.secret \in Secrets /\ Good(disk, disk.secret)
      /\ IsSessionMap(disk.sessions) /\ DOMAIN disk.sessions \subseteq 1..issued
  BY DEF IInv, Typed, Kept, Good
<1>3. /\ IsSessionMap(X) /\ DOMAIN X \subseteq DOMAIN disk.sessions
      /\ \A t \in DOMAIN X : X[t] = disk.sessions[t]
      /\ disk.secret # c.secret => DOMAIN X = {}
      /\ ~MustPersist(c) => disk.secret = c.secret /\ X = disk.sessions
  BY <1>2, StartingMap
<1>4. Good(m, c.secret)
  <2>1. Good(m, disk.secret)
    BY <1>2, <1>3, GoodRestriction
  <2> QED
    BY <1>3, <2>1 DEF Good
<1>5. /\ IsMemory(m) /\ IsDocument(doc) /\ doc.secret = c.secret /\ c.secret \in Secrets
      /\ doc.sessions = X /\ doc.admin = disk.admin
      /\ Good(doc, doc.secret)
  BY <1>4, ConfigFacts DEF IsMemory, IsDocument, Document, Good
<1> DEFINE written == IF MustPersist(c) THEN doc ELSE disk
<1>6. /\ IsDocument(written) /\ written.secret = c.secret
      /\ written.sessions = X /\ written.admin = disk.admin
      /\ Good(written, written.secret)
  BY <1>2, <1>3, <1>5
<1>7. \/ disk' = written /\ up' = TRUE /\ mem' = m
      \/ disk' \in {disk, doc} /\ UNCHANGED <<up, mem>>
  BY DEF Start
<1>8. DOMAIN NoMemory.sessions = {} /\ IsMemory(NoMemory)
  BY DEF NoMemory, NoSessions, IsMemory
<1> HIDE DEF doc, written, X
<1>9. Typed'
  <2>1. CASE disk' = written /\ up' = TRUE /\ mem' = m
    BY <1>1, <1>2, <1>3, <1>5, <1>6, <2>1, NothingConfirmed DEF IInv, Typed
  <2>2. CASE disk' \in {disk, doc} /\ UNCHANGED <<up, mem>>
    BY <1>1, <1>2, <1>3, <1>5, <1>8, <2>2, NothingConfirmed DEF IInv, Typed
  <2> QED
    BY <1>7, <2>1, <2>2
<1>10. Kept'
  BY <1>1, <1>2, <1>4, <1>5, <1>6, <1>7 DEF Kept
<1>11. Confirmed'
  BY <1>1, NothingConfirmed DEF Confirmed
<1>12. MemoryMatchesDocument'
  <2> SUFFICES ASSUME up'
               PROVE  MemoryMatchesDocument'
    BY DEF MemoryMatchesDocument
  <2>1. mem' = m /\ disk' = written
    BY <1>1, <1>7
  <2>2. mem'.sessions = X /\ disk'.sessions = X /\ mem'.admin = disk'.admin
    BY <1>6, <2>1
  <2>3. \A t \in DOMAIN X : /\ SameButSeen(X[t], X[t])
                            /\ X[t].seen <= X[t].seen
                            /\ X[t].seen - X[t].seen < LagBound'
    BY <1>1, <1>3, NoLag DEF LagBound
  <2> QED
    BY <2>2, <2>3 DEF MemoryMatchesDocument
<1> QED
  BY <1>9, <1>10, <1>11, <1>12 DEF IInv

(* The process ends.                                                       *)
LEMMA StopIInv ==
  ASSUME IInv, Stop
  PROVE  IInv'
<1>1. DOMAIN NoMemory.sessions = {} /\ IsMemory(NoMemory)
  BY DEF NoMemory, NoSessions, IsMemory
<1>2. Typed'
  BY <1>1, NothingConfirmed DEF IInv, Typed, Stop
<1>3. Kept'
  BY DEF IInv, Kept, Stop
<1>4. Confirmed'
  BY NothingConfirmed DEF Confirmed, Stop
<1>5. MemoryMatchesDocument'
  BY DEF MemoryMatchesDocument, Stop
<1> QED
  BY <1>2, <1>3, <1>4, <1>5 DEF IInv

(* The document setup leaves behind.                                       *)
LEMMA InitIInv ==
  ASSUME Init
  PROVE  IInv
<1>1. /\ up = FALSE /\ cfg \in Configs /\ clock = 0 /\ issued = 0 /\ mem = NoMemory
      /\ adrift = FALSE /\ confirmed = Nothing
  BY DEF Init
<1>2. /\ IsDocument(disk) /\ disk.secret \in Secrets /\ disk.sessions = NoSessions
      /\ disk.admin \in InitialAdministrators
  BY <1>1, ConfigFacts DEF Init, IsDocument
<1>3. IsSessionMap(NoSessions) /\ DOMAIN NoSessions = {}
  BY DEF IsSessionMap, NoSessions
<1>4. /\ disk.admin \in Administrators
      /\ disk.admin.username = None <=> disk.admin.hash = None
  BY <1>2, NoneAssumption DEF InitialAdministrators, NoAdministrator, Administrators
<1>5. Good(disk, disk.secret)
  BY <1>2, <1>3, <1>4 DEF Good
<1>6. Typed
  <2>1. DOMAIN mem.sessions = {} /\ DOMAIN disk.sessions = {} /\ IsMemory(mem)
    BY <1>1, <1>2, <1>3 DEF NoMemory, IsMemory
  <2>2. clock \in 0..MaxTime /\ issued \in 0..MaxTokens
    BY <1>1, BoundAssumption
  <2> QED
    BY <1>1, <1>2, <2>1, <2>2, NothingConfirmed DEF Typed
<1>7. Kept /\ Confirmed /\ MemoryMatchesDocument
  BY <1>1, <1>5, NothingConfirmed DEF Kept, Confirmed, MemoryMatchesDocument
<1> QED
  BY <1>6, <1>7 DEF IInv

(* Every step preserves the invariant: the two changes of the              *)
(* administrator find a named one or name it, with a password.             *)
LEMMA NextIInv ==
  ASSUME IInv, [Next]_vars
  PROVE  IInv'
<1>1. ASSUME NEW c \in Configs, Start(c)  PROVE IInv'
  BY <1>1, StartIInv
<1>2. CASE Stop
  BY <1>2, StopIInv
<1>3. CASE Tick
  BY <1>3, QuietIInv DEF Tick
<1>4. CASE CreateAny
  BY <1>4, CreateIInv DEF CreateAny
<1>5. ASSUME NEW t, AuthenticateUnknown(t)  PROVE IInv'
  BY <1>5, QuietIInv DEF AuthenticateUnknown, Unchanged, IInv, Typed
<1>6. ASSUME NEW t, AuthenticateExpired(t)  PROVE IInv'
  BY <1>6, DeleteIInv, NothingConfirmed DEF AuthenticateExpired
<1>7. ASSUME NEW t, AuthenticateTouch(t)  PROVE IInv'
  BY <1>7, TouchIInv
<1>8. ASSUME NEW t, AuthenticateRenew(t)  PROVE IInv'
  BY <1>8, RenewIInv
<1>9. ASSUME NEW t \in 1..issued, Revoke(t)  PROVE IInv'
  <2>1. CASE Known(t)
    <3>1. Done("revoke", t) \in Confirmations
      BY BoundAssumption DEF Done, Confirmations, IInv, Typed
    <3> QED
      BY <1>9, <2>1, <3>1, DeleteIInv DEF Revoke
  <2>2. CASE ~Known(t)
    BY <1>9, <2>2, QuietIInv DEF Revoke, Unchanged, IInv, Typed
  <2> QED
    BY <2>1, <2>2
<1>10. ASSUME NEW t, NEW username \in Usernames, NEW hash \in Hashes,
              InitializeAdministrator(t, username, hash)
       PROVE  IInv'
  <2>1. CASE mem.admin.username # None \/ t \notin DOMAIN mem.sessions
    BY <1>10, <2>1, QuietIInv DEF InitializeAdministrator, Unchanged, IInv, Typed
  <2>2. CASE ~(mem.admin.username # None \/ t \notin DOMAIN mem.sessions)
    BY <1>10, <2>2, ChangeIInv DEF InitializeAdministrator
  <2> QED
    BY <2>1, <2>2
<1>11. ASSUME NEW t, NEW hash \in Hashes, UpdateAdministratorPassword(t, hash)
       PROVE  IInv'
  <2>1. CASE ~PasswordConfigured \/ t \notin DOMAIN mem.sessions
    BY <1>11, <2>1, QuietIInv DEF UpdateAdministratorPassword, Unchanged, IInv, Typed
  <2>2. CASE PasswordConfigured /\ t \in DOMAIN mem.sessions
    <3>1. up
      BY <1>11 DEF UpdateAdministratorPassword
    <3>2. mem.admin.username \in Usernames
      BY <2>2, <3>1, Running DEF PasswordConfigured, Good, Administrators
    <3> QED
      BY <1>11, <2>2, <3>1, <3>2, ChangeIInv DEF UpdateAdministratorPassword
  <2> QED
    BY <2>1, <2>2
<1>12. CASE UNCHANGED vars
  <2>1. Typed'
    BY <1>12 DEF IInv, Typed, vars
  <2>2. Kept' /\ Confirmed'
    BY <1>12 DEF IInv, Kept, Confirmed, vars
  <2>3. MemoryMatchesDocument'
    BY <1>12 DEF IInv, MemoryMatchesDocument, LagBound, vars
  <2> QED
    BY <2>1, <2>2, <2>3 DEF IInv
<1> QED
  BY <1>1, <1>2, <1>3, <1>4, <1>5, <1>6, <1>7, <1>8, <1>9, <1>10, <1>11, <1>12 DEF Next

-----------------------------------------------------------------------------
(***************************************************************************)
(* The theorems.                                                           *)
(***************************************************************************)

(* The invariant holds in every state of the specification.                *)
THEOREM Invariance == Spec => []IInv
<1>1. Init => IInv
  BY InitIInv
<1>2. IInv /\ [Next]_vars => IInv'
  BY NextIInv
<1> QED
  BY <1>1, <1>2, PTL DEF Spec

(* Type correctness of the store's memory and document.                    *)
THEOREM TypeCorrect == Spec => []TypeOK
<1>1. IInv => TypeOK
  <2> SUFFICES ASSUME IInv  PROVE TypeOK
    OBVIOUS
  <2>1. Good(disk, disk.secret) /\ IsDocument(disk) /\ disk.secret \in Secrets
    BY DEF IInv, Kept, Typed
  <2>2. mem.admin \in Administrators /\ IsSessionMap(mem.sessions) /\ IsMemory(mem)
    <3>1. CASE up
      BY <3>1, Running DEF Good
    <3>2. CASE ~up
      <4>1. mem = NoMemory
        BY <3>2 DEF IInv, Typed
      <4>2. NoMemory.admin \in Administrators
        BY DEF NoMemory, NoAdministrator, Administrators
      <4>3. IsSessionMap(NoMemory.sessions)
        BY DEF NoMemory, NoSessions, IsSessionMap
      <4>4. IsMemory(NoMemory)
        BY DEF NoMemory, IsMemory
      <4> QED
        BY <4>1, <4>2, <4>3, <4>4
    <3> QED
      BY <3>1, <3>2
  <2>3. mem \in [admin: Administrators, sessions: {mem.sessions}]
    BY <2>2 DEF IsMemory
  <2>4. disk \in [secret: Secrets, admin: Administrators, sessions: {disk.sessions}]
    BY <2>1 DEF IsDocument, Good
  <2> QED
    BY <2>1, <2>2, <2>3, <2>4 DEF TypeOK, IInv, Typed, Good
<1> QED
  BY <1>1, Invariance, PTL

(* mutate() keeps memory and document together: a crash ages a session by  *)
(* less than the bound.                                                    *)
THEOREM DocumentFollowsMemory == Spec => []MemoryMatchesDocument
<1>1. IInv => MemoryMatchesDocument
  BY DEF IInv
<1> QED
  BY <1>1, Invariance, PTL

(* A rotated secret leaves no session behind.                              *)
THEOREM RotationRevokes == Spec => []SessionsUnderCurrentSecret
<1>1. IInv => SessionsUnderCurrentSecret
  BY DEF IInv, Kept, Good, SaneSession, SessionsUnderCurrentSecret
<1> QED
  BY <1>1, Invariance, PTL

(* A confirmed change of the administrator signed everyone else out, in    *)
(* memory and in the document.                                             *)
THEOREM ChangeLeavesTheCaller == Spec => []OnlyTheCallerSurvives
<1>1. IInv => OnlyTheCallerSurvives
  BY DEF IInv, Confirmed, Honest, OnlyTheCallerSurvives
<1> QED
  BY <1>1, Invariance, PTL

-----------------------------------------------------------------------------
(***************************************************************************)
(* What a step may never do.                                               *)
(***************************************************************************)

Present == DOMAIN mem.sessions \cup DOMAIN disk.sessions

(* mutate() leaves no session that neither was there nor is written.       *)
LEMMA MutatePresent ==
  ASSUME NEW next, NEW done, Mutate(next, done), DOMAIN next.sessions \subseteq Present \cup {issued + 1}
  PROVE  Present' \subseteq Present \cup {issued + 1}
<1>1. Document(next, cfg).sessions = next.sessions
  BY DEF Document
<1>2. DOMAIN NoMemory.sessions = {}
  BY DEF NoMemory, NoSessions
<1> QED
  BY <1>1, <1>2 DEF Mutate, Present

(* Replacing the session map by one that has one new session at most.      *)
LEMMA SessionsPresent ==
  ASSUME IInv, up, NEW S, NEW done, Mutate(Sessions(S), done),
         DOMAIN S \subseteq DOMAIN mem.sessions \cup {issued + 1}
  PROVE  Present' \subseteq Present \cup {issued + 1}
<1>1. Sessions(S).sessions = S
  BY Running, SessionsRecord
<1> HIDE DEF Sessions
<1> QED
  BY <1>1, MutatePresent DEF Present

(* The only session a step brings is the next one to be issued.            *)
LEMMA NextPresent ==
  ASSUME IInv, [Next]_vars
  PROVE  Present' \subseteq Present \cup {issued + 1}
<1> DEFINE Same == mem' = mem /\ disk' = disk
<1>1. ASSUME NEW c \in Configs, Start(c)
      PROVE  Present' \subseteq Present
  <2>1. IsSessionMap(disk.sessions)
    BY DEF IInv, Kept, Good
  <2>2. DOMAIN StartingSessions(c) \subseteq DOMAIN disk.sessions
    BY <2>1, StartingMap
  <2> DEFINE m == [admin |-> disk.admin, sessions |-> StartingSessions(c)]
  <2>3. mem' \in {mem, m} /\ disk' \in {disk, Document(m, c)}
    BY <1>1 DEF Start
  <2>4. m.sessions = StartingSessions(c) /\ Document(m, c).sessions = StartingSessions(c)
    BY DEF Document
  <2> HIDE DEF m
  <2> QED
    BY <2>2, <2>3, <2>4 DEF Present
<1>2. CASE Stop
  BY <1>2 DEF Stop, NoMemory, NoSessions, Present
<1>3. CASE Tick \/ UNCHANGED vars
  BY <1>3 DEF Tick, vars, Present
<1>4. ASSUME NEW method, NEW identity, Create(method, identity)
      PROVE  Present' \subseteq Present \cup {issued + 1}
  <2> DEFINE P == Prune(mem.sessions, cfg, clock)
             N == Newest(P, cfg.max - 1)
             S == WithNewSession(issued + 1, NewSession(method, identity))
  <2>1. up /\ Mutate(Sessions(S), Nothing)
    BY <1>4 DEF Create
  <2>2. IsSessionMap(mem.sessions)
    BY <2>1, Running
  <2>3. IsSessionMap(P) /\ DOMAIN P \subseteq DOMAIN mem.sessions
    BY <2>2, PruneMap
  <2>4. DOMAIN N \subseteq DOMAIN P
    BY <2>3, NewestMap
  <2>5. DOMAIN S = DOMAIN N \cup {issued + 1}
    BY DEF WithNewSession, Insert
  <2> HIDE DEF S
  <2> QED
    BY <2>1, <2>3, <2>4, <2>5, SessionsPresent
<1>5. ASSUME NEW t, AuthenticateTouch(t)
      PROVE  Present' \subseteq Present
  <2>1. /\ t \in DOMAIN mem.sessions /\ disk' = disk
        /\ mem' = Sessions(Insert(mem.sessions, t, Touched(mem.sessions[t])))
    BY <1>5 DEF AuthenticateTouch, Known
  <2>2. mem'.sessions = Insert(mem.sessions, t, Touched(mem.sessions[t]))
    BY <1>5, <2>1, Running, SessionsRecord DEF AuthenticateTouch
  <2> QED
    BY <2>1, <2>2 DEF Insert, Present
<1>6. ASSUME NEW t, AuthenticateRenew(t)
      PROVE  Present' \subseteq Present \cup {issued + 1}
  <2> DEFINE S == Insert(mem.sessions, t, Renewed(mem.sessions[t]))
  <2>1. up /\ t \in DOMAIN mem.sessions /\ Mutate(Sessions(S), Nothing)
    BY <1>6 DEF AuthenticateRenew, Known
  <2>2. DOMAIN S = DOMAIN mem.sessions
    BY <2>1 DEF Insert
  <2> HIDE DEF S
  <2> QED
    BY <2>1, <2>2, SessionsPresent
<1>7. ASSUME NEW t, NEW done, up, Mutate(Sessions(Delete(mem.sessions, t)), done)
      PROVE  Present' \subseteq Present \cup {issued + 1}
  <2>1. DOMAIN Delete(mem.sessions, t) \subseteq DOMAIN mem.sessions
    BY DEF Delete, Restrict
  <2> QED
    BY <1>7, <2>1, SessionsPresent
<1>8. ASSUME NEW t \in DOMAIN mem.sessions, NEW op, NEW username, NEW hash, up,
             ChangeAdministrator(op, t, username, hash)
      PROVE  Present' \subseteq Present \cup {issued + 1}
  <2> DEFINE next == [admin |-> [username |-> username, hash |-> hash],
                      sessions |-> Only(mem.sessions, t)]
  <2>1. DOMAIN next.sessions = {t}
    BY <1>8, Running, OnlyMap
  <2>2. Mutate(next, Done(op, t))
    BY <1>8 DEF ChangeAdministrator
  <2> HIDE DEF next
  <2> QED
    BY <2>1, <2>2, MutatePresent DEF Present
<1>9. ASSUME NEW t, AuthenticateUnknown(t) \/ AuthenticateExpired(t) \/ Revoke(t)
      PROVE  Present' \subseteq Present \cup {issued + 1}
  <2>1. CASE UNCHANGED <<mem, disk>>
    BY <2>1 DEF Present
  <2>2. up /\ (\/ UNCHANGED <<mem, disk>>
               \/ \E done : Mutate(Sessions(Delete(mem.sessions, t)), done))
    BY <1>9 DEF AuthenticateUnknown, AuthenticateExpired, Revoke, Unchanged
  <2> QED
    BY <1>7, <2>1, <2>2
<1>10. ASSUME NEW t, NEW username, NEW hash,
              InitializeAdministrator(t, username, hash) \/ UpdateAdministratorPassword(t, hash)
       PROVE  Present' \subseteq Present \cup {issued + 1}
  <2>1. CASE UNCHANGED <<mem, disk>>
    BY <2>1 DEF Present
  <2>2. up /\ (\/ UNCHANGED <<mem, disk>>
               \/ t \in DOMAIN mem.sessions /\ \E op, name : ChangeAdministrator(op, t, name, hash))
    BY <1>10 DEF InitializeAdministrator, UpdateAdministratorPassword, Unchanged
  <2> QED
    BY <1>8, <2>1, <2>2
<1> QED
  BY <1>1, <1>2, <1>3, <1>4, <1>5, <1>6, <1>9, <1>10 DEF Next, CreateAny

(* A confirmed logout lasts, and no session comes back.                    *)
THEOREM LogoutLasts == Spec => RevocationIsForever
<1> DEFINE Step == /\ confirmed.op = "revoke" => Gone(confirmed.token)
                   /\ \A t \in 1..issued : Gone(t) => Gone(t)'
<1>1. IInv /\ [Next]_vars => Step
  <2> SUFFICES ASSUME IInv, [Next]_vars
               PROVE  Step
    OBVIOUS
  <2>1. confirmed.op = "revoke" => Gone(confirmed.token)
    BY DEF IInv, Confirmed, Honest, Gone
  <2>2. ASSUME NEW t \in 1..issued, Gone(t)
        PROVE  Gone(t)'
    <3>1. t # issued + 1
      BY DEF IInv, Typed
    <3>2. t \notin Present
      BY <2>2 DEF Gone, Present
    <3>3. t \notin Present'
      BY <3>1, <3>2, NextPresent
    <3> QED
      BY <3>3 DEF Gone, Present
  <2> QED
    BY <2>1, <2>2
<1> QED
  BY <1>1, Invariance, PTL DEF Spec, RevocationIsForever

NameStays ==
  /\ disk.admin.username # None /\ ~adrift => disk'.admin.username = disk.admin.username
  /\ up /\ up' /\ mem.admin.username # None => mem'.admin.username = mem.admin.username

(* mutate() of a memory that is named as before, or that was not named:    *)
(* the document is named as the memory is unless it is adrift.             *)
LEMMA MutateNames ==
  ASSUME IInv, up, NEW next, NEW done, Mutate(next, done),
         next.admin.username = mem.admin.username \/ mem.admin.username = None
  PROVE  NameStays
<1>1. Document(next, cfg).admin = next.admin
  BY DEF Document
<1>2. ~adrift => mem.admin = disk.admin
  BY DEF IInv, MemoryMatchesDocument
<1> QED
  BY <1>1, <1>2 DEF Mutate, NameStays

(* A change of the session map alone.                                      *)
LEMMA SessionsNames ==
  ASSUME IInv, up, NEW S, NEW done, Mutate(Sessions(S), done)
  PROVE  NameStays
<1>1. Sessions(S).admin = mem.admin
  BY Running, SessionsRecord
<1> HIDE DEF Sessions
<1> QED
  BY <1>1, MutateNames

(* No step renames the administrator.                                     *)
LEMMA NextNames ==
  ASSUME IInv, [Next]_vars
  PROVE  NameStays
<1>1. ASSUME NEW c \in Configs, Start(c)
      PROVE  NameStays
  <2> DEFINE m == [admin |-> disk.admin, sessions |-> StartingSessions(c)]
  <2>1. ~up /\ disk' \in {disk, Document(m, c)}
    BY <1>1 DEF Start
  <2>2. Document(m, c).admin = disk.admin
    BY DEF Document
  <2> HIDE DEF m
  <2> QED
    BY <2>1, <2>2 DEF NameStays
<1>2. CASE Stop
  BY <1>2 DEF Stop, NameStays
<1>3. CASE Tick \/ UNCHANGED vars
  BY <1>3 DEF Tick, vars, NameStays
<1>4. ASSUME NEW method, NEW identity, Create(method, identity)
      PROVE  NameStays
  BY <1>4, SessionsNames DEF Create
<1>5. ASSUME NEW t, AuthenticateTouch(t)
      PROVE  NameStays
  <2>1. up /\ disk' = disk /\ \E S : mem' = Sessions(S)
    BY <1>5 DEF AuthenticateTouch
  <2>2. mem'.admin = mem.admin
    BY <2>1, Running, SessionsRecord
  <2> QED
    BY <2>1, <2>2 DEF NameStays
<1>6. ASSUME NEW t, AuthenticateExpired(t) \/ AuthenticateRenew(t)
      PROVE  NameStays
  BY <1>6, SessionsNames DEF AuthenticateExpired, AuthenticateRenew
<1>7. ASSUME NEW t, AuthenticateUnknown(t)
      PROVE  NameStays
  BY <1>7 DEF AuthenticateUnknown, Unchanged, NameStays
<1>8. ASSUME NEW t, Revoke(t)
      PROVE  NameStays
  <2>1. CASE Known(t)
    BY <1>8, <2>1, SessionsNames DEF Revoke
  <2>2. CASE ~Known(t)
    BY <1>8, <2>2 DEF Revoke, Unchanged, NameStays
  <2> QED
    BY <2>1, <2>2
<1>9. ASSUME NEW t, NEW op, NEW username, NEW hash, up,
             ChangeAdministrator(op, t, username, hash),
             username = mem.admin.username \/ mem.admin.username = None
      PROVE  NameStays
  <2> DEFINE next == [admin |-> [username |-> username, hash |-> hash],
                      sessions |-> Only(mem.sessions, t)]
  <2>1. next.admin.username = username /\ Mutate(next, Done(op, t))
    BY <1>9 DEF ChangeAdministrator
  <2> HIDE DEF next
  <2> QED
    BY <1>9, <2>1, MutateNames
<1>10. ASSUME NEW t, NEW username, NEW hash,
              InitializeAdministrator(t, username, hash)
       PROVE  NameStays
  <2>1. CASE UNCHANGED <<up, mem, disk>>
    BY <2>1 DEF NameStays
  <2>2. CASE /\ mem.admin.username = None
             /\ ChangeAdministrator("initialize", t, username, hash)
    BY <1>9, <1>10, <2>2 DEF InitializeAdministrator
  <2> QED
    BY <1>10, <2>1, <2>2 DEF InitializeAdministrator, Unchanged
<1>11. ASSUME NEW t, NEW hash, UpdateAdministratorPassword(t, hash)
       PROVE  NameStays
  <2>1. CASE UNCHANGED <<up, mem, disk>>
    BY <2>1 DEF NameStays
  <2>2. CASE ChangeAdministrator("update", t, mem.admin.username, hash)
    BY <1>9, <1>11, <2>2 DEF UpdateAdministratorPassword
  <2> QED
    BY <1>11, <2>1, <2>2 DEF UpdateAdministratorPassword, Unchanged
<1> QED
  BY <1>1, <1>2, <1>3, <1>4, <1>5, <1>6, <1>7, <1>8, <1>10, <1>11 DEF Next, CreateAny

(* First-time setup happens once, and only it names the administrator.     *)
THEOREM NamedOnce == Spec => AdministratorNamedOnce
<1>1. IInv /\ [Next]_vars => NameStays
  BY NextNames
<1> QED
  BY <1>1, Invariance, PTL DEF Spec, AdministratorNamedOnce, NameStays

-----------------------------------------------------------------------------
(***************************************************************************)
(* How many sessions the store ever holds: the eviction of create() leaves *)
(* room for one session more, so no map outgrows the largest capacity, and *)
(* no document outgrows what loadAuthState() accepts.                      *)
(***************************************************************************)
Below == {p \in Nat \X Nat : p[1] < p[2]}

(* Every set of tokens has an oldest one.                                  *)
LEMMA Oldest ==
  ASSUME NEW T, T \subseteq Nat, T # {}
  PROVE  \E t \in T : \A u \in T : t <= u
<1>1. IsWellFoundedOn(OpToRel(<, Nat), Nat)
  BY NatLessThanWellFounded
<1>2. OpToRel(<, Nat) = Below
  BY DEF OpToRel, Below
<1>3. PICK t \in T : \A u \in T : <<u, t>> \notin Below
  BY <1>1, <1>2, WFMin
<1>4. ASSUME NEW u \in T
      PROVE  t <= u
  <2>1. <<u, t>> \in Nat \X Nat
    OBVIOUS
  <2>2. <<u, t>>[1] = u /\ <<u, t>>[2] = t
    OBVIOUS
  <2>3. <<u, t>> \in Below <=> u < t
    BY <2>1, <2>2 DEF Below
  <2> QED
    BY <1>3, <2>3
<1> QED
  BY <1>4

(* deleteOldest() keeps at most n sessions.                                *)
LEMMA NewestCardinality ==
  ASSUME NEW S, DOMAIN S \subseteq Nat, IsFiniteSet(DOMAIN S), NEW n \in Nat
  PROVE  /\ IsFiniteSet(DOMAIN Newest(S, n))
         /\ Cardinality(DOMAIN Newest(S, n)) <= n
<1> DEFINE Newer(t) == {u \in DOMAIN S : t < u}
           N == {t \in DOMAIN S : Cardinality(Newer(t)) < n}
<1>1. DOMAIN Newest(S, n) = N
  BY DEF Newest, Restrict
<1>2. IsFiniteSet(N)
  BY FS_Subset
<1>3. CASE N = {}
  <2>1. Cardinality(N) = 0
    BY <1>3, FS_EmptySet
  <2> QED
    BY <1>1, <1>2, <2>1
<1>4. CASE N # {}
  <2>1. PICK t \in N : \A u \in N : t <= u
    BY <1>4, Oldest
  <2>2. Cardinality(Newer(t)) < n
    BY <2>1
  <2>3. IsFiniteSet(Newer(t)) /\ Cardinality(Newer(t)) \in Nat
    BY FS_Subset, FS_CardinalityType
  <2>4. t \notin Newer(t)
    BY <2>1
  <2>5. /\ IsFiniteSet(Newer(t) \cup {t})
        /\ Cardinality(Newer(t) \cup {t}) = Cardinality(Newer(t)) + 1
    BY <2>3, <2>4, FS_AddElement
  <2>6. N \subseteq Newer(t) \cup {t}
    BY <2>1
  <2>7. Cardinality(N) <= Cardinality(Newer(t) \cup {t})
    BY <2>5, <2>6, FS_Subset
  <2>8. Cardinality(N) \in Nat
    BY <1>2, FS_CardinalityType
  <2> QED
    BY <1>1, <1>2, <2>2, <2>3, <2>5, <2>7, <2>8
<1> QED
  BY <1>3, <1>4

-----------------------------------------------------------------------------
(***************************************************************************)
(* A session map that some configuration has room for.                     *)
(***************************************************************************)
Roomy(S) ==
  IsFiniteSet(DOMAIN S) /\ CapacityOfSomeConfig(Cardinality(DOMAIN S))

(* Deleting sessions, or replacing one, needs no more room.                *)
LEMMA RoomySubset ==
  ASSUME NEW S, Roomy(S), NEW R, DOMAIN R \subseteq DOMAIN S
  PROVE  Roomy(R)
<1>1. IsFiniteSet(DOMAIN R) /\ Cardinality(DOMAIN R) <= Cardinality(DOMAIN S)
  BY FS_Subset DEF Roomy
<1>2. Cardinality(DOMAIN R) \in Nat /\ Cardinality(DOMAIN S) \in Nat
  BY <1>1, FS_CardinalityType DEF Roomy
<1>3. PICK c \in Configs : Cardinality(DOMAIN S) <= c.max
  BY DEF Roomy, CapacityOfSomeConfig
<1>4. c.max \in Nat
  BY ConfigFacts
<1>5. Cardinality(DOMAIN R) <= c.max
  BY <1>1, <1>2, <1>3, <1>4
<1> QED
  BY <1>1, <1>5 DEF Roomy, CapacityOfSomeConfig

(* No session needs no room.                                               *)
LEMMA RoomyEmpty ==
  ASSUME cfg \in Configs, NEW R, DOMAIN R = {}
  PROVE  Roomy(R)
<1>1. cfg.max \in Nat
  BY ConfigFacts
<1>2. IsFiniteSet(DOMAIN R) /\ Cardinality(DOMAIN R) = 0
  BY FS_EmptySet
<1>3. Cardinality(DOMAIN R) <= cfg.max
  BY <1>1, <1>2
<1> QED
  BY <1>2, <1>3 DEF Roomy, CapacityOfSomeConfig

(* create() makes room for the session it adds.                            *)
LEMMA RoomyCreate ==
  ASSUME IInv, up, Roomy(mem.sessions), NEW t, NEW s
  PROVE  Roomy(WithNewSession(t, s))
<1> DEFINE P == Prune(mem.sessions, cfg, clock)
           N == Newest(P, cfg.max - 1)
           W == WithNewSession(t, s)
<1>1. cfg \in Configs /\ IsSessionMap(mem.sessions)
  BY Running
<1>2. cfg.max \in Nat /\ cfg.max - 1 \in Nat
  BY <1>1, ConfigFacts
<1>3. IsSessionMap(P) /\ Roomy(P)
  BY <1>1, PruneMap, RoomySubset
<1>4. DOMAIN P \subseteq Nat /\ IsFiniteSet(DOMAIN P)
  BY <1>3 DEF IsSessionMap, Tokens, Roomy
<1>5. IsFiniteSet(DOMAIN N) /\ Cardinality(DOMAIN N) <= cfg.max - 1
  BY <1>2, <1>4, NewestCardinality
<1>6. DOMAIN W = DOMAIN N \cup {t}
  BY DEF WithNewSession, Insert
<1>7. IsFiniteSet(DOMAIN W) /\ Cardinality(DOMAIN W) <= Cardinality(DOMAIN N) + 1
  <2>1. Cardinality(DOMAIN N) \in Nat
    BY <1>5, FS_CardinalityType
  <2> QED
    BY <1>5, <1>6, <2>1, FS_AddElement
<1>8. Cardinality(DOMAIN W) <= cfg.max
  <2>1. Cardinality(DOMAIN N) \in Nat /\ Cardinality(DOMAIN W) \in Nat
    BY <1>5, <1>7, FS_CardinalityType
  <2> QED
    BY <1>2, <1>5, <1>7, <2>1
<1> QED
  BY <1>1, <1>7, <1>8 DEF Roomy, CapacityOfSomeConfig

-----------------------------------------------------------------------------
(***************************************************************************)
(* The capacity in memory and document.                                    *)
(***************************************************************************)
Room == Roomy(mem.sessions) /\ Roomy(disk.sessions)

(* mutate() keeps to the capacity if the memory it is given does.          *)
LEMMA MutateRoom ==
  ASSUME IInv, Room, NEW next, NEW done, Mutate(next, done), Roomy(next.sessions)
  PROVE  Room'
<1>1. Document(next, cfg).sessions = next.sessions
  BY DEF Document
<1>2. cfg \in Configs
  BY DEF IInv, Typed
<1>3. DOMAIN NoMemory.sessions = {}
  BY DEF NoMemory, NoSessions
<1>4. Roomy(NoMemory.sessions)
  BY <1>2, <1>3, RoomyEmpty
<1>5. mem' \in {mem, next, NoMemory} /\ disk' \in {disk, Document(next, cfg)}
  BY DEF Mutate
<1>6. Roomy(mem'.sessions)
  BY <1>4, <1>5 DEF Room
<1>7. Roomy(disk'.sessions)
  BY <1>1, <1>5 DEF Room
<1> QED
  BY <1>6, <1>7 DEF Room

(* A change of the session map alone.                                      *)
LEMMA SessionsRoom ==
  ASSUME IInv, up, Room, NEW S, NEW done, Mutate(Sessions(S), done), Roomy(S)
  PROVE  Room'
<1>1. Sessions(S).sessions = S
  BY Running, SessionsRecord
<1> HIDE DEF Sessions
<1> QED
  BY <1>1, MutateRoom

(* Every step keeps to the capacity.                                       *)
LEMMA NextRoom ==
  ASSUME IInv, Room, [Next]_vars
  PROVE  Room'
<1>1. ASSUME NEW c \in Configs, Start(c)
      PROVE  Room'
  <2> DEFINE m == [admin |-> disk.admin, sessions |-> StartingSessions(c)]
  <2>1. IsSessionMap(disk.sessions)
    BY DEF IInv, Kept, Good
  <2>2. DOMAIN StartingSessions(c) \subseteq DOMAIN disk.sessions
    BY <2>1, StartingMap
  <2>3. Roomy(StartingSessions(c))
    BY <2>2, RoomySubset DEF Room
  <2>4. mem' \in {mem, m} /\ disk' \in {disk, Document(m, c)}
    BY <1>1 DEF Start
  <2>5. m.sessions = StartingSessions(c) /\ Document(m, c).sessions = StartingSessions(c)
    BY DEF Document
  <2> HIDE DEF m
  <2> QED
    BY <2>3, <2>4, <2>5 DEF Room
<1>2. CASE Stop
  <2>1. cfg \in Configs /\ DOMAIN NoMemory.sessions = {}
    BY DEF IInv, Typed, NoMemory, NoSessions
  <2>2. Roomy(NoMemory.sessions)
    BY <2>1, RoomyEmpty
  <2> QED
    BY <1>2, <2>2 DEF Stop, Room
<1>3. CASE Tick \/ UNCHANGED vars
  BY <1>3 DEF Tick, vars, Room
<1>4. ASSUME NEW method, NEW identity, Create(method, identity)
      PROVE  Room'
  <2> DEFINE S == WithNewSession(issued + 1, NewSession(method, identity))
  <2>1. up /\ Mutate(Sessions(S), Nothing)
    BY <1>4 DEF Create
  <2>2. Roomy(S)
    BY <2>1, RoomyCreate DEF Room
  <2> HIDE DEF S
  <2> QED
    BY <2>1, <2>2, SessionsRoom
<1>5. ASSUME NEW t, AuthenticateTouch(t)
      PROVE  Room'
  <2> DEFINE S == Insert(mem.sessions, t, Touched(mem.sessions[t]))
  <2>1. up /\ t \in DOMAIN mem.sessions /\ disk' = disk /\ mem' = Sessions(S)
    BY <1>5 DEF AuthenticateTouch, Known
  <2>2. mem'.sessions = S
    BY <2>1, Running, SessionsRecord
  <2>3. DOMAIN S = DOMAIN mem.sessions
    BY <2>1 DEF Insert
  <2>4. Roomy(S)
    BY <2>3, RoomySubset DEF Room
  <2> HIDE DEF S
  <2> QED
    BY <2>1, <2>2, <2>4 DEF Room
<1>6. ASSUME NEW t, AuthenticateRenew(t)
      PROVE  Room'
  <2> DEFINE S == Insert(mem.sessions, t, Renewed(mem.sessions[t]))
  <2>1. up /\ t \in DOMAIN mem.sessions /\ Mutate(Sessions(S), Nothing)
    BY <1>6 DEF AuthenticateRenew, Known
  <2>2. DOMAIN S = DOMAIN mem.sessions
    BY <2>1 DEF Insert
  <2>3. Roomy(S)
    BY <2>2, RoomySubset DEF Room
  <2> HIDE DEF S
  <2> QED
    BY <2>1, <2>3, SessionsRoom
<1>7. ASSUME NEW t, NEW done, up, Mutate(Sessions(Delete(mem.sessions, t)), done)
      PROVE  Room'
  <2>1. DOMAIN Delete(mem.sessions, t) \subseteq DOMAIN mem.sessions
    BY DEF Delete, Restrict
  <2>2. Roomy(Delete(mem.sessions, t))
    BY <2>1, RoomySubset DEF Room
  <2> QED
    BY <1>7, <2>2, SessionsRoom
<1>8. ASSUME NEW t \in DOMAIN mem.sessions, NEW op, NEW username, NEW hash,
             ChangeAdministrator(op, t, username, hash)
      PROVE  Room'
  <2> DEFINE next == [admin |-> [username |-> username, hash |-> hash],
                      sessions |-> Only(mem.sessions, t)]
  <2>1. DOMAIN next.sessions \subseteq DOMAIN mem.sessions
    BY DEF Only, Restrict
  <2>2. Roomy(next.sessions)
    BY <2>1, RoomySubset DEF Room
  <2>3. Mutate(next, Done(op, t))
    BY <1>8 DEF ChangeAdministrator
  <2> HIDE DEF next
  <2> QED
    BY <2>2, <2>3, MutateRoom
<1>9. ASSUME NEW t, AuthenticateUnknown(t) \/ AuthenticateExpired(t) \/ Revoke(t)
      PROVE  Room'
  <2>1. CASE UNCHANGED <<mem, disk>>
    BY <2>1 DEF Room
  <2>2. up /\ (\/ UNCHANGED <<mem, disk>>
               \/ \E done : Mutate(Sessions(Delete(mem.sessions, t)), done))
    BY <1>9 DEF AuthenticateUnknown, AuthenticateExpired, Revoke, Unchanged
  <2> QED
    BY <1>7, <2>1, <2>2
<1>10. ASSUME NEW t, NEW username, NEW hash,
              InitializeAdministrator(t, username, hash) \/ UpdateAdministratorPassword(t, hash)
       PROVE  Room'
  <2>1. CASE UNCHANGED <<mem, disk>>
    BY <2>1 DEF Room
  <2>2. \/ UNCHANGED <<mem, disk>>
        \/ t \in DOMAIN mem.sessions /\ \E op, name : ChangeAdministrator(op, t, name, hash)
    BY <1>10 DEF InitializeAdministrator, UpdateAdministratorPassword, Unchanged
  <2> QED
    BY <1>8, <2>1, <2>2
<1> QED
  BY <1>1, <1>2, <1>3, <1>4, <1>5, <1>6, <1>9, <1>10 DEF Next, CreateAny

(* The capacity holds in every state of the specification.                 *)
LEMMA AlwaysRoom == Spec => [](IInv /\ Room)
<1>1. Init => IInv /\ Room
  <2> SUFFICES ASSUME Init
               PROVE  IInv /\ Room
    OBVIOUS
  <2>1. IInv
    BY InitIInv
  <2>2. /\ cfg \in Configs
        /\ DOMAIN mem.sessions = {} /\ DOMAIN disk.sessions = {}
    BY DEF Init, NoMemory, NoSessions
  <2>3. Roomy(mem.sessions) /\ Roomy(disk.sessions)
    BY <2>2, RoomyEmpty
  <2> QED
    BY <2>1, <2>3 DEF Room
<1>2. IInv /\ Room /\ [Next]_vars => (IInv /\ Room)'
  BY NextIInv, NextRoom
<1> QED
  BY <1>1, <1>2, PTL DEF Spec

(* No map of sessions outgrows the largest capacity the store was          *)
(* configured with.                                                        *)
THEOREM CapacityBounded == Spec => []WithinLargestCapacity
<1>1. IInv /\ Room => WithinLargestCapacity
  BY DEF Room, Roomy, WithinLargestCapacity
<1> QED
  BY <1>1, AlwaysRoom, PTL

(* Unless a field of an identity is blank, the store never writes a        *)
(* document that loadAuthState() refuses.                                  *)
THEOREM AlwaysLoadable ==
  ASSUME "blank-field" \notin Identities
  PROVE  Spec => []DocumentLoadable
<1>1. IInv /\ Room => DocumentLoadable
  <2> SUFFICES ASSUME IInv, Room
               PROVE  DocumentLoadable
    OBVIOUS
  <2>1. Good(disk, disk.secret)
    BY DEF IInv, Kept
  <2>2. PICK c \in Configs : Cardinality(DOMAIN disk.sessions) <= c.max
    BY DEF Room, Roomy, CapacityOfSomeConfig
  <2>3. Cardinality(DOMAIN disk.sessions) <= 4096
    <3>1. c.max \in Nat /\ c.max <= 1024
      BY ConfigFacts
    <3>2. Cardinality(DOMAIN disk.sessions) \in Nat
      BY FS_CardinalityType DEF Room, Roomy
    <3> QED
      BY <2>2, <3>1, <3>2
  <2>4. \A t \in DOMAIN disk.sessions :
          /\ disk.sessions[t].identity # "blank-field"
          /\ disk.sessions[t].created <= disk.sessions[t].seen
          /\ disk.sessions[t].seen <= disk.sessions[t].expires
    <3>1. \A t \in DOMAIN disk.sessions : disk.sessions[t].identity \in Identities
      BY <2>1 DEF Good, IsSessionMap, Session
    <3> QED
      BY <2>1, <3>1 DEF Good, SaneSession
  <2> QED
    BY <2>1, <2>3, <2>4 DEF DocumentLoadable, Loadable, Good
<1> QED
  BY <1>1, AlwaysRoom, PTL

-----------------------------------------------------------------------------
(***************************************************************************)
(* What a restart drops.                                                   *)
(***************************************************************************)
(* Every set of tokens that is not empty has a youngest one.               *)
LEMMA Youngest ==
  ASSUME NEW T, T \subseteq Tokens, T # {}
  PROVE  \E t \in T : \A u \in T : u <= t
<1> DEFINE Ages == {MaxTokens - t : t \in T}
<1>1. \A t \in T : t \in Nat /\ MaxTokens - t \in Nat
  BY BoundAssumption DEF Tokens
<1>2. Ages \subseteq Nat /\ Ages # {}
  BY <1>1
<1>3. PICK a \in Ages : \A b \in Ages : a <= b
  <2> HIDE DEF Ages
  <2> QED
    BY <1>2, Oldest
<1>4. PICK t \in T : a = MaxTokens - t
  BY <1>3
<1>5. ASSUME NEW u \in T
      PROVE  u <= t
  <2>1. MaxTokens - t <= MaxTokens - u
    BY <1>3, <1>4
  <2> QED
    BY <1>1, <2>1, BoundAssumption
<1> QED
  BY <1>5

(* deleteOldest() deletes a session only if n newer ones are kept.         *)
LEMMA NewestFull ==
  ASSUME NEW S, DOMAIN S \subseteq Tokens, NEW n \in Nat,
         NEW t \in DOMAIN S \ DOMAIN Newest(S, n)
  PROVE  n <= Cardinality({u \in DOMAIN Newest(S, n) : t < u})
<1> DEFINE Newer(d) == {u \in DOMAIN S : d < u}
           N == {d \in DOMAIN S : Cardinality(Newer(d)) < n}
<1>1. DOMAIN Newest(S, n) = N
  BY DEF Newest, Restrict
<1>2. DOMAIN S \subseteq Nat /\ IsFiniteSet(DOMAIN S)
  <2>1. Tokens \subseteq Nat /\ IsFiniteSet(Tokens)
    BY FS_Interval, BoundAssumption DEF Tokens
  <2> QED
    BY <2>1, FS_Subset
<1>3. PICK m \in DOMAIN S \ N : \A d \in DOMAIN S \ N : d <= m
  <2>1. DOMAIN S \ N # {} /\ DOMAIN S \ N \subseteq Tokens
    BY <1>1
  <2> QED
    BY <2>1, Youngest
<1>4. Newer(m) \subseteq {u \in N : t < u}
  <2>1. t <= m
    BY <1>1, <1>3
  <2>2. ASSUME NEW u \in Newer(m)
        PROVE  u \in N /\ t < u
    BY <1>2, <1>3, <2>1, <2>2
  <2> QED
    BY <2>2
<1>5. /\ Cardinality(Newer(m)) <= Cardinality({u \in N : t < u})
      /\ Cardinality(Newer(m)) \in Nat /\ Cardinality({u \in N : t < u}) \in Nat
  <2>1. IsFiniteSet({u \in N : t < u})
    BY <1>2, FS_Subset
  <2> QED
    BY <1>4, <2>1, FS_Subset, FS_CardinalityType
<1>6. ~(Cardinality(Newer(m)) < n)
  BY <1>3
<1> QED
  BY <1>1, <1>5, <1>6

(***************************************************************************)
(* A restart under the same secret drops a session of the document only if *)
(* it has expired or newer ones fill the capacity, for any capacity.       *)
(***************************************************************************)
THEOREM RestartDropsNothingLive == Spec => RestartKeepsLiveSessions
<1> DEFINE Excused(t) == \/ Expired(disk.sessions[t], cfg', clock)
                         \/ cfg'.max <= Cardinality({u \in DOMAIN mem'.sessions : t < u})
<1>1. ASSUME IInv, NEW c \in Configs, Start(c), up', disk.secret = cfg'.secret,
             NEW t \in DOMAIN disk.sessions \ DOMAIN mem'.sessions
      PROVE  Excused(t)
  <2> DEFINE loaded == disk.sessions
             pruned == Prune(loaded, c, clock)
  <2>1. cfg' = c /\ LoadedSessions(c) = loaded
    BY <1>1 DEF Start, LoadedSessions
  <2>2. mem'.sessions = StartingSessions(c)
    <3>1. mem' = [admin |-> disk.admin, sessions |-> StartingSessions(c)]
      BY <1>1 DEF Start
    <3> QED
      BY <3>1
  <2>3. CASE pruned # loaded
    <3>1. DOMAIN mem'.sessions = {u \in DOMAIN loaded : ~Expired(loaded[u], c, clock)}
      BY <2>1, <2>2, <2>3 DEF StartingSessions, Prune, Restrict
    <3> QED
      BY <1>1, <2>1, <3>1
  <2>4. CASE pruned = loaded
    <3>1. mem'.sessions = Newest(loaded, c.max)
      BY <2>1, <2>2, <2>4 DEF StartingSessions
    <3>2. DOMAIN loaded \subseteq Tokens
      BY <1>1 DEF IInv, Kept, Good, IsSessionMap
    <3>3. c.max \in Nat
      BY ConfigFacts
    <3> QED
      BY <1>1, <2>1, <3>1, <3>2, <3>3, NewestFull
  <2> QED
    BY <2>3, <2>4
<1>2. ASSUME [Next]_vars, ~up, up'
      PROVE  \E c \in Configs : Start(c)
  BY <1>2 DEF Next, CreateAny, Create, Stop, Tick, AuthenticateUnknown, AuthenticateExpired,
     AuthenticateTouch, AuthenticateRenew, Revoke, InitializeAdministrator,
     UpdateAdministratorPassword, vars
<1> DEFINE Step == ~up /\ up' /\ disk.secret = cfg'.secret =>
                    \A t \in DOMAIN disk.sessions \ DOMAIN mem'.sessions : Excused(t)
<1>3. IInv /\ [Next]_vars => [Step]_vars
  BY <1>1, <1>2
<1> QED
  BY <1>3, AlwaysRoom, PTL DEF Spec, RestartKeepsLiveSessions

=============================================================================
