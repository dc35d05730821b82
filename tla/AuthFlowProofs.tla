--------------------------- MODULE AuthFlowProofs ---------------------------
(***************************************************************************)
(* Theorems about AuthFlow, for any number of requests.  Every step of a   *)
(* handler is a step of the session store, whose invariant holds here too; *)
(* and what a handler has checked of the caller's session before it awaits *)
(* still stands when it goes on.                                           *)
(***************************************************************************)
EXTENDS AuthFlow, SessionStoreProofs

Forms ==
  [at: {"new", "verifying", "hashing", "done"}, kind: Kinds, token: Nat,
   submitted: Hashes \cup {None}, chosen: Hashes \cup {None}, checked: Hashes \cup {None},
   result: {"none", "ok", "error", "limited", "refused", "forbidden", "complete", "setup",
            "sign-in", "lost"}]

(***************************************************************************)
(* What is known of a request at an await: it is not answered, the process *)
(* runs, a setup or a change has a session that was issued and a password  *)
(* to store; and the session of a setup, if it is still there, came from a *)
(* login token.                                                            *)
(***************************************************************************)
Pending(q) ==
  /\ up /\ q.result = "none"
  /\ q.at = "hashing" => q.kind \in {"setup", "change"}
  /\ q.kind \in {"setup", "change"} => q.token \in 1..issued /\ q.chosen \in Hashes
  /\ q.kind = "setup" => q.at = "hashing"
  /\ q.kind = "setup" /\ q.token \in DOMAIN mem.sessions =>
       mem.sessions[q.token].method = "login-token"

AtAwait(q) == q.at \in {"verifying", "hashing"}

InFlight ==
  /\ request \in [Requests -> Forms]
  /\ \A r \in Requests : AtAwait(request[r]) => Pending(request[r])

FlowInv == IInv /\ InFlight

-----------------------------------------------------------------------------
(***************************************************************************)
(* What the store leaves alone: a session is signed in the way it was when *)
(* it was created.                                                         *)
(***************************************************************************)
Inherits(S) ==
  \A u \in DOMAIN S :
    u = issued + 1 \/ (u \in DOMAIN mem.sessions /\ S[u].method = mem.sessions[u].method)

MethodsStay == Inherits(mem'.sessions)

(* mutate() of sessions that were issued the way they were before.         *)
LEMMA MutateMethods ==
  ASSUME NEW next, NEW done, Mutate(next, done), up', Inherits(next.sessions)
  PROVE  MethodsStay
<1>1. Inherits(mem.sessions)
  BY DEF Inherits
<1>2. mem' \in {next, mem}
  BY DEF Mutate
<1> QED BY <1>1, <1>2 DEF MethodsStay

(* A change of the session map alone.                                      *)
LEMMA SessionsMethods ==
  ASSUME IInv, up, NEW S, NEW done, Mutate(Sessions(S), done), up', Inherits(S)
  PROVE  MethodsStay
<1>1. Sessions(S).sessions = S
  BY Running, SessionsRecord
<1> HIDE DEF Sessions
<1> QED BY <1>1, MutateMethods

(* create() leaves the other sessions, or evicts them.                     *)
LEMMA CreateMethods ==
  ASSUME IInv, NEW method, NEW identity, Create(method, identity), up'
  PROVE  MethodsStay
<1> DEFINE P == Prune(mem.sessions, cfg, clock)
           N == Newest(P, cfg.max - 1)
           S == WithNewSession(issued + 1, NewSession(method, identity))
<1>1. up /\ Mutate(Sessions(S), Nothing)
  BY DEF Create
<1>2. IsSessionMap(mem.sessions) /\ DOMAIN mem.sessions \subseteq 1..issued /\ issued \in Nat
  BY <1>1, Running
<1>3. /\ IsSessionMap(P) /\ DOMAIN P \subseteq DOMAIN mem.sessions
      /\ \A u \in DOMAIN P : P[u] = mem.sessions[u]
  BY <1>2, PruneMap
<1>4. DOMAIN N \subseteq DOMAIN P /\ \A u \in DOMAIN N : N[u] = P[u]
  BY <1>3, NewestMap
<1>5. \A u \in DOMAIN S : u = issued + 1 \/ (u \in DOMAIN N /\ S[u] = N[u])
  BY DEF WithNewSession, Insert
<1>6. Inherits(S)
  BY ONLY <1>3, <1>4, <1>5 DEF Inherits
<1> HIDE DEF S
<1> QED BY <1>1, <1>6, SessionsMethods

(* Deleting a session, or leaving the caller's alone, changes no other.    *)
LEMMA DeleteMethods ==
  ASSUME IInv, up, NEW t, NEW done, Mutate(Sessions(Delete(mem.sessions, t)), done), up'
  PROVE  MethodsStay
<1> DEFINE D == Delete(mem.sessions, t)
<1>0. IsSessionMap(mem.sessions)
  BY Running
<1>1. DOMAIN D = DOMAIN mem.sessions \ {t} /\ \A u \in DOMAIN D : D[u] = mem.sessions[u]
  BY <1>0, DeleteMap
<1>2. Inherits(D)
  BY <1>1 DEF Inherits
<1> QED BY <1>2, SessionsMethods

(* authenticate() keeps the method of the session, touched or renewed.     *)
LEMMA AuthenticateMethods ==
  ASSUME IInv, NEW t, Authenticate(t), up'
  PROVE  MethodsStay
<1>1. CASE AuthenticateUnknown(t)
  BY <1>1 DEF AuthenticateUnknown, Unchanged, Inherits, MethodsStay
<1>2. CASE AuthenticateExpired(t)
  BY <1>2, DeleteMethods DEF AuthenticateExpired
<1>3. CASE AuthenticateTouch(t)
  <2> DEFINE S == Insert(mem.sessions, t, Touched(mem.sessions[t]))
  <2>1. up /\ t \in DOMAIN mem.sessions /\ mem' = Sessions(S)
    BY <1>3 DEF AuthenticateTouch, Known
  <2>2. mem'.sessions = S
    BY <2>1, Running, SessionsRecord
  <2>3. mem.sessions[t] \in Session
    BY <2>1, Running DEF IsSessionMap
  <2>4. Touched(mem.sessions[t]).method = mem.sessions[t].method
    BY <2>3 DEF Touched, Session
  <2>5. Inherits(S)
    BY <2>1, <2>4 DEF Insert, Inherits
  <2> QED BY <2>2, <2>5 DEF MethodsStay
<1>4. CASE AuthenticateRenew(t)
  <2> DEFINE S == Insert(mem.sessions, t, Renewed(mem.sessions[t]))
  <2>1. up /\ t \in DOMAIN mem.sessions /\ Mutate(Sessions(S), Nothing)
    BY <1>4 DEF AuthenticateRenew, Known
  <2>2. mem.sessions[t] \in Session
    BY <2>1, Running DEF IsSessionMap
  <2>3. Renewed(mem.sessions[t]).method = mem.sessions[t].method
    BY <2>2 DEF Renewed, Session
  <2>4. Inherits(S)
    BY <2>1, <2>3 DEF Insert, Inherits
  <2> HIDE DEF S
  <2> QED BY <2>1, <2>4, SessionsMethods
<1> QED BY <1>1, <1>2, <1>3, <1>4 DEF Authenticate

(* A change of the administrator leaves the caller's session as it is.     *)
LEMMA ChangeMethods ==
  ASSUME IInv, up, NEW t \in DOMAIN mem.sessions, NEW op, NEW username, NEW hash,
         ChangeAdministrator(op, t, username, hash), up'
  PROVE  MethodsStay
<1> DEFINE next == [admin |-> [username |-> username, hash |-> hash],
                    sessions |-> Only(mem.sessions, t)]
<1>1. Mutate(next, Done(op, t)) /\ next.sessions = Only(mem.sessions, t)
  BY DEF ChangeAdministrator
<1>2. DOMAIN Only(mem.sessions, t) = {t} /\ Only(mem.sessions, t)[t] = mem.sessions[t]
  BY Running, OnlyMap
<1> HIDE DEF next
<1>3. Inherits(next.sessions)
  BY <1>1, <1>2 DEF Inherits
<1> QED BY <1>1, <1>3, MutateMethods

(* No step of a running store changes how a session was signed in, and     *)
(* none takes back the number of a token.                                  *)
LEMMA StoreKeeps ==
  ASSUME IInv, [Next]_vars, up, up'
  PROVE  MethodsStay /\ issued \in Nat /\ issued' \in Nat /\ issued <= issued'
<1>1. issued \in Nat /\ issued' \in {issued, issued + 1}
  BY Running DEF Next, Start, Stop, Tick, CreateAny, Create, AuthenticateUnknown, AuthenticateExpired,
     AuthenticateTouch, AuthenticateRenew, Revoke, InitializeAdministrator,
     UpdateAdministratorPassword, vars
<1>2. MethodsStay
  <2>1. ASSUME NEW c, Start(c) PROVE FALSE
    BY <2>1 DEF Start
  <2>2. CASE Stop
    BY <2>2 DEF Stop
  <2>3. CASE Tick \/ UNCHANGED vars
    BY <2>3 DEF Tick, vars, Inherits, MethodsStay
  <2>4. CASE CreateAny
    BY <2>4, CreateMethods DEF CreateAny
  <2>5. ASSUME NEW t, AuthenticateUnknown(t) \/ AuthenticateExpired(t)
                        \/ AuthenticateTouch(t) \/ AuthenticateRenew(t)
        PROVE  MethodsStay
    BY <2>5, AuthenticateMethods DEF Authenticate
  <2>6. ASSUME NEW t, Revoke(t) PROVE MethodsStay
    BY <2>6, DeleteMethods DEF Revoke, Unchanged, Inherits, MethodsStay
  <2>7. ASSUME NEW t, NEW username, NEW hash, InitializeAdministrator(t, username, hash)
        PROVE  MethodsStay
    BY <2>7, ChangeMethods DEF InitializeAdministrator, Unchanged, Inherits, MethodsStay
  <2>8. ASSUME NEW t, NEW hash, UpdateAdministratorPassword(t, hash)
        PROVE  MethodsStay
    BY <2>8, ChangeMethods DEF UpdateAdministratorPassword, Unchanged, Inherits, MethodsStay
  <2> QED BY <2>1, <2>2, <2>3, <2>4, <2>5, <2>6, <2>7, <2>8 DEF Next
<1> QED BY <1>1, <1>2

(* Only the two operations named after it change the administrator of a    *)
(* running store.                                                          *)
LEMMA AdministratorStays ==
  ASSUME IInv, up, up',
         \/ \E method, identity : Create(method, identity)
         \/ \E t : Authenticate(t) \/ Revoke(t)
         \/ Tick \/ UNCHANGED vars
  PROVE  mem'.admin = mem.admin
<1>1. \A S : Sessions(S).admin = mem.admin
  BY Running, SessionsRecord
<1>2. ASSUME NEW S, NEW done, Mutate(Sessions(S), done) PROVE mem'.admin = mem.admin
  <2> HIDE DEF Sessions
  <2> QED BY <1>1, <1>2 DEF Mutate
<1> HIDE DEF Sessions
<1> QED BY <1>1, <1>2 DEF Create, Authenticate, AuthenticateUnknown, AuthenticateExpired,
           AuthenticateTouch, AuthenticateRenew, Revoke, Unchanged, Tick, vars

-----------------------------------------------------------------------------
(***************************************************************************)
(* The requests.                                                           *)
(***************************************************************************)

(* What was known of a request at its await is known after a step of the   *)
(* store that does not end the process.                                    *)
LEMMA PendingStays ==
  ASSUME IInv, [Next]_vars, up, up', NEW q, Pending(q)
  PROVE  Pending(q)'
<1>1. MethodsStay /\ issued \in Nat /\ issued' \in Nat /\ issued <= issued'
  BY StoreKeeps
<1>2. q.kind \in {"setup", "change"} => q.token \in 1..issued' /\ q.chosen \in Hashes /\ q.token # issued + 1
  BY <1>1 DEF Pending
<1>3. q.kind = "setup" /\ q.token \in DOMAIN mem'.sessions =>
        mem'.sessions[q.token].method = "login-token"
  BY <1>1, <1>2 DEF Pending, MethodsStay, Inherits
<1> QED BY <1>2, <1>3 DEF Pending

(* When the process ends, no request waits any more.                       *)
LEMMA LostRequests ==
  ASSUME InFlight
  PROVE  Lost \in [Requests -> Forms] /\ \A r \in Requests : ~AtAwait(Lost[r])
<1>1. ASSUME NEW r \in Requests PROVE Lost[r] \in Forms /\ ~AtAwait(Lost[r])
  <2>1. request[r] \in Forms
    BY DEF InFlight
  <2>2. CASE Waits(r)
    BY <2>1, <2>2 DEF Lost, Forms, AtAwait
  <2>3. CASE ~Waits(r)
    BY <2>1, <2>3 DEF Lost, AtAwait, Waits
  <2> QED BY <2>2, <2>3
<1> QED BY <1>1 DEF Lost

(* A step of a handler from one await to the next.                         *)
LEMMA BecomesInFlight ==
  ASSUME FlowInv, [Next]_vars, up, NEW r \in Requests, NEW q \in Forms, NEW b, Becomes(r, q, b),
         up' /\ AtAwait(q) => Pending(q)'
  PROVE  InFlight'
<1>1. CASE up'
  <2>1. request' = [request EXCEPT ![r] = q]
    BY <1>1 DEF Becomes
  <2>2. request' \in [Requests -> Forms]
    BY <2>1 DEF FlowInv, InFlight
  <2>3. ASSUME NEW s \in Requests, NEW f, f = request'[s], AtAwait(f) PROVE Pending(f)'
    <3>1. CASE s = r
      <4>1. f = q
        BY <2>1, <2>3, <3>1 DEF FlowInv, InFlight
      <4> QED BY <1>1, <2>3, <4>1
    <3>2. CASE s # r
      <4>1. f = request[s]
        BY <2>1, <2>3, <3>2 DEF FlowInv, InFlight
      <4>2. Pending(f)
        BY <2>3, <4>1 DEF FlowInv, InFlight
      <4> QED BY <1>1, <4>2, PendingStays DEF FlowInv
    <3> QED BY <3>1, <3>2
  <2> QED BY <2>2, <2>3 DEF InFlight, Pending, AtAwait
<1>2. CASE ~up'
  <2>1. request' = Lost
    BY <1>2 DEF Becomes
  <2> QED BY <2>1, LostRequests DEF FlowInv, InFlight
<1> QED BY <1>1, <1>2

(* A step of any other handler.                                            *)
LEMMA OthersInFlight ==
  ASSUME FlowInv, [Next]_vars, request' = (IF up' THEN request ELSE Lost), up' => up
  PROVE  InFlight'
<1>1. CASE up'
  <2>1. request' = request
    BY <1>1
  <2>2. ASSUME NEW s \in Requests, NEW f, f = request[s], AtAwait(f) PROVE Pending(f)'
    <3>1. Pending(f)
      BY <2>2 DEF FlowInv, InFlight
    <3> QED BY <1>1, <3>1, PendingStays DEF FlowInv
  <2> QED BY <2>1, <2>2 DEF FlowInv, InFlight, Pending, AtAwait
<1>2. CASE ~up'
  BY <1>2, LostRequests DEF FlowInv, InFlight
<1> QED BY <1>1, <1>2

(* An answered request is a form, whatever it asked for.                   *)
LEMMA AnswerIsForm ==
  ASSUME NEW q \in Forms,
         NEW result \in {"ok", "error", "limited", "refused", "forbidden", "complete", "setup",
                         "sign-in"}
  PROVE  Answer(q, result) \in Forms /\ ~AtAwait(Answer(q, result)) /\ Answer(q, result).result = result
<1>1. Unserved \in Forms
  BY DEF Unserved, Forms, Kinds
<1>2. ASSUME NEW f \in Forms
      PROVE  LET a == [f EXCEPT !.at = "done", !.result = result]
             IN  a \in Forms /\ ~AtAwait(a) /\ a.result = result
  BY DEF Forms, AtAwait
<1> QED BY <1>1, <1>2 DEF Answer

(* Every step of the handlers is a step of the store, or leaves it alone.  *)
LEMMA StoreSteps ==
  ASSUME FlowInv, FlowNext
  PROVE  [Next]_vars
<1>1. "password" \in Methods /\ "login-token" \in Methods /\ "external" \in Methods /\ "none" \in Identities
  BY FlowAssumption
<1>2. ASSUME NEW t \in 1..issued, Authenticate(t) PROVE Next
  BY <1>2 DEF Authenticate, Next
<1>3. Create("password", "none") \/ Create("login-token", "none") => Next
  BY <1>1 DEF CreateAny, Next
<1>4. ASSUME NEW identity \in Identities \ {"none"}, Create("external", identity) PROVE Next
  BY <1>1, <1>4 DEF CreateAny, Next
<1>5. ASSUME NEW r \in Requests, SetupHashed(r) \/ ChangeHashed(r) PROVE Next
  <2>1. request[r].token \in 1..issued /\ request[r].chosen \in Hashes
    BY <1>5 DEF FlowInv, InFlight, AtAwait, Pending, SetupHashed, ChangeHashed
  <2> QED BY <1>5, <2>1 DEF SetupHashed, ChangeHashed, Next
<1>6. ASSUME NEW r \in Requests, LoginVerified(r) PROVE Next
  BY <1>3, <1>6 DEF LoginVerified
<1>7. Meanwhile => Next
  BY <1>2, <1>3, <1>4 DEF Meanwhile, Next
<1>8. Restart => Next
  BY DEF Restart, Next
<1>9. ASSUME NEW r \in Requests, NEW t \in 1..issued, NEW submitted, NEW chosen,
             SetupBegin(r, t, chosen) \/ ChangeBegin(r, t, submitted, chosen)
      PROVE  Next
  BY <1>2, <1>9 DEF SetupBegin, ChangeBegin
<1> QED BY <1>5, <1>6, <1>7, <1>8, <1>9 DEF FlowNext, LoginBegin, LoginRefused, ChangeRefused,
           ChangeVerified, AwaitRejected

-----------------------------------------------------------------------------
(***************************************************************************)
(* The steps of a request.                                                 *)
(***************************************************************************)

(* An answer ends a request.                                               *)
LEMMA AnswerInFlight ==
  ASSUME FlowInv, [Next]_vars, up, NEW r \in Requests, NEW q \in Forms, NEW b,
         NEW result \in {"ok", "error", "limited", "refused", "forbidden", "complete", "setup",
                         "sign-in"},
         Becomes(r, Answer(q, result), b)
  PROVE  InFlight'
BY AnswerIsForm, BecomesInFlight

(* login() up to its await: it has nothing but the password it read.       *)
LEMMA LoginBeginInFlight ==
  ASSUME FlowInv, [Next]_vars, NEW r \in Requests, NEW submitted \in Hashes,
         LoginBegin(r, submitted)
  PROVE  InFlight'
<1> DEFINE q == [Unserved EXCEPT !.kind = "login", !.submitted = submitted]
           waiting == [q EXCEPT !.at = "verifying", !.checked = mem.admin.hash]
<1>1. up /\ UNCHANGED vars /\ mem.admin.hash \in Hashes \cup {None}
  BY Running DEF LoginBegin, FlowInv, Good, Administrators
<1>2. q \in Forms /\ waiting \in Forms
  BY <1>1 DEF Unserved, Forms, Kinds
<1>3. /\ waiting.at = "verifying" /\ waiting.kind = "login" /\ waiting.result = "none"
  BY DEF Unserved
<1>4. PICK b : Becomes(r, Answer(q, "limited"), b) \/ Becomes(r, waiting, b)
  BY DEF LoginBegin
<1> HIDE DEF q, waiting
<1>5. CASE Becomes(r, Answer(q, "limited"), b)
  BY <1>1, <1>2, <1>5, AnswerInFlight
<1>6. CASE Becomes(r, waiting, b)
  <2>1. PICK f : f = waiting
    OBVIOUS
  <2>2. up' => Pending(f)'
    BY <1>3, <2>1 DEF Pending
  <2> QED BY <1>1, <1>2, <1>6, <2>1, <2>2, BecomesInFlight
<1> QED BY <1>4, <1>5, <1>6

(* adminSetupPost() up to its await: it has found a session of a token.    *)
LEMMA SetupBeginInFlight ==
  ASSUME FlowInv, [Next]_vars, NEW r \in Requests, NEW t \in 1..issued, NEW chosen \in Hashes,
         SetupBegin(r, t, chosen)
  PROVE  InFlight'
<1> DEFINE q == [Unserved EXCEPT !.kind = "setup", !.token = t, !.chosen = chosen]
           waiting == [q EXCEPT !.at = "hashing"]
<1>1. up /\ issued \in Nat
  BY Running DEF SetupBegin, Authenticate, AuthenticateUnknown, AuthenticateExpired,
     AuthenticateTouch, AuthenticateRenew, FlowInv
<1>2. q \in Forms /\ waiting \in Forms
  <2>1. t \in Nat
    BY <1>1
  <2> QED BY <2>1 DEF Unserved, Forms, Kinds
<1>3. \/ \E result \in {"error", "sign-in", "complete", "forbidden"} :
           Becomes(r, Answer(q, result), buckets)
      \/ Authenticated(t) /\ MaySetUp(t) /\ Becomes(r, waiting, buckets)
  BY DEF SetupBegin, NotAuthenticated
<1>4. /\ waiting.token = t /\ waiting.chosen = chosen /\ waiting.kind = "setup"
      /\ waiting.at = "hashing" /\ waiting.result = "none"
  BY DEF Unserved
<1> HIDE DEF q, waiting
<1>5. CASE \E result \in {"error", "sign-in", "complete", "forbidden"} :
             Becomes(r, Answer(q, result), buckets)
  BY <1>1, <1>2, <1>5, AnswerInFlight
<1>6. CASE Authenticated(t) /\ MaySetUp(t) /\ Becomes(r, waiting, buckets)
  <2>1. PICK f : f = waiting
    OBVIOUS
  <2>2. ASSUME up' PROVE Pending(f)'
    <3>1. MethodsStay /\ issued' \in Nat /\ issued <= issued'
      BY <1>1, <2>2, StoreKeeps DEF FlowInv
    <3>2. t \in DOMAIN mem.sessions /\ mem.sessions[t].method = "login-token"
      BY <1>6 DEF Authenticated, Live, Known, MaySetUp
    <3>3. t \in 1..issued' /\ t # issued + 1
      BY <1>1, <3>1
    <3>4. t \in DOMAIN mem'.sessions => mem'.sessions[t].method = "login-token"
      BY <3>1, <3>2, <3>3 DEF MethodsStay, Inherits
    <3> QED BY <1>4, <2>1, <2>2, <3>3, <3>4 DEF Pending
  <2> QED BY <1>1, <1>2, <1>6, <2>1, <2>2, BecomesInFlight
<1> QED BY <1>3, <1>5, <1>6

(* passwordChangePost() up to its first await.                             *)
LEMMA ChangeBeginInFlight ==
  ASSUME FlowInv, [Next]_vars, NEW r \in Requests, NEW t \in 1..issued,
         NEW submitted \in Hashes, NEW chosen \in Hashes, ChangeBegin(r, t, submitted, chosen)
  PROVE  InFlight'
<1> DEFINE q == [Unserved EXCEPT !.kind = "change", !.token = t,
                                 !.submitted = submitted, !.chosen = chosen]
           waiting == [q EXCEPT !.at = "verifying", !.checked = mem.admin.hash]
<1>1. up /\ issued \in Nat /\ mem.admin.hash \in Hashes \cup {None}
  BY Running DEF ChangeBegin, Authenticate, AuthenticateUnknown, AuthenticateExpired,
     AuthenticateTouch, AuthenticateRenew, FlowInv, Good, Administrators
<1>2. q \in Forms /\ waiting \in Forms
  <2>1. t \in Nat
    BY <1>1
  <2> QED BY <1>1, <2>1 DEF Unserved, Forms, Kinds
<1>3. PICK b : \/ \E result \in {"error", "sign-in", "setup", "limited"} :
                     Becomes(r, Answer(q, result), b)
                \/ Becomes(r, waiting, b)
  BY DEF ChangeBegin, NotAuthenticated
<1>4. /\ waiting.token = t /\ waiting.chosen = chosen /\ waiting.kind = "change"
      /\ waiting.at = "verifying" /\ waiting.result = "none"
  BY DEF Unserved
<1> HIDE DEF q, waiting
<1>5. CASE \E result \in {"error", "sign-in", "setup", "limited"} :
             Becomes(r, Answer(q, result), b)
  BY <1>1, <1>2, <1>5, AnswerInFlight
<1>6. CASE Becomes(r, waiting, b)
  <2>1. PICK f : f = waiting
    OBVIOUS
  <2>2. ASSUME up' PROVE Pending(f)'
    <3>1. t \in 1..issued'
      BY <1>1, <2>2, StoreKeeps DEF FlowInv
    <3> QED BY <1>4, <2>1, <2>2, <3>1 DEF Pending
  <2> QED BY <1>1, <1>2, <1>6, <2>1, <2>2, BecomesInFlight
<1> QED BY <1>3, <1>5, <1>6

(* A request that goes on after an await.                                  *)
LEMMA GoesOnInFlight ==
  ASSUME FlowInv, [Next]_vars, NEW r \in Requests,
         \/ LoginRefused(r) \/ LoginVerified(r) \/ SetupHashed(r)
         \/ ChangeRefused(r) \/ ChangeVerified(r) \/ ChangeHashed(r) \/ AwaitRejected(r)
  PROVE  InFlight'
<1> DEFINE q == request[r]
<1>1. AtAwait(q)
  BY DEF LoginRefused, LoginVerified, SetupHashed, ChangeRefused, ChangeVerified, ChangeHashed,
     AwaitRejected, Verifying, Waits, AtAwait
<1>2. q \in Forms /\ Pending(q) /\ up
  BY <1>1 DEF FlowInv, InFlight, Pending
<1>3. CASE LoginVerified(r)
  <2> DEFINE created == issued' \in DOMAIN mem'.sessions
             f == [q EXCEPT !.token = IF created THEN issued' ELSE 0]
  <2>1. issued' \in Nat
    BY <1>2, <1>3, Running DEF LoginVerified, Create, FlowInv
  <2>2. f \in Forms
    BY <1>2, <2>1 DEF Forms
  <2>3. \E b : Becomes(r, Answer(f, "ok"), b) \/ Becomes(r, Answer(f, "error"), b)
    BY <1>3 DEF LoginVerified
  <2> HIDE DEF f
  <2> QED BY <1>2, <2>2, <2>3, AnswerInFlight
<1>4. CASE ChangeVerified(r)
  <2>1. PICK f : f = [q EXCEPT !.at = "hashing"]
    OBVIOUS
  <2>2. f \in Forms
    BY <1>2, <2>1 DEF Forms
  <2>3. UNCHANGED vars /\ q.kind = "change" /\ Becomes(r, f, Forget(buckets, Client))
    BY <1>4, <2>1 DEF ChangeVerified, Verifying
  <2>4. /\ f.token = q.token /\ f.chosen = q.chosen /\ f.kind = q.kind
        /\ f.at = "hashing" /\ f.result = q.result
    BY <1>2, <2>1 DEF Forms
  <2>5. up' => Pending(f)'
    BY <1>2, <2>3, <2>4 DEF Pending, vars
  <2> QED BY <1>2, <2>2, <2>3, <2>5, BecomesInFlight
<1>5. CASE \/ LoginRefused(r) \/ SetupHashed(r) \/ ChangeRefused(r)
           \/ ChangeHashed(r) \/ AwaitRejected(r)
  <2>1. \E b : \E result \in {"ok", "error", "refused", "complete", "setup", "sign-in"} :
          Becomes(r, Answer(q, result), b)
    BY <1>5 DEF LoginRefused, SetupHashed, ChangeRefused, ChangeHashed, AwaitRejected
  <2> QED BY <1>2, <2>1, AnswerInFlight
<1> QED BY <1>3, <1>4, <1>5

(* The invariant of the handlers and the store beneath them.               *)
LEMMA FlowInvariant == FlowSpec => []FlowInv
<1>1. FlowInit => FlowInv
  BY InitIInv DEF FlowInit, FlowInv, InFlight, Unserved, Forms, Kinds, AtAwait
<1>2. FlowInv /\ [FlowNext]_flow => FlowInv'
  <2> SUFFICES ASSUME FlowInv, [FlowNext]_flow PROVE FlowInv'
    OBVIOUS
  <2>1. [Next]_vars
    BY StoreSteps DEF flow
  <2>2. IInv'
    BY <2>1, NextIInv DEF FlowInv
  <2>3. CASE UNCHANGED flow
    BY <2>2, <2>3 DEF flow, vars, FlowInv, InFlight, AtAwait, Pending
  <2>4. CASE Meanwhile
    <3>1. up' => up
      BY <2>4 DEF Meanwhile, Create, Revoke, Authenticate, AuthenticateUnknown,
         AuthenticateExpired, AuthenticateTouch, AuthenticateRenew, Tick
    <3> QED BY <2>1, <2>2, <2>4, <3>1, OthersInFlight DEF Meanwhile, FlowInv
  <2>5. CASE Restart
    BY <2>2, <2>5, LostRequests DEF Restart, FlowInv, InFlight
  <2>6. ASSUME NEW r \in Requests,
               \/ \E submitted \in Hashes : LoginBegin(r, submitted)
               \/ \E t \in 1..issued, chosen \in Hashes : SetupBegin(r, t, chosen)
               \/ \E t \in 1..issued, submitted, chosen \in Hashes :
                    ChangeBegin(r, t, submitted, chosen)
        PROVE  InFlight'
    BY <2>1, <2>6, LoginBeginInFlight, SetupBeginInFlight, ChangeBeginInFlight
  <2>7. ASSUME NEW r \in Requests,
               \/ LoginRefused(r) \/ LoginVerified(r) \/ SetupHashed(r)
               \/ ChangeRefused(r) \/ ChangeVerified(r) \/ ChangeHashed(r) \/ AwaitRejected(r)
        PROVE  InFlight'
    BY <2>1, <2>7, GoesOnInFlight
  <2> QED BY <2>2, <2>3, <2>4, <2>5, <2>6, <2>7 DEF FlowNext, FlowInv
<1> QED BY <1>1, <1>2, PTL DEF FlowSpec

-----------------------------------------------------------------------------
(***************************************************************************)
(* What the answer "ok" means.                                             *)
(***************************************************************************)

(* mutate() that confirms has replaced memory and document.                *)
LEMMA ConfirmedChange ==
  ASSUME IInv, up, NEW t \in DOMAIN mem.sessions, NEW op \in {"initialize", "update"},
         NEW username, NEW hash,
         ChangeAdministrator(op, t, username, hash)
  PROVE  /\ confirmed'.op \in {op, "none"}
         /\ confirmed'.op = op =>
              /\ mem'.admin = [username |-> username, hash |-> hash]
              /\ DOMAIN mem'.sessions \cup DOMAIN disk'.sessions = {t}
         /\ confirmed'.op # op => (up' => mem' = mem)
<1> DEFINE next == [admin |-> [username |-> username, hash |-> hash],
                    sessions |-> Only(mem.sessions, t)]
<1>1. Mutate(next, Done(op, t)) /\ next.admin = [username |-> username, hash |-> hash]
  BY DEF ChangeAdministrator
<1>2. DOMAIN next.sessions = {t} /\ Document(next, cfg).sessions = next.sessions
  BY Running, OnlyMap DEF Document
<1>3. Done(op, t).op = op /\ Nothing.op = "none"
  BY DEF Done, Nothing
<1> HIDE DEF next
<1> QED BY <1>1, <1>2, <1>3 DEF Mutate

(* A hashed password: what its request is told is what has happened.       *)
LEMMA HashedStep ==
  ASSUME FlowInv, NEW r \in Requests, SetupHashed(r) \/ ChangeHashed(r)
  PROVE  /\ request'[r].result = "ok" =>
              DOMAIN mem'.sessions \cup DOMAIN disk'.sessions = {request[r].token}
         /\ up' /\ mem'.admin # mem.admin => ChangesAnsweredOk(r)
<1> DEFINE q == request[r]
<1>1. q.at = "hashing" /\ AtAwait(q)
  BY DEF SetupHashed, ChangeHashed, AtAwait
<1>2. q \in Forms /\ Pending(q) /\ up
  BY <1>1 DEF FlowInv, InFlight, Pending
<1>3. ASSUME NEW b, NEW result \in {"ok", "error", "complete", "setup", "sign-in"},
             Becomes(r, Answer(q, result), b)
      PROVE  request'[r].result = IF up' THEN result ELSE "lost"
  <2>1. CASE up'
    BY <1>2, <1>3, <2>1, AnswerIsForm DEF Becomes, FlowInv, InFlight
  <2>2. CASE ~up'
    BY <1>1, <1>2, <1>3, <2>2 DEF Becomes, Lost, Waits, Forms
  <2> QED BY <2>1, <2>2
<1>4. CASE SetupHashed(r)
  <2>1. PICK username \in Usernames : InitializeAdministrator(q.token, username, q.chosen)
    BY <1>4 DEF SetupHashed
  <2>2. PICK result \in {"ok", "error", "complete", "sign-in"} :
          /\ Becomes(r, Answer(q, result), buckets)
          /\ confirmed'.op = "initialize" /\ mem.admin.username = None
               /\ q.token \in DOMAIN mem.sessions => result = "ok"
          /\ result = "ok" => confirmed'.op = "initialize"
    BY <1>4 DEF SetupHashed
  <2>3. CASE mem.admin.username # None \/ q.token \notin DOMAIN mem.sessions
    <3>1. mem' = mem /\ confirmed' = Nothing
      BY <2>1, <2>3 DEF InitializeAdministrator, Unchanged
    <3>2. result # "ok"
      BY <2>2, <3>1 DEF Nothing, Done
    <3> QED BY <1>3, <2>2, <3>1, <3>2
  <2>4. CASE mem.admin.username = None /\ q.token \in DOMAIN mem.sessions
    <3>1. ChangeAdministrator("initialize", q.token, username, q.chosen)
      BY <2>1, <2>4 DEF InitializeAdministrator
    <3>2. /\ confirmed'.op = "initialize" =>
               /\ mem'.admin = [username |-> username, hash |-> q.chosen]
               /\ DOMAIN mem'.sessions \cup DOMAIN disk'.sessions = {q.token}
          /\ confirmed'.op # "initialize" => (up' => mem' = mem)
      BY <1>2, <2>4, <3>1, ConfirmedChange DEF FlowInv
    <3>3. q.kind = "setup"
      BY <1>4 DEF SetupHashed
    <3>4. mem.sessions[q.token].method = "login-token"
      BY <1>2, <2>4, <3>3 DEF Pending
    <3> QED BY <1>1, <1>3, <2>2, <2>4, <3>2, <3>4 DEF ChangesAnsweredOk
  <2> QED BY <2>3, <2>4
<1>5. CASE ChangeHashed(r)
  <2>1. UpdateAdministratorPassword(q.token, q.chosen)
    BY <1>5 DEF ChangeHashed
  <2>2. PICK result \in {"ok", "error", "setup", "sign-in"} :
          /\ Becomes(r, Answer(q, result), buckets)
          /\ confirmed'.op = "update" /\ PasswordConfigured
               /\ q.token \in DOMAIN mem.sessions => result = "ok"
          /\ result = "ok" => confirmed'.op = "update"
    BY <1>5 DEF ChangeHashed
  <2>3. CASE ~PasswordConfigured \/ q.token \notin DOMAIN mem.sessions
    <3>1. mem' = mem /\ confirmed' = Nothing
      BY <2>1, <2>3 DEF UpdateAdministratorPassword, Unchanged
    <3>2. result # "ok"
      BY <2>2, <3>1 DEF Nothing, Done
    <3> QED BY <1>3, <2>2, <3>1, <3>2
  <2>4. CASE PasswordConfigured /\ q.token \in DOMAIN mem.sessions
    <3>1. ChangeAdministrator("update", q.token, mem.admin.username, q.chosen)
      BY <2>1, <2>4 DEF UpdateAdministratorPassword
    <3>2. /\ confirmed'.op = "update" =>
               /\ mem'.admin = [username |-> mem.admin.username, hash |-> q.chosen]
               /\ DOMAIN mem'.sessions \cup DOMAIN disk'.sessions = {q.token}
          /\ confirmed'.op # "update" => (up' => mem' = mem)
      BY <1>2, <2>4, <3>1, ConfirmedChange DEF FlowInv
    <3>3. mem.admin.username # None
      BY <2>4 DEF PasswordConfigured
    <3> QED BY <1>1, <1>3, <2>2, <2>4, <3>2, <3>3 DEF ChangesAnsweredOk
  <2> QED BY <2>3, <2>4
<1> QED BY <1>4, <1>5

(* A step of one handler tells no other of its success.                    *)
LEMMA OthersUntold ==
  ASSUME FlowInv, NEW r \in Requests, request[r].at = "hashing",
         NEW s \in Requests, s # r, NEW q, NEW b, Becomes(s, q, b)
  PROVE  request'[r].result # "ok"
<1>1. request[r] \in Forms /\ request[r].result = "none"
  BY DEF FlowInv, InFlight, AtAwait, Pending
<1>2. Lost[r].result # "ok"
  BY <1>1 DEF Lost, Waits, Forms
<1> QED BY <1>1, <1>2 DEF Becomes, FlowInv, InFlight

(* A step that hashes for no one leaves the administrator alone, and       *)
(* answers "ok" to no request that waits for a hash.                       *)
LEMMA OtherSteps ==
  ASSUME FlowInv, [FlowNext]_flow, ~(\E r \in Requests : SetupHashed(r) \/ ChangeHashed(r))
  PROVE  /\ up /\ up' => mem'.admin = mem.admin
         /\ \A r \in Requests : request[r].at = "hashing" => request'[r].result # "ok"
<1>1. ASSUME up, up' PROVE mem'.admin = mem.admin
  <2>1. \/ \E method, identity : Create(method, identity)
        \/ \E t : Authenticate(t) \/ Revoke(t)
        \/ Tick \/ UNCHANGED vars
    BY <1>1 DEF FlowNext, flow, LoginBegin, LoginRefused, LoginVerified, SetupBegin, ChangeBegin,
       ChangeRefused, ChangeVerified, AwaitRejected, Meanwhile, Restart, Stop, Start
  <2> QED BY <1>1, <2>1, AdministratorStays DEF FlowInv
<1>2. ASSUME NEW r \in Requests, request[r].at = "hashing" PROVE request'[r].result # "ok"
  <2>1. request[r] \in Forms /\ Pending(request[r]) /\ request[r].result = "none"
    BY <1>2 DEF FlowInv, InFlight, AtAwait, Pending
  <2>2. Lost[r].result # "ok"
    BY <1>2, <2>1 DEF Lost, Waits, Forms
  <2>3. ASSUME NEW s \in Requests, s # r, NEW q, NEW b, Becomes(s, q, b)
        PROVE  request'[r].result # "ok"
    BY <1>2, <2>3, OthersUntold
  <2>4. CASE AwaitRejected(r)
    <3>1. Answer(request[r], "error").result = "error"
      BY <2>1, AnswerIsForm
    <3> QED BY <2>2, <2>4, <3>1 DEF AwaitRejected, Becomes, FlowInv, InFlight
  <2>5. CASE Meanwhile \/ Restart \/ UNCHANGED flow
    BY <2>1, <2>2, <2>5 DEF Meanwhile, Restart, flow
  <2>6. ASSUME NEW s \in Requests,
               \/ \E submitted \in Hashes : LoginBegin(s, submitted)
               \/ \E t \in 1..issued, chosen \in Hashes : SetupBegin(s, t, chosen)
               \/ \E t \in 1..issued, submitted, chosen \in Hashes :
                    ChangeBegin(s, t, submitted, chosen)
               \/ LoginRefused(s) \/ LoginVerified(s) \/ ChangeRefused(s) \/ ChangeVerified(s)
        PROVE  s # r /\ \E q, b : Becomes(s, q, b)
    BY <1>2, <2>6 DEF LoginBegin, SetupBegin, ChangeBegin, LoginRefused, LoginVerified,
       ChangeRefused, ChangeVerified, Verifying
  <2>7. ASSUME NEW s \in Requests, s # r, AwaitRejected(s) PROVE request'[r].result # "ok"
    BY <2>3, <2>7 DEF AwaitRejected
  <2> QED BY <2>3, <2>4, <2>5, <2>6, <2>7 DEF FlowNext
<1> QED BY <1>1, <1>2

-----------------------------------------------------------------------------
(***************************************************************************)
(* The theorems.                                                           *)
(***************************************************************************)

(***************************************************************************)
(* AdministratorChangedByItsSession: the administrator of the running      *)
(* server changes only as a request is told of it, through a session that  *)
(* is signed in at that moment (adminSetupPost(), passwordChangePost()).   *)
(***************************************************************************)
THEOREM ChangedByItsSession == FlowSpec => AdministratorChangedByItsSession
<1> DEFINE told == up /\ up' /\ mem'.admin # mem.admin => \E r \in Requests : ChangesAnsweredOk(r)
<1>1. FlowInv /\ [FlowNext]_flow => told
  BY HashedStep, OtherSteps
<1>2. FlowSpec => [][told]_flow
  BY <1>1, FlowInvariant, PTL DEF FlowSpec
<1> QED BY <1>2 DEF AdministratorChangedByItsSession

(***************************************************************************)
(* ChangeSignsOthersOut: when a request is told that the password is set   *)
(* or changed, no session but the caller's is left in memory or document.  *)
(***************************************************************************)
THEOREM OthersAreSignedOut == FlowSpec => ChangeSignsOthersOut
<1> DEFINE alone ==
      \A r \in Requests :
        request[r].at = "hashing" /\ request'[r].result = "ok" =>
          DOMAIN mem'.sessions \cup DOMAIN disk'.sessions = {request[r].token}
<1>1. FlowInv /\ [FlowNext]_flow => alone
  <2> SUFFICES ASSUME FlowInv, [FlowNext]_flow, NEW r \in Requests,
                      request[r].at = "hashing", request'[r].result = "ok"
               PROVE  DOMAIN mem'.sessions \cup DOMAIN disk'.sessions = {request[r].token}
    OBVIOUS
  <2>1. CASE SetupHashed(r) \/ ChangeHashed(r)
    BY <2>1, HashedStep
  <2>2. ASSUME NEW s \in Requests, s # r, SetupHashed(s) \/ ChangeHashed(s) PROVE FALSE
    <3>1. \E q, b : Becomes(s, q, b)
      BY <2>2 DEF SetupHashed, ChangeHashed
    <3> QED BY <2>2, <3>1, OthersUntold
  <2>3. \E s \in Requests : SetupHashed(s) \/ ChangeHashed(s)
    BY OtherSteps
  <2> QED BY <2>1, <2>2, <2>3
<1>2. FlowSpec => [][alone]_flow
  BY <1>1, FlowInvariant, PTL DEF FlowSpec
<1> QED BY <1>2 DEF ChangeSignsOthersOut

=============================================================================
