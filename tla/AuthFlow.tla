------------------------------ MODULE AuthFlow ------------------------------
(***************************************************************************)
(* The request handlers that wait for Argon2 in the middle: password login *)
(* (login() in src/application.ts), first-time setup (adminSetupPost()     *)
(* there) and password change (passwordChangePost() in                     *)
(* src/admin-password.ts), over the SessionStore and the LoginLimiter.     *)
(*                                                                         *)
(* The server is one thread: a handler runs from one await to the next     *)
(* without interruption, and any other handler may run at an await.  The   *)
(* form has been read and its CSRF value and Origin accepted when a        *)
(* request begins here; handlers without a later await (logout, token      *)
(* redemption, session views) are one step.  All requests come from one    *)
(* client address.                                                         *)
(*                                                                         *)
(* A password and its hashes are one value: verifyPassword() compares them.*)
(***************************************************************************)
EXTENDS SessionStore, LoginLimiter

CONSTANT Requests  \* requests of the three kinds, each served once

ASSUME FlowAssumption ==
  /\ None \notin Requests /\ Keys # {}
  /\ {"password", "login-token", "external"} \subseteq Methods /\ "none" \in Identities

VARIABLES
  buckets,  \* the limiter's map
  request   \* each request: its form, its place and its outcome

flow == <<vars, buckets, request>>

Kinds == {"login", "setup", "change"}
Client == CHOOSE k \in Keys : TRUE

Unserved == [at |-> "new", kind |-> "login", token |-> 0, submitted |-> None,
             chosen |-> None, checked |-> None, result |-> "none"]

Waits(r) == request[r].at \in {"verifying", "hashing"}

(***************************************************************************)
(* A step that may end the process: the requests in flight are lost, and   *)
(* the limiter with them.                                                  *)
(***************************************************************************)
Lost == [q \in Requests |->
           IF Waits(q) THEN [request[q] EXCEPT !.at = "done", !.result = "lost"]
           ELSE request[q]]

Becomes(r, record, b) ==
  /\ request' = IF up' THEN [request EXCEPT ![r] = record] ELSE Lost
  /\ buckets' = IF up' THEN b ELSE NoBuckets

\* What a request asked for is remembered only if it may have changed something.
Answer(record, result) ==
  LET remembered == IF result \in {"ok", "error"} THEN record ELSE Unserved
  IN  [remembered EXCEPT !.at = "done", !.result = result]

-----------------------------------------------------------------------------
(***************************************************************************)
(* sessions.authenticate(): Authenticated(t) tells, of such a step,        *)
(* whether it returned the session of t.  A renewal that cannot be stored  *)
(* throws.                                                                 *)
(***************************************************************************)
Authenticate(t) ==
  \/ AuthenticateUnknown(t) \/ AuthenticateExpired(t)
  \/ AuthenticateTouch(t) \/ AuthenticateRenew(t)

Live(t) == Known(t) /\ ~Expired(mem.sessions[t], cfg, clock)

Authenticated(t) ==
  /\ up' /\ Live(t)
  /\ RenewalDue(mem.sessions[t], cfg) <= clock =>
       mem'.sessions[t] = Renewed(mem.sessions[t])

\* What a handler answers to a request that authenticate() did not accept.
NotAuthenticated(t) == IF Live(t) THEN "error" ELSE "sign-in"

(***************************************************************************)
(* login(), POST.                                                          *)
(***************************************************************************)
LoginBegin(r, submitted) ==
  LET record == [Unserved EXCEPT !.kind = "login", !.submitted = submitted]
  IN  /\ up /\ request[r].at = "new"
      /\ UNCHANGED vars
      /\ Becomes(r,
           IF RetryAfter(buckets, Client, clock) > 0
           THEN Answer(record, "limited")
           ELSE [record EXCEPT !.at = "verifying", !.checked = mem.admin.hash],
           Consumed(buckets, Client, clock))

Matches(r) == request[r].checked # None /\ request[r].submitted = request[r].checked

Verifying(r, kind) == request[r].at = "verifying" /\ request[r].kind = kind

LoginRefused(r) ==
  /\ Verifying(r, "login") /\ ~Matches(r)
  /\ UNCHANGED vars
  /\ Becomes(r, Answer(request[r], "refused"), buckets)

LoginVerified(r) ==
  /\ Verifying(r, "login") /\ Matches(r)
  /\ Create("password", "none")
  /\ LET created == issued' \in DOMAIN mem'.sessions
         record == [request[r] EXCEPT !.token = IF created THEN issued' ELSE 0]
     IN  Becomes(r, Answer(record, IF created THEN "ok" ELSE "error"), Forget(buckets, Client))

\* Slip: any signed-in session may name the first administrator.
AnySessionMaySetUp(t) == mem.sessions[t].method \in Methods

MaySetUp(t) == mem.sessions[t].method = "login-token"

(***************************************************************************)
(* adminSetupPost().                                                       *)
(***************************************************************************)
SetupBegin(r, t, chosen) ==
  LET record == [Unserved EXCEPT !.kind = "setup", !.token = t, !.chosen = chosen]
  IN  /\ request[r].at = "new"
      /\ Authenticate(t)
      /\ Becomes(r,
           CASE ~Authenticated(t) -> Answer(record, NotAuthenticated(t))
             [] Authenticated(t) /\ PasswordConfigured -> Answer(record, "complete")
             [] Authenticated(t) /\ ~PasswordConfigured
                /\ ~MaySetUp(t) -> Answer(record, "forbidden")
             [] OTHER -> [record EXCEPT !.at = "hashing"],
           buckets)

SetupHashed(r) ==
  /\ request[r].at = "hashing" /\ request[r].kind = "setup"
  /\ \E username \in Usernames :
       InitializeAdministrator(request[r].token, username, request[r].chosen)
  /\ Becomes(r, Answer(request[r],
       CASE confirmed'.op = "initialize" -> "ok"
         [] mem.admin.username # None -> "complete"
         [] mem.admin.username = None /\ request[r].token \notin DOMAIN mem.sessions -> "sign-in"
         [] OTHER -> "error"), buckets)

(***************************************************************************)
(* passwordChangePost().                                                   *)
(***************************************************************************)
ChangeBegin(r, t, submitted, chosen) ==
  LET record == [Unserved EXCEPT !.kind = "change", !.token = t,
                                 !.submitted = submitted, !.chosen = chosen]
      admitted == RetryAfter(buckets, Client, clock) = 0
  IN  /\ request[r].at = "new"
      /\ Authenticate(t)
      /\ IF Authenticated(t) /\ PasswordConfigured
         THEN Becomes(r,
                IF admitted
                THEN [record EXCEPT !.at = "verifying", !.checked = mem.admin.hash]
                ELSE Answer(record, "limited"),
                Consumed(buckets, Client, clock))
         ELSE Becomes(r,
                Answer(record, IF Authenticated(t) THEN "setup" ELSE NotAuthenticated(t)),
                buckets)

ChangeRefused(r) ==
  /\ Verifying(r, "change") /\ ~Matches(r)
  /\ UNCHANGED vars
  /\ Becomes(r, Answer(request[r], "refused"), buckets)

ChangeVerified(r) ==
  /\ Verifying(r, "change") /\ Matches(r)
  /\ UNCHANGED vars
  /\ Becomes(r, [request[r] EXCEPT !.at = "hashing"], Forget(buckets, Client))

ChangeHashed(r) ==
  /\ request[r].at = "hashing" /\ request[r].kind = "change"
  /\ UpdateAdministratorPassword(request[r].token, request[r].chosen)
  /\ Becomes(r, Answer(request[r],
       CASE confirmed'.op = "update" -> "ok"
         [] ~PasswordConfigured -> "setup"
         [] PasswordConfigured /\ request[r].token \notin DOMAIN mem.sessions -> "sign-in"
         [] OTHER -> "error"), buckets)

\* Argon2 rejects: the handler throws, and nothing has changed.
AwaitRejected(r) ==
  /\ Waits(r)
  /\ UNCHANGED vars
  /\ Becomes(r, Answer(request[r], "error"), buckets)

-----------------------------------------------------------------------------
(***************************************************************************)
(* Everything else the server does with the store, in one step each.       *)
(***************************************************************************)
Meanwhile ==
  /\ \/ Create("login-token", "none")             \* token(): a redemption
     \/ \E identity \in Identities \ {"none"} :   \* externalCallback(), verify()
          Create("external", identity)
     \/ \E t \in 1..issued : Revoke(t)            \* logout()
     \/ \E t \in 1..issued : Authenticate(t)      \* session(), csrf(), account(), verify()
     \/ Tick
  /\ request' = IF up' THEN request ELSE Lost
  /\ buckets' = IF up' THEN buckets ELSE NoBuckets

Restart ==
  /\ Stop \/ \E c \in Configs : Start(c)
  /\ request' = Lost
  /\ buckets' = NoBuckets

FlowInit ==
  /\ Init
  /\ buckets = NoBuckets
  /\ request = [r \in Requests |-> Unserved]

FlowNext ==
  \/ \E r \in Requests :
       \/ \E submitted \in Hashes : LoginBegin(r, submitted)
       \/ LoginRefused(r) \/ LoginVerified(r)
       \/ \E t \in 1..issued, chosen \in Hashes : SetupBegin(r, t, chosen)
       \/ SetupHashed(r)
       \/ \E t \in 1..issued, submitted, chosen \in Hashes :
            ChangeBegin(r, t, submitted, chosen)
       \/ ChangeRefused(r) \/ ChangeVerified(r) \/ ChangeHashed(r)
       \/ AwaitRejected(r)
  \/ Meanwhile
  \/ Restart

FlowSpec == FlowInit /\ [][FlowNext]_flow

-----------------------------------------------------------------------------
(***************************************************************************)
(* Properties.                                                             *)
(***************************************************************************)
(***************************************************************************)
(* The administrator of the running server changes only as a request that  *)
(* is told of its success, through a session still signed in at that       *)
(* moment (not only when the form was accepted); the first password comes  *)
(* from a session of a login token.                                        *)
(***************************************************************************)
ChangesAnsweredOk(r) ==
  /\ request[r].at = "hashing" /\ request'[r].result = "ok"
  /\ mem'.admin.hash = request[r].chosen
  /\ request[r].token \in DOMAIN mem.sessions
  /\ mem.admin.username = None => mem.sessions[request[r].token].method = "login-token"

AdministratorChangedByItsSession ==
  [][ up /\ up' /\ mem'.admin # mem.admin => \E r \in Requests : ChangesAnsweredOk(r) ]_flow

(***************************************************************************)
(* What a request was told lasts: after a confirmed change of a password   *)
(* no session but the caller's is left in the store from before it.        *)
(***************************************************************************)
ChangeSignsOthersOut ==
  [][ \A r \in Requests :
        request[r].at = "hashing" /\ request'[r].result = "ok" =>
          DOMAIN mem'.sessions \cup DOMAIN disk'.sessions = {request[r].token} ]_flow

(***************************************************************************)
(* SECURITY.md: a password change revokes every other session.  So no      *)
(* session lives on the strength of a password that has been replaced,     *)
(* except the one the change was made through.                             *)
(***************************************************************************)
NoSessionOfReplacedPassword ==
  up => \A r \in Requests :
    /\ request[r].kind = "login" /\ request[r].result = "ok"
    /\ request[r].token \in DOMAIN mem.sessions
    => \/ request[r].checked = mem.admin.hash
       \/ \E q \in Requests :
            request[q].kind = "change" /\ request[q].token = request[r].token
=============================================================================
