---------------------------- MODULE ExternalLogin ----------------------------
(***************************************************************************)
(* Login at an external identity provider: externalLogin() and             *)
(* externalCallback() in src/application.ts over the provider of           *)
(* src/external-identity.ts.  A login hands out a state, keeps it in a     *)
(* bounded table of the process and in a cookie of the browser, and the    *)
(* browser comes back with the state and a code; the code is exchanged     *)
(* while other requests are served.  A state is numbered in the order of   *)
(* its issue.  The text of a profile is abstracted to what its checks see. *)
(***************************************************************************)
EXTENDS LimiterClients

CONSTANTS
  Browsers,   \* browsers of one client address
  MaxStates,  \* size of the table (128 in the code)
  StateLife,  \* lifetime of a state and of its cookie
  MaxLogins   \* bound: states ever issued

ASSUME ExternalAssumption ==
  /\ Keys # {}
  /\ StateLife \in Nat \ {0} /\ MaxStates \in Nat \ {0} /\ MaxLogins \in Nat

VARIABLES
  table,      \* externalStates: state -> expiresAt
  cookie,     \* the state cookie of each browser
  exchanging, \* callbacks that wait for the provider
  starter,    \* history: the browser each state was issued to
  exchanges,  \* history: how often the code of a state was exchanged
  signedIn    \* history: sessions created, with the identity they carry

externalVars == <<table, cookie, exchanging, starter, exchanges, signedIn>>

ExternalKey == CHOOSE k \in Keys : TRUE
NoCookie == [state |-> 0, until |-> 0]
Logins == 1..MaxLogins
NoStates == [n \in {} |-> 0]

-----------------------------------------------------------------------------
(***************************************************************************)
(* A field of a profile: absent, representable text, or text that is       *)
(* empty, has control characters or exceeds its 512 bytes.                 *)
(***************************************************************************)
BadTexts == {"empty", "control", "long"}
Pictures == {"absent", "text", "http"} \cup BadTexts

\* Slip: the bound on the length is forgotten.
TextValidAnyLength(text) == text \notin {"empty", "control"}

ProfileTextValid(text) == text \notin BadTexts

PictureValid(picture) == picture \in {"absent", "text"}

GoodAnswer == [ok |-> TRUE, ret |-> TRUE, name |-> "text", display |-> "text", picture |-> "text"]

\* The provider's answers with at most one thing wrong, and the bare one.
ProviderAnswers ==
  {[GoodAnswer EXCEPT !.ok = v] : v \in BOOLEAN}
    \cup {[GoodAnswer EXCEPT !.ret = FALSE]}
    \cup {[GoodAnswer EXCEPT !.name = v] : v \in BadTexts \cup {"absent"}}
    \cup {[GoodAnswer EXCEPT !.display = v] : v \in BadTexts \cup {"absent"}}
    \cup {[GoodAnswer EXCEPT !.picture = v] : v \in Pictures}

\* exchangeCode() returns an identity; otherwise it throws.
ExchangeSucceeds(answer) ==
  /\ answer.ok /\ answer.ret
  /\ answer.name # "absent"
  /\ ProfileTextValid(answer.name) /\ ProfileTextValid(answer.display)
  /\ ProfileTextValid(answer.picture) /\ PictureValid(answer.picture)

Identity(answer) ==
  [name |-> answer.name, display |-> answer.display, picture |-> answer.picture]

\* externalIdentityHeaders(): the identity can be sent on by /auth/verify.
Representable(text) == text \notin BadTexts

HeadersServe(identity) ==
  /\ identity.name # "absent" /\ Representable(identity.name)
  /\ Representable(identity.display)
  /\ PictureValid(identity.picture) /\ Representable(identity.picture)

-----------------------------------------------------------------------------
Unexpired == Restrict(table, {n \in DOMAIN table : table[n] > clock})

(***************************************************************************)
(* externalLogin(): an attempt of the client's own key; a full table and a *)
(* spent budget answer 429 after the expired states were removed.          *)
(***************************************************************************)
LoginStarted(b) ==
  LET n == Len(starter) + 1
  IN  /\ RetryAfter(buckets, ExternalKey, clock) = 0
      /\ Cardinality(DOMAIN Unexpired) < MaxStates
      /\ table' = [m \in DOMAIN Unexpired \cup {n} |->
                     IF m = n THEN clock + StateLife ELSE table[m]]
      /\ cookie' = [cookie EXCEPT ![b] = [state |-> n, until |-> clock + StateLife]]
      /\ starter' = Append(starter, b)
      /\ UNCHANGED <<exchanging, exchanges, signedIn>>

LoginLimited(b) ==
  /\ \/ RetryAfter(buckets, ExternalKey, clock) > 0 /\ table' = table
     \/ /\ RetryAfter(buckets, ExternalKey, clock) = 0
        /\ Cardinality(DOMAIN Unexpired) >= MaxStates
        /\ table' = Unexpired
  /\ UNCHANGED <<cookie, exchanging, starter, exchanges, signedIn>>

StartLogin(b) ==
  /\ Len(starter) < MaxLogins
  /\ Consume(ExternalKey)
  /\ LoginStarted(b) \/ LoginLimited(b)

Shown(b) == IF clock < cookie[b].until THEN cookie[b].state ELSE 0

GoodState(b, n) == Shown(b) = n /\ n \in DOMAIN table /\ table[n] > clock

\* Slip: the state is removed once the exchange has ended.
SpendLater(n) == table

Spend(n) == Restrict(table, DOMAIN table \ {n})

(***************************************************************************)
(* externalCallback() up to its await: a state that is named is removed    *)
(* from the table whether or not the response is accepted.                 *)
(***************************************************************************)
CallbackRefused(b, n, code) ==
  /\ ~GoodState(b, n) \/ ~code
  /\ table' = Restrict(table, DOMAIN table \ {n})
  /\ UNCHANGED <<cookie, exchanging, starter, exchanges, signedIn>>

CallbackAccepted(b, n) ==
  /\ GoodState(b, n)
  /\ table' = Spend(n)
  /\ exchanging' = exchanging \cup {[state |-> n, browser |-> b]}
  /\ exchanges' = [exchanges EXCEPT ![n] = @ + 1]
  /\ UNCHANGED <<cookie, starter, signedIn>>

(***************************************************************************)
(* The rest of externalCallback(): the provider fails, the policy refuses  *)
(* the identity, or a session is created.  The state cookie is cleared     *)
(* then, also when the browser has started another login meanwhile.        *)
(***************************************************************************)
ExchangeFailed(e, answer) ==
  /\ ~ExchangeSucceeds(answer)
  /\ exchanging' = exchanging \ {e}
  /\ UNCHANGED <<table, cookie, starter, exchanges, signedIn>>

IdentityRefused(e, answer) ==
  /\ ExchangeSucceeds(answer)
  /\ exchanging' = exchanging \ {e}
  /\ UNCHANGED <<table, cookie, starter, exchanges, signedIn>>

ExternalSignIn(e, answer) ==
  /\ ExchangeSucceeds(answer)
  /\ exchanging' = exchanging \ {e}
  /\ signedIn' = signedIn \cup
       {[state |-> e.state, browser |-> e.browser, identity |-> Identity(answer)]}
  /\ cookie' = [cookie EXCEPT ![e.browser] = NoCookie]
  /\ UNCHANGED <<table, starter, exchanges>>

\* The table and the exchanges live in the process.
ExternalLost ==
  /\ table' = NoStates /\ exchanging' = {}
  /\ UNCHANGED <<cookie, starter, exchanges, signedIn>>

ExternalInit ==
  /\ table = NoStates /\ exchanging = {} /\ starter = <<>> /\ signedIn = {}
  /\ cookie = [b \in Browsers |-> NoCookie]
  /\ exchanges = [n \in Logins |-> 0]

Callback ==
  \/ \E b \in Browsers, n \in DOMAIN starter : CallbackAccepted(b, n)
  \/ \E b \in Browsers, n \in DOMAIN starter, code \in BOOLEAN : CallbackRefused(b, n, code)
  \/ \E e \in exchanging, answer \in ProviderAnswers :
       ExchangeFailed(e, answer) \/ IdentityRefused(e, answer) \/ ExternalSignIn(e, answer)

ExternalNext ==
  \/ \E b \in Browsers : StartLogin(b)
  \/ Callback /\ UNCHANGED limiterVars
  \/ ExternalLost /\ LimiterLost

-----------------------------------------------------------------------------
(***************************************************************************)
(* A state is good for one exchange, whatever is served while the provider *)
(* is asked, and a session comes out of it only in the browser that began  *)
(* that login: a callback link opened in another browser, or opened twice, *)
(* signs nobody in.                                                        *)
(***************************************************************************)
StateServesItsLoginOnce ==
  /\ \A n \in Logins : exchanges[n] <= 1
  /\ \A s \in signedIn : s.browser = starter[s.state]

(***************************************************************************)
(* A profile that exchangeCode() accepts can be sent on by /auth/verify:   *)
(* no login at the provider ends in a session whose every page answers 502.*)
(***************************************************************************)
SignedInIsServed == \A s \in signedIn : HeadersServe(s.identity)
=============================================================================
