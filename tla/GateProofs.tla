----------------------------- MODULE GateProofs -----------------------------
(***************************************************************************)
(* Theorems about Gate, for all values of its constants.  Its parts share  *)
(* the clock and, for login at a provider, the limiter, so that each has   *)
(* an inductive invariant of its own; OnePartSteps says that a step of one *)
(* leaves the state of the others alone.                                   *)
(***************************************************************************)
EXTENDS Gate, SequenceTheorems, FiniteSetTheorems, WellFoundedInduction, NaturalsInduction, TLAPS

-----------------------------------------------------------------------------
(***************************************************************************)
(* What one part of the gate does to the others.                           *)
(***************************************************************************)
(* A step belongs to one part, or lets time pass: what it leaves alone.    *)
LEMMA OnePartSteps ==
  ASSUME [GateNext]_gate
  PROVE  /\ UNCHANGED externalVars \/ ExternalNext
         /\ UNCHANGED gatewayVars \/ (GatewayNext /\ UNCHANGED clock)
         /\ UNCHANGED formVars \/ (FormNext /\ UNCHANGED clock)
         /\ UNCHANGED bridgeVars \/ BridgeNext
         /\ UNCHANGED limiterVars \/
              ((LimiterLost \/ \E k \in Keys : Consume(k) \/ Reset(k)) /\ UNCHANGED clock)
         /\ UNCHANGED logVars \/ LogNext
         /\ UNCHANGED clock \/ (Tick /\ UNCHANGED <<limiterVars, externalVars, gatewayVars,
                                                   formVars, logVars, bridgeVars>>)
<1>1. CASE GateTick
  BY <1>1 DEF GateTick
<1>2. CASE UseLimiter
  BY <1>2 DEF UseLimiter, LimiterNext
<1>3. CASE UseProvider
  <2>1. ExternalNext /\ UNCHANGED <<clock, gatewayVars, formVars, logVars, bridgeVars>>
    BY <1>3 DEF UseProvider
  <2>2. UNCHANGED limiterVars \/ LimiterLost \/ Consume(ExternalKey)
    BY <2>1 DEF ExternalNext, StartLogin
  <2>3. ExternalKey \in Keys
    BY ExternalAssumption DEF ExternalKey
  <2> QED BY <2>1, <2>2, <2>3
<1>4. CASE UseGateway
  BY <1>4 DEF UseGateway
<1>5. CASE UseForms
  BY <1>5 DEF UseForms
<1>6. CASE UseLog
  BY <1>6 DEF UseLog
<1>7. CASE UseBridge
  BY <1>7 DEF UseBridge
<1>8. CASE UNCHANGED gate
  BY <1>8 DEF gate
<1> QED BY <1>1, <1>2, <1>3, <1>4, <1>5, <1>6, <1>7, <1>8 DEF GateNext

-----------------------------------------------------------------------------
(***************************************************************************)
(* Login at a provider: every state is known to the browser it was issued  *)
(* to, and is in the table only as long as its code was not exchanged.     *)
(***************************************************************************)
ExternalTyped ==
  /\ starter \in Seq(Browsers) /\ Len(starter) <= MaxLogins
  /\ cookie \in [Browsers -> [state: Nat, until: Int]]
  /\ exchanges \in [Logins -> 0..1]
  /\ DOMAIN table \subseteq 1..Len(starter)

Issued(n) == n \in 1..Len(starter)

StatesSpent ==
  \A n \in Logins : n \in DOMAIN table \/ ~Issued(n) => exchanges[n] = 0

StatesKept ==
  /\ \A b \in Browsers : cookie[b].state # 0 =>
       Issued(cookie[b].state) /\ starter[cookie[b].state] = b
  /\ \A e \in exchanging \cup signedIn : Issued(e.state) /\ starter[e.state] = e.browser

ExternalInv == ExternalTyped /\ StatesSpent /\ StatesKept /\ SignedInIsServed

(* Nothing was issued yet.                                                 *)
LEMMA ExternalStart == GateInit => ExternalInv
<1> SUFFICES ASSUME GateInit PROVE ExternalInv
  OBVIOUS
<1>1. /\ starter = <<>> /\ Len(starter) = 0 /\ exchanging = {} /\ signedIn = {} /\ DOMAIN table = {}
      /\ exchanges = [n \in Logins |-> 0] /\ cookie = [b \in Browsers |-> NoCookie]
  BY DEF GateInit, ExternalInit, NoStates
<1> QED BY <1>1, ExternalAssumption DEF ExternalInv, ExternalTyped, StatesSpent, StatesKept,
             SignedInIsServed, NoCookie, Issued

(* A profile that exchangeCode() accepts makes headers. *)
LEMMA AcceptedIsServed ==
  ASSUME NEW answer, ExchangeSucceeds(answer)
  PROVE  HeadersServe(Identity(answer))
BY DEF ExchangeSucceeds, HeadersServe, Identity, ProfileTextValid, Representable, PictureValid, BadTexts

(* Every step of a login keeps the invariant.                              *)
LEMMA ExternalStep ==
  ASSUME ExternalInv, ExternalNext, clock \in Int
  PROVE  ExternalInv'
<1> USE ExternalAssumption DEF ExternalInv, ExternalTyped, StatesSpent, StatesKept, SignedInIsServed,
        Issued, Logins
<1>1. ASSUME NEW b \in Browsers, LoginStarted(b), Len(starter) < MaxLogins PROVE ExternalInv'
  BY <1>1 DEF LoginStarted, Unexpired, Restrict
<1>2. ASSUME NEW b \in Browsers, LoginLimited(b) PROVE ExternalInv'
  BY <1>2 DEF LoginLimited, Unexpired, Restrict
<1>3. ASSUME NEW b \in Browsers, NEW n \in DOMAIN starter, CallbackAccepted(b, n) PROVE ExternalInv'
  BY <1>3 DEF CallbackAccepted, GoodState, Shown, Spend, Restrict
<1>4. ASSUME NEW b \in Browsers, NEW n \in DOMAIN starter, NEW code, CallbackRefused(b, n, code)
      PROVE  ExternalInv'
  BY <1>4 DEF CallbackRefused, Restrict
<1>5. ASSUME NEW e \in exchanging, NEW answer, ExchangeFailed(e, answer) \/ IdentityRefused(e, answer)
      PROVE  ExternalInv'
  BY <1>5 DEF ExchangeFailed, IdentityRefused
<1>6. ASSUME NEW e \in exchanging, NEW answer, ExternalSignIn(e, answer) PROVE ExternalInv'
  BY <1>6, AcceptedIsServed DEF ExternalSignIn, NoCookie
<1>7. CASE ExternalLost
  BY <1>7 DEF ExternalLost, NoStates
<1> QED BY <1>1, <1>2, <1>3, <1>4, <1>5, <1>6, <1>7 DEF ExternalNext, StartLogin, Callback

(***************************************************************************)
(* The clock is a number: the other parts read it.                         *)
(***************************************************************************)
LEMMA ClockAlways == GateSpec => [](clock \in Nat)
<1>1. GateInit => clock \in Nat
  BY LimiterAssumption DEF GateInit
<1>2. clock \in Nat /\ [GateNext]_gate => (clock \in Nat)'
  BY OnePartSteps DEF Tick
<1> QED BY <1>1, <1>2, PTL DEF GateSpec

(* The invariant is inductive: no other part touches the table.            *)
LEMMA ExternalAlways == GateSpec => []ExternalInv
<1>1. ExternalInv /\ clock \in Nat /\ [GateNext]_gate => ExternalInv'
  <2> SUFFICES ASSUME ExternalInv, clock \in Nat, [GateNext]_gate PROVE ExternalInv'
    OBVIOUS
  <2>1. CASE ExternalNext
    BY <2>1, ExternalStep
  <2>2. CASE UNCHANGED externalVars
    BY <2>2 DEF externalVars, ExternalInv, ExternalTyped, StatesSpent, StatesKept, SignedInIsServed, Issued
  <2> QED BY <2>1, <2>2, OnePartSteps
<1> QED BY ExternalStart, <1>1, ClockAlways, PTL DEF GateSpec

(***************************************************************************)
(* A state of a login at a provider is good for one exchange, and signs in *)
(* the browser it was issued to only.                                      *)
(***************************************************************************)
THEOREM StatesServeTheirLogin == GateSpec => []StateServesItsLoginOnce
<1>1. ExternalInv => StateServesItsLoginOnce
  BY DEF ExternalInv, ExternalTyped, StatesKept, StateServesItsLoginOnce
<1> QED BY ExternalAlways, <1>1, PTL

(***************************************************************************)
(* Whoever is signed in by a provider has an identity /auth/verify sends.  *)
(***************************************************************************)
THEOREM SignedInServed == GateSpec => []SignedInIsServed
<1>1. ExternalInv => SignedInIsServed
  BY DEF ExternalInv
<1> QED BY ExternalAlways, <1>1, PTL

-----------------------------------------------------------------------------
(***************************************************************************)
(* Identities asserted by a gateway: the cache remembers when an assertion *)
(* was accepted last, or that was more than MaxAge ago.                    *)
(***************************************************************************)
Lifetime == MaxAge * Units

GatewayTyped ==
  /\ accepted \in [Moments -> Seq(Nat)]
  /\ \A m \in DOMAIN replayCache : replayCache[m] \in Nat

RememberedLast ==
  \A m \in Moments : accepted[m] # <<>> =>
    LET last == accepted[m][Len(accepted[m])]
    IN  last < clock - Lifetime \/ (m \in DOMAIN replayCache /\ replayCache[m] = last)

\* All but the last one came within the second of the timestamp, or before it.
RepeatsEarly ==
  \A m \in Moments : \A i \in DOMAIN accepted[m] :
    i # Len(accepted[m]) => accepted[m][i] < (m[1] + 1) * Units

GatewayInv == GatewayTyped /\ RememberedLast /\ RepeatsEarly

(* A timestamp that is fresh Lifetime after a moment makes that moment one *)
(* of the timestamp's second, or of an earlier one.                        *)
LEMMA FreshAfterLifetime ==
  ASSUME NEW s \in Nat, NEW now \in Nat, NEW then \in Nat,
         TimestampFresh(s, now), then < now - Lifetime
  PROVE  then < (s + 1) * Units
<1> DEFINE q == now \div Units
<1>1. Units \in Nat /\ Units > 0 /\ MaxAge \in Nat
  BY GatewayAssumption
<1>2. q \in Int /\ now < (q + 1) * Units
  BY ONLY <1>1, now \in Nat
<1>3. q <= s + MaxAge
  <2>1. q - s <= MaxAge
    BY DEF TimestampFresh
  <2> QED BY <1>1, <1>2, <2>1
<1> HIDE DEF q
<1>4. (q + 1) * Units <= (s + MaxAge + 1) * Units
  BY <1>1, <1>2, <1>3
<1>5. (s + MaxAge + 1) * Units = (s + 1) * Units + MaxAge * Units
  BY <1>1
<1> DEFINE a == (q + 1) * Units
           b == (s + 1) * Units
           c == MaxAge * Units
<1>6. a \in Int /\ b \in Int /\ c \in Int
  BY <1>1, <1>2
<1>7. now < a /\ a <= b + c /\ then < now - c
  BY <1>2, <1>4, <1>5 DEF Lifetime
<1> HIDE DEF a, b, c
<1>8. then < b
  BY <1>6, <1>7
<1> QED BY <1>8 DEF b

(* What an assertion can bring. *)
LEMMA WhatItBrings ==
  ASSUME NEW a \in Assertions
  PROVE  /\ a.payload \in Payloads
         /\ a.present => Moment(a) \in Moments /\ Moment(a)[1] = a.seconds /\ a.seconds \in Nat
<1>1. CASE \E m \in Moments, s \in BOOLEAN, p \in Payloads :
             a = [present |-> TRUE, seconds |-> m[1], sequence |-> m[2], signed |-> s, payload |-> p]
  <2>1. PICK m \in Moments, s \in BOOLEAN, p \in Payloads :
             a = [present |-> TRUE, seconds |-> m[1], sequence |-> m[2], signed |-> s, payload |-> p]
    BY <1>1
  <2>2. a.payload = p /\ a.seconds = m[1] /\ a.sequence = m[2]
    BY <2>1
  <2>3. m[1] \in Stamps /\ m[2] \in Numbers
    BY DEF Moments
  <2> QED BY <2>2, <2>3, GatewayAssumption DEF Moment, Moments
<1>2. CASE ~a.present /\ a.payload = "missing"
  BY <1>2 DEF Payloads
<1> QED BY <1>1, <1>2 DEF Assertions

(* No assertion was accepted yet.                                          *)
LEMMA GatewayStart == GateInit => GatewayInv
<1> SUFFICES ASSUME GateInit PROVE GatewayInv
  OBVIOUS
<1>1. accepted = [m \in Moments |-> <<>>] /\ replayCache = [m \in {} |-> 0]
  BY DEF GateInit, GatewayInit
<1> QED BY <1>1 DEF GatewayInv, GatewayTyped, RememberedLast, RepeatsEarly

(* An assertion that is answered keeps the invariant. *)
LEMMA AssertionStep ==
  ASSUME GatewayInv, clock \in Nat, NEW a \in Assertions, VerifyAssertion(a), UNCHANGED clock
  PROVE  GatewayInv'
<1> DEFINE m == Moment(a)
           kept == Remembered(clock)
<1>0. Lifetime \in Nat
  BY GatewayAssumption DEF Lifetime
<1>1. /\ DOMAIN kept \subseteq DOMAIN replayCache
      /\ \A n \in DOMAIN kept : kept[n] = replayCache[n]
      /\ \A n \in DOMAIN replayCache : n \notin DOMAIN kept => replayCache[n] < clock - Lifetime
      /\ \A n \in DOMAIN replayCache : replayCache[n] \in Nat
  BY DEF Remembered, Restrict, Forgotten, Lifetime, GatewayInv, GatewayTyped
<1>2. CASE Resolve(a) \notin Payloads
  <2>1. replayCache' \in {replayCache, kept} /\ UNCHANGED accepted
    <3>1. Resolve(a) \in {"none", "stale", "replayed", "forged"}
      BY <1>2, WhatItBrings DEF Resolve
    <3> QED BY <1>2, <3>1 DEF VerifyAssertion, CacheAfter
  <2> QED BY <1>0, <1>1, <2>1 DEF GatewayInv, GatewayTyped, RememberedLast, RepeatsEarly
<1>3. CASE Resolve(a) \in Payloads
  <2>1. /\ a.present /\ TimestampFresh(a.seconds, clock) /\ m \notin DOMAIN kept
    BY <1>3 DEF Resolve, Payloads
  <2>2. /\ replayCache' = [n \in DOMAIN kept \cup {m} |-> IF n = m THEN clock ELSE replayCache[n]]
        /\ accepted' = [accepted EXCEPT ![m] = Append(@, clock)]
    BY <1>3 DEF VerifyAssertion, CacheAfter, Payloads
  <2>3. m \in Moments /\ m[1] = a.seconds /\ a.seconds \in Nat
    BY <2>1, WhatItBrings
  <2>4. accepted[m] \in Seq(Nat) /\ Len(accepted[m]) \in Nat
    BY <2>3 DEF GatewayInv, GatewayTyped
  <2>5. /\ accepted'[m] = Append(accepted[m], clock) /\ accepted'[m] \in Seq(Nat)
        /\ Len(accepted'[m]) = Len(accepted[m]) + 1 /\ accepted'[m][Len(accepted'[m])] = clock
        /\ DOMAIN accepted'[m] = 1..(Len(accepted[m]) + 1)
        /\ \A i \in 1..Len(accepted[m]) : accepted'[m][i] = accepted[m][i]
        /\ \A n \in Moments \ {m} : accepted'[n] = accepted[n]
    BY <2>2, <2>3, <2>4 DEF GatewayInv, GatewayTyped
  <2>6. GatewayTyped'
    BY <1>1, <2>2, <2>5 DEF GatewayInv, GatewayTyped
  <2>7. RememberedLast'
    <3>1. m \in DOMAIN replayCache' /\ replayCache'[m] = clock
      BY <2>2
    <3>2. \A n \in DOMAIN kept : n # m => n \in DOMAIN replayCache' /\ replayCache'[n] = replayCache[n]
      BY <2>2
    <3> SUFFICES ASSUME NEW n \in Moments, accepted'[n] # <<>>
                 PROVE  LET last == accepted'[n][Len(accepted'[n])]
                        IN  last < clock - Lifetime \/ (n \in DOMAIN replayCache' /\ replayCache'[n] = last)
      BY DEF RememberedLast
    <3>3. CASE n = m
      BY <2>5, <3>1, <3>3
    <3>4. CASE n # m
      BY <1>1, <2>5, <3>2, <3>4 DEF GatewayInv, RememberedLast
    <3> QED BY <3>3, <3>4
  <2>8. RepeatsEarly'
    <3>1. accepted[m] # <<>> => accepted[m][Len(accepted[m])] < (m[1] + 1) * Units
      <4> SUFFICES ASSUME accepted[m] # <<>>
                   PROVE  accepted[m][Len(accepted[m])] < (m[1] + 1) * Units
        OBVIOUS
      <4>1. accepted[m][Len(accepted[m])] \in Nat
        BY <2>4
      <4>2. accepted[m][Len(accepted[m])] < clock - Lifetime
        BY <1>1, <2>1, <2>3 DEF GatewayInv, RememberedLast
      <4> QED BY <2>1, <2>3, <4>1, <4>2, FreshAfterLifetime
    <3> SUFFICES ASSUME NEW n \in Moments, NEW i \in DOMAIN accepted'[n], i # Len(accepted'[n])
                 PROVE  accepted'[n][i] < (n[1] + 1) * Units
      BY DEF RepeatsEarly
    <3>2. CASE n = m
      <4>1. i \in 1..Len(accepted[m]) /\ accepted'[m][i] = accepted[m][i]
        BY <2>4, <2>5, <3>2
      <4>2. i # Len(accepted[m]) => accepted[m][i] < (m[1] + 1) * Units
        BY <2>3, <2>4, <4>1 DEF GatewayInv, RepeatsEarly
      <4>3. i = Len(accepted[m]) => accepted[m] # <<>>
        BY <2>4, <4>1
      <4> QED BY <3>1, <3>2, <4>1, <4>2, <4>3
    <3>3. CASE n # m
      BY <2>5, <3>3 DEF GatewayInv, RepeatsEarly
    <3> QED BY <3>2, <3>3
  <2> QED BY <2>6, <2>7, <2>8 DEF GatewayInv
<1> QED BY <1>2, <1>3

(* Every answer to an assertion keeps the invariant.                       *)
LEMMA GatewayStep ==
  ASSUME GatewayInv, clock \in Nat, [GateNext]_gate
  PROVE  GatewayInv'
<1>1. CASE GatewayNext /\ UNCHANGED clock
  <2>1. ASSUME NEW a \in Assertions, VerifyAssertion(a) PROVE GatewayInv'
    BY <1>1, <2>1, AssertionStep
  <2>2. CASE GatewayLost
    BY <2>2 DEF GatewayLost, GatewayInv, GatewayTyped, RememberedLast, RepeatsEarly
  <2>3. CASE VerifyRefused \/ VerifySession \/ SessionEnds
    BY <1>1, <2>3 DEF VerifyRefused, VerifySession, SessionEnds, GatewayInv, GatewayTyped,
                      RememberedLast, RepeatsEarly
  <2> QED BY <1>1, <2>1, <2>2, <2>3 DEF GatewayNext
<1>2. CASE UNCHANGED gatewayVars
  <2>1. clock' \in Nat /\ clock <= clock'
    BY OnePartSteps DEF Tick
  <2>2. Lifetime \in Nat
    BY GatewayAssumption DEF Lifetime
  <2>3. \A m \in Moments : accepted[m] # <<>> => accepted[m][Len(accepted[m])] \in Nat
    BY DEF GatewayInv, GatewayTyped
  <2> QED BY <1>2, <2>1, <2>2, <2>3 DEF gatewayVars, GatewayInv, GatewayTyped, RememberedLast, RepeatsEarly
<1> QED BY <1>1, <1>2, OnePartSteps

(***************************************************************************)
(* An assertion that first arrives in a later second than its timestamp is *)
(* accepted once in the life of the process.                               *)
(***************************************************************************)
THEOREM AssertionsAreOnce == GateSpec => []AssertionOnce
<1>1. GatewayInv => AssertionOnce
  BY DEF GatewayInv, GatewayTyped, RepeatsEarly, AssertionOnce
<1>2. GatewayInv /\ clock \in Nat /\ [GateNext]_gate => GatewayInv'
  BY GatewayStep
<1> QED BY GatewayStart, <1>1, <1>2, ClockAlways, PTL DEF GateSpec

-----------------------------------------------------------------------------
(***************************************************************************)
(* The forms of the pages: the next token is one the secret in use signs.  *)
(***************************************************************************)
Pages == {"none", "login", "token", "account", "setup", "password", "sign-out"}

FormInv ==
  /\ csrf \in [token: Nat, until: Nat]
  /\ form \in [Tabs -> [page: Pages, token: Nat]]
  /\ minted \in Nat /\ oldest \in 1..(minted + 1)

(* No form was opened yet.                                                 *)
LEMMA FormStart == GateInit => FormInv
BY DEF GateInit, FormInit, FormInv, NoForm, Pages

(* A rendered page keeps the invariant, and its form works in its tab. *)
LEMMA RenderStep ==
  ASSUME FormInv, clock \in Nat, NEW t \in Tabs, NEW page \in Pages, NEW forceNew \in BOOLEAN,
         Render(t, page, forceNew), UNCHANGED <<oldest, clock>>
  PROVE  /\ FormInv' /\ FormAccepted(t)'
         /\ ~forceNew => \A u \in Tabs : FormAccepted(u) => FormAccepted(u)'
<1> DEFINE token == IssueCsrf(forceNew)
<1>1. Verified \in Nat /\ (Verified # 0 => Verified >= oldest)
  BY DEF Verified, Presented, FormInv
<1>2. token \in Nat /\ token # 0 /\ token >= oldest /\ (~forceNew /\ Verified # 0 => token = Verified)
  BY <1>1 DEF IssueCsrf, FormInv
<1>3. /\ minted' = IF token > minted THEN token ELSE minted
      /\ csrf' = [token |-> token, until |-> clock + FormLife]
      /\ form' = [form EXCEPT ![t] = [page |-> page, token |-> token]]
  BY DEF Render
<1> HIDE DEF token
<1>4. FormInv'
  BY <1>2, <1>3, FormAssumption DEF FormInv
<1>5. Verified' = token
  BY <1>2, <1>3, FormAssumption DEF Verified, Presented
<1>6. form'[t].token = token /\ \A u \in Tabs \ {t} : form'[u] = form[u]
  BY <1>3 DEF FormInv
<1>7. FormAccepted(t)'
  BY <1>2, <1>5, <1>6 DEF FormAccepted
<1>8. ASSUME ~forceNew, NEW u \in Tabs, FormAccepted(u) PROVE FormAccepted(u)'
  BY <1>2, <1>5, <1>6, <1>7, <1>8 DEF FormAccepted
<1> QED BY <1>4, <1>7, <1>8

(* Every step of the forms keeps the invariant.                            *)
LEMMA FormStep ==
  ASSUME FormInv, clock \in Nat, FormNext, UNCHANGED clock
  PROVE  FormInv'
<1>1. ASSUME NEW t \in Tabs, NEW page \in Pages, NEW forceNew \in BOOLEAN,
             Render(t, page, forceNew), UNCHANGED oldest
      PROVE  FormInv'
  BY <1>1, RenderStep
<1>2. ASSUME NEW t \in Tabs, Plain(t) PROVE FormInv'
  BY <1>2 DEF Plain, NoForm, Pages, FormInv
<1>3. ASSUME NEW t \in Tabs, NEW session, Done(t, session) PROVE FormInv'
  BY <1>3 DEF Done, NoForm, Pages, FormInv
<1>4. ASSUME NEW t \in Tabs PROVE form[t].page \in Pages
  BY DEF FormInv
<1>5. CASE LoggedOut \/ SecretReplaced
  BY <1>5 DEF LoggedOut, SecretReplaced, FormInv
<1>6. ASSUME NEW t \in Tabs,
             OpenLogin(t) \/ BeginBrowserLogout(t) \/ OpenBridge(t) \/ OpenAccount(t) \/ OpenSetup(t)
             \/ OpenPassword(t) \/ LoginStale(t) \/ LoginDenied(t) \/ AdminPostDenied(t)
      PROVE  FormInv'
  <2>1. \E page \in Pages, forceNew \in BOOLEAN : Render(t, page, forceNew) /\ UNCHANGED oldest
    BY <1>4, <1>6 DEF OpenLogin, BeginBrowserLogout, CsrfDocument, Anew, OpenBridge, OpenAccount,
       OpenSetup, OpenPassword, LoginStale, LoginDenied, AdminPostDenied, Pages
  <2> QED BY <1>1, <2>1
<1>7. ASSUME NEW t \in Tabs, Redirected(t) \/ TokenFailed(t) \/ AdminPostStale(t) \/ LogoutStale(t)
      PROVE  FormInv'
  BY <1>2, <1>7 DEF Redirected, TokenFailed, AdminPostStale, LogoutStale
<1>8. ASSUME NEW t \in Tabs, LoginDone(t) \/ TokenDone(t) \/ AdminPostDone(t) \/ LogoutDone(t)
      PROVE  FormInv'
  BY <1>3, <1>8 DEF LoginDone, TokenDone, AdminPostDone, LogoutDone
<1> QED BY <1>5, <1>6, <1>7, <1>8 DEF FormNext

(***************************************************************************)
(* Tabs do not invalidate one another over the login page.                 *)
(***************************************************************************)
THEOREM TabsShare == GateSpec => TabsShareTheLogin
<1> DEFINE Shared == \A t \in Tabs :
       /\ OpenLogin(t) \/ LoginDenied(t) =>
            \A u \in Tabs : u = t \/ FormAccepted(u) => FormAccepted(u)'
       /\ LoginStale(t) => FormAccepted(t)'
<1>1. FormInv /\ clock \in Nat /\ [GateNext]_gate => FormInv'
  <2> SUFFICES ASSUME FormInv, clock \in Nat, [GateNext]_gate PROVE FormInv'
    OBVIOUS
  <2>1. CASE FormNext /\ UNCHANGED clock
    BY <2>1, FormStep
  <2>2. CASE UNCHANGED formVars
    BY <2>2 DEF formVars, FormInv
  <2> QED BY <2>1, <2>2, OnePartSteps
<1>2. FormInv /\ clock \in Nat /\ [GateNext]_gate => [Shared]_formVars
  <2> SUFFICES ASSUME FormInv, clock \in Nat, UNCHANGED clock, NEW t \in Tabs
               PROVE  /\ OpenLogin(t) \/ LoginDenied(t) =>
                           \A u \in Tabs : u = t \/ FormAccepted(u) => FormAccepted(u)'
                      /\ LoginStale(t) => FormAccepted(t)'
    BY OnePartSteps
  <2>1. ASSUME OpenLogin(t) \/ LoginDenied(t), NEW u \in Tabs, u = t \/ FormAccepted(u)
        PROVE  FormAccepted(u)'
    <3>1. Render(t, "login", FALSE) /\ UNCHANGED oldest /\ "login" \in Pages
      BY <2>1 DEF OpenLogin, LoginDenied, Pages
    <3> QED BY <2>1, <3>1, RenderStep
  <2>2. ASSUME LoginStale(t) PROVE FormAccepted(t)'
    <3>1. Render(t, "login", TRUE) /\ UNCHANGED oldest /\ "login" \in Pages
      BY <2>2 DEF LoginStale, Pages
    <3> QED BY <3>1, RenderStep
  <2> QED BY <2>1, <2>2
<1> QED BY FormStart, <1>1, <1>2, ClockAlways, PTL DEF GateSpec, TabsShareTheLogin

-----------------------------------------------------------------------------
(***************************************************************************)
(* The diagnostic log, for every window, budget and clock, with the clock  *)
(* going back and forth as it likes.                                       *)
(***************************************************************************)
(***************************************************************************)
(* The inductive invariant: the diagnostics that the budget counts are the *)
(* last ones written, and each was written within the window.              *)
(***************************************************************************)
LogTyped ==
  /\ wall \in Int /\ windowStart \in Int
  /\ spent \in Nat /\ suppressed \in Nat /\ raised \in Nat /\ announced \in Nat
  /\ written \in Seq(Int)

SpentInWindow ==
  /\ spent <= Len(written)
  /\ \A i \in (Len(written) - spent + 1)..Len(written) :
       windowStart <= written[i] /\ written[i] < windowStart + LogWindow

LogInv == LogTyped /\ Accounted /\ SpentInWindow

(* The beginning of an event: the window is current, or a new one begins. *)
LEMMA Opening ==
  ASSUME LogInv
  PROVE  /\ StartNow \in Int /\ SpentNow \in Nat /\ HeldNow \in Nat /\ AnnouncedNow \in Nat
         /\ raised = Len(written) + AnnouncedNow + HeldNow
         /\ SpentNow <= Len(written)
         /\ \A i \in (Len(written) - SpentNow + 1)..Len(written) :
              StartNow <= written[i] /\ written[i] < StartNow + LogWindow
         /\ StartNow <= wall /\ wall < StartNow + LogWindow
<1> USE LogAssumption DEF LogInv, LogTyped, Accounted, SpentInWindow,
                          StartNow, SpentNow, HeldNow, AnnouncedNow
<1>0. Len(written) \in Nat
  OBVIOUS
<1>1. CASE Current(windowStart, wall)
  BY <1>0, <1>1 DEF Current
<1>2. CASE ~Current(windowStart, wall)
  BY <1>0, <1>2
<1> QED BY <1>1, <1>2

(* A diagnostic keeps the invariant. *)
LEMMA DiagnosticKeeps ==
  ASSUME LogInv, Diagnostic
  PROVE  LogInv'
<1>0. Len(written) \in Nat /\ wall \in Int /\ raised \in Nat /\ written \in Seq(Int)
  BY DEF LogInv, LogTyped
<1>1. /\ raised' = raised + 1 /\ windowStart' = StartNow
      /\ announced' = AnnouncedNow /\ wall' = wall
  BY DEF Diagnostic
<1>2. CASE SpentNow >= MaxEvents
  <2>1. suppressed' = HeldNow + 1 /\ spent' = spent /\ written' = written
    BY <1>2 DEF Diagnostic
  <2>2. SpentNow = spent
    BY <1>2, LogAssumption DEF SpentNow
  <2> QED BY <1>0, <1>1, <2>1, <2>2, Opening DEF LogInv, LogTyped, Accounted, SpentInWindow
<1>3. CASE ~(SpentNow >= MaxEvents)
  <2>1. spent' = SpentNow + 1 /\ suppressed' = HeldNow /\ written' = Append(written, wall)
    BY <1>3 DEF Diagnostic
  <2>2. /\ written' \in Seq(Int) /\ Len(written') = Len(written) + 1
        /\ written'[Len(written) + 1] = wall
        /\ \A i \in 1..Len(written) : written'[i] = written[i]
    BY <1>0, <2>1
  <2>3. LogTyped' /\ Accounted'
    BY <1>0, <1>1, <2>1, <2>2, Opening DEF LogTyped, Accounted
  <2>4. SpentInWindow'
    <3>1. spent' <= Len(written')
      BY <1>0, <2>1, <2>2, Opening
    <3>2. ASSUME NEW i \in (Len(written') - spent' + 1)..Len(written')
          PROVE  StartNow <= written'[i] /\ written'[i] < StartNow + LogWindow
      <4>1. i = Len(written) + 1 \/ i \in (Len(written) - SpentNow + 1)..Len(written)
        <5>1. Len(written') - spent' + 1 = Len(written) - SpentNow + 1
          BY <1>0, <2>1, <2>2, Opening
        <5>2. Len(written) - SpentNow + 1 \in Int /\ i \in Int
          BY <1>0, <3>2, <5>1, Opening
        <5> QED BY <1>0, <2>2, <3>2, <5>1, <5>2
      <4>2. \A j \in (Len(written) - SpentNow + 1)..Len(written) : j \in 1..Len(written)
        BY <1>0, Opening
      <4> QED BY <2>2, <4>1, <4>2, Opening
    <3> QED BY <1>1, <3>1, <3>2 DEF SpentInWindow
  <2> QED BY <2>3, <2>4 DEF LogInv
<1> QED BY <1>2, <1>3

(* The invariant is inductive. *)
LEMMA LogInvariant == LogSpec => []LogInv
<1>1. LogInit => LogInv
  BY LogAssumption DEF LogInit, LogInv, LogTyped, Accounted, SpentInWindow
<1>2. LogInv /\ [LogNext]_logVars => LogInv'
  <2> SUFFICES ASSUME LogInv, [LogNext]_logVars PROVE LogInv'
    OBVIOUS
  <2>1. CASE Diagnostic
    BY <2>1, DiagnosticKeeps
  <2>2. CASE Informational
    BY <2>2, Opening DEF Informational, LogInv, LogTyped, Accounted, SpentInWindow
  <2>3. CASE WallChanges
    BY <2>3, LogAssumption DEF WallChanges, LogInv, LogTyped, Accounted, SpentInWindow
  <2>4. CASE UNCHANGED logVars
    BY <2>4 DEF logVars, LogInv, LogTyped, Accounted, SpentInWindow
  <2> QED BY <2>1, <2>2, <2>3, <2>4 DEF LogNext
<1> QED BY <1>1, <1>2, PTL DEF LogSpec

(* The readings of the window are near the present one. *)
Near(now) == {i \in DOMAIN written : now - LogWindow < written[i] /\ written[i] < now + LogWindow}

(* A budget that is spent in the current window was written nearby. *)
LEMMA SpentNearby ==
  ASSUME LogInv
  PROVE  Cardinality(Near(wall)) >= SpentNow
<1> DEFINE window == (Len(written) - SpentNow + 1)..Len(written)
<1>1. Len(written) \in Nat /\ SpentNow \in Nat /\ SpentNow <= Len(written)
      /\ DOMAIN written = 1..Len(written)
  BY Opening DEF LogInv, LogTyped
<1>2. IsFiniteSet(window) /\ Cardinality(window) = SpentNow
  <2>1. Len(written) - SpentNow + 1 \in Int /\ Len(written) \in Int
    BY <1>1
  <2>2. /\ IsFiniteSet(window)
        /\ Cardinality(window) = IF Len(written) - SpentNow + 1 > Len(written) THEN 0
                                 ELSE Len(written) - (Len(written) - SpentNow + 1) + 1
    BY <2>1, FS_Interval
  <2> QED BY <1>1, <2>2
<1>3. window \subseteq Near(wall)
  <2> SUFFICES ASSUME NEW i \in window PROVE i \in Near(wall)
    OBVIOUS
  <2>1. i \in DOMAIN written /\ written[i] \in Int
    BY <1>1 DEF LogInv, LogTyped
  <2>2. StartNow <= written[i] /\ written[i] < StartNow + LogWindow
        /\ StartNow <= wall /\ wall < StartNow + LogWindow /\ StartNow \in Int /\ wall \in Int
    BY Opening DEF LogInv, LogTyped
  <2> QED BY <2>1, <2>2, LogAssumption DEF Near
<1>4. IsFiniteSet(Near(wall))
  <2>1. IsFiniteSet(1..Len(written))
    BY <1>1, FS_Interval
  <2> QED BY <1>1, <2>1, FS_Subset DEF Near
<1>5. Cardinality(window) <= Cardinality(Near(wall))
  BY <1>3, <1>4, FS_Subset
<1>6. Cardinality(Near(wall)) \in Nat
  BY <1>4, FS_CardinalityType
<1> QED BY <1>1, <1>2, <1>5, <1>6

(***************************************************************************)
(* No diagnostic is lost count of, and none is kept back unless a full     *)
(* budget was written less than a window away, whatever the clock does.    *)
(***************************************************************************)
THEOREM DiagnosticsNeverLost == LogSpec => DiagnosticsAccounted
<1>1. LogInv => Accounted
  BY DEF LogInv
<1>2. LogInv /\ [LogNext]_logVars =>
        [suppressed' > suppressed =>
           Cardinality({i \in DOMAIN written : wall - LogWindow < written[i]
                                                /\ written[i] < wall + LogWindow}) >= MaxEvents]_logVars
  <2> SUFFICES ASSUME LogInv, LogNext, suppressed' > suppressed
               PROVE  Cardinality(Near(wall)) >= MaxEvents
    BY DEF Near
  <2>0. suppressed \in Nat /\ HeldNow <= suppressed
    BY DEF LogInv, LogTyped, HeldNow
  <2>1. CASE Diagnostic
    <3>1. SpentNow >= MaxEvents
      BY <2>0, <2>1, Opening DEF Diagnostic
    <3>2. Cardinality(Near(wall)) >= SpentNow
      BY SpentNearby
    <3>3. IsFiniteSet(Near(wall))
      <4>1. written \in Seq(Int) /\ DOMAIN written = 1..Len(written) /\ Len(written) \in Int
        BY DEF LogInv, LogTyped
      <4>2. IsFiniteSet(1..Len(written))
        BY <4>1, FS_Interval
      <4> QED BY <4>1, <4>2, FS_Subset DEF Near
    <3>4. Cardinality(Near(wall)) \in Nat
      BY <3>3, FS_CardinalityType
    <3> QED BY <3>1, <3>2, <3>4, Opening, LogAssumption
  <2>2. CASE Informational
    BY <2>0, <2>2, Opening DEF Informational
  <2>3. CASE WallChanges
    BY <2>0, <2>3 DEF WallChanges
  <2> QED BY <2>1, <2>2, <2>3 DEF LogNext
<1> QED BY <1>1, <1>2, LogInvariant, PTL DEF LogSpec, DiagnosticsAccounted, KeptBackWhenNoisy

(***************************************************************************)
(* The log of the gate is one of these: the other parts leave it alone, so *)
(* that nothing they do costs it a diagnostic.                             *)
(***************************************************************************)
THEOREM GateLogAccounted == GateSpec => DiagnosticsAccounted
<1>1. GateInit => LogInit
  BY DEF GateInit
<1>2. [GateNext]_gate => [LogNext]_logVars
  BY OnePartSteps
<1>3. GateSpec => LogSpec
  BY <1>1, <1>2, PTL DEF GateSpec, LogSpec
<1> QED BY <1>3, DiagnosticsNeverLost

-----------------------------------------------------------------------------
(***************************************************************************)
(* The bridge into the host.  A suffix, place by place.                    *)
(***************************************************************************)
Ends(s, t) == Len(s) <= Len(t) /\ \A i \in 1..Len(s) : s[i] = t[i + (Len(t) - Len(s))]

(* A list that ends another one place by place is its suffix.              *)
LEMMA SuffixEnds ==
  ASSUME NEW P, NEW s \in Seq(P), NEW t \in Seq(P), Ends(s, t)
  PROVE  IsSuffix(s, t)
<1> DEFINE r == Reverse(s)
           q == Reverse(t)
<1>1. Len(s) \in Nat /\ Len(t) \in Nat /\ Len(s) <= Len(t)
  BY DEF Ends
<1>2. /\ r \in Seq(P) /\ Len(r) = Len(s) /\ \A i \in 1..Len(s) : r[i] = s[(Len(s) - i) + 1]
      /\ q \in Seq(P) /\ Len(q) = Len(t) /\ \A i \in 1..Len(t) : q[i] = t[(Len(t) - i) + 1]
  BY DEF Reverse
<1>3. \A i \in 1..Len(s) : r[i] = q[i]
  <2> SUFFICES ASSUME NEW i \in 1..Len(s) PROVE r[i] = q[i]
    OBVIOUS
  <2> DEFINE j == (Len(s) - i) + 1
  <2>1. j \in 1..Len(s) /\ j + (Len(t) - Len(s)) = (Len(t) - i) + 1 /\ i \in 1..Len(t)
    BY <1>1
  <2>2. s[j] = t[j + (Len(t) - Len(s))]
    BY <2>1 DEF Ends
  <2> QED BY <1>2, <2>1, <2>2
<1> HIDE DEF r, q
<1>4. SubSeq(r, 1, Len(s)) = SubSeq(q, 1, Len(s))
  <2>1. /\ SubSeq(r, 1, Len(s)) \in Seq(P) /\ Len(SubSeq(r, 1, Len(s))) = Len(s)
        /\ \A i \in 1..Len(s) : SubSeq(r, 1, Len(s))[i] = r[i]
    BY <1>1, <1>2
  <2>2. /\ SubSeq(q, 1, Len(s)) \in Seq(P) /\ Len(SubSeq(q, 1, Len(s))) = Len(s)
        /\ \A i \in 1..Len(s) : SubSeq(q, 1, Len(s))[i] = q[i]
    BY <1>1, <1>2
  <2> QED BY <1>3, <2>1, <2>2, SeqEqual
<1> QED BY <1>1, <1>2, <1>4 DEF IsSuffix, IsPrefix, r, q

(* A chain ends with itself.                                               *)
LEMMA EndsItself ==
  ASSUME NEW P, NEW s \in Seq(P)
  PROVE  Ends(s, s)
<1>1. Len(s) \in Nat /\ \A i \in 1..Len(s) : i + (Len(s) - Len(s)) = i
  OBVIOUS
<1> QED BY <1>1 DEF Ends

(* A chain still ends with what it ended with when a wrapper is put on.    *)
LEMMA EndsWrapped ==
  ASSUME NEW P, NEW s \in Seq(P), NEW t \in Seq(P), NEW p \in P, Ends(s, t)
  PROVE  Ends(s, <<p>> \o t)
<1>1. /\ Len(s) \in Nat /\ Len(t) \in Nat /\ <<p>> \in Seq(P) /\ Len(<<p>>) = 1
  OBVIOUS
<1>2. /\ Len(<<p>> \o t) = Len(t) + 1
      /\ \A i \in 1..(Len(t) + 1) : (<<p>> \o t)[i] = IF i <= 1 THEN <<p>>[i] ELSE t[i - 1]
  BY <1>1, ConcatProperties
<1>3. ASSUME NEW i \in 1..Len(s)
      PROVE  s[i] = (<<p>> \o t)[i + (Len(<<p>> \o t) - Len(s))]
  <2> DEFINE j == i + (Len(t) - Len(s))
  <2>1. j \in 1..Len(t) /\ s[i] = t[j]
    BY <1>1 DEF Ends
  <2>2. i + (Len(<<p>> \o t) - Len(s)) = j + 1 /\ j + 1 \in 1..(Len(t) + 1) /\ ~(j + 1 <= 1)
        /\ (j + 1) - 1 = j
    BY <1>1, <1>2, <2>1
  <2> QED BY <1>2, <2>1, <2>2
<1> QED BY <1>1, <1>2, <1>3 DEF Ends

(* It does when one is taken off above. *)
LEMMA EndsUnwrapped ==
  ASSUME NEW P, NEW s \in Seq(P), NEW t \in Seq(P), Ends(s, t), s # t
  PROVE  Ends(s, Tail(t)) /\ Tail(t) \in Seq(P)
<1>1. Len(s) \in Nat /\ Len(t) \in Nat /\ Len(s) <= Len(t)
  BY DEF Ends
<1>2. Len(s) # Len(t)
  <2> SUFFICES ASSUME Len(s) = Len(t) PROVE FALSE
    OBVIOUS
  <2>1. \A i \in 1..Len(s) : i + (Len(t) - Len(s)) = i
    BY <1>1
  <2>2. \A i \in 1..Len(s) : s[i] = t[i]
    BY <2>1 DEF Ends
  <2> QED BY <2>2, SeqEqual
<1>3. t # <<>>
  BY <1>1, <1>2
<1>4. /\ Tail(t) \in Seq(P) /\ Len(Tail(t)) = Len(t) - 1
      /\ \A i \in 1..(Len(t) - 1) : Tail(t)[i] = t[i + 1]
  BY <1>3
<1>5. ASSUME NEW i \in 1..Len(s)
      PROVE  s[i] = Tail(t)[i + (Len(Tail(t)) - Len(s))]
  <2> DEFINE j == i + (Len(Tail(t)) - Len(s))
  <2>1. j \in 1..(Len(t) - 1) /\ j + 1 = i + (Len(t) - Len(s))
    BY <1>1, <1>2, <1>4
  <2>2. s[i] = t[j + 1]
    BY <2>1 DEF Ends
  <2> QED BY <1>4, <2>1, <2>2
<1> QED BY <1>1, <1>2, <1>4, <1>5 DEF Ends

(***************************************************************************)
(* The invariant: a wrapper made is the outermost of a chain that is still *)
(* there, and a bridge has wrapped both methods or none.                   *)
(***************************************************************************)
Plugins == Bridges \cup Others

BridgeTyped ==
  /\ method \in [WrappedMethods -> Seq(Plugins)]
  /\ made \in [Plugins -> [WrappedMethods -> Seq(Plugins)]]

StillThere ==
  \A p \in Plugins, m \in WrappedMethods : made[p][m] # NotMade =>
    Head(made[p][m]) = p /\ Ends(made[p][m], method[m])

BothOrNone ==
  \A p \in Bridges, m, n \in WrappedMethods : made[p][m] # NotMade => made[p][n] # NotMade

BridgeInv == BridgeTyped /\ StillThere /\ BothOrNone

(* Nobody has wrapped the handler yet.                                     *)
LEMMA BridgeStart == GateInit => BridgeInv
BY DEF GateInit, BridgeInit, BridgeInv, BridgeTyped, StillThere, BothOrNone, NotMade, Plugins

(* Installing and disposing keep the invariant. *)
LEMMA InstallStep ==
  ASSUME BridgeInv, NEW p \in Bridges, Install(p)
  PROVE  BridgeInv'
<1>1. /\ p \in Plugins
      /\ \A m \in WrappedMethods : method[m] \in Seq(Plugins) /\ \A q \in Plugins : made[q][m] \in Seq(Plugins)
  BY DEF Plugins, BridgeInv, BridgeTyped
<1>2. /\ method' = [m \in WrappedMethods |-> <<p>> \o method[m]]
      /\ made' = [made EXCEPT ![p] = method']
  BY DEF Install
<1>3. \A m \in WrappedMethods :
        /\ method'[m] = <<p>> \o method[m] /\ method'[m] \in Seq(Plugins)
        /\ method'[m] # NotMade /\ Head(method'[m]) = p
  BY <1>1, <1>2 DEF NotMade
<1>4. /\ \A m \in WrappedMethods : made'[p][m] = method'[m]
      /\ \A q \in Plugins \ {p} : made'[q] = made[q]
  BY <1>1, <1>2 DEF BridgeInv, BridgeTyped
<1>5. BridgeTyped'
  BY <1>1, <1>2, <1>3 DEF BridgeInv, BridgeTyped
<1>6. StillThere'
  <2> SUFFICES ASSUME NEW q \in Plugins, NEW m \in WrappedMethods, made'[q][m] # NotMade
               PROVE  Head(made'[q][m]) = q /\ Ends(made'[q][m], method'[m])
    BY DEF StillThere
  <2>1. CASE q = p
    BY <1>3, <1>4, <2>1, EndsItself
  <2>2. CASE q # p
    <3>1. made'[q][m] = made[q][m] /\ Head(made[q][m]) = q /\ Ends(made[q][m], method[m])
      BY <1>4, <2>2 DEF BridgeInv, StillThere
    <3> QED BY <1>1, <1>3, <3>1, EndsWrapped
  <2> QED BY <2>1, <2>2
<1>7. BothOrNone'
  BY <1>3, <1>4, BridgeAssumption DEF BothOrNone, BridgeInv, Plugins
<1> QED BY <1>5, <1>6, <1>7 DEF BridgeInv

(* dispose() restores only the methods that are still its own wrapper.     *)
LEMMA DisposeStep ==
  ASSUME BridgeInv, NEW p \in Bridges, Dispose(p)
  PROVE  BridgeInv'
<1>1. /\ p \in Plugins
      /\ \A m \in WrappedMethods : /\ method[m] \in Seq(Plugins)
                                   /\ \A q \in Plugins : made[q][m] \in Seq(Plugins)
  BY DEF Plugins, BridgeInv, BridgeTyped
<1>2. /\ method' = [m \in WrappedMethods |-> Restore(p, m)]
      /\ made' = [made EXCEPT ![p] = [m \in WrappedMethods |-> NotMade]]
  BY DEF Dispose
<1>3. \A m \in WrappedMethods : made[p][m] # NotMade
  BY DEF Dispose, Installed, BridgeInv, BothOrNone
<1>4. /\ \A m \in WrappedMethods : made'[p][m] = NotMade
      /\ \A q \in Plugins \ {p} : made'[q] = made[q]
  BY <1>1, <1>2 DEF BridgeInv, BridgeTyped
<1>5. \A m \in WrappedMethods : method'[m] \in Seq(Plugins)
  BY <1>1, <1>2, <1>3 DEF Restore, NotMade
<1>6. BridgeTyped'
  BY <1>1, <1>2, <1>5 DEF BridgeInv, BridgeTyped, NotMade
<1>7. StillThere'
  <2> SUFFICES ASSUME NEW q \in Plugins, NEW m \in WrappedMethods, made'[q][m] # NotMade
               PROVE  Head(made'[q][m]) = q /\ Ends(made'[q][m], method'[m])
    BY DEF StillThere
  <2>1. q # p /\ made'[q][m] = made[q][m]
    BY <1>4
  <2>2. Head(made[q][m]) = q /\ Ends(made[q][m], method[m]) /\ Head(made[p][m]) = p
    BY <1>1, <1>3, <2>1 DEF BridgeInv, StillThere
  <2>3. CASE method[m] = made[p][m]
    <3>1. made[q][m] # method[m]
      BY <2>1, <2>2, <2>3
    <3>2. Ends(made[q][m], Tail(method[m]))
      BY <1>1, <2>2, <3>1, EndsUnwrapped
    <3> QED BY <1>2, <2>1, <2>2, <2>3, <3>2 DEF Restore
  <2>4. CASE method[m] # made[p][m]
    BY <1>2, <2>1, <2>2, <2>4 DEF Restore
  <2> QED BY <2>3, <2>4
<1>8. BothOrNone'
  BY <1>4 DEF BothOrNone, BridgeInv, Plugins
<1> QED BY <1>6, <1>7, <1>8 DEF BridgeInv

(* So do other plugins that wrap a method, and unwrap it.                  *)
LEMMA WrapStep ==
  ASSUME BridgeInv, NEW o \in Others, NEW n \in WrappedMethods, Wrap(o, n)
  PROVE  BridgeInv'
<1>1. /\ o \in Plugins /\ o \notin Bridges
      /\ \A m \in WrappedMethods : /\ method[m] \in Seq(Plugins)
                                   /\ \A q \in Plugins : made[q][m] \in Seq(Plugins)
  BY BridgeAssumption DEF Plugins, BridgeInv, BridgeTyped
<1>2. /\ method' = [method EXCEPT ![n] = <<o>> \o @]
      /\ made' = [made EXCEPT ![o][n] = method'[n]]
  BY DEF Wrap
<1>3. /\ method'[n] = <<o>> \o method[n] /\ method'[n] \in Seq(Plugins)
      /\ method'[n] # NotMade /\ Head(method'[n]) = o
      /\ \A m \in WrappedMethods \ {n} : method'[m] = method[m]
  BY <1>1, <1>2 DEF NotMade, BridgeInv, BridgeTyped
<1>4. /\ made'[o][n] = method'[n]
      /\ \A q \in Plugins, m \in WrappedMethods : q # o \/ m # n => made'[q][m] = made[q][m]
  BY <1>1, <1>2 DEF BridgeInv, BridgeTyped
<1>5. BridgeTyped'
  BY <1>1, <1>2, <1>3 DEF BridgeInv, BridgeTyped
<1>6. StillThere'
  <2> SUFFICES ASSUME NEW q \in Plugins, NEW m \in WrappedMethods, made'[q][m] # NotMade
               PROVE  Head(made'[q][m]) = q /\ Ends(made'[q][m], method'[m])
    BY DEF StillThere
  <2>1. CASE q = o /\ m = n
    BY <1>3, <1>4, <2>1, EndsItself
  <2>2. CASE ~(q = o /\ m = n)
    <3>1. made'[q][m] = made[q][m] /\ Head(made[q][m]) = q /\ Ends(made[q][m], method[m])
      BY <1>4, <2>2 DEF BridgeInv, StillThere
    <3>2. Ends(made[q][m], <<o>> \o method[m])
      BY <1>1, <3>1, EndsWrapped
    <3> QED BY <1>3, <3>1, <3>2
  <2> QED BY <2>1, <2>2
<1>7. BothOrNone'
  BY <1>1, <1>4 DEF BothOrNone, BridgeInv, Plugins
<1> QED BY <1>5, <1>6, <1>7 DEF BridgeInv

(* Another plugin takes its wrapper off only while it is the outermost.    *)
LEMMA UnwrapStep ==
  ASSUME BridgeInv, NEW o \in Others, NEW n \in WrappedMethods, Unwrap(o, n)
  PROVE  BridgeInv'
<1>1. /\ o \in Plugins /\ o \notin Bridges
      /\ \A m \in WrappedMethods : /\ method[m] \in Seq(Plugins)
                                   /\ \A q \in Plugins : made[q][m] \in Seq(Plugins)
  BY BridgeAssumption DEF Plugins, BridgeInv, BridgeTyped
<1>2. /\ method' = [method EXCEPT ![n] = Tail(@)]
      /\ made' = [made EXCEPT ![o][n] = NotMade]
      /\ made[o][n] # NotMade /\ method[n] = made[o][n]
  BY DEF Unwrap
<1>3. /\ method'[n] = Tail(method[n]) /\ method'[n] \in Seq(Plugins)
      /\ \A m \in WrappedMethods \ {n} : method'[m] = method[m]
  BY <1>1, <1>2 DEF NotMade, BridgeInv, BridgeTyped
<1>4. /\ made'[o][n] = NotMade
      /\ \A q \in Plugins, m \in WrappedMethods : q # o \/ m # n => made'[q][m] = made[q][m]
  BY <1>1, <1>2 DEF BridgeInv, BridgeTyped
<1>5. BridgeTyped'
  BY <1>1, <1>2, <1>3 DEF BridgeInv, BridgeTyped, NotMade
<1>6. StillThere'
  <2> SUFFICES ASSUME NEW q \in Plugins, NEW m \in WrappedMethods, made'[q][m] # NotMade
               PROVE  Head(made'[q][m]) = q /\ Ends(made'[q][m], method'[m])
    BY DEF StillThere
  <2>1. made'[q][m] = made[q][m] /\ Head(made[q][m]) = q /\ Ends(made[q][m], method[m])
    BY <1>4 DEF BridgeInv, StillThere
  <2>2. CASE m = n
    <3>1. q # o /\ Head(made[o][n]) = o
      BY <1>1, <1>2, <1>4, <2>2 DEF BridgeInv, StillThere
    <3>2. made[q][n] # method[n]
      BY <1>2, <2>1, <2>2, <3>1
    <3> QED BY <1>1, <1>3, <2>1, <2>2, <3>2, EndsUnwrapped
  <2>3. CASE m # n
    BY <1>3, <2>1, <2>3
  <2> QED BY <2>2, <2>3
<1>7. BothOrNone'
  BY <1>1, <1>4 DEF BothOrNone, BridgeInv, Plugins
<1> QED BY <1>5, <1>6, <1>7 DEF BridgeInv

(***************************************************************************)
(* Bridges and other plugins come and go without taking a wrapper off that *)
(* somebody else still uses.                                               *)
(***************************************************************************)
THEOREM WrappersStay == GateSpec => []OthersStayWrapped
<1>1. BridgeInv => OthersStayWrapped
  BY SuffixEnds DEF BridgeInv, BridgeTyped, StillThere, OthersStayWrapped, Plugins
<1>2. BridgeInv /\ [GateNext]_gate => BridgeInv'
  <2> SUFFICES ASSUME BridgeInv, [GateNext]_gate PROVE BridgeInv'
    OBVIOUS
  <2>1. CASE BridgeNext
    BY <2>1, InstallStep, DisposeStep, WrapStep, UnwrapStep DEF BridgeNext
  <2>2. CASE UNCHANGED bridgeVars
    BY <2>2 DEF bridgeVars, BridgeInv, BridgeTyped, StillThere, BothOrNone, Ends
  <2> QED BY <2>1, <2>2, OnePartSteps
<1> QED BY BridgeStart, <1>1, <1>2, PTL DEF GateSpec

-----------------------------------------------------------------------------
(***************************************************************************)
(* The limiter.  First what its operators do to a list of attempts.        *)
(***************************************************************************)
Older(s, now) == \A i \in DOMAIN s : s[i] <= now - Window

\* A bucket's list `s` holds all of the attempts `a` that are in the window.
Covers(s, a, now) ==
  Ends(s, a) /\ \A i \in 1..(Len(a) - Len(s)) : a[i] <= now - Window

Below == {p \in Nat \X Nat : p[1] < p[2]}

(* Every non-empty set of places has a first one.                          *)
LEMMA FirstPlace ==
  ASSUME NEW T, T \subseteq Nat, T # {}
  PROVE  \E t \in T : \A u \in T : t <= u
<1>1. IsWellFoundedOn(OpToRel(<, Nat), Nat) /\ OpToRel(<, Nat) = Below
  BY NatLessThanWellFounded DEF OpToRel, Below
<1>2. PICK t \in T : \A u \in T : <<u, t>> \notin Below
  BY <1>1, WFMin
<1>3. ASSUME NEW u \in T PROVE t <= u
  <2>1. <<u, t>> \in Nat \X Nat /\ <<u, t>>[1] = u /\ <<u, t>>[2] = t
    OBVIOUS
  <2>2. u < t => <<u, t>> \in Below
    BY <2>1 DEF Below
  <2> QED BY <1>2, <2>2
<1> QED BY <1>3

(* The first places that have a property, as far as all before them have it.  *)
LEMMA LeadingPlaces ==
  ASSUME NEW L \in Nat, NEW S \in SUBSET (1..L), \A i \in S : \A j \in 1..i : j \in S
  PROVE  Cardinality(S) \in 0..L /\ S = 1..Cardinality(S)
<1> DEFINE T == {i \in 1..(L + 1) : i \notin S}
<1>1. T # {} /\ T \subseteq Nat
  <2>1. L + 1 \in T
    OBVIOUS
  <2> QED BY <2>1
<1>2. PICK m \in T : \A u \in T : m <= u
  <2> HIDE DEF T
  <2> QED BY <1>1, FirstPlace
<1>3. \A u \in T : m <= u
  BY <1>2
<1>4. m \in 1..(L + 1) /\ m \notin S
  BY <1>2
<1>5. S = 1..(m - 1)
  <2>1. ASSUME NEW i \in S PROVE i \in 1..(m - 1)
    <3>1. ~(m <= i)
      BY <1>4
    <3> QED BY <1>4, <3>1
  <2>2. ASSUME NEW i \in 1..(m - 1) PROVE i \in S
    BY <1>3, <1>4
  <2> QED BY <2>1, <2>2
<1>6. Cardinality(1..(m - 1)) = m - 1
  <2>1. 1 \in Int /\ m - 1 \in Int
    BY <1>4
  <2>2. Cardinality(1..(m - 1)) = IF 1 > m - 1 THEN 0 ELSE (m - 1) - 1 + 1
    BY <2>1, FS_Interval
  <2> QED BY <1>4, <2>2
<1> QED BY <1>4, <1>5, <1>6

(* InWindow() drops attempts from the front, and only outdated ones.       *)
LEMMA InWindowDrops ==
  ASSUME NEW s \in Seq(Nat), NEW now \in Int
  PROVE  /\ InWindow(s, now) \in Seq(Nat) /\ Covers(InWindow(s, now), s, now)
         /\ Older(s, now) => InWindow(s, now) = <<>>
<1> DEFINE S == {i \in 1..Len(s) : \A j \in 1..i : s[j] <= now - Window}
           n == Cardinality(S)
<1>1. Len(s) \in Nat /\ \A i \in 1..Len(s) : s[i] \in Nat
  OBVIOUS
<1>2. n \in 0..Len(s) /\ S = 1..n
  <2>1. \A i \in S : \A j \in 1..i : j \in S
    <3> SUFFICES ASSUME NEW i \in S, NEW j \in 1..i PROVE j \in S
      OBVIOUS
    <3>1. j \in 1..Len(s) /\ \A h \in 1..j : h \in 1..i
      BY <1>1
    <3> QED BY <3>1
  <2>2. S \in SUBSET (1..Len(s))
    OBVIOUS
  <2> HIDE DEF S
  <2> QED BY <1>1, <2>1, <2>2, LeadingPlaces
<1>3. \A i \in 1..n : s[i] <= now - Window
  <2> SUFFICES ASSUME NEW i \in 1..n PROVE s[i] <= now - Window
    OBVIOUS
  <2>1. i \in S /\ i \in 1..i
    BY <1>1, <1>2
  <2> QED BY <2>1
<1>4. InWindow(s, now) = SubSeq(s, n + 1, Len(s))
  BY DEF InWindow
<1> HIDE DEF n
<1>5. /\ SubSeq(s, n + 1, Len(s)) \in Seq(Nat) /\ Len(SubSeq(s, n + 1, Len(s))) = Len(s) - n
      /\ \A i \in 1..(Len(s) - n) : SubSeq(s, n + 1, Len(s))[i] = s[n + i]
  BY <1>1, <1>2
<1>6. Covers(InWindow(s, now), s, now)
  <2> DEFINE r == InWindow(s, now)
  <2>1. Len(r) = Len(s) - n /\ Len(s) - Len(r) = n /\ Len(r) <= Len(s)
    BY <1>1, <1>2, <1>4, <1>5
  <2>2. \A i \in 1..Len(r) : r[i] = s[n + i]
    BY <1>4, <1>5, <2>1
  <2> HIDE DEF r
  <2>3. \A i \in 1..Len(r) : n + i = i + (Len(s) - Len(r))
    <3>1. n \in Nat /\ Len(r) \in Nat
      BY <1>1, <1>2, <2>1
    <3> QED BY <2>1, <3>1
  <2>4. Covers(r, s, now)
    BY <1>3, <2>1, <2>2, <2>3 DEF Covers, Ends
  <2> QED BY <2>4 DEF r
<1>7. ASSUME Older(s, now) PROVE InWindow(s, now) = <<>>
  <2>1. S = 1..Len(s)
    <3>1. \A i \in 1..Len(s) : \A j \in 1..i : j \in 1..Len(s)
      BY <1>1
    <3> QED BY <1>7, <3>1 DEF Older
  <2>2. n = Len(s)
    <3>1. Len(s) \in 1..n \/ Len(s) = 0
      BY <1>1, <1>2, <2>1
    <3> QED BY <1>1, <1>2, <3>1
  <2> QED BY <1>1, <1>4, <1>5, <2>2
<1> QED BY <1>4, <1>5, <1>6, <1>7

(* What covers a list that covers another one covers that.                 *)
LEMMA CoversThrough ==
  ASSUME NEW r \in Seq(Nat), NEW s \in Seq(Nat), NEW a \in Seq(Nat), NEW now \in Int,
         Covers(r, s, now), Covers(s, a, now)
  PROVE  Covers(r, a, now)
<1>1. Len(r) \in Nat /\ Len(s) \in Nat /\ Len(a) \in Nat /\ Len(r) <= Len(s) /\ Len(s) <= Len(a)
  BY DEF Covers, Ends
<1>2. ASSUME NEW i \in 1..Len(r) PROVE r[i] = a[i + (Len(a) - Len(r))]
  <2> DEFINE j == i + (Len(s) - Len(r))
  <2>1. j \in 1..Len(s) /\ j + (Len(a) - Len(s)) = i + (Len(a) - Len(r))
    BY <1>1
  <2>2. r[i] = s[j] /\ s[j] = a[j + (Len(a) - Len(s))]
    BY <2>1 DEF Covers, Ends
  <2> QED BY <2>1, <2>2
<1>3. ASSUME NEW i \in 1..(Len(a) - Len(r)) PROVE a[i] <= now - Window
  <2>1. CASE i \in 1..(Len(a) - Len(s))
    BY <2>1 DEF Covers
  <2>2. CASE i \notin 1..(Len(a) - Len(s))
    <3> DEFINE j == i - (Len(a) - Len(s))
    <3>1. j \in 1..Len(s) /\ j \in 1..(Len(s) - Len(r)) /\ j + (Len(a) - Len(s)) = i
      BY <1>1, <2>2
    <3>2. s[j] = a[i] /\ s[j] <= now - Window
      BY <3>1 DEF Covers, Ends
    <3> QED BY <3>2
  <2> QED BY <2>1, <2>2
<1> QED BY <1>1, <1>2, <1>3 DEF Covers, Ends

(* An attempt at the end of both.                                          *)
LEMMA CoversAppended ==
  ASSUME NEW s \in Seq(Nat), NEW a \in Seq(Nat), NEW now \in Nat, Covers(s, a, now)
  PROVE  Covers(Append(s, now), Append(a, now), now)
<1>1. /\ Len(s) \in Nat /\ Len(a) \in Nat /\ Len(s) <= Len(a)
      /\ Len(Append(s, now)) = Len(s) + 1 /\ Len(Append(a, now)) = Len(a) + 1
      /\ \A i \in 1..Len(s) : Append(s, now)[i] = s[i]
      /\ \A i \in 1..Len(a) : Append(a, now)[i] = a[i]
      /\ Append(s, now)[Len(s) + 1] = now /\ Append(a, now)[Len(a) + 1] = now
  BY DEF Covers, Ends
<1>2. ASSUME NEW i \in 1..(Len(s) + 1)
      PROVE  Append(s, now)[i] = Append(a, now)[i + (Len(a) - Len(s))]
  <2>1. CASE i = Len(s) + 1
    <3>1. i + (Len(a) - Len(s)) = Len(a) + 1
      BY <1>1, <2>1
    <3> QED BY <1>1, <2>1, <3>1
  <2>2. CASE i # Len(s) + 1
    <3>1. i \in 1..Len(s) /\ i + (Len(a) - Len(s)) \in 1..Len(a)
      BY <1>1, <2>2
    <3> QED BY <1>1, <3>1 DEF Covers, Ends
  <2> QED BY <2>1, <2>2
<1>3. /\ Len(Append(a, now)) - Len(Append(s, now)) = Len(a) - Len(s)
      /\ Len(Append(s, now)) <= Len(Append(a, now))
      /\ \A i \in 1..(Len(a) - Len(s)) : i \in 1..Len(a)
  BY <1>1
<1>4. \A i \in 1..(Len(a) - Len(s)) : Append(a, now)[i] <= now - Window
  BY <1>1, <1>3 DEF Covers
<1>5. \A i \in 1..Len(Append(s, now)) :
        Append(s, now)[i] = Append(a, now)[i + (Len(Append(a, now)) - Len(Append(s, now)))]
  BY <1>1, <1>2, <1>3
<1> QED BY <1>3, <1>4, <1>5 DEF Covers, Ends

(* A list that is covered stays so as time passes.                         *)
LEMMA CoversLater ==
  ASSUME NEW s \in Seq(Nat), NEW a \in Seq(Nat), NEW now \in Nat, Covers(s, a, now)
  PROVE  Covers(s, a, now + 1)
<1>1. \A i \in 1..(Len(a) - Len(s)) : a[i] \in Nat /\ a[i] <= now - Window
  BY DEF Covers, Ends
<1> QED BY <1>1, LimiterAssumption DEF Covers

(***************************************************************************)
(* What the limiter knows of one key.  `a` are its admitted attempts, of   *)
(* which a bucket's list `s` holds those in the window; `d` is its denial. *)
(***************************************************************************)
Spaced(a) == \A i \in 1..Len(a) : i + MaxAttempts \in 1..Len(a) => a[i + MaxAttempts] - a[i] >= Window

Past(a, now) ==
  /\ \A i \in 1..Len(a) : a[i] <= now
  /\ \A i, j \in 1..Len(a) : i <= j => a[i] <= a[j]

KeptAttempts(s, a, now) ==
  /\ s \in Seq(Nat) /\ a \in Seq(Nat) /\ now \in Nat
  /\ Past(a, now) /\ Spaced(a) /\ Covers(s, a, now)

\* The attempts of a bucket were made before its block began.
BeforeBlock(bucket) ==
  \A i \in 1..Len(bucket.attempts) : bucket.attempts[i] <= bucket.blockedUntil - Block

IsBucket(bucket) == bucket \in [attempts: Seq(Nat), blockedUntil: Nat]

Known(bucket, a, d, now) ==
  /\ IsBucket(bucket) /\ KeptAttempts(bucket.attempts, a, now) /\ d.until \in Nat
  /\ bucket.blockedUntil > now => BeforeBlock(bucket)
  /\ d.blocked => /\ bucket.blockedUntil <= d.until /\ d.until < bucket.blockedUntil + Second
                  /\ BeforeBlock(bucket)

Unknown(a, d, now) ==
  /\ KeptAttempts(<<>>, a, now) /\ d.until \in Nat
  /\ d.blocked => d.until < now + Second

(* Time passes.                                                            *)
LEMMA KnownLater ==
  ASSUME NEW bucket, NEW a, NEW d, NEW now \in Nat, Known(bucket, a, d, now)
  PROVE  Known(bucket, a, d, now + 1)
<1>1. Covers(bucket.attempts, a, now + 1)
  BY CoversLater DEF Known, KeptAttempts
<1>2. a \in Seq(Nat) /\ Past(a, now)
  BY DEF Known, KeptAttempts
<1>3. Past(a, now + 1)
  BY <1>2 DEF Past
<1>4. bucket.blockedUntil > now + 1 => bucket.blockedUntil > now
  BY DEF Known, IsBucket
<1> QED BY <1>1, <1>3, <1>4 DEF Known, KeptAttempts

(* The same of a key that has no bucket.                                   *)
LEMMA UnknownLater ==
  ASSUME NEW a, NEW d, NEW now \in Nat, Unknown(a, d, now)
  PROVE  Unknown(a, d, now + 1)
<1>1. Covers(<<>>, a, now + 1)
  BY CoversLater DEF Unknown, KeptAttempts
<1>2. a \in Seq(Nat) /\ Past(a, now)
  BY DEF Unknown, KeptAttempts
<1>3. Past(a, now + 1)
  BY <1>2 DEF Past
<1>4. d.blocked => d.until < (now + 1) + Second
  BY LimiterAssumption DEF Unknown
<1> QED BY <1>1, <1>3, <1>4 DEF Unknown, KeptAttempts

(* Nothing is known of a key that was never seen, or that was reset.       *)
LEMMA UnknownAtFirst ==
  ASSUME NEW now \in Nat
  PROVE  Unknown(<<>>, NotDenied, now)
BY DEF Unknown, KeptAttempts, Past, Spaced, Covers, Ends, NotDenied

(***************************************************************************)
(* pruneBuckets(): the last attempt of an outdated bucket is the key's     *)
(* last, so that all of them are out of the window.                        *)
(***************************************************************************)
LEMMA PrunedUnknown ==
  ASSUME NEW bucket, NEW a, NEW d, NEW now \in Nat, Known(bucket, a, d, now), Outdated(bucket, now)
  PROVE  Unknown(a, d, now)
<1> DEFINE s == bucket.attempts
<1>1. s \in Seq(Nat) /\ a \in Seq(Nat) /\ Len(s) \in Nat /\ Len(a) \in Nat /\ Covers(s, a, now) /\ Past(a, now)
  BY DEF Known, KeptAttempts
<1>2. \A i \in 1..Len(a) : a[i] <= now - Window
  <2>1. CASE s = <<>>
    <3>1. Len(a) - Len(s) = Len(a)
      BY <1>1, <2>1
    <3> QED BY <1>1, <3>1 DEF Covers
  <2>2. CASE s # <<>>
    <3>1. Len(s) \in 1..Len(s) /\ Len(s) + (Len(a) - Len(s)) = Len(a) /\ Len(a) \in 1..Len(a)
      BY <1>1, <2>2 DEF Covers, Ends
    <3>2. s[Len(s)] = a[Len(a)] /\ s[Len(s)] <= now - Window
      BY <1>1, <2>2, <3>1 DEF Covers, Ends, Outdated, LastAttempt
    <3>3. \A i \in 1..Len(a) : a[i] \in Nat /\ i <= Len(a) /\ a[i] <= a[Len(a)]
      BY <1>1, <3>1 DEF Past
    <3> HIDE DEF s
    <3>4. a[Len(a)] \in Nat /\ a[Len(a)] <= now - Window /\ now - Window \in Int
      BY <3>1, <3>2, <3>3, LimiterAssumption
    <3> QED BY ONLY <3>3, <3>4
  <2> QED BY <2>1, <2>2
<1>3. Covers(<<>>, a, now)
  <2>1. Len(<<>>) = 0 /\ Len(a) - Len(<<>>) = Len(a) /\ 1..0 = {}
    BY <1>1
  <2> QED BY <1>1, <1>2, <2>1 DEF Covers, Ends
<1>4. d.blocked => d.until < now + Second
  BY LimiterAssumption DEF Known, Outdated, IsBucket
<1> QED BY <1>3, <1>4 DEF Known, Unknown, KeptAttempts

(* Seconds() rounds up.                                                    *)
LEMMA SecondsRoundUp ==
  ASSUME NEW x \in Nat, x > 0
  PROVE  /\ Seconds(x) \in Nat /\ AtLeastOne(Seconds(x)) = Seconds(x)
         /\ x <= Seconds(x) * Second /\ Seconds(x) * Second < x + Second
<1> DEFINE y == x + Second - 1
           q == y \div Second
<1>1. Second \in Nat /\ Second > 0 /\ y \in Nat
  BY LimiterAssumption
<1> HIDE DEF y
<1>2. q \in Nat /\ Second * q <= y /\ y < Second * (q + 1)
  BY <1>1
<1> HIDE DEF q
<1>3. Second * (q + 1) = Second * q + Second /\ Second * q = q * Second /\ q * Second \in Nat
  BY <1>1, <1>2
<1>4. x <= q * Second /\ q * Second < x + Second
  BY <1>1, <1>2, <1>3 DEF y
<1>5. q # 0
  <2>1. 0 * Second = 0
    BY <1>1
  <2> QED BY <1>4, <2>1
<1>6. Seconds(x) = q
  BY DEF Seconds, q, y
<1> QED BY <1>2, <1>4, <1>5, <1>6 DEF AtLeastOne

(* consume() of a key whose block is running.                              *)
LEMMA KnownRefused ==
  ASSUME NEW bucket, NEW a, NEW d, NEW now \in Nat, NEW e,
         Known(bucket, a, d, now), bucket.blockedUntil > now,
         e.until = now + AtLeastOne(Seconds(bucket.blockedUntil - now)) * Second
  PROVE  Known(bucket, a, e, now)
<1> DEFINE x == bucket.blockedUntil - now
<1>1. x \in Nat /\ x > 0 /\ bucket.blockedUntil = now + x /\ BeforeBlock(bucket)
  BY DEF Known, IsBucket
<1> HIDE DEF x
<1>2. /\ Seconds(x) \in Nat /\ x <= Seconds(x) * Second /\ Seconds(x) * Second < x + Second
      /\ AtLeastOne(Seconds(x)) = Seconds(x)
  BY <1>1, SecondsRoundUp
<1>3. e.until = now + Seconds(x) * Second
  BY <1>2 DEF x
<1>4. Seconds(x) * Second \in Nat
  BY <1>2, LimiterAssumption
<1> HIDE DEF x
<1>5. e.until \in Nat /\ bucket.blockedUntil <= e.until /\ e.until < bucket.blockedUntil + Second
  BY <1>1, <1>2, <1>3, <1>4, LimiterAssumption
<1> QED BY <1>1, <1>5 DEF Known

(* A key that was seen is pushed aside when the map is full.               *)
LEMMA UnknownRefused ==
  ASSUME NEW a, NEW d, NEW now \in Nat, NEW e, Unknown(a, d, now), ~e.blocked, e.until \in Nat
  PROVE  Unknown(a, e, now)
BY DEF Unknown

(* consume() of a key that has spent its attempts blocks it from now on.   *)
LEMMA KnownSpent ==
  ASSUME NEW bucket, NEW a, NEW d, NEW now \in Nat, NEW e, Known(bucket, a, d, now),
         e.until = now + AtLeastOne(Seconds(Block)) * Second
  PROVE  Known([attempts |-> InWindow(bucket.attempts, now), blockedUntil |-> now + Block], a, e, now)
<1> DEFINE s == bucket.attempts
           r == InWindow(s, now)
           new == [attempts |-> r, blockedUntil |-> now + Block]
<1>1. s \in Seq(Nat) /\ a \in Seq(Nat) /\ Covers(s, a, now) /\ Past(a, now) /\ Block \in Nat /\ Block > 0
  BY LimiterAssumption DEF Known, KeptAttempts
<1>2. r \in Seq(Nat) /\ Covers(r, s, now)
  BY <1>1, InWindowDrops
<1> HIDE DEF r
<1>3. Covers(r, a, now)
  BY <1>1, <1>2, CoversThrough
<1>4. ASSUME NEW i \in 1..Len(r) PROVE r[i] <= (now + Block) - Block
  <2>1. i + (Len(a) - Len(r)) \in 1..Len(a) /\ r[i] = a[i + (Len(a) - Len(r))] /\ r[i] \in Nat
    <3>1. Len(r) \in Nat /\ Len(a) \in Nat /\ Len(r) <= Len(a) /\ r[i] \in Nat
      <4>1. Len(r) \in Nat /\ r[i] \in Nat
        BY <1>2
      <4>2. Len(r) <= Len(a)
        BY <1>3 DEF Covers, Ends
      <4> QED BY <1>1, <4>1, <4>2
    <3>2. i + (Len(a) - Len(r)) \in 1..Len(a)
      BY <3>1
    <3> QED BY <1>3, <3>1, <3>2 DEF Covers, Ends
  <2>2. r[i] <= now
    BY <1>1, <2>1 DEF Past
  <2>3. (now + Block) - Block = now
    BY <1>1
  <2> QED BY <2>2, <2>3
<1>5. /\ Seconds(Block) \in Nat /\ Block <= Seconds(Block) * Second
      /\ Seconds(Block) * Second < Block + Second /\ AtLeastOne(Seconds(Block)) = Seconds(Block)
  BY <1>1, SecondsRoundUp
<1>6. Seconds(Block) * Second \in Nat /\ e.until = now + Seconds(Block) * Second
  BY <1>5, LimiterAssumption
<1>7. e.until \in Nat /\ now + Block <= e.until /\ e.until < (now + Block) + Second
  <2> DEFINE z == Seconds(Block) * Second
  <2>1. z \in Nat /\ Block <= z /\ z < Block + Second /\ e.until = now + z
    BY <1>5, <1>6
  <2> HIDE DEF z
  <2> QED BY <1>1, <2>1, LimiterAssumption
<1>8. new.attempts = r /\ new.blockedUntil = now + Block /\ IsBucket(new)
  BY <1>1, <1>2 DEF IsBucket
<1> HIDE DEF new
<1>9. KeptAttempts(r, a, now)
  BY <1>2, <1>3 DEF Known, KeptAttempts
<1>10. BeforeBlock(new)
  BY <1>4, <1>8 DEF BeforeBlock
<1>11. Known(new, a, e, now)
  BY <1>7, <1>8, <1>9, <1>10 DEF Known
<1> QED BY <1>11 DEF new, r

(***************************************************************************)
(* An attempt is admitted while fewer than MaxAttempts of the list are in  *)
(* the window: the one MaxAttempts before it is out of it.                 *)
(***************************************************************************)
LEMMA AdmissionSpaced ==
  ASSUME NEW s, NEW a, NEW now \in Nat, KeptAttempts(s, a, now),
         ~(Len(InWindow(s, now)) >= MaxAttempts)
  PROVE  KeptAttempts(Append(InWindow(s, now), now), Append(a, now), now)
<1> DEFINE r == InWindow(s, now)
           b == Append(a, now)
<1>1. s \in Seq(Nat) /\ a \in Seq(Nat) /\ Covers(s, a, now) /\ Past(a, now) /\ Spaced(a)
  BY DEF KeptAttempts
<1>2. r \in Seq(Nat) /\ Covers(r, s, now)
  BY <1>1, InWindowDrops
<1>3. Len(r) \in Nat /\ Len(r) < MaxAttempts
  BY <1>2, LimiterAssumption
<1> HIDE DEF r
<1>4. Covers(r, a, now)
  BY <1>1, <1>2, CoversThrough
<1>5. Covers(Append(r, now), b, now)
  BY <1>1, <1>2, <1>4, CoversAppended
<1>6. /\ Len(a) \in Nat /\ Len(r) <= Len(a) /\ b \in Seq(Nat) /\ Len(b) = Len(a) + 1
      /\ b[Len(a) + 1] = now /\ \A i \in 1..Len(a) : b[i] = a[i] /\ a[i] \in Nat /\ a[i] <= now
  BY <1>1, <1>4 DEF Covers, Ends, Past
<1> HIDE DEF b
<1>7. Past(b, now)
  <2>1. \A i \in 1..Len(b) : b[i] <= now
    BY <1>6
  <2>2. ASSUME NEW i \in 1..Len(b), NEW j \in 1..Len(b), i <= j PROVE b[i] <= b[j]
    <3>1. CASE j = Len(a) + 1
      BY <1>6, <2>1, <3>1
    <3>2. CASE j # Len(a) + 1
      <4>1. i \in 1..Len(a) /\ j \in 1..Len(a)
        BY <1>6, <2>2, <3>2
      <4> QED BY <1>1, <1>6, <2>2, <4>1 DEF Past
    <3> QED BY <3>1, <3>2
  <2> QED BY <2>1, <2>2 DEF Past
<1>8. Spaced(b)
  <2> SUFFICES ASSUME NEW i \in 1..Len(b), i + MaxAttempts \in 1..Len(b)
               PROVE  b[i + MaxAttempts] - b[i] >= Window
    BY DEF Spaced
  <2>1. MaxAttempts \in Nat /\ MaxAttempts > 0 /\ Window \in Nat
    BY LimiterAssumption
  <2>2. i \in 1..Len(a)
    BY <1>6, <2>1
  <2>3. CASE i + MaxAttempts = Len(a) + 1
    <3>1. i \in 1..(Len(a) - Len(r))
      BY <1>3, <1>6, <2>1, <2>2, <2>3
    <3>2. a[i] <= now - Window
      BY <1>4, <3>1 DEF Covers
    <3> QED BY <1>6, <2>1, <2>2, <2>3, <3>2
  <2>4. CASE i + MaxAttempts # Len(a) + 1
    <3> DEFINE m == i + MaxAttempts
    <3>1. m \in 1..Len(a)
      <4>1. m \in 1..Len(b) /\ m # Len(a) + 1
        BY <2>4
      <4> HIDE DEF m
      <4> QED BY ONLY <1>6, <4>1
    <3> QED BY <1>1, <1>6, <2>2, <3>1 DEF Spaced
  <2> QED BY <2>3, <2>4
<1>9. Append(r, now) \in Seq(Nat)
  BY <1>2
<1>10. KeptAttempts(Append(r, now), b, now)
  BY <1>5, <1>6, <1>7, <1>8, <1>9 DEF KeptAttempts
<1> QED BY <1>10 DEF r, b

(* Admitted, the key has a bucket that is not blocked.                     *)
LEMMA KnownAdmitted ==
  ASSUME NEW s, NEW a, NEW now \in Nat, NEW until \in Nat, KeptAttempts(s, a, now), until <= now,
         ~(Len(InWindow(s, now)) >= MaxAttempts)
  PROVE  Known([attempts |-> Append(InWindow(s, now), now), blockedUntil |-> until],
               Append(a, now), NotDenied, now)
<1>1. KeptAttempts(Append(InWindow(s, now), now), Append(a, now), now)
  BY AdmissionSpaced
<1> DEFINE t == Append(InWindow(s, now), now)
           bucket == [attempts |-> t, blockedUntil |-> until]
<1>2. t \in Seq(Nat)
  BY <1>1 DEF KeptAttempts
<1> HIDE DEF t
<1>3. bucket.attempts = t /\ bucket.blockedUntil = until /\ IsBucket(bucket)
  BY <1>2 DEF IsBucket
<1>4. NotDenied.until = 0 /\ NotDenied.blocked = FALSE
  BY DEF NotDenied
<1> HIDE DEF bucket
<1>5. ~(bucket.blockedUntil > now)
  BY <1>3
<1>6. Known(bucket, Append(a, now), NotDenied, now)
  BY <1>1, <1>3, <1>4, <1>5 DEF Known, t
<1> QED BY <1>6 DEF bucket, t

-----------------------------------------------------------------------------
(* pruneBuckets() keeps buckets as they are, and takes the outdated ones.  *)
LEMMA PrunedBuckets ==
  ASSUME NEW b, NEW now
  PROVE  /\ DOMAIN PruneBuckets(b, now) \subseteq DOMAIN b
         /\ \A k \in DOMAIN PruneBuckets(b, now) :
              PruneBuckets(b, now)[k] = b[k] /\ ~Outdated(b[k], now)
         /\ \A k \in DOMAIN b \ DOMAIN PruneBuckets(b, now) : Outdated(b[k], now)
BY DEF PruneBuckets, Restrict

(***************************************************************************)
(* What consume() does, by the answers it gives.                           *)
(***************************************************************************)
SpentBucket(bucket, now) ==
  [attempts |-> InWindow(bucket.attempts, now), blockedUntil |-> now + Block]

AdmittedBucket(bucket, now) ==
  [attempts |-> Append(InWindow(bucket.attempts, now), now), blockedUntil |-> bucket.blockedUntil]

ConsumeRefuses(b, key, now) ==
  /\ key \notin DOMAIN PruneBuckets(b, now)
  /\ RetryAfter(b, key, now) \in Nat \ {0} /\ Consumed(b, key, now) = PruneBuckets(b, now)

ConsumeBlocked(b, key, now) ==
  /\ key \in DOMAIN PruneBuckets(b, now) /\ b[key].blockedUntil > now
  /\ RetryAfter(b, key, now) = AtLeastOne(Seconds(b[key].blockedUntil - now))
  /\ Consumed(b, key, now) = PruneBuckets(b, now)

ConsumeBlocks(b, key, now) ==
  /\ key \in DOMAIN PruneBuckets(b, now)
  /\ RetryAfter(b, key, now) = AtLeastOne(Seconds(Block))
  /\ Consumed(b, key, now) = Put(PruneBuckets(b, now), key, SpentBucket(b[key], now))

ConsumeAdmits(b, key, now) ==
  LET bucket == Bucket(PruneBuckets(b, now), key)
  IN  /\ key \in DOMAIN PruneBuckets(b, now) =>
           bucket.blockedUntil <= now /\ ~Spent(bucket, now)
      /\ RetryAfter(b, key, now) = 0
      /\ Consumed(b, key, now) = Put(PruneBuckets(b, now), key, AdmittedBucket(bucket, now))

(* Every call of consume() is one of the four.                             *)
LEMMA ConsumeCases ==
  ASSUME NEW b, IsBuckets(b), NEW key \in Keys, NEW now \in Nat
  PROVE  \/ ConsumeRefuses(b, key, now) \/ ConsumeBlocked(b, key, now)
         \/ ConsumeBlocks(b, key, now) \/ ConsumeAdmits(b, key, now)
<1> DEFINE p == PruneBuckets(b, now)
           bucket == Bucket(p, key)
<1>1. key \in DOMAIN p => bucket = b[key] /\ b[key] \in [attempts: Seq(Nat), blockedUntil: Nat]
  BY PrunedBuckets DEF Bucket, IsBuckets
<1>2. CASE key \notin DOMAIN p /\ Crowded(p)
  <2>1. Seconds(Window) \in Nat \ {0}
    <3>1. Window \in Nat /\ Window > 0
      BY LimiterAssumption
    <3>2. Seconds(Window) \in Nat /\ AtLeastOne(Seconds(Window)) = Seconds(Window)
      BY <3>1, SecondsRoundUp
    <3> QED BY <3>2 DEF AtLeastOne
  <2>2. RetryAfter(b, key, now) = Seconds(Window) /\ Consumed(b, key, now) = p
    BY <1>2 DEF RetryAfter, Consumed
  <2> QED BY <1>2, <2>1, <2>2 DEF ConsumeRefuses
<1>3. CASE key \in DOMAIN p /\ bucket.blockedUntil > now
  <2>1. /\ RetryAfter(b, key, now) = AtLeastOne(Seconds(bucket.blockedUntil - now))
        /\ Consumed(b, key, now) = p
    BY <1>1, <1>3 DEF RetryAfter, Consumed
  <2> QED BY <1>1, <1>3, <2>1 DEF ConsumeBlocked
<1>4. CASE key \in DOMAIN p /\ bucket.blockedUntil <= now /\ Spent(bucket, now)
  <2>1. ~(bucket.blockedUntil > now)
    BY <1>1, <1>4
  <2>2. /\ RetryAfter(b, key, now) = AtLeastOne(Seconds(Block))
        /\ Consumed(b, key, now) =
             Put(p, key, [attempts |-> InWindow(bucket.attempts, now), blockedUntil |-> now + Block])
    BY <1>4, <2>1 DEF RetryAfter, Consumed
  <2> QED BY <1>1, <1>4, <2>2 DEF ConsumeBlocks, SpentBucket
<1>5. CASE /\ ~(key \notin DOMAIN p /\ Crowded(p))
           /\ ~(key \in DOMAIN p /\ bucket.blockedUntil > now)
           /\ ~(key \in DOMAIN p /\ bucket.blockedUntil <= now /\ Spent(bucket, now))
  <2>1. /\ RetryAfter(b, key, now) = 0
        /\ Consumed(b, key, now) =
             Put(p, key, [bucket EXCEPT !.attempts = Append(InWindow(bucket.attempts, now), now)])
    BY <1>5 DEF RetryAfter, Consumed
  <2>2. bucket \in [attempts: Seq(Nat), blockedUntil: Nat] \/ bucket = Fresh
    BY <1>1 DEF Bucket
  <2>3. [bucket EXCEPT !.attempts = Append(InWindow(bucket.attempts, now), now)] =
          AdmittedBucket(bucket, now)
    <3> DEFINE t == Append(InWindow(bucket.attempts, now), now)
    <3>1. [bucket EXCEPT !.attempts = t] = [attempts |-> t, blockedUntil |-> bucket.blockedUntil]
      <4> HIDE DEF t, bucket
      <4> QED BY <2>2 DEF Fresh
    <3> QED BY <3>1 DEF AdmittedBucket
  <2>4. key \in DOMAIN p => bucket.blockedUntil <= now /\ ~Spent(bucket, now)
    BY <1>1, <1>5
  <2> QED BY <2>1, <2>3, <2>4 DEF ConsumeAdmits
<1> QED BY <1>2, <1>3, <1>4, <1>5

(***************************************************************************)
(* The inductive invariant: what is known of each key.                     *)
(***************************************************************************)
KeyInv(k) ==
  IF k \in DOMAIN buckets THEN Known(buckets[k], admitted[k], denied[k], clock)
                          ELSE Unknown(admitted[k], denied[k], clock)

LimiterInv ==
  /\ DOMAIN buckets \subseteq Keys /\ DOMAIN admitted = Keys /\ DOMAIN denied = Keys
  /\ admitted = [k \in Keys |-> admitted[k]] /\ denied = [k \in Keys |-> denied[k]]
  /\ clock \in Nat /\ \A k \in Keys : KeyInv(k)

(* The map is well formed.                                                 *)
LEMMA LimiterInvBuckets == LimiterInv => IsBuckets(buckets)
<1> SUFFICES ASSUME LimiterInv PROVE IsBuckets(buckets)
  OBVIOUS
<1>1. \A k \in DOMAIN buckets : IsBucket(buckets[k])
  BY DEF LimiterInv, KeyInv, Known
<1> QED BY <1>1 DEF LimiterInv, IsBuckets, IsBucket

(* Pruned, a key is as well known as before.                               *)
LEMMA PrunedKnowledge ==
  ASSUME LimiterInv, NEW k \in Keys
  PROVE  IF k \in DOMAIN PruneBuckets(buckets, clock)
         THEN Known(buckets[k], admitted[k], denied[k], clock)
         ELSE Unknown(admitted[k], denied[k], clock)
<1>1. KeyInv(k) /\ clock \in Nat
  BY DEF LimiterInv
<1>2. CASE k \in DOMAIN PruneBuckets(buckets, clock)
  BY <1>1, <1>2, PrunedBuckets DEF KeyInv
<1>3. CASE k \in DOMAIN buckets \ DOMAIN PruneBuckets(buckets, clock)
  <2>1. Outdated(buckets[k], clock) /\ Known(buckets[k], admitted[k], denied[k], clock)
    BY <1>1, <1>3, PrunedBuckets DEF KeyInv
  <2> QED BY <1>1, <1>3, <2>1, PrunedUnknown
<1>4. CASE k \notin DOMAIN buckets
  BY <1>1, <1>4, PrunedBuckets DEF KeyInv
<1> QED BY <1>2, <1>3, <1>4

(* consume() keeps the invariant, of its own key and of the others.        *)
LEMMA ConsumeStep ==
  ASSUME LimiterInv, NEW key \in Keys, Consume(key), clock' = clock
  PROVE  LimiterInv'
<1> DEFINE p == PruneBuckets(buckets, clock)
           retry == RetryAfter(buckets, key, clock)
           blocked == [blocked |-> key \in DOMAIN buckets', until |-> clock + retry * Second]
<1>1. /\ buckets' = Consumed(buckets, key, clock)
      /\ DOMAIN p \subseteq DOMAIN buckets /\ \A k \in DOMAIN p : p[k] = buckets[k]
      /\ DOMAIN buckets \subseteq Keys /\ clock \in Nat /\ Second \in Nat
  BY PrunedBuckets, LimiterAssumption DEF Consume, LimiterInv
<1>2. /\ retry = 0 => /\ admitted' = [admitted EXCEPT ![key] = Append(admitted[key], clock)]
                      /\ denied' = [denied EXCEPT ![key] = NotDenied]
      /\ retry # 0 => /\ admitted' = admitted
                      /\ denied' = [denied EXCEPT ![key] = blocked]
  BY DEF Consume
<1>3. /\ DOMAIN admitted = Keys /\ DOMAIN denied = Keys
      /\ admitted = [k \in Keys |-> admitted[k]] /\ denied = [k \in Keys |-> denied[k]]
  BY DEF LimiterInv
<1>4. \A k \in Keys : IF k \in DOMAIN p THEN Known(p[k], admitted[k], denied[k], clock)
                                        ELSE Unknown(admitted[k], denied[k], clock)
  BY <1>1, PrunedKnowledge
<1>5. /\ ConsumeRefuses(buckets, key, clock) \/ ConsumeBlocked(buckets, key, clock)
         \/ ConsumeBlocks(buckets, key, clock) \/ ConsumeAdmits(buckets, key, clock)
  BY <1>1, LimiterInvBuckets, ConsumeCases
<1> HIDE DEF p, retry, blocked
<1>6. /\ DOMAIN admitted' = Keys /\ DOMAIN denied' = Keys
      /\ admitted' = [k \in Keys |-> admitted'[k]] /\ denied' = [k \in Keys |-> denied'[k]]
      /\ \A k \in Keys \ {key} : admitted'[k] = admitted[k] /\ denied'[k] = denied[k]
  BY <1>2, <1>3
<1>7. /\ retry = 0 => admitted'[key] = Append(admitted[key], clock) /\ denied'[key] = NotDenied
      /\ retry # 0 => admitted'[key] = admitted[key] /\ denied'[key] = blocked
  BY <1>2, <1>3
<1>8. /\ blocked.until = clock + retry * Second
      /\ blocked.blocked = (key \in DOMAIN buckets')
  BY DEF blocked
\* A key that makes no attempt.
<1>9. ASSUME NEW k \in Keys \ {key}, (k \in DOMAIN buckets') <=> (k \in DOMAIN p),
             k \in DOMAIN p => buckets'[k] = p[k]
      PROVE  KeyInv(k)'
  BY <1>4, <1>6, <1>9 DEF KeyInv
<1>10. CASE ConsumeRefuses(buckets, key, clock)
  <2>1. buckets' = p /\ key \notin DOMAIN p /\ retry \in Nat /\ retry # 0
    BY <1>1, <1>10 DEF ConsumeRefuses, p, retry
  <2>2. Unknown(admitted[key], denied[key], clock)
    BY <1>4, <2>1
  <2>3. blocked.until \in Nat /\ ~blocked.blocked
    <3>1. retry * Second \in Nat
      BY <1>1, <2>1
    <3>2. key \notin DOMAIN buckets'
      BY <2>1
    <3>3. blocked.until \in Nat
      BY <1>1, <1>8, <3>1
    <3>4. ~blocked.blocked
      BY ONLY <1>8, <3>2
    <3> QED BY <3>3, <3>4
  <2>4. Unknown(admitted[key], blocked, clock)
    BY <1>1, <2>2, <2>3, UnknownRefused
  <2>5. KeyInv(key)'
    BY <1>7, <2>1, <2>4 DEF KeyInv
  <2> QED BY <1>1, <1>6, <1>9, <2>1, <2>5 DEF LimiterInv
<1>11. CASE ConsumeBlocked(buckets, key, clock)
  <2>1. /\ buckets' = p /\ key \in DOMAIN p /\ p[key].blockedUntil > clock
        /\ retry = AtLeastOne(Seconds(p[key].blockedUntil - clock))
    BY <1>1, <1>11 DEF ConsumeBlocked, p, retry
  <2>2. Known(p[key], admitted[key], denied[key], clock)
    BY <1>4, <2>1
  <2>3. Known(p[key], admitted[key], blocked, clock)
    BY <1>1, <1>8, <2>1, <2>2, KnownRefused
  <2>4. retry # 0
    <3>1. p[key].blockedUntil \in Nat
      BY <2>2 DEF Known, IsBucket
    <3>2. p[key].blockedUntil - clock \in Nat /\ p[key].blockedUntil - clock > 0
      BY <1>1, <2>1, <3>1
    <3>3. Seconds(p[key].blockedUntil - clock) \in Nat
      BY <3>2, SecondsRoundUp
    <3> QED BY <2>1, <3>3 DEF AtLeastOne
  <2>5. KeyInv(key)'
    BY <1>7, <2>1, <2>3, <2>4 DEF KeyInv
  <2> QED BY <1>1, <1>6, <1>9, <2>1, <2>5 DEF LimiterInv
<1>12. CASE ConsumeBlocks(buckets, key, clock)
  <2>1. /\ buckets' = Put(p, key, SpentBucket(p[key], clock)) /\ key \in DOMAIN p
        /\ retry = AtLeastOne(Seconds(Block))
    BY <1>1, <1>12 DEF ConsumeBlocks, p, retry
  <2>2. /\ DOMAIN buckets' = DOMAIN p /\ buckets'[key] = SpentBucket(p[key], clock)
        /\ \A k \in DOMAIN p \ {key} : buckets'[k] = p[k]
    BY <2>1 DEF Put
  <2>3. Known(p[key], admitted[key], denied[key], clock)
    BY <1>4, <2>1
  <2>4. Known(SpentBucket(p[key], clock), admitted[key], blocked, clock)
    BY <1>1, <1>8, <2>1, <2>3, KnownSpent DEF SpentBucket
  <2>5. retry # 0
    <3>1. Block \in Nat /\ Block > 0
      BY LimiterAssumption
    <3>2. Seconds(Block) \in Nat
      BY <3>1, SecondsRoundUp
    <3> QED BY <2>1, <3>2 DEF AtLeastOne
  <2>6. KeyInv(key)'
    BY <1>7, <2>1, <2>2, <2>4, <2>5 DEF KeyInv
  <2> QED BY <1>1, <1>6, <1>9, <2>2, <2>6 DEF LimiterInv
<1>13. CASE ConsumeAdmits(buckets, key, clock)
  <2> DEFINE bucket == Bucket(p, key)
  <2>1. /\ key \in DOMAIN p => bucket.blockedUntil <= clock /\ ~Spent(bucket, clock)
        /\ retry = 0 /\ buckets' = Put(p, key, AdmittedBucket(bucket, clock))
    BY <1>1, <1>13 DEF ConsumeAdmits, p, retry
  <2>2. /\ DOMAIN buckets' = DOMAIN p \cup {key} /\ buckets'[key] = AdmittedBucket(bucket, clock)
        /\ \A k \in DOMAIN p \ {key} : buckets'[k] = p[k]
    BY <2>1 DEF Put
  <2>3. /\ KeptAttempts(bucket.attempts, admitted[key], clock) /\ bucket.blockedUntil \in Nat
        /\ bucket.blockedUntil <= clock /\ ~(Len(InWindow(bucket.attempts, clock)) >= MaxAttempts)
    <3>1. CASE key \in DOMAIN p
      <4>1. bucket = p[key] /\ Known(bucket, admitted[key], denied[key], clock)
        BY <1>4, <3>1 DEF Bucket
      <4> HIDE DEF bucket
      <4> QED BY <2>1, <3>1, <4>1 DEF Known, IsBucket, Spent
    <3>2. CASE key \notin DOMAIN p
      <4>1. bucket.attempts = <<>> /\ bucket.blockedUntil = 0 /\ Unknown(admitted[key], denied[key], clock)
        BY <1>4, <3>2 DEF Bucket, Fresh
      <4>2. InWindow(<<>>, clock) = <<>>
        <5>1. Older(<<>>, clock) /\ <<>> \in Seq(Nat) /\ clock \in Int
          BY <1>1 DEF Older
        <5> QED BY <1>1, <5>1, InWindowDrops
      <4> QED BY <1>1, <4>1, <4>2, LimiterAssumption DEF Unknown
    <3> QED BY <3>1, <3>2
  <2> HIDE DEF bucket
  <2>4. Known(AdmittedBucket(bucket, clock), Append(admitted[key], clock), NotDenied, clock)
    BY <1>1, <2>3, KnownAdmitted DEF AdmittedBucket
  <2>5. KeyInv(key)'
    BY <1>7, <2>1, <2>2, <2>4 DEF KeyInv
  <2> QED BY <1>1, <1>6, <1>9, <2>2, <2>5 DEF LimiterInv
<1> QED BY <1>5, <1>10, <1>11, <1>12, <1>13

(* reset() keeps the invariant.                                            *)
LEMMA ResetStep ==
  ASSUME LimiterInv, NEW key \in Keys, Reset(key), clock' = clock
  PROVE  LimiterInv'
<1>1. /\ DOMAIN admitted = Keys /\ DOMAIN denied = Keys /\ DOMAIN buckets \subseteq Keys
      /\ admitted' = [admitted EXCEPT ![key] = <<>>]
      /\ denied' = [denied EXCEPT ![key] = NotDenied] /\ clock \in Nat
  BY DEF LimiterInv, Reset
<1>2. /\ DOMAIN buckets' = DOMAIN buckets \ {key}
      /\ \A k \in DOMAIN buckets \ {key} : buckets'[k] = buckets[k]
  BY DEF Reset, Forget, Restrict
<1>3. /\ admitted'[key] = <<>> /\ denied'[key] = NotDenied
      /\ \A k \in Keys \ {key} : admitted'[k] = admitted[k] /\ denied'[k] = denied[k]
      /\ DOMAIN admitted' = Keys /\ DOMAIN denied' = Keys
      /\ admitted' = [k \in Keys |-> admitted'[k]] /\ denied' = [k \in Keys |-> denied'[k]]
  BY <1>1
<1>4. Unknown(<<>>, NotDenied, clock)
  BY <1>1, UnknownAtFirst
<1>5. KeyInv(key)'
  BY <1>2, <1>3, <1>4 DEF KeyInv
<1>6. ASSUME NEW k \in Keys \ {key} PROVE KeyInv(k)'
  <2>1. KeyInv(k)
    BY DEF LimiterInv
  <2> QED BY <1>2, <1>3, <2>1 DEF KeyInv
<1> QED BY <1>1, <1>2, <1>3, <1>5, <1>6 DEF LimiterInv

(* Nothing is known after a restart, and at the start.                     *)
LEMMA NothingKnown ==
  ASSUME buckets = NoBuckets, admitted = [k \in Keys |-> <<>>],
         denied = [k \in Keys |-> NotDenied], clock \in Nat
  PROVE  LimiterInv
<1>1. DOMAIN buckets = {}
  BY DEF NoBuckets
<1>2. ASSUME NEW k \in Keys PROVE KeyInv(k)
  <2>1. k \notin DOMAIN buckets /\ admitted[k] = <<>> /\ denied[k] = NotDenied
    BY <1>1
  <2>2. Unknown(<<>>, NotDenied, clock)
    BY UnknownAtFirst
  <2> QED BY <2>1, <2>2 DEF KeyInv
<1> QED BY <1>1, <1>2 DEF LimiterInv

(* A restart keeps the invariant.                                          *)
LEMMA LimiterLostStep ==
  ASSUME LimiterInv, LimiterLost, clock' = clock
  PROVE  LimiterInv'
<1>1. /\ buckets' = NoBuckets /\ admitted' = [k \in Keys |-> <<>>]
      /\ denied' = [k \in Keys |-> NotDenied] /\ clock' \in Nat
  BY DEF LimiterLost, LimiterInv
<1>2. DOMAIN buckets' = {}
  BY <1>1 DEF NoBuckets
<1>3. ASSUME NEW k \in Keys PROVE KeyInv(k)'
  <2>1. k \notin DOMAIN buckets' /\ admitted'[k] = <<>> /\ denied'[k] = NotDenied
    BY <1>1, <1>2
  <2>2. Unknown(<<>>, NotDenied, clock')
    BY <1>1, UnknownAtFirst
  <2> QED BY <2>1, <2>2 DEF KeyInv
<1> QED BY <1>1, <1>2, <1>3 DEF LimiterInv

(* Time keeps the invariant.                                               *)
LEMMA LimiterTick ==
  ASSUME LimiterInv, Tick, UNCHANGED limiterVars
  PROVE  LimiterInv'
<1>1. clock \in Nat /\ clock' = clock + 1 /\ clock + 1 \in Nat
  BY DEF LimiterInv, Tick
<1>2. UNCHANGED <<buckets, admitted, denied>>
  BY DEF limiterVars
<1>3. ASSUME NEW k \in Keys PROVE KeyInv(k)'
  <2>1. KeyInv(k)
    BY DEF LimiterInv
  <2>2. CASE k \in DOMAIN buckets
    BY <1>1, <1>2, <2>1, <2>2, KnownLater DEF KeyInv
  <2>3. CASE k \notin DOMAIN buckets
    BY <1>1, <1>2, <2>1, <2>3, UnknownLater DEF KeyInv
  <2> QED BY <2>2, <2>3
<1> QED BY <1>1, <1>2, <1>3 DEF LimiterInv

(* The invariant is inductive.                                             *)
LEMMA LimiterAlways == GateSpec => []LimiterInv
<1>1. GateInit => LimiterInv
  <2> SUFFICES ASSUME GateInit PROVE LimiterInv
    OBVIOUS
  <2>1. LimiterInit /\ clock \in Nat
    BY LimiterAssumption DEF GateInit
  <2> QED BY <2>1, NothingKnown DEF LimiterInit
<1>2. LimiterInv /\ [GateNext]_gate => LimiterInv'
  <2> SUFFICES ASSUME LimiterInv, [GateNext]_gate PROVE LimiterInv'
    OBVIOUS
  <2>1. CASE UNCHANGED limiterVars /\ UNCHANGED clock
    <3>1. UNCHANGED <<clock, buckets, admitted, denied>>
      BY <2>1 DEF limiterVars
    <3>2. \A k \in Keys : KeyInv(k) => KeyInv(k)'
      BY <3>1 DEF KeyInv
    <3> QED BY <3>1, <3>2 DEF LimiterInv
  <2>2. CASE Tick /\ UNCHANGED limiterVars
    BY <2>2, LimiterTick
  <2>3. CASE LimiterLost /\ UNCHANGED clock
    BY <2>3, LimiterLostStep
  <2>4. ASSUME NEW k \in Keys, Consume(k), UNCHANGED clock PROVE LimiterInv'
    BY <2>4, ConsumeStep
  <2>5. ASSUME NEW k \in Keys, Reset(k), UNCHANGED clock PROVE LimiterInv'
    BY <2>5, ResetStep
  <2> QED BY <2>1, <2>2, <2>3, <2>4, <2>5, OnePartSteps
<1> QED BY <1>1, <1>2, PTL DEF GateSpec

(***************************************************************************)
(* The sliding window: since its last reset a key was never admitted more  *)
(* than MaxAttempts times within any Window, whatever consume() has pruned *)
(* and shifted between.                                                    *)
(***************************************************************************)
THEOREM WindowIsRespected == GateSpec => []WindowRespected
<1>1. LimiterInv => WindowRespected
  <2> SUFFICES ASSUME LimiterInv, NEW k \in Keys, NEW i \in DOMAIN admitted[k],
                      i + MaxAttempts \in DOMAIN admitted[k]
               PROVE  admitted[k][i + MaxAttempts] - admitted[k][i] >= Window
    BY DEF WindowRespected
  <2>1. \E s : KeptAttempts(s, admitted[k], clock)
    BY DEF LimiterInv, KeyInv, Known, Unknown
  <2>2. Spaced(admitted[k]) /\ admitted[k] \in Seq(Nat)
    BY <2>1 DEF KeptAttempts
  <2> QED BY <2>2 DEF Spaced
<1> QED BY <1>1, LimiterAlways, PTL

(* A running block denies, whatever is pruned.                             *)
LEMMA BlockDenies ==
  ASSUME NEW b, IsBuckets(b), NEW k \in DOMAIN b, NEW now \in Nat, b[k].blockedUntil > now
  PROVE  RetryAfter(b, k, now) > 0
<1>1. k \in DOMAIN PruneBuckets(b, now)
  BY DEF PruneBuckets, Restrict, Outdated, IsBuckets
<1>2. PruneBuckets(b, now)[k] = b[k]
  BY <1>1, PrunedBuckets
<1> DEFINE x == b[k].blockedUntil - now
<1>3. RetryAfter(b, k, now) = AtLeastOne(Seconds(x))
  <2> DEFINE p == PruneBuckets(b, now)
             bucket == Bucket(p, k)
  <2>1. k \in DOMAIN p /\ bucket = b[k] /\ bucket.blockedUntil > now
        /\ ~(bucket.blockedUntil <= now)
    BY <1>1, <1>2 DEF Bucket, IsBuckets
  <2>2. RetryAfter(b, k, now) = AtLeastOne(Seconds(bucket.blockedUntil - now))
    BY <2>1 DEF RetryAfter
  <2> QED BY <2>1, <2>2
<1>4. x \in Nat /\ x > 0
  BY DEF IsBuckets
<1> HIDE DEF x
<1>5. Seconds(x) \in Nat
  BY <1>4, SecondsRoundUp
<1> QED BY <1>3, <1>5 DEF AtLeastOne

(* A bucket whose block is over and whose attempts are out of the window   *)
(* does not deny its key.                                                  *)
LEMMA OldBucketAdmits ==
  ASSUME NEW b, NEW k, NEW now \in Nat, DOMAIN b \subseteq {k},
         k \in DOMAIN b => /\ IsBucket(b[k]) /\ b[k].blockedUntil <= now
                           /\ Older(b[k].attempts, now)
  PROVE  RetryAfter(b, k, now) = 0
<1> DEFINE p == PruneBuckets(b, now)
<1>1. DOMAIN p \subseteq {k} /\ (k \in DOMAIN p => k \in DOMAIN b /\ p[k] = b[k])
  BY PrunedBuckets
<1> HIDE DEF p
<1>2. CASE k \in DOMAIN p
  <2>1. IsBucket(p[k]) /\ p[k].blockedUntil <= now /\ Older(p[k].attempts, now) /\ Bucket(p, k) = p[k]
    BY <1>1, <1>2 DEF Bucket
  <2>2. InWindow(p[k].attempts, now) = <<>>
    <3>1. p[k].attempts \in Seq(Nat) /\ now \in Int
      BY <2>1 DEF IsBucket
    <3> QED BY <2>1, <3>1, InWindowDrops
  <2>3. ~Spent(p[k], now)
    BY <2>2, LimiterAssumption DEF Spent
  <2>4. ~(p[k].blockedUntil > now)
    BY <2>1 DEF IsBucket
  <2> QED BY <1>2, <2>1, <2>3, <2>4 DEF RetryAfter, p
<1>3. CASE k \notin DOMAIN p
  <2>1. Cardinality(DOMAIN p) = 0
    <3>1. DOMAIN p = {}
      BY <1>1, <1>3
    <3> QED BY <3>1, FS_EmptySet
  <2>2. ~Crowded(p)
    BY <2>1, LimiterAssumption DEF Crowded
  <2> QED BY <1>3, <2>2 DEF RetryAfter, p
<1> QED BY <1>2, <1>3

(***************************************************************************)
(* A denial that blocks a key is worth what Retry-After announces: the key *)
(* is denied up to the last second of it, and not by its own bucket after  *)
(* it, unless the block is shorter than the window.                        *)
(***************************************************************************)
THEOREM DenialsAreHonoured == GateSpec => []DenialsHold
<1>1. LimiterInv => DenialsHold
  <2> SUFFICES ASSUME LimiterInv, NEW k \in Keys, denied[k].blocked
               PROVE  /\ clock + Second <= denied[k].until => RetryAfter(buckets, k, clock) > 0
                      /\ Window <= Block /\ denied[k].until <= clock =>
                           RetryAfter(Restrict(buckets, DOMAIN buckets \cap {k}), k, clock) = 0
    BY DEF DenialsHold
  <2> DEFINE b == Restrict(buckets, DOMAIN buckets \cap {k})
  <2>1. /\ clock \in Nat /\ KeyInv(k) /\ IsBuckets(buckets) /\ Second \in Nat /\ Second > 0
        /\ Window \in Nat /\ Block \in Nat
    BY LimiterInvBuckets, LimiterAssumption DEF LimiterInv
  <2>2. DOMAIN b \subseteq {k} /\ (k \in DOMAIN b => k \in DOMAIN buckets /\ b[k] = buckets[k])
    BY DEF Restrict
  <2> HIDE DEF b
  <2>3. CASE k \in DOMAIN buckets
    <3> DEFINE t == buckets[k].blockedUntil
    <3>1. /\ IsBucket(buckets[k]) /\ t \in Nat /\ t <= denied[k].until /\ denied[k].until < t + Second
          /\ BeforeBlock(buckets[k]) /\ denied[k].until \in Nat
      BY <2>1, <2>3 DEF KeyInv, Known, IsBucket
    <3>2. ASSUME clock + Second <= denied[k].until PROVE RetryAfter(buckets, k, clock) > 0
      <4>1. t > clock
        BY <2>1, <3>1, <3>2
      <4> QED BY <2>1, <2>3, <4>1, BlockDenies
    <3>3. ASSUME Window <= Block, denied[k].until <= clock PROVE RetryAfter(b, k, clock) = 0
      <4>1. t <= clock
        BY <2>1, <3>1, <3>3
      <4>2. ASSUME NEW i \in 1..Len(buckets[k].attempts)
            PROVE  buckets[k].attempts[i] <= clock - Window
        <5>1. buckets[k].attempts[i] <= t - Block /\ buckets[k].attempts[i] \in Nat
          BY <3>1 DEF BeforeBlock, IsBucket
        <5> HIDE DEF t
        <5> QED BY <2>1, <3>1, <3>3, <4>1, <5>1
      <4>3. Older(buckets[k].attempts, clock)
        <5>1. DOMAIN buckets[k].attempts = 1..Len(buckets[k].attempts)
          BY <3>1 DEF IsBucket
        <5> QED BY <4>2, <5>1 DEF Older
      <4> QED BY <2>1, <2>2, <3>1, <4>1, <4>3, OldBucketAdmits
    <3> QED BY <3>2, <3>3 DEF b
  <2>4. CASE k \notin DOMAIN buckets
    <3>1. denied[k].until < clock + Second /\ denied[k].until \in Nat
      BY <2>1, <2>4 DEF KeyInv, Unknown
    <3>2. RetryAfter(b, k, clock) = 0
      BY <2>1, <2>2, <2>4, OldBucketAdmits
    <3> QED BY <2>1, <3>1, <3>2 DEF b
  <2> QED BY <2>3, <2>4
<1> QED BY <1>1, LimiterAlways, PTL
=============================================================================
