---------------------------- MODULE Configuration ----------------------------
(***************************************************************************)
(* The plugin's configuration (src/config.ts): cordis.patch.yml makes a    *)
(* row of it from the environment of the process, and resolveConfig()      *)
(* checks it, and refuses to activate with what it cannot use.             *)
(*                                                                         *)
(* A setting that is not given is "absent"; a text that is no number, or   *)
(* no safe integer, is read as NaN.  Files, texts and names are what the   *)
(* code tells apart.                                                       *)
(***************************************************************************)
EXTENDS Integers, Sequences, FiniteSets, FiniteSetsExt, SequencesExt, Records

NaN == -1
Hours(n) == n * 60 * 60

(***************************************************************************)
(* The numbers.  A default is the row's: it always gives a number, so the  *)
(* fallbacks of resolveConfig() are not used.                              *)
(***************************************************************************)
Default ==
  [sessionTtlSeconds |-> Hours(72), idleTtlSeconds |-> Hours(72),
   sessionRenewalSeconds |-> Hours(1), maxSessions |-> 16,
   loginWindowSeconds |-> 60, loginMaxAttempts |-> 5, loginBlockSeconds |-> 300,
   loginTokenWindowSeconds |-> 60, loginTokenMaxAttempts |-> 10,
   loginTokenBlockSeconds |-> 300]

Numbers == DOMAIN Default

\* Each duration is bounded by the one before it.
Bounds(c) ==
  [sessionTtlSeconds |-> 60..Hours(30 * 24), idleTtlSeconds |-> 60..c.sessionTtlSeconds,
   sessionRenewalSeconds |-> 1..Min({c.sessionTtlSeconds, c.idleTtlSeconds}),
   maxSessions |-> 1..1024,
   loginWindowSeconds |-> 1..Hours(1), loginMaxAttempts |-> 1..100,
   loginBlockSeconds |-> 1..Hours(24), loginTokenWindowSeconds |-> 1..Hours(1),
   loginTokenMaxAttempts |-> 1..100, loginTokenBlockSeconds |-> 1..Hours(24)]

ValidNumbers(c) == \A n \in Numbers : c[n] \in Bounds(c)[n]

(***************************************************************************)
(* Files, marker, tokens and texts.  A secret is what its file holds       *)
(* without the last line end.                                              *)
(***************************************************************************)
NoSecret == [bytes |-> 0, nul |-> FALSE]

ValidSecret(secret) == secret.bytes \in 32..4096 /\ ~secret.nul

ValidMarker(expected, own) == expected \in {"absent", own}

ValidTokens(c) ==
  c.loginTokenDirectory = IF c.loginTokenEnabled THEN "login-tokens" ELSE "absent"

ValidMessage(message) == message \in {"absent", "plain"}

(***************************************************************************)
(* proxyAddressList(): 1 to 32 literal addresses, none twice, where an     *)
(* IPv4 address in the form of IPv6 is that address.                       *)
(***************************************************************************)
Address(ip, mapped) == [ip |-> ip, mapped |-> mapped]

ValidProxies(addresses) ==
  LET ips == {addresses[i].ip : i \in DOMAIN addresses}
  IN  /\ Len(addresses) \in 1..32 /\ Cardinality(ips) = Len(addresses)
      /\ "a name" \notin ips

Loopbacks == <<Address("127.0.0.1", FALSE), Address("::1", FALSE)>>

(***************************************************************************)
(* externalIdentity(), and the gateway in resolveConfig(): what is not     *)
(* enabled is not looked at.  The names of the external login must be a    *)
(* list of texts; of the gateway's, what is no text is passed over.        *)
(***************************************************************************)
NoProvider == [enabled |-> FALSE, id |-> "absent", url |-> "absent", tokenFile |-> "absent",
               names |-> "texts"]

ValidExternal(external) ==
  external.enabled =>
    /\ external.id = "text" /\ external.url = "text"
    /\ external.tokenFile = "readable"
    /\ external.names = "texts"

ValidGateway(gateway) ==
  gateway.enabled => gateway.tokenFile = "readable" /\ gateway.names \in {"texts", "mixed"}

-----------------------------------------------------------------------------
(***************************************************************************)
(* The row: the environment of setup, with the numbers, the proxies and    *)
(* the providers that an operator's own environment gives.                 *)
(***************************************************************************)
NothingAdded == [numbers |-> << >>, proxies |-> Loopbacks, external |-> NoProvider,
                 gateway |-> NoProvider]

Row(environment, added) ==
  environment ++ added.numbers ++ Default ++
  [trustedProxyAddresses |-> added.proxies,
   externalIdentity |-> added.external, gatewayIdentity |-> added.gateway]

AllowedKeys ==
  Numbers \cup
  {"authStateFile", "sessionSecretFile", "expectedVersion", "nativeAuthBridge",
   "loginTokenEnabled", "loginTokenDirectory", "loginTokenFailureMessageZh",
   "loginTokenFailureMessageEn", "secureCookies", "trustedProxyAddresses",
   "externalIdentity", "gatewayIdentity"}

\* resolveConfig(), by a build of version `own`
Resolves(row, own) ==
  /\ DOMAIN row \subseteq AllowedKeys
  /\ row.authStateFile = "document"
  /\ ValidSecret(row.sessionSecretFile)
  /\ ValidMarker(row.expectedVersion, own)
  /\ ValidTokens(row)
  /\ ValidMessage(row.loginTokenFailureMessageZh)
  /\ ValidMessage(row.loginTokenFailureMessageEn)
  /\ ValidNumbers(row) /\ ValidProxies(row.trustedProxyAddresses)
  /\ ValidExternal(row.externalIdentity) /\ ValidGateway(row.gatewayIdentity)

\* A bundle without both files stays dormant, so that the profile still boots.
Dormant(row) == row.authStateFile = "absent" /\ row.sessionSecretFile = NoSecret

Activates(row, own) == ~Dormant(row) /\ Resolves(row, own)

(***************************************************************************)
(* What SessionStore and LoginLimiter assume of their constants, and a     *)
(* proxy that is told apart by the address the socket has.                 *)
(***************************************************************************)
Usable(row) ==
  /\ 0 < row.sessionRenewalSeconds /\ row.sessionRenewalSeconds <= row.idleTtlSeconds
  /\ row.idleTtlSeconds <= row.sessionTtlSeconds
  /\ \A n \in Numbers : row[n] > 0
  /\ \A i, j \in DOMAIN row.trustedProxyAddresses :
       row.trustedProxyAddresses[i].ip = row.trustedProxyAddresses[j].ip => i = j

-----------------------------------------------------------------------------
(***************************************************************************)
(* What an operator may add: any durations, or one thing besides.          *)
(***************************************************************************)
SomeDurations == {NaN, 0, 60, Hours(1), Hours(72), Hours(30 * 24), Hours(30 * 24) + 1}

Partial(names, values) == UNION {[given -> values] : given \in SUBSET names}

Providers ==
  [enabled: BOOLEAN, id: {"absent", "text"}, url: {"absent", "text"},
   tokenFile: {"absent", "readable", "unreadable"}, names: {"texts", "mixed", "no list"}]

Additions ==
  {[NothingAdded EXCEPT !.numbers = given] :
     given \in Partial({"sessionTtlSeconds", "idleTtlSeconds", "sessionRenewalSeconds"},
                     SomeDurations)}
  \cup {[NothingAdded EXCEPT !.numbers = given] :
     given \in UNION {[{n} -> {NaN, 0, 1, 100, 101, 1024, 1025, Hours(1), Hours(1) + 1,
                               Hours(24), Hours(24) + 1}] : n \in Numbers}}
  \cup {[NothingAdded EXCEPT !.proxies = list] :
     list \in SeqOf({Address("127.0.0.1", FALSE), Address("127.0.0.1", TRUE),
                     Address("a name", FALSE)}, 2)}
  \cup {[NothingAdded EXCEPT !.external = provider] : provider \in Providers}
  \cup {[NothingAdded EXCEPT !.gateway = provider] : provider \in Providers}

=============================================================================
