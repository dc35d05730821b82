-------------------------- MODULE DeploymentProofs --------------------------
(***************************************************************************)
(* Theorems about what setup makes of a request (module Deployment), of    *)
(* chosen credentials (Credentials), and of managed files and records      *)
(* (Custody, OwnershipRecord): for every command line, configuration and   *)
(* length of a text, not only those that the runs enumerate.               *)
(***************************************************************************)
EXTENDS Installer, FiniteSetTheorems, SequenceTheorems, TLAPS

(***************************************************************************)
(* A command line: every option with a value it can have.                  *)
(***************************************************************************)
IsRecordOfOptions(l) ==
  l = [mode |-> l.mode, behindTlsProxy |-> l.behindTlsProxy, listenAddress |-> l.listenAddress,
       port |-> l.port, serverName |-> l.serverName, tls |-> l.tls,
       certificate |-> l.certificate, certificateKey |-> l.certificateKey,
       adminBootstrap |-> l.adminBootstrap, adminUsername |-> l.adminUsername,
       loginToken |-> l.loginToken, messages |-> l.messages, password |-> l.password,
       outputDirectory |-> l.outputDirectory, dshService |-> l.dshService]

HasTransport(l) ==
  /\ l.mode \in {"none", "https", "http"} /\ l.behindTlsProxy \in BOOLEAN
  /\ l.listenAddress \in {"none", "loopback", "private", "public"}
  /\ l.port \in {"none", "default", "other"}
  /\ l.serverName \in {"none", "name", "private", "public"}
  /\ l.tls \in {"none", "automatic", "manual"}
  /\ l.certificate \in BOOLEAN /\ l.certificateKey \in BOOLEAN

HasAdministration(l) ==
  /\ l.adminBootstrap \in {"none", "password", "login-token"} /\ l.adminUsername \in BOOLEAN
  /\ l.loginToken \in {"none", "enabled", "disabled"} /\ l.messages \in BOOLEAN
  /\ l.password \in {"none", "file", "stdin", "both", "interactive"}

HasTarget(l) == l.outputDirectory \in BOOLEAN /\ l.dshService \in BOOLEAN

IsLine(l) == IsRecordOfOptions(l) /\ HasTransport(l) /\ HasAdministration(l) /\ HasTarget(l)

(* The three groups of options make a command line.                        *)
LEMMA GroupsMakeLine ==
  ASSUME NEW t \in Transports, NEW a \in Administrators, NEW o \in Targets
  PROVE  IsLine(t ++ a ++ o)
<1> DEFINE l == t ++ a ++ o
<1>1. /\ DOMAIN t = {"mode", "behindTlsProxy", "listenAddress", "port", "serverName", "tls",
                     "certificate", "certificateKey"}
      /\ DOMAIN a = {"adminBootstrap", "adminUsername", "loginToken", "messages", "password"}
      /\ DOMAIN o = {"outputDirectory", "dshService"}
  BY DEF Transports, Administrators, Targets
<1>2. HasTransport(l)
  BY <1>1 DEF HasTransport, Transports, ++
<1>3. HasAdministration(l)
  BY <1>1 DEF HasAdministration, Administrators, ++
<1>4. HasTarget(l)
  BY <1>1 DEF HasTarget, Targets, ++
<1>5. IsRecordOfOptions(l)
  BY <1>1 DEF IsRecordOfOptions, ++
<1> QED BY <1>2, <1>3, <1>4, <1>5 DEF IsLine

(* What the two parts of the dialogue set, and what they keep.             *)
SetByDialogue(k, ds, bo, to, us, mo, pw) ==
  [k EXCEPT !.dshService = ds, !.adminBootstrap = bo, !.loginToken = to,
            !.adminUsername = us, !.mode = mo, !.password = pw]

SetForTls(k, tl, ad, nm, ce, ke) ==
  [k EXCEPT !.tls = tl, !.listenAddress = ad, !.serverName = nm,
            !.certificate = ce, !.certificateKey = ke]

(* A dialogue makes a command line of a command line.                      *)
LEMMA DialogueSets ==
  ASSUME NEW k, IsRecordOfOptions(k), NEW ds, NEW bo, NEW to, NEW us, NEW mo, NEW pw, NEW x,
         x = SetByDialogue(k, ds, bo, to, us, mo, pw)
  PROVE  /\ IsRecordOfOptions(x)
         /\ x.mode = mo /\ x.behindTlsProxy = k.behindTlsProxy
         /\ x.listenAddress = k.listenAddress /\ x.port = k.port /\ x.serverName = k.serverName
         /\ x.tls = k.tls /\ x.certificate = k.certificate
         /\ x.certificateKey = k.certificateKey /\ x.adminBootstrap = bo /\ x.adminUsername = us
         /\ x.loginToken = to /\ x.messages = k.messages /\ x.password = pw
         /\ x.outputDirectory = k.outputDirectory /\ x.dshService = ds
BY DEF IsRecordOfOptions, SetByDialogue

(* So do the answers about the transport.                                  *)
LEMMA TransportSets ==
  ASSUME NEW k, IsRecordOfOptions(k), NEW tl, NEW ad, NEW nm, NEW ce, NEW ke, NEW x,
         x = SetForTls(k, tl, ad, nm, ce, ke)
  PROVE  /\ IsRecordOfOptions(x)
         /\ x.mode = k.mode /\ x.behindTlsProxy = k.behindTlsProxy /\ x.listenAddress = ad
         /\ x.port = k.port /\ x.serverName = nm /\ x.tls = tl /\ x.certificate = ce
         /\ x.certificateKey = ke /\ x.adminBootstrap = k.adminBootstrap
         /\ x.adminUsername = k.adminUsername /\ x.loginToken = k.loginToken
         /\ x.messages = k.messages /\ x.password = k.password
         /\ x.outputDirectory = k.outputDirectory /\ x.dshService = k.dshService
BY DEF IsRecordOfOptions, SetForTls

(* The interactive setup asks for what is open, and answers are options.   *)
LEMMA DialogueMakesLine ==
  ASSUME NEW l, IsLine(l), NEW answers \in Answers
  PROVE  IsLine(Dialogue(l, answers))
<1> DEFINE bootstrap == Given(l.adminBootstrap, answers.adminBootstrap)
           served == l.dshService \/ ~l.outputDirectory
           named == l.adminUsername \/ bootstrap = "password"
           token == IF bootstrap = "login-token" THEN "enabled"
                    ELSE Given(l.loginToken, Given(answers.loginToken, "disabled"))
           mode == Given(l.mode, Given(answers.mode, "https"))
           password == IF bootstrap = "password" THEN Given(l.password, "interactive")
                       ELSE l.password
           m == SetByDialogue(l, served, bootstrap, token, named, mode, password)
<1>1. IsLine(m)
  <2>1. /\ IsRecordOfOptions(m)
        /\ m.dshService = served
        /\ m.adminBootstrap = bootstrap
        /\ m.adminUsername = named
        /\ m.loginToken = token /\ m.mode = mode /\ m.password = password
        /\ m.behindTlsProxy = l.behindTlsProxy /\ m.listenAddress = l.listenAddress
        /\ m.port = l.port /\ m.serverName = l.serverName /\ m.tls = l.tls
        /\ m.certificate = l.certificate /\ m.certificateKey = l.certificateKey
        /\ m.messages = l.messages /\ m.outputDirectory = l.outputDirectory
    <3> HIDE DEF bootstrap, served, named, token, mode, password
    <3> QED BY DialogueSets DEF IsLine
  <2> HIDE DEF m
  <2>3. HasTransport(m)
    BY <2>1 DEF Given, IsLine, HasTransport, Answers
  <2>4. HasAdministration(m)
    <3>1. bootstrap \in {"none", "password", "login-token"}
      BY DEF Given, IsLine, HasAdministration, Answers
    <3>2. m.loginToken \in {"none", "enabled", "disabled"}
      <4> HIDE DEF bootstrap
      <4> QED BY <2>1 DEF Given, IsLine, HasAdministration, Answers
    <3>3. m.password \in {"none", "file", "stdin", "both", "interactive"}
      <4> HIDE DEF bootstrap
      <4> QED BY <2>1 DEF Given, IsLine, HasAdministration, Answers
    <3> QED BY <2>1, <3>1, <3>2, <3>3 DEF IsLine, HasAdministration
  <2>5. HasTarget(m)
    BY <2>1 DEF IsLine, HasTarget
  <2> QED BY <2>1, <2>3, <2>4, <2>5 DEF IsLine
<1>2. ASSUME NEW k, IsLine(k) PROVE IsLine(InteractiveTls(k, answers))
  <2> DEFINE tls == Given(k.tls, Given(answers.tls, "automatic"))
             file == k.certificate \/ tls = "manual"
             key == k.certificateKey \/ tls = "manual"
             plain == [k EXCEPT !.listenAddress = Given(@, answers.listenAddress)]
             address == Given(k.listenAddress, Given(answers.listenAddress, "public"))
             name == Given(k.serverName, answers.serverName)
             secure == SetForTls(k, tls, address, name, file, key)
  <2>1. IsLine(plain)
    <3>1. plain = [mode |-> k.mode, behindTlsProxy |-> k.behindTlsProxy,
                   listenAddress |-> Given(k.listenAddress, answers.listenAddress),
                   port |-> k.port, serverName |-> k.serverName, tls |-> k.tls,
                   certificate |-> k.certificate, certificateKey |-> k.certificateKey,
                   adminBootstrap |-> k.adminBootstrap, adminUsername |-> k.adminUsername,
                   loginToken |-> k.loginToken, messages |-> k.messages, password |-> k.password,
                   outputDirectory |-> k.outputDirectory, dshService |-> k.dshService]
      BY <1>2 DEF IsLine, IsRecordOfOptions
    <3> HIDE DEF plain
    <3>2. Given(k.listenAddress, answers.listenAddress)
             \in {"none", "loopback", "private", "public"}
      BY <1>2 DEF Given, IsLine, HasTransport, Answers
    <3> QED BY <1>2, <3>1, <3>2 DEF IsLine, IsRecordOfOptions, HasTransport, HasAdministration,
            HasTarget
  <2>2. IsLine(secure)
    <3>1. /\ IsRecordOfOptions(secure)
          /\ secure.tls = tls
          /\ secure.listenAddress = address
          /\ secure.serverName = name
          /\ secure.certificate = file
          /\ secure.certificateKey = key
          /\ secure.mode = k.mode /\ secure.behindTlsProxy = k.behindTlsProxy
          /\ secure.port = k.port /\ secure.adminBootstrap = k.adminBootstrap
          /\ secure.adminUsername = k.adminUsername /\ secure.loginToken = k.loginToken
          /\ secure.messages = k.messages /\ secure.password = k.password
          /\ secure.outputDirectory = k.outputDirectory /\ secure.dshService = k.dshService
      <4> HIDE DEF tls, file, key, address, name
      <4> QED BY <1>2, TransportSets DEF IsLine
    <3> HIDE DEF secure
    <3>2. /\ address \in {"none", "loopback", "private", "public"}
          /\ name \in {"none", "name", "private", "public"}
          /\ tls \in {"none", "automatic", "manual"}
      BY <1>2 DEF Given, IsLine, HasTransport, Answers
    <3> HIDE DEF tls, address, name
    <3> QED BY <1>2, <3>1, <3>2 DEF IsLine, IsRecordOfOptions, HasTransport, HasAdministration,
            HasTarget
  <2> QED BY <2>1, <2>2 DEF InteractiveTls, SetForTls
<1> HIDE DEF m
<1>3. Dialogue(l, answers) = InteractiveTls(m, answers)
  BY DEF Dialogue, SetByDialogue, m
<1> QED BY <1>1, <1>2, <1>3

(* The defaults fill open options, once and for all.                       *)
LEMMA DefaultsMakeLine ==
  ASSUME NEW l, IsLine(l)
  PROVE  /\ IsLine(WithDefaults(l)) /\ WithDefaults(l).mode \in {"https", "http"}
         /\ WithDefaults(WithDefaults(l)) = WithDefaults(l)
<1> DEFINE Mode(k) == Given(k.mode, "https")
           Listen(k) == IF Mode(k) = "https" THEN Given(k.listenAddress, "public")
                        ELSE k.listenAddress
           Tls(k) == IF Mode(k) = "https" THEN Given(k.tls, "automatic") ELSE "none"
           Token(k) == IF k.adminBootstrap = "login-token" THEN "enabled" ELSE k.loginToken
           Port(k) == Given(k.port, IF Mode(k) = "https" THEN "default" ELSE "other")
<1>1. ASSUME NEW k, IsRecordOfOptions(k)
      PROVE  WithDefaults(k) =
               [mode |-> Mode(k), behindTlsProxy |-> k.behindTlsProxy,
                listenAddress |-> Listen(k), port |-> Port(k), serverName |-> k.serverName,
                tls |-> Tls(k), certificate |-> k.certificate,
                certificateKey |-> k.certificateKey, adminBootstrap |-> k.adminBootstrap,
                adminUsername |-> k.adminUsername, loginToken |-> Token(k),
                messages |-> k.messages, password |-> k.password,
                outputDirectory |-> k.outputDirectory, dshService |-> k.dshService]
  <2>1. WithDefaults(k) = [k EXCEPT !.mode = Mode(k), !.listenAddress = Listen(k), !.tls = Tls(k),
                                    !.loginToken = Token(k), !.port = Port(k)]
    BY DEF WithDefaults
  <2> HIDE DEF Mode, Listen, Tls, Token, Port
  <2> QED BY <1>1, <2>1 DEF IsRecordOfOptions
<1>2. /\ Mode(l) \in {"https", "http"} /\ Listen(l) \in {"none", "loopback", "private", "public"}
      /\ Tls(l) \in {"none", "automatic", "manual"}
      /\ Token(l) \in {"none", "enabled", "disabled"} /\ Port(l) \in {"default", "other"}
  BY DEF Given, IsLine, HasTransport, HasAdministration
<1> DEFINE r == WithDefaults(l)
<1>3. /\ r.mode = Mode(l) /\ r.listenAddress = Listen(l) /\ r.tls = Tls(l)
      /\ r.loginToken = Token(l) /\ r.port = Port(l) /\ r.adminBootstrap = l.adminBootstrap
  <2> HIDE DEF Mode, Listen, Tls, Token, Port
  <2> QED BY <1>1 DEF IsLine
<1>4. IsLine(r)
  <2> HIDE DEF Mode, Listen, Tls, Token, Port
  <2> QED BY <1>1, <1>2 DEF IsLine, IsRecordOfOptions, HasTransport, HasAdministration, HasTarget
<1> HIDE DEF r
<1>5. /\ Mode(r) = r.mode /\ Listen(r) = r.listenAddress /\ Tls(r) = r.tls
      /\ Token(r) = r.loginToken /\ Port(r) = r.port
  BY <1>2, <1>3 DEF Given
<1>6. WithDefaults(r) = r
  <2> HIDE DEF Mode, Listen, Tls, Token, Port
  <2> QED BY <1>1, <1>4, <1>5 DEF IsLine, IsRecordOfOptions
<1> QED BY <1>2, <1>3, <1>4, <1>6 DEF r

(* What setup goes on with: an accepted command line and its defaults.     *)
IsRequest(r) == IsLine(r) /\ Accepted(r) /\ WithDefaults(r) = r

(* Every command line that is accepted makes one, and so does what a       *)
(* dialogue makes of it.                                                   *)
LEMMA LinesMakeRequests ==
  ASSUME NEW line, IsLine(line)
  PROVE  /\ Accepted(line) => IsRequest(WithDefaults(line))
         /\ \A answers \in Answers :
              Accepted(Dialogue(line, answers)) => IsRequest(WithDefaults(Dialogue(line, answers)))
<1>1. ASSUME NEW l, IsLine(l), Accepted(l)
      PROVE  IsRequest(WithDefaults(l))
  BY <1>1, DefaultsMakeLine DEF Accepted, IsRequest
<1> QED BY <1>1, DialogueMakesLine

(* Whatever request the runs try is one of them.                           *)
LEMMA RequestsAreLines ==
  ASSUME NEW r \in Requests
  PROVE  IsRequest(r)
<1>1. PICK line \in CommandLines \cup Dialogues : Accepted(line) /\ r = WithDefaults(line)
  BY DEF Requests
<1>2. /\ Plain \in Administrators /\ TokenOnly \in Administrators /\ Unnamed \in Administrators
      /\ Https \in Transports /\ Silent \in Transports
  BY DEF Plain, TokenOnly, Unnamed, Https, Silent, Administrators, Transports
<1>3. IsLine(line)
  <2>1. CASE line \in CommandLines
    <3>1. \E t \in Transports, a \in Administrators, o \in Targets : line = t ++ a ++ o
      BY <1>2, <2>1 DEF CommandLines
    <3> QED BY <3>1, GroupsMakeLine
  <2>2. CASE line \in Dialogues
    <3>1. \E o \in Targets, answers \in Answers :
             line = Dialogue(Silent ++ Unnamed ++ o, answers)
      BY <2>2 DEF Dialogues
    <3> QED BY <1>2, <3>1, GroupsMakeLine, DialogueMakesLine
  <2> QED BY <2>1, <2>2
<1> QED BY <1>1, <1>3, LinesMakeRequests

-----------------------------------------------------------------------------
(***************************************************************************)
(* The URL of issue-login-token.                                           *)
(***************************************************************************)
(* The edge serves the page of an issued URL, and the plugin takes its     *)
(* form for one of its own.                                                *)
LEMMA PageSignsIn ==
  ASSUME NEW r, r.behindTlsProxy \in BOOLEAN, ~r.outputDirectory, NEW marker,
         NEW given \in Origins \cup {NoOrigin}, NEW headers \in Headers, Issues(r, given),
         NEW page, page = IssuedOrigin(r, given),
         NEW arriving, arriving = Arriving(r, page, headers),
         NEW forwarded, forwarded = Forwarded(r, arriving)
  PROVE  /\ page # NoOrigin
         /\ Admits(r, page, arriving)
         /\ SeenOrigin(forwarded) = page
         /\ ClientAddress(forwarded) = "browser"
         /\ Environment(r, marker).secureCookies = (page.scheme = "https")
<1>1. NoOrigin.scheme = "none"
  BY DEF NoOrigin, Origin
<1>2. Environment(r, marker).secureCookies = (r.mode = "https" \/ r.behindTlsProxy)
  BY DEF Environment, ++
<1>3. CASE r.behindTlsProxy
  BY <1>1, <1>2, <1>3 DEF Issues, IssuedOrigin, Arriving, Forwarded, Admits, SeenOrigin,
     ClientAddress, Given
<1>4. CASE ~r.behindTlsProxy
  BY <1>1, <1>2, <1>4 DEF Issues, IssuedOrigin, Arriving, Forwarded, Admits, SeenOrigin,
     ClientAddress, Given, PublicOrigin, Origin
<1> QED BY <1>3, <1>4

(* /auth/verify admits what that page asks for, and of what another page   *)
(* asks for nothing that changes anything.                                 *)
LEMMA OnlyThePageActs ==
  ASSUME NEW forwarded, NEW page, page # NoOrigin, SeenOrigin(forwarded) = page
  PROVE  /\ SameOrigin(forwarded, page)
         /\ \A request \in PageRequests(page, {"same-origin"}) :
              ProtectedOriginAllowed(forwarded, request)
         /\ \A other, sites : other # page =>
              \A request \in PageRequests(other, sites) :
                ProtectedOriginAllowed(forwarded, request)
                  => ~request.changes /\ ~request.upgrade
BY DEF SameOrigin, PageRequests, ProtectedOriginAllowed

(* With tokens enabled some URL can be issued.                             *)
LEMMA SomeUrlIssued ==
  ASSUME NEW r, r.behindTlsProxy \in BOOLEAN, ~r.outputDirectory, r.loginToken = "enabled"
  PROVE  \E given \in Origins \cup {NoOrigin} : Issues(r, given)
<1> DEFINE theirs == Origin("https", "name", "default")
<1>1. /\ theirs \in Origins /\ theirs.scheme = "https"
      /\ NoOrigin.scheme = "none" /\ theirs # NoOrigin
  BY DEF NoOrigin, Origin, Origins
<1>2. CASE r.behindTlsProxy
  BY <1>1, <1>2 DEF Issues, ValidPublicOrigin
<1>3. CASE ~r.behindTlsProxy
  BY <1>1, <1>3 DEF Issues, ValidPublicOrigin
<1> QED BY <1>2, <1>3

(***************************************************************************)
(* A URL that issue-login-token prints on the host of a setup leads to a   *)
(* page that signs in: for every request of a system with login tokens.    *)
(***************************************************************************)
THEOREM AnyUrlSignsIn ==
  ASSUME NEW r, IsRequest(r), ~r.outputDirectory, r.loginToken = "enabled", NEW marker
  PROVE  /\ \E given \in Origins \cup {NoOrigin} : Issues(r, given)
         /\ \A given \in Origins \cup {NoOrigin}, headers \in Headers :
              Issues(r, given) =>
                LET page == IssuedOrigin(r, given)
                    arriving == Arriving(r, page, headers)
                    forwarded == Forwarded(r, arriving)
                IN  /\ Admits(r, page, arriving)
                    /\ SeenOrigin(forwarded) = page
                    /\ ClientAddress(forwarded) = "browser"
                    /\ Environment(r, marker).secureCookies = (page.scheme = "https")
                    /\ SameOrigin(forwarded, page)
                    /\ \A request \in PageRequests(page, {"same-origin"}) :
                         ProtectedOriginAllowed(forwarded, request)
                    /\ \A other \in (Origins \cup {NoOrigin}) \ {page} :
                         \A request \in PageRequests(other, {"same-site", "cross-site"}) :
                           ProtectedOriginAllowed(forwarded, request)
                             => ~request.changes /\ ~request.upgrade
<1>1. r.behindTlsProxy \in BOOLEAN
  BY DEF IsRequest, IsLine, HasTransport
<1> QED BY <1>1, SomeUrlIssued, PageSignsIn, OnlyThePageActs

(* Of those that the runs try.                                             *)
LEMMA UrlsDoSignIn == UrlsSignIn
BY RequestsAreLines, AnyUrlSignsIn, Zenon DEF UrlsSignIn

(***************************************************************************)
(* No URL that issue-login-token prints on the host of a setup leads to a  *)
(* page that cannot sign in, whatever forwarded headers the browser sends. *)
(***************************************************************************)
THEOREM IssuedUrlsSignIn == Spec => IssuedUrlSignsIn
<1>1. [FirstSetup => UrlsSignIn]_vars
  BY UrlsDoSignIn
<1> QED BY <1>1, PTL DEF IssuedUrlSignsIn

-----------------------------------------------------------------------------
(***************************************************************************)
(* The record.                                                             *)
(***************************************************************************)
(* The record keeps all of a request but where its password came from.     *)
LEMMA RecordKeeps ==
  ASSUME NEW r, IsRecordOfOptions(r), NEW p, p = ReadBack(r)
  PROVE  /\ IsRecordOfOptions(p)
         /\ p.mode = r.mode /\ p.behindTlsProxy = r.behindTlsProxy
         /\ p.listenAddress = r.listenAddress /\ p.port = r.port /\ p.serverName = r.serverName
         /\ p.tls = r.tls /\ p.certificate = r.certificate
         /\ p.certificateKey = r.certificateKey /\ p.adminBootstrap = r.adminBootstrap
         /\ p.adminUsername = r.adminUsername /\ p.loginToken = r.loginToken
         /\ p.messages = r.messages /\ p.password = "none"
         /\ p.outputDirectory = r.outputDirectory /\ p.dshService = r.dshService
BY DEF IsRecordOfOptions, ReadBack, PersistentRequest

(* What later commands read from the record is valid, and they render the  *)
(* same from it; and the administrator has a first way to sign in.         *)
LEMMA RecordRendersTheSame ==
  ASSUME NEW r, IsLine(r), Accepted(r), WithDefaults(r) = r, NEW marker
  PROVE  /\ Valid(ReadBack(r))
         /\ Environment(ReadBack(r), marker) = Environment(r, marker)
         /\ PublicOrigin(ReadBack(r)) = PublicOrigin(r)
         /\ HasAdministrator(r) \/ Environment(r, marker).loginTokenEnabled
<1> DEFINE p == ReadBack(r)
<1>1. /\ p.mode = r.mode /\ p.behindTlsProxy = r.behindTlsProxy
      /\ p.listenAddress = r.listenAddress /\ p.port = r.port /\ p.serverName = r.serverName
      /\ p.tls = r.tls /\ p.certificate = r.certificate
      /\ p.certificateKey = r.certificateKey /\ p.adminBootstrap = r.adminBootstrap
      /\ p.adminUsername = r.adminUsername /\ p.loginToken = r.loginToken
      /\ p.messages = r.messages /\ p.password = "none"
  BY RecordKeeps DEF IsLine
<1> HIDE DEF p
<1>2. /\ Valid(r) /\ r.adminBootstrap # "none"
      /\ r.adminBootstrap \in {"none", "password", "login-token"}
  BY DEF Accepted, Complete, IsLine, HasAdministration
<1>3. ValidBootstrap(p)
  BY <1>1, <1>2 DEF Valid, ValidBootstrap
<1>4. ValidTokenPolicy(p) /\ ValidListenAddress(p)
  BY <1>1, <1>2 DEF Valid, ValidTokenPolicy, ValidListenAddress
<1>5. ValidTransport(p)
  BY <1>1, <1>2 DEF Valid, ValidTransport
<1>6. Environment(p, marker) = Environment(r, marker)
  BY <1>1, Zenon DEF Environment
<1>7. PublicOrigin(p) = PublicOrigin(r)
  BY <1>1, Zenon DEF PublicOrigin
<1>8. Environment(r, marker).loginTokenEnabled = (r.loginToken = "enabled")
  BY DEF Environment, ++
<1>9. HasAdministrator(r) \/ r.loginToken = "enabled"
  BY <1>2 DEF Valid, ValidBootstrap, HasAdministrator
<1> QED BY <1>3, <1>4, <1>5, <1>6, <1>7, <1>8, <1>9 DEF Valid, p

-----------------------------------------------------------------------------
(***************************************************************************)
(* The configuration.                                                      *)
(***************************************************************************)
(* Which part gives a setting.                                             *)
LEMMA PartsOf ==
  ASSUME NEW f, NEW g
  PROVE  /\ DOMAIN (f ++ g) = DOMAIN f \cup DOMAIN g
         /\ \A x \in DOMAIN f : (f ++ g)[x] = f[x]
         /\ \A x \in DOMAIN g \ DOMAIN f : (f ++ g)[x] = g[x]
BY DEF ++

(* The smaller of two numbers bounds by both.                              *)
LEMMA MinOfTwo ==
  ASSUME NEW a \in Int, NEW b \in Int
  PROVE  Min({a, b}) \in {a, b} /\ Min({a, b}) <= a /\ Min({a, b}) <= b
<1>1. \E x \in {a, b} : \A y \in {a, b} : x =< y
  <2>1. CASE a <= b
    BY <2>1
  <2>2. CASE b <= a
    BY <2>2
  <2> QED BY <2>1, <2>2
<1>2. Min({a, b}) \in {a, b} /\ \A y \in {a, b} : Min({a, b}) =< y
  BY <1>1 DEF Min
<1> QED BY <1>2

(* proxyAddressList() lets no address pass twice: as many addresses as     *)
(* entries means that no two entries are the same address.                 *)
LEMMA ValidProxiesDiffer ==
  ASSUME NEW S, NEW list \in Seq(S), ValidProxies(list)
  PROVE  \A i, j \in DOMAIN list : list[i].ip = list[j].ip => i = j
<1> DEFINE D == 1 .. Len(list)
           ips == {list[i].ip : i \in DOMAIN list}
           ip == [i \in D |-> list[i].ip]
<1>1. DOMAIN list = D /\ Len(list) \in Nat
  OBVIOUS
<1>2. IsFiniteSet(D) /\ Cardinality(D) = Len(list)
  BY <1>1, FS_Interval
<1>3. ip \in Surjection(D, ips)
  BY <1>1 DEF Surjection
<1>4. Cardinality(ips) = Cardinality(D)
  BY <1>2 DEF ValidProxies
<1>5. ip \in Injection(D, ips)
  <2> HIDE DEF D, ips, ip
  <2> QED BY <1>2, <1>3, <1>4, FS_Surjection
<1>6. \A i, j \in D : ip[i] = ip[j] => i = j
  BY <1>5 DEF Injection, IsInjective
<1> QED BY <1>1, <1>6

(* The names of the numbers.                                               *)
LEMMA TheNumbers ==
  Numbers = {"sessionTtlSeconds", "idleTtlSeconds", "sessionRenewalSeconds", "maxSessions",
             "loginWindowSeconds", "loginMaxAttempts", "loginBlockSeconds",
             "loginTokenWindowSeconds", "loginTokenMaxAttempts", "loginTokenBlockSeconds"}
BY DEF Numbers, Default

(***************************************************************************)
(* Whatever resolveConfig() activates, sessions and limits can be kept     *)
(* with: for every row of settings, not only those that are tried.         *)
(***************************************************************************)
LEMMA ActivatedIsUsable ==
  ASSUME NEW row, NEW own, Activates(row, own),
         \E S : row.trustedProxyAddresses \in Seq(S)
  PROVE  Usable(row)
<1>1. /\ row["sessionTtlSeconds"] \in 60 .. Hours(30 * 24)
      /\ row["idleTtlSeconds"] \in 60 .. row["sessionTtlSeconds"]
      /\ row["sessionRenewalSeconds"]
           \in 1 .. Min({row["sessionTtlSeconds"], row["idleTtlSeconds"]})
      /\ row["maxSessions"] \in 1 .. 1024
      /\ row["loginWindowSeconds"] \in 1 .. Hours(1) /\ row["loginMaxAttempts"] \in 1 .. 100
      /\ row["loginBlockSeconds"] \in 1 .. Hours(24)
      /\ row["loginTokenWindowSeconds"] \in 1 .. Hours(1)
      /\ row["loginTokenMaxAttempts"] \in 1 .. 100
      /\ row["loginTokenBlockSeconds"] \in 1 .. Hours(24)
  BY TheNumbers DEF Activates, Resolves, ValidNumbers, Bounds
<1>h. Hours(30 * 24) \in Int /\ Hours(24) \in Int /\ Hours(1) \in Int
  BY SMT DEF Hours
<1>2. /\ row["sessionRenewalSeconds"] \in Int /\ row["sessionRenewalSeconds"] > 0
      /\ row["sessionRenewalSeconds"] <= row["idleTtlSeconds"]
  <2> DEFINE ttl == row["sessionTtlSeconds"]
             idle == row["idleTtlSeconds"]
  <2>1. ttl \in Int /\ idle \in Int
    BY <1>1, <1>h
  <2> HIDE DEF ttl, idle
  <2>2. Min({ttl, idle}) \in Int /\ Min({ttl, idle}) <= idle
    BY <2>1, MinOfTwo
  <2>3. row["sessionRenewalSeconds"] \in 1 .. Min({ttl, idle})
    BY <1>1 DEF ttl, idle
  <2> QED BY <2>1, <2>2, <2>3 DEF idle
<1>3. \A n \in Numbers : row[n] > 0
  <2>1. row["sessionTtlSeconds"] > 0 /\ row["idleTtlSeconds"] > 0
    BY <1>1, <1>h
  <2>p. ASSUME NEW b \in Int, NEW n \in 1 .. b PROVE n > 0
    OBVIOUS
  <2>2. /\ row["maxSessions"] > 0 /\ row["loginMaxAttempts"] > 0
        /\ row["loginTokenMaxAttempts"] > 0
    <3>1. PICK k \in Int, c \in Int : k = 1024 /\ c = 100
      OBVIOUS
    <3>2. /\ row["maxSessions"] \in 1 .. k /\ row["loginMaxAttempts"] \in 1 .. c
          /\ row["loginTokenMaxAttempts"] \in 1 .. c
      BY <1>1, <3>1, Zenon
    <3> QED BY <2>p, <3>2
  <2>3. /\ row["loginWindowSeconds"] > 0 /\ row["loginBlockSeconds"] > 0
        /\ row["loginTokenWindowSeconds"] > 0 /\ row["loginTokenBlockSeconds"] > 0
    BY <1>1, <1>h, <2>p
  <2> QED BY <1>2, <2>1, <2>2, <2>3, TheNumbers
<1>4. ValidProxies(row.trustedProxyAddresses)
  BY DEF Activates, Resolves
<1> QED BY <1>1, <1>2, <1>3, <1>4, ValidProxiesDiffer DEF Usable

(* The environment that setup writes.                                      *)
EnvironmentKeys ==
  {"authStateFile", "sessionSecretFile", "expectedVersion", "nativeAuthBridge",
   "loginTokenEnabled", "loginTokenDirectory", "loginTokenFailureMessageZh",
   "loginTokenFailureMessageEn", "secureCookies"}

SetUp(e, r, version) ==
  /\ DOMAIN e = EnvironmentKeys \cup (IF r.loginToken = "enabled" THEN DOMAIN TokenLimits ELSE {})
  /\ e.authStateFile = "document" /\ e.sessionSecretFile = [bytes |-> 43, nul |-> FALSE]
  /\ e.expectedVersion = version
  /\ (e.loginTokenEnabled <=> r.loginToken = "enabled")
  /\ e.loginTokenDirectory = (IF r.loginToken = "enabled" THEN "login-tokens" ELSE "absent")
  /\ e.loginTokenFailureMessageZh \in {"absent", "plain"}
  /\ e.loginTokenFailureMessageEn \in {"absent", "plain"}
  /\ r.loginToken = "enabled" => \A n \in DOMAIN TokenLimits : e[n] = TokenLimits[n]

(* Setup writes all of these, and the limits when tokens are enabled.      *)
LEMMA EnvironmentHas ==
  ASSUME NEW r, NEW version
  PROVE  SetUp(Environment(r, version), r, version)
<1> DEFINE e == Environment(r, version)
           tokens == r.loginToken = "enabled"
           message == IF tokens /\ r.messages THEN "plain" ELSE "absent"
           secure == r.mode = "https" \/ r.behindTlsProxy
           directory == IF tokens THEN "login-tokens" ELSE "absent"
           own == [authStateFile |-> "document",
                   sessionSecretFile |-> [bytes |-> 43, nul |-> FALSE],
                   expectedVersion |-> version, nativeAuthBridge |-> TRUE,
                   loginTokenEnabled |-> tokens, loginTokenDirectory |-> directory,
                   loginTokenFailureMessageZh |-> message,
                   loginTokenFailureMessageEn |-> message, secureCookies |-> secure]
           limits == IF tokens THEN TokenLimits ELSE << >>
<1>1. e = own ++ limits
  BY DEF Environment
<1> HIDE DEF e
<1>2. /\ DOMAIN own = EnvironmentKeys
      /\ own["authStateFile"] = "document"
      /\ own["sessionSecretFile"] = [bytes |-> 43, nul |-> FALSE]
      /\ own["expectedVersion"] = version
      /\ own["loginTokenEnabled"] = tokens /\ own["loginTokenDirectory"] = directory
      /\ own["loginTokenFailureMessageZh"] = message
      /\ own["loginTokenFailureMessageEn"] = message
  <2> HIDE DEF tokens, message, secure, directory
  <2> QED BY DEF EnvironmentKeys
<1>3. message \in {"absent", "plain"}
  OBVIOUS
<1>4. DOMAIN limits = IF tokens THEN DOMAIN TokenLimits ELSE {}
  OBVIOUS
<1>5. DOMAIN TokenLimits \cap EnvironmentKeys = {}
  BY DEF TokenLimits, EnvironmentKeys
<1>6. tokens => limits = TokenLimits
  OBVIOUS
<1> HIDE DEF own, limits, message
<1>7. /\ DOMAIN e = DOMAIN own \cup DOMAIN limits
      /\ \A x \in DOMAIN own : e[x] = own[x]
      /\ \A x \in DOMAIN limits \ DOMAIN own : e[x] = limits[x]
  <2> HIDE DEF tokens, directory, secure
  <2>1. /\ DOMAIN (own ++ limits) = DOMAIN own \cup DOMAIN limits
        /\ \A x \in DOMAIN own : (own ++ limits)[x] = own[x]
        /\ \A x \in DOMAIN limits \ DOMAIN own : (own ++ limits)[x] = limits[x]
    BY PartsOf, Zenon
  <2> QED BY <1>1, <2>1, Zenon
<1>8. /\ e["authStateFile"] = own["authStateFile"]
      /\ e["sessionSecretFile"] = own["sessionSecretFile"]
      /\ e["expectedVersion"] = own["expectedVersion"]
      /\ e["loginTokenEnabled"] = own["loginTokenEnabled"]
      /\ e["loginTokenDirectory"] = own["loginTokenDirectory"]
      /\ e["loginTokenFailureMessageZh"] = own["loginTokenFailureMessageZh"]
      /\ e["loginTokenFailureMessageEn"] = own["loginTokenFailureMessageEn"]
  BY <1>2, <1>7 DEF EnvironmentKeys
<1>9. tokens => \A n \in DOMAIN TokenLimits : e[n] = TokenLimits[n]
  BY <1>2, <1>4, <1>5, <1>6, <1>7
<1> HIDE DEF tokens
<1>10. /\ e.loginTokenFailureMessageZh \in {"absent", "plain"}
       /\ e.loginTokenFailureMessageEn \in {"absent", "plain"}
  BY <1>2, <1>3, <1>8
<1>11. /\ e.authStateFile = "document" /\ e.sessionSecretFile = [bytes |-> 43, nul |-> FALSE]
       /\ e.expectedVersion = version
       /\ (e.loginTokenEnabled <=> tokens) /\ e.loginTokenDirectory = directory
  <2> HIDE DEF directory
  <2> QED BY <1>2, <1>8
<1>12. DOMAIN e = EnvironmentKeys \cup IF tokens THEN DOMAIN TokenLimits ELSE {}
  BY <1>2, <1>4, <1>7
<1> QED BY <1>9, <1>10, <1>11, <1>12 DEF tokens, e, SetUp

(* A row has setup's settings, numbers that an operator adds where setup   *)
(* gives none, and the defaults where neither does.                        *)
LEMMA RowHas ==
  ASSUME NEW r, NEW version, NEW added, DOMAIN added.numbers \subseteq Numbers,
         NEW row, row = Row(Environment(r, version), added)
  PROVE  /\ DOMAIN row = AllowedKeys
         /\ \A x \in EnvironmentKeys : row[x] = Environment(r, version)[x]
         /\ row.trustedProxyAddresses = added.proxies
         /\ row.externalIdentity = added.external /\ row.gatewayIdentity = added.gateway
         /\ \A n \in Numbers :
              row[n] = IF r.loginToken = "enabled" /\ n \in DOMAIN TokenLimits THEN TokenLimits[n]
                       ELSE IF n \in DOMAIN added.numbers THEN added.numbers[n] ELSE Default[n]
<1> DEFINE e == Environment(r, version)
           given == added.numbers
           rest == [trustedProxyAddresses |-> added.proxies,
                    externalIdentity |-> added.external, gatewayIdentity |-> added.gateway]
           a == e ++ given
           b == a ++ Default
           c == b ++ rest
<1>1. row = c
  BY DEF Row
<1>2. /\ DOMAIN e = EnvironmentKeys \cup
                      IF r.loginToken = "enabled" THEN DOMAIN TokenLimits ELSE {}
      /\ r.loginToken = "enabled" => \A n \in DOMAIN TokenLimits : e[n] = TokenLimits[n]
  <2>1. SetUp(e, r, version)
    BY EnvironmentHas
  <2> HIDE DEF e
  <2> QED BY <2>1 DEF SetUp
<1>3. /\ DOMAIN rest = {"trustedProxyAddresses", "externalIdentity", "gatewayIdentity"}
      /\ rest["trustedProxyAddresses"] = added.proxies
      /\ rest["externalIdentity"] = added.external /\ rest["gatewayIdentity"] = added.gateway
  OBVIOUS
<1>4. DOMAIN Default = Numbers
  BY DEF Numbers
<1>5. /\ EnvironmentKeys \cap Numbers = {} /\ DOMAIN TokenLimits \subseteq Numbers
      /\ DOMAIN rest \cap (EnvironmentKeys \cup Numbers) = {}
      /\ AllowedKeys = Numbers \cup EnvironmentKeys \cup DOMAIN rest
  BY <1>3, TheNumbers DEF EnvironmentKeys, AllowedKeys, TokenLimits
<1> HIDE DEF e, given, rest
<1>6. /\ DOMAIN a = DOMAIN e \cup DOMAIN given
      /\ \A x \in DOMAIN e : a[x] = e[x]
      /\ \A x \in DOMAIN given \ DOMAIN e : a[x] = given[x]
  BY PartsOf, Zenon
<1> HIDE DEF a
<1>7. /\ DOMAIN b = DOMAIN a \cup DOMAIN Default
      /\ \A x \in DOMAIN a : b[x] = a[x]
      /\ \A x \in DOMAIN Default \ DOMAIN a : b[x] = Default[x]
  BY PartsOf, Zenon
<1> HIDE DEF b
<1>8. /\ DOMAIN c = DOMAIN b \cup DOMAIN rest
      /\ \A x \in DOMAIN b : c[x] = b[x]
      /\ \A x \in DOMAIN rest \ DOMAIN b : c[x] = rest[x]
  BY PartsOf, Zenon
<1> HIDE DEF c
<1>g. DOMAIN given \subseteq Numbers
  BY DEF given
<1>d. DOMAIN b = EnvironmentKeys \cup Numbers
  BY <1>2, <1>4, <1>5, <1>6, <1>7, <1>g
<1>9. DOMAIN c = AllowedKeys
  BY <1>5, <1>8, <1>d
<1>10. \A x \in EnvironmentKeys : c[x] = e[x]
  <2> TAKE x \in EnvironmentKeys
  <2>1. x \in DOMAIN e
    BY <1>2
  <2> QED BY <2>1, <1>6, <1>7, <1>8
<1>11. /\ c["trustedProxyAddresses"] = added.proxies
       /\ c["externalIdentity"] = added.external /\ c["gatewayIdentity"] = added.gateway
  BY <1>3, <1>5, <1>8, <1>d
<1>12. \A n \in Numbers :
         c[n] = IF r.loginToken = "enabled" /\ n \in DOMAIN TokenLimits THEN TokenLimits[n]
                ELSE IF n \in DOMAIN given THEN given[n] ELSE Default[n]
  <2> TAKE n \in Numbers
  <2>1. c[n] = b[n]
    BY <1>8, <1>d
  <2>2. CASE r.loginToken = "enabled" /\ n \in DOMAIN TokenLimits
    BY <1>2, <1>6, <1>7, <2>1, <2>2
  <2>3. CASE ~(r.loginToken = "enabled" /\ n \in DOMAIN TokenLimits) /\ n \in DOMAIN given
    <3>1. n \notin DOMAIN e
      BY <1>2, <1>5, <2>3
    <3> QED BY <1>6, <1>7, <2>1, <2>3, <3>1
  <2>4. CASE ~(r.loginToken = "enabled" /\ n \in DOMAIN TokenLimits) /\ n \notin DOMAIN given
    <3>1. n \notin DOMAIN e
      BY <1>2, <1>5, <2>4
    <3> QED BY <1>4, <1>6, <1>7, <2>1, <2>4, <3>1
  <2> QED BY <2>2, <2>3, <2>4
<1> QED BY <1>1, <1>9, <1>10, <1>11, <1>12 DEF e, given

(* With setup's environment and nothing added, the build of setup          *)
(* activates.                                                              *)
LEMMA SetupActivates ==
  ASSUME NEW r, NEW version \in {"absent", "own"}
  PROVE  Activates(Row(Environment(r, version), NothingAdded), "own")
<1> DEFINE e == Environment(r, version)
           row == Row(e, NothingAdded)
<1>0. /\ DOMAIN NothingAdded.numbers = {} /\ NothingAdded.proxies = Loopbacks
      /\ NothingAdded.external = NoProvider /\ NothingAdded.gateway = NoProvider
  BY DEF NothingAdded
<1>1. /\ DOMAIN row = AllowedKeys
      /\ \A x \in EnvironmentKeys : row[x] = e[x]
      /\ row.trustedProxyAddresses = Loopbacks
      /\ row.externalIdentity = NoProvider /\ row.gatewayIdentity = NoProvider
      /\ \A n \in Numbers :
           row[n] = IF r.loginToken = "enabled" /\ n \in DOMAIN TokenLimits THEN TokenLimits[n]
                    ELSE Default[n]
  BY <1>0, RowHas
<1>2. /\ e.authStateFile = "document" /\ e.sessionSecretFile = [bytes |-> 43, nul |-> FALSE]
      /\ e.expectedVersion = version
      /\ (e.loginTokenEnabled <=> r.loginToken = "enabled")
      /\ e.loginTokenDirectory = IF r.loginToken = "enabled" THEN "login-tokens" ELSE "absent"
      /\ e.loginTokenFailureMessageZh \in {"absent", "plain"}
      /\ e.loginTokenFailureMessageEn \in {"absent", "plain"}
  <2>1. SetUp(e, r, version)
    BY EnvironmentHas
  <2> HIDE DEF e
  <2> QED BY <2>1 DEF SetUp
<1> HIDE DEF row, e
<1>3. /\ row.authStateFile = e.authStateFile
      /\ row.sessionSecretFile = e.sessionSecretFile
      /\ row.expectedVersion = e.expectedVersion
      /\ row.loginTokenEnabled = e.loginTokenEnabled
      /\ row.loginTokenDirectory = e.loginTokenDirectory
      /\ row.loginTokenFailureMessageZh = e.loginTokenFailureMessageZh
      /\ row.loginTokenFailureMessageEn = e.loginTokenFailureMessageEn
  BY <1>1 DEF EnvironmentKeys
<1>4. \A n \in Numbers : row[n] = Default[n]
  <2>1. \A n \in DOMAIN TokenLimits : TokenLimits[n] = Default[n]
    BY DEF TokenLimits, Default
  <2> QED BY <1>1, <2>1
<1>5. ValidNumbers(row)
  <2>1. /\ row.sessionTtlSeconds = Hours(72) /\ row.idleTtlSeconds = Hours(72)
        /\ row.sessionRenewalSeconds = Hours(1) /\ row.maxSessions = 16
        /\ row.loginWindowSeconds = 60 /\ row.loginMaxAttempts = 5
        /\ row.loginBlockSeconds = 300 /\ row.loginTokenWindowSeconds = 60
        /\ row.loginTokenMaxAttempts = 10 /\ row.loginTokenBlockSeconds = 300
    BY <1>4, TheNumbers DEF Default
  <2>2. /\ Hours(72) \in 60 .. Hours(30 * 24) /\ Hours(72) \in 60 .. Hours(72)
        /\ Hours(1) \in 1 .. Hours(72) /\ 60 \in 1 .. Hours(1) /\ 300 \in 1 .. Hours(24)
        /\ Hours(72) \in Int
    <3>1. /\ Hours(72) \in Int /\ Hours(30 * 24) \in Int /\ Hours(1) \in Int
          /\ Hours(24) \in Int /\ 60 <= Hours(72) /\ Hours(72) <= Hours(30 * 24)
          /\ 1 <= Hours(1) /\ Hours(1) <= Hours(72) /\ 60 <= Hours(1) /\ 300 <= Hours(24)
      BY SMT DEF Hours
    <3> QED BY <3>1
  <2>4. 16 \in 1 .. 1024 /\ 5 \in 1 .. 100 /\ 10 \in 1 .. 100
    OBVIOUS
  <2>5. /\ Bounds(row)["sessionTtlSeconds"] = 60 .. Hours(30 * 24)
        /\ Bounds(row)["idleTtlSeconds"] = 60 .. row.sessionTtlSeconds
        /\ Bounds(row)["sessionRenewalSeconds"] =
             1 .. Min({row.sessionTtlSeconds, row.idleTtlSeconds})
        /\ Bounds(row)["maxSessions"] = 1 .. 1024
        /\ Bounds(row)["loginWindowSeconds"] = 1 .. Hours(1)
        /\ Bounds(row)["loginMaxAttempts"] = 1 .. 100
        /\ Bounds(row)["loginBlockSeconds"] = 1 .. Hours(24)
        /\ Bounds(row)["loginTokenWindowSeconds"] = 1 .. Hours(1)
        /\ Bounds(row)["loginTokenMaxAttempts"] = 1 .. 100
        /\ Bounds(row)["loginTokenBlockSeconds"] = 1 .. Hours(24)
    BY DEF Bounds
  <2> DEFINE B == Bounds(row)
  <2> HIDE DEF B
  <2>6. /\ row["sessionTtlSeconds"] \in B["sessionTtlSeconds"]
        /\ row["idleTtlSeconds"] \in B["idleTtlSeconds"]
        /\ row["sessionRenewalSeconds"] \in B["sessionRenewalSeconds"]
    <3>1. Bounds(row)["idleTtlSeconds"] = 60 .. Hours(72)
      BY <2>1, <2>5, Zenon
    <3>2. Bounds(row)["sessionRenewalSeconds"] = 1 .. Hours(72)
      <4>1. Min({row.sessionTtlSeconds, row.idleTtlSeconds}) = Hours(72)
        BY <2>1, <2>2, MinOfTwo
      <4> QED BY <2>5, <4>1, Zenon
    <3>3. row["sessionTtlSeconds"] \in Bounds(row)["sessionTtlSeconds"]
      BY <2>1, <2>2, <2>5, Zenon
    <3>4. row["idleTtlSeconds"] \in Bounds(row)["idleTtlSeconds"]
      <4>1. row["idleTtlSeconds"] = Hours(72)
        BY <2>1
      <4>2. Hours(72) \in 60 .. Hours(72)
        BY <2>2
      <4> QED BY <3>1, <4>1, <4>2, Zenon
    <3>5. row["sessionRenewalSeconds"] \in Bounds(row)["sessionRenewalSeconds"]
      BY <2>1, <2>2, <3>2, Zenon
    <3> QED BY <3>3, <3>4, <3>5, Zenon DEF B
  <2>7. /\ row["maxSessions"] \in B["maxSessions"]
        /\ row["loginMaxAttempts"] \in B["loginMaxAttempts"]
        /\ row["loginTokenMaxAttempts"] \in B["loginTokenMaxAttempts"]
    <3>1. PICK sessions \in Int, k \in Int, password \in Int, token \in Int, c \in Int :
             sessions = 16 /\ k = 1024 /\ password = 5 /\ token = 10 /\ c = 100
      OBVIOUS
    <3>2. /\ sessions \in 1 .. k /\ row["maxSessions"] = sessions
          /\ B["maxSessions"] = 1 .. k
      BY <2>1, <2>4, <2>5, <3>1, Zenon DEF B
    <3>3. /\ password \in 1 .. c /\ row["loginMaxAttempts"] = password
          /\ B["loginMaxAttempts"] = 1 .. c
      BY <2>1, <2>4, <2>5, <3>1, Zenon DEF B
    <3>4. /\ token \in 1 .. c /\ row["loginTokenMaxAttempts"] = token
          /\ B["loginTokenMaxAttempts"] = 1 .. c
      BY <2>1, <2>4, <2>5, <3>1, Zenon DEF B
    <3> QED BY <3>2, <3>3, <3>4, Zenon
  <2>8. /\ row["loginWindowSeconds"] \in B["loginWindowSeconds"]
        /\ row["loginBlockSeconds"] \in B["loginBlockSeconds"]
        /\ row["loginTokenWindowSeconds"] \in B["loginTokenWindowSeconds"]
        /\ row["loginTokenBlockSeconds"] \in B["loginTokenBlockSeconds"]
    BY <2>1, <2>2, <2>5, Zenon DEF B
  <2>9. \A n \in Numbers : row[n] \in B[n]
    BY <2>6, <2>7, <2>8, TheNumbers
  <2> QED BY <2>9 DEF ValidNumbers, B
<1>6. ValidProxies(Loopbacks)
  <2> DEFINE ips == {Loopbacks[i].ip : i \in DOMAIN Loopbacks}
  <2>1. Len(Loopbacks) = 2 /\ DOMAIN Loopbacks = {1, 2}
    BY DEF Loopbacks
  <2>2. ips = {"127.0.0.1", "::1"}
    BY <2>1 DEF Loopbacks, Address
  <2>3. Cardinality({"127.0.0.1", "::1"}) = 2
    <3> DEFINE four == "127.0.0.1"
               six == "::1"
    <3>0. four # six
      OBVIOUS
    <3> HIDE DEF four, six
    <3>1. Cardinality({four} \cup {six}) = 2
      <4>1. IsFiniteSet({four}) /\ Cardinality({four}) = 1
        BY FS_Singleton
      <4>2. Cardinality({four} \cup {six}) =
               IF six \in {four} THEN Cardinality({four}) ELSE Cardinality({four}) + 1
        BY <4>1, FS_AddElement
      <4> QED BY <3>0, <4>1, <4>2
    <3>2. {four} \cup {six} = {four, six}
      OBVIOUS
    <3> QED BY <3>1, <3>2 DEF four, six
  <2>4. Cardinality(ips) = Len(Loopbacks) /\ "a name" \notin ips
    BY <2>1, <2>2, <2>3, Zenon
  <2>5. Len(Loopbacks) \in 1 .. 32
    BY <2>1
  <2> QED BY <2>4, <2>5, Zenon DEF ValidProxies
<1>7. ValidExternal(NoProvider) /\ ValidGateway(NoProvider)
  BY DEF ValidExternal, ValidGateway, NoProvider
<1>8. ValidSecret([bytes |-> 43, nul |-> FALSE])
  BY DEF ValidSecret
<1>9. ValidMarker(version, "own")
  BY DEF ValidMarker
<1>10. ValidTokens(row)
  <2>1. row.loginTokenEnabled <=> r.loginToken = "enabled"
    BY <1>2, <1>3, Zenon
  <2>2. row.loginTokenDirectory = IF r.loginToken = "enabled" THEN "login-tokens" ELSE "absent"
    BY <1>2, <1>3, Zenon
  <2> QED BY <2>1, <2>2 DEF ValidTokens
<1>11. ValidMessage(row.loginTokenFailureMessageZh) /\ ValidMessage(row.loginTokenFailureMessageEn)
  BY <1>2, <1>3 DEF ValidMessage
<1>12. ~Dormant(row)
  BY <1>2, <1>3 DEF Dormant
<1>13. Resolves(row, "own")
  BY <1>1, <1>2, <1>3, <1>5, <1>6, <1>7, <1>8, <1>9, <1>10, <1>11, Zenon DEF Resolves
<1> QED BY <1>12, <1>13 DEF Activates, row, e

(* What an operator may add is numbers that are settings, and a list of    *)
(* proxies.                                                                *)
LEMMA AdditionsFit ==
  ASSUME NEW added \in Additions
  PROVE  DOMAIN added.numbers \subseteq Numbers /\ \E S : added.proxies \in Seq(S)
<1> DEFINE S == {Address("127.0.0.1", FALSE), Address("127.0.0.1", TRUE),
                 Address("a name", FALSE)}
           Durations == {"sessionTtlSeconds", "idleTtlSeconds", "sessionRenewalSeconds"}
           Values == {NaN, 0, 1, 100, 101, 1024, 1025, Hours(1), Hours(1) + 1,
                      Hours(24), Hours(24) + 1}
<1>1. DOMAIN NothingAdded.numbers = {} /\ NothingAdded.proxies = Loopbacks
  BY DEF NothingAdded
<1>2. \E T : Loopbacks \in Seq(T)
  <2>1. Loopbacks \in Seq({Address("127.0.0.1", FALSE), Address("::1", FALSE)})
    BY DEF Loopbacks
  <2> QED BY <2>1
<1>3. ASSUME NEW n PROVE /\ [NothingAdded EXCEPT !.numbers = n].numbers = n
                         /\ [NothingAdded EXCEPT !.numbers = n].proxies = Loopbacks
  BY DEF NothingAdded
<1>4. ASSUME NEW p PROVE /\ [NothingAdded EXCEPT !.proxies = p].proxies = p
                         /\ DOMAIN [NothingAdded EXCEPT !.proxies = p].numbers = {}
  BY DEF NothingAdded
<1>5. ASSUME NEW p PROVE /\ [NothingAdded EXCEPT !.external = p].proxies = Loopbacks
                         /\ DOMAIN [NothingAdded EXCEPT !.external = p].numbers = {}
                         /\ [NothingAdded EXCEPT !.gateway = p].proxies = Loopbacks
                         /\ DOMAIN [NothingAdded EXCEPT !.gateway = p].numbers = {}
  BY DEF NothingAdded
<1>6. Durations \subseteq Numbers
  BY TheNumbers
<1> HIDE DEF S, Durations, Values
<1>7. CASE \E given \in Partial(Durations, SomeDurations) :
             added = [NothingAdded EXCEPT !.numbers = given]
  <2>1. PICK given \in Partial(Durations, SomeDurations) :
               added = [NothingAdded EXCEPT !.numbers = given]
    BY <1>7
  <2>2. DOMAIN given \subseteq Durations
    BY DEF Partial
  <2> QED BY <1>2, <1>3, <1>6, <2>1, <2>2
<1>8. CASE \E given \in UNION {[{n} -> Values] : n \in Numbers} :
             added = [NothingAdded EXCEPT !.numbers = given]
  <2>1. PICK given \in UNION {[{n} -> Values] : n \in Numbers} :
               added = [NothingAdded EXCEPT !.numbers = given]
    BY <1>8
  <2>2. DOMAIN given \subseteq Numbers
    OBVIOUS
  <2> QED BY <1>2, <1>3, <2>1, <2>2
<1>9. CASE \E list \in SeqOf(S, 2) : added = [NothingAdded EXCEPT !.proxies = list]
  <2>1. PICK list \in SeqOf(S, 2) : added = [NothingAdded EXCEPT !.proxies = list]
    BY <1>9
  <2>2. list \in Seq(S)
    <3>1. PICK m \in 0 .. 2 : list \in [1 .. m -> S]
      BY DEF SeqOf
    <3>2. m \in Nat
      OBVIOUS
    <3> QED BY <3>1, <3>2
  <2> QED BY <1>4, <2>1, <2>2
<1>10. CASE \E provider \in Providers :
              \/ added = [NothingAdded EXCEPT !.external = provider]
              \/ added = [NothingAdded EXCEPT !.gateway = provider]
  BY <1>2, <1>5, <1>10
<1> QED BY <1>7, <1>8, <1>9, <1>10, Zenon DEF Additions, S, Durations, Values

(* What the environment gives, the row has.                                *)
LEMMA RowBegins ==
  ASSUME NEW e, NEW added, NEW x \in DOMAIN e
  PROVE  Row(e, added)[x] = e[x]
BY DEF Row, ++

(* Nothing wakes a plugin whose service has no drop-in.                    *)
LEMMA StaysDormant ==
  ASSUME NEW added
  PROVE  Dormant(Row(NoEnvironment, added))
<1>1. /\ NoEnvironment.authStateFile = "absent" /\ NoEnvironment.sessionSecretFile = NoSecret
      /\ {"authStateFile", "sessionSecretFile"} \subseteq DOMAIN NoEnvironment
  BY DEF NoEnvironment
<1>2. /\ Row(NoEnvironment, added)["authStateFile"] = NoEnvironment["authStateFile"]
      /\ Row(NoEnvironment, added)["sessionSecretFile"] = NoEnvironment["sessionSecretFile"]
  BY <1>1, RowBegins
<1> QED BY <1>1, <1>2 DEF Dormant

(* Another build than that of setup activates only where no version is     *)
(* recorded.                                                               *)
LEMMA OnlyTheBuildOfSetup ==
  ASSUME NEW r, NEW version, NEW added, NEW own,
         Activates(Row(Environment(r, version), added), own)
  PROVE  version \in {"absent", own}
<1> DEFINE e == Environment(r, version)
<1>1. SetUp(e, r, version)
  BY EnvironmentHas
<1> HIDE DEF e
<1>2. "expectedVersion" \in DOMAIN e /\ e["expectedVersion"] = version
  BY <1>1 DEF SetUp, EnvironmentKeys
<1>3. Row(e, added)["expectedVersion"] = version
  BY <1>2, RowBegins
<1> QED BY <1>3 DEF e, Activates, Resolves, ValidMarker

(***************************************************************************)
(* What setup accepts it also accepts as complete; later commands read a   *)
(* valid request from the record and render the same from it; and the      *)
(* plugin of the build that set up activates.  For every request, and for  *)
(* every marker that setup writes.                                         *)
(***************************************************************************)
THEOREM AnyRequestLasts ==
  ASSUME NEW r, IsRequest(r), NEW marker \in {"absent", "own"}
  PROVE  LET recorded == ReadBack(r)
             environment == Environment(recorded, marker)
         IN  /\ Accepted(r) /\ WithDefaults(r) = r
             /\ Valid(recorded)
             /\ environment = Environment(r, marker)
             /\ PublicOrigin(recorded) = PublicOrigin(r)
             /\ HasAdministrator(r) \/ environment.loginTokenEnabled
             /\ Activates(Row(environment, NothingAdded), "own")
<1>1. IsLine(r) /\ Accepted(r) /\ WithDefaults(r) = r
  BY DEF IsRequest
<1>2. /\ Valid(ReadBack(r))
      /\ Environment(ReadBack(r), marker) = Environment(r, marker)
      /\ PublicOrigin(ReadBack(r)) = PublicOrigin(r)
      /\ HasAdministrator(r) \/ Environment(r, marker).loginTokenEnabled
  BY <1>1, RecordRendersTheSame
<1>3. Activates(Row(Environment(r, marker), NothingAdded), "own")
  BY SetupActivates
<1> QED BY <1>1, <1>2, <1>3

(***************************************************************************)
(* Whatever numbers and proxies an operator adds to what setup wrote: if   *)
(* the plugin activates, sessions and limits can be kept with it; another  *)
(* build than the recorded one does not; and none does without the         *)
(* drop-in.                                                                *)
(***************************************************************************)
THEOREM AnyAdditionIsUsable ==
  ASSUME NEW r, NEW marker \in {"absent", "own"}, NEW added,
         DOMAIN added.numbers \subseteq Numbers, \E S : added.proxies \in Seq(S)
  PROVE  LET environment == Environment(r, marker)
         IN  /\ Activates(Row(environment, added), "own") => Usable(Row(environment, added))
             /\ Activates(Row(environment, added), "another") => marker = "absent"
             /\ Dormant(Row(NoEnvironment, added))
<1> DEFINE row == Row(Environment(r, marker), added)
<1>1. row.trustedProxyAddresses = added.proxies
  BY RowHas
<1>2. Activates(row, "own") => Usable(row)
  <2> HIDE DEF row
  <2> QED BY <1>1, ActivatedIsUsable
<1>3. Activates(row, "another") => marker = "absent"
  BY OnlyTheBuildOfSetup
<1>4. Dormant(Row(NoEnvironment, added))
  BY StaysDormant
<1> QED BY <1>2, <1>3, <1>4

(* Of the requests and additions that the runs try.                        *)
LEMMA RequestsDoLast == RequestsLast
<1>1. Marker \in {"absent", "own"} /\ (Marker = "absent" => output)
  BY DEF Marker
<1>2. ASSUME NEW r \in Requests, NEW added \in Additions
      PROVE  LET environment == Environment(r, Marker)
             IN  /\ Activates(Row(environment, added), "own") => Usable(Row(environment, added))
                 /\ Activates(Row(environment, added), "another") => output
                 /\ Dormant(Row(NoEnvironment, added))
  <2>1. DOMAIN added.numbers \subseteq Numbers /\ \E S : added.proxies \in Seq(S)
    BY AdditionsFit
  <2> QED BY <1>1, <2>1, AnyAdditionIsUsable
<1> QED BY <1>1, <1>2, RequestsAreLines, AnyRequestLasts, Zenon DEF RequestsLast

(***************************************************************************)
(* A request that setup has accepted lasts: later commands accept it from  *)
(* the record and render the same from it, the plugin activates with it,   *)
(* and what activates can keep sessions and limits.                        *)
(***************************************************************************)
THEOREM AcceptedRequestsLast == Spec => AcceptedRequestLasts
<1>1. [FirstSetup => RequestsLast]_vars
  BY RequestsDoLast
<1> QED BY <1>1, PTL DEF AcceptedRequestLasts

-----------------------------------------------------------------------------
(***************************************************************************)
(* Credentials.                                                            *)
(***************************************************************************)
(* A text of any length.                                                   *)
IsText(t) ==
  /\ t = [points |-> t.points, width |-> t.width, edged |-> t.edged, control |-> t.control,
          lines |-> t.lines, composed |-> t.composed]
  /\ t.points \in Nat /\ t.width \in 1 .. 4
  /\ t.edged \in BOOLEAN /\ t.control \in BOOLEAN /\ t.lines \in BOOLEAN
  /\ t.composed \in BOOLEAN

(* An oddity leaves a text a text.                                         *)
LEMMA OddIsText ==
  ASSUME NEW t, IsText(t), NEW x \in Odd(t)
  PROVE  IsText(x)
BY DEF Odd, IsText

(* So is a text without one.                                               *)
LEMMA PlainIsText ==
  ASSUME NEW n \in Nat, NEW w \in 1 .. 4
  PROVE  IsText(Text(n, w))
BY DEF Text, IsText

(* What people choose are texts.                                           *)
LEMMA ChosenAreTexts ==
  ASSUME NEW choice \in Choosing
  PROVE  IsText(choice[1]) /\ IsText(choice[2])
<1>1. \A x \in Usernames \cup Passwords : IsText(x)
  <2> TAKE x \in Usernames \cup Passwords
  <2>1. PICK n \in Nat, w \in 1 .. 4 : x \in Odd(Text(n, w))
    BY DEF Usernames, Passwords
  <2> QED BY <2>1, PlainIsText, OddIsText
<1>2. \A x \in {Text(15, 1), Text(128, 4), Text(1, 1), Text(64, 4)} : IsText(x)
  BY PlainIsText
<1> QED BY <1>1, <1>2 DEF Choosing

(* A hash is one that is read again, of that password.                     *)
LEMMA HashServes ==
  ASSUME NEW word
  PROVE  Parses(HashOf(word)) /\ HashOf(word).password = word
<1> DEFINE h == HashOf(word)
           rest == [salt |-> 16, password |-> word]
<1>1. /\ DOMAIN DefaultParameters = {"memory", "passes", "parallelism", "tag"}
      /\ DefaultParameters["memory"] = 64 * 1024 /\ DefaultParameters["passes"] = 3
      /\ DefaultParameters["parallelism"] = 1 /\ DefaultParameters["tag"] = 32
  BY DEF DefaultParameters
<1>2. DOMAIN rest = {"salt", "password"} /\ rest["salt"] = 16 /\ rest["password"] = word
  OBVIOUS
<1> HIDE DEF rest
<1>3. /\ \A x \in DOMAIN DefaultParameters : (DefaultParameters ++ rest)[x] = DefaultParameters[x]
      /\ \A x \in DOMAIN rest \ DOMAIN DefaultParameters : (DefaultParameters ++ rest)[x] = rest[x]
  BY PartsOf, Zenon
<1>4. h = DefaultParameters ++ rest
  BY DEF HashOf, rest
<1> HIDE DEF h
<1>5. /\ h["memory"] = 64 * 1024 /\ h["passes"] = 3 /\ h["parallelism"] = 1 /\ h["tag"] = 32
      /\ h["salt"] = 16 /\ h["password"] = word
  BY <1>1, <1>2, <1>3, <1>4
<1>6. h["passes"] \in Limits["passes"]
  <2>1. h["passes"] = 3
    BY <1>5
  <2>2. Limits["passes"] = 1 .. 10
    BY DEF Limits
  <2> QED BY <2>1, <2>2
<1>7. h["parallelism"] \in Limits["parallelism"]
  <2>1. h["parallelism"] = 1
    BY <1>5
  <2>2. Limits["parallelism"] = 1 .. 16
    BY DEF Limits
  <2> QED BY <2>1, <2>2
<1>8. h["salt"] \in Limits["salt"]
  <2>1. h["salt"] = 16
    BY <1>5
  <2>2. Limits["salt"] = 16 .. 64
    BY DEF Limits
  <2> QED BY <2>1, <2>2
<1>9. h["tag"] \in Limits["tag"]
  <2>1. h["tag"] = 32
    BY <1>5
  <2>2. Limits["tag"] = 16 .. 64
    BY DEF Limits
  <2> QED BY <2>1, <2>2
<1>10. h["memory"] \in Limits["memory"]
  <2>1. PICK k : k = 1024
    OBVIOUS
  <2>2. h["memory"] = 64 * k
    BY <1>5, <2>1
  <2>3. Limits["memory"] = 8 * k .. k * k
    <3> DEFINE Upward(n) == 8 * n .. n * n
    <3>1. Limits["memory"] = Upward(1024)
      BY DEF Limits
    <3> HIDE DEF Upward
    <3>2. Limits["memory"] = Upward(k)
      BY <2>1, <3>1, Zenon
    <3> QED BY <3>2 DEF Upward
  <2>4. 64 * k \in Int /\ 8 * k <= 64 * k /\ 64 * k <= k * k
    BY <2>1
  <2>5. PICK least \in Int, most \in Int : least = 8 * k /\ most = k * k
    BY <2>1
  <2>6. 64 * k \in least .. most
    BY <2>4, <2>5
  <2> QED BY <2>2, <2>3, <2>5, <2>6
<1>11. \A p \in DOMAIN Limits : h[p] \in Limits[p]
  <2> DEFINE L == Limits
  <2>1. DOMAIN L = {"memory", "passes", "parallelism", "salt", "tag"}
    BY DEF Limits
  <2> HIDE DEF L
  <2> QED BY <1>6, <1>7, <1>8, <1>9, <1>10, <2>1 DEF L
<1> QED BY <1>5, <1>11 DEF Parses, h

(* The bytes and units of a text with at most n points.                    *)
LEMMA SizeOfText ==
  ASSUME NEW t, IsText(t), NEW n \in Nat, t.points <= n
  PROVE  /\ Bytes(t) \in Nat /\ Bytes(t) <= 4 * n
         /\ Units(t) \in Nat /\ Units(t) <= 2 * n
<1>1. /\ t.points \in Nat /\ t.width \in {1, 2, 3, 4}
  BY DEF IsText
<1> QED BY <1>1 DEF Bytes, Units

(* No form with three fields that are valid is too large.                  *)
LEMMA FormFits ==
  ASSUME NEW a, IsText(a), a.points <= 128, NEW b, IsText(b), b.points <= 128,
         NEW target \in ReturnTargets, target.sort = "plain"
  PROVE  FormAccepted(target, <<a, b, b>>)
<1> DEFINE safe == SafeReturnTarget(target)
           back == safe.units * EncodedWidth[safe.sort]
<1>1. safe.units \in 1 .. 4096 /\ safe.sort = "plain"
  BY DEF ReturnTargets, SafeReturnTarget, ReturnTarget, ReturnTargetLimit
<1>2. back \in Nat /\ back <= 3 * 4096
  <2>1. EncodedWidth[safe.sort] = 3
    BY <1>1 DEF EncodedWidth
  <2> HIDE DEF safe
  <2>2. back = safe.units * 3
    BY <2>1
  <2> HIDE DEF back
  <2>3. PICK u : u = safe.units
    OBVIOUS
  <2>4. u \in 1 .. 4096
    BY <1>1, <2>3
  <2>5. back = u * 3
    BY <2>2, <2>3
  <2> QED BY <2>4, <2>5
<1>3. /\ Bytes(a) \in Nat /\ Bytes(a) <= 512 /\ Bytes(b) \in Nat /\ Bytes(b) <= 512
  BY SizeOfText
<1>4. FormAccepted(target, <<a, b, b>>) <=>
        FieldBytes(4, 43) + FieldBytes(8, back) + FieldBytes(16, 3 * Bytes(a))
          + FieldBytes(16, 3 * Bytes(b)) + FieldBytes(16, 3 * Bytes(b)) <= MaxFormBytes
  BY Zenon DEF FormAccepted
<1> HIDE DEF safe, back
<1> QED BY <1>2, <1>3, <1>4 DEF FieldBytes, MaxFormBytes

(* Whoever has a valid name and a valid password, and the document made of *)
(* them, can sign in.                                                      *)
LEMMA ValidServes ==
  ASSUME NEW username, IsText(username), ValidUsername(NormalizedUsername(username)),
         NEW word, IsText(word), ValidPassword(word)
  PROVE  Serves(Stored(NormalizedUsername(username), word), username, word)
<1> DEFINE name == NormalizedUsername(username)
           stored == Stored(name, word)
<1>1. /\ name.points = username.points /\ name.edged = username.edged
      /\ name.control = username.control /\ name.lines = username.lines
      /\ username.composed => name = username
  BY DEF NormalizedUsername, IsText
<1>2. /\ username.points \in 1 .. 64 /\ ~username.control /\ ~username.lines
  BY <1>1 DEF ValidUsername
<1> HIDE DEF name
<1>3. stored.username = name /\ stored.hash = HashOf(word)
  BY DEF Stored
<1>4. [stored EXCEPT !.hash = HashOf(word)] = stored
  BY DEF Stored
<1> HIDE DEF stored
<1>5. Loads(stored)
  BY <1>1, <1>2, <1>3, HashServes DEF Loads
<1>6. word.points \in 15 .. 128 /\ Bytes(word) <= MaxPasswordBytes
  BY DEF ValidPassword
<1>7. VerifyPassword(word, stored.hash)
  BY <1>3, HashServes DEF VerifyPassword
<1>8. LoginFieldHolds(username)
  BY <1>2, SizeOfText DEF LoginFieldHolds
<1>9. username.composed => SignsIn(stored, username, word)
  BY <1>1, <1>3, <1>6, <1>7 DEF SignsIn
<1>10. FromChangeForm(stored, word, word, word) = {stored}
  BY <1>4, <1>6, <1>7 DEF FromChangeForm
<1>11. \A target \in ReturnTargets : target.sort = "plain" =>
         /\ FormAccepted(target, <<username, word, word>>)
         /\ FormAccepted(target, <<word, word, word>>)
  BY <1>2, <1>6, FormFits
<1> QED BY <1>5, <1>8, <1>9, <1>10, <1>11, Zenon DEF Serves, stored, name

(***************************************************************************)
(* A username and a password of any length and oddity, chosen in the setup *)
(* form, for setup in each of its three ways or for a reset in each of     *)
(* them, are kept so that they sign in.                                    *)
(***************************************************************************)
THEOREM AnyCredentialServes ==
  ASSUME NEW username, IsText(username), NEW password, IsText(password)
  PROVE  /\ \A stored \in FromSetupForm(username, password, password) :
              Serves(stored, username, password)
         /\ \A source \in {"interactive", "file", "stdin"}, end \in LineEnds :
              /\ \A stored \in FromSetup(source, username, password, end) :
                   Serves(stored, UsernameRead(source, username),
                          IF source = "interactive" THEN ReadHidden(password) ELSE password)
              /\ \A before \in FromSetupForm(username, Text(20, 1), Text(20, 1)) :
                   \A stored \in FromReset(source, before, password, end) :
                     Serves(stored, username,
                            IF source = "interactive" THEN ReadHidden(password) ELSE password)
<1>1. \A stored \in FromSetupForm(username, password, password) :
        Serves(stored, username, password)
  BY ValidServes DEF FromSetupForm
<1>2. ASSUME NEW source \in {"interactive", "file", "stdin"}, NEW end \in LineEnds
      PROVE  /\ \A stored \in FromSetup(source, username, password, end) :
                  Serves(stored, UsernameRead(source, username),
                         IF source = "interactive" THEN ReadHidden(password) ELSE password)
             /\ \A before \in FromSetupForm(username, Text(20, 1), Text(20, 1)) :
                  \A stored \in FromReset(source, before, password, end) :
                    Serves(stored, username,
                           IF source = "interactive" THEN ReadHidden(password) ELSE password)
  <2> DEFINE name == UsernameRead(source, username)
             word == IF source = "interactive" THEN ReadHidden(password) ELSE password
  <2>1. IsText(name)
    BY DEF UsernameRead, IsText
  <2>2. IsText(word)
    BY DEF ReadHidden, IsText
  <2>3. PasswordRead(source, password, end) = word
    BY DEF PasswordRead, WithoutLineEnd
  <2> HIDE DEF name, word
  <2>4. \A stored \in FromSetup(source, username, password, end) : Serves(stored, name, word)
    BY <2>1, <2>2, <2>3, ValidServes DEF FromSetup, name
  <2>5. ASSUME NEW before \in FromSetupForm(username, Text(20, 1), Text(20, 1)),
               NEW stored \in FromReset(source, before, password, end)
        PROVE  Serves(stored, username, word)
    <3>1. /\ ValidUsername(NormalizedUsername(username))
          /\ before = Stored(NormalizedUsername(username), Text(20, 1))
      BY DEF FromSetupForm
    <3>2. ValidPassword(word) /\ stored = [before EXCEPT !.hash = HashOf(word)]
      BY <2>3 DEF FromReset
    <3>3. stored = Stored(NormalizedUsername(username), word)
      BY <3>1, <3>2 DEF Stored
    <3> QED BY <2>2, <3>1, <3>2, <3>3, ValidServes
  <2> QED BY <2>4, <2>5 DEF name, word
<1> QED BY <1>1, <1>2

(* Of the texts that the runs try.                                         *)
LEMMA CredentialsDoServe == CredentialsServe
BY ChosenAreTexts, AnyCredentialServes, Zenon DEF CredentialsServe

(***************************************************************************)
(* Whoever sets a username and a password on the command line, or in a     *)
(* form, can sign in with them.                                            *)
(***************************************************************************)
THEOREM ChosenCredentialsSignIn == Spec => CredentialsSignIn
<1>1. [FirstSetup => CredentialsServe]_vars
  BY CredentialsDoServe
<1> QED BY <1>1, PTL DEF CredentialsSignIn

-----------------------------------------------------------------------------
(***************************************************************************)
(* Managed files.                                                          *)
(***************************************************************************)
(* Whoever wrote a managed file of a system last, everyone accepts it.     *)
LEMMA FilesAccepted ==
  ASSUME NEW path \in Files, NEW file \in Written(path)
  PROVE  /\ DoctorAccepts(path, file) /\ PluginAccepts(path, file)
         /\ RootAccepts(path, file) /\ IssuerAccepts(path, file)
<1> DEFINE Is(mode, owner, group) ==
             /\ file.mode = mode /\ file.owner = owner /\ file.group = group
             /\ file = File(mode, owner, group)
<1>0. ASSUME NEW mode, NEW owner, NEW group, file = File(mode, owner, group)
      PROVE  Is(mode, owner, group)
  BY <1>0 DEF File
<1>1. CASE path = "configDirectory"
  <2>1. file = File(750, Root, Dsh)
    BY <1>1 DEF Written, SetupFile, ResetFile, UpgradeFile, IssueFile, ServiceFile
  <2>2. Is(750, Root, Dsh)
    BY <2>1, <1>0
  <2> QED BY <1>1, <2>2 DEF DoctorAccepts, ExpectedMode, ExpectedOwner, PluginAccepts, RootAccepts,
          IssuerAccepts
<1>2. CASE path = "stateFile"
  <2>1. file = File(600, Root, Root)
    BY <1>2 DEF Written, SetupFile, ResetFile, UpgradeFile, IssueFile, ServiceFile
  <2>2. Is(600, Root, Root)
    BY <2>1, <1>0
  <2>3. GroupDigit(file) = 0 /\ OthersDigit(file) = 0
    BY <2>2 DEF GroupDigit, OthersDigit
  <2> QED BY <1>2, <2>2, <2>3 DEF DoctorAccepts, ExpectedMode, ExpectedOwner, PluginAccepts,
          RootAccepts, IssuerAccepts
<1>3. CASE path \in {"caddyBinaryDirectory", "caddyBinary"}
  <2>1. file = File(755, Root, Root)
    BY <1>3 DEF Written, SetupFile, ResetFile, UpgradeFile, IssueFile, ServiceFile
  <2>2. Is(755, Root, Root)
    BY <2>1, <1>0
  <2> QED BY <1>3, <2>2 DEF DoctorAccepts, ExpectedMode, ExpectedOwner, PluginAccepts, RootAccepts,
          IssuerAccepts
<1>4. CASE path \in {"authStateDirectory", "loginTokenDirectory"}
  <2>1. file = File(700, Dsh, Dsh)
    BY <1>4 DEF Written, SetupFile, ResetFile, UpgradeFile, IssueFile, ServiceFile
  <2>2. Is(700, Dsh, Dsh)
    BY <2>1, <1>0
  <2> QED BY <1>4, <2>2 DEF DoctorAccepts, ExpectedMode, ExpectedOwner, PluginAccepts, RootAccepts,
          IssuerAccepts
<1>5. CASE path = "environmentFile"
  <2>1. file = File(640, Root, Dsh)
    BY <1>5 DEF Written, SetupFile, ResetFile, UpgradeFile, IssueFile, ServiceFile
  <2>2. Is(640, Root, Dsh)
    BY <2>1, <1>0
  <2> QED BY <1>5, <2>2 DEF DoctorAccepts, ExpectedMode, ExpectedOwner, PluginAccepts, RootAccepts,
          IssuerAccepts
<1>6. CASE path = "sessionSecretFile"
  <2>1. file = File(640, Root, Dsh)
    BY <1>6 DEF Written, SetupFile, ResetFile, UpgradeFile, IssueFile, ServiceFile
  <2>2. Is(640, Root, Dsh)
    BY <2>1, <1>0
  <2>3. GroupDigit(file) = 4 /\ OthersDigit(file) = 0
    BY <2>2 DEF GroupDigit, OthersDigit
  <2>4. PluginAccepts(path, file)
    BY <1>6, <2>2, <2>3 DEF PluginAccepts
  <2> QED BY <1>6, <2>2, <2>4 DEF DoctorAccepts, ExpectedMode, ExpectedOwner, RootAccepts,
          IssuerAccepts
<1>7. CASE path = "authStateFile"
  <2>1. file = File(600, Dsh, Dsh)
    BY <1>7 DEF Written, SetupFile, ResetFile, UpgradeFile, IssueFile, ServiceFile
  <2>2. Is(600, Dsh, Dsh)
    BY <2>1, <1>0
  <2> QED BY <1>7, <2>2 DEF DoctorAccepts, ExpectedMode, ExpectedOwner, PluginAccepts, RootAccepts,
          IssuerAccepts
<1>8. CASE path \in {"caddyfile", "systemdDropInFile", "caddyUnitFile"}
  <2>1. file = File(644, Root, Root)
    BY <1>8 DEF Written, SetupFile, ResetFile, UpgradeFile, IssueFile, ServiceFile
  <2>2. Is(644, Root, Root)
    BY <2>1, <1>0
  <2> QED BY <1>8, <2>2 DEF DoctorAccepts, ExpectedMode, ExpectedOwner, PluginAccepts, RootAccepts,
          IssuerAccepts
<1>9. CASE path = "tokenFile"
  <2>1. file = File(600, Dsh, Dsh)
    BY <1>9 DEF Written, SetupFile, ResetFile, UpgradeFile, IssueFile, ServiceFile
  <2> QED BY <1>9, <2>1 DEF DoctorAccepts, PluginAccepts, RootAccepts, IssuerAccepts
<1> QED BY <1>1, <1>2, <1>3, <1>4, <1>5, <1>6, <1>7, <1>8, <1>9 DEF Files

(* The same of an output directory.                                        *)
LEMMA OutputModesAccepted ==
  ASSUME NEW path \in Files
  PROVE  ExpectedOutputMode(path) \in {OutputMode(path), Unchecked}
BY DEF Files, ExpectedOutputMode, OutputMode

-----------------------------------------------------------------------------
(***************************************************************************)
(* The ownership record.                                                   *)
(***************************************************************************)
Names == Paths \cup {"stateFile"}

(* What the model calls the segments of a path.                            *)
Segments == Names \cup {"srv", "auth", "etc", "dsh-auth", "system"}

(* A root that is spelled plainly, as far as the record needs it.          *)
PlainRoot(root) ==
  /\ \E S : root \in Seq(S)
  /\ Len(root) > 0
  /\ root[Len(root)] \notin Names \cup {Nothing}
  /\ \A i \in DOMAIN root : root[i] \notin DottedSegments

(* Its segments and those that the model names are in one set.             *)
LEMMA PlainRootIsPath ==
  ASSUME NEW root, PlainRoot(root)
  PROVE  \E T : Segments \subseteq T /\ root \in Seq(T)
<1>1. PICK S : root \in Seq(S)
  BY DEF PlainRoot
<1> DEFINE T == S \cup Segments
<1>2. S \subseteq T /\ Segments \subseteq T
  OBVIOUS
<1> HIDE DEF T
<1>3. root \in Seq(T)
  BY <1>1, <1>2, SeqMonotonic
<1> QED BY <1>2, <1>3

(* That is what PlainlySpelled() lets through.                             *)
LEMMA RootsArePlain ==
  ASSUME NEW root \in Roots, PlainlySpelled(root)
  PROVE  PlainRoot(root)
<1>1. root \in {<<"srv", "auth">>, <<"etc", "dsh-auth">>}
  <2>1. Nothing \in ToSet(<<"srv", "auth", Nothing>>)
    <3>1. 3 \in DOMAIN <<"srv", "auth", Nothing>> /\ <<"srv", "auth", Nothing>>[3] = Nothing
      OBVIOUS
    <3> QED BY <3>1, Zenon DEF ToSet
  <2>2. "a..b" \in ToSet(<<"srv", "a..b">>)
    BY DEF ToSet
  <2> QED BY <2>1, <2>2 DEF Roots, PlainlySpelled, DottedSegments
<1>2. ASSUME NEW a \in Segments, NEW b \in Segments, root = <<a, b>>, b \notin Names \cup {Nothing},
             a \notin DottedSegments, b \notin DottedSegments
      PROVE  PlainRoot(root)
  <2>1. /\ root \in Seq(Segments) /\ Len(root) = 2 /\ root[Len(root)] = b
        /\ \A i \in DOMAIN root : root[i] = a \/ root[i] = b
    <3>1. <<a, b>> \in Seq(Segments) /\ Len(<<a, b>>) = 2 /\ <<a, b>>[2] = b
      OBVIOUS
    <3>2. \A i \in DOMAIN <<a, b>> : <<a, b>>[i] = a \/ <<a, b>>[i] = b
      OBVIOUS
    <3> QED BY <1>2, <3>1, <3>2
  <2> QED BY <1>2, <2>1 DEF PlainRoot
<1>3. /\ "auth" \notin Names /\ "dsh-auth" \notin Names
      /\ "srv" \notin DottedSegments /\ "auth" \notin DottedSegments
      /\ "etc" \notin DottedSegments /\ "dsh-auth" \notin DottedSegments
      /\ "srv" \in Segments /\ "auth" \in Segments /\ "etc" \in Segments /\ "dsh-auth" \in Segments
  BY DEF Names, Paths, Directories, DottedSegments, Segments
<1>4. "auth" # Nothing /\ "dsh-auth" # Nothing
  BY Zenon DEF Nothing
<1>5. CASE root = <<"srv", "auth">>
  BY <1>2, <1>3, <1>4, <1>5
<1>6. CASE root = <<"etc", "dsh-auth">>
  BY <1>2, <1>3, <1>4, <1>6
<1> QED BY <1>1, <1>5, <1>6

(* What Front() undoes.                                                    *)
LEMMA FrontOfAppend ==
  ASSUME NEW S, NEW s \in Seq(S), NEW e \in S
  PROVE  Front(Append(s, e)) = s
<1> DEFINE long == Append(s, e)
           n == Len(s)
<1>1. /\ long \in Seq(S) /\ Len(long) = n + 1 /\ n \in Nat
      /\ \A i \in 1 .. n : long[i] = s[i]
  BY AppendProperties, LenProperties
<1>2. \A i \in 1 .. n : long[i] \in S
  BY <1>1, ElementOfSeq
<1> HIDE DEF long
<1>3. /\ SubSeq(long, 1, n) \in Seq(S) /\ Len(SubSeq(long, 1, n)) = n
      /\ \A i \in 1 .. n : SubSeq(long, 1, n)[i] = long[i]
  <2>1. /\ SubSeq(long, 1, n) \in Seq(S)
        /\ Len(SubSeq(long, 1, n)) = IF 1 <= n THEN n - 1 + 1 ELSE 0
        /\ \A i \in 1 .. n - 1 + 1 : SubSeq(long, 1, n)[i] = long[1 + i - 1]
    BY <1>1, <1>2, SubSeqProperties
  <2> QED BY <1>1, <2>1
<1>4. SubSeq(long, 1, n) = s
  BY <1>1, <1>3, SeqEqual
<1>5. Len(long) - 1 = n
  BY <1>1
<1> QED BY <1>4, <1>5 DEF Front, long

(* A name joined to a path that does not end with a slash.                 *)
LEMMA JoinEnds ==
  ASSUME NEW S, NEW path \in Seq(S), Len(path) > 0, path[Len(path)] # Nothing, NEW name \in S
  PROVE  /\ Join(path, name) \in Seq(S) /\ Len(Join(path, name)) = Len(path) + 1
         /\ Join(path, name)[Len(path) + 1] = name
         /\ \A i \in 1 .. Len(path) : Join(path, name)[i] = path[i]
         /\ Dirname(Join(path, name)) = path
<1>1. Join(path, name) = Append(path, name)
  BY DEF Join, Last
<1>2. Dirname(Append(path, name)) = path
  BY FrontOfAppend DEF Dirname
<1>3. /\ Append(path, name) \in Seq(S) /\ Len(Append(path, name)) = Len(path) + 1
      /\ Append(path, name)[Len(path) + 1] = name
      /\ \A i \in 1 .. Len(path) : Append(path, name)[i] = path[i]
  BY AppendProperties
<1> QED BY <1>1, <1>2, <1>3, Zenon

(* What setup may create.                                                  *)
Creatable == {"configDirectory", "stateFile"} \cup ToSet(Order)

(* Where the managed paths lie: nothing that validateStatePaths() refuses, *)
(* and what setup creates ends with its name, or is the root.              *)
LEMMA PathsLie ==
  ASSUME NEW root, PlainRoot(root), NEW p \in Names
  PROVE  LET path == PathsFor(root)[p]
         IN  /\ \A i \in DOMAIN path : path[i] \notin DottedSegments
             /\ p \in Creatable =>
                  path[Len(path)] = IF p = "configDirectory" THEN root[Len(root)] ELSE p
<1> DEFINE path == PathsFor(root)[p]
<1>1. PICK T : Segments \subseteq T /\ root \in Seq(T)
  BY PlainRootIsPath
<1>2. p \in T /\ p \notin DottedSegments /\ p # Nothing
  <2>1. p \in T /\ p \notin DottedSegments
    <3>1. p \in T
      BY <1>1 DEF Segments
    <3>2. p \notin DottedSegments
      BY DEF Names, Paths, Directories, DottedSegments
    <3> QED BY <3>1, <3>2
  <2> QED BY <2>1, Zenon DEF Names, Paths, Directories, Nothing
<1>3. "authStateDirectory" \in T /\ "system" \in T /\ "authStateDirectory" # Nothing
  <2>1. "authStateDirectory" # Nothing
    BY Zenon DEF Nothing
  <2>2. "authStateDirectory" \in T /\ "system" \in T
    BY <1>1 DEF Segments, Names, Paths, Directories
  <2> QED BY <2>1, <2>2
<1>4. "authStateDirectory" \notin DottedSegments /\ "system" \notin DottedSegments
  BY DEF DottedSegments
<1>5. /\ root \in Seq(T) /\ Len(root) > 0 /\ root[Len(root)] # Nothing /\ Len(root) \in Nat
      /\ \A i \in 1 .. Len(root) : root[i] \notin DottedSegments
  <2>1. root \in Seq(T)
    BY <1>1
  <2>2. Len(root) \in Nat /\ DOMAIN root = 1 .. Len(root)
    BY <2>1, LenProperties
  <2> QED BY <2>1, <2>2 DEF PlainRoot
<1>6. CASE \/ p = "configDirectory"
           \/ output /\ p \in {"caddyBinaryDirectory", "systemdDropInDirectory"}
  <2>1. path = root
    BY <1>6 DEF PathsFor, Names
  <2>2. output => Creatable \cap {"caddyBinaryDirectory", "systemdDropInDirectory"} = {}
    BY DEF Creatable, Order, OutputOrder, ToSet
  <2> QED BY <1>6, <2>1, <2>2 DEF PlainRoot
<1> DEFINE elsewhere ==
             /\ p # "configDirectory"
             /\ ~(output /\ p \in {"caddyBinaryDirectory", "systemdDropInDirectory"})
<1>7. CASE elsewhere /\ output /\ Parent(p) = "authStateDirectory"
  <2> DEFINE above == Join(root, "authStateDirectory")
  <2>1. path = Join(above, p)
    BY <1>7 DEF PathsFor, Names
  <2>2. /\ above \in Seq(T) /\ Len(above) = Len(root) + 1 /\ Len(root) \in Nat
        /\ above[Len(root) + 1] = "authStateDirectory"
        /\ \A i \in 1 .. Len(root) : above[i] = root[i]
    BY <1>5, <1>3, JoinEnds
  <2> HIDE DEF above
  <2>3. /\ path \in Seq(T) /\ Len(path) = Len(root) + 2 /\ path[Len(root) + 2] = p
        /\ \A i \in 1 .. Len(root) + 1 : path[i] = above[i]
    <3>1. Len(above) > 0 /\ above[Len(above)] # Nothing /\ Len(above) + 1 = Len(root) + 2
      BY <1>3, <2>2
    <3>2. /\ Join(above, p) \in Seq(T) /\ Len(Join(above, p)) = Len(above) + 1
          /\ Join(above, p)[Len(above) + 1] = p
          /\ \A i \in 1 .. Len(above) : Join(above, p)[i] = above[i]
      BY <1>2, <2>2, <3>1, JoinEnds
    <3> HIDE DEF path
    <3> QED BY <2>1, <2>2, <3>1, <3>2
  <2> HIDE DEF path
  <2>4. \A i \in DOMAIN path : path[i] \notin DottedSegments
    <3> TAKE i \in DOMAIN path
    <3>0. DOMAIN path = 1 .. Len(root) + 2
      BY <2>3, LenProperties
    <3>1. i = Len(root) + 2 \/ i = Len(root) + 1 \/ i \in 1 .. Len(root)
      BY <1>5, <3>0
    <3>2. CASE i = Len(root) + 2
      BY <1>2, <2>3, <3>2
    <3>3. CASE i = Len(root) + 1
      <4>1. path[Len(root) + 1] = above[Len(root) + 1]
        BY <1>5, <2>3
      <4> QED BY <1>4, <2>2, <3>3, <4>1
    <3>4. CASE i \in 1 .. Len(root)
      <4>1. path[i] = above[i]
        BY <1>5, <2>3, <3>4
      <4> QED BY <1>5, <2>2, <3>4, <4>1
    <3> QED BY <3>1, <3>2, <3>3, <3>4
  <2>5. path[Len(path)] = p
    BY <1>5, <2>3
  <2> QED BY <1>7, <2>3, <2>4, <2>5 DEF path
<1>8. CASE /\ elsewhere /\ ~(output /\ Parent(p) = "authStateDirectory")
           /\ output \/ p \in {"stateFile", "environmentFile", "sessionSecretFile", "caddyfile"}
  <2>1. path = Join(root, p)
    BY <1>8 DEF PathsFor, Names
  <2>2. /\ path \in Seq(T) /\ Len(path) = Len(root) + 1 /\ path[Len(root) + 1] = p
        /\ \A i \in 1 .. Len(root) : path[i] = root[i]
    <3>1. /\ Join(root, p) \in Seq(T) /\ Len(Join(root, p)) = Len(root) + 1
          /\ Join(root, p)[Len(root) + 1] = p
          /\ \A i \in 1 .. Len(root) : Join(root, p)[i] = root[i]
      BY <1>2, <1>5, JoinEnds
    <3> HIDE DEF path
    <3> QED BY <2>1, <3>1
  <2> HIDE DEF path
  <2>3. \A i \in DOMAIN path : path[i] \notin DottedSegments
    <3> TAKE i \in DOMAIN path
    <3>0. DOMAIN path = 1 .. Len(root) + 1
      BY <2>2, LenProperties
    <3>1. i = Len(root) + 1 \/ i \in 1 .. Len(root)
      BY <1>5, <3>0
    <3> QED BY <1>2, <1>5, <2>2, <3>1
  <2>4. path[Len(path)] = p
    BY <1>5, <2>2
  <2> QED BY <1>8, <2>2, <2>3, <2>4 DEF path
<1>9. CASE /\ elsewhere /\ ~(output /\ Parent(p) = "authStateDirectory")
           /\ ~(output \/ p \in {"stateFile", "environmentFile", "sessionSecretFile", "caddyfile"})
  <2>1. path = <<"system", p>>
    BY <1>9 DEF PathsFor, Names
  <2>2. /\ <<"system", p>> \in Seq(T) /\ Len(<<"system", p>>) = 2 /\ <<"system", p>>[2] = p
        /\ \A i \in DOMAIN <<"system", p>> : i = 1 \/ i = 2
        /\ <<"system", p>>[1] = "system"
    BY <1>2, <1>3
  <2> HIDE DEF path
  <2>3. /\ path \in Seq(T) /\ Len(path) = 2 /\ path[2] = p /\ path[1] = "system"
        /\ \A i \in DOMAIN path : i = 1 \/ i = 2
    BY <2>1, <2>2
  <2>4. \A i \in DOMAIN path : path[i] \notin DottedSegments
    BY <1>2, <1>4, <2>3
  <2>5. p # "configDirectory"
    BY <1>9
  <2> QED BY <2>3, <2>4, <2>5 DEF path
<1> QED BY <1>6, <1>7, <1>8, <1>9

(* No two paths that setup creates are the same.                           *)
LEMMA CreatedDiffer ==
  ASSUME NEW root, PlainRoot(root), NEW p \in Creatable, NEW q \in Creatable,
         PathsFor(root)[p] = PathsFor(root)[q]
  PROVE  p = q
<1>1. Creatable \subseteq Names
  BY DEF Creatable, Names, Paths, Directories, Order, OutputOrder, SystemOrder, ToSet
<1>2. root[Len(root)] \notin Names
  BY DEF PlainRoot
<1> DEFINE path == PathsFor(root)[p]
<1>3. path[Len(path)] = IF p = "configDirectory" THEN root[Len(root)] ELSE p
  BY <1>1, PathsLie
<1>4. path[Len(path)] = IF q = "configDirectory" THEN root[Len(root)] ELSE q
  BY <1>1, PathsLie
<1> HIDE DEF path
<1> QED BY <1>1, <1>2, <1>3, <1>4

(* There are fourteen managed paths.                                       *)
LEMMA FourteenPaths == Cardinality(Names) = 14
<1> DEFINE Size(S, n) == IsFiniteSet(S) /\ Cardinality(S) = n
<1>1. ASSUME NEW S, NEW n \in Nat, Size(S, n), NEW x, x \notin S
      PROVE  Size(S \cup {x}, n + 1)
  BY <1>1, FS_AddElement
<1>0. Size({}, 0)
  BY FS_EmptySet
<1> DEFINE S0 == {}
           S1 == S0 \cup {"configDirectory"}
           S2 == S1 \cup {"caddyBinaryDirectory"}
           S3 == S2 \cup {"caddyStateDirectory"}
           S4 == S3 \cup {"systemdDropInDirectory"}
           S5 == S4 \cup {"authStateDirectory"}
           S6 == S5 \cup {"loginTokenDirectory"}
           S7 == S6 \cup {"caddyBinary"}
           S8 == S7 \cup {"sessionSecretFile"}
           S9 == S8 \cup {"authStateFile"}
           S10 == S9 \cup {"environmentFile"}
           S11 == S10 \cup {"caddyfile"}
           S12 == S11 \cup {"systemdDropInFile"}
           S13 == S12 \cup {"caddyUnitFile"}
           S14 == S13 \cup {"stateFile"}
<1> HIDE DEF Size
<1>2. Size(S14, 14)
  <2>1. Size(S1, 1)
    <3>1. "configDirectory" \notin S0
      OBVIOUS
    <3> QED BY <1>1, <1>0, <3>1
  <2>2. Size(S2, 2)
    <3>1. "caddyBinaryDirectory" \notin S1
      OBVIOUS
    <3> QED BY <1>1, <2>1, <3>1
  <2>3. Size(S3, 3)
    <3>1. "caddyStateDirectory" \notin S2
      OBVIOUS
    <3> QED BY <1>1, <2>2, <3>1
  <2>4. Size(S4, 4)
    <3>1. "systemdDropInDirectory" \notin S3
      OBVIOUS
    <3> QED BY <1>1, <2>3, <3>1
  <2>5. Size(S5, 5)
    <3>1. "authStateDirectory" \notin S4
      OBVIOUS
    <3> QED BY <1>1, <2>4, <3>1
  <2>6. Size(S6, 6)
    <3>1. "loginTokenDirectory" \notin S5
      OBVIOUS
    <3> QED BY <1>1, <2>5, <3>1
  <2>7. Size(S7, 7)
    <3>1. "caddyBinary" \notin S6
      OBVIOUS
    <3> QED BY <1>1, <2>6, <3>1
  <2>8. Size(S8, 8)
    <3>1. "sessionSecretFile" \notin S7
      OBVIOUS
    <3> QED BY <1>1, <2>7, <3>1
  <2>9. Size(S9, 9)
    <3>1. "authStateFile" \notin S8
      OBVIOUS
    <3> QED BY <1>1, <2>8, <3>1
  <2>10. Size(S10, 10)
    <3>1. "environmentFile" \notin S9
      OBVIOUS
    <3> QED BY <1>1, <2>9, <3>1
  <2>11. Size(S11, 11)
    <3>1. "caddyfile" \notin S10
      OBVIOUS
    <3> QED BY <1>1, <2>10, <3>1
  <2>12. Size(S12, 12)
    <3>1. "systemdDropInFile" \notin S11
      OBVIOUS
    <3> QED BY <1>1, <2>11, <3>1
  <2>13. Size(S13, 13)
    <3>1. "caddyUnitFile" \notin S12
      OBVIOUS
    <3> QED BY <1>1, <2>12, <3>1
  <2>14. Size(S14, 14)
    <3>1. "stateFile" \notin S13
      OBVIOUS
    <3> QED BY <1>1, <2>13, <3>1
  <2> QED BY <2>14
<1>3. Names = S14
  BY DEF Names, Paths, Directories
<1> QED BY <1>2, <1>3 DEF Size

(* What every record of setup and upgrade says of a request r and a root;  *)
(* one conjunct for each of what later commands demand.                    *)
Fixed == {"schemaVersion", "fingerprint", "request", "root", "paths", "dshService", "publicOrigin",
          "authStateFile", "loginTokenEnabled", "caddyVersion"}

HasFields(c) ==
  Fixed \cup {"status", "profilePackageInstalledByDshAuth", "createdPaths"} \subseteq DOMAIN c

Tells(c, r, root) ==
  /\ c["schemaVersion"] = 2 /\ c["fingerprint"] = PersistentRequest(r)
  /\ c["request"] = PersistentRequest(r) /\ c["root"] = root /\ c["paths"] = PathsFor(root)

IsStatus(status) == status \in {"installing", "installed"}

IsOrigin(origin) == origin \in {"dsh-auth", "external"}

IsJournal(upgrade) ==
  DOMAIN UpgradeJournal("bundle") \subseteq DOMAIN upgrade /\ upgrade.phase \in UpgradePhases

ListsCreated(created, root) ==
  DOMAIN created \subseteq Creatable /\ \A p \in DOMAIN created : created[p] = PathsFor(root)[p]

HasGroup(c) ==
  \/ PackageFields \cap DOMAIN c = {}
  \/ PackageFields \subseteq DOMAIN c /\ IsOrigin(c["profilePackageOrigin"])

Sound(c, r, root) ==
  /\ HasFields(c) /\ Tells(c, r, root) /\ IsStatus(c["status"])
  /\ ListsCreated(c["createdPaths"], root) /\ HasGroup(c)
  /\ "upgrade" \in DOMAIN c => IsJournal(c["upgrade"])
  /\ "activation" \in DOMAIN c => c["activation"].tried \subseteq Calls

(* Such a record is read, and is of the same request.                      *)
LEMMA SoundIsRead ==
  ASSUME NEW r, IsRequest(r), NEW root, PlainRoot(root), NEW c, Sound(c, r, root)
  PROVE  ReadsRecord(c) /\ SameSettings(c, r)
<1>1. Valid(c.request)
  <2>1. Valid(PersistentRequest(r))
    BY RecordRendersTheSame DEF IsRequest, ReadBack
  <2> QED BY <2>1 DEF Sound, Tells
<1>2. HasSupportedPaths(c)
  <2>1. DOMAIN PathsFor(root) = Names
    BY DEF PathsFor, Names
  <2> QED BY <2>1, FourteenPaths DEF HasSupportedPaths, Sound, Tells, HasFields, Fixed
<1>3. HasSupportedIdentity(c)
  <2>1. HasSupportedProfilePackageGroup(c)
    BY DEF HasSupportedProfilePackageGroup, Sound, HasGroup, IsOrigin
  <2>2. HasSupportedUpgradeJournal(c)
    BY DEF HasSupportedUpgradeJournal, Sound, IsJournal
  <2> QED BY <2>1, <2>2 DEF HasSupportedIdentity, Sound, Tells, HasFields, Fixed, IsStatus
<1>4. HasSupportedActivation(c)
  BY DEF HasSupportedActivation, Sound
<1>5. SafePaths(c)
  <2>1. c.paths = PathsFor(root)
    BY DEF Sound, Tells
  <2>2. DOMAIN c.paths = Names
    BY <2>1 DEF PathsFor, Names
  <2>3. \A p \in DOMAIN c.paths : ToSet(c.paths[p]) \cap DottedSegments = {}
    <3> TAKE p \in DOMAIN c.paths
    <3>1. \A i \in DOMAIN c.paths[p] : c.paths[p][i] \notin DottedSegments
      BY <2>1, <2>2, PathsLie
    <3> QED BY <3>1 DEF ToSet
  <2>4. Dirname(c.paths.stateFile) = c.paths.configDirectory
    <3>1. c.paths.configDirectory = root
      BY <2>1 DEF PathsFor, Names, Paths, Directories
    <3>2. c.paths.stateFile = Join(root, "stateFile")
      BY <2>1 DEF PathsFor, Names, Paths, Directories, Parent
    <3>3. Dirname(Join(root, "stateFile")) = root
      <4>1. PICK T : Segments \subseteq T /\ root \in Seq(T)
        BY PlainRootIsPath
      <4>2. Len(root) > 0 /\ root[Len(root)] # Nothing /\ "stateFile" \in T
        BY <4>1 DEF PlainRoot, Segments, Names
      <4> QED BY <4>1, <4>2, JoinEnds
    <3> QED BY <3>1, <3>2, <3>3
  <2> QED BY <2>3, <2>4 DEF SafePaths
<1>6. OwnsPaths(c)
  <2>1. c.paths = PathsFor(c.root) /\ c.root = root
    BY DEF Sound, Tells
  <2>2. /\ DOMAIN c.createdPaths \subseteq Creatable
        /\ \A p \in DOMAIN c.createdPaths : c.createdPaths[p] = c.paths[p]
    BY <2>1 DEF Sound, ListsCreated
  <2>3. IsInjective(c.createdPaths)
    BY <2>1, <2>2, CreatedDiffer DEF IsInjective
  <2>4. Creatable \subseteq DOMAIN c.paths
    BY <2>1 DEF Creatable, PathsFor, Paths, Directories, Order, OutputOrder, SystemOrder, ToSet
  <2>5. Range(c.createdPaths) \subseteq {c.paths[p] : p \in DOMAIN c.paths}
    BY <2>2, <2>4 DEF Range
  <2> QED BY <1>5, <2>1, <2>3, <2>5 DEF OwnsPaths
<1>7. SameSettings(c, r)
  BY DEF SameSettings, Sound, Tells
<1> QED BY <1>1, <1>2, <1>3, <1>4, <1>6, <1>7 DEF ReadsRecord

(* What a writer may change.                                               *)
Harmless(changes, c, root) ==
  /\ DOMAIN changes \cap Fixed = {}
  /\ "status" \in DOMAIN changes => IsStatus(changes["status"])
  /\ "createdPaths" \in DOMAIN changes => ListsCreated(changes["createdPaths"], root)
  /\ "upgrade" \in DOMAIN changes => IsJournal(changes["upgrade"])
  /\ "activation" \in DOMAIN changes => changes["activation"].tried \subseteq Calls
  /\ \/ PackageFields \cap DOMAIN changes = {}
     \/ /\ PackageFields \subseteq DOMAIN changes \cup DOMAIN c
        /\ IF "profilePackageOrigin" \in DOMAIN changes
             THEN IsOrigin(changes["profilePackageOrigin"])
             ELSE IsOrigin(c["profilePackageOrigin"])

(* The group of fields about the bundle, one by one.                       *)
LEMMA ThePackageFields ==
  PackageFields = {"profilePackageOrigin", "profilePackageSpec", "profilePackageVersion",
                   "profilePackageBuildIdentity", "profilePackagePath"}
BY DEF PackageFields, Facts

(* A record that only changes so stays what later commands demand.         *)
LEMMA UpdatedIsSound ==
  ASSUME NEW r, NEW root, NEW c, Sound(c, r, root), NEW changes, Harmless(changes, c, root)
  PROVE  Sound(Updated(c, changes), r, root)
<1> DEFINE d == Updated(c, changes)
<1>1. /\ DOMAIN d = DOMAIN changes \cup DOMAIN c
      /\ \A x \in DOMAIN changes : d[x] = changes[x]
      /\ \A x \in DOMAIN c \ DOMAIN changes : d[x] = c[x]
  BY PartsOf DEF Updated
<1> HIDE DEF d
<1>2. HasFields(d)
  BY <1>1 DEF Sound, HasFields
<1>3. Tells(d, r, root)
  BY <1>1 DEF Sound, HasFields, Tells, Harmless, Fixed
<1>4. IsStatus(d["status"])
  BY <1>1 DEF Sound, HasFields, Harmless
<1>5. ListsCreated(d["createdPaths"], root)
  BY <1>1 DEF Sound, HasFields, Harmless
<1>6. HasGroup(d)
  <2>1. "profilePackageOrigin" \in PackageFields
    BY ThePackageFields
  <2> QED BY <1>1, <2>1 DEF Sound, HasGroup, Harmless
<1>7. "upgrade" \in DOMAIN d => IsJournal(d["upgrade"])
  BY <1>1 DEF Sound, Harmless
<1>8. "activation" \in DOMAIN d => d["activation"].tried \subseteq Calls
  BY <1>1 DEF Sound, Harmless
<1> QED BY <1>2, <1>3, <1>4, <1>5, <1>6, <1>7, <1>8 DEF Sound, d

(* Leaving the journal of an upgrade out is harmless too.                  *)
LEMMA WithoutUpgradeIsSound ==
  ASSUME NEW r, NEW root, NEW c, Sound(c, r, root)
  PROVE  Sound(Without(c, "upgrade"), r, root)
<1> DEFINE d == Without(c, "upgrade")
<1>1. DOMAIN d = DOMAIN c \ {"upgrade"} /\ \A x \in DOMAIN d : d[x] = c[x]
  BY DEF Without
<1> HIDE DEF d
<1>2. HasFields(d)
  BY <1>1 DEF Sound, HasFields, Fixed
<1>3. Tells(d, r, root)
  BY <1>1, <1>2 DEF Sound, HasFields, Tells, Fixed
<1>4. IsStatus(d["status"]) /\ ListsCreated(d["createdPaths"], root)
  BY <1>1, <1>2 DEF Sound, HasFields
<1>5. HasGroup(d)
  <2>1. "profilePackageOrigin" \in PackageFields /\ "upgrade" \notin PackageFields
    BY ThePackageFields
  <2> QED BY <1>1, <2>1 DEF Sound, HasGroup
<1>6. "upgrade" \notin DOMAIN d
  BY <1>1
<1>7. "activation" \in DOMAIN d => d["activation"].tried \subseteq Calls
  BY <1>1 DEF Sound
<1> QED BY <1>2, <1>3, <1>4, <1>5, <1>6, <1>7 DEF Sound, d

(* The record as setup begins it.                                          *)
LEMMA InitialIsSound ==
  ASSUME NEW r, NEW root
  PROVE  /\ Sound(InitialState(r, root), r, root)
         /\ PackageFields \cap DOMAIN InitialState(r, root) = {}
<1> DEFINE first ==
             [schemaVersion |-> 2, status |-> "installing", fingerprint |-> PersistentRequest(r),
              request |-> PersistentRequest(r), root |-> root, paths |-> PathsFor(root),
              dshService |-> IF output THEN "output" ELSE "service",
              publicOrigin |-> PublicOrigin(r), authStateFile |-> PathsFor(root).authStateFile,
              loginTokenEnabled |-> r.loginToken = "enabled", caddyVersion |-> "caddy",
              profilePackageInstalledByDshAuth |-> FALSE, createdPaths |-> << >>]
           later == IF output THEN << >> ELSE [activation |-> Tried({})]
<1>1. DOMAIN first = Fixed \cup {"status", "profilePackageInstalledByDshAuth", "createdPaths"}
  BY DEF Fixed
<1>2. /\ first["schemaVersion"] = 2 /\ first["status"] = "installing"
      /\ first["fingerprint"] = PersistentRequest(r) /\ first["request"] = PersistentRequest(r)
      /\ first["root"] = root /\ first["paths"] = PathsFor(root) /\ first["createdPaths"] = << >>
  OBVIOUS
<1>3. /\ DOMAIN later \subseteq {"activation"}
      /\ "activation" \in DOMAIN later => later["activation"].tried = {}
  <2>1. CASE output
    BY <2>1
  <2>2. CASE ~output
    BY <2>2 DEF Tried
  <2> QED BY <2>1, <2>2
<1> DEFINE c == first ++ later
<1>4. c = InitialState(r, root)
  BY Zenon DEF InitialState
<1> HIDE DEF first, later
<1>5. /\ DOMAIN c = DOMAIN first \cup DOMAIN later
      /\ \A x \in DOMAIN first : c[x] = first[x]
      /\ \A x \in DOMAIN later \ DOMAIN first : c[x] = later[x]
  BY PartsOf
<1> HIDE DEF c
<1>6. HasFields(c) /\ "upgrade" \notin DOMAIN c
  BY <1>1, <1>3, <1>5 DEF HasFields, Fixed
<1>7. Tells(c, r, root)
  BY <1>1, <1>2, <1>5 DEF Tells, Fixed
<1>8. IsStatus(c["status"]) /\ c["createdPaths"] = << >>
  BY <1>1, <1>2, <1>5 DEF IsStatus
<1>9. ListsCreated(<< >>, root)
  BY DEF ListsCreated
<1>10. "activation" \in DOMAIN c => c["activation"].tried \subseteq Calls
  <2>1. "activation" \notin DOMAIN first
    BY <1>1 DEF Fixed
  <2> QED BY <1>3, <1>5, <2>1
<1>11. PackageFields \cap DOMAIN c = {}
  BY <1>1, <1>3, <1>5, ThePackageFields DEF Fixed
<1> QED BY <1>4, <1>6, <1>7, <1>8, <1>9, <1>10, <1>11 DEF Sound, HasGroup

(* Its list of what is created.                                            *)
LEMMA CreatingIsSound ==
  ASSUME NEW r, NEW root, NEW c, Sound(c, r, root), NEW names \in SUBSET Creatable
  PROVE  Sound(Creating(c, names), r, root)
<1> DEFINE changes == [createdPaths |-> [p \in names |-> c.paths[p]]]
<1>1. DOMAIN changes = {"createdPaths"} /\ changes["createdPaths"] = [p \in names |-> c.paths[p]]
  OBVIOUS
<1>2. ListsCreated([p \in names |-> c.paths[p]], root)
  BY DEF ListsCreated, Sound, Tells
<1>3. Creating(c, names) = Updated(c, changes)
  BY Zenon DEF Creating
<1> HIDE DEF changes
<1>4. Harmless(changes, c, root)
  BY <1>1, <1>2, ThePackageFields DEF Harmless, Fixed
<1> QED BY <1>3, <1>4, UpdatedIsSound

(* Its service calls.                                                      *)
LEMMA TryingIsSound ==
  ASSUME NEW r, NEW root, NEW c, Sound(c, r, root), NEW calls \in SUBSET Calls
  PROVE  Sound(Trying(c, calls), r, root)
<1> DEFINE changes == [activation |-> Tried(calls)]
<1>1. DOMAIN changes = {"activation"} /\ changes["activation"].tried = calls
  BY DEF Tried
<1> HIDE DEF changes
<1>2. Harmless(changes, c, root)
  BY <1>1, ThePackageFields DEF Harmless, Fixed
<1>3. Sound(Updated(c, changes), r, root)
  BY <1>2, UpdatedIsSound
<1> QED BY <1>3 DEF Trying, changes

(* Its status.                                                             *)
LEMMA StatusIsSound ==
  ASSUME NEW r, NEW root, NEW c, Sound(c, r, root), NEW status \in {"installing", "installed"}
  PROVE  Sound(Updated(c, [status |-> status]), r, root)
<1> DEFINE changes == [status |-> status]
<1>1. DOMAIN changes = {"status"} /\ changes["status"] = status
  OBVIOUS
<1> HIDE DEF changes
<1>2. Harmless(changes, c, root)
  BY <1>1, ThePackageFields DEF Harmless, Fixed, IsStatus
<1>3. Sound(Updated(c, changes), r, root)
  BY <1>2, UpdatedIsSound
<1> QED BY <1>3 DEF changes

(* Who installed the bundle.                                               *)
LEMMA InstalledByIsSound ==
  ASSUME NEW r, NEW root, NEW c, Sound(c, r, root), NEW by
  PROVE  Sound(Updated(c, [profilePackageInstalledByDshAuth |-> by]), r, root)
<1> DEFINE changes == [profilePackageInstalledByDshAuth |-> by]
<1>1. DOMAIN changes = {"profilePackageInstalledByDshAuth"}
  OBVIOUS
<1> HIDE DEF changes
<1>2. Harmless(changes, c, root)
  BY <1>1, ThePackageFields DEF Harmless, Fixed
<1>3. Sound(Updated(c, changes), r, root)
  BY <1>2, UpdatedIsSound
<1> QED BY <1>3 DEF changes

(* The facts of the bundle.                                                *)
LEMMA FactsAre ==
  ASSUME NEW origin, NEW version
  PROVE  /\ DOMAIN Facts(origin, version) = PackageFields
         /\ Facts(origin, version)["profilePackageOrigin"] = origin
         /\ Facts(origin, version)["profilePackageVersion"] = version
BY ThePackageFields DEF Facts

(* Installing the bundle records them, with its version.                   *)
LEMMA PackagedIsSound ==
  ASSUME NEW r, NEW root, NEW c, Sound(c, r, root), NEW adopts \in BOOLEAN
  PROVE  /\ Sound(Packaged(c, adopts), r, root)
         /\ ~output => /\ PackageFields \subseteq DOMAIN Packaged(c, adopts)
                       /\ Packaged(c, adopts)["profilePackageVersion"] = "own"
         /\ output => Packaged(c, adopts) = c
<1>1. CASE output
  BY <1>1 DEF Packaged
<1> DEFINE Shows(changes) ==
             /\ Sound(Updated(c, changes), r, root)
             /\ PackageFields \subseteq DOMAIN Updated(c, changes)
             /\ Updated(c, changes)["profilePackageVersion"] = "own"
<1>2. CASE ~output /\ adopts
  <2> DEFINE changes == Facts("external", "own")
  <2>1. /\ DOMAIN changes = PackageFields /\ changes["profilePackageOrigin"] = "external"
        /\ changes["profilePackageVersion"] = "own"
    BY FactsAre
  <2> HIDE DEF changes
  <2>2. Harmless(changes, c, root)
    BY <2>1, ThePackageFields DEF Harmless, Fixed, IsOrigin
  <2>3. Shows(changes)
    <3>1. Sound(Updated(c, changes), r, root)
      BY <2>2, UpdatedIsSound
    <3>2. "profilePackageVersion" \in PackageFields
      BY ThePackageFields
    <3> QED BY <2>1, <3>1, <3>2, PartsOf DEF Updated
  <2>4. Packaged(c, adopts) = Updated(c, changes)
    BY <1>2 DEF Packaged, changes
  <2> QED BY <1>2, <2>3, <2>4
<1>3. CASE ~output /\ ~adopts
  <2> DEFINE own == [profilePackageInstalledByDshAuth |-> TRUE]
             facts == Facts("dsh-auth", "own")
             changes == own ++ facts
  <2>1. DOMAIN own = {"profilePackageInstalledByDshAuth"}
    OBVIOUS
  <2>2. Packaged(c, adopts) = Updated(c, changes)
    BY <1>3 DEF Packaged
  <2> HIDE DEF own
  <2>3. /\ DOMAIN changes = PackageFields \cup {"profilePackageInstalledByDshAuth"}
        /\ changes["profilePackageOrigin"] = "dsh-auth" /\ changes["profilePackageVersion"] = "own"
    <3>1. /\ DOMAIN facts = PackageFields /\ facts["profilePackageOrigin"] = "dsh-auth"
          /\ facts["profilePackageVersion"] = "own"
      BY FactsAre
    <3> HIDE DEF facts
    <3>2. /\ DOMAIN changes = DOMAIN own \cup DOMAIN facts
          /\ \A x \in DOMAIN facts \ DOMAIN own : changes[x] = facts[x]
      BY PartsOf
    <3>3. {"profilePackageOrigin", "profilePackageVersion"} \subseteq DOMAIN facts \ DOMAIN own
      BY <2>1, <3>1, ThePackageFields
    <3> HIDE DEF changes
    <3> QED BY <2>1, <3>1, <3>2, <3>3
  <2> HIDE DEF changes
  <2>4. Harmless(changes, c, root)
    BY <2>3, ThePackageFields DEF Harmless, Fixed, IsOrigin
  <2>5. Shows(changes)
    <3>1. Sound(Updated(c, changes), r, root)
      BY <2>4, UpdatedIsSound
    <3>2. "profilePackageVersion" \in PackageFields
      BY ThePackageFields
    <3> DEFINE d == Updated(c, changes)
    <3>3. DOMAIN d = DOMAIN changes \cup DOMAIN c /\ \A x \in DOMAIN changes : d[x] = changes[x]
      BY PartsOf DEF Updated
    <3> HIDE DEF d
    <3>4. PackageFields \subseteq DOMAIN d /\ d["profilePackageVersion"] = "own"
      BY <2>3, <3>2, <3>3
    <3> QED BY <3>1, <3>4 DEF d
  <2> QED BY <1>3, <2>2, <2>5
<1> QED BY <1>1, <1>2, <1>3

(* What a change leaves alone.                                             *)
LEMMA UpdatedKeeps ==
  ASSUME NEW c, NEW changes
  PROVE  /\ DOMAIN Updated(c, changes) = DOMAIN changes \cup DOMAIN c
         /\ \A x \in DOMAIN changes : Updated(c, changes)[x] = changes[x]
         /\ \A x \in DOMAIN c \ DOMAIN changes : Updated(c, changes)[x] = c[x]
BY PartsOf DEF Updated

(* Setup only creates what it may.                                         *)
LEMMA CreatesOnlyManaged ==
  ASSUME NEW found, NEW n \in 0 .. Len(Order)
  PROVE  /\ Journaled(found) \in SUBSET Creatable /\ Created(found, n) \in SUBSET Creatable
         /\ {"configDirectory", "stateFile"} \in SUBSET Creatable
<1>1. DOMAIN Order = 1 .. Len(Order) /\ Len(Order) \in Nat
  <2>1. DOMAIN SystemOrder = 1 .. 11 /\ Len(SystemOrder) = 11
    BY DEF SystemOrder
  <2>2. DOMAIN OutputOrder = 1 .. 9 /\ Len(OutputOrder) = 9
    BY DEF OutputOrder
  <2> QED BY <2>1, <2>2 DEF Order
<1>2. 1 .. n \subseteq DOMAIN Order
  BY <1>1
<1>3. {Order[i] : i \in 1 .. n} \subseteq ToSet(Order)
  BY <1>2 DEF ToSet
<1> QED BY <1>3 DEF Journaled, Created, Creatable

(* A complete setup.                                                       *)
LEMMA InstalledIsSound ==
  ASSUME NEW r, NEW root, NEW found, NEW adopts \in BOOLEAN
  PROVE  LET installed == Installed(r, root, found, adopts)
         IN  /\ Sound(installed, r, root)
             /\ ~output => /\ PackageFields \subseteq DOMAIN installed
                           /\ installed["profilePackageVersion"] = "own"
             /\ output => "profilePackageVersion" \notin DOMAIN installed
<1> DEFINE first == InitialState(r, root)
           names == Created(found, Len(Order))
           creating == Creating(first, names)
           packaged == Packaged(creating, adopts)
           status == [status |-> "installed"]
           installed == Updated(packaged, status)
<1>0. Installed(r, root, found, adopts) = installed
  BY Zenon DEF Installed
<1>1. names \in SUBSET Creatable
  <2>1. Len(Order) \in 0 .. Len(Order)
    BY DEF Order, SystemOrder, OutputOrder
  <2> QED BY <2>1, CreatesOnlyManaged
<1>2. Sound(first, r, root) /\ PackageFields \cap DOMAIN first = {}
  BY InitialIsSound
<1> HIDE DEF first, names
<1>3. Sound(creating, r, root)
  BY <1>1, <1>2, CreatingIsSound
<1>4. PackageFields \cap DOMAIN creating = {}
  <2> DEFINE made == [createdPaths |-> [p \in names |-> first.paths[p]]]
  <2>1. DOMAIN made = {"createdPaths"}
    OBVIOUS
  <2>2. creating = Updated(first, made)
    BY Zenon DEF Creating
  <2> HIDE DEF made, creating
  <2>3. DOMAIN creating = DOMAIN made \cup DOMAIN first
    BY <2>2, UpdatedKeeps
  <2> QED BY <1>2, <2>1, <2>3, ThePackageFields
<1> HIDE DEF creating
<1>5. /\ Sound(packaged, r, root)
      /\ ~output => /\ PackageFields \subseteq DOMAIN packaged
                    /\ packaged["profilePackageVersion"] = "own"
      /\ output => packaged = creating
  BY <1>3, PackagedIsSound
<1> HIDE DEF packaged
<1>6. Sound(installed, r, root)
  BY <1>5, StatusIsSound
<1>7. DOMAIN status = {"status"}
  OBVIOUS
<1> HIDE DEF status
<1>8. /\ DOMAIN installed = DOMAIN status \cup DOMAIN packaged
      /\ \A x \in DOMAIN packaged \ DOMAIN status : installed[x] = packaged[x]
  BY UpdatedKeeps
<1> HIDE DEF installed
<1>9. /\ "profilePackageVersion" \in PackageFields
      /\ "profilePackageVersion" # "status"
  BY ThePackageFields
<1> QED BY <1>0, <1>4, <1>5, <1>6, <1>7, <1>8, <1>9

(* Everything that setup and its rollback write.                           *)
LEMMA SetupWritesSound ==
  ASSUME NEW r, NEW root, NEW found, NEW adopts \in BOOLEAN,
         NEW c \in SetupRecords(r, root, found, adopts)
  PROVE  Sound(c, r, root)
<1> DEFINE begun == InitialState(r, root)
           first == Creating(begun, Journaled(found))
           packaged == Packaged(begun, adopts)
           creating == {Creating(packaged, Created(found, n)) : n \in 0 .. Len(Order)}
           installed == Installed(r, root, found, adopts)
           complete == Updated(installed, [status |-> "installing"])
           by == ~output /\ ~adopts
           adopted == Updated(first, [profilePackageInstalledByDshAuth |-> by])
           written == {first, adopted} \cup creating
                        \cup {Trying(complete, calls) : calls \in Activation}
           Is(d) == Sound(d, r, root)
<1>1. \/ c \in written \/ c = installed
      \/ \E state \in written : c = RolledBack(state, {"configDirectory", "stateFile"})
  BY Zenon DEF SetupRecords
<1>0. /\ Journaled(found) \in SUBSET Creatable
      /\ {"configDirectory", "stateFile"} \in SUBSET Creatable
      /\ \A n \in 0 .. Len(Order) : Created(found, n) \in SUBSET Creatable
  <2>1. 0 \in 0 .. Len(Order)
    BY DEF Order, SystemOrder, OutputOrder
  <2> QED BY <2>1, CreatesOnlyManaged
<1>2. Is(begun)
  BY InitialIsSound
<1> HIDE DEF begun
<1>3. Is(first)
  BY <1>0, <1>2, CreatingIsSound
<1>4. Is(packaged)
  BY <1>2, PackagedIsSound
<1>5. Is(installed)
  BY InstalledIsSound
<1> HIDE DEF first, packaged, installed, by
<1>6. Is(adopted)
  BY <1>3, InstalledByIsSound
<1>7. Is(complete)
  BY <1>5, StatusIsSound
<1>8. ASSUME NEW d \in creating PROVE Is(d)
  BY <1>0, <1>4, CreatingIsSound
<1>9. ASSUME NEW calls \in Activation PROVE Is(Trying(complete, calls))
  <2>1. calls \in SUBSET Calls
    BY DEF Activation, Calls
  <2> HIDE DEF complete
  <2> QED BY <1>7, <2>1, TryingIsSound
<1> HIDE DEF complete, adopted, creating
<1>10. ASSUME NEW d \in written PROVE Is(d)
  BY <1>3, <1>6, <1>8, <1>9
<1> HIDE DEF written
<1>11. ASSUME NEW state \in written
       PROVE  Is(RolledBack(state, {"configDirectory", "stateFile"}))
  <2> DEFINE disowned == Updated(state, [profilePackageInstalledByDshAuth |-> FALSE])
             left == Creating(disowned, {"configDirectory", "stateFile"})
  <2>1. Is(disowned)
    BY <1>10, InstalledByIsSound
  <2> HIDE DEF disowned
  <2>2. Is(left)
    BY <1>0, <2>1, CreatingIsSound
  <2> HIDE DEF left
  <2>3. Is(Trying(left, {}))
    BY <2>2, TryingIsSound
  <2> QED BY <2>3 DEF RolledBack, left, disowned
<1> QED BY <1>1, <1>5, <1>10, <1>11

(* An upgrade on its way.                                                  *)
LEMMA UpgradingIsSound ==
  ASSUME NEW r, NEW root, NEW c, Sound(c, r, root), PackageFields \subseteq DOMAIN c,
         NEW phase \in UpgradePhases
  PROVE  LET u == Upgrading(c, phase)
         IN  /\ Sound(u, r, root) /\ PackageFields \subseteq DOMAIN u
             /\ "upgrade" \in DOMAIN u /\ u["upgrade"] = UpgradeJournal(phase)
<1> DEFINE changes == [status |-> "installing", upgrade |-> UpgradeJournal(phase)]
           u == Updated(c, changes)
<1>1. /\ DOMAIN changes = {"status", "upgrade"} /\ changes["status"] = "installing"
      /\ changes["upgrade"] = UpgradeJournal(phase)
  OBVIOUS
<1>2. IsJournal(UpgradeJournal(phase))
  BY DEF IsJournal, UpgradeJournal
<1> HIDE DEF changes
<1>3. Harmless(changes, c, root)
  BY <1>1, <1>2, ThePackageFields DEF Harmless, Fixed, IsStatus
<1>4. Sound(u, r, root)
  BY <1>3, UpdatedIsSound
<1>5. DOMAIN u = DOMAIN changes \cup DOMAIN c /\ \A x \in DOMAIN changes : u[x] = changes[x]
  BY UpdatedKeeps
<1> HIDE DEF u
<1>6. /\ PackageFields \subseteq DOMAIN u /\ "upgrade" \in DOMAIN u
      /\ u["upgrade"] = UpgradeJournal(phase)
  BY <1>1, <1>5
<1>7. u = Upgrading(c, phase)
  BY DEF Upgrading, u, changes
<1> QED BY <1>4, <1>6, <1>7

(* A record that an upgrade changes and whose journal it then leaves out.  *)
LEMMA ClosedIsSound ==
  ASSUME NEW r, NEW root, NEW c, Sound(c, r, root), PackageFields \subseteq DOMAIN c,
         NEW changes, Harmless(changes, c, root), NEW version,
         "profilePackageVersion" \in DOMAIN changes, changes["profilePackageVersion"] = version
  PROVE  LET closed == Without(Updated(c, changes), "upgrade")
         IN  Sound(closed, r, root) /\ RecordedVersion(closed) = version
<1> DEFINE open == Updated(c, changes)
           closed == Without(open, "upgrade")
<1>1. Sound(open, r, root)
  BY UpdatedIsSound
<1>2. DOMAIN open = DOMAIN changes \cup DOMAIN c /\ \A x \in DOMAIN changes : open[x] = changes[x]
  BY UpdatedKeeps
<1> HIDE DEF open
<1>3. Sound(closed, r, root)
  BY <1>1, WithoutUpgradeIsSound
<1>4. DOMAIN closed = DOMAIN open \ {"upgrade"} /\ \A x \in DOMAIN closed : closed[x] = open[x]
  BY DEF Without
<1> HIDE DEF closed
<1>5. "profilePackageVersion" \in DOMAIN closed /\ closed["profilePackageVersion"] = version
  BY <1>2, <1>4
<1> QED BY <1>3, <1>5 DEF RecordedVersion, open, closed

(* An upgrade that is done.                                                *)
LEMMA UpgradedIsSound ==
  ASSUME NEW r, NEW root, NEW c, Sound(c, r, root), PackageFields \subseteq DOMAIN c
  PROVE  Sound(Upgraded(c), r, root) /\ RecordedVersion(Upgraded(c)) = "target"
<1> DEFINE origin == c.profilePackageOrigin
           status == [status |-> "installed"]
           facts == Facts(origin, "target")
           changes == status ++ facts
<1>1. IsOrigin(origin)
  BY ThePackageFields DEF Sound, HasGroup
<1>2. DOMAIN status = {"status"} /\ status["status"] = "installed"
  OBVIOUS
<1>3. /\ DOMAIN facts = PackageFields /\ facts["profilePackageOrigin"] = origin
      /\ facts["profilePackageVersion"] = "target"
  BY FactsAre
<1> HIDE DEF status, facts, origin
<1>4. /\ DOMAIN changes = DOMAIN status \cup DOMAIN facts
      /\ \A x \in DOMAIN status : changes[x] = status[x]
      /\ \A x \in DOMAIN facts \ DOMAIN status : changes[x] = facts[x]
  BY PartsOf
<1> HIDE DEF changes
<1>5. {"profilePackageOrigin", "profilePackageVersion"} \subseteq DOMAIN facts \ DOMAIN status
  BY <1>2, <1>3, ThePackageFields
<1>6. /\ DOMAIN changes = {"status"} \cup PackageFields /\ changes["status"] = "installed"
      /\ changes["profilePackageOrigin"] = origin /\ changes["profilePackageVersion"] = "target"
      /\ {"profilePackageOrigin", "profilePackageVersion"} \subseteq DOMAIN changes
  BY <1>2, <1>3, <1>4, <1>5
<1>7. Harmless(changes, c, root)
  BY <1>1, <1>6, ThePackageFields DEF Harmless, Fixed, IsStatus
<1>8. Upgraded(c) = Without(Updated(c, changes), "upgrade")
  BY Zenon DEF Upgraded, changes, status, facts, origin
<1> QED BY <1>6, <1>7, <1>8, ClosedIsSound

(* An upgrade that is rolled back.                                         *)
LEMMA UpgradeRolledBackIsSound ==
  ASSUME NEW r, NEW root, NEW c, Sound(c, r, root), PackageFields \subseteq DOMAIN c,
         NEW phase, c["upgrade"] = UpgradeJournal(phase)
  PROVE  Sound(UpgradeRolledBack(c), r, root) /\ RecordedVersion(UpgradeRolledBack(c)) = "own"
<1> DEFINE changes == [status |-> "installed", profilePackageVersion |-> c.upgrade.fromVersion,
                       profilePackageSpec |-> c.upgrade.fromSpec,
                       profilePackageBuildIdentity |-> c.upgrade.fromBuildIdentity]
<1>1. /\ DOMAIN changes = {"status", "profilePackageVersion", "profilePackageSpec",
                           "profilePackageBuildIdentity"}
      /\ changes["status"] = "installed" /\ changes["profilePackageVersion"] = "own"
  BY DEF UpgradeJournal
<1>2. IsOrigin(c["profilePackageOrigin"])
  BY ThePackageFields DEF Sound, HasGroup
<1>3. UpgradeRolledBack(c) = Without(Updated(c, changes), "upgrade")
  BY Zenon DEF UpgradeRolledBack
<1> HIDE DEF changes
<1>4. Harmless(changes, c, root)
  BY <1>1, <1>2 DEF Harmless, Fixed, IsStatus
<1>5. "profilePackageVersion" \in DOMAIN changes /\ changes["profilePackageVersion"] = "own"
  BY <1>1
<1> QED BY <1>3, <1>4, <1>5, ClosedIsSound

(***************************************************************************)
(* Every record that setup, an upgrade or one of their rollbacks writes is *)
(* read by the next command, and a setup that is run again finds its own   *)
(* settings and no drift: for every request, plain root and state of the   *)
(* disk.                                                                   *)
(***************************************************************************)
THEOREM AnyRecordIsAccepted ==
  ASSUME NEW r, IsRequest(r), NEW root, PlainRoot(root), NEW found, NEW adopts \in BOOLEAN
  PROVE  AcceptsRecords(r, root, found, adopts)
<1> DEFINE installed == Installed(r, root, found, adopts)
           Fine(c) == ReadsRecord(c) /\ SameSettings(c, r)
<1>1. ASSUME NEW c, Sound(c, r, root) PROVE Fine(c)
  BY <1>1, SoundIsRead
<1>2. \A version : Environment(PersistentRequest(r), version) = Environment(r, version)
  BY RecordRendersTheSame DEF IsRequest, ReadBack
<1>3. /\ Sound(installed, r, root)
      /\ ~output => /\ PackageFields \subseteq DOMAIN installed
                    /\ installed["profilePackageVersion"] = "own"
      /\ output => "profilePackageVersion" \notin DOMAIN installed
  BY InstalledIsSound
<1>4. \A c \in SetupRecords(r, root, found, adopts) : Fine(c)
  BY <1>1, SetupWritesSound
<1> HIDE DEF installed, Fine
<1>5. ~Drifted(installed, r, Environment(r, Marker))
  <2>1. RecordedVersion(installed) = Marker
    BY <1>3, ThePackageFields DEF RecordedVersion, Marker
  <2> QED BY <2>1 DEF Drifted
<1>6. ASSUME ~output
      PROVE  /\ \A c \in UpgradeRecords(installed) : Fine(c)
             /\ ~Drifted(Upgraded(installed), r, Environment(installed.request, "target"))
             /\ \A phase \in UpgradePhases :
                  LET upgrading == Upgrading(installed, phase)
                  IN  ~Drifted(UpgradeRolledBack(upgrading), r,
                               Environment(upgrading.request, upgrading.upgrade.fromVersion))
  <2>1. Fine(Upgraded(installed)) /\ RecordedVersion(Upgraded(installed)) = "target"
    BY <1>1, <1>3, <1>6, UpgradedIsSound
  <2>2. ASSUME NEW phase \in UpgradePhases
        PROVE  /\ Fine(Upgrading(installed, phase))
               /\ Upgrading(installed, phase).request = PersistentRequest(r)
               /\ Upgrading(installed, phase).upgrade.fromVersion = "own"
               /\ Fine(UpgradeRolledBack(Upgrading(installed, phase)))
               /\ RecordedVersion(UpgradeRolledBack(Upgrading(installed, phase))) = "own"
    <3> DEFINE u == Upgrading(installed, phase)
    <3>1. /\ Sound(u, r, root) /\ PackageFields \subseteq DOMAIN u
          /\ u["upgrade"] = UpgradeJournal(phase)
      BY <1>3, <1>6, UpgradingIsSound
    <3> HIDE DEF u
    <3>2. u.request = PersistentRequest(r) /\ u.upgrade.fromVersion = "own"
      BY <3>1 DEF Sound, Tells, UpgradeJournal
    <3>3. Sound(UpgradeRolledBack(u), r, root) /\ RecordedVersion(UpgradeRolledBack(u)) = "own"
      BY <3>1, UpgradeRolledBackIsSound
    <3> QED BY <1>1, <3>1, <3>2, <3>3 DEF u
  <2>3. \A c \in UpgradeRecords(installed) : Fine(c)
    BY <2>1, <2>2, Zenon DEF UpgradeRecords
  <2>4. installed.request = PersistentRequest(r)
    BY <1>3 DEF Sound, Tells
  <2>5. ~Drifted(Upgraded(installed), r, Environment(installed.request, "target"))
    BY <1>2, <2>1, <2>4, Zenon DEF Drifted
  <2>6. \A phase \in UpgradePhases :
          LET upgrading == Upgrading(installed, phase)
          IN  ~Drifted(UpgradeRolledBack(upgrading), r,
                       Environment(upgrading.request, upgrading.upgrade.fromVersion))
    BY <1>2, <2>2, Zenon DEF Drifted
  <2> QED BY <2>3, <2>5, <2>6
<1> QED BY <1>4, <1>5, <1>6, Zenon DEF AcceptsRecords, installed, Fine

(* And of every managed file.                                              *)
LEMMA ReadersDoAccept == ReadersAccept
<1>1. ASSUME NEW path \in Files, NEW file \in Written(path)
      PROVE  /\ DoctorAccepts(path, file) /\ PluginAccepts(path, file)
             /\ RootAccepts(path, file) /\ IssuerAccepts(path, file)
  BY FilesAccepted
<1>2. ASSUME NEW path \in Files
      PROVE  ExpectedOutputMode(path) \in {OutputMode(path), Unchecked}
  BY OutputModesAccepted
<1>3. ASSUME NEW r \in {x \in Requests : x.outputDirectory = output},
             NEW root \in {spelled \in Roots : PlainlySpelled(spelled)}, NEW adopts \in BOOLEAN,
             NEW found \in SUBSET {"configDirectory", "systemdDropInDirectory"}
      PROVE  AcceptsRecords(r, root, found, adopts)
  BY RequestsAreLines, RootsArePlain, AnyRecordIsAccepted
<1> QED BY <1>1, <1>2, <1>3, Zenon DEF ReadersAccept

(***************************************************************************)
(* No command leaves a managed file or an ownership record that another    *)
(* command, the doctor or the plugin refuses, and a setup that is run      *)
(* again finds no drift.                                                   *)
(***************************************************************************)
THEOREM WritersAreAccepted == Spec => EveryReaderAccepts
<1>1. [FirstSetup => ReadersAccept]_vars
  BY ReadersDoAccept
<1> QED BY <1>1, PTL DEF EveryReaderAccepts

=============================================================================
