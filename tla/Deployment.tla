----------------------------- MODULE Deployment -----------------------------
(***************************************************************************)
(* From the command line of setup to the running edge: the request         *)
(* (src/cli.ts, installer/validation.ts), what is rendered from it         *)
(* (config-files.ts, caddy.ts, deploy/caddy), the plugin's configuration   *)
(* (src/config.ts), the login URL (issue-login-token.ts) and what the      *)
(* plugin sees of a browser behind the edge (src/http.ts).                 *)
(*                                                                         *)
(* These are functions of their arguments.  An option that is not given is *)
(* "none", or FALSE.  Hosts and ports are what the code tells apart: the   *)
(* loopback, a private or a public address, a name, and one that begins    *)
(* like a private address; the default port of the scheme, or another.     *)
(***************************************************************************)
EXTENDS Configuration

Given(option, default) == IF option # "none" THEN option ELSE default

(***************************************************************************)
(* The command line.  `port` is --https-port or --http-port, as the mode   *)
(* has it; `messages` are the texts for a token that fails.                *)
(***************************************************************************)
Transports ==
  [mode: {"none", "https", "http"}, behindTlsProxy: BOOLEAN,
   listenAddress: {"none", "loopback", "private", "public"},
   port: {"none", "default", "other"},
   serverName: {"none", "name", "private", "public"},
   tls: {"none", "automatic", "manual"}, certificate: BOOLEAN, certificateKey: BOOLEAN]

Administrators ==
  [adminBootstrap: {"none", "password", "login-token"}, adminUsername: BOOLEAN,
   loginToken: {"none", "enabled", "disabled"}, messages: BOOLEAN,
   password: {"none", "file", "stdin", "both"}]

Targets == [outputDirectory: BOOLEAN, dshService: BOOLEAN]

(***************************************************************************)
(* collectInteractiveSetupInputs(): what the command line leaves open is   *)
(* asked; an empty answer, "none", takes the default where there is one.   *)
(***************************************************************************)
Answers ==
  [adminBootstrap: {"password", "login-token"}, loginToken: {"none", "enabled", "disabled"},
   mode: {"none", "https", "http"}, tls: {"none", "automatic", "manual"},
   listenAddress: {"none", "loopback", "private", "public"},
   serverName: {"name", "private", "public"}]

InteractiveTls(line, answers) ==
  LET tls == Given(line.tls, Given(answers.tls, "automatic"))
  IN  IF line.mode = "http"
        THEN [line EXCEPT !.listenAddress = Given(@, answers.listenAddress)]
        ELSE [line EXCEPT !.tls = tls,
                          !.listenAddress = Given(@, Given(answers.listenAddress, "public")),
                          !.serverName = Given(@, answers.serverName),
                          !.certificate = @ \/ tls = "manual",
                          !.certificateKey = @ \/ tls = "manual"]

Dialogue(line, answers) ==
  LET bootstrap == Given(line.adminBootstrap, answers.adminBootstrap)
  IN  InteractiveTls(
        [line EXCEPT
           !.dshService = @ \/ ~line.outputDirectory,
           !.adminBootstrap = bootstrap,
           !.loginToken = IF bootstrap = "login-token" THEN "enabled"
                          ELSE Given(@, Given(answers.loginToken, "disabled")),
           !.adminUsername = @ \/ bootstrap = "password",
           !.mode = Given(@, Given(answers.mode, "https")),
           !.password = IF bootstrap = "password" THEN Given(@, "interactive") ELSE @],
        answers)

(***************************************************************************)
(* withSetupDefaults(), setupRequest().                                    *)
(***************************************************************************)
WithDefaults(line) ==
  LET mode == Given(line.mode, "https")
  IN  [line EXCEPT
         !.mode = mode,
         !.listenAddress = IF mode = "https" THEN Given(@, "public") ELSE @,
         !.tls = IF mode = "https" THEN Given(@, "automatic") ELSE "none",
         !.loginToken = IF line.adminBootstrap = "login-token" THEN "enabled" ELSE @,
         !.port = Given(@, IF mode = "https" THEN "default" ELSE "other")]

\* assertRequiredSetupInputs(), passwordSourceFrom()
Complete(inputs) ==
  /\ inputs.adminBootstrap # "none" /\ inputs.loginToken # "none"
  /\ inputs.adminBootstrap = "password" => inputs.adminUsername
  /\ inputs.listenAddress # "none"
  /\ ~inputs.outputDirectory => inputs.dshService
  /\ inputs.password # "both"

\* isPrivateAddress() goes by the first characters: it takes a name like 10.example.com, too.
Private(host) == host \in {"loopback", "private", "privateName"}

ValidBootstrap(r) ==
  CASE r.adminBootstrap = "password" -> r.adminUsername
    [] r.adminBootstrap = "login-token" ->
         ~r.adminUsername /\ r.password = "none" /\ r.loginToken = "enabled"

ValidTokenPolicy(r) == r.messages => r.loginToken = "enabled"

ValidListenAddress(r) == r.mode = "http" => Private(r.listenAddress)

ValidTransport(r) ==
  /\ r.behindTlsProxy => r.mode = "http" /\ r.listenAddress = "loopback"
  /\ r.mode = "http" =>
       r.tls = "none" /\ ~r.certificate /\ ~r.certificateKey /\ r.serverName = "none"
  /\ r.mode = "https" =>
       /\ r.serverName # "none"
       /\ r.tls = "automatic" =>
            r.serverName # "private" /\ ~r.certificate /\ ~r.certificateKey
       /\ r.tls = "manual" => r.certificate /\ r.certificateKey

Valid(r) ==
  ValidBootstrap(r) /\ ValidTokenPolicy(r) /\ ValidListenAddress(r) /\ ValidTransport(r)

\* runSetupOrPlan(), validatePasswordSource()
Accepted(line) ==
  LET r == WithDefaults(line)
  IN  /\ Complete(r) /\ Valid(r)
      /\ r.adminBootstrap = "password" => r.password # "none"

-----------------------------------------------------------------------------
(***************************************************************************)
(* What setup writes from a request: the record, the plugin's environment, *)
(* the edge, and the administrator of the authentication document.         *)
(***************************************************************************)
PersistentRequest(r) == [r EXCEPT !.password = "none"]

\* readInstallState(), validatePersistedRequest()
ReadBack(r) == PersistentRequest(r)

TokenLimits == [loginTokenWindowSeconds |-> 60, loginTokenMaxAttempts |-> 10,
                loginTokenBlockSeconds |-> 300]

\* Slip: the token directory is named whether tokens are enabled or not.
EnvironmentWithDirectory(r, version) ==
  [authStateFile |-> "document", sessionSecretFile |-> [bytes |-> 43, nul |-> FALSE],
   expectedVersion |-> version, nativeAuthBridge |-> TRUE,
   loginTokenEnabled |-> r.loginToken = "enabled",
   loginTokenDirectory |-> "login-tokens",
   loginTokenFailureMessageZh |-> "absent", loginTokenFailureMessageEn |-> "absent",
   secureCookies |-> r.mode = "https" \/ r.behindTlsProxy]

\* renderEnvironmentFile(); in an output directory no version is known.
Environment(r, version) ==
  LET tokens == r.loginToken = "enabled"
      message == IF tokens /\ r.messages THEN "plain" ELSE "absent"
  IN  [authStateFile |-> "document", sessionSecretFile |-> [bytes |-> 43, nul |-> FALSE],
       expectedVersion |-> version, nativeAuthBridge |-> TRUE,
       loginTokenEnabled |-> tokens,
       loginTokenDirectory |-> IF tokens THEN "login-tokens" ELSE "absent",
       loginTokenFailureMessageZh |-> message, loginTokenFailureMessageEn |-> message,
       secureCookies |-> r.mode = "https" \/ r.behindTlsProxy]
      ++ IF tokens THEN TokenLimits ELSE << >>

\* The service without the drop-in.
NoEnvironment ==
  [authStateFile |-> "absent", sessionSecretFile |-> NoSecret, expectedVersion |-> "absent",
   nativeAuthBridge |-> FALSE, loginTokenEnabled |-> FALSE, loginTokenDirectory |-> "absent",
   loginTokenFailureMessageZh |-> "absent", loginTokenFailureMessageEn |-> "absent",
   secureCookies |-> TRUE]

\* writeAuthState()
HasAdministrator(r) == r.adminBootstrap = "password" /\ r.adminUsername

Origin(scheme, host, port) == [scheme |-> scheme, host |-> host, port |-> port]

Origins ==
  [scheme: {"https", "http"}, host: {"loopback", "private", "public", "name", "privateName"},
   port: {"default", "other"}]

NoOrigin == Origin("none", "none", "none")

\* publicOrigin(), as a browser reads it: the default port of the scheme is left out.
PublicOrigin(r) ==
  IF r.mode = "https" THEN Origin("https", r.serverName, r.port)
                      ELSE Origin("http", r.listenAddress, r.port)

-----------------------------------------------------------------------------
(***************************************************************************)
(* issue-login-token: where the URL points.  On a system it is the         *)
(* recorded origin, and the operator's behind a TLS proxy; beside a        *)
(* container it is always the operator's.                                  *)
(***************************************************************************)
ValidPublicOrigin(o) == o.scheme = "http" => Private(o.host)

Issues(r, given) ==
  /\ r.loginToken = "enabled"
  /\ r.outputDirectory \/ r.behindTlsProxy <=> given # NoOrigin
  /\ ValidPublicOrigin(given)
  /\ ~r.outputDirectory /\ r.behindTlsProxy => given.scheme = "https"

IssuedOrigin(r, given) == IF given # NoOrigin THEN given ELSE PublicOrigin(r)

(***************************************************************************)
(* The way of a request: the browser, which may add forwarded headers of   *)
(* its own; the operator's TLS proxy, which replaces them; the edge.       *)
(***************************************************************************)
Headers == [host: {NoOrigin} \cup Origins, realIp: {"none", "browser", "other"}]

\* What arrives at the edge: `secure` is X-Forwarded-Proto https.
Arriving(r, page, headers) ==
  IF r.behindTlsProxy
    THEN [host |-> page, secure |-> page.scheme = "https", realIp |-> "browser"]
    ELSE [host |-> headers.host, secure |-> headers.host.scheme = "https",
          realIp |-> headers.realIp]

\* The site the edge serves, and its guards: another host is answered with 421.
Admits(r, page, arriving) ==
  IF r.behindTlsProxy
    THEN arriving.secure /\ arriving.host # NoOrigin /\ arriving.realIp # "none"
    ELSE page = PublicOrigin(r)

\* Slip: the edge passes the headers on that arrive.
ForwardsArriving(r, arriving) == [host |-> arriving.host, realIp |-> arriving.realIp]

\* header_up X-Forwarded-Host, X-Forwarded-Proto and X-Real-IP
Forwarded(r, arriving) ==
  IF r.behindTlsProxy
    THEN [host |-> arriving.host, realIp |-> arriving.realIp]
    ELSE [host |-> PublicOrigin(r), realIp |-> "browser"]

\* clientAddress(), publicOrigin() of src/http.ts: the edge is a trusted proxy.
ClientAddress(forwarded) == Given(forwarded.realIp, "edge")
SeenOrigin(forwarded) == forwarded.host

\* hasSameOrigin(): `supplied` is the request's Origin, or else its Referer.
SameOrigin(forwarded, supplied) == supplied # NoOrigin /\ supplied = SeenOrigin(forwarded)

(***************************************************************************)
(* protectedRequestOriginAllowed(): what /auth/verify asks of the request  *)
(* behind it, apart from a session.  A page says of a request whether it   *)
(* changes something or opens a socket, and where the page comes from; not *)
(* every browser sends Sec-Fetch-Site.                                     *)
(***************************************************************************)
ProtectedOriginAllowed(forwarded, request) ==
  \/ ~request.changes /\ ~request.upgrade
  \/ /\ request.fetchSite \in {"absent", "same-origin", "none"}
     /\ SameOrigin(forwarded, request.origin)

PageRequests(page, sites) ==
  [changes: BOOLEAN, upgrade: BOOLEAN, origin: {page}, fetchSite: {"absent"} \cup sites]

-----------------------------------------------------------------------------
(***************************************************************************)
(* The command lines that are tried: every transport with two              *)
(* administrators, every administrator with one transport, every dialogue. *)
(***************************************************************************)
Plain == [adminBootstrap |-> "password", adminUsername |-> TRUE, loginToken |-> "enabled",
          messages |-> FALSE, password |-> "file"]
TokenOnly == [Plain EXCEPT !.adminBootstrap = "login-token", !.adminUsername = FALSE,
                           !.password = "none"]
Https == [mode |-> "https", behindTlsProxy |-> FALSE, listenAddress |-> "public",
          port |-> "none", serverName |-> "name", tls |-> "none", certificate |-> FALSE,
          certificateKey |-> FALSE]
Silent == [mode |-> "none", behindTlsProxy |-> FALSE, listenAddress |-> "none",
           port |-> "none", serverName |-> "none", tls |-> "none", certificate |-> FALSE,
           certificateKey |-> FALSE]
Unnamed == [adminBootstrap |-> "none", adminUsername |-> FALSE, loginToken |-> "none",
            messages |-> FALSE, password |-> "none"]

CommandLines ==
  {t ++ a ++ o : t \in Transports, a \in {Plain, TokenOnly}, o \in Targets} \cup
  {Https ++ a ++ o : a \in Administrators, o \in Targets}

Dialogues ==
  {Dialogue(Silent ++ Unnamed ++ o, answers) : o \in Targets, answers \in Answers}

Requests == {WithDefaults(line) : line \in {l \in CommandLines \cup Dialogues : Accepted(l)}}

=============================================================================
