------------------------------ MODULE FormTabs ------------------------------
(***************************************************************************)
(* The CSRF pair of one browser with several tabs: every page with a form  *)
(* carries a token and sets the signed CSRF cookie of the browser, which   *)
(* all its tabs share (issueCsrf(), csrfFailureReason() and their callers  *)
(* in src/application.ts and src/admin-password.ts, the sign-out of        *)
(* src/client.tsx).  Tokens are numbered in the order of their issue; a    *)
(* secret that is replaced makes the older ones invalid.                   *)
(***************************************************************************)
EXTENDS ServerClock

CONSTANTS
  Tabs,
  FormLife,  \* lifetime of the CSRF cookie
  MaxTokens  \* bound: tokens ever issued

ASSUME FormAssumption == FormLife \in Nat \ {0} /\ MaxTokens \in Nat

VARIABLES
  csrf,      \* the CSRF cookie: its token (0 when there is none) and its end
  form,      \* the form each tab shows
  minted,    \* tokens issued so far
  oldest,    \* the first token signed with the current secret
  loggedIn   \* the browser has a live session

formVars == <<csrf, form, minted, oldest, loggedIn>>

NoForm == [page |-> "none", token |-> 0]

Presented == IF clock < csrf.until THEN csrf.token ELSE 0

\* CookieSigner.verify(): the token of the cookie, 0 when it is not valid.
Verified == IF Presented >= oldest THEN Presented ELSE 0

\* Slip: every page gets a token of its own.
IssueAlways(forceNew) == minted + 1

\* issueCsrf(): the token a page carries.
IssueCsrf(forceNew) == IF ~forceNew /\ Verified # 0 THEN Verified ELSE minted + 1

FormAccepted(t) == form[t].token # 0 /\ Verified = form[t].token

\* A page is rendered with a token and sets the cookie for another FormLife.
Render(t, page, forceNew) ==
  LET token == IssueCsrf(forceNew)
  IN  /\ token <= MaxTokens
      /\ minted' = IF token > minted THEN token ELSE minted
      /\ csrf' = [token |-> token, until |-> clock + FormLife]
      /\ form' = [form EXCEPT ![t] = [page |-> page, token |-> token]]

Shows(t, page) == form[t].page = page

\* A page without a form; the cookie is left alone.
Plain(t) == form' = [form EXCEPT ![t] = NoForm] /\ UNCHANGED <<csrf, minted, oldest>>

\* The browser is sent elsewhere and its CSRF cookie is cleared.
Done(t, session) ==
  /\ form' = [form EXCEPT ![t] = NoForm]
  /\ csrf' = [token |-> 0, until |-> 0]
  /\ loggedIn' = session
  /\ UNCHANGED <<minted, oldest>>

-----------------------------------------------------------------------------
(***************************************************************************)
(* GET of a page.  Only the login page looks at the cookie it gets; a page *)
(* that needs a session sends the others to login, where they open it.     *)
(***************************************************************************)
OpenLogin(t) ==
  /\ ~loggedIn
  /\ Render(t, "login", FALSE)
  /\ UNCHANGED <<oldest, loggedIn>>

Anew(t, page) == Render(t, page, TRUE) /\ UNCHANGED <<oldest, loggedIn>>

OpenBridge(t) == Anew(t, "token")
OpenAccount(t) == loggedIn /\ Anew(t, "account")
OpenSetup(t) == loggedIn /\ Anew(t, "setup")
OpenPassword(t) == loggedIn /\ Anew(t, "password")
CsrfDocument(t) == loggedIn /\ Anew(t, "sign-out")

\* The settings row fetches a token before it posts the sign-out in a second step.
BeginBrowserLogout(t) == CsrfDocument(t) \/ OpenLogin(t)

Redirected(t) == loggedIn /\ Plain(t) /\ UNCHANGED loggedIn

-----------------------------------------------------------------------------
(***************************************************************************)
(* POST of the login form: a stale pair is answered with a fresh form, a   *)
(* refused or limited attempt with the same pair, a good one signs in.     *)
(***************************************************************************)
LoginStale(t) ==
  /\ Shows(t, "login") /\ ~FormAccepted(t)
  /\ Render(t, "login", TRUE)
  /\ UNCHANGED <<oldest, loggedIn>>

LoginDenied(t) ==
  /\ Shows(t, "login") /\ FormAccepted(t)
  /\ Render(t, "login", FALSE)
  /\ UNCHANGED <<oldest, loggedIn>>

LoginDone(t) == Shows(t, "login") /\ FormAccepted(t) /\ Done(t, TRUE)

(* POST of the bridge page: a failure is a page without a form. *)
TokenFailed(t) == Shows(t, "token") /\ Plain(t) /\ UNCHANGED loggedIn
TokenDone(t) == Shows(t, "token") /\ FormAccepted(t) /\ Done(t, TRUE)

(***************************************************************************)
(* POST of setup and password change: a stale pair is a plain 403, a       *)
(* session that has ended is sent to login, input that is refused gets the *)
(* page again with a pair of its own.                                      *)
(***************************************************************************)
AdminForms == {"setup", "password"}

AdminPostStale(t) ==
  /\ form[t].page \in AdminForms
  /\ ~FormAccepted(t) \/ ~loggedIn
  /\ Plain(t) /\ UNCHANGED loggedIn

AdminPostDenied(t) ==
  /\ form[t].page \in AdminForms /\ FormAccepted(t) /\ loggedIn
  /\ Render(t, form[t].page, TRUE)
  /\ UNCHANGED <<oldest, loggedIn>>

AdminPostDone(t) ==
  form[t].page \in AdminForms /\ FormAccepted(t) /\ loggedIn /\ Done(t, TRUE)

(***************************************************************************)
(* POST of the sign-out, from the account page or the settings row.        *)
(***************************************************************************)
LogoutStale(t) ==
  /\ form[t].page \in {"account", "sign-out"} /\ ~FormAccepted(t)
  /\ Plain(t) /\ UNCHANGED loggedIn

LogoutDone(t) ==
  form[t].page \in {"account", "sign-out"} /\ FormAccepted(t) /\ Done(t, FALSE)

\* The session is revoked or expires; the secret is replaced.
LoggedOut == loggedIn /\ loggedIn' = FALSE /\ UNCHANGED <<csrf, form, minted, oldest>>

SecretReplaced ==
  /\ oldest <= minted
  /\ oldest' = minted + 1 /\ loggedIn' = FALSE
  /\ UNCHANGED <<csrf, form, minted>>

FormInit ==
  /\ csrf = [token |-> 0, until |-> 0]
  /\ form = [t \in Tabs |-> NoForm]
  /\ minted = 0 /\ oldest = 1 /\ loggedIn = FALSE

FormNext ==
  \/ \E t \in Tabs :
       \/ OpenLogin(t) \/ Redirected(t) \/ BeginBrowserLogout(t)
       \/ OpenBridge(t) \/ OpenAccount(t) \/ OpenSetup(t) \/ OpenPassword(t)
       \/ LoginStale(t) \/ LoginDenied(t) \/ LoginDone(t)
       \/ TokenFailed(t) \/ TokenDone(t)
       \/ AdminPostStale(t) \/ AdminPostDenied(t) \/ AdminPostDone(t)
       \/ LogoutStale(t) \/ LogoutDone(t)
  \/ LoggedOut \/ SecretReplaced

-----------------------------------------------------------------------------
(***************************************************************************)
(* Tabs do not invalidate one another over the login page: opening it, or  *)
(* being refused there, leaves a form that works in this tab and keeps     *)
(* every form that works in the others; a stale submission gets a form     *)
(* that works at once.                                                     *)
(***************************************************************************)
TabsShareTheLogin ==
  [][\A t \in Tabs :
       /\ OpenLogin(t) \/ LoginDenied(t) =>
            \A u \in Tabs : u = t \/ FormAccepted(u) => FormAccepted(u)'
       /\ LoginStale(t) => FormAccepted(t)']_formVars
=============================================================================
