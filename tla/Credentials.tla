------------------------------ MODULE Credentials ------------------------------
(***************************************************************************)
(* A password on its way from whoever chooses it to the form that asks for *)
(* it again: the command line of setup and reset-password (src/cli.ts,     *)
(* installer/executor.ts), the setup and change forms of the plugin        *)
(* (src/application.ts, src/admin-password.ts), the hash in the            *)
(* authentication document (src/password.ts, src/auth-state.ts) and the    *)
(* login form (src/html.ts, src/http.ts).                                  *)
(*                                                                         *)
(* A text is what these tell apart: its code points, their width in UTF-8, *)
(* whether white space surrounds it, whether control characters or a line  *)
(* end are in it, and whether its accents are composed.                    *)
(***************************************************************************)
EXTENDS Naturals, Records

Text(points, width) ==
  [points |-> points, width |-> width, edged |-> FALSE, control |-> FALSE, lines |-> FALSE,
   composed |-> TRUE]

Bytes(text) == text.points * text.width
Units(text) == text.points * (IF text.width = 4 THEN 2 ELSE 1)   \* of UTF-16

(***************************************************************************)
(* The rules both sides have: parseAdministratorUsername(), and            *)
(* assertAdministratorPassword().                                          *)
(***************************************************************************)
MaxPasswordBytes == 1024

NormalizedUsername(text) == [text EXCEPT !.composed = TRUE]

ValidUsername(text) == ~text.edged /\ ~text.control /\ ~text.lines /\ text.points \in 1..64

ValidPassword(text) == text.points \in 15..128 /\ Bytes(text) <= MaxPasswordBytes

(***************************************************************************)
(* hashPassword() and parsePasswordHash(); a hash determines its password. *)
(***************************************************************************)
Limits ==
  [memory |-> 8 * 1024 .. 1024 * 1024, passes |-> 1..10, parallelism |-> 1..16,
   salt |-> 16..64, tag |-> 16..64]

DefaultParameters == [memory |-> 64 * 1024, passes |-> 3, parallelism |-> 1, tag |-> 32]

HashOf(password) == DefaultParameters ++ [salt |-> 16, password |-> password]

Parses(hash) == \A p \in DOMAIN Limits : hash[p] \in Limits[p]

VerifyPassword(password, hash) == Parses(hash) /\ hash.password = password

-----------------------------------------------------------------------------
(***************************************************************************)
(* The command line.  A file, or the standard input, loses one line end; a *)
(* terminal hands over no control character, and the username is trimmed.  *)
(* Who may read the file is left out.                                      *)
(***************************************************************************)
LineEnds == {"", "LF", "CRLF"}

\* Slip: only a line feed is cut off.
WithoutLineFeed(text, end) == IF end = "CRLF" THEN [text EXCEPT !.control = TRUE] ELSE text

WithoutLineEnd(text, end) == text

FileAccepted(text, end) ==
  Bytes(text) + (CASE end = "" -> 0 [] end = "LF" -> 1 [] end = "CRLF" -> 2) \in 1 .. 16 * 1024

ReadHidden(text) == [text EXCEPT !.control = FALSE, !.lines = FALSE]

PasswordRead(source, text, end) ==
  IF source = "interactive" THEN ReadHidden(text) ELSE WithoutLineEnd(text, end)

UsernameRead(source, text) == IF source = "interactive" THEN [text EXCEPT !.edged = FALSE] ELSE text

Stored(username, password) == [username |-> username, hash |-> HashOf(password)]

\* validateSetupRequest(), prepareSecretMaterial(), writeAuthState()
FromSetup(source, username, password, end) ==
  LET name == UsernameRead(source, username)
      word == PasswordRead(source, password, end)
  IN  IF /\ ValidUsername(NormalizedUsername(name)) /\ ValidPassword(word)
         /\ source = "file" => FileAccepted(password, end)
        THEN {Stored(NormalizedUsername(name), word)} ELSE {}

\* resetManagedPassword() keeps the username.
FromReset(source, stored, password, end) ==
  LET word == PasswordRead(source, password, end)
  IN  IF ValidPassword(word) /\ (source = "file" => FileAccepted(password, end))
        THEN {[stored EXCEPT !.hash = HashOf(word)]} ELSE {}

-----------------------------------------------------------------------------
(***************************************************************************)
(* The forms.  A browser's field holds neither control characters nor line *)
(* ends, and encodes a byte in up to three.                                *)
(***************************************************************************)
Typeable(text) == ~text.control /\ ~text.lines

\* readSetupCredentials(); `again` is the second field.
FromSetupForm(username, password, again) ==
  IF ValidUsername(NormalizedUsername(username)) /\ password = again /\ ValidPassword(password)
    THEN {Stored(NormalizedUsername(username), password)} ELSE {}

\* handleAdminPasswordChange(), readPasswordChange()
FromChangeForm(stored, current, password, again) ==
  IF /\ password = again /\ ValidPassword(password)
     /\ Bytes(current) <= MaxPasswordBytes /\ VerifyPassword(current, stored.hash)
    THEN {[stored EXCEPT !.hash = HashOf(password)]} ELSE {}

\* The login form's username has a maxlength, in units of UTF-16.
LoginFieldHolds(username) == Units(username) <= 128

SignsIn(stored, username, password) ==
  /\ username = stored.username
  /\ Bytes(password) <= MaxPasswordBytes /\ VerifyPassword(password, stored.hash)

\* administrator() of src/auth-state.ts
Loads(stored) ==
  stored.username.points > 0 /\ ~stored.username.control /\ ~stored.username.lines /\ Parses(stored.hash)

(***************************************************************************)
(* safeReturnTarget(): what is too long becomes "/"; parsing the rest as a *)
(* URL writes some characters as "%XX".  `plain` ones it leaves alone.     *)
(***************************************************************************)
ReturnTarget(units, sort) == [units |-> units, sort |-> sort]
ReturnTargetLimit == 4096

SafeReturnTarget(target) ==
  IF target.units \in 1..ReturnTargetLimit THEN target ELSE ReturnTarget(1, "plain")

\* One character of a target, in the body of a form
EncodedWidth == [plain |-> 3, escaped |-> 5, wide |-> 15]

MaxFormBytes == 20 * 1024

FieldBytes(name, value) == name + 1 + value + 1

\* readForm(): csrf and returnTo are in every form, and at most three more.
FormAccepted(target, values) ==
  LET safe == SafeReturnTarget(target)
  IN  FieldBytes(4, 43) + FieldBytes(8, safe.units * EncodedWidth[safe.sort])
        + FieldBytes(16, 3 * Bytes(values[1])) + FieldBytes(16, 3 * Bytes(values[2]))
        + FieldBytes(16, 3 * Bytes(values[3]))
      <= MaxFormBytes

-----------------------------------------------------------------------------
(***************************************************************************)
(* What people choose: lengths and widths at the limits, and one oddity.   *)
(***************************************************************************)
Odd(text) ==
  {text, [text EXCEPT !.edged = TRUE], [text EXCEPT !.control = TRUE], [text EXCEPT !.lines = TRUE],
   [text EXCEPT !.composed = FALSE]}

Usernames == UNION {Odd(Text(n, w)) : n \in {0, 1, 64, 65}, w \in {1, 4}}
Passwords == UNION {Odd(Text(n, w)) : n \in {14, 15, 128, 129}, w \in {1, 4}}

Choosing ==
  (Usernames \X {Text(15, 1), Text(128, 4)}) \cup ({Text(1, 1), Text(64, 4)} \X Passwords)

ReturnTargets ==
  [units: {0, 1, ReturnTargetLimit, ReturnTargetLimit + 1}, sort: {"plain", "escaped", "wide"}]

=============================================================================
