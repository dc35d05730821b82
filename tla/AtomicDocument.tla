--------------------------- MODULE AtomicDocument ---------------------------
(***************************************************************************)
(* What the authentication document promises to the store that keeps it:   *)
(* a reader finds the old or the new version, whole; a write that returns  *)
(* has replaced the document for good; a write that reports a plain error  *)
(* has left the old one, and the new one will not appear later.            *)
(***************************************************************************)
CONSTANTS Versions, None

VARIABLES
  value,    \* the version a reader finds, None if there is no document
  maybe,    \* the versions a reader may find after a power loss
  pending,  \* the version being written, None between writes
  before,   \* the version it is to replace
  outcome   \* what the last write reported

docvars == <<value, maybe, pending, before, outcome>>

AtomicInit ==
  /\ value \in Versions \cup {None}
  /\ maybe = {value}
  /\ pending = None /\ before = None
  /\ outcome = "none"

Begin(v) ==
  /\ pending = None
  /\ pending' = v /\ before' = value /\ outcome' = "none"
  /\ UNCHANGED <<value, maybe>>

\* While the write is going on, a reader may find either version.
Progress ==
  /\ pending # None
  /\ value' \in {before, pending}
  /\ maybe' \in (SUBSET (maybe \cup {before, pending})) \ {{}}
  /\ UNCHANGED <<pending, before, outcome>>

End(result) == pending # None /\ pending' = None /\ before' = None /\ outcome' = result

Saved ==
  /\ End("saved")
  /\ value' = pending /\ maybe' = {pending}

Restored ==
  /\ End("restored")
  /\ value' = before
  /\ maybe' \in (SUBSET (maybe \cup {before})) \ {{}} /\ pending \notin maybe'

\* "update and rollback failed": nothing is known of the document.
Unknown ==
  /\ End("unknown")
  /\ value' \in {before, pending}
  /\ maybe' \in (SUBSET (maybe \cup {before, pending})) \ {{}}

Crash == End("none") /\ UNCHANGED <<value, maybe>>

PowerLoss ==
  /\ value' \in maybe /\ maybe' = {value'}
  /\ pending' = None /\ before' = None /\ outcome' = "none"

AtomicNext ==
  \/ \E v \in Versions : Begin(v)
  \/ Progress
  \/ Saved \/ Restored \/ Unknown
  \/ Crash \/ PowerLoss

AtomicSpec == AtomicInit /\ [][AtomicNext]_docvars
=============================================================================
