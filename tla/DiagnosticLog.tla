---------------------------- MODULE DiagnosticLog ----------------------------
(***************************************************************************)
(* createAuthEventLogger() in src/logging.ts: informational events are     *)
(* always written, diagnostics up to a budget per window; the number of    *)
(* those it kept back is written when a later event begins a new window.   *)
(* The clock may step back.                                                *)
(***************************************************************************)
EXTENDS Integers, Sequences, FiniteSets

CONSTANTS
  LogWindow,  \* DIAGNOSTIC_WINDOW_MS
  MaxEvents,  \* DIAGNOSTIC_MAX_EVENTS
  MaxWall,    \* bound: largest reading of the clock
  MaxRaised   \* bound: diagnostics raised

ASSUME LogAssumption ==
  /\ LogWindow \in Nat \ {0} /\ MaxEvents \in Nat \ {0}
  /\ MaxWall \in Nat /\ MaxRaised \in Nat

VARIABLES
  wall,        \* Date.now
  windowStart, \* windowStartedAt
  spent,       \* diagnosticEvents
  suppressed,  \* suppressedEvents
  raised,      \* history: diagnostics raised
  written,     \* history: the readings at which diagnostics were written
  announced    \* history: the sum of the counts that were announced

logVars == <<wall, windowStart, spent, suppressed, raised, written, announced>>

\* Slip: a clock that stepped back stays in the window.
CurrentThoughEarlier(start, now) == now - start < LogWindow

Current(start, now) == now >= start /\ now - start < LogWindow

StartNow == IF Current(windowStart, wall) THEN windowStart ELSE wall
SpentNow == IF Current(windowStart, wall) THEN spent ELSE 0
HeldNow == IF Current(windowStart, wall) THEN suppressed ELSE 0
AnnouncedNow == IF Current(windowStart, wall) THEN announced ELSE announced + suppressed

Diagnostic ==
  /\ raised < MaxRaised
  /\ raised' = raised + 1
  /\ windowStart' = StartNow
  /\ announced' = AnnouncedNow
  /\ IF SpentNow >= MaxEvents
     THEN suppressed' = HeldNow + 1 /\ UNCHANGED <<spent, written>>
     ELSE spent' = SpentNow + 1 /\ suppressed' = HeldNow /\ written' = Append(written, wall)
  /\ UNCHANGED wall

Informational ==
  /\ windowStart' = StartNow /\ spent' = SpentNow /\ suppressed' = HeldNow
  /\ announced' = AnnouncedNow
  /\ UNCHANGED <<wall, raised, written>>

\* Time passes, or the clock is set back.
WallChanges == wall' \in 0..MaxWall /\ wall' # wall /\ UNCHANGED
  <<windowStart, spent, suppressed, raised, written, announced>>

LogInit ==
  /\ wall = MaxWall \div 2 /\ windowStart = wall
  /\ spent = 0 /\ suppressed = 0 /\ raised = 0 /\ written = <<>> /\ announced = 0

LogNext == Diagnostic \/ Informational \/ WallChanges

LogSpec == LogInit /\ [][LogNext]_logVars

-----------------------------------------------------------------------------
(***************************************************************************)
(* Every diagnostic is written, announced or still counted, and one is     *)
(* kept back only while a full budget was written at readings less than a  *)
(* window away: a clock that is set back does not silence the log.         *)
(***************************************************************************)
Accounted == raised = Len(written) + announced + suppressed

KeptBackWhenNoisy ==
  [][suppressed' > suppressed =>
       Cardinality({i \in DOMAIN written : wall - LogWindow < written[i]
                                            /\ written[i] < wall + LogWindow}) >= MaxEvents]_logVars

DiagnosticsAccounted == []Accounted /\ KeptBackWhenNoisy
=============================================================================
