---------------------------- MODULE ServerClock ----------------------------
(***************************************************************************)
(* The clock the requests read (Date.now in src/index.ts), in small units. *)
(* It does not step back here; DiagnosticLog and SessionStore have clocks  *)
(* that do.                                                                *)
(***************************************************************************)
EXTENDS Integers

CONSTANT MaxTime  \* bound: largest reading of the clock

ASSUME TimeAssumption == MaxTime \in Nat

VARIABLE clock

Tick == clock < MaxTime /\ clock' = clock + 1
=============================================================================
