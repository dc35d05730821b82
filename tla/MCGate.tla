------------------------------- MODULE MCGate -------------------------------
(***************************************************************************)
(* Gate for TLC.  A second is two units: blocks and windows end within a   *)
(* second, and an assertion arrives before, within and after its own.      *)
(***************************************************************************)
EXTENDS Gate

MCStamps == {1, 2}
=============================================================================
