----------------------------- MODULE MCInstaller -----------------------------
(***************************************************************************)
(* Installer for TLC: a first command, one that fails or is killed, and    *)
(* one that finds what it has left.                                        *)
(***************************************************************************)
EXTENDS Installer
=============================================================================
