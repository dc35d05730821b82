------------------------- MODULE MCLoginTokenStore -------------------------
(***************************************************************************)
(* Instances of LoginTokenStore for TLC.  Issuers are interchangeable, so  *)
(* the safety runs use their symmetry.                                     *)
(***************************************************************************)
EXTENDS LoginTokenStore, TLC

IssuerSymmetry == Permutations(Issuers)
=============================================================================
