--------------------------- MODULE MCAuthStateFile ---------------------------
(***************************************************************************)
(* AuthStateFile for TLC.  Two writes let the second meet whatever a       *)
(* failed, crashed or unsynced first one has left; a third adds nothing    *)
(* but another version.                                                    *)
(***************************************************************************)
EXTENDS AuthStateFile
=============================================================================
