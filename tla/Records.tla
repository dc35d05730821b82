------------------------------- MODULE Records -------------------------------
(***************************************************************************)
(* A record made of parts: what the first leaves open, the second gives.   *)
(* It is @@ of module TLC, written as a function, so that it can be proved *)
(* about.                                                                  *)
(***************************************************************************)
f ++ g == [x \in DOMAIN f \cup DOMAIN g |-> IF x \in DOMAIN f THEN f[x] ELSE g[x]]

=============================================================================
