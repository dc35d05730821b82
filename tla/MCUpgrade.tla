------------------------------ MODULE MCUpgrade ------------------------------
(***************************************************************************)
(* Upgrade for TLC: the installed release candidate 0.2.0-rc.10, an older  *)
(* one, and two releases, of which the last brings another Caddy.  The     *)
(* doctor lets a run reach that one only through a recovery.               *)
(***************************************************************************)
EXTENDS Upgrade

Caddies == [b \in 1..4 |-> IF b = 4 THEN 2 ELSE 1]

Candidate(n) == <<[numeric |-> FALSE, value |-> 1], [numeric |-> TRUE, value |-> n]>>

VersionsMC ==
  <<[release |-> <<0, 2, 0>>, prerelease |-> Candidate(9)],
    [release |-> <<0, 2, 0>>, prerelease |-> Candidate(10)],
    [release |-> <<0, 2, 0>>, prerelease |-> <<>>],
    [release |-> <<0, 2, 1>>, prerelease |-> <<>>]>>
=============================================================================
