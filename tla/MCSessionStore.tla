--------------------------- MODULE MCSessionStore ---------------------------
(***************************************************************************)
(* Instances of SessionStore for TLC.  A lifetime of 3 with renewal due 2  *)
(* after the last one leaves room for a touch in memory, a renewal and     *)
(* both kinds of expiry before MaxTime.                                    *)
(***************************************************************************)
EXTENDS SessionStore

Config(ttl, idle, renewal, max, secret) ==
  [ttl |-> ttl, idle |-> idle, renewal |-> renewal, max |-> max, secret |-> secret]

\* Restarts under the same configuration.
SteadyConfigs == {Config(3, 2, 2, 2, "s1")}

\* Restarts that lower the capacity, shorten the lifetime or rotate the secret.
ChangingConfigs ==
  {Config(3, 2, 2, 2, "s1"), Config(2, 2, 1, 1, "s1"), Config(3, 2, 2, 2, "s2")}

\* Restarts that only lower the capacity.
ShrinkingConfigs == {Config(3, 3, 2, 3, "s1"), Config(3, 3, 2, 1, "s1")}
=============================================================================
