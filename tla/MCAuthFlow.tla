----------------------------- MODULE MCAuthFlow -----------------------------
(***************************************************************************)
(* Instances of AuthFlow for TLC: two requests that wait for Argon2 at the *)
(* same time, and whatever the server does meanwhile.                      *)
(***************************************************************************)
EXTENDS AuthFlow, TLC

FlowConfig(idle) == [ttl |-> 2, idle |-> idle, renewal |-> 1, max |-> 2, secret |-> "s1"]

\* A session is due for renewal at time 1, or it has expired by then.
FlowConfigs == {FlowConfig(1), FlowConfig(2)}

OneConfig == {FlowConfig(2)}

FlowSymmetry == Permutations(Requests) \cup Permutations(Hashes)
=============================================================================
