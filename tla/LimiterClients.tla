--------------------------- MODULE LimiterClients ---------------------------
(***************************************************************************)
(* Clients of one LoginLimiter: every request consumes an attempt of its   *)
(* key, a successful one makes the limiter forget the key, and a restart   *)
(* of the server makes it forget them all.                                 *)
(***************************************************************************)
EXTENDS LoginLimiter, ServerClock

VARIABLES
  buckets,   \* the limiter's map
  admitted,  \* history: times of the admitted attempts since the last reset
  denied     \* history: the last denial of a key that has not tried since

limiterVars == <<buckets, admitted, denied>>

NotDenied == [blocked |-> FALSE, until |-> 0]

Consume(key) ==
  LET retry == RetryAfter(buckets, key, clock)
  IN  /\ buckets' = Consumed(buckets, key, clock)
      /\ admitted' = IF retry = 0 THEN [admitted EXCEPT ![key] = Append(@, clock)] ELSE admitted
      /\ denied' = [denied EXCEPT ![key] =
           IF retry = 0 THEN NotDenied
           ELSE [blocked |-> key \in DOMAIN buckets', until |-> clock + retry * Second]]

Reset(key) ==
  /\ buckets' = Forget(buckets, key)
  /\ admitted' = [admitted EXCEPT ![key] = <<>>]
  /\ denied' = [denied EXCEPT ![key] = NotDenied]

LimiterLost ==
  /\ buckets' = NoBuckets
  /\ admitted' = [k \in Keys |-> <<>>]
  /\ denied' = [k \in Keys |-> NotDenied]

LimiterInit ==
  /\ buckets = NoBuckets
  /\ admitted = [k \in Keys |-> <<>>]
  /\ denied = [k \in Keys |-> NotDenied]

LimiterNext == LimiterLost \/ \E k \in Keys : Consume(k) \/ Reset(k)

-----------------------------------------------------------------------------
(***************************************************************************)
(* The sliding window: since its last reset, a key was never admitted more *)
(* than MaxAttempts times within any Window, whatever was pruned between.  *)
(***************************************************************************)
WindowRespected ==
  \A k \in Keys : \A i \in DOMAIN admitted[k] :
    LET i2 == i + MaxAttempts
    IN  i2 \in DOMAIN admitted[k] => admitted[k][i2] - admitted[k][i] >= Window

(***************************************************************************)
(* A denial that blocks a key is worth exactly what it announces: the key  *)
(* stays denied up to the last second of the announced time, although its  *)
(* bucket is pruned and competed for meanwhile.  A client that waits that  *)
(* long is not denied by its own bucket, unless the block is shorter than  *)
(* the window, which the configuration allows.                             *)
(***************************************************************************)
DenialsHold ==
  \A k \in Keys : denied[k].blocked =>
    /\ clock + Second <= denied[k].until => RetryAfter(buckets, k, clock) > 0
    /\ Window <= Block /\ denied[k].until <= clock =>
         RetryAfter(Restrict(buckets, DOMAIN buckets \cap {k}), k, clock) = 0
=============================================================================
