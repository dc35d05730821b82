---------------------------- MODULE LoginLimiter ----------------------------
(***************************************************************************)
(* The sliding-window login limiter (src/limiter.ts), as operators on its  *)
(* map of buckets.  A bucket holds the times of the admitted attempts of a *)
(* key, oldest first, and the time until which the key is blocked.         *)
(***************************************************************************)
EXTENDS Integers, FiniteSets, Sequences, Functions

CONSTANTS
  Keys,         \* client addresses
  Window,       \* windowMs
  MaxAttempts,  \* maxAttempts
  Block,        \* blockMs
  MaxKeys,      \* maxKeys
  Second        \* time units in a second: Retry-After is given in seconds

ASSUME LimiterAssumption ==
  /\ Window \in Nat \ {0} /\ Block \in Nat \ {0} /\ Second \in Nat \ {0}
  /\ MaxAttempts \in Nat \ {0} /\ MaxKeys \in Nat \ {0}

NoBuckets == [k \in {} |-> [attempts |-> <<>>, blockedUntil |-> 0]]

Seconds(ms) == (ms + Second - 1) \div Second
AtLeastOne(n) == IF n < 1 THEN 1 ELSE n

LastAttempt(bucket) ==
  IF bucket.attempts = <<>> THEN 0 ELSE bucket.attempts[Len(bucket.attempts)]

\* Slip: a bucket goes with its last attempt, and its block with it.
OutdatedThoughBlocked(bucket, now) == LastAttempt(bucket) <= now - Window

Outdated(bucket, now) ==
  bucket.blockedUntil <= now /\ LastAttempt(bucket) <= now - Window

PruneBuckets(b, now) == Restrict(b, {k \in DOMAIN b : ~Outdated(b[k], now)})

\* The attempts left when the leading ones outside the window are shifted off.
InWindow(attempts, now) ==
  LET n == Cardinality({i \in 1..Len(attempts) :
                          \A j \in 1..i : attempts[j] <= now - Window})
  IN  SubSeq(attempts, n + 1, Len(attempts))

Crowded(b) == Cardinality(DOMAIN b) >= MaxKeys

\* Slip: the attempt that reaches the limit is admitted.
SpentByOne(bucket, now) == Len(InWindow(bucket.attempts, now)) > MaxAttempts

Spent(bucket, now) == Len(InWindow(bucket.attempts, now)) >= MaxAttempts

Fresh == [attempts |-> <<>>, blockedUntil |-> 0]
Bucket(b, key) == IF key \in DOMAIN b THEN b[key] ELSE Fresh

Put(b, key, bucket) ==
  [k \in DOMAIN b \cup {key} |-> IF k = key THEN bucket ELSE b[k]]

(***************************************************************************)
(* consume(): the seconds to wait, 0 when the attempt is admitted, and the *)
(* buckets afterwards.  A bucket that is denied for a running block keeps  *)
(* the attempts it has.                                                    *)
(***************************************************************************)
RetryAfter(b, key, now) ==
  LET pruned == PruneBuckets(b, now)
      bucket == Bucket(pruned, key)
  IN  CASE key \notin DOMAIN pruned /\ Crowded(pruned) -> Seconds(Window)
        [] key \in DOMAIN pruned /\ bucket.blockedUntil > now ->
             AtLeastOne(Seconds(bucket.blockedUntil - now))
        [] key \in DOMAIN pruned /\ bucket.blockedUntil <= now /\ Spent(bucket, now) ->
             AtLeastOne(Seconds(Block))
        [] OTHER -> 0

Consumed(b, key, now) ==
  LET pruned == PruneBuckets(b, now)
      bucket == Bucket(pruned, key)
      recent == InWindow(bucket.attempts, now)
  IN  CASE key \notin DOMAIN pruned /\ Crowded(pruned) -> pruned
        [] key \in DOMAIN pruned /\ bucket.blockedUntil > now -> pruned
        [] key \in DOMAIN pruned /\ bucket.blockedUntil <= now /\ Spent(bucket, now) ->
             Put(pruned, key, [attempts |-> recent, blockedUntil |-> now + Block])
        [] OTHER ->
             Put(pruned, key, [bucket EXCEPT !.attempts = Append(recent, now)])

Forget(b, key) == Restrict(b, DOMAIN b \ {key})

IsBuckets(b) ==
  /\ DOMAIN b \subseteq Keys
  /\ \A k \in DOMAIN b : b[k] \in [attempts: Seq(Nat), blockedUntil: Nat]
=============================================================================
