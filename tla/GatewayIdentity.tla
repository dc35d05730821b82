--------------------------- MODULE GatewayIdentity ---------------------------
(***************************************************************************)
(* verify() in src/application.ts with an identity asserted by a trusted   *)
(* gateway: resolveGatewayIdentity() in src/gateway-identity.ts.  An       *)
(* assertion is a timestamp in whole seconds, a sequence number, whether   *)
(* its signature is good and what its encrypted identity is worth.  The    *)
(* replay cache reads a clock of finer units.  In safe mode the encrypted  *)
(* identity is required.                                                   *)
(***************************************************************************)
EXTENDS ServerClock, FiniteSets, Sequences, Functions

CONSTANTS
  Units,      \* clock units in a second
  MaxAge,     \* maxAgeSeconds
  Stamps,     \* timestamps of its assertions, in seconds
  Numbers     \* their sequence numbers

ASSUME GatewayAssumption == Units \in Nat \ {0} /\ MaxAge \in Nat /\ Stamps \subseteq Nat

VARIABLES
  replayCache,  \* (timestamp, sequence) -> time it was seen
  accepted,     \* history of this process: when each assertion was accepted
  hasSession,   \* the browser brings a session
  answered      \* the last answer of verify()

gatewayVars == <<replayCache, accepted, hasSession, answered>>

Payloads == {"missing", "unreadable", "expired", "refused", "allowed"}
Moment(a) == <<a.seconds, a.sequence>>
Moments == Stamps \X Numbers

\* Slip: the age is counted from the end of the timestamp's second.
FreshFromItsEnd(seconds, now) ==
  LET age == now \div Units - seconds IN age <= MaxAge + 1 /\ -age <= MaxAge

TimestampFresh(seconds, now) ==
  LET age == now \div Units - seconds IN age <= MaxAge /\ -age <= MaxAge

Forgotten(seen, now) == seen < now - MaxAge * Units

Remembered(now) == Restrict(replayCache, {m \in DOMAIN replayCache : ~Forgotten(replayCache[m], now)})

(***************************************************************************)
(* resolveGatewayIdentity(): the outcome, and the cache afterwards.  A     *)
(* stale timestamp is refused before the cache is pruned; the assertion is *)
(* remembered before its identity is decrypted.                            *)
(***************************************************************************)
Resolve(a) ==
  CASE ~a.present -> "none"
    [] a.present /\ ~TimestampFresh(a.seconds, clock) -> "stale"
    [] a.present /\ TimestampFresh(a.seconds, clock) /\ Moment(a) \in DOMAIN Remembered(clock) ->
         "replayed"
    [] a.present /\ TimestampFresh(a.seconds, clock) /\ Moment(a) \notin DOMAIN Remembered(clock)
       /\ ~a.signed -> "forged"
    [] OTHER -> a.payload

CacheAfter(a) ==
  LET outcome == Resolve(a)
  IN  CASE outcome \in {"none", "stale"} -> replayCache
        [] outcome \in {"replayed", "forged"} -> Remembered(clock)
        [] OTHER -> [m \in DOMAIN Remembered(clock) \cup {Moment(a)} |->
                       IF m = Moment(a) THEN clock ELSE replayCache[m]]

(***************************************************************************)
(* verify(): the origin first, a session before the gateway; an identity   *)
(* the policy refuses is a plain 401.                                      *)
(***************************************************************************)
VerifyRefused ==
  /\ answered' = 403
  /\ UNCHANGED <<replayCache, accepted, hasSession>>

VerifySession ==
  /\ hasSession /\ answered' = 204
  /\ UNCHANGED <<replayCache, accepted, hasSession>>

VerifyAssertion(a) ==
  LET outcome == Resolve(a)
  IN  /\ ~hasSession
      /\ replayCache' = CacheAfter(a)
      /\ accepted' = IF outcome \in Payloads
                     THEN [accepted EXCEPT ![Moment(a)] = Append(@, clock)] ELSE accepted
      /\ hasSession' = (outcome = "allowed")
      /\ answered' = IF outcome = "allowed" THEN 204 ELSE 401

\* The browser's session ends.
SessionEnds ==
  /\ hasSession /\ hasSession' = FALSE
  /\ UNCHANGED <<replayCache, accepted, answered>>

GatewayLost ==
  /\ replayCache' = [m \in {} |-> 0]
  /\ accepted' = [m \in Moments |-> <<>>]
  /\ UNCHANGED <<hasSession, answered>>

GatewayInit ==
  /\ replayCache = [m \in {} |-> 0]
  /\ accepted = [m \in Moments |-> <<>>]
  /\ hasSession = FALSE /\ answered = 0

Assertions ==
  {[present |-> TRUE, seconds |-> m[1], sequence |-> m[2], signed |-> s, payload |-> p] :
     m \in Moments, s \in BOOLEAN, p \in Payloads}
    \cup {[present |-> FALSE, seconds |-> 0, sequence |-> s, signed |-> FALSE, payload |-> "missing"] :
            s \in Numbers}

GatewayNext ==
  \/ VerifyRefused \/ VerifySession \/ SessionEnds \/ GatewayLost
  \/ \E a \in Assertions : VerifyAssertion(a)

-----------------------------------------------------------------------------
(***************************************************************************)
(* An assertion that first arrives in a later second than its timestamp is *)
(* accepted once in the life of the process: the cache remembers it for as *)
(* long as its timestamp is fresh.  One that arrives within its own second *)
(* or before it outlives its entry in the cache.                           *)
(***************************************************************************)
AssertionOnce ==
  \A m \in Moments : \A i, j \in DOMAIN accepted[m] :
    i < j => accepted[m][i] < (m[1] + 1) * Units
=============================================================================
