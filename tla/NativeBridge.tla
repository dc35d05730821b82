---------------------------- MODULE NativeBridge ----------------------------
(***************************************************************************)
(* installNativeAuthBridge() in src/native-auth.ts and its effect in       *)
(* src/index.ts: the bridge replaces two methods of the host's connection  *)
(* by wrappers of them, and its disposer puts the originals back.  Other   *)
(* plugins wrap the same methods and unwrap them.  A method is the chain   *)
(* of its wrappers, the outermost first, down to the native one.           *)
(***************************************************************************)
EXTENDS Sequences, SequencesExt

CONSTANTS
  Bridges,  \* plugin instances with a bridge
  Others    \* other plugins that wrap

ASSUME BridgeAssumption == Bridges \cap Others = {}

VARIABLES
  method,  \* the chain of each method of the connection
  made     \* the wrapper each installed plugin made: a method's chain

bridgeVars == <<method, made>>

WrappedMethods == {"requestRejection", "authorizeIndex"}
NotMade == <<>>

\* Slip: the originals are put back whoever wrapped them since.
RestoreAnyway(p, m) == Tail(made[p][m])

\* A wrapper is taken off only where it is the method of the connection.
Restore(p, m) == IF method[m] = made[p][m] THEN Tail(made[p][m]) ELSE method[m]

Installed(p) == \E m \in WrappedMethods : made[p][m] # NotMade

\* A new instance has a name of its own while an older wrapper is still in a chain.
Install(p) ==
  /\ ~Installed(p)
  /\ \A m \in WrappedMethods : ~Contains(method[m], p)
  /\ method' = [m \in WrappedMethods |-> <<p>> \o method[m]]
  /\ made' = [made EXCEPT ![p] = method']

Dispose(p) ==
  /\ Installed(p)
  /\ method' = [m \in WrappedMethods |-> Restore(p, m)]
  /\ made' = [made EXCEPT ![p] = [m \in WrappedMethods |-> NotMade]]

\* Another plugin wraps one method, and unwraps it while it is outermost.
Wrap(o, m) ==
  /\ made[o][m] = NotMade
  /\ method' = [method EXCEPT ![m] = <<o>> \o @]
  /\ made' = [made EXCEPT ![o][m] = method'[m]]

Unwrap(o, m) ==
  /\ made[o][m] # NotMade /\ method[m] = made[o][m]
  /\ method' = [method EXCEPT ![m] = Tail(@)]
  /\ made' = [made EXCEPT ![o][m] = NotMade]

BridgeInit ==
  /\ method = [m \in WrappedMethods |-> <<>>]
  /\ made = [p \in Bridges \cup Others |-> [m \in WrappedMethods |-> NotMade]]

BridgeNext ==
  \/ \E p \in Bridges : Install(p) \/ Dispose(p)
  \/ \E o \in Others, m \in WrappedMethods : Wrap(o, m) \/ Unwrap(o, m)

-----------------------------------------------------------------------------
(***************************************************************************)
(* Bridges come and go without taking anybody else's wrapper off, and the  *)
(* chain under every wrapper still in use stays the one it wrapped: an     *)
(* installed bridge keeps admitting the browsers that are signed in.       *)
(***************************************************************************)
OthersStayWrapped ==
  \A p \in Bridges \cup Others, m \in WrappedMethods :
    made[p][m] # NotMade => IsSuffix(made[p][m], method[m])
=============================================================================
