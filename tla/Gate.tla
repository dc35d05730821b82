-------------------------------- MODULE Gate --------------------------------
(***************************************************************************)
(* The parts of the gate around the session store: the limiter, login at a *)
(* provider, identities asserted by a gateway, the forms of the pages, the *)
(* diagnostic log and the bridge into the host.  The first three forget    *)
(* what they know when the process restarts.  Which of them a behaviour    *)
(* exercises is chosen at the start (focus): they share the clock and      *)
(* nothing else, but for login at a provider, which spends the limiter's   *)
(* budget.                                                                 *)
(***************************************************************************)
EXTENDS ExternalLogin, GatewayIdentity, FormTabs, DiagnosticLog, NativeBridge

VARIABLE focus

gate == <<clock, limiterVars, externalVars, gatewayVars, formVars, logVars, bridgeVars, focus>>

Parts == {"limiter", "external", "gateway", "forms", "log", "bridge"}

GateInit ==
  /\ clock = Window  \* late enough for a window to lie in the past
  /\ focus \in Parts
  /\ LimiterInit /\ ExternalInit /\ GatewayInit /\ FormInit /\ LogInit /\ BridgeInit

Timed == {"limiter", "external", "gateway", "forms"}

GateTick ==
  /\ focus \in Timed /\ Tick
  /\ UNCHANGED <<limiterVars, externalVars, gatewayVars, formVars, logVars, bridgeVars, focus>>

UseLimiter ==
  /\ focus = "limiter" /\ LimiterNext
  /\ UNCHANGED <<clock, externalVars, gatewayVars, formVars, logVars, bridgeVars, focus>>

UseProvider ==
  /\ focus = "external" /\ ExternalNext
  /\ UNCHANGED <<clock, gatewayVars, formVars, logVars, bridgeVars, focus>>

UseGateway ==
  /\ focus = "gateway" /\ GatewayNext
  /\ UNCHANGED <<clock, limiterVars, externalVars, formVars, logVars, bridgeVars, focus>>

UseForms ==
  /\ focus = "forms" /\ FormNext
  /\ UNCHANGED <<clock, limiterVars, externalVars, gatewayVars, logVars, bridgeVars, focus>>

UseLog ==
  /\ focus = "log" /\ LogNext
  /\ UNCHANGED <<clock, limiterVars, externalVars, gatewayVars, formVars, bridgeVars, focus>>

UseBridge ==
  /\ focus = "bridge" /\ BridgeNext
  /\ UNCHANGED <<clock, limiterVars, externalVars, gatewayVars, formVars, logVars, focus>>

GateNext == GateTick \/ UseLimiter \/ UseProvider \/ UseGateway \/ UseForms \/ UseLog \/ UseBridge

GateSpec == GateInit /\ [][GateNext]_gate
=============================================================================
