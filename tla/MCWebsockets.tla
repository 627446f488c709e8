------------------------------ MODULE MCWebsockets ------------------------------
(***************************************************************************)
(* A WebSocket connection: the slot it takes, the bridge, the close frames *)
(* it ends with and the accounting around it.  The four share no state:    *)
(* each is explored with the others at rest.                               *)
(***************************************************************************)
EXTENDS Bridge, ConnectionLimiter, WSRelayer, TLC

CONSTANTS Parts, c1, c2, c3, g1, o1, o2, o3, a, b

VARIABLE part

MCShapes ==
    {[rebind |-> TRUE, starts |-> {"planner", c2, g1}, talkers |-> {c1}],
     [rebind |-> TRUE, starts |-> {"stall", c2, c3}, talkers |-> {}],
     [rebind |-> TRUE, starts |-> {c2, c3}, talkers |-> {"client"}],
     [rebind |-> TRUE, starts |-> {c2, g1}, talkers |-> {"client", c1}],
     [rebind |-> FALSE, starts |-> {"ping", "stall", g1}, talkers |-> {"client", c1}]}
MCClientOf == (o1 :> a) @@ (o2 :> a) @@ (o3 :> b)

\* The codes around every boundary.
MCCodes == {0, 2999, 3000, 4000, 4999, 5000} \cup 999..1016

mcVars == <<part, bridgeVars, closeVars, limiterVars, wsVars>>

MCInit ==
    /\ part \in Parts /\ BridgeInit /\ CloseInit /\ LimiterInit /\ WSInit
    /\ part # "bridge" => shape = CHOOSE s \in Shapes : TRUE
    /\ part # "limiter" => max = 0

MCNext ==
    \/ part = "bridge" /\ BridgeNext /\ UNCHANGED <<part, closeVars, limiterVars, wsVars>>
    \/ part = "close" /\ CloseNext /\ UNCHANGED <<part, bridgeVars, limiterVars, wsVars>>
    \/ part = "limiter" /\ LimiterNext /\ UNCHANGED <<part, bridgeVars, closeVars, wsVars>>
    \/ part = "relayer" /\ WSNext /\ UNCHANGED <<part, bridgeVars, closeVars, limiterVars>>

MCSpec == MCInit /\ [][MCNext]_mcVars

\* websockets/bridge.go:712, :792: a client's frame is never routed to a socket
\* the bridge no longer holds, and the close frames carry codes that may be sent
\* and say why the connection ended.
BridgesHold ==
    /\ part = "bridge" => BridgeTypeOK /\ RoutesToHeldEndpoint
    /\ part = "close" => ClosesAsPromised
    /\ part = "limiter" => LimiterTypeOK
    /\ part = "relayer" => WSTypeOK
=============================================================================
