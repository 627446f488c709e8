------------------------------ MODULE RelayProofs ------------------------------
(***************************************************************************)
(* What requests and connections share.  For any number of requests with   *)
(* one key, singleflight never runs two relays at once and never hands one *)
(* client the end of another's context.  For any number of WebSocket       *)
(* upgrades and clients the counters of ConnectionLimiter are exact and no *)
(* Acquire overshoots; for any suppliers and any number of rebinds the     *)
(* gauge and the load of WSRelayer are.                                    *)
(***************************************************************************)
EXTENDS Singleflight, ConnectionLimiter, WSRelayer, FiniteSetTheorems, TLAPS

(* A connection's counts (WSRelayer).                                      *)

\* The order the counts rest on: swapMu is held from the selection to the first
\* bind, the flag is set with the release, nobody rebinds before the bridge is
\* up, and the one rebind under way holds the endpoint lock and its supplier.
RebindOrder ==
    /\ swapMu = (open = "starting")
    /\ closed = (open = "closing" \/ (open = "out" /\ gen # 0))
    /\ open = "new" => gen = 0
    /\ open \in {"up", "closing"} => gen # 0
    /\ open # "new" => current \in Endpoints
    /\ gen = 0 => \A t \in WSCallers : wsPc[t] = "idle"
    /\ \A t \in WSCallers : wsPc[t] \in {"resolve", "dial", "swap"} => lock = t
    /\ \A t \in WSCallers : wsPc[t] = "dial" => wsPick \in [ep : Endpoints, end : Nat]

WSInv == WSTypeOK /\ RebindOrder /\ CountsExact

\* A session ends at a height.
LEMMA EndIsHeight == \A h \in Nat : EndAt(h) \in Nat
<1> SUFFICES ASSUME NEW h \in Nat PROVE EndAt(h) \in Nat
  OBVIOUS
<1>1. SessionBlocks \in Nat /\ SessionBlocks > 0 /\ h + SessionBlocks - 1 \in Nat
  BY WSRelayerAssumption
<1>2. (h + SessionBlocks - 1) \div SessionBlocks \in Nat
  BY <1>1
<1>3. \A m, n \in Nat : m * n \in Nat
  OBVIOUS
<1>4. QED
  BY <1>1, <1>2, <1>3 DEF EndAt

\* What the session manager answers is a height, and who is selected a supplier.
LEMMA AnswersTyped ==
    ASSUME WSTypeOK
    PROVE  (\A s \in CurrentSession : s \in Nat) /\ WSCandidates \subseteq Endpoints
<1>1. \A s \in CurrentSession : s \in Nat
  BY EndIsHeight DEF WSTypeOK, CurrentSession
<1>2. WSCandidates \subseteq Endpoints
  BY WSRelayerAssumption DEF WSCandidates, untriedFirst
<1>3. QED
  BY <1>1, <1>2

\* Nothing is open.
LEMMA WSInitInv == WSInit => WSInv
<1> SUFFICES ASSUME WSInit PROVE WSInv
  OBVIOUS
<1>1. WSTypeOK
  <2>1. EndAt(1) \in Nat
    BY EndIsHeight
  <2>2. load \in [Endpoints -> Nat] /\ bound \in [Endpoints -> Int]
    BY DEF WSInit
  <2>3. /\ wsPc \in [WSCallers -> {"idle", "wait", "resolve", "dial", "swap"}]
        /\ wsArg \in [WSCallers -> Nat \cup {None}]
    BY DEF WSInit
  <2>4. QED
    BY <2>1, <2>2, <2>3, Zenon DEF WSInit, WSTypeOK
<1>2. RebindOrder
  BY Zenon DEF WSInit, RebindOrder, WSCallers
<1>3. CountsExact
  BY DEF WSInit, CountsExact
<1>4. QED
  BY <1>1, <1>2, <1>3 DEF WSInv

\* A step that moves no count and no phase of Open keeps the counts.
LEMMA CountsUntouched ==
    ASSUME CountsExact, UNCHANGED <<open, current, load, bound>>
    PROVE  CountsExact'
BY DEF CountsExact

\* Open's own steps keep the invariant.
LEMMA OpenKeepsInv == WSInv /\ (OpenStarts \/ OpenSteps) => WSInv'
<1> SUFFICES ASSUME WSInv, OpenStarts \/ OpenSteps PROVE WSInv'
  OBVIOUS
<1>0. WSTypeOK /\ RebindOrder /\ CountsExact
  BY DEF WSInv
<1>1. CASE OpenStarts
  <2>1. PICK e \in Endpoints, s \in Nat :
            /\ current' = e /\ load' = [load EXCEPT ![e] = @ + 1]
            /\ sessionEnd' = s /\ cached' = s
    BY <1>0, <1>1, AnswersTyped, Zenon DEF OpenStarts
  <2>2. WSTypeOK'
    BY <1>0, <1>1, <2>1 DEF OpenStarts, WSTypeOK
  <2>3. RebindOrder'
    BY <1>0, <1>1, <2>1, Zenon DEF OpenStarts, RebindOrder
  <2>4. CountsExact'
    BY <1>0, <1>1, <2>1 DEF OpenStarts, CountsExact, WSTypeOK
  <2>5. QED
    BY <2>2, <2>3, <2>4 DEF WSInv
<1>2. CASE BridgeStarts
  <2>1. WSTypeOK' /\ RebindOrder'
    BY <1>0, <1>2 DEF BridgeStarts, account, wsChain, WSTypeOK, RebindOrder
  <2>2. CountsExact'
    BY <1>0, <1>2, CountsUntouched DEF BridgeStarts, account
  <2>3. QED
    BY <2>1, <2>2 DEF WSInv
<1>3. CASE BridgeFails
  <2>0. current \in Endpoints
    BY <1>0, <1>3 DEF BridgeFails, RebindOrder
  <2>1. load' \in [Endpoints -> Nat]
    <3>1. load[current] = 1
      BY <1>0, <1>3, <2>0 DEF BridgeFails, CountsExact
    <3>2. QED
      BY <1>0, <1>3, <2>0, <3>1 DEF BridgeFails, WSTypeOK
  <2>2. WSTypeOK'
    BY <1>0, <1>3, <2>1, Zenon DEF BridgeFails, wsChain, WSTypeOK
  <2>3. RebindOrder'
    BY <1>0, <1>3, Zenon DEF BridgeFails, RebindOrder
  <2>4. CountsExact'
    BY <1>0, <1>3, <2>0 DEF BridgeFails, CountsExact, WSTypeOK
  <2>5. QED
    BY <2>2, <2>3, <2>4 DEF WSInv
<1>4. CASE SupplierBound
  <2>0. current \in Endpoints
    BY <1>0, <1>4 DEF SupplierBound, RebindOrder
  <2>1. WSTypeOK'
    <3>1. bound' \in [Endpoints -> Int]
      BY <1>0, <1>4, <2>0 DEF SupplierBound, WSTypeOK
    <3>2. QED
      BY <1>0, <1>4, <3>1, Zenon DEF SupplierBound, wsChain, WSTypeOK
  <2>2. RebindOrder'
    <3>1. open = "starting" /\ gen # 0 /\ open' = "up" /\ swapMu' = FALSE
      BY <1>0, <1>4 DEF SupplierBound, WSTypeOK
    <3>2. UNCHANGED <<closed, current, gen, lock, wsPc, wsPick>>
      BY <1>4 DEF SupplierBound
    <3>3. QED
      BY <1>0, <3>1, <3>2, Zenon DEF RebindOrder
  <2>3. CountsExact'
    BY <1>0, <1>4, <2>0 DEF SupplierBound, CountsExact, WSTypeOK
  <2>4. QED
    BY <2>1, <2>2, <2>3 DEF WSInv
<1>5. CASE WSRelease
  <2>0. current \in Endpoints
    BY <1>0, <1>5 DEF WSRelease, RebindOrder
  <2>1. WSTypeOK'
    BY <1>0, <1>5, <2>0 DEF WSRelease, wsChain, WSTypeOK
  <2>2. RebindOrder'
    BY <1>0, <1>5, Zenon DEF WSRelease, RebindOrder
  <2>3. CountsExact'
    BY <1>0, <1>5, <2>0 DEF WSRelease, CountsExact, WSTypeOK
  <2>4. QED
    BY <2>1, <2>2, <2>3 DEF WSInv
<1>6. CASE OpenReturns
  <2>0. current \in Endpoints
    BY <1>0, <1>6 DEF OpenReturns, RebindOrder
  <2>1. load' \in [Endpoints -> Nat]
    <3>1. load[current] = 1
      BY <1>0, <1>6, <2>0 DEF OpenReturns, CountsExact
    <3>2. QED
      BY <1>0, <1>6, <2>0, <3>1 DEF OpenReturns, WSTypeOK
  <2>2. WSTypeOK'
    BY <1>0, <1>6, <2>1 DEF OpenReturns, wsChain, WSTypeOK
  <2>3. RebindOrder'
    BY <1>0, <1>6 DEF OpenReturns, RebindOrder
  <2>4. CountsExact'
    BY <1>0, <1>6, <2>0 DEF OpenReturns, CountsExact, WSTypeOK
  <2>5. QED
    BY <2>2, <2>3, <2>4 DEF WSInv
<1>7. QED
  BY <1>1, <1>2, <1>3, <1>4, <1>5, <1>6 DEF OpenSteps

\* A caller that wants a rebind keeps it.
LEMMA WantsKeepsInv ==
    ASSUME WSInv, NEW t \in WSCallers, Wants(t), actedOn' \in Nat
    PROVE  WSInv'
<1>0. WSTypeOK /\ RebindOrder /\ CountsExact
  BY DEF WSInv
<1>1. WSTypeOK'
  BY <1>0 DEF Wants, account, wsChain, WSTypeOK
<1>2. RebindOrder'
  BY <1>0 DEF Wants, account, wsChain, WSTypeOK, RebindOrder
<1>3. CountsExact'
  BY <1>0, CountsUntouched DEF Wants, account
<1>4. QED
  BY <1>1, <1>2, <1>3 DEF WSInv

\* The steps of a rebind keep it: the counts move only between two suppliers,
\* and only while Open is past its first bind and before its release.
LEMMA RebindKeepsInv ==
    ASSUME WSInv, NEW t \in WSCallers, WSRebinds(t)
    PROVE  WSInv'
<1>0. WSTypeOK /\ RebindOrder /\ CountsExact
  BY DEF WSInv
<1>1. CASE RebindLocks(t)
  <2>1. WSTypeOK'
    BY <1>0, <1>1 DEF RebindLocks, noteRebind, account, wsChain, WSTypeOK, RebindOrder
  <2>2. RebindOrder'
    BY <1>0, <1>1, WSRelayerAssumption DEF RebindLocks, account, wsChain, WSTypeOK, RebindOrder
  <2>3. CountsExact'
    BY <1>0, <1>1, CountsUntouched DEF RebindLocks, account
  <2>4. QED
    BY <2>1, <2>2, <2>3 DEF WSInv
<1>2. CASE RebindResolves(t)
  <2>0. PICK e \in Endpoints, s \in Nat : wsPick' = [ep |-> e, end |-> s] /\ cached' = s
    BY <1>0, <1>2, AnswersTyped DEF RebindResolves
  <2>1. WSTypeOK'
    BY <1>0, <1>2, <2>0 DEF RebindResolves, account, WSTypeOK
  <2>2. RebindOrder'
    BY <1>0, <1>2, <2>0 DEF RebindResolves, account, WSTypeOK, RebindOrder
  <2>3. CountsExact'
    BY <1>0, <1>2, CountsUntouched DEF RebindResolves, account
  <2>4. QED
    BY <2>1, <2>2, <2>3 DEF WSInv
<1>u. ASSUME Unlocks(t), lock = t, UNCHANGED <<open, swapMu, closed, current, load, bound>>,
             gen' = gen \/ (gen' = gen + 1 /\ gen # 0)
      PROVE  RebindOrder' /\ CountsExact'
  <2>1. \A q \in WSCallers : wsPc'[q] \in {"idle", "wait"}
    BY <1>0, <1>u DEF Unlocks, WSTypeOK, RebindOrder
  <2>2. gen' = 0 <=> gen = 0
    BY <1>0, <1>u DEF WSTypeOK
  <2>3. gen' = 0 => \A q \in WSCallers : wsPc'[q] = "idle"
    BY <1>0, <1>u, <2>2, SMTT(30) DEF Unlocks, RebindOrder, WSTypeOK
  <2>4. RebindOrder'
    BY <1>0, <1>u, <2>1, <2>2, <2>3, SMTT(30) DEF RebindOrder
  <2>5. QED
    BY <1>0, <1>u, <2>4, CountsUntouched
<1>3. CASE WSRebindFails(t)
  <2>1. WSTypeOK'
    BY <1>0, <1>3 DEF WSRebindFails, Unlocks, account, wsChain, WSTypeOK
  <2>2. RebindOrder' /\ CountsExact'
    BY <1>0, <1>3, <1>u DEF WSRebindFails, account, RebindOrder
  <2>3. QED
    BY <2>1, <2>2 DEF WSInv
<1>4. CASE RebindSwaps(t) /\ closed
  <2>1. WSTypeOK'
    BY <1>0, <1>4, SMTT(30) DEF RebindSwaps, Unlocks, account, wsChain, WSTypeOK
  <2>2. RebindOrder' /\ CountsExact'
    BY <1>0, <1>4, <1>u, Zenon DEF RebindSwaps, account, RebindOrder
  <2>3. QED
    BY <2>1, <2>2 DEF WSInv
<1>5. CASE RebindSwaps(t) /\ ~closed
  <2>1. open = "up" /\ current \in Endpoints /\ wsPick \in [ep : Endpoints, end : Nat]
    BY <1>0, <1>5, Zenon DEF RebindSwaps, SwapMuFree, RebindOrder, WSTypeOK
  <2>2. /\ current' = wsPick.ep /\ sessionEnd' = wsPick.end
        /\ load' = [[load EXCEPT ![current] = @ - 1] EXCEPT ![wsPick.ep] = @ + 1]
        /\ bound' = [[bound EXCEPT ![current] = @ - 1] EXCEPT ![wsPick.ep] = @ + 1]
        /\ wsPc' = [wsPc EXCEPT ![t] = "swap"]
        /\ UNCHANGED <<lock, wsArg, wsPick, wsDone, actedOn, open, swapMu, closed, wsTried, height, cached, gen>>
    BY <1>5, SMTT(30) DEF RebindSwaps, MovesLoad, wsChain
  <2>3. load \in [Endpoints -> Int] /\ bound \in [Endpoints -> Int] /\ wsPick.ep \in Endpoints
    BY <1>0, <2>1 DEF WSTypeOK
  <2>4. CountsExact'
    BY <1>0, <2>1, <2>2, <2>3 DEF CountsExact
  <2>5. load' \in [Endpoints -> Nat]
    BY <2>2, <2>3, <2>4, SMTT(30) DEF CountsExact
  <2>6. WSTypeOK'
    BY <1>0, <2>1, <2>2, <2>3, <2>5 DEF WSTypeOK
  <2>7. RebindOrder'
    BY <1>0, <1>5, <2>1, <2>2, <2>3, SMTT(30) DEF RebindSwaps, RebindOrder, WSTypeOK
  <2>8. QED
    BY <2>4, <2>6, <2>7 DEF WSInv
<1>6. CASE RebindStores(t)
  <2>1. WSTypeOK'
    BY <1>0, <1>6 DEF RebindStores, Unlocks, account, wsChain, WSTypeOK
  <2>2. RebindOrder' /\ CountsExact'
    BY <1>0, <1>6, <1>u DEF RebindStores, account, RebindOrder
  <2>3. QED
    BY <2>1, <2>2 DEF WSInv
<1>7. QED
  BY <1>1, <1>2, <1>3, <1>4, <1>5, <1>6 DEF WSRebinds

\* Every step keeps it.
LEMMA WSNextInv == WSInv /\ [WSNext]_wsVars => WSInv'
<1> SUFFICES ASSUME WSInv, [WSNext]_wsVars PROVE WSInv'
  OBVIOUS
<1>0. WSTypeOK /\ RebindOrder /\ CountsExact
  BY DEF WSInv
<1>1. CASE NewBlock \/ SessionRefreshed \/ BridgeEnds \/ WatchCloses \/ UNCHANGED wsVars
  <2>0. UNCHANGED <<open, swapMu, closed, current, load, bound, sessionEnd, actedOn, wsTried, gen, lock, wsPc, wsArg, wsPick>>
    BY <1>1 DEF NewBlock, SessionRefreshed, BridgeEnds, WatchCloses, wsVars, account
  <2>1. height' \in Nat /\ cached' \in Nat /\ wsDone' \in BOOLEAN
    <3>1. EndAt(height) \in Nat
      BY <1>0, EndIsHeight DEF WSTypeOK
    <3>2. CASE NewBlock
      BY <1>0, <3>2 DEF NewBlock, WSTypeOK
    <3>3. CASE SessionRefreshed
      BY <1>0, <3>1, <3>3 DEF SessionRefreshed, WSTypeOK
    <3>4. CASE BridgeEnds \/ WatchCloses \/ UNCHANGED wsVars
      BY <1>0, <3>4, Zenon DEF BridgeEnds, WatchCloses, wsVars, wsChain, WSTypeOK
    <3>5. QED
      BY <1>1, <3>2, <3>3, <3>4
  <2>2. WSTypeOK' /\ RebindOrder'
    BY <1>0, <2>0, <2>1 DEF WSTypeOK, RebindOrder
  <2>3. CountsExact'
    BY <1>0, <2>0, CountsUntouched
  <2>4. QED
    BY <2>2, <2>3, SMTT(30) DEF WSInv
<1>2. CASE LossReported \/ RebindRequested \/ WatchRebinds
  <2>1. actedOn' \in Nat
    BY <1>0, <1>2 DEF LossReported, RebindRequested, WatchRebinds, WSTypeOK
  <2>2. QED
    BY <1>2, <2>1, WantsKeepsInv DEF LossReported, RebindRequested, WatchRebinds, WSCallers
<1>3. QED
  BY <1>1, <1>2, OpenKeepsInv, RebindKeepsInv DEF WSNext, Watches

\* For any suppliers and any number of rebinds, however losses, requests, session
\* ends and the close interleave: a connection is counted once, on the supplier
\* it is on, for exactly as long as it is.
THEOREM CountsAlwaysExact == WSSpec => []CountsExact
<1>1. WSSpec => []WSInv
  BY WSInitInv, WSNextInv, PTL DEF WSSpec
<1>2. WSInv => CountsExact
  BY DEF WSInv
<1>3. QED
  BY <1>1, <1>2, PTL

-----------------------------------------------------------------------------
(* Singleflight.                                                           *)

\* The call in the group's map is exactly the relay that runs, whoever waits
\* or has landed follows a request, and what a leader left is blamed on its own
\* context: a flight cut short says its leader is gone.
OneFlight ==
    /\ \A r \in Request : flightPc[r] = "leading" <=> flightCall = r
    /\ \A r \in Request : flightPc[r] \in {"waiting", "landed"} => waitsFor[r] \in Request
    /\ \A r \in Request : flightPc[r] = "landed" => flight[waitsFor[r]].outcome # "none"
    /\ \A r \in Request : flight[r].outcome = "cancelled" => flight[r].leaderGone
    /\ \A r \in Request : got[r] = "cancelled" => r \in ended

FlightInv == FlightTypeOK /\ OneFlight

\* No request has arrived.
LEMMA FlightInitInv == FlightInit => FlightInv
<1> SUFFICES ASSUME FlightInit PROVE FlightInv
  OBVIOUS
<1>1. FlightTypeOK
  BY NoneIsNoRequest DEF FlightInit, FlightTypeOK, Flights, NoFlight, Outcomes
<1>2. OneFlight
  BY NoneIsNoRequest DEF FlightInit, OneFlight, NoFlight
<1>3. QED
  BY <1>1, <1>2 DEF FlightInv

\* group.Do keeps the invariant for a request that is new, or whose flight has
\* landed.
LEMMA DoKeepsInv ==
    ASSUME FlightInv, NEW r \in Request, flightPc[r] \in {"new", "landed"}, Do(r),
           UNCHANGED <<ended, flight, got, coalesced>>
    PROVE  FlightInv'
<1>0. FlightTypeOK /\ OneFlight
  BY DEF FlightInv
<1>1. got[r] = "none"
  BY <1>0 DEF FlightTypeOK
<1>2. CASE flightCall = None
  <2>1. /\ flightPc' = [flightPc EXCEPT ![r] = "leading"] /\ flightCall' = r
        /\ waitsFor' = waitsFor
    BY <1>2 DEF Do
  <2>2. \A q \in Request : flightPc[q] \notin {"leading", "waiting"}
    BY <1>0, <1>2, NoneIsNoRequest DEF FlightTypeOK, OneFlight
  <2>3. FlightTypeOK'
    BY <1>0, <1>1, <2>1, <2>2 DEF FlightTypeOK
  <2>4. OneFlight'
    BY <1>0, <2>1, <2>2 DEF FlightTypeOK, OneFlight
  <2>5. QED
    BY <2>3, <2>4 DEF FlightInv
<1>3. CASE flightCall # None
  <2>1. /\ flightPc' = [flightPc EXCEPT ![r] = "waiting"] /\ flightCall' = flightCall
        /\ waitsFor' = [waitsFor EXCEPT ![r] = flightCall]
    BY <1>3 DEF Do
  <2>2. flightCall \in Request /\ flightCall # r /\ flightPc[flightCall] = "leading"
    BY <1>0, <1>3 DEF FlightTypeOK, OneFlight
  <2>3. FlightTypeOK'
    BY <1>0, <1>1, <2>1, <2>2 DEF FlightTypeOK
  <2>4. OneFlight'
    BY <1>0, <2>1, <2>2 DEF FlightTypeOK, OneFlight
  <2>5. QED
    BY <2>3, <2>4 DEF FlightInv
<1>4. QED
  BY <1>2, <1>3

\* Every step keeps it.
LEMMA FlightNextInv == FlightInv /\ [FlightNext]_flightVars => FlightInv'
<1> SUFFICES ASSUME FlightInv, [FlightNext]_flightVars PROVE FlightInv'
  OBVIOUS
<1>0. FlightTypeOK /\ OneFlight
  BY SMTT(30) DEF FlightInv
<1>1. ASSUME NEW r \in Request, FlightContextEnds(r) PROVE FlightInv'
  BY <1>0, <1>1 DEF FlightContextEnds, FlightInv, FlightTypeOK, OneFlight
<1>2. ASSUME NEW r \in Request, Arrive(r) PROVE FlightInv'
  BY <1>2, DoKeepsInv DEF Arrive
<1>3. ASSUME NEW r \in Request, Land(r) PROVE FlightInv'
  <2>1. PICK o \in Outcomes :
            /\ o = "cancelled" => r \in ended
            /\ flight' = [flight EXCEPT ![r] = [outcome |-> o, leaderGone |-> LeaderGone(r)]]
            /\ got' = [got EXCEPT ![r] = o]
    BY <1>3, Zenon DEF Land
  <2>2. flightCall = r /\ flightCall' = None /\ ended' = ended /\ waitsFor' = waitsFor /\ coalesced' = coalesced
    BY <1>0, <1>3 DEF Land, OneFlight
  <2>3. /\ flightPc' \in [Request -> {"new", "leading", "waiting", "landed", "answered"}]
        /\ flightPc'[r] = "answered"
        /\ \A q \in Request : q # r /\ flightPc[q] = "waiting" => flightPc'[q] = "landed" /\ waitsFor[q] = r
        /\ \A q \in Request : q # r /\ flightPc[q] # "waiting" => flightPc'[q] = flightPc[q]
    BY <1>0, <1>3, <2>2 DEF Land, FlightTypeOK
  <2>4. flight' \in [Request -> Flights] /\ got' \in [Request -> Outcomes \cup {"none"}]
    BY <1>0, <2>1 DEF FlightTypeOK, Flights, LeaderGone
  <2>5. /\ flight'[r] = [outcome |-> o, leaderGone |-> LeaderGone(r)] /\ got'[r] = o
        /\ \A q \in Request : q # r => flight'[q] = flight[q] /\ got'[q] = got[q]
    BY <1>0, <2>1 DEF FlightTypeOK
  <2>6. o # "none"
    BY DEF Outcomes
  <2>7. \A q \in Request : flightPc[q] # "leading" \/ q = r
    BY <1>0, <2>2 DEF OneFlight
  <2>8. FlightTypeOK'
    BY <1>0, <2>2, <2>3, <2>4, <2>5, <2>6, <2>7, SMTT(30) DEF FlightTypeOK
  <2>9. OneFlight'
    <3>1. \A q \in Request : flightPc'[q] = "leading" <=> flightCall' = q
      BY <1>0, <2>2, <2>3, <2>7, NoneIsNoRequest, SMTT(30)
    <3>2. \A q \in Request : flightPc'[q] \in {"waiting", "landed"} => waitsFor'[q] \in Request
      BY <1>0, <2>2, <2>3, SMTT(30) DEF OneFlight
    <3>3. \A q \in Request : flightPc'[q] = "landed" => flight'[waitsFor'[q]].outcome # "none"
      BY <1>0, <2>2, <2>3, <2>5, <2>6 DEF OneFlight
    <3>4. \A q \in Request : flight'[q].outcome = "cancelled" => flight'[q].leaderGone
      <4>1. flight'[r].outcome = o /\ flight'[r].leaderGone = LeaderGone(r)
        BY <2>5
      <4>2. flight'[r].outcome = "cancelled" => flight'[r].leaderGone
        BY <2>1, <4>1, Zenon DEF LeaderGone
      <4>3. QED
        BY <1>0, <2>5, <4>2, Zenon DEF OneFlight
    <3>5. \A q \in Request : got'[q] = "cancelled" => q \in ended'
      BY <1>0, <2>1, <2>2, <2>5, SMTT(30) DEF OneFlight
    <3>6. QED
      BY <3>1, <3>2, <3>3, <3>4, <3>5 DEF OneFlight
  <2>10. QED
    BY <2>8, <2>9 DEF FlightInv
<1>4. ASSUME NEW r \in Request, GoAgain(r) PROVE FlightInv'
  BY <1>4, DoKeepsInv DEF GoAgain, ReRuns
<1>5. ASSUME NEW r \in Request, TakeFlight(r) PROVE FlightInv'
  <2>1. waitsFor[r] \in Request /\ flight[waitsFor[r]].outcome \in Outcomes
    BY <1>0, <1>5, SMTT(30) DEF TakeFlight, OneFlight, FlightTypeOK, Flights
  <2>2. flight[waitsFor[r]].outcome = "cancelled" => r \in ended
    BY <1>0, <1>5, <2>1, SMTT(30) DEF TakeFlight, OneFlight
  <2>3. flightPc[r] = "landed" /\ flightCall # r
    BY <1>0, <1>5 DEF TakeFlight, OneFlight
  <2>4. "none" \notin Outcomes
    BY DEF Outcomes
  <2>5. FlightTypeOK'
    BY <1>0, <1>5, <2>1, <2>3, <2>4, SMTT(30) DEF TakeFlight, FlightTypeOK, OneFlight
  <2>6. OneFlight'
    BY <1>0, <1>5, <2>1, <2>2, <2>3, <2>4, SMTT(30) DEF TakeFlight, FlightTypeOK, OneFlight
  <2>7. QED
    BY <2>5, <2>6 DEF FlightInv
<1>6. CASE UNCHANGED flightVars
  BY <1>0, <1>6, SMTT(30) DEF flightVars, FlightInv, FlightTypeOK, OneFlight
<1>7. QED
  BY <1>1, <1>2, <1>3, <1>4, <1>5, <1>6 DEF FlightNext

\* One call in the map is at most one relay running.
LEMMA OneRelay == FlightInv => FollowersGoOn
<1> SUFFICES ASSUME FlightInv PROVE FollowersGoOn
  OBVIOUS
<1>1. Leading = {} \/ \E r \in Request : Leading = {r}
  <2>1. CASE flightCall \in Request
    BY <2>1 DEF FlightInv, OneFlight, Leading
  <2>2. CASE flightCall \notin Request
    BY <2>2 DEF FlightInv, OneFlight, Leading
  <2>3. QED
    BY <2>1, <2>2, Zenon
<1>2. Cardinality(Leading) = 0 \/ Cardinality(Leading) = 1
  BY <1>1, FS_EmptySet, FS_Singleton, Zenon
<1>3. QED
  BY <1>2 DEF FlightInv, OneFlight, FollowersGoOn

\* For any number of requests, in any order of arrivals, ends of contexts and
\* relays: a request whose client is there never returns with the end of
\* another's context, and at most one relay of the key runs.
THEOREM FollowersAlwaysGoOn == FlightSpec => []FollowersGoOn
<1>1. FlightSpec => []FlightInv
  BY FlightInitInv, FlightNextInv, PTL DEF FlightSpec
<1>2. QED
  BY <1>1, OneRelay, PTL

-----------------------------------------------------------------------------
(* The connection limiter and the relayer.                                 *)

-----------------------------------------------------------------------------
(* The slots (ConnectionLimiter).                                          *)

\* What the counter was compared with, once it has been.
Compared ==
    \A o \in Opens : limiterPc[o] = "checked" => capSeen[o] = 0 \/ seen[o] < capSeen[o]

SlotInv == LimiterTypeOK /\ SlotsExact /\ Compared

\* The sets counted are finite: there are finitely many upgrades.
LEMMA SetsFinite ==
    /\ IsFiniteSet(Holders) /\ Cardinality(Holders) \in Nat
    /\ \A c \in Clients : IsFiniteSet(Ups(c)) /\ Cardinality(Ups(c)) \in Nat
<1>1. Holders \subseteq Opens /\ \A c \in Clients : Ups(c) \subseteq Opens
  BY DEF Holders, Ups
<1>2. QED
  BY <1>1, LimiterAssumption, FS_Subset, FS_CardinalityType

\* A fresh limiter holds nothing.
LEMMA SlotInitInv == LimiterInit => SlotInv
<1> SUFFICES ASSUME LimiterInit PROVE SlotInv
  OBVIOUS
<1>1. LimiterTypeOK
  BY LimiterAssumption DEF LimiterInit, LimiterTypeOK
<1>2. Holders = {} /\ \A c \in Clients : Ups(c) = {}
  BY DEF LimiterInit, Holders, Ups
<1>3. SlotsExact
  BY <1>2, FS_EmptySet DEF LimiterInit, SlotsExact
<1>4. Compared
  BY DEF LimiterInit, Compared
<1>5. QED
  BY <1>1, <1>3, <1>4 DEF SlotInv

\* A step keeps the types.
LEMMA LimiterNextTypeOK == SlotInv /\ [LimiterNext]_limiterVars => LimiterTypeOK'
<1> SUFFICES ASSUME SlotInv, [LimiterNext]_limiterVars PROVE LimiterTypeOK'
  OBVIOUS
<1>0. LimiterTypeOK
  BY DEF SlotInv
<1>1. CASE SetMax
  BY <1>0, <1>1 DEF LimiterTypeOK, SetMax
<1>2. ASSUME NEW o \in Opens, AcquireLoads(o) PROVE LimiterTypeOK'
  BY <1>0, <1>2 DEF LimiterTypeOK, AcquireLoads, LimiterGoto
<1>3. ASSUME NEW o \in Opens, AcquireChecks(o) PROVE LimiterTypeOK'
  BY <1>0, <1>3 DEF LimiterTypeOK, AcquireChecks, LimiterGoto
<1>4. ASSUME NEW o \in Opens, AcquireSwaps(o) PROVE LimiterTypeOK'
  BY <1>0, <1>4 DEF LimiterTypeOK, AcquireSwaps, CompareAndSwap, LimiterGoto
<1>5. ASSUME NEW o \in Opens, AcquireClient(o) PROVE LimiterTypeOK'
  BY <1>0, <1>5, LimiterAssumption DEF LimiterTypeOK, AcquireClient, RefusedTo, LimiterGoto
<1>6. ASSUME NEW o \in Opens, ReleaseClient(o) PROVE LimiterTypeOK'
  <2>1. (IF perClient[ClientOf[o]] > 1 THEN perClient[ClientOf[o]] - 1 ELSE 0) \in Nat
    BY <1>0, LimiterAssumption DEF LimiterTypeOK
  <2>2. perClient' \in [Clients -> Nat]
    BY <1>0, <1>6, <2>1, Zenon DEF LimiterTypeOK, ReleaseClient
  <2>3. QED
    BY <1>0, <1>6, <2>2 DEF LimiterTypeOK, ReleaseClient, LimiterGoto
<1>7. ASSUME NEW o \in Opens, LimiterRelease(o) PROVE LimiterTypeOK'
  <2>1. o \in Holders
    BY <1>7 DEF LimiterRelease, Holders
  <2>2. active > 0
    <3>1. Cardinality(Holders) # 0
      BY <2>1, SetsFinite, FS_EmptySet
    <3>2. QED
      BY <3>1, SetsFinite DEF SlotInv, SlotsExact
  <2>3. QED
    BY <1>0, <1>7, <2>2 DEF LimiterTypeOK, LimiterRelease, LimiterGoto
<1>8. CASE UNCHANGED limiterVars
  BY <1>0, <1>8 DEF LimiterTypeOK, limiterVars
<1>9. QED
  BY <1>1, <1>2, <1>3, <1>4, <1>5, <1>6, <1>7, <1>8 DEF LimiterNext

\* A step keeps the counters exact.
LEMMA NextSlotsExact == SlotInv /\ [LimiterNext]_limiterVars => SlotsExact'
<1> SUFFICES ASSUME SlotInv, [LimiterNext]_limiterVars PROVE SlotsExact'
  OBVIOUS
<1>0. LimiterTypeOK /\ SlotsExact
  BY DEF SlotInv
<1>a. ASSUME Holders' = Holders, \A c \in Clients : Ups(c)' = Ups(c),
             active' = active, perClient' = perClient
      PROVE SlotsExact'
  BY <1>0, <1>a, SMTT(30) DEF SlotsExact
<1>1. CASE SetMax
  BY <1>a, <1>1 DEF SetMax, Holders, Ups
<1>2. ASSUME NEW o \in Opens, AcquireLoads(o) PROVE SlotsExact'
  BY <1>a, <1>0, <1>2 DEF AcquireLoads, LimiterGoto, Holders, Ups, LimiterTypeOK
<1>3. ASSUME NEW o \in Opens, AcquireChecks(o) PROVE SlotsExact'
  BY <1>a, <1>0, <1>3 DEF AcquireChecks, LimiterGoto, Holders, Ups, LimiterTypeOK
<1>4. ASSUME NEW o \in Opens, AcquireSwaps(o) PROVE SlotsExact'
  <2>0. \A c \in Clients : Ups(c)' = Ups(c)
    BY <1>0, <1>4 DEF AcquireSwaps, CompareAndSwap, LimiterGoto, Ups, LimiterTypeOK
  <2>1. CASE active = seen[o]
    <3>1. o \notin Holders /\ Holders' = Holders \cup {o}
      BY <1>0, <1>4, <2>1 DEF AcquireSwaps, CompareAndSwap, LimiterGoto, Holders, LimiterTypeOK
    <3>2. Cardinality(Holders') = Cardinality(Holders) + 1
      BY <3>1, SetsFinite, FS_AddElement, Zenon
    <3>3. QED
      BY <1>0, <1>4, <2>0, <2>1, <3>2, Zenon DEF AcquireSwaps, CompareAndSwap, SlotsExact
  <2>2. CASE active # seen[o]
    <3>1. Holders' = Holders
      BY <1>0, <1>4, <2>2, SMTT(30) DEF AcquireSwaps, CompareAndSwap, LimiterGoto, Holders, LimiterTypeOK
    <3>2. QED
      BY <1>a, <1>4, <2>0, <2>2, <3>1 DEF AcquireSwaps, CompareAndSwap
  <2>3. QED
    BY <2>1, <2>2
<1>5. ASSUME NEW o \in Opens, AcquireClient(o) PROVE SlotsExact'
  <2>0. Holders' = Holders
    BY <1>0, <1>5 DEF AcquireClient, RefusedTo, LimiterGoto, Holders, LimiterTypeOK
  <2>1. CASE ClientCap > 0 /\ perClient[ClientOf[o]] >= ClientCap
    <3>1. \A c \in Clients : Ups(c)' = Ups(c)
      BY <1>0, <1>5, <2>1 DEF AcquireClient, RefusedTo, LimiterGoto, Ups, LimiterTypeOK
    <3>2. QED
      BY <1>a, <1>5, <2>0, <2>1, <3>1 DEF AcquireClient
  <2>2. CASE ~(ClientCap > 0 /\ perClient[ClientOf[o]] >= ClientCap)
    <3>0. ClientOf[o] \in Clients
      BY LimiterAssumption
    <3>1. o \notin Ups(ClientOf[o]) /\ Ups(ClientOf[o])' = Ups(ClientOf[o]) \cup {o}
      BY <1>0, <1>5, <2>2 DEF AcquireClient, LimiterGoto, Ups, LimiterTypeOK
    <3>2. \A c \in Clients : c # ClientOf[o] => Ups(c)' = Ups(c)
      BY <1>0, <1>5, <2>2, SMTT(30) DEF AcquireClient, LimiterGoto, Ups, LimiterTypeOK
    <3>3. Cardinality(Ups(ClientOf[o])') = Cardinality(Ups(ClientOf[o])) + 1
      BY <3>0, <3>1, SetsFinite, FS_AddElement, Zenon
    <3>4. active' = active /\ perClient' = [perClient EXCEPT ![ClientOf[o]] = @ + 1]
      BY <1>5, <2>2 DEF AcquireClient
    <3>5. QED
      BY <1>0, <2>0, <3>0, <3>2, <3>3, <3>4 DEF SlotsExact, LimiterTypeOK
  <2>3. QED
    BY <2>1, <2>2
<1>6. ASSUME NEW o \in Opens, ReleaseClient(o) PROVE SlotsExact'
  <2>0. Holders' = Holders
    BY <1>0, <1>6 DEF ReleaseClient, LimiterGoto, Holders, LimiterTypeOK
  <2>1. ClientOf[o] \in Clients
    BY LimiterAssumption
  <2>2. o \in Ups(ClientOf[o]) /\ Ups(ClientOf[o])' = Ups(ClientOf[o]) \ {o}
    BY <1>0, <1>6 DEF ReleaseClient, LimiterGoto, Ups, LimiterTypeOK
  <2>3. \A c \in Clients : c # ClientOf[o] => Ups(c)' = Ups(c)
    BY <1>0, <1>6 DEF ReleaseClient, LimiterGoto, Ups, LimiterTypeOK
  <2>4. Cardinality(Ups(ClientOf[o])') = Cardinality(Ups(ClientOf[o])) - 1
    <3>1. IsFiniteSet(Ups(ClientOf[o]))
      BY <2>1, SetsFinite
    <3>2. Cardinality(Ups(ClientOf[o]) \ {o}) = Cardinality(Ups(ClientOf[o])) - 1
      BY <2>2, <3>1, FS_RemoveElement, Zenon
    <3>3. QED
      BY <2>2, <3>2
  <2>5. perClient[ClientOf[o]] >= 1
    <3>1. Cardinality(Ups(ClientOf[o])) # 0
      BY <2>1, <2>2, SetsFinite, FS_EmptySet
    <3>2. QED
      BY <1>0, <2>1, <3>1, SetsFinite DEF SlotsExact
  <2>6. active' = active
        /\ perClient' = [perClient EXCEPT ![ClientOf[o]] = IF @ > 1 THEN @ - 1 ELSE 0]
    BY <1>6 DEF ReleaseClient
  <2>7. perClient'[ClientOf[o]] = perClient[ClientOf[o]] - 1
    BY <1>0, <2>1, <2>5, <2>6 DEF LimiterTypeOK
  <2>8. \A c \in Clients : c # ClientOf[o] => perClient'[c] = perClient[c]
    BY <1>0, <2>6, SMTT(30) DEF LimiterTypeOK
  <2>9. \A c \in Clients : perClient'[c] = Cardinality(Ups(c)')
    BY <1>0, <2>1, <2>3, <2>4, <2>7, <2>8, SMTT(30) DEF SlotsExact
  <2>10. QED
    BY <1>0, <2>0, <2>6, <2>9 DEF SlotsExact
<1>7. ASSUME NEW o \in Opens, LimiterRelease(o) PROVE SlotsExact'
  <2>0. \A c \in Clients : Ups(c)' = Ups(c)
    BY <1>0, <1>7 DEF LimiterRelease, LimiterGoto, Ups, LimiterTypeOK
  <2>1. o \in Holders /\ Holders' = Holders \ {o}
    BY <1>0, <1>7 DEF LimiterRelease, LimiterGoto, Holders, LimiterTypeOK
  <2>2. Cardinality(Holders') = Cardinality(Holders) - 1
    BY <2>1, SetsFinite, FS_RemoveElement
  <2>3. QED
    BY <1>0, <1>7, <2>0, <2>2 DEF LimiterRelease, SlotsExact
<1>8. CASE UNCHANGED limiterVars
  BY <1>a, <1>8 DEF limiterVars, Holders, Ups
<1>9. QED
  BY <1>1, <1>2, <1>3, <1>4, <1>5, <1>6, <1>7, <1>8 DEF LimiterNext

\* A step keeps every comparison.
LEMMA NextCompared == SlotInv /\ [LimiterNext]_limiterVars => Compared'
<1> SUFFICES ASSUME SlotInv, [LimiterNext]_limiterVars PROVE Compared'
  OBVIOUS
<1>0. LimiterTypeOK /\ Compared
  BY DEF SlotInv
<1>1. ASSUME NEW o \in Opens, AcquireChecks(o) PROVE Compared'
  BY <1>0, <1>1, LimiterAssumption DEF AcquireChecks, LimiterGoto, Compared, LimiterTypeOK
<1>2. ASSUME NEW o \in Opens, AcquireLoads(o) PROVE Compared'
  BY <1>0, <1>2, SMTT(30) DEF AcquireLoads, LimiterGoto, Compared, LimiterTypeOK
<1>3. ASSUME NEW o \in Opens, AcquireSwaps(o) \/ AcquireClient(o) \/ ReleaseClient(o) \/ LimiterRelease(o)
      PROVE Compared'
  BY <1>0, <1>3, SMTT(30) DEF AcquireSwaps, CompareAndSwap, AcquireClient, RefusedTo, ReleaseClient, LimiterRelease,
                    LimiterGoto, Compared, LimiterTypeOK
<1>4. CASE SetMax \/ UNCHANGED limiterVars
  BY <1>0, <1>4 DEF SetMax, limiterVars, Compared
<1>5. QED
  BY <1>1, <1>2, <1>3, <1>4 DEF LimiterNext

\* The invariant is inductive.
LEMMA SlotInvHolds == LimiterSpec => []SlotInv
<1>1. SlotInv /\ [LimiterNext]_limiterVars => SlotInv'
  BY LimiterNextTypeOK, NextSlotsExact, NextCompared DEF SlotInv
<1>2. QED
  BY SlotInitInv, <1>1, PTL DEF LimiterSpec

\* The counters are exactly the connections holding a slot, on every way out of
\* Open, for any number of upgrades and clients.
THEOREM SlotsAlwaysExact == LimiterSpec => []SlotsExact
<1>1. SlotInv => SlotsExact
  BY DEF SlotInv
<1>2. QED
  BY SlotInvHolds, <1>1, PTL

\* No Acquire takes the counter past the cap it was compared with.
THEOREM NeverOvershoots == LimiterSpec => NoOvershoot
<1>1. SlotInv /\ [LimiterNext]_limiterVars =>
        [\A o \in Opens : limiterPc[o] = "checked" /\ limiterPc'[o] = "slot" /\ capSeen[o] > 0
            => active' <= capSeen[o]]_limiterVars
  <2> SUFFICES ASSUME SlotInv, LimiterNext, NEW o \in Opens, limiterPc[o] = "checked", limiterPc'[o] = "slot", capSeen[o] > 0
               PROVE active' <= capSeen[o]
    BY Zenon DEF limiterVars
  <2>0. LimiterTypeOK /\ Compared
    BY Zenon DEF SlotInv
  <2>1. AcquireSwaps(o)
    BY <2>0 DEF LimiterNext, SetMax, AcquireLoads, AcquireChecks, AcquireSwaps, CompareAndSwap,
                AcquireClient, RefusedTo, ReleaseClient, LimiterRelease, LimiterGoto, LimiterTypeOK
  <2>2. active' = seen[o] + 1
    BY <2>0, <2>1 DEF AcquireSwaps, CompareAndSwap, LimiterGoto, LimiterTypeOK
  <2>3. seen[o] < capSeen[o] /\ seen[o] \in Nat /\ capSeen[o] \in Nat
    <3>1. seen[o] \in Nat /\ capSeen[o] \in Caps \cup {0}
      BY <2>0 DEF LimiterTypeOK
    <3>2. capSeen[o] \in Nat
      <4>1. \A x \in Caps : x \in Nat
        BY LimiterAssumption
      <4>2. QED
        BY <3>1, <4>1
    <3>3. capSeen[o] = 0 \/ seen[o] < capSeen[o]
      BY <2>0 DEF Compared
    <3>4. QED
      BY <3>1, <3>2, <3>3
  <2>4. QED
    BY <2>2, <2>3, SMTT(30)
<1>2. QED
  BY SlotInvHolds, <1>1, PTL DEF LimiterSpec, NoOvershoot

=============================================================================
