------------------------------ MODULE WSRelayer ------------------------------
(***************************************************************************)
(* One WebSocket connection as protocol/shannon/ws_relayer.go accounts for *)
(* it: Open selects a supplier, counts the connection on it, starts the    *)
(* bridge and waits for it to be done; a rebind moves the counts to another*)
(* supplier while the bridge may be closing; a watcher moves the bridge to *)
(* the next session when its own has ended.                                *)
(*                                                                         *)
(* The bridge is what websockets/bridge.go (module Bridge) promises: at    *)
(* most one rebind at a time, a rebind of an endpoint already replaced does*)
(* nothing, done once it is closed.  The session manager (sessions.go) is  *)
(* the session end it has cached and what currentSession may answer.       *)
(***************************************************************************)
EXTENDS Sage, Integers, FiniteSets

CONSTANTS
    Endpoints,
    WSTop,          \* the best reputation tier among them
    SessionBlocks,  \* blocks in a session
    WSGrace,        \* graceBlocks
    WSMaxHeight,    \* bound on the chain height
    MaxRebinds      \* bound on the endpoints one connection is given

\* The goroutines that may rebind: a read loop, an operator's request, the
\* session watcher.
WSCallers == {"loss", "admin", "watch"}

ASSUME WSRelayerAssumption ==
    /\ WSTop \subseteq Endpoints /\ WSTop # {} /\ None \notin WSCallers
    /\ SessionBlocks \in Nat \ {0} /\ WSGrace \in Nat /\ WSMaxHeight \in Nat /\ MaxRebinds \in Nat

VARIABLES
    open,        \* Open: "new", "starting", "up", "closing", "out"
    swapMu,      \* whether Open holds swapMu across StartBridge
    closed,      \* the closed flag
    current,     \* the current endpoint
    load,        \* activeLoad
    bound,       \* the suppliers' connection gauge
    sessionEnd,  \* the end height of the session being signed for
    actedOn,     \* the end height the watcher last acted on
    wsTried,     \* endpoints lost to a failure since the last planned rebind
    height,      \* latestBlockHeight
    cached,      \* the end height of the session the session manager holds
    gen,         \* how many endpoints the bridge has been given
    lock,        \* the caller holding the bridge's endpoint lock
    wsDone,      \* the bridge is done
    wsPc,        \* pc[t]: "idle", "wait", "resolve", "dial", "swap"
    wsArg,       \* arg[t]: the generation a caller wants replaced
    wsPick       \* what the rebind under way resolved

wsVars == <<open, swapMu, closed, current, load, bound, sessionEnd, actedOn, wsTried,
          height, cached, gen, lock, wsDone, wsPc, wsArg, wsPick>>

wsChain == <<height, cached>>
account == <<current, load, bound, sessionEnd>>

-----------------------------------------------------------------------------
\* The end of the session the chain is in at a height.
EndAt(h) == ((h + SessionBlocks - 1) \div SessionBlocks) * SessionBlocks

WSInit ==
    /\ open = "new" /\ swapMu = FALSE /\ closed = FALSE
    /\ current = None /\ load = [e \in Endpoints |-> 0] /\ bound = [e \in Endpoints |-> 0]
    /\ sessionEnd = 0 /\ actedOn = 0
    /\ wsTried = {}
    /\ height = 1 /\ cached = EndAt(1)
    /\ gen = 0 /\ lock = None /\ wsDone = FALSE
    /\ wsPc = [t \in WSCallers |-> "idle"] /\ wsArg = [t \in WSCallers |-> None]
    /\ wsPick = None

-----------------------------------------------------------------------------
(* The chain and the session manager.                                      *)

NewBlock ==
    /\ height < WSMaxHeight /\ height' = height + 1
    /\ UNCHANGED <<open, swapMu, closed, account, actedOn, wsTried, cached, gen, lock, wsDone, wsPc, wsArg, wsPick>>

\* A background refresh lands.
SessionRefreshed ==
    /\ cached < EndAt(height) /\ cached' = EndAt(height)
    /\ UNCHANGED <<open, swapMu, closed, account, actedOn, wsTried, height, gen, lock, wsDone, wsPc, wsArg, wsPick>>

\* What currentSession may answer: the cached session up to its end, that one
\* or the next inside grace, the next past it.
CurrentSession ==
    IF height <= cached THEN {cached}
    ELSE IF height <= cached + WSGrace THEN {cached, EndAt(height)}
    ELSE {EndAt(height)}

-----------------------------------------------------------------------------
(* resolveEndpoint: the best tier unless all of it was tried, then the     *)
(* untried ones unless there are none.                                     *)

allTried(eps) == wsTried # {} /\ eps \subseteq wsTried

untriedFirst(eps) == IF eps \ wsTried = {} THEN eps ELSE eps \ wsTried

WSCandidates == untriedFirst(IF allTried(WSTop) THEN Endpoints ELSE WSTop)

-----------------------------------------------------------------------------
(* Open.                                                                   *)

\* A supplier is resolved and its load counted; swapMu is taken.
OpenStarts ==
    /\ open = "new" /\ open' = "starting" /\ swapMu' = TRUE
    /\ \E e \in WSCandidates, s \in CurrentSession :
          /\ current' = e /\ load' = [load EXCEPT ![e] = @ + 1]
          /\ sessionEnd' = s /\ cached' = s
    /\ UNCHANGED <<closed, bound, actedOn, wsTried, height, gen, lock, wsDone, wsPc, wsArg, wsPick>>

\* StartBridge: the bridge is live, its read loops running.
BridgeStarts ==
    /\ open = "starting" /\ gen = 0 /\ gen' = 1
    /\ UNCHANGED <<open, swapMu, closed, account, actedOn, wsTried, wsChain, lock, wsDone, wsPc, wsArg, wsPick>>

\* StartBridge failed: Open returns, the load uncounted on the way.
BridgeFails ==
    /\ open = "starting" /\ gen = 0
    /\ open' = "out" /\ swapMu' = FALSE /\ load' = [load EXCEPT ![current] = @ - 1]
    /\ UNCHANGED <<closed, current, bound, sessionEnd, actedOn, wsTried, wsChain, gen, lock, wsDone, wsPc, wsArg, wsPick>>

\* The first supplier is bound and swapMu released.
SupplierBound ==
    /\ open = "starting" /\ gen > 0
    /\ open' = "up" /\ swapMu' = FALSE /\ bound' = [bound EXCEPT ![current] = @ + 1]
    /\ UNCHANGED <<closed, current, load, sessionEnd, actedOn, wsTried, wsChain, gen, lock, wsDone, wsPc, wsArg, wsPick>>

\* The bridge ends: the client leaves, the gateway stops.
BridgeEnds ==
    /\ gen > 0 /\ ~wsDone /\ wsDone' = TRUE
    /\ UNCHANGED <<open, swapMu, closed, account, actedOn, wsTried, wsChain, gen, lock, wsPc, wsArg, wsPick>>

\* Done: under swapMu the flag is set and the current supplier released.
WSRelease ==
    /\ open = "up" /\ wsDone /\ ~swapMu
    /\ open' = "closing" /\ closed' = TRUE
    /\ bound' = [bound EXCEPT ![current] = @ - 1]
    /\ UNCHANGED <<swapMu, current, load, sessionEnd, actedOn, wsTried, wsChain, gen, lock, wsDone, wsPc, wsArg, wsPick>>

\* Open returns: decLoad of whichever endpoint is current.
OpenReturns ==
    /\ open = "closing" /\ open' = "out"
    /\ load' = [load EXCEPT ![current] = @ - 1]
    /\ UNCHANGED <<swapMu, closed, current, bound, sessionEnd, actedOn, wsTried, wsChain, gen, lock, wsDone, wsPc, wsArg, wsPick>>

-----------------------------------------------------------------------------
(* Rebinds.                                                                *)

WSPlanned(t) == t # "loss"

\* A caller wants the endpoint the bridge holds replaced.
Wants(t) ==
    /\ wsPc[t] = "idle" /\ gen > 0 /\ ~wsDone
    /\ wsPc' = [wsPc EXCEPT ![t] = "wait"] /\ wsArg' = [wsArg EXCEPT ![t] = gen]
    /\ UNCHANGED <<open, swapMu, closed, account, wsTried, wsChain, gen, lock, wsDone, wsPick>>

LossReported == Wants("loss") /\ UNCHANGED actedOn

\* RebindService.
RebindRequested == Wants("admin") /\ UNCHANGED actedOn

\* A planned move starts afresh, a loss marks the endpoint.
noteRebind(t) == IF WSPlanned(t) THEN {} ELSE wsTried \cup {current}

\* The endpoint lock is taken; an endpoint already replaced is left alone.
RebindLocks(t) ==
    /\ wsPc[t] = "wait" /\ lock = None
    /\ IF wsArg[t] # gen
       THEN wsPc' = [wsPc EXCEPT ![t] = "idle"] /\ wsArg' = [wsArg EXCEPT ![t] = None] /\ UNCHANGED <<lock, wsTried>>
       ELSE /\ wsPc' = [wsPc EXCEPT ![t] = "resolve"] /\ lock' = t
            /\ wsTried' = noteRebind(t)
            /\ UNCHANGED wsArg
    /\ UNCHANGED <<open, swapMu, closed, account, actedOn, wsChain, gen, wsDone, wsPick>>

Unlocks(t) ==
    /\ lock' = None /\ wsPick' = None
    /\ wsPc' = [wsPc EXCEPT ![t] = "idle"] /\ wsArg' = [wsArg EXCEPT ![t] = None]

\* The handler resolves a supplier and the session to sign for.
RebindResolves(t) ==
    /\ wsPc[t] = "resolve" /\ gen < MaxRebinds
    /\ \E e \in WSCandidates, s \in CurrentSession :
          wsPick' = [ep |-> e, end |-> s] /\ cached' = s
    /\ wsPc' = [wsPc EXCEPT ![t] = "dial"]
    /\ UNCHANGED <<open, swapMu, closed, account, actedOn, wsTried, height, gen, lock, wsDone, wsArg>>

\* Nothing to resolve, a dial that failed: the bridge closes.
WSRebindFails(t) ==
    /\ wsPc[t] \in {"resolve", "dial"} /\ Unlocks(t) /\ wsDone' = TRUE
    /\ UNCHANGED <<open, swapMu, closed, account, actedOn, wsTried, wsChain, gen>>

\* Mutant: swapMu is not waited for.
SwapMuIgnored == TRUE

SwapMuFree == ~swapMu

MovesLoad(e) == load' = [[load EXCEPT ![current] = @ - 1] EXCEPT ![e] = @ + 1]

\* Under swapMu: closed meanwhile, or the counts and the session move over.
RebindSwaps(t) ==
    /\ wsPc[t] = "dial" /\ SwapMuFree
    /\ IF closed
       THEN Unlocks(t) /\ wsDone' = TRUE /\ UNCHANGED <<account, actedOn>>
       ELSE /\ current' = wsPick.ep /\ sessionEnd' = wsPick.end
            /\ MovesLoad(wsPick.ep)
            /\ bound' = [[bound EXCEPT ![current] = @ - 1] EXCEPT ![wsPick.ep] = @ + 1]
            /\ wsPc' = [wsPc EXCEPT ![t] = "swap"]
            /\ UNCHANGED <<lock, wsArg, wsPick, wsDone, actedOn>>
    /\ UNCHANGED <<open, swapMu, closed, wsTried, wsChain, gen>>

\* Back in the bridge: shut down meanwhile, or the endpoint is stored.
RebindStores(t) ==
    /\ wsPc[t] = "swap" /\ Unlocks(t)
    /\ gen' = IF wsDone THEN gen ELSE gen + 1
    /\ UNCHANGED <<open, swapMu, closed, account, actedOn, wsTried, wsChain, wsDone>>

-----------------------------------------------------------------------------
(* watchSessionExpiry.                                                     *)

\* What nextSession answers: past grace the session manager refreshes first,
\* and a lookup that fails counts as ready.
NextReady == {cached > sessionEnd, TRUE}

sessionEndAction(ready) ==
    IF height < sessionEnd THEN "wait"
    ELSE IF sessionEnd = actedOn THEN "close"
    ELSE IF ready \/ height > sessionEnd + WSGrace THEN "rebind" ELSE "wait"

WatchRebinds ==
    /\ open = "up" /\ \E ready \in NextReady : sessionEndAction(ready) = "rebind"
    /\ Wants("watch") /\ actedOn' = sessionEnd

\* The session did not move: the bridge is closed.
WatchCloses ==
    /\ open = "up" /\ wsPc["watch"] = "idle" /\ ~wsDone
    /\ \E ready \in NextReady : sessionEndAction(ready) = "close"
    /\ wsDone' = TRUE
    /\ UNCHANGED <<open, swapMu, closed, account, actedOn, wsTried, wsChain, gen, lock, wsPc, wsArg, wsPick>>

-----------------------------------------------------------------------------
WSRebinds(t) ==
    RebindLocks(t) \/ RebindResolves(t) \/ WSRebindFails(t) \/ RebindSwaps(t) \/ RebindStores(t)

OpenSteps == BridgeStarts \/ BridgeFails \/ SupplierBound \/ WSRelease \/ OpenReturns

Watches == WatchRebinds \/ WatchCloses

WSNext ==
    \/ NewBlock \/ SessionRefreshed
    \/ OpenStarts \/ OpenSteps \/ BridgeEnds
    \/ LossReported \/ RebindRequested \/ Watches
    \/ \E t \in WSCallers : WSRebinds(t)

WSSpec == WSInit /\ [][WSNext]_wsVars

-----------------------------------------------------------------------------
\* Every variable has its type.
WSTypeOK ==
    /\ open \in {"new", "starting", "up", "closing", "out"}
    /\ swapMu \in BOOLEAN /\ closed \in BOOLEAN /\ wsDone \in BOOLEAN
    /\ current \in Endpoints \cup {None}
    /\ load \in [Endpoints -> Nat] /\ bound \in [Endpoints -> Int]
    /\ sessionEnd \in Nat /\ actedOn \in Nat /\ cached \in Nat
    /\ wsTried \subseteq Endpoints
    /\ height \in Nat /\ gen \in Nat
    /\ lock \in WSCallers \cup {None}
    /\ wsPc \in [WSCallers -> {"idle", "wait", "resolve", "dial", "swap"}]
    /\ wsArg \in [WSCallers -> Nat \cup {None}]
    /\ wsPick = None \/ wsPick \in [ep : Endpoints, end : Nat]

\* Both counts of a connection are exact however a rebind and the close
\* interleave: while it is up its current supplier is bound once in the gauge
\* and no other is, nothing stays bound after the close (the gauge that went
\* negative for one owner), and the load follows the current endpoint from the
\* selection to Open's return.
CountsExact ==
    \A e \in Endpoints :
        /\ bound[e] = IF open = "up" /\ e = current THEN 1 ELSE 0
        /\ load[e] = IF open \in {"starting", "up", "closing"} /\ e = current THEN 1 ELSE 0

=============================================================================
