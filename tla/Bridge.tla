-------------------------------- MODULE Bridge --------------------------------
(***************************************************************************)
(* One WebSocket bridge of websockets/bridge.go: the routing loop, a read  *)
(* loop for the client and one for every endpoint the bridge ever holds,   *)
(* the ping and stall loops, a caller that moves the endpoint on purpose   *)
(* (a session rollover, an operator), the goroutines started for a frame   *)
(* that failed to process, the swap of a lost endpoint (rebind) and the    *)
(* shutdown every one of them may call.                                    *)
(*                                                                         *)
(* A step ends where another goroutine can see a difference: at a lock, a  *)
(* channel, the context, the once, a socket.  endpointMu is a Go RWMutex:  *)
(* a waiting writer keeps new readers out.                                 *)
(***************************************************************************)
EXTENDS Sage, Sequences, FiniteSets, Integers

CONSTANTS
    Conns,        \* the endpoints one bridge may be given, and the first
    First,
    RebindLimit,  \* rebindLimit
    ChanCap,      \* capacity of msgChan
    Shapes,       \* the bridges: whether an endpoint-lost handler is installed,
                  \* which of the ping, stall and planner loops run and, as
                  \* bounds, which endpoints and bad frames may come and which
                  \* peers send frames
    Gones         \* goroutines started for frames that failed to process

ASSUME BridgeAssumption ==
    /\ Shapes \subseteq [rebind : BOOLEAN, talkers : SUBSET ({"client"} \cup Conns),
                        starts : SUBSET ({"ping", "stall", "planner"} \cup Conns \cup Gones)]
    /\ First \in Conns
    /\ RebindLimit \in Nat /\ ChanCap \in Nat \ {0}

Optional == {"ping", "stall", "planner"}

Loops == {"run", "client"} \cup Optional

Threads == Loops \cup Conns \cup Gones

VARIABLES
    shape,      \* which of the Shapes it is
    bridgePc,   \* pc[t]: where a goroutine is
    bridgeArg,  \* arg[t]: the endpoint a rebind of t is about
    bridgeCur,  \* endpointConn
    sock,       \* sock[c]: "none", "open", "dead" (dropped by the peer), "closed"
    client,     \* the client's socket, likewise
    msgChan,    \* frames waiting, each the connection it was read from 
    msg,        \* the frame being routed
    writer,     \* endpointMu: the writer, the readers
    readers,
    losses,     \* loss rebinds inside rebindWindow
    ctxDone,    \* the bridge's context
    once,       \* shutdownOnce: "new", "busy", "over"
    bridgeDone  \* the done channel

bridgeVars == <<shape, bridgePc, bridgeArg, bridgeCur, sock, client, msgChan, msg, writer, readers, losses,
          ctxDone, once, bridgeDone>>

-----------------------------------------------------------------------------
\* StartBridge: the client is upgraded, the first endpoint dialled, the read
\* loops and the routing loop started.
BridgeInit ==
    /\ shape \in Shapes
    /\ bridgePc = [t \in Threads |->
          IF t \in {"run", "client", First} \cup (Optional \cap shape.starts) THEN "loop"
          ELSE IF t \in shape.starts THEN "off" ELSE "end"]
    /\ bridgeArg = [t \in Threads |-> None]
    /\ bridgeCur = First
    /\ sock = [c \in Conns |-> IF c = First THEN "open" ELSE "none"]
    /\ client = "open"
    /\ msgChan = <<>> /\ msg = None
    /\ writer = None /\ readers = {}
    /\ losses = 0
    /\ ctxDone = FALSE /\ once = "new" /\ bridgeDone = FALSE

BridgeGoto(t, l) == bridgePc' = [bridgePc EXCEPT ![t] = l]

\* Where a goroutine goes when a rebind or a shutdown it called returns.
AfterRebind(t) == IF t \in Loops THEN "loop" ELSE IF t \in Gones THEN "off" ELSE "end"

\* RLock: free, and no writer waiting.
CanRLock == writer = None /\ \A t \in Threads : bridgePc[t] # "lock"

-----------------------------------------------------------------------------
(* The peers.                                                              *)

EndpointDrops(c) ==
    /\ sock[c] = "open" /\ sock' = [sock EXCEPT ![c] = "dead"]
    /\ UNCHANGED <<bridgePc, bridgeArg, bridgeCur, client, msgChan, msg, writer, readers, losses, ctxDone, once, bridgeDone>>

ClientDrops ==
    /\ client = "open" /\ client' = "dead"
    /\ UNCHANGED <<bridgePc, bridgeArg, bridgeCur, sock, msgChan, msg, writer, readers, losses, ctxDone, once, bridgeDone>>

\* The oldest loss leaves rebindWindow.
LossAges ==
    /\ losses > 0 /\ losses' = losses - 1
    /\ UNCHANGED <<bridgePc, bridgeArg, bridgeCur, sock, client, msgChan, msg, writer, readers, ctxDone, once, bridgeDone>>

-----------------------------------------------------------------------------
(* readLoop.                                                               *)

\* Mutant: the send does not watch the context.
SendsBlindly(t, m) ==
    Len(msgChan) < ChanCap /\ msgChan' = Append(msgChan, m) /\ BridgeGoto(t, "loop")

\* The send of a frame, given up when the context is done.
Sends(t, m) ==
    \/ Len(msgChan) < ChanCap /\ msgChan' = Append(msgChan, m) /\ BridgeGoto(t, "loop")
    \/ ctxDone /\ BridgeGoto(t, "end") /\ UNCHANGED msgChan

ReadFrame(t, state) ==
    /\ t \in shape.talkers /\ bridgePc[t] = "loop" /\ state = "open" /\ BridgeGoto(t, "send")
    /\ UNCHANGED <<bridgeArg, bridgeCur, sock, client, msgChan, msg, writer, readers, losses, ctxDone, once, bridgeDone>>

SendFrame(t, m) ==
    /\ bridgePc[t] = "send" /\ Sends(t, m)
    /\ UNCHANGED <<bridgeArg, bridgeCur, sock, client, msg, writer, readers, losses, ctxDone, once, bridgeDone>>

\* endpointGone: a shutdown, or a rebind of the endpoint that was lost.
Gone(t, c) ==
    /\ IF c = None \/ ~shape.rebind \/ ctxDone
       THEN BridgeGoto(t, "once") /\ bridgeArg' = [bridgeArg EXCEPT ![t] = None]
       ELSE BridgeGoto(t, "announce") /\ bridgeArg' = [bridgeArg EXCEPT ![t] = c]
    /\ UNCHANGED <<bridgeCur, sock, client, msgChan, msg, writer, readers, losses, ctxDone, once, bridgeDone>>

ClientRead == ReadFrame("client", client)
ClientSend == SendFrame("client", "client")
ClientReadFails == bridgePc["client"] = "loop" /\ client # "open" /\ Gone("client", None)

EndpointRead(c) == ReadFrame(c, sock[c])
EndpointSend(c) == SendFrame(c, c)
\* Mutant: the read loop ends without reporting the loss.
EndpointReadEnds(c) ==
    /\ bridgePc[c] = "loop" /\ sock[c] # "open" /\ BridgeGoto(c, "end")
    /\ UNCHANGED <<bridgeArg, bridgeCur, sock, client, msgChan, msg, writer, readers, losses, ctxDone, once, bridgeDone>>

EndpointReadFails(c) == bridgePc[c] = "loop" /\ sock[c] # "open" /\ Gone(c, c)

-----------------------------------------------------------------------------
(* run and route.                                                          *)

BridgeReceive ==
    /\ bridgePc["run"] = "loop" /\ msgChan # <<>>
    /\ msg' = Head(msgChan) /\ msgChan' = Tail(msgChan) /\ BridgeGoto("run", "rlock")
    /\ UNCHANGED <<bridgeArg, bridgeCur, sock, client, writer, readers, losses, ctxDone, once, bridgeDone>>

\* The context is done: the deferred shutdown.
RunExit ==
    /\ bridgePc["run"] = "loop" /\ ctxDone /\ BridgeGoto("run", "once")
    /\ UNCHANGED <<bridgeArg, bridgeCur, sock, client, msgChan, msg, writer, readers, losses, ctxDone, once, bridgeDone>>

RouteLock ==
    /\ bridgePc["run"] = "rlock" /\ CanRLock
    /\ readers' = readers \cup {"run"} /\ BridgeGoto("run", "route")
    /\ UNCHANGED <<bridgeArg, bridgeCur, sock, client, msgChan, msg, writer, losses, ctxDone, once, bridgeDone>>

RouteEnds ==
    /\ readers' = readers \ {"run"} /\ msg' = None
    /\ UNCHANGED <<bridgeCur, sock, client, msgChan, writer, losses, ctxDone, once, bridgeDone>>

\* The frame is forwarded, consumed, answered, or is a replaced endpoint's; or
\* it met a dead socket whose read loop will act on it.
Routed ==
    /\ bridgePc["run"] = "route" /\ BridgeGoto("run", "loop") /\ RouteEnds
    /\ \/ msg = "client" /\ (sock[bridgeCur] = "open" \/ shape.rebind)
       \/ msg # "client" /\ (msg # bridgeCur \/ client = "open")
    /\ UNCHANGED bridgeArg

\* A shutdown from inside route, which still holds the read lock: a client
\* frame that failed to process, a write that failed.
RouteFails ==
    /\ bridgePc["run"] = "route" /\ BridgeGoto("run", "once")
    /\ \/ msg = "client"
       \/ msg = bridgeCur /\ client # "open"
    /\ UNCHANGED <<bridgeArg, bridgeCur, sock, client, msgChan, msg, writer, readers, losses, ctxDone, once, bridgeDone>>

\* An endpoint's frame failed to process: endpointGone on its own goroutine.
RouteBadFrame(g) ==
    /\ bridgePc["run"] = "route" /\ msg = bridgeCur /\ bridgePc[g] = "off"
    /\ bridgePc' = [bridgePc EXCEPT !["run"] = "loop", ![g] = "loop"]
    /\ bridgeArg' = [bridgeArg EXCEPT ![g] = msg]
    /\ RouteEnds

GoneRuns(g) == bridgePc[g] = "loop" /\ Gone(g, bridgeArg[g])

-----------------------------------------------------------------------------
(* The other loops.                                                        *)

PingFails ==
    /\ bridgePc["ping"] = "loop" /\ ~ctxDone
    /\ client # "open" \/ (~shape.rebind /\ sock[bridgeCur] # "open")
    /\ BridgeGoto("ping", "once")
    /\ UNCHANGED <<bridgeArg, bridgeCur, sock, client, msgChan, msg, writer, readers, losses, ctxDone, once, bridgeDone>>

\* ReplaceEndpoint, from the stall loop (a loss) or on purpose.
ReplaceEndpoint(t) ==
    /\ bridgePc[t] = "loop" /\ ~ctxDone
    /\ Gone(t, bridgeCur)

\* A loop sees the context done.
LoopEnds(t) ==
    /\ bridgePc[t] = "loop" /\ ctxDone /\ BridgeGoto(t, "end")
    /\ UNCHANGED <<bridgeArg, bridgeCur, sock, client, msgChan, msg, writer, readers, losses, ctxDone, once, bridgeDone>>

-----------------------------------------------------------------------------
(* rebind.                                                                 *)

\* Lock waits for the other writers and announces itself, then waits for the
\* readers.
RebindAnnounce(t) ==
    /\ bridgePc[t] = "announce" /\ writer = None /\ \A u \in Threads : bridgePc[u] # "lock"
    /\ BridgeGoto(t, "lock")
    /\ UNCHANGED <<bridgeArg, bridgeCur, sock, client, msgChan, msg, writer, readers, losses, ctxDone, once, bridgeDone>>

BridgePlanned(t) == t = "planner"

\* Mutant: the endpoint is not compared with the one that was lost.
StillCurrentAlways(t) == TRUE

StillCurrent(t) == bridgeCur = bridgeArg[t]

Spent(t) == ~BridgePlanned(t) /\ losses >= RebindLimit

\* Mutant: the writer does not wait for the readers.
CanLockEarly == writer = None

CanLock == writer = None /\ readers = {}

\* The lock is taken: already replaced, limit reached, or on to the handler.
RebindLock(t) ==
    /\ bridgePc[t] = "lock" /\ CanLock
    /\ BridgeGoto(t, IF ~StillCurrent(t) THEN AfterRebind(t)
               ELSE IF Spent(t) THEN "once" ELSE "dial")
    /\ writer' = IF StillCurrent(t) /\ ~Spent(t) THEN t ELSE None
    /\ bridgeArg' = [bridgeArg EXCEPT ![t] = IF StillCurrent(t) /\ ~Spent(t) THEN @ ELSE None]
    /\ UNCHANGED <<bridgeCur, sock, client, msgChan, msg, readers, losses, ctxDone, once, bridgeDone>>

\* The handler failed or refused: unlock, then Shutdown.
BridgeRebindFails(t) ==
    /\ bridgePc[t] = "dial" /\ writer' = None /\ BridgeGoto(t, "once")
    /\ bridgeArg' = [bridgeArg EXCEPT ![t] = None]
    /\ UNCHANGED <<bridgeCur, sock, client, msgChan, msg, readers, losses, ctxDone, once, bridgeDone>>

\* The new endpoint is closed again if the bridge was shut down meanwhile.
Dialled(t, c) ==
    IF ctxDone
    THEN /\ sock' = [sock EXCEPT ![c] = "closed"] /\ BridgeGoto(t, AfterRebind(t)) /\ writer' = None
         /\ bridgeArg' = [bridgeArg EXCEPT ![t] = None]
    ELSE /\ sock' = [sock EXCEPT ![c] = "open"] /\ BridgeGoto(t, "swap") /\ bridgeArg' = [bridgeArg EXCEPT ![t] = c]
         /\ UNCHANGED writer

RebindDialled(t) ==
    /\ bridgePc[t] = "dial"
    /\ \E c \in Conns : sock[c] = "none" /\ bridgePc[c] = "off" /\ Dialled(t, c)
    /\ UNCHANGED <<bridgeCur, client, msgChan, msg, readers, losses, ctxDone, once, bridgeDone>>

\* Mutant: the lock is released before the new endpoint is stored.
RebindCloseLostUnlocked(t) ==
    /\ bridgePc[t] = "swap" /\ BridgeGoto(t, "store")
    /\ sock' = [sock EXCEPT ![bridgeCur] = "closed"] /\ writer' = None
    /\ UNCHANGED <<bridgeArg, bridgeCur, client, msgChan, msg, readers, losses, ctxDone, once, bridgeDone>>

RebindCloseLost(t) ==
    /\ bridgePc[t] = "swap" /\ BridgeGoto(t, "store")
    /\ sock' = [sock EXCEPT ![bridgeCur] = "closed"]
    /\ UNCHANGED <<bridgeArg, bridgeCur, client, msgChan, msg, writer, readers, losses, ctxDone, once, bridgeDone>>

\* The new endpoint and its processor are stored and its read loop started, the
\* loss counted, the lock released.
RebindStore(t) ==
    /\ bridgePc[t] = "store"
    /\ bridgeCur' = bridgeArg[t]
    /\ losses' = IF BridgePlanned(t) THEN losses ELSE losses + 1
    /\ writer' = None
    /\ bridgePc' = [bridgePc EXCEPT ![t] = "replay", ![bridgeArg[t]] = "loop"]
    /\ UNCHANGED <<bridgeArg, sock, client, msgChan, msg, readers, ctxDone, once, bridgeDone>>

\* The replay writes, under the read lock.
ReplayLock(t) ==
    /\ bridgePc[t] = "replay" /\ CanRLock
    /\ readers' = readers \cup {t} /\ BridgeGoto(t, "replaying")
    /\ UNCHANGED <<bridgeArg, bridgeCur, sock, client, msgChan, msg, writer, losses, ctxDone, once, bridgeDone>>

ReplayEnds(t) ==
    /\ bridgePc[t] = "replaying" /\ readers' = readers \ {t} /\ BridgeGoto(t, AfterRebind(t))
    /\ bridgeArg' = [bridgeArg EXCEPT ![t] = None]
    /\ UNCHANGED <<bridgeCur, sock, client, msgChan, msg, writer, losses, ctxDone, once, bridgeDone>>

-----------------------------------------------------------------------------
(* shutdown: the first caller runs it, the others wait for it to be over.  *)

\* Cancel the context.
ShutdownFirst(t) ==
    /\ bridgePc[t] = "once" /\ once = "new"
    /\ once' = "busy" /\ ctxDone' = TRUE /\ BridgeGoto(t, "close")
    /\ UNCHANGED <<bridgeArg, bridgeCur, sock, client, msgChan, msg, writer, readers, losses, bridgeDone>>

\* Determine the close code, load the endpoint, close both connections.  A swap
\* after the load finds the shutdown as good as over.
ShutdownClose(t) ==
    /\ bridgePc[t] = "close"
    /\ client' = "closed" /\ sock' = [sock EXCEPT ![bridgeCur] = "closed"]
    /\ once' = "over" /\ BridgeGoto(t, "once")
    /\ UNCHANGED <<bridgeArg, bridgeCur, msgChan, msg, writer, readers, losses, ctxDone, bridgeDone>>

\* The once is over: run goes back to its loop, or closes done on its way out;
\* every other caller waits for done.
ShutdownOver(t) ==
    /\ bridgePc[t] = "once" /\ once = "over"
    /\ IF t # "run" THEN BridgeGoto(t, "wait") /\ UNCHANGED <<readers, msg, bridgeDone>>
       ELSE IF "run" \in readers
       THEN BridgeGoto(t, "loop") /\ readers' = readers \ {"run"} /\ msg' = None /\ UNCHANGED bridgeDone
       ELSE BridgeGoto(t, "end") /\ bridgeDone' = TRUE /\ UNCHANGED <<readers, msg>>
    /\ UNCHANGED <<bridgeArg, bridgeCur, sock, client, msgChan, writer, losses, ctxDone, once>>

ShutdownReturns(t) ==
    /\ bridgePc[t] = "wait" /\ bridgeDone /\ BridgeGoto(t, "end")
    /\ UNCHANGED <<bridgeArg, bridgeCur, sock, client, msgChan, msg, writer, readers, losses, ctxDone, once, bridgeDone>>

\* Shutdown called from outside, at the end of a session with no handler.
OwnerStops ==
    /\ bridgePc["planner"] = "loop" /\ BridgeGoto("planner", "once")
    /\ UNCHANGED <<bridgeArg, bridgeCur, sock, client, msgChan, msg, writer, readers, losses, ctxDone, once, bridgeDone>>

\* The context the bridge was started with is cancelled: the gateway stops.
GatewayStops ==
    /\ ~ctxDone /\ ctxDone' = TRUE
    /\ UNCHANGED <<bridgePc, bridgeArg, bridgeCur, sock, client, msgChan, msg, writer, readers, losses, once, bridgeDone>>

-----------------------------------------------------------------------------
BridgeRebinds(t) ==
    \/ RebindAnnounce(t) \/ RebindLock(t) \/ BridgeRebindFails(t) \/ RebindDialled(t)
    \/ RebindCloseLost(t) \/ RebindStore(t) \/ ReplayLock(t) \/ ReplayEnds(t)

Shutdowns(t) ==
    ShutdownFirst(t) \/ ShutdownClose(t) \/ ShutdownOver(t) \/ ShutdownReturns(t)

RunSteps ==
    BridgeReceive \/ RunExit \/ RouteLock \/ Routed \/ RouteFails \/ \E g \in Gones : RouteBadFrame(g)

ClientSteps == ClientSend \/ ClientReadFails

ConnSteps(c) == EndpointSend(c) \/ EndpointReadFails(c)

\* What the peers and the callers decide.
Outside ==
    \/ ClientRead \/ ClientDrops \/ \E c \in Conns : EndpointRead(c) \/ EndpointDrops(c)
    \/ ReplaceEndpoint("stall") \/ ReplaceEndpoint("planner") \/ OwnerStops \/ GatewayStops \/ LossAges

BridgeSteps ==
    \/ Outside \/ RunSteps \/ ClientSteps \/ PingFails
    \/ \E c \in Conns : ConnSteps(c)
    \/ \E g \in Gones : GoneRuns(g)
    \/ \E t \in Optional : LoopEnds(t)
    \/ \E t \in Threads : BridgeRebinds(t) \/ Shutdowns(t)

BridgeNext == BridgeSteps /\ UNCHANGED shape

BridgeSpec == BridgeInit /\ [][BridgeNext]_bridgeVars

-----------------------------------------------------------------------------
(* Properties.                                                             *)

\* Every variable has its type; the lock has a writer or readers, not both.
BridgeTypeOK ==
    /\ shape \in Shapes
    /\ bridgePc \in [Threads -> {"off", "loop", "send", "rlock", "route", "announce", "lock", "dial",
                           "swap", "store", "replay", "replaying", "once", "close", "wait", "end"}]
    /\ bridgeArg \in [Threads -> Conns \cup {None}]
    /\ bridgeCur \in Conns
    /\ sock \in [Conns -> {"none", "open", "dead", "closed"}]
    /\ client \in {"open", "dead", "closed"}
    /\ msgChan \in Seq({"client"} \cup Conns) /\ Len(msgChan) <= ChanCap
    /\ msg \in {None, "client"} \cup Conns
    /\ writer \in Threads \cup {None} /\ readers \subseteq Threads
    /\ writer # None => readers = {}
    /\ losses \in Nat
    /\ ctxDone \in BOOLEAN /\ bridgeDone \in BOOLEAN
    /\ once \in {"new", "busy", "over"}

\* A frame is never routed towards a socket a rebind has closed: route and the
\* swap exclude each other, so until the bridge shuts down the endpoint that
\* route loads is the one the bridge holds.  done closes once the shutdown ran,
\* when no frame is being routed, and none is routed afterwards (run's deferred
\* close).
RoutesToHeldEndpoint ==
    /\ bridgePc["run"] = "route" /\ ~ctxDone => sock[bridgeCur] # "closed"
    /\ bridgeDone => once = "over" /\ "run" \notin readers /\ bridgePc["run"] = "end" /\ client = "closed"

\* A read loop, or the goroutine of a bad frame, only ever gets the endpoint it
\* reported replaced: a second report of one loss, or a late one, does not take
\* a healthy successor away.
ReplacesOnlyItsOwn ==
    [][\A t \in Conns \cup Gones : bridgePc[t] = "lock" /\ bridgePc'[t] = "dial" => bridgeCur = bridgeArg[t]]_bridgeVars

\* Shutdown is finished: every goroutine that routes, rebinds or waits in
\* Shutdown has come back, and done is closed.
ClosedDown == bridgeDone /\ \A t \in Threads : bridgePc[t] \in {"off", "loop", "end"}

\* Shutdown closes both connections: when it is over and no rebind is under
\* way, no endpoint socket the bridge dialled is open.
NoSocketLeft ==
    bridgeDone /\ (\A t \in Threads : bridgePc[t] \notin {"dial", "swap", "store"})
        => \A c \in Conns : sock[c] # "open"

-----------------------------------------------------------------------------
(***************************************************************************)
(* The close frames a bridge sends (websockets/bridge.go): the code chosen *)
(* from the cause of the shutdown and from what the peers said, made legal *)
(* for the wire, and turned round for the peer SAGE is the client of.  The *)
(* peers' codes may be recorded at any moment before the choice.           *)
(***************************************************************************)

CONSTANT Codes  \* the close codes a read may record; 0: none

ASSUME CodesAssumption == Codes \subseteq Int /\ 0 \in Codes

Causes == {"refused", "unavailable", "cancelled", "expired", "stalled", "unresponsive",
           "processing", "connection", "other"}

VARIABLES
    endpointInfo,  \* the endpoint connection's close info
    clientInfo,    \* the client connection's
    cause,         \* why the bridge shut down, or "none" while it is up
    toClient,      \* the codes of the frames sent; 0: not sent
    toEndpoint

closeVars == <<endpointInfo, clientInfo, cause, toClient, toEndpoint>>

\* isSendableCloseCode.
isSendable(code) ==
    /\ code \notin {1005, 1006, 1015}
    /\ code \in 3000..4999 \/ code \in 1000..1014

\* Mutant: every code passes.
sanitizeNothing(code) == code

sanitize(code) == IF isSendable(code) THEN code ELSE 1011

endpointCloseCode(code) == IF code \in {1011, 1012, 1013} THEN 1001 ELSE code

\* determineCloseCode.
determine(why) ==
    IF why = "refused" THEN 1008
    ELSE IF why = "unavailable" THEN 1012
    ELSE IF endpointInfo # 0 THEN endpointInfo
    ELSE IF clientInfo # 0 THEN clientInfo
    ELSE IF why \in {"cancelled", "expired", "stalled", "unresponsive"} THEN 1012
    ELSE 1011

CloseInit ==
    /\ endpointInfo = 0 /\ clientInfo = 0
    /\ cause = "none" /\ toClient = 0 /\ toEndpoint = 0

\* SetCloseInfo, from a read loop, which ends with it.
EndpointClosed ==
    /\ endpointInfo = 0 /\ endpointInfo' \in Codes
    /\ UNCHANGED <<clientInfo, cause, toClient, toEndpoint>>

ClientClosed ==
    /\ clientInfo = 0 /\ clientInfo' \in Codes
    /\ UNCHANGED <<endpointInfo, cause, toClient, toEndpoint>>

\* shutdown sends one frame to each peer.
Shutdown ==
    /\ cause = "none" /\ cause' \in Causes
    /\ toClient' = sanitize(determine(cause'))
    /\ toEndpoint' = endpointCloseCode(sanitize(determine(cause')))
    /\ UNCHANGED <<endpointInfo, clientInfo>>

\* StartBridge: the endpoint could not be dialled; only the client is told.
DialFails ==
    /\ cause = "none" /\ endpointInfo = 0 /\ clientInfo = 0
    /\ cause' = "dial" /\ toClient' = sanitize(1013)
    /\ UNCHANGED <<endpointInfo, clientInfo, toEndpoint>>

CloseNext == EndpointClosed \/ ClientClosed \/ Shutdown \/ DialFails

CloseSpec == CloseInit /\ [][CloseNext]_closeVars

-----------------------------------------------------------------------------
\* bridge.go:792: no frame carries a code a peer must reject, whichever peer it
\* came from: a 1006 inferred from a dropped connection never reaches the wire.
\* The relay miner is never told what only a server tells its client, and a
\* client whose endpoint was given up, or that is refused, learns so whatever
\* the peers last said: it reconnects, or it does not.
ClosesAsPromised ==
    /\ (toClient # 0 => isSendable(toClient)) /\ (toEndpoint # 0 => isSendable(toEndpoint))
    /\ toEndpoint \notin {1011, 1012, 1013}
    /\ cause = "unavailable" => toClient = 1012
    /\ cause = "refused" => toClient = 1008
=============================================================================
