------------------------------- MODULE MCCatchUp -------------------------------
(***************************************************************************)
(* What the long-lived parts must eventually do: a WebSocket bridge closes *)
(* down or follows a lost endpoint, a stream follows the sessions, the     *)
(* session cache follows the chain, and what an operator changes reaches   *)
(* every instance: a drain and its release, a feature flag, a tuning       *)
(* override, a domain ban, the configuration.  Fairness: a goroutine that  *)
(* can run does; locks and channels are handed on; a call asked again and  *)
(* again is answered.  Nothing is assumed of clients, peers, operators or  *)
(* the chain.  The components share no state (the configuration excepted,  *)
(* which is explored with the overrides it shares a reader with): each is  *)
(* explored with the others at rest, and as one of them is in play in a    *)
(* behaviour, one fairness formula serves a goroutine of each.             *)
(***************************************************************************)
EXTENDS Bridge, Drain, WSRelayer, Sessions, FlagStore, ConfigReload, Blocklist, TLC

CONSTANTS Parts, c1, c2, o1, o2, i1, f1, k1, q1, q2, r1, r2, b1

VARIABLE part

MCShapes ==
    {[rebind |-> TRUE, starts |-> {c2}, talkers |-> {"client"}],
     [rebind |-> FALSE, starts |-> {"ping"}, talkers |-> {"client"}]}

MCEndOf == [s \in SessionIDs |-> 1]
MCAddrsOf == [s \in SessionIDs |-> {}]

MCFlags == [f \in FlagNames |-> FALSE]

\* A document changes nothing, the marks and what needs a restart, or every
\* section with a seam; or it does not boot.
MCBoot == [s \in Sections |-> Base]
MCDoc(S) == [s \in Sections |-> IF s \in S THEN q2 ELSE Base]
MCBad == [s \in Sections |-> q1]
MCDocs == {MCBoot, MCDoc({"marks", "wiring"}), MCDoc(Sections \ {"wiring"}), MCBad}
MCInvalid == {MCBad}
MCSeams == [r \in CfgReplicas |-> IF r = r1 THEN Sections \ {"domains"} ELSE Sections]

streamVars == <<bridgeVars, closeVars, wsVars, sessionVars, indexVars>>
mcVars == <<part, streamVars, drainVars, flagVars, reloadVars, blVars>>

InStreams == UNCHANGED <<part, closeVars, indexVars, drainVars, flagVars, reloadVars, blVars>>
InBridge == part = "bridge" /\ InStreams /\ UNCHANGED <<wsVars, sessionVars, shape>>
InRelayer == part = "relayer" /\ InStreams /\ UNCHANGED <<bridgeVars, sessionVars>>
InSessions == part = "sessions" /\ InStreams /\ UNCHANGED <<bridgeVars, wsVars>>
InDrain == part = "drain" /\ UNCHANGED <<part, streamVars, drainOver, flagVars, reloadVars, blVars>>
InFlags == part = "flags" /\ UNCHANGED <<part, streamVars, drainVars, reloadVars, blVars>>
InOverrides == part = "overrides" /\ UNCHANGED <<part, streamVars, drainVars, flagVars, cfgVars, blVars>>
InConfig == part = "config" /\ UNCHANGED <<part, streamVars, drainVars, flagVars, blVars>>
InBans == part = "bans" /\ UNCHANGED <<part, streamVars, drainVars, flagVars, reloadVars>>

\* o1 drains and o2 releases, and no drain reaches its Until while its request
\* is followed.
DrainThenRelease == op'[o1].kind = "set" /\ (op'[o2].pc = "idle" \/ op'[o2].kind = "release")

StreamsInit ==
    /\ BridgeInit /\ CloseInit /\ WSInit /\ SessionInit /\ IndexInit
    /\ part # "bridge" => shape = CHOOSE s \in Shapes : TRUE
    /\ part # "sessions" => latest = 0

\* The file of one process has the flag; Redis has it globally or not at all.
SettingsInit ==
    /\ FlagInit /\ CfgInit /\ OvInit /\ BlInit
    /\ \A f \in FlagNames : fileFlags[r2][f] = None /\ \A s \in FlagServices : flagRedis[<<f, s>>] = None
    /\ part # "flags" => flagRedis = NoFlags /\ \A f \in FlagNames : fileFlags[r1][f] = None
    /\ part # "config" => cfgStored = None
    /\ part # "overrides" => ovRedis = NoOverrides
    /\ part # "bans" => blBackend = NoBans /\ \A r \in BlReplicas : blBase[r] = {}

MCInit == part \in Parts /\ StreamsInit /\ DrainInit /\ SettingsInit

MCNext ==
    \/ InBridge /\ BridgeSteps
    \/ InRelayer /\ WSNext
    \/ InSessions /\ SessionNext
    \/ InDrain /\ DrainNext /\ DrainThenRelease
    \/ InFlags /\ FlagNext
    \/ InOverrides /\ OvNext
    \/ InConfig /\ CfgNext
    \/ InBans /\ BlNext

-----------------------------------------------------------------------------
\* Every goroutine of the bridge runs, a lock is handed on, a write has a
\* deadline and the handler's dial is bounded by its timeout.
BridgeGoroutine(i) ==
    LET t == <<"run", "client", "ping", "planner", c1, c2>>[i]
    IN  /\ i \in 1..6
        /\ \/ BridgeRebinds(t) \/ Shutdowns(t)
           \/ i = 1 /\ RunSteps
           \/ i = 3 /\ PingFails
           \/ i \in 3..4 /\ LoopEnds(t)

\* Every request of a drain runs to its end and every instance refreshes.
DrainGoroutine(i) ==
    \/ /\ i \in 1..2
       /\ LET o == <<o1, o2>>[i]
          IN  \/ BeginSet(o) \/ BeginRelease(o) \/ Finish(o)
              \/ \E err \in BOOLEAN : HSet(o, err) \/ Undo(o, err) \/ HDel(o, err)
    \/ /\ i \in 3..4
       /\ LET r == <<i1, f1>>[i - 2]
          IN  \/ RefreshBegin(r) \/ Scan(r) \/ RetryFinish(r) \/ Replace(r) \/ Purge(r)
              \/ \E err \in BOOLEAN : RetryUndo(r, err) \/ RetryHSet(r, k1, err)

\* Open and the watcher run.
RelayerGoroutine(i) == (i = 1 /\ OpenSteps) \/ (i = 2 /\ Watches)

\* The poller catches up, holds lapse, relays keep coming, every caller runs
\* on and every fetch ends.
SessionGoroutine(i) ==
    \/ i = 1 /\ Poll
    \/ i = 2 /\ HoldLapses
    \/ i \in 3..4 /\ LET c == <<q1, Bg>>[i - 2] IN Begin(c) \/ CallerStep(c)
    \/ i \in 5..6 /\ FetchStep(<<q1, Bg>>[i - 4])

\* A request runs to its end, a refresh, a watcher and a poll go round, and a
\* hook that was called returns; nothing makes an operator act.
FlagGoroutine(i) ==
    \/ i \in 1..2 /\ LET r == <<r1, r2>>[i] IN FlagScan(r) \/ FlagStoreSnapshot(r)
    \/ i = 3 /\ \E q \in FlagReqs : DeleteGlobalLocal(q) \/ \E err \in BOOLEAN : FlagWriteRedis(q, err)
OverrideGoroutine(i) ==
    \/ i \in 1..2 /\ LET r == <<r1, r2>>[i] IN WatchScan(r) \/ WatchSame(r) \/ WatchApply(r) \/ HookRead(r) \/ HookSet(r)
    \/ i = 3 /\ \E q \in OvReqs : \/ TuningLocal(q) \/ HookRead(q) \/ HookSet(q)
                                  \/ \E err \in BOOLEAN : TuningStore(q, err)
BanGoroutine(i) ==
    \/ i \in 1..2 /\ LET r == <<r1, r2>>[i] IN BlLoad(r) \/ BlReload(r)
    \/ i = 3 /\ \E q \in BlReqs, err \in BOOLEAN : BlBackendWrite(q, err)

Runs(i) ==
    \/ part = "bridge" /\ BridgeGoroutine(i) /\ InBridge
    \/ part = "relayer" /\ RelayerGoroutine(i) /\ InRelayer
    \/ part = "sessions" /\ SessionGoroutine(i) /\ InSessions
    \/ part = "drain" /\ DrainGoroutine(i) /\ DrainThenRelease /\ InDrain
    \/ part = "flags" /\ FlagGoroutine(i) /\ InFlags
    \/ part = "overrides" /\ OverrideGoroutine(i) /\ InOverrides
    \/ part = "bans" /\ BanGoroutine(i) /\ InBans

\* What is possible again and again happens: a select whose context case stays
\* ready takes it in the end and senders blocked on a channel are served in
\* turn (bridge); Redis answers, a retry succeeds (drain); the endpoint lock
\* is handed to everyone who waits (relayer); a node asked again and again
\* answers from its current height (sessions); a GET asked again and again is
\* answered, also the last one of a listing (flags, overrides).
BridgeRecurs(i) ==
    (i = 1 /\ RunExit) \/ (i = 2 /\ ClientSteps) \/ (i = 3 /\ ConnSteps(c1)) \/ (i = 4 /\ ConnSteps(c2))
DrainRecurs(i) ==
    \/ i \in 1..2 /\ DrainFetchAnswered(<<i1, f1>>[i])
    \/ i = 3 /\ RetryHSet(i1, k1, FALSE)
RelayerRecurs(i) == i \in 1..3 /\ WSRebinds(<<"loss", "admin", "watch">>[i])
SessionRecurs(i) == i \in 1..2 /\ FreshAnswer(<<q1, Bg>>[i])
FlagRecurs(i) ==
    \/ i \in 1..2 /\ \E k \in FlagKeys : FlagGet(<<r1, r2>>[i], k)
    \/ i \in 3..4 /\ \E k \in FlagKeys : flagPoll[<<r1, r2>>[i - 2]].todo = {k} /\ FlagGet(<<r1, r2>>[i - 2], k)
OverrideRecurs(i) == i \in 1..2 /\ \E k \in OvKeys : WatchGet(<<r1, r2>>[i], k)

Recurs(i) ==
    \/ part = "bridge" /\ BridgeRecurs(i) /\ InBridge
    \/ part = "relayer" /\ RelayerRecurs(i) /\ InRelayer
    \/ part = "sessions" /\ SessionRecurs(i) /\ InSessions
    \/ part = "drain" /\ DrainRecurs(i) /\ DrainThenRelease /\ InDrain
    \/ part = "flags" /\ FlagRecurs(i) /\ InFlags
    \/ part = "overrides" /\ OverrideRecurs(i) /\ InOverrides

MCSpec ==
    /\ MCInit /\ [][MCNext]_mcVars
    /\ \A i \in 1..6 : WF_mcVars(Runs(i))
    /\ \A i \in 1..4 : SF_mcVars(Recurs(i))

-----------------------------------------------------------------------------
Stranded ==
    \/ part = "bridge" /\ sock[bridgeCur] = "dead"
    \/ part = "relayer" /\ open = "up" /\ height > sessionEnd + WSGrace
MovedOn ==
    \/ part = "bridge" /\ (sock[bridgeCur] # "dead" \/ bridgeDone)
    \/ part = "relayer" /\ (height <= sessionEnd + WSGrace \/ wsDone)

\* bridge.go:675, ws_relayer.go:855: a stream is never left on what is gone.  A
\* dropped endpoint is replaced or the bridge ends, and a connection whose
\* session is past grace is moved to one that is not, or closed.
StreamsMoveOn == Stranded ~> MovedOn

UnderWay == (part = "bridge" /\ ctxDone) \/ (part = "sessions" /\ SessionBehind)
Over == (part = "bridge" /\ ClosedDown) \/ (part = "sessions" /\ cache >= latest)

\* bridge.go:281, sessions.go:317: what is under way comes to its end.  Once a
\* bridge's context is cancelled its shutdown finishes; and while relays come,
\* an ended session is replaced by the current one: no hold, marker or fetch in
\* flight keeps the key on the old session for good.
EndsReached == UnderWay ~> Over

\* drain/redis.go:382, featureflag/redis.go:313, override/store.go:196,
\* blocklist/store.go:96: once no operator changes anything, the drains, the
\* flags, the overrides and the bans of every instance end up at what the
\* shared store holds, whatever was read before it was written and whichever
\* command failed on the way.
ChangesReachFleet ==
    <>[](/\ part = "drain" => DrainsSettled
         /\ part = "flags" => FlagsSettled
         /\ part = "overrides" => OverridesSettled
         /\ part = "bans" => BansSettled)

\* blocklist/store.go:96, reload.go:60, drain/redis.go:311: the bans in force are
\* the file's and the stored ones together, a reload reports every change it
\* could not apply, and a release is not undone by a write that was on the wire.
SettingsHold ==
    /\ part = "flags" => FlagTypeOK
    /\ part = "overrides" => OvTypeOK
    /\ part = "config" => CfgTypeOK /\ NothingSilentlyDropped
    /\ part = "bans" => BlTypeOK /\ AppliedIsUnion
    /\ part = "drain" => ReleaseWins
=============================================================================
