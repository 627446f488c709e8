------------------------------- MODULE Executor -------------------------------
(***************************************************************************)
(* Which health checks a pod sends, healthcheck/executor.go runOnce: the   *)
(* leader's checks of every backend, each at its own interval, except what *)
(* another instance's results (peer.go) or client traffic (trafficskip.go) *)
(* already cover.  One service; time is counted in ticks, and a cycle runs *)
(* on every tick.                                                          *)
(***************************************************************************)
EXTENDS Integers, Sequences, FiniteSets, FiniteSetsExt, SequencesExt

CONSTANTS
    Backends,       \* backend URLs of the service's endpoints
    CheckOrder,     \* the service's checks, in the order they are considered
    Essential,      \* the checks whose answer is a height
    CheckInterval,  \* CheckInterval[c]: c's own interval
    ServiceInterval,\* serviceInterval
    PeerMaxAge,     \* peerMaxAge; 0 is the check's own interval
    MinSignals,     \* minSignals
    MaxBaselineAge, \* maxBaselineAge
    MaxTraffic      \* bound on counted client signals

VARIABLES
    prClock, leading, probing,
    warmed,         \* the warm gate is open
    pool,           \* backends in the session
    lastRun,        \* lastRun[k]: when check k last came due; -1 is never
    baseline,       \* baseline[b]: signals counted for b and when; at = -1 is none
    signals,        \* signals[b]: client signals counted for b; 0 is none known
    peerSeen,       \* peerSeen[k]: when another instance ran k; -1 is never
    heightAt,       \* heightAt[b]: when a height of b was last observed; -1 is never
    flying,         \* checks sent, not answered
    asked,          \* history: asked[k], when k was last sent
    readAt,         \* history: readAt[b], when the last height observed of b was read
    schedSince      \* history: since when this pod has had to probe b

prVars == <<prClock, leading, probing, warmed, pool, lastRun, baseline, signals,
            peerSeen, heightAt, flying, asked, readAt, schedSince>>

Checks == {CheckOrder[i] : i \in DOMAIN CheckOrder}
Keys == Backends \X Checks
NoBaseline == [n |-> 0, at |-> -1]

PrInit ==
    /\ prClock = 0 /\ leading = TRUE /\ probing = TRUE /\ warmed = FALSE
    /\ pool = Backends
    /\ lastRun = [k \in Keys |-> -1] /\ peerSeen = [k \in Keys |-> -1]
    /\ baseline = [b \in Backends |-> NoBaseline] /\ signals = [b \in Backends |-> 0]
    /\ heightAt = [b \in Backends |-> -1] /\ readAt = [b \in Backends |-> -1]
    /\ flying = {} /\ asked = [k \in Keys |-> -1] /\ schedSince = [b \in Backends |-> 0]

Interval(c) == Max({CheckInterval[c], ServiceInterval})
PeerAge(c) == IF PeerMaxAge > 0 THEN PeerMaxAge ELSE Interval(c)

-----------------------------------------------------------------------------
\* due: with half a tick of tolerance.
Due(k, now) == lastRun[k] = -1 \/ 2 * (now - lastRun[k]) >= 2 * Interval(k[2]) - 1

CoveredByPeer(k, now) == peerSeen[k] # -1 /\ now - peerSeen[k] < PeerAge(k[2])

\* Mutant: any height ever observed is fresh.
HeightEverKnown(b, c, now) == heightAt[b] # -1
HeightIsFresh(b, c, now) == heightAt[b] # -1 /\ now - heightAt[b] < Interval(c)

\* skipCoveredByTraffic, up to the reading it takes.
Considered(k, now) ==
    /\ Due(k, now) /\ ~CoveredByPeer(k, now) /\ warmed
    /\ k[2] \in Essential => HeightIsFresh(k[1], k[2], now)
    /\ signals[k[1]] > 0

WindowOpen(k, now) == baseline[k[1]].at # -1 /\ now - baseline[k[1]].at < Interval(k[2])

\* skip: enough signals over a window as long as the interval.
CoveredByTraffic(k, now) ==
    LET before == baseline[k[1]]
    IN  /\ Considered(k, now) /\ before.at # -1 /\ ~WindowOpen(k, now)
        /\ signals[k[1]] >= before.n + MinSignals

\* The baseline the last check considered leaves; a reading not visited is carried.
NextBaseline(b, now) ==
    LET seen == {i \in DOMAIN CheckOrder : Considered(<<b, CheckOrder[i]>>, now)}
        old == baseline[b]
    IN  CASE b \in pool /\ seen # {} ->
                IF WindowOpen(<<b, CheckOrder[Max(seen)]>>, now) THEN old ELSE [n |-> signals[b], at |-> now]
          [] OTHER -> IF old.at # -1 /\ old.at >= now - MaxBaselineAge THEN old ELSE NoBaseline

\* A tick and the cycle it starts.
RunOnce ==
    LET now == prClock + 1
        mine == {k \in Keys : k[1] \in pool}
        sent == {k \in mine : Due(k, now) /\ ~CoveredByPeer(k, now) /\ ~CoveredByTraffic(k, now)}
    IN  /\ prClock' = now
        /\ IF leading /\ probing
           THEN /\ lastRun' = [k \in Keys |-> IF k \in mine THEN IF Due(k, now) THEN now ELSE lastRun[k] ELSE -1]
                /\ flying' = flying \cup sent
                /\ asked' = [k \in Keys |-> IF k \in sent THEN now ELSE asked[k]]
                /\ baseline' = [b \in Backends |-> NextBaseline(b, now)]
                /\ peerSeen' = [k \in Keys |-> IF peerSeen[k] < now - MaxBaselineAge THEN -1 ELSE peerSeen[k]]
           ELSE UNCHANGED <<lastRun, flying, asked, baseline, peerSeen>>
        /\ UNCHANGED <<leading, probing, warmed, pool, signals, heightAt, readAt, schedSince>>

\* applyResult on the heights of a backend's registrations, stamped on arrival.
Landed(b, c, read) ==
    IF c \in Essential
    THEN heightAt' = [heightAt EXCEPT ![b] = prClock] /\ readAt' = [readAt EXCEPT ![b] = read]
    ELSE UNCHANGED <<heightAt, readAt>>

ProbeAnswered(k, ok) ==
    /\ k \in flying /\ flying' = flying \ {k}
    /\ IF ok THEN Landed(k[1], k[2], asked[k]) ELSE UNCHANGED <<heightAt, readAt>>
    /\ UNCHANGED <<prClock, leading, probing, warmed, pool, lastRun, baseline, signals, peerSeen, asked, schedSince>>

\* applyPeerResult: a result of another instance, probed at a time.
ApplyPeerResult(k, at) ==
    /\ k[1] \in pool
    /\ IF prClock - at <= PeerAge(k[2]) THEN Landed(k[1], k[2], at) ELSE UNCHANGED <<heightAt, readAt>>
    /\ peerSeen' = [peerSeen EXCEPT ![k] = Max({@, at})]
    /\ UNCHANGED <<prClock, leading, probing, warmed, pool, lastRun, baseline, signals, flying, asked, schedSince>>

\* A client's relay through b: signals, and maybe a height.
ClientTraffic(b, n, height) ==
    /\ signals[b] + n <= MaxTraffic
    /\ signals' = [signals EXCEPT ![b] = @ + n]
    /\ heightAt' = IF height THEN [heightAt EXCEPT ![b] = prClock] ELSE heightAt
    /\ readAt' = IF height THEN [readAt EXCEPT ![b] = prClock] ELSE readAt
    /\ UNCHANGED <<prClock, leading, probing, warmed, pool, lastRun, baseline, peerSeen, flying, asked, schedSince>>

\* The reputation key is evicted: its count starts again.
SignalsEvicted(b) ==
    /\ signals[b] > 0 /\ signals' = [signals EXCEPT ![b] = 0]
    /\ UNCHANGED <<prClock, leading, probing, warmed, pool, lastRun, baseline, peerSeen, heightAt, flying, asked, readAt, schedSince>>

\* The warm gate opens, for good.
Warmed ==
    /\ ~warmed /\ warmed' = TRUE
    /\ UNCHANGED <<prClock, leading, probing, pool, lastRun, baseline, signals, peerSeen, heightAt, flying, asked, readAt, schedSince>>

Restarted == schedSince' = [b \in Backends |-> prClock]

Election ==
    /\ leading' = ~leading /\ Restarted
    /\ UNCHANGED <<prClock, probing, warmed, pool, lastRun, baseline, signals, peerSeen, heightAt, flying, asked, readAt>>

ProbingFlag ==
    /\ probing' = ~probing /\ Restarted
    /\ UNCHANGED <<prClock, leading, warmed, pool, lastRun, baseline, signals, peerSeen, heightAt, flying, asked, readAt>>

Rollover(bs) ==
    /\ bs # pool /\ pool' = bs /\ Restarted
    /\ UNCHANGED <<prClock, leading, probing, warmed, lastRun, baseline, signals, peerSeen, heightAt, flying, asked, readAt>>

-----------------------------------------------------------------------------
PrTypeOK ==
    /\ prClock \in Nat /\ {leading, probing, warmed} \subseteq BOOLEAN /\ pool \subseteq Backends
    /\ \A k \in Keys : {lastRun[k], peerSeen[k], asked[k]} \subseteq -1..prClock
    /\ \A b \in Backends : {heightAt[b], readAt[b], baseline[b].at} \subseteq -1..prClock /\ signals[b] \in 0..MaxTraffic
    /\ flying \subseteq Keys

\* healthcheck/executor.go:651, skipCoveredByTraffic, and peer.go:142: whatever stands in
\* for a height probe, the pod that has to probe a backend is never left without having
\* asked for a height, or having one that was read, within two intervals and the age a
\* peer's result may have.
HeightsStayFresh ==
    leading /\ probing =>
        \A b \in pool, c \in Essential :
            prClock - Max({schedSince[b], asked[<<b, c>>], readAt[b], peerSeen[<<b, c>>]}) < 2 * Interval(c) + PeerAge(c)

-----------------------------------------------------------------------------
(***************************************************************************)
(* The warm gate of healthcheck/executor.go, which holds a pod's readiness *)
(* until results of three quarters of the services that can be probed have *)
(* been applied, or a deadline has passed.                                 *)
(***************************************************************************)

CONSTANTS
    WServices,      \* configured services
    Declared,       \* those with a check of some kind
    Foreign,        \* services only other pods serve
    WarmDeadline

VARIABLES
    staked,         \* services with an endpoint to probe now
    covered,        \* coveredServices
    threshold,      \* warmThreshold; -1 until it is set
    toCount,        \* services a pass has yet to look at; <<>> is no pass
    coverable,      \* services the pass has counted
    warm,
    waited,         \* time since warmStartedAt; -1 before it
    steady          \* history: the services that could be probed all along

wgVars == <<staked, covered, threshold, toCount, coverable, warm, waited, steady>>

WgInit ==
    /\ staked \in SUBSET WServices /\ covered = {}
    /\ threshold = -1 /\ toCount = <<>> /\ coverable = 0 /\ warm = FALSE /\ waited = -1
    /\ steady = Declared \cap staked

\* Mutant: three quarters, rounded down.
ThresholdDown(n) == (n * 3) \div 4
WarmThresholdFor(n) == (n * 3 + 3) \div 4

\* ensureWarmThresholdLocked.
Ensured == IF threshold = -1 THEN WarmThresholdFor(Cardinality(Declared)) ELSE threshold
Enough(t, c) == t = 0 \/ Cardinality(c) >= t

\* Mutant: coverage alone opens the gate.
AskWarmUntimed ==
    /\ ~warm /\ threshold' = Ensured /\ warm' = Enough(Ensured, covered)
    /\ UNCHANGED <<staked, covered, toCount, coverable, waited, steady>>

\* Warm, as the readiness handler asks it.
AskWarm ==
    /\ ~warm
    /\ threshold' = Ensured
    /\ IF Enough(Ensured, covered) THEN warm' = TRUE /\ UNCHANGED waited
       ELSE /\ waited' = IF waited = -1 THEN 0 ELSE waited
            /\ warm' = (waited' >= WarmDeadline)
    /\ UNCHANGED <<staked, covered, toCount, coverable, steady>>

\* markCovered: a result applied, or scores loaded at the start.
MarkCovered(s) ==
    /\ ~warm /\ s \in WServices
    /\ covered' = covered \cup {s} /\ threshold' = Ensured
    /\ warm' = Enough(Ensured, covered')
    /\ UNCHANGED <<staked, toCount, coverable, waited, steady>>

\* refreshWarmDenominator: a pass over the services, one after the other; a
\* lookup that fails counts its service.
BeginCount ==
    /\ ~warm /\ toCount = <<>>
    /\ toCount' = <<Declared>> /\ coverable' = 0
    /\ UNCHANGED <<staked, covered, threshold, warm, waited, steady>>

CountService(s, err) ==
    /\ toCount # <<>> /\ s \in toCount[1]
    /\ toCount' = <<toCount[1] \ {s}>>
    /\ coverable' = IF err \/ s \in staked THEN coverable + 1 ELSE coverable
    /\ UNCHANGED <<staked, covered, threshold, warm, waited, steady>>

StoreThreshold ==
    /\ toCount = <<{}>> /\ toCount' = <<>> /\ coverable' = 0
    /\ threshold' = WarmThresholdFor(coverable)
    /\ warm' = (warm \/ Enough(threshold', covered))
    /\ UNCHANGED <<staked, covered, waited, steady>>

\* Suppliers stake for a service, or none is left.
Restake(ss) ==
    /\ ~warm /\ ss # staked /\ staked' = ss
    /\ steady' = steady \cap ss
    /\ UNCHANGED <<covered, threshold, toCount, coverable, warm, waited>>

WarmTick ==
    /\ ~warm /\ 0 <= waited /\ waited < WarmDeadline /\ waited' = waited + 1
    /\ UNCHANGED <<staked, covered, threshold, toCount, coverable, warm, steady>>

WgNext ==
    \/ AskWarm \/ BeginCount \/ StoreThreshold \/ WarmTick
    \/ \E s \in Declared, err \in BOOLEAN : CountService(s, err)
    \/ \E s \in WServices \cup Foreign : MarkCovered(s)
    \/ \E s \in WServices : Restake(staked \cup {s}) \/ Restake(staked \ {s})

-----------------------------------------------------------------------------
WgTypeOK ==
    /\ staked \subseteq WServices /\ covered \subseteq WServices
    /\ threshold \in -1..Cardinality(WServices) /\ coverable \in 0..Cardinality(Declared)
    /\ toCount = <<>> \/ toCount[1] \subseteq Declared
    /\ warm \in BOOLEAN /\ waited \in -1..WarmDeadline

\* healthcheck/executor.go:1026, Warm: before the deadline a pod is put into rotation only
\* with results of three quarters as many services as could be probed all along, however
\* the pass that counts them, the results, the suppliers and the readiness checks interleave.
WarmEarned == warm => 4 * Cardinality(covered) >= 3 * Cardinality(steady) \/ waited >= WarmDeadline

-----------------------------------------------------------------------------
(***************************************************************************)
(* The feed of probe results, healthcheck/stream.go, as the feed loop of   *)
(* healthcheck/executor.go runs it: a publisher appends to a Redis stream; *)
(* a reader replays a window of it, then reads on, and is restarted where  *)
(* it stopped.  A stream id is a place in the log.                         *)
(***************************************************************************)

CONSTANTS
    Readers,        \* pods that follow the feed
    Publishers,     \* pods that may lead, and publish
    Replay,         \* the replay window
    MaxEntries,     \* bound on entries published
    FeedMaxTime,    \* bound on the clock
    MaxRestarts     \* bound on restarts of a reading loop or its process

VARIABLES
    fClock,
    log,            \* the stream: who published each entry and when
    phase,          \* phase[p]: stopped, replaying or reading
    msgs,           \* msgs[p]: entries read, not yet applied
    cursor,         \* cursor[p]: XREAD returns what is after it; -1 is "$"
    from,           \* from[p]: where the XREAD in progress started
    resume,         \* resume[p]: the last entry applied; 0 is none
    applied,        \* applied[p]: entries applied by this process, in order
    bornAt,         \* bornAt[p]: entries in the log when p's reading first reached its end; -1 is never
    restarts

fdVars == <<fClock, log, phase, msgs, cursor, from, resume, applied, bornAt, restarts>>

FdInit ==
    /\ fClock = 0 /\ log = <<>>
    /\ phase = [p \in Readers |-> "stopped"] /\ msgs = [p \in Readers |-> <<>>]
    /\ cursor = [p \in Readers |-> -1] /\ from = [p \in Readers |-> 0]
    /\ resume = [p \in Readers |-> 0] /\ applied = [p \in Readers |-> <<>>]
    /\ bornAt = [p \in Readers |-> -1] /\ restarts = 0

\* The leader's XADD; whoever leads publishes.
Publish(p) ==
    /\ Len(log) < MaxEntries
    /\ log' = Append(log, [by |-> p, at |-> fClock])
    /\ UNCHANGED <<fClock, phase, msgs, cursor, from, resume, applied, bornAt, restarts>>

InWindow(i) == log[i].at >= fClock - Replay
After(i) == SetToSortSeq((i + 1)..Len(log), <)

\* Mutant: a restarted reader replays the whole window.
ReplayWindow(p) == SelectSeq(After(0), LAMBDA i : InWindow(i))
\* What a run replays: the window, or what is after the last entry applied.
ReplayFrom(p) ==
    LET windowed == SelectSeq(After(0), LAMBDA i : InWindow(i))
    IN  IF resume[p] # 0 /\ InWindow(resume[p]) THEN After(resume[p]) ELSE windowed

\* Run: XRANGE, then where XREAD goes on from.
RunStarts(p) ==
    /\ phase[p] = "stopped"
    /\ phase' = [phase EXCEPT ![p] = "reading"]
    /\ msgs' = [msgs EXCEPT ![p] = ReplayFrom(p)]
    /\ cursor' = [cursor EXCEPT ![p] = CASE ReplayFrom(p) # <<>> -> Last(ReplayFrom(p))
                                         [] ReplayFrom(p) = <<>> /\ resume[p] # 0 -> resume[p]
                                         [] OTHER -> -1]
    /\ from' = [from EXCEPT ![p] = Len(log)]
    /\ bornAt' = [bornAt EXCEPT ![p] = IF @ = -1 THEN Len(log) ELSE @]
    /\ UNCHANGED <<fClock, log, resume, applied, restarts>>

\* An XREAD is issued: "$" is the end of the log at that moment.
XReadIssued(p) ==
    /\ phase[p] = "reading" /\ msgs[p] = <<>>
    /\ phase' = [phase EXCEPT ![p] = "blocked"]
    /\ from' = [from EXCEPT ![p] = IF cursor[p] = -1 THEN Len(log) ELSE cursor[p]]
    /\ UNCHANGED <<fClock, log, msgs, cursor, resume, applied, bornAt, restarts>>

XReadReturns(p) ==
    /\ phase[p] = "blocked" /\ Len(log) > from[p]
    /\ phase' = [phase EXCEPT ![p] = "reading"]
    /\ msgs' = [msgs EXCEPT ![p] = After(from[p])]
    /\ cursor' = [cursor EXCEPT ![p] = Len(log)]
    /\ UNCHANGED <<fClock, log, from, resume, applied, bornAt, restarts>>

\* redis.Nil: the block timed out with nothing new.
XReadTimesOut(p) ==
    /\ phase[p] = "blocked" /\ Len(log) = from[p]
    /\ phase' = [phase EXCEPT ![p] = "reading"]
    /\ UNCHANGED <<fClock, log, msgs, cursor, from, resume, applied, bornAt, restarts>>

\* The resume point moves, then the entry is applied, unless this pod wrote it.
\* An apply that panics ends the run.
ApplyMessage(p, panics) ==
    LET i == Head(msgs[p])
    IN  /\ phase[p] = "reading" /\ msgs[p] # <<>>
        /\ panics => log[i].by # p /\ restarts < MaxRestarts
        /\ resume' = [resume EXCEPT ![p] = i]
        /\ applied' = IF log[i].by = p THEN applied ELSE [applied EXCEPT ![p] = Append(@, i)]
        /\ phase' = IF panics THEN [phase EXCEPT ![p] = "stopped"] ELSE phase
        /\ msgs' = [msgs EXCEPT ![p] = IF panics THEN <<>> ELSE Tail(@)]
        /\ restarts' = IF panics THEN restarts + 1 ELSE restarts
        /\ UNCHANGED <<fClock, log, cursor, from, bornAt>>

\* An error ends the run; the loop starts another.
XReadFails(p) ==
    /\ phase[p] = "blocked" /\ restarts < MaxRestarts
    /\ phase' = [phase EXCEPT ![p] = "stopped"] /\ restarts' = restarts + 1
    /\ UNCHANGED <<fClock, log, msgs, cursor, from, resume, applied, bornAt>>

PodRestarts(p) ==
    /\ restarts < MaxRestarts /\ restarts' = restarts + 1
    /\ phase' = [phase EXCEPT ![p] = "stopped"] /\ msgs' = [msgs EXCEPT ![p] = <<>>]
    /\ cursor' = [cursor EXCEPT ![p] = -1] /\ from' = [from EXCEPT ![p] = 0]
    /\ resume' = [resume EXCEPT ![p] = 0] /\ applied' = [applied EXCEPT ![p] = <<>>]
    /\ bornAt' = [bornAt EXCEPT ![p] = -1]
    /\ UNCHANGED <<fClock, log>>

FeedTick == fClock < FeedMaxTime /\ fClock' = fClock + 1 /\ UNCHANGED <<log, phase, msgs, cursor, from, resume, applied, bornAt, restarts>>

FdNext ==
    \/ \E p \in Publishers : Publish(p)
    \/ \E p \in Readers : \/ RunStarts(p) \/ XReadIssued(p) \/ XReadReturns(p)
                          \/ XReadTimesOut(p) \/ XReadFails(p) \/ PodRestarts(p)
                          \/ \E panics \in BOOLEAN : ApplyMessage(p, panics)
    \/ FeedTick

-----------------------------------------------------------------------------
FdTypeOK ==
    /\ \A p \in Readers : /\ phase[p] \in {"stopped", "reading", "blocked"}
                          /\ cursor[p] \in -1..Len(log) /\ resume[p] \in 0..Len(log) /\ from[p] \in 0..Len(log)
                          /\ \A i \in DOMAIN applied[p] : applied[p][i] \in DOMAIN log
    /\ \A i \in DOMAIN log : log[i] \in [by : Publishers, at : 0..fClock]

\* healthcheck/stream.go:97, Run: however often a feed is restarted, one process applies
\* a result once, in the order they were published, and never one of its own.
AppliedOnce ==
    \A p \in Readers :
        /\ \A i, j \in DOMAIN applied[p] : i < j => applied[p][i] < applied[p][j]
        /\ \A i \in DOMAIN applied[p] : log[applied[p][i]].by # p

\* healthcheck/probe.go:11, ProbeResult: a probe "is sent once and its knowledge lands on
\* every replica": what was published since a replica began to read, and is within the
\* window, is not passed over by a later result.
EntryLands ==
    \A p \in Readers : \A i \in DOMAIN log :
        (bornAt[p] >= 0 /\ bornAt[p] < i /\ i < resume[p] /\ InWindow(i) /\ log[i].by # p)
            => \E j \in DOMAIN applied[p] : applied[p][j] = i
=============================================================================
