------------------------------ MODULE Heights -------------------------------
(***************************************************************************)
(* The block heights of a service and what is made of them.  The perceived *)
(* head of its chain (qos/blockconsensus.go): heights reported by endpoints *)
(* over a window, one vote per party, a floor set by external block sources, *)
(* and the history of the head the block rate is derived from.  What a chain *)
(* plugin knows of its endpoints and how it chooses among them: the latest *)
(* height of each registration and host (qos/endpointstore.go), the history *)
(* each host has shown it keeps (qos/hostmemory.go, qos/evm/plugin.go), and *)
(* the tiers of selection over both (qos/selector.go).  Time is counted in *)
(* rate-sample gaps.                                                       *)
(***************************************************************************)
EXTENDS Integers, Sequences, SequencesExt, FiniteSets, FiniteSetsExt

CONSTANTS
    Endpoints,      \* registrations of the service
    PartyOf,        \* PartyOf[e]: who runs e
    SyncAllowance,  \* blocks an endpoint may be behind the head
    Window,         \* windowDuration
    MaxObs,         \* maxObservations
    MaxSamples,     \* maxRateSamples
    Grace,          \* gracePeriod
    StaleTime,      \* staleAnswerSeconds
    StaleBlocks,    \* staleAnswerMinBlocks
    MaxPlausible    \* MaxPlausibleBlockHeight

VARIABLES
    qClock,
    obs,            \* observations: height h of endpoint ep at time at, oldest first
    perceived,      \* the perceived head; 0 is unknown
    floor,          \* externalFloor; 0 is none
    graceStart,
    samples         \* rateSamples: head h, moved to at time at, in the sample opened at opened

bcVars == <<obs, perceived, floor, graceStart, samples>>

BcInit ==
    /\ qClock = 0 /\ obs = <<>> /\ perceived = 0 /\ floor = 0
    /\ graceStart = 0 /\ samples = <<>>

Plausible(h) == h > 0 /\ h <= MaxPlausible

Tolerance == 3 * SyncAllowance

-----------------------------------------------------------------------------
\* The element at place k, from 0, of the values of f in order.
AtPlace(f, k) ==
    LET below(h) == Cardinality({i \in DOMAIN f : f[i] < h})
        upto(h) == Cardinality({i \in DOMAIN f : f[i] <= h})
    IN  CHOOSE h \in {f[i] : i \in DOMAIN f} : below(h) <= k /\ k < upto(h)

\* One vote per party: the median of what its endpoints reported.
Votes(os) ==
    [p \in {PartyOf[os[i].ep] : i \in DOMAIN os} |->
        LET mine == {i \in DOMAIN os : PartyOf[os[i].ep] = p}
        IN  AtPlace([i \in mine |-> os[i].h], Cardinality(mine) \div 2)]

LowerMedian(v) == AtPlace(v, (Cardinality(DOMAIN v) - 1) \div 2)

\* Mutant: the highest vote, corroborated or not.
HighestAnchor(os) == LET v == Votes(os) IN Max({v[p] : p \in DOMAIN v})

\* partyAnchor: the highest vote another party's corroborates, or the lower median.
Anchor(os) ==
    LET v == Votes(os)
        backs(q, p) == q # p /\ v[q] <= v[p] /\ v[p] - v[q] <= Tolerance
        agreed == {v[p] : p \in {r \in DOMAIN v : \E q \in DOMAIN v : backs(q, r)}}
    IN  IF agreed # {} THEN Max(agreed) ELSE LowerMedian(v)

\* applyExternalFloor: past the grace period, at most an allowance below the floor.
Lifted(h, fl, since) ==
    IF fl = 0 \/ qClock < since + Grace THEN h
    ELSE Max({h, IF fl > SyncAllowance THEN fl - SyncAllowance ELSE fl})

\* computePerceived: the highest height that is no outlier.
Perceived(os, fl, since) ==
    IF os = <<>> THEN Lifted(0, fl, since)
    ELSE LET cap == Anchor(os) + Tolerance
         IN  Lifted(Max({0} \cup {os[i].h : i \in {j \in DOMAIN os : os[j].h <= cap}}), fl, since)

\* recordRateSampleLocked: moves within a sample's gap update it.
Sampled(h) ==
    LET n == Len(samples)
        last == samples[n]
        new == [h |-> h, at |-> qClock, opened |-> qClock]
    IN  CASE h = 0 \/ (n > 0 /\ last.h = h) -> samples
          [] h # 0 /\ n > 0 /\ last.h # h /\ qClock = last.opened -> [samples EXCEPT ![n].h = h, ![n].at = qClock]
          [] OTHER -> Append(IF n >= MaxSamples THEN Tail(samples) ELSE samples, new)

\* AddObservation, in one critical section.
Observed(ep, h) ==
    LET fresh == SelectSeq(obs, LAMBDA o : o.at >= qClock - Window)
        capped == IF Len(fresh) >= MaxObs THEN SubSeq(fresh, MaxObs \div 4 + 1, Len(fresh)) ELSE fresh
        os == Append(capped, [ep |-> ep, h |-> h, at |-> qClock])
        head == Perceived(os, floor, graceStart)
    IN  IF Plausible(h)
        THEN obs' = os /\ perceived' = head /\ samples' = Sampled(head)
        ELSE UNCHANGED <<obs, perceived, samples>>

AddObservation(ep, h) == Observed(ep, h) /\ UNCHANGED <<floor, graceStart>>

SetExternalFloor(h) ==
    /\ h = 0 \/ Plausible(h)
    /\ floor' = h /\ perceived' = Perceived(obs, h, graceStart)
    /\ UNCHANGED <<obs, graceStart, samples>>

ConsensusReset ==
    /\ obs' = <<>> /\ samples' = <<>> /\ graceStart' = qClock
    /\ perceived' = 0 /\ floor' = 0

-----------------------------------------------------------------------------
\* blockRate: blocks over time, as a pair; <<0, 1>> while unknown.
Rate ==
    LET n == Len(samples)
        dh == samples[n].h - samples[1].h
        dt == samples[n].at - samples[1].at
    IN  IF n >= 2 /\ dt > 0 /\ dh > 0 THEN <<dh, dt>> ELSE <<0, 1>>

BlocksIn(t) == (Rate[1] * t) \div Rate[2]

HeadAt == samples[Len(samples)].at

\* Project: a reading of time at as it would have read when the head was read.
Project(h, at) ==
    IF Rate[1] = 0 \/ h >= perceived THEN h
    ELSE LET age == HeadAt - at
         IN  IF age <= 0 \/ age > 2 * Window THEN h ELSE Min({h + BlocksIn(age), perceived})

\* Mutant: the least lag that counts is the same for every chain.
FixedTolerance == StaleBlocks
StaleTolerance == Max({StaleBlocks, BlocksIn(StaleTime)})

\* The head expected at a time.
Expected(at) ==
    LET age == at - HeadAt
    IN  CASE Rate[1] > 0 /\ age > 0 -> perceived + BlocksIn(Min({age, Window}))
          [] Rate[1] > 0 /\ age < 0 -> perceived - Min({BlocksIn(-age), perceived})
          [] OTHER -> perceived

\* AnswerLag: whether an answer naming head h, given at a time, counts as stale.
AnswerStale(h, at) ==
    /\ perceived # 0 /\ Rate[1] > 0
    /\ at - HeadAt <= Window /\ HeadAt - at <= Window
    /\ Expected(at) - h > StaleTolerance

\* BeyondHead: a block no node has made yet.
BeyondHead(h, at) ==
    /\ perceived # 0 /\ Rate[1] > 0 /\ at - HeadAt <= Window
    /\ h > perceived + BlocksIn(Max({at - HeadAt, 0})) + StaleTolerance

\* LastHeightObservation: when any of them last reported; -1 is never.
LastHeightObservation(eps) == Max({-1} \cup {obs[i].at : i \in {j \in DOMAIN obs : obs[j].ep \in eps}})

-----------------------------------------------------------------------------
BcTypeOK ==
    /\ qClock \in Nat /\ perceived \in Nat /\ floor \in Nat /\ graceStart \in 0..qClock
    /\ Len(obs) <= MaxObs
    /\ \A i \in DOMAIN obs : obs[i] \in [ep : Endpoints, h : 1..MaxPlausible, at : 0..qClock]
    /\ Len(samples) <= MaxSamples
    /\ \A i \in DOMAIN samples : samples[i] \in [h : 1..MaxPlausible, at : 0..qClock, opened : 0..qClock]

Reported(p) == {obs[i].h : i \in {j \in DOMAIN obs : PartyOf[obs[j].ep] = p}}

Apart(x, y) == IF x > y THEN x - y ELSE y - x

\* qos/blockconsensus.go:299, partyAnchor: parties that lag cannot pull the head
\* below a height two parties agree on, and one party alone cannot lift it far
\* above what the others reported, while two of those agree.  An answer naming
\* the head no later than the tolerated time after it moved is not stale.
HeadStands ==
    LET vote == Votes(obs)
        voting == DOMAIN vote
        agree(p, q) == p # q /\ Apart(vote[p], vote[q]) <= Tolerance
    IN  /\ \A p, q \in voting : agree(p, q) => perceived >= vote[p]
        /\ \A p \in voting :
               (\E q, r \in voting \ {p} : agree(q, r))
                   => perceived <= Max({floor} \cup {h + 2 * Tolerance : h \in UNION {Reported(q) : q \in voting \ {p}}})
        /\ \A t \in 0..StaleTime : samples # <<>> => ~AnswerStale(perceived, HeadAt + t)

-----------------------------------------------------------------------------
(* What a plugin knows of its endpoints.                                   *)

CONSTANTS
    HostOf,         \* HostOf[e]: the host e's URL names
    HostMaxAge,     \* hostHeightMaxAge
    HostsMax,       \* hostHeightsMax
    MaxDelta,       \* maxBlockHeightDelta
    NearHead,       \* nearHeadBlocks
    MarkTTL,        \* archivalTTL
    MarkHosts,      \* maxArchivalHosts
    Blocks          \* blocks requests name

Hosts == {HostOf[e] : e \in Endpoints}
Kinds == {"state", "logs"}

VARIABLES
    store,          \* store[e]: the last height e reported and when; h = 0 is none
    hostStore,      \* hostStore[x]: the same of host x
    adding,         \* heights stored, their consensus observation still to come
    resetting,      \* ResetState has reset the consensus, not yet the rest
    marks,          \* marks[k][x]: host x's archivalMark of kind k
    refusedLast     \* history: refusedLast[k][x][d], when x last refused depth d; -1 is never

htVars == <<store, hostStore, adding, resetting, marks, refusedLast>>

NoReading == [h |-> 0, at |-> 0]
NoMark == [live |-> FALSE, served |-> 0, refused |-> 0, refusedAt |-> -1, expiry |-> 0]

HtInit ==
    /\ store = [e \in Endpoints |-> NoReading]
    /\ hostStore = [x \in Hosts |-> NoReading]
    /\ adding = {} /\ resetting = FALSE
    /\ marks = [k \in Kinds |-> [x \in Hosts |-> NoMark]]
    /\ refusedLast = [k \in Kinds |-> [x \in Hosts |-> [d \in 1..MaxPlausible |-> -1]]]

-----------------------------------------------------------------------------
Room(f, n) == Cardinality({x \in Hosts : f[x] # NoReading}) < n

\* ObserveHeight, with the plugin's reportedHeight: a node at genesis reports 1.
ObserveHeight(e, h) ==
    LET reading == [h |-> Max({h, 1}), at |-> qClock]
        kept == IF Room(hostStore, HostsMax) THEN hostStore ELSE [x \in Hosts |-> NoReading]
    IN  /\ store' = [store EXCEPT ![e] = reading]
        /\ hostStore' = [kept EXCEPT ![HostOf[e]] = reading]

\* UpdateBlockHeight and ExtractData: store, then observe.
UpdateBlockHeight(e, h) ==
    /\ ObserveHeight(e, h)
    /\ adding' = adding \cup {[ep |-> e, h |-> Max({h, 1})]}
    /\ UNCHANGED <<resetting, marks, refusedLast, bcVars>>

ObservationAdded(a) ==
    /\ AddObservation(a.ep, a.h)
    /\ adding' = adding \ {a}
    /\ UNCHANGED <<store, hostStore, resetting, marks, refusedLast>>

\* RecordHead: a head named by an answer is the endpoint's height, and no observation.
RecordHead(e, h) == ObserveHeight(e, h) /\ UNCHANGED <<adding, resetting, marks, refusedLast, bcVars>>

\* ResetState: the consensus first, then the stores.
ResetState ==
    /\ ~resetting /\ resetting' = TRUE
    /\ ConsensusReset
    /\ UNCHANGED <<store, hostStore, adding, marks, refusedLast>>

ResetStores ==
    /\ resetting /\ resetting' = FALSE
    /\ store' = [e \in Endpoints |-> NoReading] /\ hostStore' = [x \in Hosts |-> NoReading]
    /\ marks' = [k \in Kinds |-> [x \in Hosts |-> NoMark]]
    /\ refusedLast' = [k \in Kinds |-> [x \in Hosts |-> [d \in 1..MaxPlausible |-> -1]]]
    /\ UNCHANGED <<adding, bcVars>>

-----------------------------------------------------------------------------
\* archivalDepth, logDepth: how deep block b is; 0 for recent state.
Depth(b) == IF perceived = 0 \/ b + NearHead >= perceived THEN 0 ELSE perceived - b

\* HostMemory.Get, archivalMark.refusing and admits.
Live(m) == m.live /\ qClock < m.expiry
Refusing(m) == m.refusedAt >= 0 /\ qClock - m.refusedAt < MarkTTL
Admits(m, d) == ~Live(m) \/ ~Refusing(m) \/ d < m.refused

Old(m) == IF Live(m) THEN m ELSE NoMark

WithServed(m, d) == [m EXCEPT !.served = Max({m.served, d})]

\* Mutant: the last refusal stands, not the shallowest.
WithRefusedLast(m, d) == [m EXCEPT !.refused = d, !.refusedAt = qClock]
WithRefused(m, d) ==
    [m EXCEPT !.refused = IF ~Refusing(m) \/ d < m.refused THEN d ELSE m.refused, !.refusedAt = qClock]

\* HostMemory.Update.
Remembered(ms, x, m) ==
    LET kept == IF ms[x].live \/ Cardinality({y \in Hosts : ms[y].live}) < MarkHosts
                THEN ms ELSE [y \in Hosts |-> NoMark]
    IN  [kept EXCEPT ![x] = [m EXCEPT !.live = TRUE, !.expiry = qClock + MarkTTL]]

\* RecordArchival: an answer to a request of kind k naming block b marks e's host.
RecordArchival(k, e, b, served) ==
    LET x == HostOf[e]
        d == Depth(b)
        old == Old(marks[k][x])
    IN  /\ d > 0
        /\ marks' = [marks EXCEPT ![k] = Remembered(@, x, IF served THEN WithServed(old, d) ELSE WithRefused(old, d))]
        /\ refusedLast' = IF served THEN refusedLast ELSE [refusedLast EXCEPT ![k][x][d] = qClock]
        /\ UNCHANGED <<store, hostStore, adding, resetting, bcVars>>

-----------------------------------------------------------------------------
\* Mutant: a registration with no reading of its own is unknown.
HeightOwn(e) == IF store[e].h = 0 THEN 0 ELSE IF Plausible(store[e].h) THEN Project(store[e].h, store[e].at) ELSE 1

\* HeightGetter: e's height, its host's when e has none; 0 is unknown.
HeightOf(e) ==
    LET own == store[e]
        host == hostStore[HostOf[e]]
        r == CASE own.h # 0 -> own
               [] own.h = 0 /\ qClock - host.at <= HostMaxAge -> host
               [] OTHER -> NoReading
        absurd == ~Plausible(r.h) \/ (perceived > 0 /\ r.h > perceived + MaxDelta)
    IN  IF r.h = 0 THEN 0 ELSE IF absurd THEN 1 ELSE Project(r.h, r.at)

Known(e) == HeightOf(e) # 0

MinAllowedHeight(allowance) ==
    IF perceived = 0 \/ allowance = 0 \/ perceived <= allowance THEN 0 ELSE perceived - allowance

\* BlockHeightFilter: unknown passes.
HighEnough(e, allowance) == ~Known(e) \/ HeightOf(e) >= MinAllowedHeight(allowance)

Lag(e) == IF perceived > HeightOf(e) THEN perceived - HeightOf(e) ELSE 0

\* LeastStaleFallback and rankFallback.
LeastStale(es) ==
    LET known == {e \in es : Known(e)}
    IN  IF perceived = 0 \/ Cardinality(es) <= 1 \/ known = {} THEN es
        ELSE {e \in known : \A o \in known : Lag(e) <= Lag(o)}

KeepUnknown(es) == LeastStale(es) \cup {e \in es : ~Known(e)}

\* A filter of a kind applies while two parties pass it: decideArchival.
Decided(es) == Cardinality({PartyOf[e] : e \in es}) >= 2

\* The endpoints the retention filters leave for depths ds of state and dl of logs.
Retaining(es, ds, dl, routing) ==
    LET kept(k, d, among) == {e \in among : d = 0 \/ Admits(marks[k][HostOf[e]], d)}
        state == IF routing /\ ds > 0 /\ Decided(kept("state", ds, es)) THEN kept("state", ds, es) ELSE es
        both == kept("logs", dl, state)
    IN  IF routing /\ dl > 0 /\ Decided(both) THEN both ELSE state

\* The tiers: the height bound, twice the bound, then no bound.  fit is what the
\* other filters leave.  A set of unknown heights alone does not pass a bound
\* while some height is known.
SelectWithKnownHeights(es, fit) ==
    LET within(a) == {e \in fit : HighEnough(e, a)}
        informed(s) == s # {} /\ ((\E e \in es : Known(e)) => \E e \in s : Known(e))
    IN  CASE informed(within(SyncAllowance)) -> within(SyncAllowance)
          [] ~informed(within(SyncAllowance)) /\ informed(within(2 * SyncAllowance)) -> within(2 * SyncAllowance)
          [] OTHER -> IF fit # {} THEN KeepUnknown(fit) ELSE KeepUnknown(es)

\* What the retention filters leave, by height.
SelectEndpoints(es, ds, dl, routing) == SelectWithKnownHeights(es, Retaining(es, ds, dl, routing))

\* RetainingEndpoints: the hosts that served the depth, else those not refusing it.
RetainingEndpoints(es, ds, dl) ==
    LET served(k, d, e) == LET m == marks[k][HostOf[e]] IN d = 0 \/ (Live(m) /\ m.served >= d /\ Admits(m, d))
        open(k, d, e) == d = 0 \/ Admits(marks[k][HostOf[e]], d)
        proven == {e \in es : served("state", ds, e) /\ served("logs", dl, e)}
    IN  IF proven # {} THEN proven ELSE {e \in es : open("state", ds, e) /\ open("logs", dl, e)}

\* AllStale: every endpoint is known to be below the relaxed bound.
AllStale(es) ==
    /\ es # {} /\ MinAllowedHeight(2 * SyncAllowance) > 0
    /\ \A e \in es : Known(e) /\ HeightOf(e) < MinAllowedHeight(2 * SyncAllowance)

-----------------------------------------------------------------------------
HtTypeOK ==
    /\ \A r \in {store[e] : e \in Endpoints} \cup {hostStore[x] : x \in Hosts} : r.h \in Nat /\ r.at \in 0..qClock
    /\ \A a \in adding : a.ep \in Endpoints /\ a.h \in Nat \ {0}
    /\ resetting \in BOOLEAN
    /\ \A k \in Kinds, x \in Hosts :
           marks[k][x].refusedAt \in -1..qClock /\ marks[k][x].expiry <= qClock + MarkTTL

Depths == {0} \cup {Depth(b) : b \in Blocks}

\* qos/selector.go, SelectWithKnownHeights, and qos/evm/plugin.go:226: a request always
\* has somewhere to go; endpoints known to be near the head are never passed over for
\* ones known to be behind, nor, when anything is known, for strangers alone, and a
\* registration is not a stranger while its host's reading is fresh.
ChoosesWell(es, ds, dl, routing) ==
    LET chosen == SelectEndpoints(es, ds, dl, routing)
        fit == Retaining(es, ds, dl, routing)
        near(e) == Known(e) /\ HeightOf(e) + 2 * SyncAllowance >= perceived
        read(e) == \E o \in Endpoints :
                       HostOf[o] = HostOf[e] /\ store[o].h # 0 /\ qClock - store[o].at <= HostMaxAge
    IN  /\ chosen # {} /\ chosen \subseteq es
        /\ (\E e \in fit : near(e)) => /\ \E e \in chosen : near(e)
                                       /\ SyncAllowance > 0 => \A e \in chosen : Known(e) => near(e)
        /\ (\E e \in fit : Known(e)) => \E e \in chosen : Known(e)
        /\ HostsMax > Cardinality(Hosts) => \A e \in es : read(e) => Known(e)

\* qos/evm/plugin.go:50, archivalMark: a refusal younger than the TTL keeps requests as
\* deep or deeper from the host while two parties remain, and a host that has refused
\* nothing for the TTL is tried again.
MarksRegular ==
    \A k \in Kinds, x \in Hosts, d \in Depths \ {0} :
        LET recent(r) == refusedLast[k][x][r] >= 0 /\ qClock - refusedLast[k][x][r] < MarkTTL
        IN  /\ (\E r \in 1..d : recent(r)) => ~Admits(marks[k][x], d)
            /\ (\A r \in 1..MaxPlausible : ~recent(r)) => Admits(marks[k][x], d)
            /\ ~Admits(marks[k][x], d) =>
                   LET chosen == IF k = "state" THEN SelectEndpoints(Endpoints, d, 0, TRUE)
                                                ELSE SelectEndpoints(Endpoints, 0, d, TRUE)
                       open == {e \in Endpoints : Admits(marks[k][HostOf[e]], d)}
                   IN  Decided(open) => \A e \in chosen : HostOf[e] # x
=============================================================================
