---------------------------- MODULE CircuitBreaker ----------------------------
(***************************************************************************)
(* The domain-level circuit breaker of circuitbreaker/breaker.go and the   *)
(* relay middleware that feeds it (relay/middleware/circuitbreak.go), for  *)
(* one service, on several gateway replicas that share one Redis hash.     *)
(*                                                                         *)
(* One step is one critical section (mu, statsMu) or one Redis command, so *)
(* everything the locks do not exclude is interleaved: marks that passed   *)
(* the already-broken check together, a refresh whose snapshot predates a  *)
(* write or a clear, a clear between its own two locks and its DEL.        *)
(*                                                                         *)
(* Time is a tick counter.  A Redis command ends within IOTimeout ticks    *)
(* (the 2s contexts); the code between two locks takes less than a tick.   *)
(***************************************************************************)
EXTENDS Sage, Integers, FiniteSets

CONSTANTS
    BreakerReplicas,  \* gateway processes sharing the Redis
    Domains,          \* hostnames of the service's endpoints
    BreakerRelays,    \* relays, each run at most once
    Slots,            \* refresh goroutines one replica can have in flight
    MinFailures,      \* defaultMinFailures
    ThresholdPct,     \* defaultFailureRateThreshold, in percent
    MarginPct,        \* defaultRebreakMargin, in percent
    BreakerWindow,    \* defaultFailureWindow
    Memory,           \* defaultEscalationMemory
    MinTTL, MaxTTL,   \* defaultMinTTL, defaultMaxTTL
    CacheTTL,         \* defaultCacheTTL
    IOTimeout,        \* the 2s timeout of every Redis call
    BreakerMaxTime,   \* bound on the clock
    MaxClears         \* bound on POST /admin/circuit-breaker/clear

\* A refresh outlives neither its own nor a write's timeout: 2s + 2s < 5s.
ASSUME TimingAssumption ==
    /\ MinFailures \in Nat \ {0}
    /\ ThresholdPct \in Nat /\ MarginPct \in Nat
    /\ BreakerWindow \in Nat /\ Memory \in Nat
    /\ MinTTL \in Nat \ {0} /\ MaxTTL \in Nat /\ MinTTL <= MaxTTL
    /\ CacheTTL \in Nat /\ IOTimeout \in Nat \ {0}
    /\ IOTimeout + IOTimeout < CacheTTL
    /\ BreakerMaxTime \in Nat /\ MaxClears \in Nat

VARIABLES
    breakerNow,      \* the clock every replica reads
    broken,          \* broken[r][d]: BrokenState or None
    brokenLocally,   \* brokenLocally[r][d]: when r itself broke d, or None
    lastRefresh,     \* lastRefresh[r]: when r last claimed a refresh, or None
    stats,           \* stats[r][d]: outcomeWindow or None
    breakerRedis,    \* redis[d]: the hash field, BrokenState or None
    keyExpiry,       \* when Redis deletes the hash, or None
    relay,           \* relay[p]: one relay through the middleware
    breakerRefresh,  \* refresh[r][s]: one refreshFromRedis goroutine
    clear,           \* clear[r]: one Clear call
    clears           \* how many Clear calls were made

breakerVars == <<breakerNow, broken, brokenLocally, lastRefresh, stats, breakerRedis, keyExpiry,
          relay, breakerRefresh, clear, clears>>

-----------------------------------------------------------------------------
(* Shapes.  A BrokenState carries, beside its expiry and hit count, who    *)
(* made it and when: the reason text of the code, reduced to what tells    *)
(* two breaks apart.                                                       *)

Maybe(S) == S \cup {None}

BrokenState == [expiry : Nat, hits : Nat, by : BreakerReplicas, at : Nat]

\* An absent entry is no entry.
ASSUME NoneAssumption == None \notin Nat /\ None \notin BrokenState

OutcomeWindow == [start : Nat, failures : Nat, successes : Nat,
                  episodeAt : Maybe(Nat), lastHits : Nat]

RelayState == [pc : {"idle", "relaying", "gate", "write", "hset", "expire", "done"},
               rep : Maybe(BreakerReplicas), dom : Maybe(Domains), at : Nat, hits : Nat,
               state : Maybe(BrokenState)]

BreakerRefreshState == [pc : {"idle", "fetch", "merge"}, start : Nat,
                 snap : [Domains -> Maybe(BrokenState)]]

ClearState == [pc : {"idle", "stats", "del"}, start : Nat]

IdleRelay == [pc |-> "idle", rep |-> None, dom |-> None, at |-> 0, hits |-> 0,
              state |-> None]

BreakerIdleRefresh == [pc |-> "idle", start |-> 0, snap |-> [d \in Domains |-> None]]

IdleClear == [pc |-> "idle", start |-> 0]

MinOf(a, b) == IF a <= b THEN a ELSE b

\* escalateTTL: the minimum doubled per earlier hit, five doublings at most, capped.
Doublings == <<1, 2, 4, 8, 16, 32>>

EscalateTTL(h) ==
    MinOf(MinTTL * Doublings[IF h <= 0 THEN 1 ELSE IF h >= 5 THEN 6 ELSE h + 1], MaxTTL)

\* IsBroken's read: present and not past its expiry.
IsBroken(r, d) == broken[r][d] # None /\ breakerNow <= broken[r][d].expiry

\* windowLocked: a fresh window, the window rolled over, or the window as it is.
WindowAt(w, t) ==
    IF w = None
    THEN [start |-> t, failures |-> 0, successes |-> 0, episodeAt |-> None, lastHits |-> 0]
    ELSE IF t - w.start > BreakerWindow
         THEN [w EXCEPT !.start = t, !.failures = 0, !.successes = 0]
         ELSE w

RecentlyBroken(w, t) == w.episodeAt # None /\ t - w.episodeAt <= Memory

\* The gate of shouldBreak, on a window that already counts this failure.
GateOpens(w, t) ==
    /\ w.failures >= MinFailures
    /\ 100 * w.failures >= (ThresholdPct + (IF RecentlyBroken(w, t) THEN MarginPct ELSE 0))
                             * (w.failures + w.successes)

NextHits(w, t) == IF RecentlyBroken(w, t) THEN w.lastHits + 1 ELSE 1

\* Mutant: the break leaves the failures that caused it in the window.
ConsumedKeepsCounts(w, t) == [w EXCEPT !.episodeAt = t, !.lastHits = NextHits(w, t)]

\* A break consumes the window and remembers the episode.
Consumed(w, t) ==
    [start |-> t, failures |-> 0, successes |-> 0, episodeAt |-> t, lastHits |-> NextHits(w, t)]

-----------------------------------------------------------------------------
BreakerInit ==
    /\ breakerNow = 0
    /\ broken = [r \in BreakerReplicas |-> [d \in Domains |-> None]]
    /\ brokenLocally = [r \in BreakerReplicas |-> [d \in Domains |-> None]]
    /\ lastRefresh = [r \in BreakerReplicas |-> None]
    /\ stats = [r \in BreakerReplicas |-> [d \in Domains |-> None]]
    /\ breakerRedis = [d \in Domains |-> None]
    /\ keyExpiry = None
    /\ relay = [p \in BreakerRelays |-> IdleRelay]
    /\ breakerRefresh = [r \in BreakerReplicas |-> [s \in Slots |-> BreakerIdleRefresh]]
    /\ clear = [r \in BreakerReplicas |-> IdleClear]
    /\ clears = 0

\* maybeRefreshFromRedis: the claim is taken under mu, the fetch runs elsewhere.
BreakerStale(r) == lastRefresh[r] # None => breakerNow - lastRefresh[r] >= CacheTTL

ClaimRefresh(r) ==
    \E s \in Slots :
        /\ breakerRefresh[r][s].pc = "idle"
        /\ breakerRefresh' = [breakerRefresh EXCEPT ![r][s] = [BreakerIdleRefresh EXCEPT !.pc = "fetch", !.start = breakerNow]]
        /\ lastRefresh' = [lastRefresh EXCEPT ![r] = breakerNow]

MaybeRefresh(r) ==
    IF BreakerStale(r) THEN ClaimRefresh(r) ELSE UNCHANGED <<breakerRefresh, lastRefresh>>

\* GetBroken, called by the metrics scrape and the admin API.
GetBroken(r) ==
    /\ BreakerStale(r)
    /\ ClaimRefresh(r)
    /\ UNCHANGED <<breakerNow, broken, brokenLocally, stats, breakerRedis, keyExpiry, relay, clear, clears>>

\* The middleware before the relay: broken domains are filtered out of the
\* candidates, and all of them are kept when every one is broken.
BreakerCandidates(r) ==
    LET open == {d \in Domains : ~IsBroken(r, d)}
    IN  IF open = {} THEN Domains ELSE open

RelayStart(p, r) ==
    /\ relay[p].pc = "idle"
    /\ MaybeRefresh(r)
    /\ \E d \in BreakerCandidates(r) :
        relay' = [relay EXCEPT ![p] = [IdleRelay EXCEPT !.pc = "relaying", !.rep = r, !.dom = d]]
    /\ UNCHANGED <<breakerNow, broken, brokenLocally, stats, breakerRedis, keyExpiry, clear, clears>>

\* The middleware after a relay that succeeded: RecordSuccess.
RecordSuccess(p) ==
    LET r == relay[p].rep
        d == relay[p].dom
        w == WindowAt(stats[r][d], breakerNow)
    IN  /\ relay[p].pc = "relaying"
        /\ stats' = [stats EXCEPT ![r][d] = [w EXCEPT !.successes = @ + 1]]
        /\ relay' = [relay EXCEPT ![p].pc = "done"]
        /\ UNCHANGED <<breakerNow, broken, brokenLocally, lastRefresh, breakerRedis, keyExpiry, breakerRefresh, clear, clears>>

\* MarkBroken, first critical section: a domain already broken is left alone.
MarkCheck(p) ==
    LET e == broken[relay[p].rep][relay[p].dom]
    IN  /\ relay[p].pc = "relaying"
        /\ relay' = [relay EXCEPT ![p].pc = IF e # None /\ e.expiry > breakerNow THEN "done" ELSE "gate",
                                  ![p].at = breakerNow]
        /\ UNCHANGED <<breakerNow, broken, brokenLocally, lastRefresh, stats, breakerRedis, keyExpiry, breakerRefresh,
                       clear, clears>>

\* MarkBroken, second critical section: shouldBreak.
ShouldBreak(p) ==
    LET r == relay[p].rep
        d == relay[p].dom
        t == relay[p].at
        w0 == WindowAt(stats[r][d], t)
        w == [w0 EXCEPT !.failures = @ + 1]
    IN  /\ relay[p].pc = "gate"
        /\ IF GateOpens(w, t)
           THEN /\ stats' = [stats EXCEPT ![r][d] = Consumed(w, t)]
                /\ relay' = [relay EXCEPT ![p].pc = "write", ![p].hits = NextHits(w, t)]
           ELSE /\ stats' = [stats EXCEPT ![r][d] = w]
                /\ relay' = [relay EXCEPT ![p].pc = "done"]
        /\ UNCHANGED <<breakerNow, broken, brokenLocally, lastRefresh, breakerRedis, keyExpiry, breakerRefresh, clear, clears>>

\* MarkBroken, third critical section: the break is written unconditionally.
MarkWrite(p) ==
    LET r == relay[p].rep
        d == relay[p].dom
        st == [expiry |-> relay[p].at + EscalateTTL(relay[p].hits - 1),
               hits |-> relay[p].hits, by |-> r, at |-> relay[p].at]
    IN  /\ relay[p].pc = "write"
        /\ broken' = [broken EXCEPT ![r][d] = st]
        /\ brokenLocally' = [brokenLocally EXCEPT ![r][d] = relay[p].at]
        /\ relay' = [relay EXCEPT ![p].pc = "hset", ![p].state = st]
        /\ UNCHANGED <<breakerNow, lastRefresh, stats, breakerRedis, keyExpiry, breakerRefresh, clear, clears>>

\* persistToRedis, HSET: it lands, is lost, or lands and its reply is lost.
PersistHSet(p) ==
    /\ relay[p].pc = "hset"
    /\ \/ /\ breakerRedis' = [breakerRedis EXCEPT ![relay[p].dom] = relay[p].state]
          /\ relay' = [relay EXCEPT ![p].pc = "expire"]
       \/ /\ breakerRedis' = [breakerRedis EXCEPT ![relay[p].dom] = relay[p].state]
          /\ relay' = [relay EXCEPT ![p].pc = "done"]
       \/ /\ UNCHANGED breakerRedis
          /\ relay' = [relay EXCEPT ![p].pc = "done"]
    /\ UNCHANGED <<breakerNow, broken, brokenLocally, lastRefresh, stats, keyExpiry, breakerRefresh, clear, clears>>

\* persistToRedis, EXPIRE: the maximum TTL and a minute; a no-op on a missing key.
PersistExpire(p) ==
    /\ relay[p].pc = "expire"
    /\ relay' = [relay EXCEPT ![p].pc = "done"]
    /\ \/ keyExpiry' = IF \E d \in Domains : breakerRedis[d] # None THEN breakerNow + MaxTTL + 1 ELSE keyExpiry
       \/ UNCHANGED keyExpiry
    /\ UNCHANGED <<breakerNow, broken, brokenLocally, lastRefresh, stats, breakerRedis, breakerRefresh, clear, clears>>

\* Redis drops the hash at its expiry.
KeyExpires ==
    /\ keyExpiry # None
    /\ breakerNow >= keyExpiry
    /\ breakerRedis' = [d \in Domains |-> None]
    /\ keyExpiry' = None
    /\ UNCHANGED <<breakerNow, broken, brokenLocally, lastRefresh, stats, relay, breakerRefresh, clear, clears>>

\* refreshFromRedis: HGETALL is answered by Redis, or fails.
BreakerFetchAnswered(r, s) ==
    /\ breakerRefresh[r][s].pc = "fetch"
    /\ breakerRefresh' = [breakerRefresh EXCEPT ![r][s].pc = "merge", ![r][s].snap = breakerRedis]
    /\ UNCHANGED <<breakerNow, broken, brokenLocally, lastRefresh, stats, breakerRedis, keyExpiry, relay, clear, clears>>

BreakerFetchFailed(r, s) ==
    /\ breakerRefresh[r][s].pc = "fetch"
    /\ breakerRefresh' = [breakerRefresh EXCEPT ![r][s] = BreakerIdleRefresh]
    /\ UNCHANGED <<breakerNow, broken, brokenLocally, lastRefresh, stats, breakerRedis, keyExpiry, relay, clear, clears>>

\* Mutants: a refresh drops every unlisted domain; a refresh only ever adds.
DropsUnprotected(r, d, snap) == broken[r][d] # None /\ snap[d] = None
DropsNever(r, d, snap) == FALSE

\* mergeRedisEntries: what a domain's entry becomes under a snapshot.
Drops(r, d, snap) ==
    /\ broken[r][d] # None
    /\ snap[d] = None
    /\ ~(brokenLocally[r][d] # None /\ breakerNow - brokenLocally[r][d] < CacheTTL)

BreakerMerged(r, d, snap) ==
    IF Drops(r, d, snap) THEN None
    ELSE IF /\ snap[d] # None
            /\ breakerNow <= snap[d].expiry
            /\ broken[r][d] = None \/ snap[d].expiry > broken[r][d].expiry
         THEN snap[d]
         ELSE broken[r][d]

Merge(r, s) ==
    LET snap == breakerRefresh[r][s].snap
    IN  /\ breakerRefresh[r][s].pc = "merge"
        /\ broken' = [broken EXCEPT ![r] = [d \in Domains |-> BreakerMerged(r, d, snap)]]
        /\ brokenLocally' = [brokenLocally EXCEPT ![r] =
               [d \in Domains |-> IF Drops(r, d, snap) THEN None ELSE brokenLocally[r][d]]]
        /\ breakerRefresh' = [breakerRefresh EXCEPT ![r][s] = BreakerIdleRefresh]
        /\ UNCHANGED <<breakerNow, lastRefresh, stats, breakerRedis, keyExpiry, relay, clear, clears>>

\* Clear: the break state under mu, the rate history under statsMu, then DEL.
ClearBroken(r) ==
    /\ clear[r].pc = "idle"
    /\ clears < MaxClears
    /\ clears' = clears + 1
    /\ broken' = [broken EXCEPT ![r] = [d \in Domains |-> None]]
    /\ brokenLocally' = [brokenLocally EXCEPT ![r] = [d \in Domains |-> None]]
    /\ lastRefresh' = [lastRefresh EXCEPT ![r] = None]
    /\ clear' = [clear EXCEPT ![r] = [pc |-> "stats", start |-> breakerNow]]
    /\ UNCHANGED <<breakerNow, stats, breakerRedis, keyExpiry, relay, breakerRefresh>>

ClearStats(r) ==
    /\ clear[r].pc = "stats"
    /\ stats' = [stats EXCEPT ![r] = [d \in Domains |-> None]]
    /\ clear' = [clear EXCEPT ![r].pc = "del"]
    /\ UNCHANGED <<breakerNow, broken, brokenLocally, lastRefresh, breakerRedis, keyExpiry, relay, breakerRefresh, clears>>

ClearDel(r) ==
    /\ clear[r].pc = "del"
    /\ clear' = [clear EXCEPT ![r] = IdleClear]
    /\ \/ /\ breakerRedis' = [d \in Domains |-> None]
          /\ keyExpiry' = None
       \/ UNCHANGED <<breakerRedis, keyExpiry>>
    /\ UNCHANGED <<breakerNow, broken, brokenLocally, lastRefresh, stats, relay, breakerRefresh, clears>>

\* Time passes only as far as the timeouts of what is in flight allow.
Timely ==
    /\ \A p \in BreakerRelays : relay[p].pc \notin {"gate", "write"}
    /\ \A p \in BreakerRelays : relay[p].pc \in {"hset", "expire"} => breakerNow < relay[p].at + IOTimeout
    /\ \A r \in BreakerReplicas, s \in Slots :
           breakerRefresh[r][s].pc # "idle" => breakerNow < breakerRefresh[r][s].start + IOTimeout
    /\ \A r \in BreakerReplicas : /\ clear[r].pc # "stats"
                           /\ clear[r].pc = "del" => breakerNow < clear[r].start + IOTimeout

BreakerTick ==
    /\ breakerNow < BreakerMaxTime
    /\ Timely
    /\ breakerNow' = breakerNow + 1
    /\ UNCHANGED <<broken, brokenLocally, lastRefresh, stats, breakerRedis, keyExpiry, relay, breakerRefresh,
                   clear, clears>>

BreakerNext ==
    \/ \E p \in BreakerRelays, r \in BreakerReplicas : RelayStart(p, r)
    \/ \E p \in BreakerRelays : \/ RecordSuccess(p) \/ MarkCheck(p) \/ ShouldBreak(p) \/ MarkWrite(p)
                         \/ PersistHSet(p) \/ PersistExpire(p)
    \/ \E r \in BreakerReplicas : GetBroken(r) \/ ClearBroken(r) \/ ClearStats(r) \/ ClearDel(r)
    \/ \E r \in BreakerReplicas, s \in Slots : BreakerFetchAnswered(r, s) \/ BreakerFetchFailed(r, s) \/ Merge(r, s)
    \/ KeyExpires
    \/ BreakerTick

BreakerSpec == BreakerInit /\ [][BreakerNext]_breakerVars

-----------------------------------------------------------------------------
(* Properties.                                                             *)

\* Every map entry, in-flight call and counter has the shape the code gives it.
BreakerTypeOK ==
    /\ breakerNow \in Nat
    /\ broken \in [BreakerReplicas -> [Domains -> Maybe(BrokenState)]]
    /\ brokenLocally \in [BreakerReplicas -> [Domains -> Maybe(Nat)]]
    /\ lastRefresh \in [BreakerReplicas -> Maybe(Nat)]
    /\ stats \in [BreakerReplicas -> [Domains -> Maybe(OutcomeWindow)]]
    /\ breakerRedis \in [Domains -> Maybe(BrokenState)]
    /\ keyExpiry \in Maybe(Nat)
    /\ relay \in [BreakerRelays -> RelayState]
    /\ breakerRefresh \in [BreakerReplicas -> [Slots -> BreakerRefreshState]]
    /\ clear \in [BreakerReplicas -> ClearState]
    /\ clears \in Nat

\* A step that removes this replica's own break while Redis holds it is a Clear.
KeepsOwnBreak ==
    \A r \in BreakerReplicas, d \in Domains :
        /\ broken[r][d] # None
        /\ broken[r][d].by = r
        /\ brokenLocally[r][d] = broken[r][d].at
        /\ breakerRedis[d] = broken[r][d]
        /\ broken'[r][d] = None
        => clear'[r] # clear[r]

\* A replica's own break that Redis holds is never lost to one of its own
\* refreshes, whenever the refresh's snapshot was taken: mergeRedisEntries
\* keeps it ("its own write may still be in flight") for as long as a snapshot
\* older than the write can still be merged.
OwnBreakKept == [][KeepsOwnBreak]_breakerVars

\* The relays of (r, d) whose outcome is known, and those the gate broke on.
Counted(r, d) ==
    {p \in BreakerRelays : /\ relay[p].rep = r /\ relay[p].dom = d
                           /\ relay[p].pc \notin {"idle", "relaying", "gate"}}
BrokeOn(r, d) == {p \in Counted(r, d) : relay[p].hits > 0}

\* A break consumes its window: every break of a domain on a replica took
\* MinFailures failures of its own, however the marks interleave, and what is
\* left in the window has not been spent by a break ("The break consumes the
\* window: count from scratch").
BreaksConsumeFailures ==
    \A r \in BreakerReplicas, d \in Domains :
        MinFailures * Cardinality(BrokeOn(r, d))
          + (IF stats[r][d] = None THEN 0 ELSE stats[r][d].failures + stats[r][d].successes)
        <= Cardinality(Counted(r, d))

\* shouldBreak's comment: escalation means the domain was let back in and
\* failed again, because "Duplicate marks within one episode are filtered in
\* MarkBroken and never reach here."
EscalatesOnlyAfterReadmission ==
    [][\A p \in BreakerRelays :
          relay[p].pc = "gate" /\ relay'[p].pc = "write" /\ relay'[p].hits > 1
          => ~IsBroken(relay[p].rep, relay[p].dom)]_breakerVars

=============================================================================
