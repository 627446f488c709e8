------------------------------ MODULE StoreProofs ------------------------------
(***************************************************************************)
(* The circuit breaker and the health-check leader election on Redis, for  *)
(* any number of replicas, domains, relays and concurrent refreshes.       *)
(*                                                                         *)
(* OwnBreakKept is a race between two deadlines.  A refresh can only drop  *)
(* a break its snapshot does not list.  A snapshot misses a break that     *)
(* Redis holds only if it was asked for before the write landed, at most   *)
(* one timeout after the break; and it is merged at most one timeout after *)
(* it was asked for.  Two timeouts are less than the cache TTL, so the     *)
(* break is still protected by its brokenLocally stamp.                    *)
(*                                                                         *)
(* ElectedHoldsLock is not inductive either: that an elected replica still *)
(* holds the key rests on when its attempts start and end, which LeaseInv  *)
(* spells out.                                                             *)
(*                                                                         *)
(* SnapshotsRegular, of the feature flags' store, needs that what a        *)
(* refresh has read so far is among what Redis held since its SCAN         *)
(* (ReadsHeld).                                                            *)
(***************************************************************************)
EXTENDS CircuitBreaker, LeaderElection, FlagStore, TLAPS

(* The circuit breaker.                                                    *)

\* A mark in flight carries its replica, its domain and the break it writes,
\* and its persist is not past its timeout.
MarksInv ==
    \A p \in BreakerRelays :
        /\ relay[p].pc \in {"gate", "write", "hset"} => breakerNow <= relay[p].at + IOTimeout
        /\ relay[p].pc # "idle" => relay[p].rep \in BreakerReplicas /\ relay[p].dom \in Domains
        /\ relay[p].pc = "hset" => /\ relay[p].state \in BrokenState
                                   /\ relay[p].state.at = relay[p].at

\* A refresh in flight is not past its timeout.
RefreshInv ==
    \A r \in BreakerReplicas, s \in Slots :
        breakerRefresh[r][s].pc # "idle" => /\ breakerRefresh[r][s].start <= breakerNow
                                     /\ breakerNow <= breakerRefresh[r][s].start + IOTimeout

\* A snapshot that misses a break Redis holds was asked for before the write
\* of that break could have timed out.
SnapshotInv ==
    \A r \in BreakerReplicas, s \in Slots, d \in Domains :
        /\ breakerRefresh[r][s].pc = "merge"
        /\ breakerRefresh[r][s].snap[d] = None
        /\ breakerRedis[d] # None
        => breakerRefresh[r][s].start <= breakerRedis[d].at + IOTimeout

BreakerInv == BreakerTypeOK /\ MarksInv /\ RefreshInv /\ SnapshotInv

\* An escalated duration is a duration.
LEMMA EscalateTTLType == ASSUME NEW h \in Int PROVE EscalateTTL(h) \in Nat
<1>. DEFINE i == IF h <= 0 THEN 1 ELSE IF h >= 5 THEN 6 ELSE h + 1
<1>1. i \in 1..6
  OBVIOUS
<1>2. Doublings[i] \in Nat
  BY <1>1 DEF Doublings
<1>3. MinTTL * Doublings[i] \in Nat
  BY <1>2, TimingAssumption
<1>. HIDE DEF i
<1>4. MinOf(MinTTL * Doublings[i], MaxTTL) \in Nat
  BY <1>3, TimingAssumption DEF MinOf
<1>. QED BY <1>4 DEF EscalateTTL, i

\* A window of outcomes keeps its shape.
LEMMA WindowType ==
    ASSUME NEW w \in Maybe(OutcomeWindow), NEW t \in Nat
    PROVE  WindowAt(w, t) \in OutcomeWindow
BY TimingAssumption, Zenon DEF Maybe, OutcomeWindow, WindowAt

\* A relay, a refresh and a record at rest have their shapes.
LEMMA IdleTypes ==
    IdleRelay \in RelayState /\ BreakerIdleRefresh \in BreakerRefreshState /\ IdleClear \in ClearState
BY DEF IdleRelay, BreakerIdleRefresh, IdleClear, RelayState, BreakerRefreshState, ClearState, Maybe

\* The initial state satisfies the invariant.
LEMMA BreakerInitInv == BreakerInit => BreakerInv
<1>. SUFFICES ASSUME BreakerInit PROVE BreakerInv OBVIOUS
<1>1. BreakerTypeOK
  BY IdleTypes DEF BreakerInit, BreakerTypeOK, Maybe
<1>2. MarksInv /\ RefreshInv /\ SnapshotInv
  BY DEF BreakerInit, MarksInv, RefreshInv, SnapshotInv, IdleRelay, BreakerIdleRefresh
<1>. QED BY <1>1, <1>2 DEF BreakerInv


\* Every step keeps every variable well typed.
LEMMA BreakerNextTypeOK == ASSUME BreakerInv, [BreakerNext]_breakerVars PROVE BreakerTypeOK'
<1>t. BreakerTypeOK
  BY DEF BreakerInv
<1>n. breakerNow \in Nat
  BY <1>t DEF BreakerTypeOK
<1>c. ASSUME NEW r \in BreakerReplicas, ClaimRefresh(r)
      PROVE  /\ breakerRefresh' \in [BreakerReplicas -> [Slots -> BreakerRefreshState]]
             /\ lastRefresh' \in [BreakerReplicas -> Maybe(Nat)]
  <2>1. [BreakerIdleRefresh EXCEPT !.pc = "fetch", !.start = breakerNow] \in BreakerRefreshState
    BY <1>n, IdleTypes, Zenon DEF BreakerRefreshState
  <2>. QED BY <1>c, <1>t, <1>n, <2>1 DEF ClaimRefresh, BreakerTypeOK, Maybe
<1>1. ASSUME NEW p \in BreakerRelays, NEW r \in BreakerReplicas, RelayStart(p, r) PROVE BreakerTypeOK'
  <2>1. breakerRefresh' \in [BreakerReplicas -> [Slots -> BreakerRefreshState]] /\ lastRefresh' \in [BreakerReplicas -> Maybe(Nat)]
    BY <1>1, <1>c, <1>t DEF RelayStart, MaybeRefresh, BreakerTypeOK
  <2>2. PICK d \in Domains :
          relay' = [relay EXCEPT ![p] = [IdleRelay EXCEPT !.pc = "relaying", !.rep = r, !.dom = d]]
    BY <1>1, Zenon DEF RelayStart, BreakerCandidates
  <2>3. [IdleRelay EXCEPT !.pc = "relaying", !.rep = r, !.dom = d] \in RelayState
    BY IdleTypes, Zenon DEF RelayState, Maybe
  <2>. QED BY <1>1, <1>t, <2>1, <2>2, <2>3 DEF RelayStart, BreakerTypeOK
<1>2. ASSUME NEW p \in BreakerRelays, RecordSuccess(p) PROVE BreakerTypeOK'
  <2>. DEFINE r == relay[p].rep
              d == relay[p].dom
              w == WindowAt(stats[r][d], breakerNow)
  <2>1. r \in BreakerReplicas /\ d \in Domains
    BY <1>2 DEF RecordSuccess, MarksInv, BreakerInv
  <2>2. w \in OutcomeWindow
    BY <2>1, <1>t, WindowType DEF BreakerTypeOK
  <2>. HIDE DEF w
  <2>3. [w EXCEPT !.successes = @ + 1] \in OutcomeWindow
    BY <2>2 DEF OutcomeWindow
  <2>4. [relay[p] EXCEPT !.pc = "done"] \in RelayState
    BY <1>t, Zenon DEF BreakerTypeOK, RelayState
  <2>5. stats' = [stats EXCEPT ![r][d] = [w EXCEPT !.successes = @ + 1]]
    BY <1>2 DEF RecordSuccess, w
  <2>6. relay' = [relay EXCEPT ![p] = [relay[p] EXCEPT !.pc = "done"]]
    BY <1>2 DEF RecordSuccess
  <2>7. stats' \in [BreakerReplicas -> [Domains -> Maybe(OutcomeWindow)]]
    BY <1>t, <2>1, <2>3, <2>5 DEF BreakerTypeOK, Maybe
  <2>. QED BY <1>2, <1>t, <2>4, <2>6, <2>7 DEF RecordSuccess, BreakerTypeOK
<1>3. ASSUME NEW p \in BreakerRelays, MarkCheck(p) PROVE BreakerTypeOK'
  <2>1. PICK c \in {"done", "gate"} : relay' = [relay EXCEPT ![p] = [relay[p] EXCEPT !.pc = c, !.at = breakerNow]]
    BY <1>3, Zenon DEF MarkCheck
  <2>2. [relay[p] EXCEPT !.pc = c, !.at = breakerNow] \in RelayState
    BY <1>t, <1>n, ZenonT(60) DEF BreakerTypeOK, RelayState
  <2>. QED BY <1>3, <1>t, <2>1, <2>2, ZenonT(60) DEF MarkCheck, BreakerTypeOK
<1>4. ASSUME NEW p \in BreakerRelays, ShouldBreak(p) PROVE BreakerTypeOK'
  <2>. DEFINE r == relay[p].rep
              d == relay[p].dom
              t == relay[p].at
              w0 == WindowAt(stats[r][d], t)
              w == [w0 EXCEPT !.failures = @ + 1]
              h == NextHits(w, t)
              fresh == Consumed(w, t)
  <2>1. r \in BreakerReplicas /\ d \in Domains /\ t \in Nat
    BY <1>4, <1>t DEF ShouldBreak, MarksInv, BreakerInv, BreakerTypeOK, RelayState
  <2>2. w0 \in OutcomeWindow
    BY <2>1, <1>t, WindowType DEF BreakerTypeOK
  <2>. HIDE DEF w0
  <2>3. w \in OutcomeWindow
    BY <2>2 DEF OutcomeWindow
  <2>. HIDE DEF w
  <2>4. h \in Nat
    BY <2>3 DEF NextHits, OutcomeWindow
  <2>. HIDE DEF h
  <2>5. fresh \in OutcomeWindow
    BY <2>1, <2>4, Zenon DEF Consumed, h, OutcomeWindow, Maybe
  <2>. HIDE DEF fresh
  <2>6. PICK st \in {w, fresh}, q \in {[relay[p] EXCEPT !.pc = "write", !.hits = h],
                                       [relay[p] EXCEPT !.pc = "done"]} :
          stats' = [stats EXCEPT ![r][d] = st] /\ relay' = [relay EXCEPT ![p] = q]
    BY <1>4, Zenon DEF ShouldBreak, fresh, h, w, w0
  <2>7. q \in RelayState
    BY <1>t, <2>4, <2>6, Zenon DEF BreakerTypeOK, RelayState
  <2>. QED BY <1>4, <1>t, <2>1, <2>3, <2>5, <2>6, <2>7 DEF ShouldBreak, BreakerTypeOK, Maybe
<1>5. ASSUME NEW p \in BreakerRelays, MarkWrite(p) PROVE BreakerTypeOK'
  <2>. DEFINE r == relay[p].rep
              d == relay[p].dom
              st == [expiry |-> relay[p].at + EscalateTTL(relay[p].hits - 1),
                     hits |-> relay[p].hits, by |-> r, at |-> relay[p].at]
  <2>1. r \in BreakerReplicas /\ d \in Domains /\ relay[p].at \in Nat /\ relay[p].hits \in Nat
    BY <1>5, <1>t DEF MarkWrite, MarksInv, BreakerInv, BreakerTypeOK, RelayState
  <2>2. EscalateTTL(relay[p].hits - 1) \in Nat
    BY <2>1, EscalateTTLType
  <2>3. st \in BrokenState
    BY <2>1, <2>2 DEF BrokenState
  <2>. HIDE DEF st
  <2>4. relay' = [relay EXCEPT ![p] = [relay[p] EXCEPT !.pc = "hset", !.state = st]]
    BY <1>5, Zenon DEF MarkWrite, st
  <2>5. [relay[p] EXCEPT !.pc = "hset", !.state = st] \in RelayState
    BY <1>t, <2>3, Zenon DEF BreakerTypeOK, RelayState, Maybe
  <2>6. broken' = [broken EXCEPT ![r][d] = st]
    BY <1>5 DEF MarkWrite, st
  <2>7. broken' \in [BreakerReplicas -> [Domains -> Maybe(BrokenState)]]
    BY <1>t, <2>1, <2>3, <2>6 DEF BreakerTypeOK, Maybe
  <2>8. brokenLocally' \in [BreakerReplicas -> [Domains -> Maybe(Nat)]]
    BY <1>5, <1>t, <2>1 DEF MarkWrite, BreakerTypeOK, Maybe
  <2>9. relay' \in [BreakerRelays -> RelayState]
    BY <1>t, <2>4, <2>5 DEF BreakerTypeOK
  <2>. QED BY <1>5, <1>t, <2>7, <2>8, <2>9 DEF MarkWrite, BreakerTypeOK
<1>6. ASSUME NEW p \in BreakerRelays, PersistHSet(p) PROVE BreakerTypeOK'
  <2>1. PICK c \in {"expire", "done"} : relay' = [relay EXCEPT ![p] = [relay[p] EXCEPT !.pc = c]]
    BY <1>6 DEF PersistHSet
  <2>2. [relay[p] EXCEPT !.pc = c] \in RelayState
    BY <1>t, Zenon DEF BreakerTypeOK, RelayState
  <2>3. breakerRedis' \in [Domains -> Maybe(BrokenState)]
    BY <1>6, <1>t, Zenon DEF PersistHSet, MarksInv, BreakerInv, BreakerTypeOK, Maybe
  <2>. QED BY <1>6, <1>t, <2>1, <2>2, <2>3 DEF PersistHSet, BreakerTypeOK
<1>7. ASSUME NEW p \in BreakerRelays, PersistExpire(p) PROVE BreakerTypeOK'
  <2>1. relay' = [relay EXCEPT ![p] = [relay[p] EXCEPT !.pc = "done"]]
    BY <1>7 DEF PersistExpire
  <2>2. [relay[p] EXCEPT !.pc = "done"] \in RelayState
    BY <1>t, Zenon DEF BreakerTypeOK, RelayState
  <2>3. keyExpiry' \in Maybe(Nat)
    BY <1>7, <1>t, <1>n, TimingAssumption DEF PersistExpire, BreakerTypeOK, Maybe
  <2>. QED BY <1>7, <1>t, <2>1, <2>2, <2>3 DEF PersistExpire, BreakerTypeOK
<1>8. ASSUME NEW r \in BreakerReplicas, GetBroken(r) PROVE BreakerTypeOK'
  BY <1>8, <1>c, <1>t DEF GetBroken, BreakerTypeOK
<1>9. ASSUME NEW r \in BreakerReplicas, ClearBroken(r) PROVE BreakerTypeOK'
  <2>1. [pc |-> "stats", start |-> breakerNow] \in ClearState
    BY <1>n DEF ClearState
  <2>. QED BY <1>9, <1>t, <2>1 DEF ClearBroken, BreakerTypeOK, Maybe
<1>10. ASSUME NEW r \in BreakerReplicas, ClearStats(r) PROVE BreakerTypeOK'
  <2>1. clear' = [clear EXCEPT ![r] = [clear[r] EXCEPT !.pc = "del"]]
    BY <1>10 DEF ClearStats
  <2>2. [clear[r] EXCEPT !.pc = "del"] \in ClearState
    BY <1>t, Zenon DEF BreakerTypeOK, ClearState
  <2>. QED BY <1>10, <1>t, <2>1, <2>2 DEF ClearStats, BreakerTypeOK, Maybe
<1>11. ASSUME NEW r \in BreakerReplicas, ClearDel(r) PROVE BreakerTypeOK'
  BY <1>11, <1>t, IdleTypes DEF ClearDel, BreakerTypeOK, Maybe
<1>12. ASSUME NEW r \in BreakerReplicas, NEW s \in Slots, BreakerFetchAnswered(r, s) PROVE BreakerTypeOK'
  <2>1. breakerRefresh' = [breakerRefresh EXCEPT ![r][s] = [breakerRefresh[r][s] EXCEPT !.pc = "merge", !.snap = breakerRedis]]
    BY <1>12, Zenon DEF BreakerFetchAnswered
  <2>2. breakerRefresh[r][s] \in BreakerRefreshState /\ breakerRedis \in [Domains -> Maybe(BrokenState)]
    BY <1>t DEF BreakerTypeOK
  <2>3. [breakerRefresh[r][s] EXCEPT !.pc = "merge", !.snap = breakerRedis] \in BreakerRefreshState
    BY <2>2, Zenon DEF BreakerRefreshState
  <2>4. breakerRefresh' \in [BreakerReplicas -> [Slots -> BreakerRefreshState]]
    BY <1>t, <2>1, <2>3 DEF BreakerTypeOK
  <2>. QED BY <1>12, <1>t, <2>4 DEF BreakerFetchAnswered, BreakerTypeOK
<1>13. ASSUME NEW r \in BreakerReplicas, NEW s \in Slots, BreakerFetchFailed(r, s) PROVE BreakerTypeOK'
  BY <1>13, <1>t, IdleTypes DEF BreakerFetchFailed, BreakerTypeOK
<1>14. ASSUME NEW r \in BreakerReplicas, NEW s \in Slots, Merge(r, s) PROVE BreakerTypeOK'
  <2>. DEFINE snap == breakerRefresh[r][s].snap
  <2>1. snap \in [Domains -> Maybe(BrokenState)]
    BY <1>t DEF BreakerTypeOK, BreakerRefreshState
  <2>. HIDE DEF snap
  <2>2. \A d \in Domains : BreakerMerged(r, d, snap) \in Maybe(BrokenState)
    BY <1>t, <2>1 DEF BreakerMerged, BreakerTypeOK, Maybe
  <2>3. broken' \in [BreakerReplicas -> [Domains -> Maybe(BrokenState)]]
    BY <1>14, <1>t, <2>2 DEF Merge, BreakerTypeOK, snap
  <2>4. brokenLocally' \in [BreakerReplicas -> [Domains -> Maybe(Nat)]]
    BY <1>14, <1>t DEF Merge, BreakerTypeOK, Maybe
  <2>. QED BY <1>14, <1>t, <2>3, <2>4, IdleTypes DEF Merge, BreakerTypeOK
<1>15. CASE KeyExpires
  BY <1>15, <1>t DEF KeyExpires, BreakerTypeOK, Maybe
<1>16. CASE BreakerTick
  BY <1>16, <1>t DEF BreakerTick, BreakerTypeOK
<1>17. CASE UNCHANGED breakerVars
  BY <1>17, <1>t, Zenon DEF breakerVars, BreakerTypeOK
<1>. QED BY <1>1, <1>2, <1>3, <1>4, <1>5, <1>6, <1>7, <1>8, <1>9, <1>10, <1>11, <1>12,
            <1>13, <1>14, <1>15, <1>16, <1>17 DEF BreakerNext

\* A relay changes only by its own steps, and a mark starts at the current tick.
LEMMA NextMarksInv == ASSUME BreakerInv, [BreakerNext]_breakerVars PROVE MarksInv'
<1>t. BreakerTypeOK /\ MarksInv /\ BreakerTypeOK'
  BY BreakerNextTypeOK DEF BreakerInv
<1>r. \A p \in BreakerRelays : relay[p] \in RelayState /\ breakerNow \in Nat /\ IOTimeout \in Nat
  BY <1>t, TimingAssumption DEF BreakerTypeOK
<1>1. ASSUME NEW q \in BreakerRelays, NEW r \in BreakerReplicas, RelayStart(q, r) PROVE MarksInv'
  BY <1>1, <1>t DEF RelayStart, BreakerCandidates, MarksInv, IdleRelay, BreakerTypeOK
<1>2. ASSUME NEW q \in BreakerRelays, RecordSuccess(q) PROVE MarksInv'
  BY <1>2, <1>t, <1>r DEF RecordSuccess, MarksInv, BreakerTypeOK, RelayState
<1>3. ASSUME NEW q \in BreakerRelays, MarkCheck(q) PROVE MarksInv'
  <2>1. /\ relay'[q].pc \in {"gate", "done"} /\ relay'[q].at = breakerNow
        /\ relay'[q].rep = relay[q].rep /\ relay'[q].dom = relay[q].dom
    BY <1>3, <1>t, <1>r, Zenon DEF MarkCheck, BreakerTypeOK, RelayState
  <2>2. \A p \in BreakerRelays \ {q} : relay'[p] = relay[p]
    BY <1>3, <1>t DEF MarkCheck, BreakerTypeOK
  <2>3. breakerNow' = breakerNow /\ breakerNow <= breakerNow + IOTimeout
    BY <1>3, <1>r DEF MarkCheck
  <2>4. relay[q].rep \in BreakerReplicas /\ relay[q].dom \in Domains
    BY <1>3, <1>t, Zenon DEF MarkCheck, MarksInv
  <2>. QED BY <1>t, <2>1, <2>2, <2>3, <2>4 DEF MarksInv
<1>4. ASSUME NEW q \in BreakerRelays, ShouldBreak(q) PROVE MarksInv'
  <2>1. /\ relay'[q].pc \in {"write", "done"} /\ relay'[q].at = relay[q].at
        /\ relay'[q].rep = relay[q].rep /\ relay'[q].dom = relay[q].dom
    BY <1>4, <1>t, <1>r DEF ShouldBreak, BreakerTypeOK, RelayState
  <2>2. \A p \in BreakerRelays \ {q} : relay'[p] = relay[p]
    BY <1>4, <1>t, Zenon DEF ShouldBreak, BreakerTypeOK
  <2>. QED BY <1>4, <1>t, <1>r, <2>1, <2>2, Zenon DEF ShouldBreak, MarksInv
<1>5. ASSUME NEW q \in BreakerRelays, MarkWrite(q) PROVE MarksInv'
  <2>1. relay[q].rep \in BreakerReplicas /\ relay[q].dom \in Domains
    BY <1>5, <1>t DEF MarkWrite, MarksInv
  <2>2. EscalateTTL(relay[q].hits - 1) \in Nat
    BY <1>r, EscalateTTLType DEF RelayState
  <2>3. /\ relay'[q].pc = "hset" /\ relay'[q].at = relay[q].at
        /\ relay'[q].rep = relay[q].rep /\ relay'[q].dom = relay[q].dom
        /\ relay'[q].state = [expiry |-> relay[q].at + EscalateTTL(relay[q].hits - 1),
                              hits |-> relay[q].hits, by |-> relay[q].rep, at |-> relay[q].at]
    BY <1>5, <1>t, <1>r DEF MarkWrite, BreakerTypeOK, RelayState
  <2>4. relay'[q].state \in BrokenState /\ relay'[q].state.at = relay'[q].at
    BY <1>r, <2>1, <2>2, <2>3 DEF BrokenState, RelayState
  <2>5. \A p \in BreakerRelays \ {q} : relay'[p] = relay[p]
    BY <1>5, <1>t DEF MarkWrite, BreakerTypeOK
  <2>. QED BY <1>5, <1>t, <2>1, <2>3, <2>4, <2>5, ZenonT(60) DEF MarkWrite, MarksInv
<1>6. ASSUME NEW q \in BreakerRelays, PersistHSet(q) \/ PersistExpire(q) PROVE MarksInv'
  <2>1. /\ relay'[q].pc \in {"expire", "done"}
        /\ relay'[q].rep = relay[q].rep /\ relay'[q].dom = relay[q].dom
    BY <1>6, <1>t, <1>r DEF PersistHSet, PersistExpire, BreakerTypeOK, RelayState
  <2>2. \A p \in BreakerRelays \ {q} : relay'[p] = relay[p]
    BY <1>6, <1>t DEF PersistHSet, PersistExpire, BreakerTypeOK
  <2>. QED BY <1>6, <1>t, <2>1, <2>2 DEF PersistHSet, PersistExpire, MarksInv
<1>7. CASE BreakerTick
  <2>1. ASSUME NEW p \in BreakerRelays, relay[p].pc \in {"gate", "write", "hset"}
        PROVE  breakerNow' <= relay[p].at + IOTimeout
    BY <1>7, <1>r, <2>1 DEF BreakerTick, Timely, RelayState
  <2>. QED BY <1>7, <1>t, <2>1 DEF BreakerTick, MarksInv
<1>8. CASE UNCHANGED <<relay, breakerNow>>
  BY <1>8, <1>t DEF MarksInv
<1>. QED BY <1>1, <1>2, <1>3, <1>4, <1>5, <1>6, <1>7, <1>8, Zenon
         DEF BreakerNext, breakerVars, GetBroken, ClearBroken, ClearStats, ClearDel, BreakerFetchAnswered, BreakerFetchFailed,
             Merge, KeyExpires

\* A refresh starts at the current tick, and time waits for it.
LEMMA NextRefreshInv == ASSUME BreakerInv, [BreakerNext]_breakerVars PROVE RefreshInv'
<1>t. BreakerTypeOK /\ RefreshInv /\ BreakerTypeOK'
  BY BreakerNextTypeOK DEF BreakerInv
<1>c. ASSUME NEW q \in BreakerReplicas, ClaimRefresh(q), UNCHANGED breakerNow PROVE RefreshInv'
  BY <1>c, <1>t, TimingAssumption DEF ClaimRefresh, RefreshInv, BreakerTypeOK, BreakerIdleRefresh
<1>1. ASSUME NEW p \in BreakerRelays, NEW q \in BreakerReplicas, RelayStart(p, q) PROVE RefreshInv'
  BY <1>1, <1>c, <1>t DEF RelayStart, MaybeRefresh, RefreshInv
<1>2. ASSUME NEW q \in BreakerReplicas, GetBroken(q) PROVE RefreshInv'
  BY <1>2, <1>c, Zenon DEF GetBroken
<1>3. ASSUME NEW q \in BreakerReplicas, NEW u \in Slots, BreakerFetchAnswered(q, u) PROVE RefreshInv'
  <2>1. breakerRefresh[q][u] \in BreakerRefreshState
    BY <1>t DEF BreakerTypeOK
  <2>2. breakerRefresh'[q][u].start = breakerRefresh[q][u].start
    BY <1>3, <1>t, <2>1 DEF BreakerFetchAnswered, BreakerTypeOK, BreakerRefreshState
  <2>3. \A r \in BreakerReplicas, s \in Slots : <<r, s>> # <<q, u>> => breakerRefresh'[r][s] = breakerRefresh[r][s]
    BY <1>3, <1>t DEF BreakerFetchAnswered, BreakerTypeOK
  <2>. QED BY <1>3, <1>t, <2>2, <2>3, ZenonT(60) DEF BreakerFetchAnswered, RefreshInv
<1>4. ASSUME NEW q \in BreakerReplicas, NEW u \in Slots, BreakerFetchFailed(q, u) \/ Merge(q, u) PROVE RefreshInv'
  <2>1. breakerRefresh' = [breakerRefresh EXCEPT ![q][u] = BreakerIdleRefresh] /\ breakerNow' = breakerNow
    BY <1>4 DEF BreakerFetchFailed, Merge
  <2>. QED BY <1>t, <2>1 DEF RefreshInv, BreakerTypeOK, BreakerIdleRefresh
<1>5. CASE BreakerTick
  <2>1. ASSUME NEW r \in BreakerReplicas, NEW s \in Slots, breakerRefresh[r][s].pc # "idle"
        PROVE  breakerRefresh[r][s].start <= breakerNow' /\ breakerNow' <= breakerRefresh[r][s].start + IOTimeout
    BY <1>5, <1>t, <2>1, TimingAssumption DEF BreakerTick, Timely, RefreshInv, BreakerTypeOK, BreakerRefreshState
  <2>. QED BY <1>5, <2>1 DEF BreakerTick, RefreshInv
<1>6. CASE UNCHANGED <<breakerRefresh, breakerNow>>
  BY <1>6, <1>t DEF RefreshInv
<1>. QED BY <1>1, <1>2, <1>3, <1>4, <1>5, <1>6, Zenon
         DEF BreakerNext, breakerVars, RecordSuccess, MarkCheck, ShouldBreak, MarkWrite, PersistHSet,
             PersistExpire, ClearBroken, ClearStats, ClearDel, KeyExpires

\* A snapshot taken now lists what Redis lists now; a write that lands after
\* it was made at most one timeout ago.
LEMMA NextSnapshotInv == ASSUME BreakerInv, [BreakerNext]_breakerVars PROVE SnapshotInv'
<1>t. BreakerTypeOK /\ MarksInv /\ RefreshInv /\ SnapshotInv
  BY DEF BreakerInv
<1>c. ASSUME NEW q \in BreakerReplicas, ClaimRefresh(q), UNCHANGED breakerRedis PROVE SnapshotInv'
  BY <1>c, <1>t DEF ClaimRefresh, SnapshotInv, BreakerTypeOK, BreakerIdleRefresh
<1>1. ASSUME NEW p \in BreakerRelays, NEW q \in BreakerReplicas, RelayStart(p, q) PROVE SnapshotInv'
  BY <1>1, <1>c, <1>t DEF RelayStart, MaybeRefresh, SnapshotInv
<1>2. ASSUME NEW q \in BreakerReplicas, GetBroken(q) PROVE SnapshotInv'
  BY <1>2, <1>c DEF GetBroken
<1>3. ASSUME NEW p \in BreakerRelays, PersistHSet(p) PROVE SnapshotInv'
  <2>1. CASE UNCHANGED breakerRedis
    BY <1>3, <1>t, <2>1 DEF PersistHSet, SnapshotInv
  <2>2. CASE breakerRedis' = [breakerRedis EXCEPT ![relay[p].dom] = relay[p].state]
    <3>1. /\ relay[p].state \in BrokenState /\ relay[p].state.at = relay[p].at
          /\ breakerNow <= relay[p].at + IOTimeout /\ relay[p].at \in Nat
      BY <1>3, <1>t DEF PersistHSet, MarksInv, BreakerTypeOK, RelayState
    <3>2. SUFFICES ASSUME NEW r \in BreakerReplicas, NEW s \in Slots, NEW d \in Domains,
                          breakerRefresh[r][s].pc = "merge", breakerRefresh[r][s].snap[d] = None, breakerRedis'[d] # None
                   PROVE  breakerRefresh[r][s].start <= breakerRedis'[d].at + IOTimeout
      BY <1>3 DEF PersistHSet, SnapshotInv
    <3>3. breakerRefresh[r][s].start <= breakerNow /\ breakerRefresh[r][s].start \in Nat /\ breakerNow \in Nat
      BY <1>t, <3>2 DEF RefreshInv, BreakerTypeOK, BreakerRefreshState
    <3>4. CASE d = relay[p].dom
      BY <1>t, <2>2, <3>1, <3>3, <3>4, TimingAssumption DEF BreakerTypeOK
    <3>5. CASE d # relay[p].dom
      BY <1>t, <2>2, <3>2, <3>5, Zenon DEF SnapshotInv, BreakerTypeOK
    <3>. QED BY <3>4, <3>5
  <2>. QED BY <1>3, <2>1, <2>2 DEF PersistHSet
<1>4. ASSUME NEW q \in BreakerReplicas, NEW u \in Slots, BreakerFetchAnswered(q, u) PROVE SnapshotInv'
  <2>1. breakerRefresh[q][u] \in BreakerRefreshState
    BY <1>t DEF BreakerTypeOK
  <2>2. breakerRefresh'[q][u].snap = breakerRedis
    BY <1>4, <1>t, <2>1 DEF BreakerFetchAnswered, BreakerTypeOK, BreakerRefreshState
  <2>3. \A r \in BreakerReplicas, s \in Slots : <<r, s>> # <<q, u>> => breakerRefresh'[r][s] = breakerRefresh[r][s]
    BY <1>4, <1>t DEF BreakerFetchAnswered, BreakerTypeOK
  <2>. QED BY <1>4, <1>t, <2>2, <2>3, ZenonT(60) DEF BreakerFetchAnswered, SnapshotInv
<1>5. ASSUME NEW q \in BreakerReplicas, NEW u \in Slots, BreakerFetchFailed(q, u) \/ Merge(q, u) PROVE SnapshotInv'
  <2>1. breakerRefresh' = [breakerRefresh EXCEPT ![q][u] = BreakerIdleRefresh] /\ breakerRedis' = breakerRedis
    BY <1>5 DEF BreakerFetchFailed, Merge
  <2>. QED BY <1>t, <2>1 DEF SnapshotInv, BreakerTypeOK, BreakerIdleRefresh
<1>6. CASE UNCHANGED breakerRefresh /\ breakerRedis' = [d \in Domains |-> None]
  BY <1>6 DEF SnapshotInv
<1>7. CASE UNCHANGED <<breakerRefresh, breakerRedis>>
  BY <1>7, <1>t DEF SnapshotInv
<1>. QED BY <1>1, <1>2, <1>3, <1>4, <1>5, <1>6, <1>7, Zenon
         DEF BreakerNext, breakerVars, RecordSuccess, MarkCheck, ShouldBreak, MarkWrite, PersistExpire,
             ClearBroken, ClearStats, ClearDel, KeyExpires, BreakerTick

\* The invariant is inductive.
LEMMA BreakerNextInv == BreakerInv /\ [BreakerNext]_breakerVars => BreakerInv'
BY BreakerNextTypeOK, NextMarksInv, NextRefreshInv, NextSnapshotInv DEF BreakerInv

\* Every map entry, in-flight call and counter of the breaker keeps its shape.
THEOREM TypeCorrect == BreakerSpec => []BreakerTypeOK
<1>1. BreakerInv => BreakerTypeOK
  BY DEF BreakerInv
<1>. QED BY <1>1, BreakerInitInv, BreakerNextInv, PTL DEF BreakerSpec

\* The deadlines that make a stale snapshot harmless hold in every state.
THEOREM InvariantHolds == BreakerSpec => []BreakerInv
BY BreakerInitInv, BreakerNextInv, PTL DEF BreakerSpec

\* One step of the breaker keeps a replica's own break that Redis holds.
LEMMA StepKeepsOwnBreak == ASSUME BreakerInv, [BreakerNext]_breakerVars PROVE KeepsOwnBreak
<1>t. BreakerTypeOK /\ MarksInv /\ RefreshInv /\ SnapshotInv
  BY DEF BreakerInv
<1>. SUFFICES ASSUME NEW r \in BreakerReplicas, NEW d \in Domains,
                     broken[r][d] # None, broken[r][d].by = r,
                     brokenLocally[r][d] = broken[r][d].at,
                     breakerRedis[d] = broken[r][d], broken'[r][d] = None
              PROVE  clear'[r] # clear[r]
  BY DEF KeepsOwnBreak
<1>1. ASSUME NEW p \in BreakerRelays, MarkWrite(p) PROVE FALSE
  <2>1. relay[p].rep \in BreakerReplicas /\ relay[p].dom \in Domains /\ relay[p].hits \in Nat /\ relay[p].at \in Nat
    BY <1>1, <1>t DEF MarkWrite, MarksInv, BreakerTypeOK, RelayState
  <2>2. EscalateTTL(relay[p].hits - 1) \in Nat
    BY <2>1, EscalateTTLType
  <2>. DEFINE st == [expiry |-> relay[p].at + EscalateTTL(relay[p].hits - 1),
                     hits |-> relay[p].hits, by |-> relay[p].rep, at |-> relay[p].at]
  <2>3. st # None
    BY <2>1, <2>2, NoneAssumption DEF BrokenState
  <2>4. broken' = [broken EXCEPT ![relay[p].rep][relay[p].dom] = st]
    BY <1>1 DEF MarkWrite
  <2>. HIDE DEF st
  <2>. QED BY <1>t, <2>1, <2>3, <2>4 DEF BreakerTypeOK
<1>2. ASSUME NEW q \in BreakerReplicas, NEW u \in Slots, Merge(q, u) PROVE FALSE
  <2>. DEFINE snap == breakerRefresh[q][u].snap
  <2>1. q = r /\ BreakerMerged(r, d, snap) = None
    BY <1>2, <1>t DEF Merge, BreakerTypeOK
  <2>2. snap[d] = None \/ snap[d] \in BrokenState
    BY <1>t DEF BreakerTypeOK, BreakerRefreshState, Maybe
  <2>3. Drops(r, d, snap)
    BY <2>1, <2>2, NoneAssumption DEF BreakerMerged
  <2>4. snap[d] = None /\ ~(breakerNow - broken[r][d].at < CacheTTL)
    <3>1. broken[r][d] \in BrokenState
      BY <1>t, Zenon DEF BreakerTypeOK, Maybe
    <3>2. broken[r][d].at # None
      BY <3>1, NoneAssumption, Zenon DEF BrokenState
    <3>. QED BY <2>3, <3>2 DEF Drops
  <2>5. /\ breakerRefresh[r][u].start <= breakerRedis[d].at + IOTimeout
        /\ breakerNow <= breakerRefresh[r][u].start + IOTimeout
    BY <1>2, <1>t, <2>1, <2>4, Zenon DEF Merge, SnapshotInv, RefreshInv
  <2>6. breakerRedis[d].at \in Nat /\ breakerRefresh[r][u].start \in Nat /\ breakerNow \in Nat
    BY <1>t DEF BreakerTypeOK, Maybe, BrokenState, BreakerRefreshState
  <2>. QED BY <2>4, <2>5, <2>6, TimingAssumption
<1>3. ASSUME NEW q \in BreakerReplicas, ClearBroken(q) PROVE clear'[r] # clear[r]
  <2>1. q = r
    BY <1>3, <1>t DEF ClearBroken, BreakerTypeOK
  <2>2. clear[r].pc = "idle" /\ clear'[r].pc = "stats"
    BY <1>3, <1>t, <2>1, Zenon DEF ClearBroken, BreakerTypeOK
  <2>. QED BY <2>2
<1>4. CASE UNCHANGED broken
  BY <1>4
<1>. QED BY <1>1, <1>2, <1>3, <1>4, Zenon
         DEF BreakerNext, breakerVars, RelayStart, RecordSuccess, MarkCheck, ShouldBreak, PersistHSet, PersistExpire,
             GetBroken, ClearStats, ClearDel, BreakerFetchAnswered, BreakerFetchFailed, KeyExpires, BreakerTick

\* A replica's own break that Redis holds is never lost to a stale refresh.
THEOREM OwnBreakIsKept == BreakerSpec => OwnBreakKept
BY BreakerInitInv, BreakerNextInv, StepKeepsOwnBreak, PTL DEF BreakerSpec, OwnBreakKept

-----------------------------------------------------------------------------
(* The leader election.                                                    *)

Idle(r) == leaderCall[r].kind = "none"

\* An attempt starts when it is due and ends within Latency of that.
AttemptsOnTime(r) ==
    IF Idle(r) THEN leaderNow <= due[r]
    ELSE due[r] <= leaderNow /\ leaderNow <= leaderCall[r].deadline /\ leaderCall[r].deadline = due[r] + Latency

\* Only an elected replica renews, and only the others acquire.
RenewsIffElected(r) ==
    /\ leaderCall[r].kind = "renew" => Elected(r) /\ leaderCall[r].res # "no"
    /\ leaderCall[r].kind = "acquire" => ~Elected(r)
    /\ Elected(r) => ticking[r]

\* Between attempts, and until Redis has seen the renewal, the lease outlasts
\* the next attempt; once Redis has granted it, it lasts a TTL from the start.
LeaseOutlasts(r) ==
    /\ Elected(r) /\ (Idle(r) \/ leaderCall[r].res = "sent") =>
           holder = r /\ due[r] + Latency < expiry
    /\ ~Idle(r) /\ leaderCall[r].res = "yes" => holder = r /\ due[r] + LeaderTTL <= expiry

Fresh(r) ==
    Idle(r) /\ ~isLeader[r] /\ ~fallback[r] /\ ~ticking[r]

\* The part of LeaseInv about one replica.
LeaseOf(r) ==
    /\ Up(r) => AttemptsOnTime(r) /\ RenewsIffElected(r) /\ LeaseOutlasts(r)
    /\ status[r] = "new" => Fresh(r)
    /\ releasing[r] => status[r] = "gone"

LeaseInv == \A r \in LeaderReplicas : LeaseOf(r)

LeaderInv == LeaderTypeOK /\ LeaseInv

-----------------------------------------------------------------------------
\* The initial state has the shape.
LEMMA LeaderInitInv == LeaderInit => LeaderInv
<1> SUFFICES ASSUME LeaderInit PROVE LeaderInv
  OBVIOUS
<1>1. NoCall \in Calls
  BY DEF NoCall, Calls
<1>2. LeaderTypeOK
  BY <1>1, LeaseAssumption DEF LeaderInit, LeaderTypeOK
<1>3. LeaseInv
  BY Zenon DEF LeaderInit, LeaseInv, LeaseOf, Up, Fresh, Idle, NoCall
<1> QED
  BY <1>2, <1>3 DEF LeaderInv

\* Every action keeps the shape of the state.
LEMMA LeaderNextTypeOK == LeaderTypeOK /\ [LeaderNext]_leaderVars => LeaderTypeOK'
<1> SUFFICES ASSUME LeaderTypeOK, [LeaderNext]_leaderVars PROVE LeaderTypeOK'
  OBVIOUS
<1> USE LeaseAssumption DEF LeaderTypeOK
<1>0. NoCall \in Calls
  BY DEF NoCall, Calls
<1>o. ASSUME NEW q \in LeaderReplicas, AttemptOver(q)
      PROVE  /\ leaderCall' \in [LeaderReplicas -> Calls] /\ due' \in [LeaderReplicas -> Nat]
             /\ ticking' \in [LeaderReplicas -> BOOLEAN]
  <2>1. NextDue(q) \in Nat
    BY DEF NextDue
  <2> QED
    BY <1>o, <1>0, <2>1 DEF AttemptOver
<1>a. ASSUME NEW q \in LeaderReplicas, NEW granted \in BOOLEAN, LeaderApply(q, granted) PROVE LeaderTypeOK'
  <2>1. leaderCall' \in [LeaderReplicas -> Calls]
    BY <1>a DEF LeaderApply, Calls
  <2> QED
    BY <1>a, <2>1 DEF LeaderApply
<1>1. ASSUME NEW q \in LeaderReplicas, LeaderStart(q) PROVE LeaderTypeOK'
  BY <1>1 DEF LeaderStart
<1>2. ASSUME NEW q \in LeaderReplicas, TryAcquire(q) PROVE LeaderTypeOK'
  BY <1>2 DEF TryAcquire, Calls
<1>3. ASSUME NEW q \in LeaderReplicas, RenewApplied(q) PROVE LeaderTypeOK'
  BY <1>3, <1>a DEF RenewApplied
<1>4. ASSUME NEW q \in LeaderReplicas, AcquireApplied(q) PROVE LeaderTypeOK'
  BY <1>4, <1>a DEF AcquireApplied
<1>5. ASSUME NEW q \in LeaderReplicas, RenewAnswered(q) PROVE LeaderTypeOK'
  BY <1>5, <1>o, Zenon DEF RenewAnswered, AttemptOver
<1>6. ASSUME NEW q \in LeaderReplicas, AcquireAnswered(q) PROVE LeaderTypeOK'
  BY <1>6, <1>o, Zenon DEF AcquireAnswered, AttemptOver
<1>7. ASSUME NEW q \in LeaderReplicas, FallBack(q) PROVE LeaderTypeOK'
  BY <1>7, <1>o, Zenon DEF FallBack, AttemptOver
<1>8. ASSUME NEW q \in LeaderReplicas, LeaderStop(q) PROVE LeaderTypeOK'
  BY <1>8, Zenon DEF LeaderStop, Elected
<1>9. ASSUME NEW q \in LeaderReplicas, LeaderRelease(q) PROVE LeaderTypeOK'
  BY <1>9 DEF LeaderRelease, Holder
<1>10. ASSUME NEW q \in LeaderReplicas, Crash(q) PROVE LeaderTypeOK'
  BY <1>10 DEF Crash
<1>11. CASE LeaderTick
  BY <1>11 DEF LeaderTick
<1>12. CASE UNCHANGED leaderVars
  BY <1>12 DEF leaderVars
<1> QED
  BY <1>1, <1>2, <1>3, <1>4, <1>5, <1>6, <1>7, <1>8, <1>9, <1>10, <1>11, <1>12 DEF LeaderNext

\* Every action keeps the deadlines that the lease rests on.
LEMMA NextLeaseInv == LeaderInv /\ [LeaderNext]_leaderVars => LeaseInv'
<1> SUFFICES ASSUME LeaderInv, [LeaderNext]_leaderVars, NEW r \in LeaderReplicas PROVE LeaseOf(r)'
  BY DEF LeaseInv
<1> USE LeaseAssumption DEF LeaderTypeOK
<1>0. LeaderTypeOK /\ LeaseOf(r)
  BY DEF LeaderInv, LeaseInv
<1>1. ASSUME NEW q \in LeaderReplicas, LeaderStart(q) PROVE LeaseOf(r)'
  BY <1>1, <1>0, SMTT(30) DEF LeaderStart, LeaseOf, Up, AttemptsOnTime, RenewsIffElected, LeaseOutlasts, Fresh, Elected,
     Idle, NoCall, Calls
<1>2. ASSUME NEW q \in LeaderReplicas, TryAcquire(q) PROVE LeaseOf(r)'
  BY <1>2, <1>0 DEF TryAcquire, LeaseOf, Up, AttemptsOnTime, RenewsIffElected, LeaseOutlasts, Fresh, Elected,
     Idle, NoCall, Calls
<1>3. ASSUME NEW q \in LeaderReplicas, RenewApplied(q) PROVE LeaseOf(r)'
  <2>0. LeaseOf(q)
    BY DEF LeaderInv, LeaseInv
  <2>1. CASE q = r
    <3>1. PICK granted \in BOOLEAN : LeaderApply(r, granted)
      BY <1>3, <2>1 DEF RenewApplied
    <3>2. /\ leaderCall'[r].kind = leaderCall[r].kind /\ leaderCall'[r].deadline = leaderCall[r].deadline
          /\ leaderCall'[r].res = IF granted THEN "yes" ELSE "no"
      BY <1>0, <3>1 DEF LeaderApply, Calls
    <3>3. /\ leaderCall[r].kind = "renew" /\ leaderCall[r].res = "sent" /\ due[r] \in Nat
          /\ leaderCall[r].deadline \in Nat
      BY <1>0, <1>3, <2>1, <3>1 DEF RenewApplied, LeaderApply, Calls
    <3>4. UNCHANGED <<leaderNow, status, isLeader, fallback, ticking, due, releasing>>
      BY <3>1, Zenon DEF LeaderApply
    <3>5. CASE Up(r) /\ granted
      <4>1. holder' = r /\ expiry' = leaderNow + LeaderTTL
        BY <3>1, <3>3, <3>5, <1>0, Zenon DEF LeaderApply, Renews, Holder
      <4>2. due[r] <= leaderNow
        BY <1>0, <3>3, <3>5 DEF LeaseOf, AttemptsOnTime, Idle
      <4> QED
        BY <1>0, <3>2, <3>3, <3>4, <3>5, <4>1, <4>2 DEF LeaseOf, Up, AttemptsOnTime, RenewsIffElected,
           LeaseOutlasts, Fresh, Elected, Idle
    <3>6. CASE Up(r) /\ ~granted
      BY <1>0, <3>1, <3>2, <3>3, <3>4, <3>6 DEF LeaderApply, Renews, Holder, LeaseOf, Up, AttemptsOnTime,
         RenewsIffElected, LeaseOutlasts, Fresh, Elected, Idle
    <3>7. CASE ~Up(r)
      BY <1>0, <3>2, <3>3, <3>4, <3>7 DEF LeaseOf, Up, AttemptsOnTime, RenewsIffElected, LeaseOutlasts, Fresh,
         Elected, Idle
    <3> QED
      BY <3>5, <3>6, <3>7
  <2>2. CASE q # r
    BY <1>3, <1>0, <2>0, <2>2 DEF RenewApplied, LeaderApply, Renews, Holder, LeaseOf, Up, AttemptsOnTime,
       RenewsIffElected, LeaseOutlasts, Fresh, Elected, Idle, NoCall, Calls
  <2> QED
    BY <2>1, <2>2
<1>4. ASSUME NEW q \in LeaderReplicas, AcquireApplied(q) PROVE LeaseOf(r)'
  <2>0. LeaseOf(q)
    BY DEF LeaderInv, LeaseInv
  <2>1. CASE q = r
    <3>1. PICK granted \in BOOLEAN : LeaderApply(r, granted)
      BY <1>4, <2>1 DEF AcquireApplied
    <3>2. /\ leaderCall'[r].kind = leaderCall[r].kind /\ leaderCall'[r].deadline = leaderCall[r].deadline
          /\ leaderCall'[r].res = IF granted THEN "yes" ELSE "no"
      BY <1>0, <3>1 DEF LeaderApply, Calls
    <3>3. /\ leaderCall[r].kind = "acquire" /\ leaderCall[r].res = "sent" /\ due[r] \in Nat
          /\ leaderCall[r].deadline \in Nat
      BY <1>0, <1>4, <2>1, <3>1, Zenon DEF AcquireApplied, LeaderApply, Calls
    <3>4. UNCHANGED <<leaderNow, status, isLeader, fallback, ticking, due, releasing>>
      BY <3>1 DEF LeaderApply
    <3>5. CASE Up(r) /\ granted
      <4>1. holder' = r /\ expiry' = leaderNow + LeaderTTL
        BY <3>1, <3>3, <3>5, <1>0, Zenon DEF LeaderApply, Renews, Holder
      <4>2. due[r] <= leaderNow
        BY <1>0, <3>3, <3>5 DEF LeaseOf, AttemptsOnTime, Idle
      <4> QED
        BY <1>0, <3>2, <3>3, <3>4, <3>5, <4>1, <4>2 DEF LeaseOf, Up, AttemptsOnTime, RenewsIffElected,
           LeaseOutlasts, Fresh, Elected, Idle
    <3>6. CASE Up(r) /\ ~granted
      BY <1>0, <3>1, <3>2, <3>3, <3>4, <3>6, SMTT(30) DEF LeaderApply, Renews, Holder, LeaseOf, Up, AttemptsOnTime,
         RenewsIffElected, LeaseOutlasts, Fresh, Elected, Idle
    <3>7. CASE ~Up(r)
      BY <1>0, <3>2, <3>3, <3>4, <3>7 DEF LeaseOf, Up, AttemptsOnTime, RenewsIffElected, LeaseOutlasts, Fresh,
         Elected, Idle
    <3> QED
      BY <3>5, <3>6, <3>7
  <2>2. CASE q # r
    BY <1>4, <1>0, <2>0, <2>2, SMTT(30) DEF AcquireApplied, LeaderApply, Holder, LeaseOf, Up, AttemptsOnTime,
       RenewsIffElected, LeaseOutlasts, Fresh, Elected, Idle, NoCall, Calls
  <2> QED
    BY <2>1, <2>2
<1>5. ASSUME NEW q \in LeaderReplicas, RenewAnswered(q) PROVE LeaseOf(r)'
  <2>0. LeaseOf(q)
    BY DEF LeaderInv, LeaseInv
  <2>1. CASE q = r
    BY <1>5, <1>0, <2>1, SMTT(30) DEF RenewAnswered, AttemptOver, NextDue, LeaseOf, Up, AttemptsOnTime, RenewsIffElected,
       LeaseOutlasts, Fresh, Elected, Idle, NoCall, Calls
  <2>2. CASE q # r
    BY <1>5, <1>0, <2>0, <2>2, SMTT(30) DEF RenewAnswered, AttemptOver, NextDue, LeaseOf, Up, AttemptsOnTime,
       RenewsIffElected, LeaseOutlasts, Fresh, Elected, Idle, NoCall, Calls
  <2> QED
    BY <2>1, <2>2
<1>6. ASSUME NEW q \in LeaderReplicas, AcquireAnswered(q) PROVE LeaseOf(r)'
  <2>0. LeaseOf(q)
    BY DEF LeaderInv, LeaseInv
  <2>1. CASE q = r
    BY <1>6, <1>0, <2>1, SMTT(30) DEF AcquireAnswered, AttemptOver, NextDue, LeaseOf, Up, AttemptsOnTime,
       RenewsIffElected, LeaseOutlasts, Fresh, Elected, Idle, NoCall, Calls
  <2>2. CASE q # r
    BY <1>6, <1>0, <2>0, <2>2 DEF AcquireAnswered, AttemptOver, NextDue, LeaseOf, Up, AttemptsOnTime,
       RenewsIffElected, LeaseOutlasts, Fresh, Elected, Idle, NoCall, Calls
  <2> QED
    BY <2>1, <2>2
<1>7. ASSUME NEW q \in LeaderReplicas, FallBack(q) PROVE LeaseOf(r)'
  <2>0. LeaseOf(q)
    BY DEF LeaderInv, LeaseInv
  <2>1. CASE q = r
    BY <1>7, <1>0, <2>1, SMTT(30) DEF FallBack, AttemptOver, NextDue, LeaseOf, Up, AttemptsOnTime, RenewsIffElected,
       LeaseOutlasts, Fresh, Elected, Idle, NoCall, Calls
  <2>2. CASE q # r
    BY <1>7, <1>0, <2>0, <2>2, SMTT(30) DEF FallBack, AttemptOver, NextDue, LeaseOf, Up, AttemptsOnTime, RenewsIffElected,
       LeaseOutlasts, Fresh, Elected, Idle, NoCall, Calls
  <2> QED
    BY <2>1, <2>2
<1>8. ASSUME NEW q \in LeaderReplicas, LeaderStop(q) PROVE LeaseOf(r)'
  BY <1>8, <1>0, SMTT(30) DEF LeaderStop, LeaseOf, Up, AttemptsOnTime, RenewsIffElected, LeaseOutlasts, Fresh, Elected,
     Idle, NoCall, Calls
<1>9. ASSUME NEW q \in LeaderReplicas, LeaderRelease(q) PROVE LeaseOf(r)'
  <2>0. LeaseOf(q)
    BY DEF LeaderInv, LeaseInv
  <2>1. CASE q = r
    BY <1>9, <1>0, <2>1, SMTT(30) DEF LeaderRelease, Holder, LeaseOf, Up, AttemptsOnTime, RenewsIffElected, LeaseOutlasts,
       Fresh, Elected, Idle, NoCall, Calls
  <2>2. CASE q # r
    BY <1>9, <1>0, <2>0, <2>2, SMTT(30) DEF LeaderRelease, Holder, LeaseOf, Up, AttemptsOnTime, RenewsIffElected,
       LeaseOutlasts, Fresh, Elected, Idle, NoCall, Calls
  <2> QED
    BY <2>1, <2>2
<1>10. ASSUME NEW q \in LeaderReplicas, Crash(q) PROVE LeaseOf(r)'
  BY <1>10, <1>0, SMTT(30) DEF Crash, LeaseOf, Up, AttemptsOnTime, RenewsIffElected, LeaseOutlasts, Fresh, Elected, Idle,
     NoCall, Calls
<1>11. CASE LeaderTick
  BY <1>11, <1>0, SMTT(30) DEF LeaderTick, OnTime, LeaseOf, Up, AttemptsOnTime, RenewsIffElected, LeaseOutlasts, Fresh,
     Elected, Idle, NoCall, Calls
<1>12. CASE UNCHANGED leaderVars
  BY <1>12, <1>0 DEF leaderVars, LeaseOf, Up, AttemptsOnTime, RenewsIffElected, LeaseOutlasts, Fresh, Elected,
     Idle, NoCall, Calls
<1> QED
  BY <1>1, <1>2, <1>3, <1>4, <1>5, <1>6, <1>7, <1>8, <1>9, <1>10, <1>11, <1>12 DEF LeaderNext

\* The shape of the state and the deadlines of the lease hold in every state.
THEOREM LeaseHolds == LeaderSpec => []LeaderInv
<1>1. LeaderInv /\ [LeaderNext]_leaderVars => LeaderInv'
  BY LeaderNextTypeOK, NextLeaseInv DEF LeaderInv
<1> QED
  BY LeaderInitInv, <1>1, PTL DEF LeaderSpec

\* A replica that leads by election holds the unexpired lock, for any number
\* of replicas, any TTL and any renew interval with Renew + 2 * Latency < TTL.
THEOREM ElectedHolds == LeaderSpec => []ElectedHoldsLock
<1>1. LeaderInv => ElectedHoldsLock
  <2> SUFFICES ASSUME LeaderInv, NEW r \in LeaderReplicas, Up(r), Elected(r) PROVE Holder = r
    BY DEF ElectedHoldsLock
  <2>1. LeaderTypeOK /\ LeaseOf(r)
    BY DEF LeaderInv, LeaseInv
  <2> QED
    BY <2>1, LeaseAssumption DEF LeaderTypeOK, Holder, LeaseOf, Up, AttemptsOnTime, RenewsIffElected,
       LeaseOutlasts, Fresh, Elected, Idle, NoCall, Calls
<1> QED
  BY LeaseHolds, <1>1, PTL

\* Mutual exclusion: no two replicas lead by election at once.
THEOREM AtMostOneElected ==
    LeaderSpec => [](\A r, q \in LeaderReplicas : Up(r) /\ Elected(r) /\ Up(q) /\ Elected(q) => r = q)
<1>1. ElectedHoldsLock => \A r, q \in LeaderReplicas : Up(r) /\ Elected(r) /\ Up(q) /\ Elected(q) => r = q
  BY DEF ElectedHoldsLock
<1> QED
  BY ElectedHolds, <1>1, PTL

-----------------------------------------------------------------------------
(* leader.go implements Leadership.                                        *)

\* Seat is the pod that leads, and None when there is none.
SeatRight ==
    /\ \A r \in LeaderReplicas : Leads(r) => Seat = r
    /\ (\A r \in LeaderReplicas : ~Leads(r)) => Seat = None

\* The lease makes the mapping a function of who leads: with at most one
\* elected pod the choice in Seat is no choice.
LEMMA SeatIsRight == LeaderInv => SeatRight
<1> SUFFICES ASSUME LeaderInv PROVE SeatRight
  OBVIOUS
<1>1. ASSUME NEW r \in LeaderReplicas, Leads(r) PROVE Holder = r
  <2>1. LeaderTypeOK /\ LeaseOf(r)
    BY DEF LeaderInv, LeaseInv
  <2> QED
    BY <1>1, <2>1, LeaseAssumption DEF LeaderTypeOK, Leads, Holder, LeaseOf, Up, AttemptsOnTime,
       RenewsIffElected, LeaseOutlasts, Elected, Idle, Calls
<1>2. ASSUME NEW r \in LeaderReplicas, Leads(r) PROVE Seat = r
  <2>1. Seat \in LeaderReplicas /\ Leads(Seat)
    BY <1>2, Zenon DEF Seat
  <2> QED
    BY <1>1, <1>2, <2>1
<1>3. ASSUME \A r \in LeaderReplicas : ~Leads(r) PROVE Seat = None
  BY <1>3, Zenon DEF Seat
<1> QED
  BY <1>2, <1>3, Zenon DEF SeatRight

\* A step after which the same pods lead and the same are gone is a stutter of
\* Leadership.
LEMMA SameSeat ==
    ASSUME SeatRight, SeatRight', \A r \in LeaderReplicas : Leads(r)' <=> Leads(r), Left' = Left
    PROVE  UNCHANGED Leader!seatVars
<1>1. CASE \E r \in LeaderReplicas : Leads(r)
  BY <1>1 DEF SeatRight, Leader!seatVars
<1>2. CASE \A r \in LeaderReplicas : ~Leads(r)
  BY <1>2, Zenon DEF SeatRight, Leader!seatVars
<1> QED
  BY <1>1, <1>2

\* Every step of the election is a step of Leadership or none: an answered SET
\* NX takes the empty seat, a lost renewal or a fallback yields it, Stop and a
\* crash depart, and the rest is not seen from outside.
LEMMA StepImplements ==
    ASSUME LeaderInv, LeaderInv', SeatRight, SeatRight', [LeaderNext]_leaderVars
    PROVE  [Leader!SeatNext]_(Leader!seatVars)
<1> USE DEF LeaderInv, LeaderTypeOK
<1>same. ASSUME UNCHANGED <<status, isLeader, fallback>> PROVE UNCHANGED Leader!seatVars
  <2>1. /\ \A r \in LeaderReplicas : Leads(r)' <=> Leads(r)
        /\ Left' = Left
    BY <1>same, Zenon DEF Leads, Up, Elected, Left
  <2> QED
    BY <2>1, SameSeat, Zenon
<1>depart. ASSUME NEW q \in LeaderReplicas, Up(q), status' = [status EXCEPT ![q] = "gone"], UNCHANGED <<isLeader, fallback>>
           PROVE  Leader!Depart(q)
  <2>1. q \notin Left /\ Left' = Left \cup {q}
    BY <1>depart DEF Left, Up
  <2>2. /\ \A r \in LeaderReplicas : r # q => (Leads(r)' <=> Leads(r))
        /\ ~Leads(q)'
    BY <1>depart, Zenon DEF Leads, Up, Elected
  <2>3. CASE Leads(q)
    <3>1. Seat = q /\ \A r \in LeaderReplicas : ~Leads(r)'
      BY <2>2, <2>3, Zenon DEF SeatRight
    <3> QED
      BY <2>1, <3>1, Zenon DEF SeatRight, Leader!Depart
  <2>4. CASE ~Leads(q)
    <3>1. /\ \A r \in LeaderReplicas : Leads(r)' <=> Leads(r)
          /\ Seat # q
      BY <2>2, <2>4, LeaseAssumption, Zenon DEF SeatRight
    <3>2. Seat' = Seat
      BY <3>1, Zenon DEF SeatRight
    <3> QED
      BY <2>1, <3>1, <3>2, Zenon DEF Leader!Depart
  <2> QED
    BY <2>3, <2>4, Zenon
<1>yield. ASSUME NEW q \in LeaderReplicas, UNCHANGED status, ~Elected(q)',
                 \A r \in LeaderReplicas : r # q => isLeader'[r] = isLeader[r] /\ fallback'[r] = fallback[r]
          PROVE  Leader!Yield \/ UNCHANGED Leader!seatVars
  <2>1. /\ \A r \in LeaderReplicas : r # q => (Leads(r)' <=> Leads(r))
        /\ ~Leads(q)'
        /\ Left' = Left
    BY <1>yield, Zenon DEF Leads, Up, Elected, Left
  <2>2. CASE Leads(q)
    <3>1. Seat = q /\ \A r \in LeaderReplicas : ~Leads(r)'
      BY <2>1, <2>2, Zenon DEF SeatRight
    <3> QED
      BY <2>1, <3>1, LeaseAssumption, Zenon DEF SeatRight, Leader!Yield
  <2>3. CASE ~Leads(q)
    BY <2>1, <2>3, SameSeat, Zenon
  <2> QED
    BY <2>2, <2>3, Zenon
<1>1. ASSUME NEW q \in LeaderReplicas, LeaderStart(q) PROVE UNCHANGED Leader!seatVars
  <2>1. /\ \A r \in LeaderReplicas : Leads(r)' <=> Leads(r)
        /\ Left' = Left
    BY <1>1, Zenon DEF LeaderStart, LeaseInv, LeaseOf, Fresh, Leads, Up, Elected, Left
  <2> QED
    BY <2>1, SameSeat, Zenon
<1>2. ASSUME NEW q \in LeaderReplicas, TryAcquire(q) PROVE UNCHANGED Leader!seatVars
  BY <1>2, <1>same DEF TryAcquire
<1>3. ASSUME NEW q \in LeaderReplicas, RenewApplied(q) PROVE UNCHANGED Leader!seatVars
  BY <1>3, <1>same DEF RenewApplied, LeaderApply
<1>4. ASSUME NEW q \in LeaderReplicas, AcquireApplied(q) PROVE UNCHANGED Leader!seatVars
  BY <1>4, <1>same, Zenon DEF AcquireApplied, LeaderApply
<1>5. ASSUME NEW q \in LeaderReplicas, RenewAnswered(q) PROVE Leader!Yield \/ UNCHANGED Leader!seatVars
  <2>1. UNCHANGED <<status, fallback>> /\ isLeader' = [isLeader EXCEPT ![q] = leaderCall[q].res = "yes"]
    BY <1>5, Zenon DEF RenewAnswered, AttemptOver
  <2>2. CASE leaderCall[q].res = "yes"
    <3>1. Up(q) => Elected(q)
      BY <1>5, Zenon DEF RenewAnswered, LeaseInv, LeaseOf, RenewsIffElected
    <3>2. /\ \A r \in LeaderReplicas : Leads(r)' <=> Leads(r)
          /\ Left' = Left
      BY <2>1, <2>2, <3>1, Zenon DEF Leads, Up, Elected, Left
    <3> QED
      BY <3>2, SameSeat, Zenon
  <2>3. CASE leaderCall[q].res # "yes"
    <3>1. UNCHANGED status /\ ~Elected(q)' /\ \A r \in LeaderReplicas : r # q => isLeader'[r] = isLeader[r] /\ fallback'[r] = fallback[r]
      BY <2>1, <2>3, Zenon DEF Elected
    <3> QED
      BY <3>1, <1>yield, Zenon
  <2> QED
    BY <2>2, <2>3, Zenon
<1>6. ASSUME NEW q \in LeaderReplicas, AcquireAnswered(q)
      PROVE  Leader!Take(q) \/ Leader!Yield \/ UNCHANGED Leader!seatVars
  <2>1. /\ UNCHANGED status
        /\ isLeader' = [isLeader EXCEPT ![q] = leaderCall[q].res = "yes"]
        /\ fallback' = [fallback EXCEPT ![q] = FALSE]
    BY <1>6, Zenon DEF AcquireAnswered, AttemptOver
  <2>2. CASE leaderCall[q].res = "yes" /\ Up(q)
    <3>1. Leads(q)' /\ ~Leads(q)
      BY <1>6, <2>1, <2>2, Zenon DEF AcquireAnswered, LeaseInv, LeaseOf, RenewsIffElected, Leads, Up, Elected
    <3>2. \A r \in LeaderReplicas : r # q => (Leads(r)' <=> Leads(r))
      BY <2>1, Zenon DEF Leads, Up, Elected
    <3>3. \A r \in LeaderReplicas : r # q => ~Leads(r)
      BY <3>1, <3>2, Zenon DEF SeatRight
    <3>4. Seat = None /\ Seat' = q
      BY <3>1, <3>3, Zenon DEF SeatRight
    <3>5. q \notin Left /\ Left' = Left
      BY <2>1, <2>2, Zenon DEF Left, Up
    <3> QED
      BY <3>4, <3>5, Zenon DEF Leader!Take
  <2>3. CASE ~Up(q)
    <3>1. /\ \A r \in LeaderReplicas : Leads(r)' <=> Leads(r)
          /\ Left' = Left
      BY <2>1, <2>3, Zenon DEF Leads, Up, Elected, Left
    <3> QED
      BY <3>1, SameSeat, Zenon
  <2>4. CASE leaderCall[q].res # "yes"
    <3>1. ~Elected(q)' /\ \A r \in LeaderReplicas : r # q => isLeader'[r] = isLeader[r] /\ fallback'[r] = fallback[r]
      BY <2>1, <2>4, Zenon DEF Elected
    <3> QED
      BY <2>1, <3>1, <1>yield, Zenon
  <2> QED
    BY <2>2, <2>3, <2>4, Zenon
<1>7. ASSUME NEW q \in LeaderReplicas, FallBack(q) PROVE Leader!Yield \/ UNCHANGED Leader!seatVars
  <2>1. UNCHANGED status /\ ~Elected(q)' /\ \A r \in LeaderReplicas : r # q => isLeader'[r] = isLeader[r] /\ fallback'[r] = fallback[r]
    BY <1>7 DEF FallBack, AttemptOver, Elected
  <2> QED
    BY <2>1, <1>yield
<1>8. ASSUME NEW q \in LeaderReplicas, LeaderStop(q) PROVE Leader!Depart(q)
  BY <1>8, <1>depart, Zenon DEF LeaderStop
<1>9. ASSUME NEW q \in LeaderReplicas, LeaderRelease(q) PROVE UNCHANGED Leader!seatVars
  BY <1>9, <1>same DEF LeaderRelease
<1>10. ASSUME NEW q \in LeaderReplicas, Crash(q) PROVE Leader!Depart(q)
  BY <1>10, <1>depart, Zenon DEF Crash
<1>11. CASE LeaderTick
  BY <1>11, <1>same DEF LeaderTick
<1>12. CASE UNCHANGED leaderVars
  BY <1>12, <1>same DEF leaderVars
<1> QED
  BY <1>1, <1>2, <1>3, <1>4, <1>5, <1>6, <1>7, <1>8, <1>9, <1>10, <1>11, <1>12, Zenon DEF LeaderNext, Leader!SeatNext

\* leader.go implements the abstract specification of Leadership: for any number
\* of pods, one leader at a time, the lead passing only through a moment without
\* one and never back to a pod that is gone.
THEOREM ElectionImplementsLeadership == LeaderSpec => LeadershipKept
<1>1. LeaderInit => Leader!SeatInit
  <2> SUFFICES ASSUME LeaderInit PROVE Leader!SeatInit
    OBVIOUS
  <2>1. SeatRight
    BY LeaderInitInv, SeatIsRight
  <2>2. \A r \in LeaderReplicas : ~Leads(r)
    BY DEF LeaderInit, Leads, Up
  <2>3. Left = {}
    BY DEF LeaderInit, Left
  <2> QED
    BY <2>1, <2>2, <2>3 DEF SeatRight, Leader!SeatInit
<1>2. LeaderInv /\ LeaderInv' /\ SeatRight /\ SeatRight' /\ [LeaderNext]_leaderVars => [Leader!SeatNext]_(Leader!seatVars)
  BY StepImplements
<1> QED
  BY <1>1, <1>2, LeaseHolds, SeatIsRight, PTL DEF LeaderSpec, LeadershipKept, Leader!SeatSpec

-----------------------------------------------------------------------------
\* A write under way knows where it goes.
Addressed ==
    \A q \in FlagReqs : flagReq[q].pc \in {"local", "redis"} => flagReq[q].rep \in FlagReplicas /\ flagReq[q].key \in FlagKeys

\* While a refresh runs, what Redis holds for a key is among what it held since
\* the SCAN, and so is what was read for a key that is not to be read any more: a
\* key the SCAN did not list had no value then.
ReadsHeld ==
    \A r \in FlagReplicas : flagPoll[r].pc = "get" =>
        \A k \in FlagKeys : /\ flagRedis[k] \in flagHeld[r][k]
                            /\ k \notin flagPoll[r].todo => flagPoll[r].got[k] \in flagHeld[r][k]

FlagInv == FlagTypeOK /\ Addressed /\ ReadsHeld

\* No refresh and no write is under way.
LEMMA FlagInitInv == FlagInit => FlagInv
<1> SUFFICES ASSUME FlagInit PROVE FlagInv
  OBVIOUS
<1>1. {TRUE, None} \subseteq FlagValues /\ None \in FlagValues
  BY DEF FlagValues
<1>2. NoFlags \in [FlagKeys -> FlagValues]
  BY <1>1, Zenon DEF NoFlags
<1>3. FlagTypeOK
  BY <1>1, <1>2, Zenon DEF FlagInit, FlagTypeOK, FlagReqState, FlagPollState, FlagIdlePoll
<1>4. Addressed /\ ReadsHeld
  BY DEF FlagInit, Addressed, ReadsHeld, FlagIdlePoll
<1>5. QED
  BY <1>3, <1>4 DEF FlagInv

\* A write changes the snapshot, which no refresh reads, and then Redis, where
\* the key is recorded as having held it by every refresh.
LEMMA WriteKeepsInv == ASSUME FlagInv, NEW q \in FlagReqs, FlagReqNext(q) PROVE FlagInv'
<1> USE DEF FlagInv
<1>1. CASE \E r \in FlagReplicas, k \in FlagKeys, v \in {FALSE, None} : FlagWrite(q, r, k, v)
  <2>1. PICK r \in FlagReplicas, k \in FlagKeys, v \in {FALSE, None} : FlagWrite(q, r, k, v)
    BY <1>1, Zenon
  <2>2. v \in FlagValues
    BY Zenon DEF FlagValues
  <2>3. FlagTypeOK'
    BY <2>1, <2>2 DEF FlagWrite, FlagTypeOK, FlagReqState
  <2>4. Addressed' /\ ReadsHeld'
    BY <2>1, Zenon DEF FlagWrite, Addressed, ReadsHeld, FlagTypeOK
  <2>5. QED
    BY <2>3, <2>4
<1>2. CASE \E r \in FlagReplicas, f \in FlagNames : DeleteGlobal(q, r, f)
  <2>1. PICK r \in FlagReplicas, f \in FlagNames : DeleteGlobal(q, r, f)
    BY <1>2
  <2>2. <<f, Global>> \in FlagKeys /\ None \in FlagValues
    BY Zenon DEF FlagKeys, FlagValues
  <2>3. FlagTypeOK'
    BY <2>1, <2>2, Zenon DEF DeleteGlobal, DropsOverride, FlagTypeOK, FlagReqState
  <2>4. Addressed' /\ ReadsHeld'
    BY <2>1, <2>2, Zenon DEF DeleteGlobal, Addressed, ReadsHeld, FlagTypeOK
  <2>5. QED
    BY <2>3, <2>4
<1>3. CASE DeleteGlobalLocal(q)
  <2>1. None \in FlagValues
    BY DEF FlagValues
  <2>2. FlagTypeOK'
    BY <1>3, <2>1, ZenonT(60) DEF DeleteGlobalLocal, FlagTypeOK, FlagReqState
  <2>3. Addressed' /\ ReadsHeld'
    BY <1>3 DEF DeleteGlobalLocal, Addressed, ReadsHeld, FlagTypeOK, FlagReqState
  <2>4. QED
    BY <2>2, <2>3
<1>4. CASE \E err \in BOOLEAN : FlagWriteRedis(q, err)
  <2> DEFINE k == flagReq[q].key
  <2>1. k \in FlagKeys /\ flagReq[q].val \in FlagValues /\ flagRedis[k] \in FlagValues
    BY <1>4 DEF FlagWriteRedis, Addressed, FlagTypeOK, FlagReqState
  <2>2. PICK w \in FlagValues :
           /\ flagRedis' = [flagRedis EXCEPT ![k] = w]
           /\ flagHeld' = [r \in FlagReplicas |-> [flagHeld[r] EXCEPT ![k] = flagHeld[r][k] \cup {w}]]
    BY <1>4, <2>1, Zenon DEF FlagWriteRedis
  <2>3. flagReq' = [flagReq EXCEPT ![q].pc = "done"] /\ UNCHANGED <<snapshot, fileFlags, flagPoll>>
    BY <1>4 DEF FlagWriteRedis
  <2> HIDE DEF k
  <2>4. FlagTypeOK'
    BY <2>1, <2>2, <2>3, ZenonT(60) DEF FlagTypeOK, FlagReqState
  <2>5. Addressed'
    BY <2>3 DEF Addressed, FlagTypeOK, FlagReqState
  <2>6. ReadsHeld'
    BY <2>1, <2>2, <2>3 DEF ReadsHeld, FlagTypeOK
  <2>7. QED
    BY <2>4, <2>5, <2>6
<1>5. QED
  BY <1>1, <1>2, <1>3, <1>4, Zenon DEF FlagReqNext

\* A refresh records what Redis holds when it lists the keys and reads what Redis
\* holds when it asks.
LEMMA RefreshKeepsReads == ASSUME FlagInv, NEW r \in FlagReplicas, FlagRefresh(r) PROVE FlagInv'
<1> USE DEF FlagInv
<1>1. None \in FlagValues /\ NoFlags \in [FlagKeys -> FlagValues]
  BY DEF FlagValues, NoFlags
<1>2. CASE FlagScan(r)
  <2>1. FlagTypeOK'
    BY <1>1, <1>2 DEF FlagScan, FlagTypeOK, FlagPollState
  <2>2. Addressed'
    BY <1>2, Zenon DEF FlagScan, Addressed
  <2>3. ReadsHeld'
    BY <1>2 DEF FlagScan, ReadsHeld, FlagTypeOK, NoFlags
  <2>4. QED
    BY <2>1, <2>2, <2>3
<1>3. CASE FlagGetFails(r) \/ FlagStoreSnapshot(r)
  <2>1. flagPoll' = [flagPoll EXCEPT ![r] = FlagIdlePoll] /\ flagHeld' = [flagHeld EXCEPT ![r] = [k \in FlagKeys |-> {}]]
        /\ UNCHANGED <<flagRedis, fileFlags, flagReq>>
    BY <1>3, Zenon DEF FlagGetFails, FlagStoreSnapshot
  <2>2. snapshot' \in [FlagReplicas -> [FlagKeys -> FlagValues]]
    BY <1>3, Zenon DEF FlagGetFails, FlagStoreSnapshot, Refreshed, FlagTypeOK, FlagPollState
  <2>3. FlagTypeOK'
    BY <1>1, <2>1, <2>2, Zenon DEF FlagTypeOK, FlagIdlePoll, FlagPollState
  <2>4. Addressed' /\ ReadsHeld'
    BY <2>1, Zenon DEF Addressed, ReadsHeld, FlagTypeOK, FlagIdlePoll
  <2>5. QED
    BY <2>3, <2>4
<1>4. CASE \E k \in FlagKeys : FlagGet(r, k)
  <2>1. PICK k \in FlagKeys : FlagGet(r, k)
    BY <1>4
  <2>2. FlagTypeOK'
    <3>1. flagPoll[r] \in FlagPollState /\ flagRedis[k] \in FlagValues
      BY DEF FlagTypeOK
    <3>2. [flagPoll[r] EXCEPT !.todo = @ \ {k}, !.got[k] = flagRedis[k]] \in FlagPollState
      BY <3>1, Zenon DEF FlagPollState
    <3>3. flagPoll' = [flagPoll EXCEPT ![r] = [flagPoll[r] EXCEPT !.todo = @ \ {k}, !.got[k] = flagRedis[k]]]
      BY <2>1, Zenon DEF FlagGet, FlagTypeOK, FlagPollState
    <3>4. flagPoll' \in [FlagReplicas -> FlagPollState]
      BY <3>2, <3>3 DEF FlagTypeOK
    <3>5. QED
      BY <2>1, <3>4 DEF FlagGet, FlagTypeOK
  <2>3. Addressed'
    BY <2>1 DEF FlagGet, Addressed
  <2>4. ReadsHeld'
    BY <2>1 DEF FlagGet, ReadsHeld, FlagTypeOK, FlagPollState
  <2>5. QED
    BY <2>2, <2>3, <2>4
<1>5. QED
  BY <1>2, <1>3, <1>4 DEF FlagRefresh

\* What a refresh stores for a key is something Redis held for it while the
\* refresh ran, however many instances write, local writes land and commands
\* fail meanwhile (featureflag/redis.go, refresh).
THEOREM SnapshotsAlwaysRegular == FlagSpec => SnapshotsRegular
<1>1. FlagInv /\ [FlagNext]_flagVars => FlagInv'
  <2>1. CASE FlagNext
    BY <2>1, WriteKeepsInv, RefreshKeepsReads DEF FlagNext
  <2>2. CASE UNCHANGED flagVars
    BY <2>2, Zenon DEF flagVars, FlagInv, FlagTypeOK, Addressed, ReadsHeld
  <2>3. QED
    BY <2>1, <2>2
<1>2. ASSUME FlagInv, NEW r \in FlagReplicas, FlagStoreSnapshot(r), NEW k \in FlagKeys
      PROVE  snapshot'[r][k] \in flagHeld[r][k]
  BY <1>2, Zenon DEF FlagInv, FlagTypeOK, FlagStoreSnapshot, Refreshed, ReadsHeld
<1>3. FlagInv => [\A r \in FlagReplicas : FlagStoreSnapshot(r) =>
          \A k \in FlagKeys : snapshot'[r][k] \in flagHeld[r][k]]_flagVars
  BY <1>2
<1>4. QED
  BY <1>1, <1>3, FlagInitInv, PTL DEF FlagSpec, SnapshotsRegular

=============================================================================
