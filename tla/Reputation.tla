------------------------------ MODULE Reputation ------------------------------
(***************************************************************************)
(* Which endpoint a relay or a WebSocket goes to, given every candidate's  *)
(* score (reputation/selector.go, selector_spread.go), and the share of    *)
(* picks the concentration cap leaves each operator (concentration.go).    *)
(* A random draw is the set of its outcomes.  Latencies and connection     *)
(* loads weigh a draw and never empty it, so they leave that set alone.    *)
(***************************************************************************)
EXTENDS Sage, Naturals, FiniteSets, FiniteSetsExt, Sequences, Functions, SequencesExt

CONSTANTS
    Tier1Threshold, Tier2Threshold, ProbationThreshold, MinThreshold,
    Operators,          \* operators of a pool
    CapNum, CapTwoNum, CapDen,  \* MaxShare and TwoOperatorMaxShare, as fractions
    Ceiling,            \* DisplacementCeiling; 0 is none
    Masses              \* the masses an operator may have in a pool

VARIABLE mass           \* mass[o]: the summed weight of o's candidates

-----------------------------------------------------------------------------
\* classify: the smaller, the better; 5 is filtered out.
Classify(score) ==
    CASE score < MinThreshold -> 5
      [] score >= MinThreshold /\ score < ProbationThreshold -> 4
      [] score >= ProbationThreshold /\ score >= Tier1Threshold -> 1
      [] score >= ProbationThreshold /\ score < Tier1Threshold /\ score >= Tier2Threshold -> 2
      [] OTHER -> 3

InTier(eff, t) == {e \in DOMAIN eff : Classify(eff[e]) = t}

LeastBad(eff) == {e \in DOMAIN eff : \A f \in DOMAIN eff : eff[e] >= eff[f]}

BestTier(eff) == Min({Classify(eff[e]) : e \in DOMAIN eff})

\* TopTierCandidates, over the effective scores of a list that is not empty.
TopTierCandidates(eff) == IF BestTier(eff) = 5 THEN LeastBad(eff) ELSE InTier(eff, BestTier(eff))

\* Mutant: probation is tried behind the winning tier.
SelectBehind(eff) ==
    LET picks == TopTierCandidates(eff)
        ahead == IF BestTier(eff) \in 1..3 THEN InTier(eff, 4) ELSE {}
    IN  {<<p>> : p \in picks} \cup {<<p, a>> : p \in picks, a \in ahead}

\* Select: a pick from the winning tier, behind a probation endpoint on some
\* relays, or behind a tier-2 one when tier 1 won.
Select(eff) ==
    LET picks == TopTierCandidates(eff)
        ahead == (IF BestTier(eff) \in 1..3 THEN InTier(eff, 4) ELSE {})
                 \cup (IF BestTier(eff) = 1 THEN InTier(eff, 2) ELSE {})
    IN  {<<p>> : p \in picks} \cup {<<a, p>> : a \in ahead, p \in picks}

SelectBest(eff) == {l[1] : l \in Select(eff)}

\* SelectSpread, for a WebSocket: an operator the cap allows, then an endpoint
\* of its by connection load, all within the winning tier.
SelectSpread(eff) == TopTierCandidates(eff)

-----------------------------------------------------------------------------
(* waterFill, over masses.  A share is in units of one over the total mass *)
(* times CapDen; what waterFill divides by, the headroom and the mass over *)
(* the cap, multiplies the result instead, so that all of it is integers.  *)

Pool(m) == {o \in Operators : m[o] > 0}
Total(m) == SumFunctionOnSet(m, Operators)
Entitlement(m, o) == m[o] * CapDen
CapShare(m) == (IF Cardinality(Pool(m)) = 2 THEN CapTwoNum ELSE CapNum) * Total(m)
Over(m) == {o \in Pool(m) : Entitlement(m, o) > CapShare(m)}

\* How far an operator may be pushed.
Limit(m, o) == IF Ceiling > 0 THEN Min({CapShare(m), Ceiling * Entitlement(m, o)}) ELSE CapShare(m)

Room(m, o) == IF o \in Over(m) \/ Limit(m, o) <= Entitlement(m, o) THEN 0 ELSE Limit(m, o) - Entitlement(m, o)

SumOver(S, f(_)) == MapThenSumSet(f, S)

Taken(m) == SumOver(Over(m), LAMBDA o : Entitlement(m, o) - CapShare(m))
Headroom(m) == SumOver(Pool(m), LAMBDA o : Room(m, o))
Give(m) == Min({Taken(m), Headroom(m)})

\* What every share is multiplied by.
Scale(m) == Max({1, Headroom(m)}) * Max({1, SumOver(Over(m), LAMBDA o : Entitlement(m, o))})

\* Mutant: the excess nobody can absorb is dropped.
ShareDropped(m, o) ==
    IF o \in Over(m) THEN CapShare(m) * Scale(m)
    ELSE IF Headroom(m) = 0 THEN Entitlement(m, o) * Scale(m)
    ELSE Entitlement(m, o) * Scale(m) + Give(m) * Room(m, o) * (Scale(m) \div Headroom(m))

\* An operator's share after waterFill, times Scale: the excess over the cap
\* goes to whoever has room, pro rata to it, and what nobody can absorb returns
\* pro rata to whom it came from.
Share(m, o) ==
    LET over == SumOver(Over(m), LAMBDA p : Entitlement(m, p))
    IN  IF o \in Over(m)
        THEN CapShare(m) * Scale(m) + (Taken(m) - Give(m)) * Entitlement(m, o) * (Scale(m) \div over)
        ELSE IF Headroom(m) = 0 THEN Entitlement(m, o) * Scale(m)
        ELSE Entitlement(m, o) * Scale(m) + Give(m) * Room(m, o) * (Scale(m) \div Headroom(m))

\* cappedPickWeighted groups the candidates at hand; fewer than two operators
\* leave the pick alone.
Candidates(m) ==
    /\ Cardinality(Pool(m)) >= 2
    /\ mass' = m

CapInit == mass \in {m \in [Operators -> Masses] : Cardinality(Pool(m)) >= 2}
CapNext == \E o \in Operators, n \in Masses : Candidates([mass EXCEPT ![o] = n])

CapTypeOK == mass \in [Operators -> Masses]

\* concentration.go:239: the cap moves shares and loses none, whatever the
\* pool.  The shares sum to the whole; no operator that received is past the
\* cap or past the ceiling over its entitlement; and an operator stays above
\* the cap only when nobody has room left for more.
CapMovesShares ==
    LET whole == Total(mass) * CapDen * Scale(mass)
        over == {o \in Pool(mass) : Share(mass, o) > CapShare(mass) * Scale(mass)}
    IN  /\ SumOver(Pool(mass), LAMBDA o : Share(mass, o)) = whole
        /\ \A o \in Pool(mass) \ Over(mass) :
               /\ Share(mass, o) >= Entitlement(mass, o) * Scale(mass)
               /\ Room(mass, o) > 0 => Share(mass, o) <= Limit(mass, o) * Scale(mass)
               /\ over # {} /\ Room(mass, o) > 0 => Share(mass, o) = Limit(mass, o) * Scale(mass)
        /\ \A o \in Over(mass) : Share(mass, o) >= CapShare(mass) * Scale(mass)

-----------------------------------------------------------------------------
(***************************************************************************)
(* The scores of one service's keys (reputation/service.go) on every       *)
(* replica, the write-behind that carries the leader's to storage, and the *)
(* restarted replica that takes them up (hydrate.go, gated_storage.go).    *)
(*                                                                         *)
(* A rate is a level: 0 is at most the onset, which costs nothing.  The    *)
(* EWMA moves it by less than a level or to the next one, so a signal may  *)
(* leave it.  Time is the clock the stamps are read from.                  *)
(***************************************************************************)

CONSTANTS
    Replica,
    Keys,
    InitialScore,       \* also the ceiling
    Impact,             \* Impact[t]: what a signal of type t takes off, in points
    Reward,             \* what a success adds
    RatePenalty,        \* RatePenalty[l]: what a rate of level l costs
    PartyPenalty,       \* the penalties a party may carry
    ProbeDefer,
    TimeoutCoalesce,
    StateIdleTTL,
    MaxScores,          \* maxScoresPerServiceShard
    MaxAttempts,        \* bound on the attempts counted
    RepMaxTime          \* bound on the clock

VARIABLES
    repClock,
    scores,             \* scores[r][k]: the state r caches, or None
    pending,            \* pending[r][k]: waiting for the next flush, or None
    batch,              \* batch[r]: what a flush in flight carries, or None
    recorded,           \* recorded[r]: an update made, not yet enqueued, or None
    forced,             \* forced[r]: the keys a reset has yet to write
    hydrating,          \* hydrating[r]: the states a boot read and has yet to load
    scoreStore,         \* the hash in storage
    leads,              \* leads[r]
    party,              \* party[k]: the penalty of k's party
    base,               \* the pool's baseline rate, when the relative term is on
    seed,               \* where a key with no state starts
    resetSince          \* keys reset with no later change to them (history)

repVars == <<repClock, scores, pending, batch, recorded, forced, hydrating, scoreStore, leads, party, base, seed, resetSince>>

-----------------------------------------------------------------------------
Levels == DOMAIN RatePenalty
Failures == DOMAIN Impact
Score == 0..InitialScore
RepTime == 0..RepMaxTime

\* LastTraffic, TimeoutHitAt and UpdatedAt are 0 when never set; LatencyMS is
\* left out.
State == [score : Score, rate : Levels, attempts : 0..MaxAttempts, traffic : RepTime, hit : RepTime, upd : RepTime]

Fresh == [score |-> InitialScore, rate |-> 0, attempts |-> 0, traffic |-> 0, hit |-> 0, upd |-> 0]

\* A key with no state: initialScore, at its operator's standing when
\* seed_from_operator is on.
Start == [Fresh EXCEPT !.score = seed]

NoStates == [k \in Keys |-> None]

\* Mutant: successes add up past the top.
ClampAbove(n) == Max({0, n})

\* clamp: a score stays between nothing and InitialScore.
Clamp(n) == Max({0, Min({n, InitialScore})})

Minus(a, b) == IF a > b THEN a - b ELSE 0

-----------------------------------------------------------------------------
\* penaltyFor: measured from the pool's baseline.
PenaltyFor(rate) == Minus(RatePenalty[rate], RatePenalty[base])

\* scoreWith: the penalties demote to the bottom of probation and no further.
ScoreWith(st, penalty) ==
    Max({Minus(Minus(st.score, PenaltyFor(st.rate)), penalty), Min({st.score, MinThreshold})})

\* scoreForSelector: a key with no state still carries its party's penalty.
Effective(r, k) == ScoreWith(IF scores[r][k] = None THEN Start ELSE scores[r][k], party[k])

-----------------------------------------------------------------------------
\* A signal: its outcome, whether a probe sent it, a retry or a hedge, and
\* whether it is a timeout on the wire.
Signal == [type : Failures \cup {"success"}, probe : BOOLEAN, leftover : BOOLEAN, timeout : BOOLEAN]

\* A probe's success is not evidence against recent traffic on a key that is
\* selectable.
Deferred(st, sig) ==
    /\ sig.probe /\ sig.type = "success"
    /\ st.score >= MinThreshold
    /\ st.traffic > 0 /\ repClock - st.traffic < ProbeDefer

\* Timeouts that land together are one event.
Coalesced(st, sig) == sig.timeout /\ st.hit # 0 /\ repClock - st.hit < TimeoutCoalesce

Moved(st, sig) ==
    IF Deferred(st, sig) \/ Coalesced(st, sig) THEN st
    ELSE [st EXCEPT !.score = IF sig.type = "success" THEN Clamp(@ + Reward) ELSE Minus(@, Impact[sig.type]),
                    !.hit = IF sig.timeout THEN repClock ELSE @]

\* FailureWeight and the EWMA, on a key not already at zero: the levels the
\* rate may go to.
Rates(st, sig) ==
    IF st.score = 0 \/ Deferred(st, sig) \/ sig.leftover THEN {st.rate}
    ELSE IF sig.type = "success" THEN {st.rate, Minus(st.rate, 1)}
    ELSE {l \in {st.rate, st.rate + 1} : l \in Levels}

Stamped(st, sig) ==
    [st EXCEPT !.attempts = Min({@ + 1, MaxAttempts}), !.upd = repClock, !.traffic = IF sig.probe THEN @ ELSE repClock]

\* pruneUninformative drops the states that read as no state would.
Uninformative(st) == st.score = InitialScore /\ RatePenalty[st.rate] = 0

Held(states) == {k \in Keys : states[k] # None}

Pruned(states) ==
    IF Cardinality(Held(states)) < MaxScores THEN states
    ELSE [k \in Keys |-> IF states[k] # None /\ Uninformative(states[k]) THEN None ELSE states[k]]

-----------------------------------------------------------------------------
RepInit ==
    /\ repClock = 1
    /\ scores = [r \in Replica |-> NoStates]
    /\ pending = [r \in Replica |-> NoStates]
    /\ batch = [r \in Replica |-> None]
    /\ recorded = [r \in Replica |-> None]
    /\ forced = [r \in Replica |-> {}]
    /\ hydrating = [r \in Replica |-> NoStates]
    /\ scoreStore = NoStates
    /\ leads \in [Replica -> BOOLEAN]
    /\ \A r, s \in Replica : leads[r] /\ leads[s] => r = s
    /\ party \in [Keys -> PartyPenalty]
    /\ base \in Levels
    /\ seed = InitialScore
    /\ resetSince = {}

\* enqueue, unforced: the latest state waits for the flush, on the leader.
Enqueue(r, k, st) == pending' = IF leads[r] THEN [pending EXCEPT ![r][k] = st] ELSE pending

StateOf(r, k) == IF scores[r][k] = None THEN Start ELSE scores[r][k]

\* The state a signal leaves, with the rate at level l.
After(r, k, sig, l) == Stamped([Moved(StateOf(r, k), sig) EXCEPT !.rate = l], sig)

\* RecordSignal under the shard's lock.
Recorded(r, k, sig, l) ==
    LET states == IF scores[r][k] = None THEN Pruned(scores[r]) ELSE scores[r]
    IN  /\ sig.timeout => sig.type = "major"
        /\ l \in Rates(StateOf(r, k), sig)
        /\ scores' = [scores EXCEPT ![r] = [states EXCEPT ![k] = After(r, k, sig, l)]]
        /\ resetSince' = resetSince \ {k}
        /\ UNCHANGED <<repClock, batch, forced, hydrating, scoreStore, leads, party, base, seed>>

RecordSignal(r, k, sig, l) ==
    /\ Recorded(r, k, sig, l)
    /\ Enqueue(r, k, After(r, k, sig, l))
    /\ UNCHANGED recorded

\* The write is enqueued after the lock is released: another handler's signal
\* may come in between.
RecordSignalLate(r, k, sig, l) ==
    /\ recorded[r] = None
    /\ Recorded(r, k, sig, l)
    /\ recorded' = [recorded EXCEPT ![r] = <<k, After(r, k, sig, l)>>]
    /\ UNCHANGED pending

RecordEnqueue(r) ==
    /\ recorded[r] # None
    /\ Enqueue(r, recorded[r][1], recorded[r][2])
    /\ recorded' = [recorded EXCEPT ![r] = None]
    /\ UNCHANGED <<repClock, scores, batch, forced, hydrating, scoreStore, leads, party, base, seed, resetSince>>

\* RebaseAfterDrain: a key above the bottom of probation restarts there.
RebaseAfterDrain(r, k) ==
    LET st == [StateOf(r, k) EXCEPT !.score = MinThreshold]
    IN  /\ StateOf(r, k).score > MinThreshold
        /\ scores' = [scores EXCEPT ![r][k] = st]
        /\ Enqueue(r, k, st)
        /\ resetSince' = resetSince \ {k}
        /\ UNCHANGED <<repClock, batch, recorded, forced, hydrating, scoreStore, leads, party, base, seed>>

\* ResetMatching: the cached keys named go back to the initial score, then each
\* is forced to storage.
ResetMatching(r, S) ==
    /\ forced[r] = {} /\ S # {} /\ S \subseteq Held(scores[r])
    /\ scores' = [scores EXCEPT ![r] = [k \in Keys |-> IF k \in S THEN Fresh ELSE scores[r][k]]]
    /\ forced' = [forced EXCEPT ![r] = S]
    /\ resetSince' = resetSince \cup S
    /\ UNCHANGED <<repClock, pending, batch, recorded, hydrating, scoreStore, leads, party, base, seed>>

ForceSetState(r, k) ==
    /\ k \in forced[r]
    /\ scoreStore' = [scoreStore EXCEPT ![k] = [Fresh EXCEPT !.upd = repClock]]
    /\ forced' = [forced EXCEPT ![r] = @ \ {k}]
    /\ UNCHANGED <<repClock, scores, pending, batch, recorded, hydrating, leads, party, base, seed, resetSince>>

\* flushPending takes what is pending; SetStates writes it later, if r still
\* leads, and an error loses it.  encodeState leaves TimeoutHitAt out.
FlushPending(r) ==
    /\ batch[r] = None /\ pending[r] # NoStates
    /\ batch' = [batch EXCEPT ![r] = [k \in Keys |->
           IF pending[r][k] = None THEN None ELSE [pending[r][k] EXCEPT !.upd = repClock, !.hit = 0]]]
    /\ pending' = [pending EXCEPT ![r] = NoStates]
    /\ UNCHANGED <<repClock, scores, recorded, forced, hydrating, scoreStore, leads, party, base, seed, resetSince>>

Flush(r, ok) ==
    /\ batch[r] # None
    /\ scoreStore' = IF leads[r] /\ ok
                     THEN [k \in Keys |-> IF batch[r][k] = None THEN scoreStore[k] ELSE batch[r][k]]
                     ELSE scoreStore
    /\ batch' = [batch EXCEPT ![r] = None]
    /\ UNCHANGED <<repClock, scores, pending, recorded, forced, hydrating, leads, party, base, seed, resetSince>>

\* DeleteStale, on the leader.
DeleteStale(r) ==
    /\ leads[r]
    /\ scoreStore' = [k \in Keys |->
           IF scoreStore[k] # None /\ repClock - scoreStore[k].upd > StateIdleTTL THEN None ELSE scoreStore[k]]
    /\ UNCHANGED <<repClock, scores, pending, batch, recorded, forced, hydrating, leads, party, base, seed, resetSince>>

\* drainWrites, which takes one of its ticks at a time.
DrainWrites(r) == FlushPending(r) \/ (\E ok \in BOOLEAN : Flush(r, ok)) \/ DeleteStale(r)

\* A replica restarts; Hydrate reads storage, or runs cold on an error.
RepRestart(r, readable) ==
    /\ scores' = [scores EXCEPT ![r] = NoStates]
    /\ pending' = [pending EXCEPT ![r] = NoStates]
    /\ batch' = [batch EXCEPT ![r] = None]
    /\ recorded' = [recorded EXCEPT ![r] = None]
    /\ forced' = [forced EXCEPT ![r] = {}]
    /\ leads' = [leads EXCEPT ![r] = FALSE]
    /\ hydrating' = [hydrating EXCEPT ![r] = IF readable THEN scoreStore ELSE NoStates]
    /\ UNCHANGED <<repClock, scoreStore, party, base, seed, resetSince>>

\* Mutant: what storage says is taken over what this pod recorded.
LoadStateOver(r, k) ==
    LET states == IF Cardinality(Held(scores[r])) >= MaxScores THEN Pruned(scores[r]) ELSE scores[r]
    IN  /\ hydrating[r][k] # None
        /\ hydrating' = [hydrating EXCEPT ![r][k] = None]
        /\ scores' = [scores EXCEPT ![r] = [states EXCEPT ![k] = hydrating[r][k]]]
        /\ UNCHANGED <<repClock, pending, batch, recorded, forced, scoreStore, leads, party, base, seed, resetSince>>

\* loadState, key by key: fresh states only, never over one that is present, and
\* within the bound.
LoadState(r, k) ==
    LET states == Pruned(scores[r])
        fresh == hydrating[r][k].upd > Minus(repClock, StateIdleTTL)
    IN  /\ hydrating[r][k] # None
        /\ hydrating' = [hydrating EXCEPT ![r][k] = None]
        /\ scores' = IF ~fresh \/ scores[r][k] # None THEN scores
                     ELSE IF Cardinality(Held(states)) >= MaxScores THEN [scores EXCEPT ![r] = states]
                     ELSE [scores EXCEPT ![r] = [states EXCEPT ![k] = hydrating[r][k]]]
        /\ UNCHANGED <<repClock, pending, batch, recorded, forced, scoreStore, leads, party, base, seed, resetSince>>

\* The leader election moves; refreshBaselines reprices.
Lead(r) ==
    /\ leads' = [s \in Replica |-> s = r]
    /\ leads # leads'
    /\ UNCHANGED <<repClock, scores, pending, batch, recorded, forced, hydrating, scoreStore, party, base, seed, resetSince>>

\* storeSeeds: the median score of the operator's keys.
Median(states) ==
    LET ranked == SetToSortSeq(Held(states), LAMBDA j, k : states[j].score < states[k].score)
        n == Len(ranked)
        ScoreAt(i) == states[ranked[i]].score
    IN  IF n % 2 = 1 THEN ScoreAt(n \div 2 + 1) ELSE (ScoreAt(n \div 2) + ScoreAt(n \div 2 + 1)) \div 2

RefreshBaselines(r, p, b, seeding) ==
    LET s == IF seeding /\ Held(scores[r]) # {} THEN Median(scores[r]) ELSE InitialScore
    IN  /\ <<p, b, s>> # <<party, base, seed>>
        /\ party' = p /\ base' = b /\ seed' = s
        /\ UNCHANGED <<repClock, scores, pending, batch, recorded, forced, hydrating, scoreStore, leads, resetSince>>

RepTick ==
    /\ repClock < RepMaxTime
    /\ repClock' = repClock + 1
    /\ UNCHANGED <<scores, pending, batch, recorded, forced, hydrating, scoreStore, leads, party, base, seed, resetSince>>

-----------------------------------------------------------------------------
RepTypeOK ==
    /\ scores \in [Replica -> [Keys -> State \cup {None}]]
    /\ pending \in [Replica -> [Keys -> State \cup {None}]]
    /\ scoreStore \in [Keys -> State \cup {None}]
    /\ seed \in Score
    /\ \A r \in Replica : forced[r] \subseteq Keys

\* service.go:301, selector.go:195: penalties rank a pool and never empty it.
\* Whatever the keys' rates, the pool's baseline and the parties' penalties,
\* the endpoint tried first and the one behind it are of keys whose additive
\* score clears the minimum, unless no key's does; the one behind is of the
\* best tier there is, and the first is another only to measure it.
PenaltiesNeverEmpty ==
    \A r \in Replica :
        LET eff == [k \in Keys |-> Effective(r, k)]
            Additive(k) == StateOf(r, k).score
        IN  /\ Select(eff) # {}
            /\ \A l \in Select(eff) :
                   /\ \A i \in DOMAIN l : Additive(l[i]) >= MinThreshold \/ \A k \in Keys : Additive(k) < MinThreshold
                   /\ l[Len(l)] \in TopTierCandidates(eff)
                   /\ Len(l) = 2 => eff[l[1]] < eff[l[2]]
            /\ \A k \in SelectSpread(eff) : Additive(k) >= MinThreshold \/ \A j \in Keys : Additive(j) < MinThreshold

\* service.go:904, hydrate.go:133: evidence is not lost.  While a replica runs, a
\* key's state goes only by a reset or, at the bound, when it reads as no state
\* would, and a boot's late read of storage never replaces what the replica
\* recorded meanwhile.
EvidenceKept ==
    [][\A r \in Replica, k \in Keys :
         \/ scores[r][k] = None
         \/ Uninformative(scores[r][k])
         \/ scores'[r][k] # None /\ scores'[r][k].attempts >= scores[r][k].attempts
         \/ k \in forced'[r]
         \/ \E readable \in BOOLEAN : RepRestart(r, readable)]_repVars

\* service.go:1445 "goes back to the initial score, in the cache and, forced past
\* the leader gate, in storage": once a reset has written its keys, storage holds
\* the initial score until a key is signalled again.
ResetStands ==
    \A k \in resetSince : (\A r \in Replica : k \notin forced[r]) /\ scoreStore[k] # None => scoreStore[k].score = InitialScore
=============================================================================
