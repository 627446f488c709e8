------------------------------ MODULE AutoDrain ------------------------------
(***************************************************************************)
(* The engine that drains an operator by itself (autodrain/engine.go): on  *)
(* the leader, once a minute, it compares every operator's window with the *)
(* trigger and the guards and sets a drain through the drain store, which  *)
(* people also use.  The store is read through a cache each replica        *)
(* refreshes (drain/redis.go, modelled in Drain).                          *)
(*                                                                         *)
(* The window's counts are reduced to the comparisons decide makes of      *)
(* them, a set of facts.  Keys are <<service, operator>> of one RPC type.  *)
(***************************************************************************)
EXTENDS Sage, Naturals, FiniteSets

CONSTANTS
    Engines,            \* replicas
    DrainKeys,          \* <<service, operator>>
    DrainFor, SuppressFor, ServiceGap, Hour,
    MaxLivePool, MaxLiveFleet, MaxPerHour,
    AdMaxTime           \* bound on the clock

VARIABLES
    adClock,
    adLeader,
    drains,             \* drains[k]: the stored entry, or None
    seenDrains,         \* seenDrains[e]: e's cached copy
    counting,           \* counting[e]: e's hooks count
    pools,              \* pools[e]: services e holds counters of
    live,               \* live[e][k]: until when the drain e set runs, or 0
    suppressed,         \* suppressed[e][k]: until when k is left alone, or 0
    lastBySvc,          \* lastBySvc[e][k[1]]: when e last drained on the service, or None
    recent,             \* recent[e]: what e drained and when, less than an hour ago
    passing,            \* passing[e]: candidates of the evaluation under way
    chosen,             \* chosen[e]: the key about to be drained, or None
    autoSets            \* <<engine, key, time>> of every drain set (history)

adVars == <<adClock, adLeader, drains, seenDrains, counting, pools, live, suppressed, lastBySvc, recent, passing, chosen, autoSets>>

-----------------------------------------------------------------------------
AdTime == 0..AdMaxTime
AdServices == {k[1] : k \in DrainKeys}

\* None is no time, no key and no outcome.
ASSUME AutoDrainAssumption ==
    /\ {DrainFor, SuppressFor, ServiceGap, Hour, MaxPerHour, AdMaxTime} \subseteq Nat
    /\ None \notin DrainKeys /\ None \notin AdTime /\ None # "drained"

Entry == [until : Nat, auto : BOOLEAN]
NoDrains == [k \in DrainKeys |-> None]

\* What the window of an operator says (window, matchedChain, peerCompare):
\* which triggers it meets, whether it stands out from its peers, what clients
\* saw, and whether another owner's operator is vouched for.
TriggerFacts == {"collapse", "rate"}
ChainFacts == {"outlier", "harm"}
PeerFacts == {"standsOut", "severe", "vouched"}
ClientFacts == {"clientEvidence", "clientFails"}
Facts == TriggerFacts \cup ChainFacts \cup PeerFacts \cup ClientFacts

Trigger(f) ==
    CASE "collapse" \in f -> "collapse"
      [] "collapse" \notin f /\ "outlier" \in f -> "chain_answers"
      [] "collapse" \notin f /\ "outlier" \notin f /\ "rate" \in f -> "operator_rate"
      [] OTHER -> None

PoolWide(f) == Trigger(f) # "chain_answers" /\ "standsOut" \notin f

\* Active: the entries of a view that have not expired.
Active(view) == {k \in DrainKeys : view[k] # None /\ view[k].until > adClock}

LiveAuto(view, s) == {k \in Active(view) : view[k].auto /\ k[1] = s}

\* liveAutoFleet counts the services the engine holds counters of.
LiveAutoFleet(e) == UNION {LiveAuto(seenDrains[e], s) : s \in pools[e]}

\* Mutant: the limits on new drains are not read.
LimitedNot(e, k) == FALSE

Limited(e, k) ==
    \/ lastBySvc[e][k[1]] # None /\ adClock - lastBySvc[e][k[1]] < ServiceGap
    \/ Cardinality(recent[e]) >= MaxPerHour

\* decide, up to the drain it sets.
Outcome(e, k, f, act) ==
    LET view == seenDrains[e]
    IN  CASE k \in Active(view) -> IF view[k].auto THEN None ELSE "manual_drain"
          [] OTHER ->
             IF "clientEvidence" \notin f THEN "no_client_evidence"
             ELSE IF {"clientFails", "harm", "severe"} \cap f = {} THEN "below_client_failure"
             ELSE IF PoolWide(f) THEN "pool_wide"
             ELSE IF "vouched" \notin f THEN "no_vouched_alternative"
             ELSE IF suppressed[e][k] > adClock THEN "suppressed"
             ELSE IF Cardinality(LiveAuto(view, k[1])) >= MaxLivePool \/ Cardinality(LiveAutoFleet(e)) >= MaxLiveFleet THEN "capped"
             ELSE IF Limited(e, k) THEN "rate_limited"
             ELSE IF ~act THEN "shadow"
             ELSE "drained"

-----------------------------------------------------------------------------
AdInit ==
    /\ adClock = 0
    /\ adLeader \in Engines
    /\ drains = NoDrains /\ seenDrains = [e \in Engines |-> NoDrains]
    /\ counting = [e \in Engines |-> e = adLeader]
    /\ pools = [e \in Engines |-> {}]
    /\ live = [e \in Engines |-> [k \in DrainKeys |-> 0]]
    /\ suppressed = [e \in Engines |-> [k \in DrainKeys |-> 0]]
    /\ lastBySvc = [e \in Engines |-> [s \in AdServices |-> None]]
    /\ recent = [e \in Engines |-> {}]
    /\ passing = [e \in Engines |-> {}]
    /\ chosen = [e \in Engines |-> None]
    /\ autoSets = {}

\* OnCollapse, OnSignal and OnAttempt count while this replica leads; a
\* service's first count makes its pool and its client window.
Count(e, s) ==
    /\ counting[e] /\ s \notin pools[e]
    /\ pools' = [pools EXCEPT ![e] = @ \cup {s}]
    /\ UNCHANGED <<adClock, adLeader, drains, seenDrains, counting, live, suppressed, lastBySvc, recent, passing, chosen, autoSets>>

\* reconcile: what expired is forgotten, what vanished early was released by a
\* person, what is no longer marked is theirs.
Reconciled(e, k) == live[e][k] > adClock /\ k \in Active(seenDrains[e]) /\ seenDrains[e][k].auto
Released(e, k) == live[e][k] > adClock /\ k \notin Active(seenDrains[e])

\* Mutant: a drain older than a service gap no longer counts.
KeptRecentShort(e) == {d \in recent[e] : d[2] + ServiceGap > adClock}

KeptRecent(e) == {d \in recent[e] : d[2] + Hour > adClock}

\* Evaluate: nothing on a follower; on the leader reconcile, then a decision per
\* candidate.
Evaluate(e) ==
    /\ passing[e] = {} /\ chosen[e] = None
    /\ counting' = [counting EXCEPT ![e] = adLeader = e]
    /\ IF adLeader # e THEN UNCHANGED <<live, suppressed, recent, passing>>
       ELSE /\ live' = [live EXCEPT ![e] = [k \in DrainKeys |-> IF Reconciled(e, k) THEN @[k] ELSE 0]]
            /\ suppressed' = [suppressed EXCEPT ![e] = [k \in DrainKeys |->
                   IF Released(e, k) THEN adClock + SuppressFor ELSE IF @[k] > adClock THEN @[k] ELSE 0]]
            /\ recent' = [recent EXCEPT ![e] = KeptRecent(e)]
            /\ passing' = [passing EXCEPT ![e] = {k \in DrainKeys : k[1] \in pools[e]}]
    /\ UNCHANGED <<adClock, adLeader, drains, seenDrains, pools, lastBySvc, chosen, autoSets>>

\* One candidate, on the facts of its window and the flags (act is auto_drain on
\* without auto_drain_shadow, and auto_drain_chain_answers for that trigger): the
\* outcome is recorded, and a drain is about to be set.
Decide(e, k, f, act) ==
    /\ chosen[e] = None /\ k \in passing[e]
    /\ passing' = [passing EXCEPT ![e] = @ \ {k}]
    /\ chosen' = [chosen EXCEPT ![e] = IF Trigger(f) # None /\ Outcome(e, k, f, act) = "drained" THEN k ELSE None]
    /\ UNCHANGED <<adClock, adLeader, drains, seenDrains, counting, pools, live, suppressed, lastBySvc, recent, autoSets>>

\* Drains.Set: one write that replaces the entry; a failure is logged and
\* nothing is noted.
SetAutoDrain(e, ok) ==
    LET k == chosen[e]
        entry == [until |-> adClock + DrainFor, auto |-> TRUE]
    IN  /\ k # None
        /\ chosen' = [chosen EXCEPT ![e] = None]
        /\ IF ok
           THEN /\ drains' = [drains EXCEPT ![k] = entry]
                /\ seenDrains' = [seenDrains EXCEPT ![e][k] = entry]
                /\ live' = [live EXCEPT ![e][k] = entry.until]
                /\ lastBySvc' = [lastBySvc EXCEPT ![e][k[1]] = adClock]
                /\ recent' = [recent EXCEPT ![e] = @ \cup {<<k, adClock>>}]
                /\ autoSets' = autoSets \cup {<<e, k, adClock>>}
           ELSE UNCHANGED <<drains, seenDrains, live, lastBySvc, recent, autoSets>>
        /\ UNCHANGED <<adClock, adLeader, counting, pools, suppressed, passing>>

\* The admin routes, on any replica.
ManualDrain(e, k) ==
    LET entry == [until |-> adClock + DrainFor, auto |-> FALSE]
    IN  /\ drains' = [drains EXCEPT ![k] = entry]
        /\ seenDrains' = [seenDrains EXCEPT ![e][k] = entry]
        /\ UNCHANGED <<adClock, adLeader, counting, pools, live, suppressed, lastBySvc, recent, passing, chosen, autoSets>>

ManualRelease(e, k) ==
    /\ drains[k] # None
    /\ drains' = [drains EXCEPT ![k] = None]
    /\ seenDrains' = [seenDrains EXCEPT ![e][k] = None]
    /\ UNCHANGED <<adClock, adLeader, counting, pools, live, suppressed, lastBySvc, recent, passing, chosen, autoSets>>

CacheRefresh(e) ==
    /\ seenDrains[e] # drains
    /\ seenDrains' = [seenDrains EXCEPT ![e] = drains]
    /\ UNCHANGED <<adClock, adLeader, drains, counting, pools, live, suppressed, lastBySvc, recent, passing, chosen, autoSets>>

ElectOther(e) ==
    /\ adLeader # e
    /\ adLeader' = e
    /\ UNCHANGED <<adClock, drains, seenDrains, counting, pools, live, suppressed, lastBySvc, recent, passing, chosen, autoSets>>

\* An evaluation ends within its minute.
AdTick ==
    /\ adClock < AdMaxTime
    /\ \A e \in Engines : passing[e] = {} /\ chosen[e] = None
    /\ adClock' = adClock + 1
    /\ UNCHANGED <<adLeader, drains, seenDrains, counting, pools, live, suppressed, lastBySvc, recent, passing, chosen, autoSets>>

AdNext ==
    \/ \E e \in Engines :
          \/ \E s \in AdServices : Count(e, s)
          \/ \E k \in DrainKeys, f \in SUBSET Facts, act \in BOOLEAN : Decide(e, k, f, act)
          \/ \E ok \in BOOLEAN : SetAutoDrain(e, ok)
          \/ \E k \in DrainKeys : ManualDrain(e, k) \/ ManualRelease(e, k)
          \/ Evaluate(e) \/ CacheRefresh(e) \/ ElectOther(e)
    \/ AdTick

AdSpec == AdInit /\ [][AdNext]_adVars

-----------------------------------------------------------------------------
AdTypeOK ==
    /\ drains \in [DrainKeys -> Entry \cup {None}]
    /\ \A e \in Engines : live[e] \in [DrainKeys -> Nat] /\ recent[e] \subseteq DrainKeys \X AdTime /\ passing[e] \subseteq DrainKeys

\* engine.go:870: a leader drains no more than it may.  Over any hour a replica
\* sets at most maxPerHour drains, and two on one service are serviceGap apart,
\* whatever people drain and release meanwhile, and however often the lead moves
\* away and back.
DrainsRateLimited ==
    \A e \in Engines :
        /\ \A t \in AdTime : Cardinality({a \in autoSets : a[1] = e /\ a[3] >= t /\ a[3] < t + Hour}) <= MaxPerHour
        /\ \A a, b \in autoSets : a[1] = e /\ b[1] = e /\ a # b /\ a[2][1] = b[2][1] /\ a[3] <= b[3] => b[3] - a[3] >= ServiceGap

\* engine.go:36 "The engine never sets, extends or releases a drain whose reason
\* lacks it" [the auto: prefix]: a live manual drain is not replaced by the
\* engine's.
HandsOffManual ==
    [][\A k \in DrainKeys : k \in Active(drains) /\ ~drains[k].auto /\ drains'[k] # None => ~drains'[k].auto]_adVars

\* docs/auto-drain.md:283 "at most 1 live auto drain per (service, rpc_type), and
\* 5 across the fleet".
FleetCap == Cardinality({k \in Active(drains) : drains[k].auto}) <= MaxLiveFleet
=============================================================================
