------------------------------- MODULE Parties -------------------------------
(***************************************************************************)
(* The penalties a party carries over all its keys: stale share, trust,    *)
(* repeat, throttle and class share, and the policy penalties set by hand  *)
(* (reputation/staleshare.go, trust.go, dupshare.go, throttleshare.go,     *)
(* classshare.go, policy.go).  Every refresh prices the parties from this  *)
(* pod's evidence, keeps what it can no longer measure for a hold, borrows *)
(* what a peer fleet has priced and, on the leader, stores the result; a   *)
(* new pod starts from what is stored (partystore.go, peerparties.go).     *)
(*                                                                         *)
(* One party is followed.  Its evidence on a service, as a pod holds it at *)
(* a refresh, is the excess of its share over the cleanest party's, in     *)
(* levels: None is too few answers to measure, 0 is within the floor.  The *)
(* answers, their decay and the other parties decide it from outside.      *)
(***************************************************************************)
EXTENDS Sage, Naturals, FiniteSets

CONSTANTS
    Pods,               \* gateway processes
    Fleet,              \* Fleet[p]: the fleet p is of, which shares a store
    Peer,               \* Peer[f]: the fleet whose priced parties f borrows, or None
    Leads,              \* the pods that lead their fleet
    PartyServices,      \* services
    StaleOn,            \* the services stale_share prices
    Excess,             \* levels of excess above the floor
    StaleHold,          \* staleShareHold
    TrustHold,          \* trustHold
    TrustServices,      \* trustStaleServices
    RefusalServices,    \* trustRefusalServices
    PartyMaxTime        \* bound on the clock

Fleets == {Fleet[p] : p \in Pods}

PartyTime == 0..PartyMaxTime

ASSUME PartiesAssumption ==
    /\ Excess \subseteq Nat \ {0} /\ None \notin Excess /\ None \notin PartyTime
    /\ {StaleHold, TrustHold} \subseteq Nat \ {0} /\ {TrustServices, RefusalServices, PartyMaxTime} \subseteq Nat
    /\ IsFiniteSet(PartyServices) /\ StaleOn \subseteq PartyServices
    /\ \A f \in Fleets : Peer[f] \in Fleets \cup {None}

VARIABLES
    partyClock,
    partyView,          \* partyView[p]: what the last refresh priced
    partyStore,         \* partyStore[f]: the stored parties of fleet f
    measuredAt,         \* measuredAt[s][e]: when some pod last measured excess e on s (history)
    provenAt            \* when some pod last held evidence enough for distrust (history)

partyVars == <<partyClock, partyView, partyStore, measuredAt, provenAt>>

-----------------------------------------------------------------------------
ExcessLevels == Excess \cup {0}

\* PartyStale: the penalty is the level charged, priced at a time; held is
\* carried past thin evidence, or borrowed.
Stale == [pen : ExcessLevels, excess : ExcessLevels, at : PartyTime, held : BOOLEAN] \cup {None}

\* PartyTrust: when the penalty lapses, 0 when none was set.
Trust == 0..(PartyMaxTime + TrustHold)

View == [stale : [PartyServices -> Stale], trust : Trust]

\* What a pod measures on each service at a refresh (RecordHeadAnswer and the
\* like, less what has decayed), and the services where it counted enough
\* refused_recent verdicts.
Evidence == [excess : [PartyServices -> ExcessLevels \cup {None}], refusals : SUBSET PartyServices]

NoEvidence == [excess |-> [s \in PartyServices |-> None], refusals |-> {}]

Unpriced == [stale |-> [s \in PartyServices |-> None], trust |-> 0]

Charged(st) == st # None /\ st.pen # 0

\* partyStale and priceShares: measured and priced now, or held.
Measure(e, s, prev, now) ==
    CASE e # None ->
            [pen |-> IF s \in StaleOn THEN e ELSE 0, excess |-> e, at |-> now, held |-> FALSE]
      [] e = None /\ Charged(prev) /\ s \in StaleOn /\ now - prev.at < StaleHold ->
            [prev EXCEPT !.held = TRUE]
      [] OTHER -> None

\* Mutant: a held penalty counts as evidence.
StaleEvidenceHeld(stale) == {s \in StaleOn : stale[s] # None /\ stale[s].excess # 0}

\* partyTrust: a held stale share is not evidence now.
StaleEvidence(stale) == {s \in StaleOn : stale[s] # None /\ ~stale[s].held /\ stale[s].excess # 0}

Proven(stale, refusals) ==
    Cardinality(StaleEvidence(stale)) >= TrustServices \/ Cardinality(refusals) >= RefusalServices

\* partyTrust: enough evidence sets the end anew, otherwise the one set before runs.
Distrust(stale, refusals, prev, now) ==
    IF Proven(stale, refusals) THEN now + TrustHold ELSE IF now < prev THEN prev ELSE 0

\* Mutant: a borrowed penalty is priced when it is borrowed.
BorrowStaleNow(st, lent, s, now) ==
    IF ~Charged(lent) \/ now - lent.at >= StaleHold \/ s \notin StaleOn THEN st
    ELSE IF st = None THEN [lent EXCEPT !.at = now]
    ELSE IF lent.pen > st.pen THEN [st EXCEPT !.pen = lent.pen, !.at = now]
    ELSE st

\* mergePeerParties, one service: the harsher penalty, on the peer's clock.
BorrowStale(st, lent, s, now) ==
    IF ~Charged(lent) \/ now - lent.at >= StaleHold \/ s \notin StaleOn THEN st
    ELSE IF st = None THEN lent
    ELSE IF lent.pen > st.pen THEN [st EXCEPT !.pen = lent.pen, !.at = lent.at]
    ELSE st

BorrowTrust(trust, lent, now) == IF trust = 0 /\ now < lent THEN lent ELSE trust

\* storePartyPenalties: what is charged, with its clock.  Who reads it back
\* (adoptPartyPenalties, mergePeerParties) takes it as held and without an excess.
Stored(view) ==
    [view EXCEPT !.stale = [s \in PartyServices |->
        IF Charged(view.stale[s]) THEN [view.stale[s] EXCEPT !.held = TRUE, !.excess = 0] ELSE None]]

\* What a refresh makes of the evidence, the view before it and what the peer lends.
Priced(ev, prev, lent, now) ==
    LET stale == [s \in PartyServices |-> Measure(ev.excess[s], s, prev.stale[s], now)]
        trust == Distrust(stale, ev.refusals, prev.trust, now)
    IN  [stale |-> [s \in PartyServices |-> BorrowStale(stale[s], lent.stale[s], s, now)],
         trust |-> BorrowTrust(trust, lent.trust, now)]

-----------------------------------------------------------------------------
PartyInit ==
    /\ partyClock = 0
    /\ partyView = [p \in Pods |-> Unpriced]
    /\ partyStore = [f \in Fleets |-> Unpriced]
    /\ measuredAt = [s \in PartyServices |-> [e \in Excess |-> None]]
    /\ provenAt = None

\* refreshBaselines of p, on the evidence ev, from the view prev.  readable: the
\* peer's store answered; written: the write to this fleet's store went
\* through, which a follower's never does.
RefreshFrom(p, ev, prev, readable, written) ==
    LET f == Fleet[p]
        lent == IF Peer[f] # None /\ readable THEN partyStore[Peer[f]] ELSE Unpriced
        view == Priced(ev, prev, lent, partyClock)
    IN  /\ partyView' = [partyView EXCEPT ![p] = view]
        /\ partyStore' = IF p \in Leads /\ written THEN [partyStore EXCEPT ![f] = Stored(view)] ELSE partyStore
        /\ measuredAt' = [s \in PartyServices |-> [e \in Excess |->
               IF s \in StaleOn /\ ev.excess[s] = e THEN partyClock ELSE measuredAt[s][e]]]
        /\ provenAt' = IF \/ Cardinality({s \in StaleOn : ev.excess[s] \in Excess}) >= TrustServices
                          \/ Cardinality(ev.refusals) >= RefusalServices
                       THEN partyClock ELSE provenAt
        /\ UNCHANGED partyClock

Refresh(p, ev, readable, written) == RefreshFrom(p, ev, partyView[p], readable, written)

\* A pod restarts without evidence.  Hydrate takes what its fleet stored, if the
\* read succeeds and there is something, for the view before its first refresh
\* (adoptPartyPenalties).
PodRestart(p, readable, written) ==
    IF partyStore[Fleet[p]] = Unpriced
    THEN partyView' = [partyView EXCEPT ![p] = Unpriced] /\ UNCHANGED <<partyClock, partyStore, measuredAt, provenAt>>
    ELSE RefreshFrom(p, NoEvidence, partyStore[Fleet[p]], readable, written)

PartyTick ==
    /\ partyClock < PartyMaxTime
    /\ partyClock' = partyClock + 1
    /\ UNCHANGED <<partyView, partyStore, measuredAt, provenAt>>

PartyNext ==
    \/ PartyTick
    \/ \E p \in Pods, readable, written \in BOOLEAN :
          \/ \E ev \in Evidence : Refresh(p, ev, readable, written)
          \/ PodRestart(p, readable, written)

PartySpec == PartyInit /\ [][PartyNext]_partyVars

-----------------------------------------------------------------------------
PartyTypeOK ==
    /\ partyClock \in PartyTime
    /\ partyView \in [Pods -> View]
    /\ partyStore \in [Fleets -> View]

\* staleshare.go:101, trust.go:90, partystore.go:56, peerparties.go:47: a
\* penalty rests on a measurement, wherever it is charged.  A stale-share
\* penalty that was held, stored, adopted by a new pod or lent from fleet to
\* fleet and back still runs from the time some pod measured that much, and
\* distrust lapses trustHold after some pod held evidence enough for it: neither
\* is ever renewed by itself.
PenaltiesRunFromEvidence ==
    \A p \in Pods :
        /\ \A s \in PartyServices : Charged(partyView[p].stale[s]) =>
               LET st == partyView[p].stale[s] IN measuredAt[s][st.pen] # None /\ st.at <= measuredAt[s][st.pen]
        /\ partyView[p].trust # 0 => provenAt # None /\ partyView[p].trust <= provenAt + TrustHold
=============================================================================
