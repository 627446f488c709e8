---------------------------- MODULE StandingProofs ----------------------------
(***************************************************************************)
(* What a supplier's standing rests on.  For any pods, fleets and services *)
(* a penalty of a party is never renewed without evidence (Parties); for   *)
(* any replicas and keys the automatic drains keep to their rate           *)
(* (AutoDrain).                                                            *)
(***************************************************************************)
EXTENDS Parties, AutoDrain, FiniteSetTheorems, TLAPS

-----------------------------------------------------------------------------
(* The penalties of a party (Parties).                                     *)

\* A charge on a service runs from a measurement of that much, distrust from
\* evidence enough for it.
StaleGrounded(st, s) ==
    Charged(st) => measuredAt[s][st.pen] # None /\ st.at <= measuredAt[s][st.pen]

TrustGrounded(trust) == trust # 0 => provenAt # None /\ trust <= provenAt + TrustHold

Grounded(v) == (\A s \in PartyServices : StaleGrounded(v.stale[s], s)) /\ TrustGrounded(v.trust)

\* PenaltiesRunFromEvidence of the stored parties too, through which pods and
\* fleets pass penalties on; and nothing was measured later than now.
PartyInv ==
    /\ PartyTypeOK
    /\ measuredAt \in [PartyServices -> [Excess -> PartyTime \cup {None}]]
    /\ provenAt \in PartyTime \cup {None}
    /\ \A s \in PartyServices, e \in Excess : measuredAt[s][e] # None => measuredAt[s][e] <= partyClock
    /\ provenAt # None => provenAt <= partyClock
    /\ \A p \in Pods : Grounded(partyView[p])
    /\ \A f \in Fleets : Grounded(partyStore[f])

\* An unpriced party is charged nothing.
LEMMA UnpricedGrounded == Unpriced \in View /\ Grounded(Unpriced)
<1>1. 0 \in Trust
  BY PartiesAssumption DEF Trust
<1>2. Unpriced \in View
  BY <1>1 DEF Unpriced, View, Stale
<1>3. Grounded(Unpriced)
  BY DEF Unpriced, Grounded, StaleGrounded, TrustGrounded, Charged
<1>4. QED
  BY <1>2, <1>3

\* Nothing is penalised.
LEMMA PartyInitInv == PartyInit => PartyInv
<1> SUFFICES ASSUME PartyInit PROVE PartyInv
  OBVIOUS
<1>1. partyClock \in PartyTime
  BY PartiesAssumption DEF PartyInit, PartyTime
<1>2. PartyTypeOK
  BY <1>1, UnpricedGrounded DEF PartyInit, PartyTypeOK
<1>3. /\ measuredAt \in [PartyServices -> [Excess -> PartyTime \cup {None}]]
      /\ provenAt \in PartyTime \cup {None}
      /\ \A s \in PartyServices, e \in Excess : measuredAt[s][e] # None => measuredAt[s][e] <= partyClock
      /\ provenAt # None => provenAt <= partyClock
  BY DEF PartyInit
<1>4. /\ \A p \in Pods : Grounded(partyView[p])
      /\ \A f \in Fleets : Grounded(partyStore[f])
  BY UnpricedGrounded DEF PartyInit
<1>5. QED
  BY <1>2, <1>3, <1>4 DEF PartyInv

\* What a refresh records of its evidence: nothing measured before is lost or
\* moved back, what it measures is measured now.
LEMMA EvidenceRecorded ==
    ASSUME PartyInv, NEW p \in Pods, NEW ev \in Evidence, NEW prev, NEW readable, NEW written,
           RefreshFrom(p, ev, prev, readable, written)
    PROVE  /\ measuredAt' \in [PartyServices -> [Excess -> PartyTime \cup {None}]]
           /\ provenAt' \in PartyTime \cup {None}
           /\ \A s \in PartyServices, e \in Excess : measuredAt'[s][e] # None => measuredAt'[s][e] <= partyClock
           /\ provenAt' # None => provenAt' <= partyClock
           /\ \A s \in PartyServices, e \in Excess :
                 measuredAt[s][e] # None => measuredAt'[s][e] # None /\ measuredAt[s][e] <= measuredAt'[s][e]
           /\ provenAt # None => provenAt' # None /\ provenAt <= provenAt'
           /\ \A s \in StaleOn : ev.excess[s] \in Excess => measuredAt'[s][ev.excess[s]] = partyClock
<1>1. partyClock \in PartyTime /\ partyClock \in Nat /\ partyClock # None
  BY PartiesAssumption DEF PartyInv, PartyTypeOK, PartyTime
<1>2. measuredAt' = [s \in PartyServices |-> [e \in Excess |->
               IF s \in StaleOn /\ ev.excess[s] = e THEN partyClock ELSE measuredAt[s][e]]]
  BY DEF RefreshFrom
<1>3. provenAt' = partyClock \/ provenAt' = provenAt
  BY DEF RefreshFrom
<1>4. \A s \in PartyServices, e \in Excess : measuredAt'[s][e] = partyClock \/ measuredAt'[s][e] = measuredAt[s][e]
  BY <1>2
<1>5. measuredAt' \in [PartyServices -> [Excess -> PartyTime \cup {None}]]
  BY <1>1, <1>2 DEF PartyInv
<1>6. \A s \in PartyServices, e \in Excess : measuredAt[s][e] \in PartyTime \cup {None}
  BY DEF PartyInv
<1>7. \A t \in PartyTime : t \in Nat
  BY PartiesAssumption DEF PartyTime
<1>8. \A s \in StaleOn : ev.excess[s] \in Excess => measuredAt'[s][ev.excess[s]] = partyClock
  BY <1>2, PartiesAssumption
<1>9. \A s \in PartyServices, e \in Excess : measuredAt'[s][e] # None => measuredAt'[s][e] <= partyClock
  BY <1>1, <1>4 DEF PartyInv
<1>10. \A s \in PartyServices, e \in Excess :
          measuredAt[s][e] # None => measuredAt'[s][e] # None /\ measuredAt[s][e] <= measuredAt'[s][e]
  <2> SUFFICES ASSUME NEW s \in PartyServices, NEW e \in Excess, measuredAt[s][e] # None
               PROVE  measuredAt'[s][e] # None /\ measuredAt[s][e] <= measuredAt'[s][e]
    OBVIOUS
  <2>1. measuredAt[s][e] \in Nat /\ measuredAt[s][e] <= partyClock
    BY <1>6, <1>7 DEF PartyInv
  <2>2. CASE measuredAt'[s][e] = partyClock
    BY <1>1, <2>1, <2>2
  <2>3. CASE measuredAt'[s][e] = measuredAt[s][e]
    BY <2>1, <2>3
  <2>4. QED
    BY <1>4, <2>2, <2>3
<1>11. /\ provenAt' \in PartyTime \cup {None}
       /\ provenAt' # None => provenAt' <= partyClock
       /\ provenAt # None => provenAt' # None /\ provenAt <= provenAt'
  BY <1>1, <1>3, <1>7 DEF PartyInv
<1>12. QED
  BY <1>5, <1>8, <1>9, <1>10, <1>11

\* What ran from evidence still does after a refresh.
LEMMA GroundLasts ==
    ASSUME PartyInv, NEW p \in Pods, NEW ev \in Evidence, NEW prev, NEW readable, NEW written,
           RefreshFrom(p, ev, prev, readable, written)
    PROVE  /\ \A s \in PartyServices : \A st \in Stale : StaleGrounded(st, s) => StaleGrounded(st, s)'
           /\ \A t \in Trust : TrustGrounded(t) => TrustGrounded(t)'
           /\ \A v \in View : Grounded(v) => Grounded(v)'
<1>0. \A t \in PartyTime : t \in Nat
  BY PartiesAssumption DEF PartyTime
<1>1. ASSUME NEW s \in PartyServices, NEW st \in Stale, StaleGrounded(st, s)
      PROVE  StaleGrounded(st, s)'
  <2> SUFFICES ASSUME Charged(st)
               PROVE  measuredAt'[s][st.pen] # None /\ st.at <= measuredAt'[s][st.pen]
    BY DEF StaleGrounded, Charged
  <2>1. st.pen \in Excess /\ st.at \in Nat
    BY <1>0 DEF Charged, Stale, ExcessLevels
  <2>2. measuredAt[s][st.pen] # None /\ st.at <= measuredAt[s][st.pen]
    BY <1>1 DEF StaleGrounded
  <2>3. measuredAt[s][st.pen] \in Nat
    BY <1>0, <2>1, <2>2 DEF PartyInv
  <2>4. measuredAt'[s][st.pen] # None /\ measuredAt[s][st.pen] <= measuredAt'[s][st.pen]
    BY <2>1, <2>2, EvidenceRecorded
  <2>5. measuredAt'[s][st.pen] \in Nat
    BY <1>0, <2>1, <2>4, EvidenceRecorded
  <2>6. QED
    BY <2>1, <2>2, <2>3, <2>4, <2>5
<1>2. ASSUME NEW t \in Trust, TrustGrounded(t) PROVE TrustGrounded(t)'
  <2> SUFFICES ASSUME t # 0 PROVE provenAt' # None /\ t <= provenAt' + TrustHold
    BY DEF TrustGrounded
  <2>1. provenAt # None /\ t <= provenAt + TrustHold
    BY <1>2 DEF TrustGrounded
  <2>2. provenAt' # None /\ provenAt <= provenAt'
    BY <2>1, EvidenceRecorded
  <2>3. provenAt \in Nat /\ provenAt' \in Nat
    BY <1>0, <2>1, <2>2, EvidenceRecorded DEF PartyInv
  <2>4. t \in Nat /\ TrustHold \in Nat
    BY PartiesAssumption DEF Trust
  <2>5. \A i, j, k, n \in Nat : i <= j + n /\ j <= k => i <= k + n
    OBVIOUS
  <2>6. QED
    BY <2>1, <2>2, <2>3, <2>4, <2>5, Zenon
<1>3. ASSUME NEW v \in View, Grounded(v) PROVE Grounded(v)'
  <2>1. (\A s \in PartyServices : v.stale[s] \in Stale) /\ v.trust \in Trust
    BY DEF View
  <2>2. QED
    BY <1>1, <1>2, <1>3, <2>1 DEF Grounded
<1>4. QED
  BY <1>1, <1>2, <1>3

\* A refresh prices a party from its evidence, from what was charged before and
\* from what a peer lends: all three are grounded.
LEMMA PricedGrounded ==
    ASSUME PartyInv, NEW p \in Pods, NEW ev \in Evidence, NEW prev \in View, NEW readable, NEW written,
           RefreshFrom(p, ev, prev, readable, written), Grounded(prev),
           NEW lent \in View, Grounded(lent), NEW now, now = partyClock
    PROVE  Priced(ev, prev, lent, now) \in View /\ Grounded(Priced(ev, prev, lent, now))'
<1> DEFINE measured == [s \in PartyServices |-> Measure(ev.excess[s], s, prev.stale[s], now)]
           trust == Distrust(measured, ev.refusals, prev.trust, now)
           view == Priced(ev, prev, lent, now)
<1>0. /\ now \in PartyTime /\ now \in Nat /\ now # None /\ \A t \in PartyTime : t \in Nat
  BY PartiesAssumption DEF PartyInv, PartyTypeOK, PartyTime
<1>1. ASSUME NEW s \in PartyServices PROVE measured[s] \in Stale /\ StaleGrounded(measured[s], s)'
  <2>0. measured[s] = Measure(ev.excess[s], s, prev.stale[s], now) /\ ev.excess[s] \in ExcessLevels \cup {None}
    BY Zenon DEF Evidence
  <2>1. CASE ev.excess[s] # None
    <3>1. measured[s] = [pen |-> IF s \in StaleOn THEN ev.excess[s] ELSE 0, excess |-> ev.excess[s],
                         at |-> now, held |-> FALSE]
      BY <2>0, <2>1 DEF Measure
    <3>2. measured[s] \in Stale
      <4>1. ev.excess[s] \in ExcessLevels /\ (IF s \in StaleOn THEN ev.excess[s] ELSE 0) \in ExcessLevels
        BY <2>0, <2>1 DEF ExcessLevels
      <4>2. measured[s] \in [pen : ExcessLevels, excess : ExcessLevels, at : PartyTime, held : BOOLEAN]
        <5> HIDE DEF measured
        <5> QED
          BY <1>0, <3>1, <4>1
      <4>3. QED
        BY <4>2, Zenon DEF Stale
    <3>3. ASSUME measured[s].pen # 0
          PROVE measuredAt'[s][measured[s].pen] = now /\ measured[s].at = now
      <4>1. s \in StaleOn /\ ev.excess[s] \in Excess /\ measured[s].pen = ev.excess[s]
        BY <2>0, <2>1, <3>1, <3>3, SMTT(30) DEF ExcessLevels
      <4>2. QED
        BY <3>1, <4>1, EvidenceRecorded
    <3>4. QED
      BY <1>0, <3>2, <3>3 DEF StaleGrounded, Charged
  <2>2. CASE ev.excess[s] = None /\ Charged(prev.stale[s]) /\ s \in StaleOn /\ now - prev.stale[s].at < StaleHold
    <3>1. measured[s] = [prev.stale[s] EXCEPT !.held = TRUE]
      BY <2>0, <2>2 DEF Measure
    <3>2. prev.stale[s] \in [pen : ExcessLevels, excess : ExcessLevels, at : PartyTime, held : BOOLEAN]
      BY <2>2 DEF View, Stale, Charged
    <3>3. measured[s] \in Stale /\ measured[s].pen = prev.stale[s].pen /\ measured[s].at = prev.stale[s].at
      BY <3>1, <3>2, Zenon DEF Stale
    <3>4. StaleGrounded(prev.stale[s], s)'
      <4>1. prev.stale[s] \in Stale /\ StaleGrounded(prev.stale[s], s)
        BY DEF View, Grounded
      <4>2. QED
        BY <4>1, GroundLasts
    <3>5. QED
      BY <2>2, <3>3, <3>4 DEF StaleGrounded, Charged
  <2>3. CASE ev.excess[s] = None /\ ~(Charged(prev.stale[s]) /\ s \in StaleOn /\ now - prev.stale[s].at < StaleHold)
    <3>1. measured[s] = None
      BY <2>0, <2>3 DEF Measure
    <3>2. QED
      BY <3>1 DEF Stale, StaleGrounded, Charged
  <2>4. QED
    BY <2>1, <2>2, <2>3
<1>2. trust \in Trust /\ TrustGrounded(trust)'
  <2>1. CASE Proven(measured, ev.refusals)
    <3>1. trust = now + TrustHold
      BY <2>1 DEF Distrust
    <3>2. StaleEvidence(measured) \subseteq {s \in StaleOn : ev.excess[s] \in Excess}
      <4> SUFFICES ASSUME NEW s \in StaleOn, measured[s] # None, ~measured[s].held, measured[s].excess # 0
                   PROVE  ev.excess[s] \in Excess
        BY DEF StaleEvidence
      <4>0. s \in PartyServices
        BY PartiesAssumption
      <4>1. measured[s] = Measure(ev.excess[s], s, prev.stale[s], now) /\ ev.excess[s] \in ExcessLevels \cup {None}
        BY <4>0, Zenon DEF Evidence
      <4>2. CASE ev.excess[s] # None
        BY <4>1, <4>2 DEF Measure, ExcessLevels
      <4>3. CASE ev.excess[s] = None
        <5>1. measured[s] = [prev.stale[s] EXCEPT !.held = TRUE] /\ Charged(prev.stale[s])
          BY <4>1, <4>3 DEF Measure
        <5>2. prev.stale[s] \in [pen : ExcessLevels, excess : ExcessLevels, at : PartyTime, held : BOOLEAN]
          BY <4>0, <5>1 DEF View, Stale, Charged
        <5>3. measured[s].held
          BY <5>1, <5>2
        <5>4. QED
          BY <5>3, ZenonT(60)
      <4>4. QED
        BY <4>2, <4>3
    <3>3. IsFiniteSet({s \in StaleOn : ev.excess[s] \in Excess})
      BY PartiesAssumption, FS_Subset
    <3>4. Cardinality(StaleEvidence(measured)) >= TrustServices
            => Cardinality({s \in StaleOn : ev.excess[s] \in Excess}) >= TrustServices
      <4>1. /\ Cardinality(StaleEvidence(measured)) <= Cardinality({s \in StaleOn : ev.excess[s] \in Excess})
            /\ IsFiniteSet(StaleEvidence(measured))
        BY <3>2, <3>3, FS_Subset, Zenon
      <4>2. /\ Cardinality(StaleEvidence(measured)) \in Nat
            /\ Cardinality({s \in StaleOn : ev.excess[s] \in Excess}) \in Nat
        BY <3>3, <4>1, FS_CardinalityType, Zenon
      <4>3. QED
        BY <4>1, <4>2, PartiesAssumption
    <3>5. provenAt' = now
      BY <2>1, <3>4 DEF Proven, RefreshFrom
    <3>6. now + TrustHold \in Trust
      BY <1>0, PartiesAssumption DEF Trust, PartyTime
    <3>7. QED
      BY <1>0, <3>1, <3>5, <3>6, PartiesAssumption DEF TrustGrounded
  <2>2. CASE ~Proven(measured, ev.refusals)
    <3>1. trust = prev.trust \/ trust = 0
      BY <2>2 DEF Distrust
    <3>2. prev.trust \in Trust /\ TrustGrounded(prev.trust)'
      BY GroundLasts DEF View, Grounded
    <3>3. 0 \in Trust /\ TrustGrounded(0)'
      BY PartiesAssumption, SMTT(30) DEF Trust, TrustGrounded
    <3>4. QED
      BY <3>1, <3>2, <3>3
  <2>3. QED
    BY <2>1, <2>2
<1>3. ASSUME NEW s \in PartyServices
      PROVE  /\ BorrowStale(measured[s], lent.stale[s], s, now) \in Stale
             /\ StaleGrounded(BorrowStale(measured[s], lent.stale[s], s, now), s)'
  <2> DEFINE got == BorrowStale(measured[s], lent.stale[s], s, now)
  <2>1. lent.stale[s] \in Stale /\ StaleGrounded(lent.stale[s], s)'
    BY GroundLasts, Zenon DEF View, Grounded
  <2>2. CASE got = measured[s] \/ got = lent.stale[s]
    BY <1>1, <2>1, <2>2, Zenon
  <2>3. CASE got # measured[s] /\ got # lent.stale[s]
    <3>1. /\ Charged(lent.stale[s]) /\ measured[s] # None
          /\ got = [measured[s] EXCEPT !.pen = lent.stale[s].pen, !.at = lent.stale[s].at]
      BY <2>3 DEF BorrowStale
    <3>2. /\ measured[s] \in [pen : ExcessLevels, excess : ExcessLevels, at : PartyTime, held : BOOLEAN]
          /\ lent.stale[s] \in [pen : ExcessLevels, excess : ExcessLevels, at : PartyTime, held : BOOLEAN]
      BY <1>1, <2>1, <3>1 DEF Stale, Charged
    <3>3. got \in Stale /\ got.pen = lent.stale[s].pen /\ got.at = lent.stale[s].at
      BY <3>1, <3>2, Zenon DEF Stale
    <3>4. QED
      BY <2>1, <3>1, <3>3 DEF StaleGrounded, Charged
  <2>4. QED
    BY <2>2, <2>3
<1>4. BorrowTrust(trust, lent.trust, now) \in Trust /\ TrustGrounded(BorrowTrust(trust, lent.trust, now))'
  <2>1. lent.trust \in Trust /\ TrustGrounded(lent.trust)'
    BY GroundLasts DEF View, Grounded
  <2>2. QED
    BY <1>2, <2>1 DEF BorrowTrust
<1>5. view = [stale |-> [s \in PartyServices |-> BorrowStale(measured[s], lent.stale[s], s, now)],
              trust |-> BorrowTrust(trust, lent.trust, now)]
  BY DEF Priced
<1>6. view \in View
  BY <1>3, <1>4, <1>5, SMTT(30) DEF View
<1>7. Grounded(view)'
  BY <1>0, <1>3, <1>4, <1>5, SMTT(30) DEF Grounded
<1>8. QED
  BY <1>6, <1>7

\* A refresh, from the view before it or from what the fleet stored, keeps the
\* invariant.
LEMMA RefreshKeepsInv ==
    ASSUME PartyInv, NEW p \in Pods, NEW ev \in Evidence, NEW prev \in View, Grounded(prev),
           NEW readable, NEW written, RefreshFrom(p, ev, prev, readable, written)
    PROVE  PartyInv'
<1>1. PICK lent : lent = IF Peer[Fleet[p]] # None /\ readable THEN partyStore[Peer[Fleet[p]]] ELSE Unpriced
  OBVIOUS
<1>2. PICK now : now = partyClock
  OBVIOUS
<1>3. Fleet[p] \in Fleets
  BY DEF Fleets
<1>4. lent \in View /\ Grounded(lent)
  <2>1. CASE Peer[Fleet[p]] # None /\ readable
    <3>1. Peer[Fleet[p]] \in Fleets /\ lent = partyStore[Peer[Fleet[p]]]
      BY <1>1, <1>3, <2>1, PartiesAssumption
    <3>2. QED
      BY <3>1 DEF PartyInv, PartyTypeOK
  <2>2. CASE ~(Peer[Fleet[p]] # None /\ readable)
    BY <1>1, <2>2, UnpricedGrounded
  <2>3. QED
    BY <2>1, <2>2
<1>5. PICK view : view = Priced(ev, prev, lent, now)
  OBVIOUS
<1>6. view \in View /\ Grounded(view)'
  BY <1>2, <1>4, <1>5, PricedGrounded, Zenon
<1>7. Stored(view) \in View /\ Grounded(Stored(view))'
  <2> DEFINE kept == [s \in PartyServices |->
                 IF Charged(view.stale[s]) THEN [view.stale[s] EXCEPT !.held = TRUE, !.excess = 0] ELSE None]
  <2>1. Stored(view) = [view EXCEPT !.stale = kept]
    BY DEF Stored
  <2>2. ASSUME NEW s \in PartyServices PROVE kept[s] \in Stale /\ StaleGrounded(kept[s], s)'
    <3>1. CASE Charged(view.stale[s])
      <4>1. view.stale[s] \in [pen : ExcessLevels, excess : ExcessLevels, at : PartyTime, held : BOOLEAN]
        BY <1>6, <3>1 DEF View, Stale, Charged
      <4>2. kept[s] = [view.stale[s] EXCEPT !.held = TRUE, !.excess = 0]
        BY <3>1
      <4>3. 0 \in ExcessLevels
        BY DEF ExcessLevels
      <4>4. /\ kept[s] \in [pen : ExcessLevels, excess : ExcessLevels, at : PartyTime, held : BOOLEAN]
            /\ kept[s].pen = view.stale[s].pen /\ kept[s].at = view.stale[s].at
        BY <4>1, <4>2, <4>3, Zenon
      <4>5. StaleGrounded(view.stale[s], s)'
        BY <1>6 DEF Grounded
      <4>6. StaleGrounded(kept[s], s)'
        BY <3>1, <4>4, <4>5 DEF StaleGrounded, Charged
      <4>7. QED
        BY <4>4, <4>6, Zenon DEF Stale
    <3>2. CASE ~Charged(view.stale[s])
      BY <3>2 DEF Stale, StaleGrounded, Charged
    <3>3. QED
      BY <3>1, <3>2
  <2>3. kept \in [PartyServices -> Stale]
    BY <2>2, Zenon
  <2>4. /\ Stored(view) \in View
        /\ Stored(view).stale = kept /\ Stored(view).trust = view.trust
    <3> HIDE DEF kept
    <3> QED
      BY <1>6, <2>1, <2>3 DEF View
  <2>5. Grounded(Stored(view))'
    <3>1. PICK w : w = Stored(view)
      OBVIOUS
    <3>2. \A s \in PartyServices : StaleGrounded(w.stale[s], s)'
      BY <2>2, <2>4, <3>1, Zenon
    <3>3. TrustGrounded(w.trust)'
      BY <1>6, <2>4, <3>1, Zenon DEF Grounded
    <3>4. QED
      BY <3>1, <3>2, <3>3, Zenon DEF Grounded
  <2>6. QED
    BY <2>4, <2>5, Zenon
<1>8. /\ partyView' = [partyView EXCEPT ![p] = view]
      /\ partyStore' = partyStore \/ partyStore' = [partyStore EXCEPT ![Fleet[p]] = Stored(view)]
      /\ partyClock' = partyClock
  BY <1>1, <1>2, <1>5 DEF RefreshFrom
<1>9. PartyTypeOK'
  BY <1>3, <1>6, <1>7, <1>8, Zenon DEF PartyInv, PartyTypeOK
<1>10. \A q \in Pods : Grounded(partyView[q])'
  <2> SUFFICES ASSUME NEW q \in Pods PROVE Grounded(partyView[q])'
    OBVIOUS
  <2>1. PICK v : v = partyView'[q]
    OBVIOUS
  <2>2. v = view \/ (v = partyView[q] /\ v \in View /\ Grounded(v))
    BY <1>8, <2>1 DEF PartyInv, PartyTypeOK
  <2>3. Grounded(v)'
    BY <1>6, <2>2, GroundLasts, Zenon
  <2>4. QED
    BY <2>1, <2>3 DEF Grounded, StaleGrounded, TrustGrounded
<1>11. \A f \in Fleets : Grounded(partyStore[f])'
  <2> SUFFICES ASSUME NEW f \in Fleets PROVE Grounded(partyStore[f])'
    OBVIOUS
  <2>1. PICK v : v = partyStore'[f]
    OBVIOUS
  <2>2. v = Stored(view) \/ (v = partyStore[f] /\ v \in View /\ Grounded(v))
    BY <1>8, <2>1 DEF PartyInv, PartyTypeOK
  <2>3. Grounded(v)'
    BY <1>7, <2>2, GroundLasts
  <2>4. QED
    BY <2>1, <2>3 DEF Grounded, StaleGrounded, TrustGrounded
<1>12. QED
  BY <1>8, <1>9, <1>10, <1>11, EvidenceRecorded, Zenon DEF PartyInv

\* Every step keeps it.
LEMMA PartyNextInv == PartyInv /\ [PartyNext]_partyVars => PartyInv'
<1> SUFFICES ASSUME PartyInv, [PartyNext]_partyVars PROVE PartyInv'
  BY Zenon
<1>1. ASSUME UNCHANGED <<partyStore, measuredAt, provenAt>>,
             partyClock' \in PartyTime, partyClock <= partyClock',
             \A p \in Pods : partyView'[p] = partyView[p] \/ partyView'[p] = Unpriced,
             partyView' \in [Pods -> View]
      PROVE  PartyInv'
  <2>1. partyClock \in Nat /\ partyClock' \in Nat /\ \A t \in PartyTime : t \in Nat
    BY <1>1, PartiesAssumption DEF PartyInv, PartyTypeOK, PartyTime
  <2>2. PartyTypeOK'
    BY <1>1 DEF PartyInv, PartyTypeOK
  <2>3. \A s \in PartyServices, e \in Excess : measuredAt'[s][e] # None => measuredAt'[s][e] <= partyClock'
    <3> SUFFICES ASSUME NEW s \in PartyServices, NEW e \in Excess, measuredAt[s][e] # None
                 PROVE  measuredAt[s][e] <= partyClock'
      BY <1>1
    <3>1. measuredAt[s][e] \in Nat /\ measuredAt[s][e] <= partyClock
      BY <2>1 DEF PartyInv
    <3>2. QED
      BY <1>1, <2>1, <3>1
  <2>4. provenAt' # None => provenAt' <= partyClock'
    <3> SUFFICES ASSUME provenAt # None PROVE provenAt <= partyClock'
      BY <1>1
    <3>1. provenAt \in Nat /\ provenAt <= partyClock
      BY <2>1, Zenon DEF PartyInv
    <3>2. QED
      BY <1>1, <2>1, <3>1
  <2>5. \A f \in Fleets : Grounded(partyStore[f])'
    BY <1>1, Zenon DEF PartyInv, Grounded, StaleGrounded, TrustGrounded
  <2>6. \A v : Grounded(v) => Grounded(v)'
    BY <1>1, Zenon DEF Grounded, StaleGrounded, TrustGrounded
  <2>7. \A p \in Pods : Grounded(partyView[p])'
    <3> SUFFICES ASSUME NEW p \in Pods PROVE Grounded(partyView[p])'
      OBVIOUS
    <3>1. PICK v : v = partyView'[p]
      BY Zenon
    <3>2. Grounded(v)
      BY <1>1, <3>1, UnpricedGrounded DEF PartyInv
    <3>3. Grounded(v)'
      BY <2>6, <3>2, Zenon
    <3>4. QED
      BY <3>1, <3>3 DEF Grounded, StaleGrounded, TrustGrounded
  <2>8. QED
    BY <1>1, <2>2, <2>3, <2>4, <2>5, <2>7, Zenon DEF PartyInv
<1>2. CASE PartyTick
  <2>1. partyClock \in Nat /\ partyClock' \in PartyTime /\ partyClock <= partyClock'
    BY <1>2, PartiesAssumption DEF PartyTick, PartyInv, PartyTypeOK, PartyTime
  <2>2. QED
    BY <1>1, <1>2, <2>1 DEF PartyTick, PartyInv, PartyTypeOK
<1>3. ASSUME NEW p \in Pods, NEW readable \in BOOLEAN, NEW written \in BOOLEAN, NEW ev \in Evidence,
             Refresh(p, ev, readable, written)
      PROVE  PartyInv'
  <2>1. partyView[p] \in View /\ Grounded(partyView[p])
    BY DEF PartyInv, PartyTypeOK
  <2>2. PICK prev : prev = partyView[p]
    OBVIOUS
  <2>3. QED
    BY <1>3, <2>1, <2>2, RefreshKeepsInv DEF Refresh
<1>4. ASSUME NEW p \in Pods, NEW readable \in BOOLEAN, NEW written \in BOOLEAN, PodRestart(p, readable, written)
      PROVE  PartyInv'
  <2>1. CASE partyStore[Fleet[p]] = Unpriced
    <3>1. partyClock \in Nat
      BY PartiesAssumption DEF PartyInv, PartyTypeOK, PartyTime
    <3>2. QED
      BY <1>1, <1>4, <2>1, <3>1, UnpricedGrounded DEF PodRestart, PartyInv, PartyTypeOK
  <2>2. CASE partyStore[Fleet[p]] # Unpriced
    <3>1. partyStore[Fleet[p]] \in View /\ Grounded(partyStore[Fleet[p]])
      BY DEF PartyInv, PartyTypeOK, Fleets
    <3>2. NoEvidence \in Evidence
      BY DEF NoEvidence, Evidence
    <3>3. PICK prev : prev = partyStore[Fleet[p]]
      BY Zenon
    <3>4. QED
      BY <1>4, <2>2, <3>1, <3>2, <3>3, RefreshKeepsInv, Zenon DEF PodRestart
  <2>3. QED
    BY <2>1, <2>2, Zenon
<1>5. CASE UNCHANGED partyVars
  <2>1. partyClock \in Nat
    BY PartiesAssumption DEF PartyInv, PartyTypeOK, PartyTime
  <2>2. QED
    BY <1>1, <1>5, <2>1 DEF partyVars, PartyInv, PartyTypeOK
<1>6. QED
  BY <1>2, <1>3, <1>4, <1>5 DEF PartyNext

\* However a penalty was held, stored, adopted by new pods and lent between any
\* fleets, it runs from a measurement of that much, and distrust from evidence
\* enough for it: no chain of loans renews either.
THEOREM PenaltiesAlwaysFromEvidence == PartySpec => []PenaltiesRunFromEvidence
<1>1. PartySpec => []PartyInv
  BY PartyInitInv, PartyNextInv, PTL DEF PartySpec
<1>2. PartyInv => PenaltiesRunFromEvidence
  BY DEF PartyInv, Grounded, StaleGrounded, TrustGrounded, PenaltiesRunFromEvidence
<1>3. QED
  BY <1>1, <1>2, PTL

-----------------------------------------------------------------------------
(* The rate of the automatic drains (AutoDrain).                           *)

\* What the engine remembers covers what it did: the last drain of a service is
\* noted, the drains of the last hour are in recent, and a key chosen is within
\* the limits until it is set.
Remembered ==
    /\ \A d \in autoSets : /\ d[3] <= adClock
                           /\ lastBySvc[d[1]][d[2][1]] # None /\ d[3] <= lastBySvc[d[1]][d[2][1]]
    /\ \A d \in autoSets : d[3] + Hour > adClock => <<d[2], d[3]>> \in recent[d[1]]
    /\ \A e \in Engines : chosen[e] # None => ~Limited(e, chosen[e])

RateTypeOK ==
    /\ adClock \in AdTime
    /\ autoSets \subseteq Engines \X DrainKeys \X AdTime
    /\ recent \in [Engines -> SUBSET (DrainKeys \X AdTime)]
    /\ \A e \in Engines : IsFiniteSet(recent[e])
    /\ lastBySvc \in [Engines -> [AdServices -> AdTime \cup {None}]]
    /\ chosen \in [Engines -> DrainKeys \cup {None}]
    /\ passing \in [Engines -> SUBSET DrainKeys]

RateInv == RateTypeOK /\ Remembered /\ DrainsRateLimited

\* The drains e set in the hour from t.
InHour(e, t) == {d \in autoSets : d[1] = e /\ d[3] >= t /\ d[3] < t + Hour}

\* Nothing has been drained.
LEMMA RateInitInv == AdInit => RateInv
<1> SUFFICES ASSUME AdInit PROVE RateInv
  OBVIOUS
<1>1. RateTypeOK
  <2>1. adClock \in AdTime /\ autoSets \subseteq Engines \X DrainKeys \X AdTime
    BY AutoDrainAssumption DEF AdInit, AdTime
  <2>2. recent \in [Engines -> SUBSET (DrainKeys \X AdTime)]
    BY DEF AdInit
  <2>3. \A e \in Engines : IsFiniteSet(recent[e])
    BY FS_EmptySet DEF AdInit
  <2>4. lastBySvc \in [Engines -> [AdServices -> AdTime \cup {None}]]
    BY DEF AdInit
  <2>5. chosen \in [Engines -> DrainKeys \cup {None}] /\ passing \in [Engines -> SUBSET DrainKeys]
    BY Zenon DEF AdInit
  <2>6. QED
    BY <2>1, <2>2, <2>3, <2>4, <2>5, Zenon DEF RateTypeOK
<1>2. Remembered
  BY Zenon DEF AdInit, Remembered
<1>3. DrainsRateLimited
  <2>1. \A e \in Engines, t \in AdTime : {d \in autoSets : d[1] = e /\ d[3] >= t /\ d[3] < t + Hour} = {}
    BY Zenon DEF AdInit
  <2>2. Cardinality({}) <= MaxPerHour
    <3>1. Cardinality({}) = 0
      BY FS_EmptySet, Zenon
    <3>2. MaxPerHour \in Nat
      BY AutoDrainAssumption, Zenon
    <3>3. QED
      BY <3>1, <3>2
  <2>3. QED
    BY <2>1, <2>2 DEF AdInit, DrainsRateLimited
<1>4. QED
  BY <1>1, <1>2, <1>3 DEF RateInv

\* The last hour's drains of a replica are no more than it remembers.
LEMMA HourRemembered ==
    ASSUME RateInv, NEW e \in Engines, NEW t \in AdTime, t + Hour > adClock
    PROVE  /\ IsFiniteSet(InHour(e, t))
           /\ Cardinality(InHour(e, t)) <= Cardinality(recent[e])
<1> DEFINE f == [d \in InHour(e, t) |-> <<d[2], d[3]>>]
<1>1. \A d \in InHour(e, t) : d \in Engines \X DrainKeys \X AdTime /\ d[1] = e /\ d[3] >= t
  BY DEF InHour, RateInv, RateTypeOK
<1>2. \A d \in InHour(e, t) : d[3] + Hour > adClock
  <2> SUFFICES ASSUME NEW d \in InHour(e, t) PROVE d[3] + Hour > adClock
    OBVIOUS
  <2>1. d[3] \in Nat /\ t \in Nat /\ adClock \in Nat /\ Hour \in Nat /\ d[3] >= t
    BY <1>1, AutoDrainAssumption DEF RateInv, RateTypeOK, AdTime
  <2>2. QED
    BY <2>1
<1>3. f \in [InHour(e, t) -> recent[e]]
  BY <1>1, <1>2 DEF RateInv, Remembered, InHour
<1>4. \A d, g \in InHour(e, t) : f[d] = f[g] => d = g
  BY <1>1
<1>5. f \in Injection(InHour(e, t), recent[e])
  BY <1>3, <1>4 DEF Injection, IsInjective
<1>6. IsFiniteSet(recent[e])
  BY DEF RateInv, RateTypeOK
<1>7. QED
  BY <1>5, <1>6, FS_Injection, Zenon

\* A drain set within the limits keeps to them.
LEMMA SetKeepsInv ==
    ASSUME RateInv, NEW e \in Engines, SetAutoDrain(e, TRUE)
    PROVE  RateInv'
<1> DEFINE k == chosen[e]
           new == <<e, k, adClock>>
<1>0. RateTypeOK /\ Remembered /\ DrainsRateLimited
  BY Zenon DEF RateInv
<1>1. /\ k \in DrainKeys /\ k # None /\ k[1] \in AdServices /\ ~Limited(e, k)
      /\ adClock \in Nat /\ Hour \in Nat /\ ServiceGap \in Nat /\ MaxPerHour \in Nat
  BY <1>0, AutoDrainAssumption DEF SetAutoDrain, RateTypeOK, Remembered, AdServices, AdTime
<1>2. /\ lastBySvc' = [lastBySvc EXCEPT ![e][k[1]] = adClock]
      /\ recent' = [recent EXCEPT ![e] = @ \cup {<<k, adClock>>}]
      /\ autoSets' = autoSets \cup {new}
      /\ chosen' = [chosen EXCEPT ![e] = None]
      /\ adClock' = adClock /\ passing' = passing
  BY Zenon DEF SetAutoDrain
<1>t. \A d \in autoSets : /\ d[1] \in Engines /\ d[2] \in DrainKeys /\ d[3] \in AdTime /\ d[3] \in Nat
                          /\ d[2][1] \in AdServices
  BY <1>0, AutoDrainAssumption DEF RateTypeOK, AdTime, AdServices
<1>3. RateTypeOK'
  <2>1. autoSets' \subseteq Engines \X DrainKeys \X AdTime
    BY <1>0, <1>1, <1>2 DEF RateTypeOK
  <2>2. recent' \in [Engines -> SUBSET (DrainKeys \X AdTime)]
    BY <1>0, <1>1, <1>2 DEF RateTypeOK
  <2>3. \A g \in Engines : IsFiniteSet(recent'[g])
    <3>1. recent'[e] = recent[e] \cup {<<k, adClock>>} /\ \A g \in Engines : g # e => recent'[g] = recent[g]
      BY <1>0, <1>2 DEF RateTypeOK
    <3>2. IsFiniteSet(recent[e] \cup {<<k, adClock>>})
      BY <1>0, FS_AddElement, Zenon DEF RateTypeOK
    <3>3. QED
      BY <1>0, <3>1, <3>2, Zenon DEF RateTypeOK
  <2>4. lastBySvc' \in [Engines -> [AdServices -> AdTime \cup {None}]]
    BY <1>0, <1>1, <1>2 DEF RateTypeOK
  <2>5. chosen' \in [Engines -> DrainKeys \cup {None}]
    BY <1>0, <1>2 DEF RateTypeOK
  <2>6. QED
    BY <1>0, <1>2, <2>1, <2>2, <2>3, <2>4, <2>5, Zenon DEF RateTypeOK
<1>4. Remembered'
  <2>1. adClock # None /\ adClock \in AdTime
    BY <1>0, AutoDrainAssumption, Zenon DEF RateTypeOK
  <2>2. ASSUME NEW d \in autoSets'
        PROVE  /\ d[3] <= adClock'
               /\ lastBySvc'[d[1]][d[2][1]] # None /\ d[3] <= lastBySvc'[d[1]][d[2][1]]
    <3>1. CASE d = new
      BY <1>0, <1>1, <1>2, <2>1, <3>1, SMTT(30) DEF RateTypeOK
    <3>2. CASE d \in autoSets
      <4>1. lastBySvc'[d[1]][d[2][1]] = adClock \/ lastBySvc'[d[1]][d[2][1]] = lastBySvc[d[1]][d[2][1]]
        BY <1>0, <1>1, <1>2, <1>t, <3>2, Zenon DEF RateTypeOK
      <4>2. QED
        BY <1>0, <1>2, <2>1, <3>2, <4>1, Zenon DEF Remembered
    <3>3. QED
      BY <1>2, <3>1, <3>2, Zenon
  <2>3. ASSUME NEW d \in autoSets', d[3] + Hour > adClock'
        PROVE  <<d[2], d[3]>> \in recent'[d[1]]
    <3>1. CASE d = new
      BY <1>0, <1>2, <3>1, Zenon DEF RateTypeOK
    <3>2. CASE d \in autoSets
      <4>1. <<d[2], d[3]>> \in recent[d[1]]
        BY <1>0, <1>2, <2>3, <3>2, Zenon DEF Remembered
      <4>2. recent[d[1]] \subseteq recent'[d[1]]
        BY <1>0, <1>2, <1>t, <3>2, Zenon DEF RateTypeOK
      <4>3. QED
        BY <4>1, <4>2, Zenon
    <3>3. QED
      BY <1>2, <3>1, <3>2
  <2>4. ASSUME NEW g \in Engines, chosen'[g] # None PROVE ~Limited(g, chosen[g])'
    <3>1. g # e /\ chosen'[g] = chosen[g]
      BY <1>0, <1>2, <2>4, Zenon DEF RateTypeOK
    <3>2. recent'[g] = recent[g] /\ lastBySvc'[g] = lastBySvc[g]
      BY <1>0, <1>2, <3>1 DEF RateTypeOK
    <3>3. QED
      BY <1>0, <1>2, <2>4, <3>1, <3>2, Zenon DEF Remembered, Limited
  <2>5. QED
    BY <2>2, <2>3, <2>4 DEF Remembered
<1>5. ASSUME NEW g \in Engines, NEW t \in AdTime PROVE Cardinality(InHour(g, t)') <= MaxPerHour
  <2>0. Cardinality(InHour(g, t)) <= MaxPerHour
    BY <1>0, Zenon DEF DrainsRateLimited, InHour
  <2>1. CASE g = e /\ adClock >= t /\ adClock < t + Hour
    <3>1. InHour(g, t)' = InHour(e, t) \cup {new}
      BY <1>2, <2>1 DEF InHour
    <3>2. IsFiniteSet(InHour(e, t)) /\ Cardinality(InHour(e, t)) <= Cardinality(recent[e])
      <4>1. t + Hour > adClock
        BY <1>1, <2>1 DEF AdTime
      <4>2. QED
        BY <4>1, HourRemembered
    <3>3. Cardinality(recent[e]) \in Nat /\ Cardinality(InHour(e, t)) \in Nat
      BY <1>0, <3>2, FS_CardinalityType, Zenon DEF RateTypeOK
    <3>4. Cardinality(recent[e]) < MaxPerHour
      BY <1>1, <3>3, SMTT(30) DEF Limited
    <3>5. Cardinality(InHour(e, t) \cup {new}) <= Cardinality(InHour(e, t)) + 1
      <4>1. Cardinality(InHour(e, t) \cup {new}) =
              IF new \in InHour(e, t) THEN Cardinality(InHour(e, t)) ELSE Cardinality(InHour(e, t)) + 1
        BY <3>2, FS_AddElement, Zenon
      <4>2. QED
        BY <3>3, <4>1
    <3>6. Cardinality(InHour(e, t) \cup {new}) \in Nat
      BY <3>2, FS_AddElement, FS_CardinalityType, Zenon
    <3>7. QED
      BY <1>1, <3>1, <3>2, <3>3, <3>4, <3>5, <3>6
  <2>2. CASE ~(g = e /\ adClock >= t /\ adClock < t + Hour)
    <3>1. InHour(g, t)' = InHour(g, t)
      BY <1>2, <2>2 DEF InHour
    <3>2. QED
      BY <2>0, <3>1
  <2>3. QED
    BY <2>1, <2>2, Zenon
<1>6. ASSUME NEW g \in Engines, NEW x \in autoSets', NEW y \in autoSets',
             x[1] = g, y[1] = g, x # y, x[2][1] = y[2][1], x[3] <= y[3]
      PROVE  y[3] - x[3] >= ServiceGap
  <2>1. CASE x \in autoSets /\ y \in autoSets
    BY <1>0, <1>6, <2>1, Zenon DEF DrainsRateLimited
  <2>2. CASE x \in autoSets /\ y = new
    <3>1. x[1] = e /\ x[2][1] = k[1] /\ y[3] = adClock /\ x[3] \in Nat
      BY <1>6, <1>t, <2>2, Zenon
    <3>2. lastBySvc[e][k[1]] # None /\ x[3] <= lastBySvc[e][k[1]]
      BY <1>0, <2>2, <3>1, Zenon DEF Remembered
    <3>3. lastBySvc[e][k[1]] \in Nat
      BY <1>0, <1>1, <3>2, AutoDrainAssumption, SMTT(30) DEF RateTypeOK, AdTime
    <3>4. ~(adClock - lastBySvc[e][k[1]] < ServiceGap)
      BY <1>1, <3>2, Zenon DEF Limited
    <3>5. QED
      BY <1>1, <3>1, <3>2, <3>3, <3>4, SMTT(30)
  <2>3. CASE x = new /\ y \in autoSets
    \* y was set before now, so at this very time: the gap since it is zero.
    <3>1. y[1] = e /\ y[2][1] = k[1] /\ x[3] = adClock /\ y[3] \in Nat /\ y[3] <= adClock
      BY <1>0, <1>6, <1>t, <2>3, Zenon DEF Remembered
    <3>2. y[3] = adClock
      BY <1>1, <1>6, <3>1
    <3>3. lastBySvc[e][k[1]] # None /\ adClock <= lastBySvc[e][k[1]]
      BY <1>0, <2>3, <3>1, <3>2, Zenon DEF Remembered
    <3>4. lastBySvc[e][k[1]] \in Nat
      BY <1>0, <1>1, <3>3, AutoDrainAssumption, SMTT(30) DEF RateTypeOK, AdTime
    <3>5. ~(adClock - lastBySvc[e][k[1]] < ServiceGap)
      BY <1>1, <3>3, Zenon DEF Limited
    <3>6. QED
      BY <1>1, <3>1, <3>2, <3>3, <3>4, <3>5, SMTT(30)
  <2>4. QED
    BY <1>2, <1>6, <2>1, <2>2, <2>3
<1>7. DrainsRateLimited'
  BY <1>5, <1>6, Zenon DEF DrainsRateLimited, InHour
<1>8. QED
  BY <1>3, <1>4, <1>7 DEF RateInv

\* A step that sets no drain keeps them, whatever it does to the store, the
\* lead and the evaluations.
LEMMA OthersKeepInv ==
    ASSUME RateInv, UNCHANGED <<autoSets, lastBySvc>>,
           adClock' \in AdTime, adClock <= adClock',
           chosen' \in [Engines -> DrainKeys \cup {None}], passing' \in [Engines -> SUBSET DrainKeys],
           \A e \in Engines : chosen'[e] # None => adClock' = adClock /\ recent'[e] = recent[e] /\ ~Limited(e, chosen'[e]),
           recent' \in [Engines -> SUBSET (DrainKeys \X AdTime)],
           \A e \in Engines : recent'[e] \subseteq recent[e],
           \A e \in Engines : \A d \in recent[e] : d[2] + Hour > adClock' => d \in recent'[e]
    PROVE  RateInv'
<1>0. RateTypeOK /\ Remembered /\ DrainsRateLimited
  BY Zenon DEF RateInv
<1>1. RateTypeOK'
  <2>1. \A e \in Engines : IsFiniteSet(recent'[e])
    BY <1>0, FS_Subset, Zenon DEF RateTypeOK
  <2>2. QED
    BY <1>0, <2>1, Zenon DEF RateTypeOK
<1>2. Remembered'
  <2>0. \A d \in autoSets : d \in Engines \X DrainKeys \X AdTime /\ d[1] \in Engines /\ d[3] \in Nat
    BY <1>0, AutoDrainAssumption, SMTT(30) DEF RateTypeOK, AdTime
  <2>n. adClock \in Nat /\ adClock' \in Nat /\ Hour \in Nat
    BY <1>0, AutoDrainAssumption, SMTT(30) DEF RateTypeOK, AdTime
  <2>1. \A d \in autoSets' : /\ d[3] <= adClock'
                             /\ lastBySvc'[d[1]][d[2][1]] # None /\ d[3] <= lastBySvc'[d[1]][d[2][1]]
    <3> SUFFICES ASSUME NEW d \in autoSets
                 PROVE  d[3] <= adClock' /\ lastBySvc[d[1]][d[2][1]] # None /\ d[3] <= lastBySvc[d[1]][d[2][1]]
      OBVIOUS
    <3>1. d[3] <= adClock /\ lastBySvc[d[1]][d[2][1]] # None /\ d[3] <= lastBySvc[d[1]][d[2][1]]
      BY <1>0, Zenon DEF Remembered
    <3>2. d[3] <= adClock'
      BY <2>0, <2>n, <3>1
    <3>3. QED
      BY <3>1, <3>2, Zenon
  <2>2. ASSUME NEW d \in autoSets', d[3] + Hour > adClock' PROVE <<d[2], d[3]>> \in recent'[d[1]]
    <3>1. d \in autoSets /\ d[1] \in Engines /\ d[3] + Hour > adClock
      BY <2>0, <2>n, <2>2, SMTT(30)
    <3>2. <<d[2], d[3]>> \in recent[d[1]]
      BY <1>0, <3>1, Zenon DEF Remembered
    <3>3. QED
      BY <2>2, <3>1, <3>2, Zenon
  <2>3. \A e \in Engines : chosen'[e] # None => ~Limited(e, chosen[e])'
    BY Zenon DEF Limited
  <2>4. QED
    BY <2>1, <2>2, <2>3, Zenon DEF Remembered
<1>3. DrainsRateLimited'
  BY <1>0 DEF DrainsRateLimited
<1>4. QED
  BY <1>1, <1>2, <1>3, Zenon DEF RateInv

\* Every step keeps the invariant.
LEMMA RateNextInv == RateInv /\ [AdNext]_adVars => RateInv'
<1> SUFFICES ASSUME RateInv, [AdNext]_adVars PROVE RateInv'
  OBVIOUS
<1>0. RateTypeOK /\ Remembered /\ adClock \in Nat
  BY AutoDrainAssumption DEF RateInv, RateTypeOK, AdTime
<1>q. ASSUME UNCHANGED <<adClock, autoSets, lastBySvc, recent, passing, chosen>> PROVE RateInv'
  BY <1>0, <1>q, OthersKeepInv DEF RateTypeOK, Remembered
<1>1. ASSUME NEW e \in Engines, NEW k, NEW s, Count(e, s) \/ CacheRefresh(e) \/ ElectOther(e)
                                     \/ ManualDrain(e, k) \/ ManualRelease(e, k)
      PROVE  RateInv'
  BY <1>1, <1>q DEF Count, CacheRefresh, ElectOther, ManualDrain, ManualRelease
<1>2. ASSUME NEW e \in Engines, Evaluate(e) PROVE RateInv'
  <2>1. CASE adLeader # e
    BY <1>2, <1>q, <2>1, Zenon DEF Evaluate
  <2>2. CASE adLeader = e
    <3>1. /\ chosen[e] = None /\ UNCHANGED <<adClock, autoSets, lastBySvc, chosen>>
          /\ recent' = [recent EXCEPT ![e] = KeptRecent(e)]
          /\ passing' = [passing EXCEPT ![e] = {k \in DrainKeys : k[1] \in pools[e]}]
      BY <1>2, <2>2 DEF Evaluate
    <3>2. recent' \in [Engines -> SUBSET (DrainKeys \X AdTime)] /\ passing' \in [Engines -> SUBSET DrainKeys]
      BY <1>0, <3>1 DEF RateTypeOK, KeptRecent
    <3>3. /\ \A g \in Engines : recent'[g] \subseteq recent[g]
          /\ \A g \in Engines : \A d \in recent[g] : d[2] + Hour > adClock' => d \in recent'[g]
          /\ \A g \in Engines : g # e => recent'[g] = recent[g]
      BY <1>0, <3>1, Zenon DEF RateTypeOK, KeptRecent
    <3>4. \A g \in Engines : chosen'[g] # None => adClock' = adClock /\ recent'[g] = recent[g] /\ ~Limited(g, chosen'[g])
      BY <1>0, <3>1, <3>3, Zenon DEF Remembered
    <3>5. adClock' \in AdTime /\ adClock <= adClock' /\ chosen' \in [Engines -> DrainKeys \cup {None}]
      BY <1>0, <3>1 DEF RateTypeOK, AdTime
    <3>6. UNCHANGED <<autoSets, lastBySvc>>
      BY <3>1, Zenon
    <3>7. QED
      BY <3>2, <3>3, <3>4, <3>5, <3>6, OthersKeepInv, Zenon
  <2>3. QED
    BY <2>1, <2>2
<1>3. ASSUME NEW e \in Engines, NEW k \in DrainKeys, NEW f, NEW act, Decide(e, k, f, act) PROVE RateInv'
  <2>1. Outcome(e, k, f, act) = "drained" => ~Limited(e, k)
    BY AutoDrainAssumption, Zenon DEF Outcome
  <2>2. /\ chosen' = [chosen EXCEPT ![e] = IF Trigger(f) # None /\ Outcome(e, k, f, act) = "drained" THEN k ELSE None]
        /\ passing' = [passing EXCEPT ![e] = @ \ {k}]
        /\ UNCHANGED <<adClock, autoSets, lastBySvc, recent>>
    BY <1>3 DEF Decide
  <2>3. chosen' \in [Engines -> DrainKeys \cup {None}] /\ passing' \in [Engines -> SUBSET DrainKeys]
    BY <1>0, <2>2, Zenon DEF RateTypeOK
  <2>4. \A g \in Engines : chosen'[g] # None => ~Limited(g, chosen'[g])
    BY <1>0, <2>1, <2>2 DEF RateTypeOK, Remembered
  <2>5. QED
    BY <1>0, <2>2, <2>3, <2>4, OthersKeepInv DEF RateTypeOK
<1>4. ASSUME NEW e \in Engines, NEW ok \in BOOLEAN, SetAutoDrain(e, ok) PROVE RateInv'
  <2>1. CASE ok = TRUE
    BY <1>4, <2>1, SetKeepsInv, Zenon
  <2>2. CASE ok = FALSE
    <3>1. chosen' = [chosen EXCEPT ![e] = None] /\ UNCHANGED <<adClock, autoSets, lastBySvc, recent, passing>>
      BY <1>4, <2>2, Zenon DEF SetAutoDrain
    <3>2. /\ chosen' \in [Engines -> DrainKeys \cup {None}]
          /\ \A g \in Engines : chosen'[g] # None => ~Limited(g, chosen'[g])
      BY <1>0, <3>1, Zenon DEF RateTypeOK, Remembered
    <3>3. QED
      BY <1>0, <3>1, <3>2, OthersKeepInv DEF RateTypeOK
  <2>3. QED
    BY <2>1, <2>2, Zenon
<1>5. CASE AdTick
  <2>1. adClock' \in AdTime /\ adClock <= adClock'
    BY <1>0, <1>5, AutoDrainAssumption DEF AdTick, AdTime
  <2>2. \A e \in Engines : chosen'[e] = None
    BY <1>5 DEF AdTick
  <2>3. UNCHANGED <<autoSets, lastBySvc, recent, passing, chosen>>
    BY <1>5 DEF AdTick
  <2>4. QED
    BY <1>0, <2>1, <2>2, <2>3, OthersKeepInv DEF RateTypeOK
<1>6. CASE UNCHANGED adVars
  BY <1>6, <1>q DEF adVars
<1>7. QED
  BY <1>1, <1>2, <1>3, <1>4, <1>5, <1>6, Zenon DEF AdNext

\* For any replicas, keys and limits, whatever people drain and release and
\* however the lead moves: no hour of a replica holds more than maxPerHour
\* drains, and two on one service are serviceGap apart.
THEOREM DrainsAlwaysRateLimited == AdSpec => []DrainsRateLimited
<1>1. AdSpec => []RateInv
  BY RateInitInv, RateNextInv, PTL DEF AdSpec
<1>2. RateInv => DrainsRateLimited
  BY DEF RateInv
<1>3. QED
  BY <1>1, <1>2, PTL
=============================================================================
