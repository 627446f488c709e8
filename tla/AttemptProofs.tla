---------------------------- MODULE AttemptProofs ----------------------------
(***************************************************************************)
(* Proofs about the attempts of one request, for any endpoints, operators, *)
(* views of them, lags and bound on the retries: the retries do better     *)
(* than the attempts before them, and the hedge race inside an attempt is  *)
(* fair.                                                                   *)
(***************************************************************************)
EXTENDS Retry, TLAPS

(* The hedge race.  What makes its two promises inductive is where each    *)
(* arm is when the race is where it is: an arm has a result exactly when   *)
(* it is about to report it or has; the channel of the hedges holds the    *)
(* arm the race calls the hedge; and the race stays open only while what   *)
(* it has received is failures.                                            *)

\* The arms.
ArmsInv ==
    /\ \A a \in Arm : res[a] # "none" <=> hedgeArm[a] \in {"reporting", "gone"}
    /\ \A a \in Arm : hedgePick[a] # None => hedgeArm[a] \notin {"idle", "running"}
    /\ res["primary"] # "ruledOut" /\ hedgeArm["primary"] # "idle"
    /\ primaryCh # <<>> => hedgeArm["primary"] = "gone"
    /\ hedgeCh # <<>> => hedgeCh = <<hedgeCur>> /\ hedgeArm[hedgeCur] = "gone"
    /\ hedgeArm["third"] # "idle" <=> hedgeCur = "third"
    /\ hedgeCur = "third" => hedgeArm["hedge"] = "gone"

\* The race.
RaceInv ==
    /\ hedgePc = "delay" => /\ hedgeArm["hedge"] = "idle" /\ hedgeCur = "hedge" /\ known = {}
                            /\ ~primaryDone /\ ~hedgeDone /\ ~rehedged
    /\ hedgePc = "alone" => /\ hedgeArm["hedge"] = "idle" \/ res["hedge"] = "ruledOut"
                            /\ hedgeCur = "hedge" /\ ~primaryDone
    /\ hedgePc = "race" => /\ hedgeArm["hedge"] # "idle"
                           /\ primaryDone => res["primary"] = "failed"
                           /\ hedgeDone => res[hedgeCur] \in {"failed", "ruledOut"}
    /\ hedgeArm["hedge"] = "idle" => known = {}

\* The lists: what an arm may still select keeps it where ArmsGoElsewhere says.
ListsInv ==
    /\ hedgeCur = "hedge" /\ hedgeArm["hedge"] # "idle" /\ HoldsAnother(hedgePool) =>
           cands["hedge"] # {} /\ cands["hedge"] \cap known = {}
    /\ hedgeCur = "third" => cands["third"] # {} /\ \A e \in cands["third"] : OperatorOf[e] \notin Operators(known)

HedgeInv == RacesFairly /\ ArmsInv /\ RaceInv /\ ListsInv

\* A race starts with no arm launched, no list narrowed and nothing received.
LEMMA HedgeInitInv == HedgeInit => HedgeInv
<1> SUFFICES ASSUME HedgeInit PROVE HedgeInv
  OBVIOUS
<1>1. HedgeTypeOK
  BY HedgeAssumption, Zenon DEF HedgeInit, HedgeTypeOK, Arm
<1>2. ArmsInv
  BY DEF HedgeInit, ArmsInv, Arm
<1>3. RaceInv /\ ListsInv
  BY DEF HedgeInit, RaceInv, ListsInv, Arm
<1>4. FailsOnlyWhenAllFailed /\ ArmsGoElsewhere
  BY DEF HedgeInit, FailsOnlyWhenAllFailed, ArmsGoElsewhere, Launched, Arm
<1>5. QED
  BY <1>1, <1>2, <1>3, <1>4 DEF HedgeInv, RacesFairly

\* HedgeList: the hedge's list leaves the primary's pick out, and is not empty
\* when the attempt has another endpoint.
LEMMA HedgeListElsewhere ==
    ASSUME hedgePool \in Pools, NEW p \in Endpoint
    PROVE  /\ HedgeList(p) \subseteq hedgePool \ {p}
           /\ HoldsAnother(hedgePool) => HedgeList(p) # {}
<1> DEFINE excluded == hedgePool \ {p}
           narrowed == ExcludeAffiliates(excluded, Operators({p}))
<1>1. narrowed \subseteq excluded /\ (excluded # {} => narrowed # {})
  BY DEF ExcludeAffiliates
<1>2. HedgeList(p) = narrowed \/ HedgeList(p) = excluded
  BY DEF HedgeList
<1>3. HoldsAnother(hedgePool) => excluded # {}
  BY DEF HoldsAnother
<1>4. QED
  BY <1>1, <1>2, <1>3

\* The delay elapses: the hedge goes where the primary is not known to be, or
\* is not sent.
LEMMA FireKeepsInv ==
    ASSUME HedgeInv, Fire
    PROVE  HedgeInv'
<1>0. HedgeTypeOK /\ ArmsInv /\ RaceInv /\ ListsInv /\ FailsOnlyWhenAllFailed /\ ArmsGoElsewhere
  BY DEF HedgeInv, RacesFairly
<1> DEFINE primary == hedgePick["primary"]
           list == IF primary = None THEN hedgePool ELSE HedgeList(primary)
           loaded == {primary} \ {None}
<1>1. /\ list \subseteq Endpoint /\ list \cap loaded = {} /\ loaded \subseteq Endpoint
      /\ HoldsAnother(hedgePool) => list # {}
  <2>1. hedgePool \in Pools /\ hedgePool # {} /\ hedgePool \subseteq Endpoint /\ primary \in Endpoint \cup {None}
    BY <1>0, HedgeAssumption DEF HedgeTypeOK, Arm
  <2>2. CASE primary = None
    BY <2>1, <2>2
  <2>3. CASE primary # None
    BY <2>1, <2>3, HedgeListElsewhere
  <2>4. QED
    BY <2>2, <2>3
<1>2. /\ hedgePc = "delay" /\ hedgeArm["hedge"] = "idle" /\ hedgeCur = "hedge" /\ known = {} /\ hedgeCh = <<>>
      /\ ~primaryDone /\ ~hedgeDone /\ ~rehedged
  BY <1>0 DEF Fire, RaceInv, ArmsInv
<1>3. UNCHANGED <<hedgePool, hedgeOver, hedgePick, res, primaryCh, hedgeCh, primaryDone, hedgeDone, rehedged, hedgeCur, hedgeOut>>
  BY DEF Fire
<1>4. CASE hedgePc' = "alone" /\ UNCHANGED <<hedgeArm, cands, known>>
  <2>1. HedgeTypeOK' /\ ArmsInv'
    BY <1>0, <1>2, <1>3, <1>4 DEF HedgeTypeOK, ArmsInv
  <2>2. RaceInv' /\ ListsInv'
    BY <1>0, <1>2, <1>3, <1>4 DEF RaceInv, ListsInv, Operators
  <2>3. FailsOnlyWhenAllFailed' /\ ArmsGoElsewhere'
    BY <1>0, <1>3, <1>4 DEF FailsOnlyWhenAllFailed, ArmsGoElsewhere, Launched, Operators, NarrowsIntoStale, AllStale
  <2>4. QED
    BY <2>1, <2>2, <2>3 DEF HedgeInv, RacesFairly
<1>5. CASE hedgePc' = "race" /\ HedgeLaunch("hedge", list, loaded) /\ ~(primary # None /\ Suppressed(list))
  <2>0. /\ hedgeArm' = [hedgeArm EXCEPT !["hedge"] = "running"] /\ cands' = [cands EXCEPT !["hedge"] = list]
        /\ known' = loaded
        /\ hedgeArm'["hedge"] = "running" /\ cands'["hedge"] = list
        /\ \A a \in Arm : a # "hedge" => hedgeArm'[a] = hedgeArm[a] /\ cands'[a] = cands[a]
    BY <1>0, <1>5 DEF HedgeLaunch, HedgeTypeOK, Arm
  <2>1. HedgeTypeOK'
    BY <1>0, <1>1, <1>2, <1>3, <1>5, <2>0 DEF HedgeTypeOK, Arm
  <2>2. ArmsInv'
    BY <1>0, <1>2, <1>3, <2>0, Zenon DEF ArmsInv, Arm
  <2>3. RaceInv' /\ ListsInv'
    BY <1>1, <1>2, <1>3, <1>5, <2>0 DEF RaceInv, ListsInv
  <2>4. FailsOnlyWhenAllFailed'
    BY <1>5 DEF FailsOnlyWhenAllFailed
  <2>5. ~NarrowsIntoStale(list, hedgePool, Behind)
    BY <1>5 DEF Suppressed, NarrowsIntoStale
  <2>6. hedgePick["hedge"] = None /\ hedgePick["third"] = None /\ hedgeArm'["third"] = "idle"
    BY <1>0, <1>2, <2>0 DEF ArmsInv, Arm
  <2>7. ArmsGoElsewhere'
    BY <1>3, <2>0, <2>5, <2>6 DEF ArmsGoElsewhere, Launched, Arm, NarrowsIntoStale, AllStale
  <2>8. QED
    BY <2>1, <2>2, <2>3, <2>4, <2>7 DEF HedgeInv, RacesFairly
<1>6. QED
  BY <1>4, <1>5 DEF Fire

\* The hedge's failure is received: the third arm goes to an operator none of
\* the picks published so far belongs to, or the race waits for the primary.
LEMMA HedgeFailsKeepsInv ==
    ASSUME HedgeInv, HedgeFails
    PROVE  HedgeInv'
<1>0. HedgeTypeOK /\ ArmsInv /\ RaceInv /\ ListsInv /\ FailsOnlyWhenAllFailed /\ ArmsGoElsewhere
  BY DEF HedgeInv, RacesFairly
<1> DEFINE again == ~primaryDone /\ ~rehedged /\ Rehedge
           tried == {hedgePick["hedge"], hedgePick["primary"]} \ {None}
           left == ThirdList(tried)
<1>1. /\ hedgePc = "race" /\ hedgeCh = <<hedgeCur>> /\ hedgeArm[hedgeCur] = "gone" /\ hedgeCur \in {"hedge", "third"}
      /\ res[hedgeCur] \in {"failed", "ruledOut"} /\ (res[hedgeCur] = "ruledOut" => rehedged)
  <2>1. /\ hedgePc = "race" /\ hedgeCh = <<hedgeCur>> /\ hedgeArm[hedgeCur] = "gone" /\ hedgeCur \in {"hedge", "third"}
    BY <1>0 DEF HedgeFails, Racing, ArmsInv, HedgeTypeOK
  <2>2. Head(hedgeCh) = hedgeCur
    BY <2>1
  <2>3. res[hedgeCur] # "ok" /\ ~(res[hedgeCur] = "ruledOut" /\ ~rehedged) /\ res[hedgeCur] # "none"
    BY <1>0, <2>1, <2>2 DEF HedgeFails, LeavesToPrimary, ArmsInv, Arm
  <2>4. QED
    BY <1>0, <2>1, <2>3 DEF HedgeTypeOK, Arm
<1>2. /\ UNCHANGED <<hedgePool, hedgeOver, hedgePc, hedgePick, res, primaryCh, primaryDone, hedgeOut>>
      /\ hedgeCh' = <<>> /\ rehedged' = (rehedged \/ again) /\ rehedged' \in BOOLEAN
  BY <1>0 DEF HedgeFails, HedgeTypeOK
<1>3. CASE hedgeDone' = TRUE /\ UNCHANGED <<hedgeArm, cands, known, hedgeCur>>
  <2>1. HedgeTypeOK' /\ ArmsInv'
    BY <1>0, <1>2, <1>3, Zenon DEF HedgeTypeOK, ArmsInv
  <2>2. RaceInv' /\ ListsInv'
    BY <1>0, <1>1, <1>2, <1>3, Zenon DEF RaceInv, ListsInv, Operators
  <2>3. FailsOnlyWhenAllFailed' /\ ArmsGoElsewhere'
    BY <1>0, <1>2, <1>3 DEF FailsOnlyWhenAllFailed, ArmsGoElsewhere, Launched, Operators, NarrowsIntoStale, AllStale
  <2>4. QED
    BY <2>1, <2>2, <2>3 DEF HedgeInv, RacesFairly
<1>4. CASE /\ again /\ left # {} /\ ~NarrowsIntoStale(left, hedgePool, Behind)
           /\ HedgeLaunch("third", left, tried) /\ hedgeCur' = "third" /\ hedgeDone' = FALSE
  <2>0. /\ hedgeArm' = [hedgeArm EXCEPT !["third"] = "running"] /\ cands' = [cands EXCEPT !["third"] = left]
        /\ known' = tried
        /\ hedgeArm'["third"] = "running" /\ cands'["third"] = left
        /\ \A a \in Arm : a # "third" => hedgeArm'[a] = hedgeArm[a] /\ cands'[a] = cands[a]
    BY <1>0, <1>4 DEF HedgeLaunch, HedgeTypeOK, Arm
  <2>1. hedgeCur = "hedge" /\ res["hedge"] = "failed" /\ hedgeArm["hedge"] = "gone" /\ hedgeArm["third"] = "idle" /\ rehedged'
    BY <1>0, <1>1, <1>2, <1>4, Zenon DEF HedgeTypeOK, ArmsInv, Arm
  <2>2. left \subseteq Endpoint /\ tried \subseteq Endpoint /\ \A e \in left : OperatorOf[e] \notin Operators(tried)
    BY <1>0, HedgeAssumption DEF HedgeTypeOK, ThirdList, Arm
  <2>3. HedgeTypeOK'
    BY <1>0, <1>2, <1>4, <2>0, <2>1, <2>2, Zenon DEF HedgeTypeOK, Arm
  <2>4. ArmsInv'
    BY <1>0, <1>2, <1>4, <2>0, <2>1 DEF ArmsInv, Arm
  <2>5. RaceInv'
    BY <1>0, <1>1, <1>2, <1>4, <2>0, <2>1, Zenon DEF RaceInv, Arm
  <2>6. ListsInv'
    BY <1>4, <2>0, <2>2, Zenon DEF ListsInv, Operators
  <2>7. FailsOnlyWhenAllFailed'
    BY <1>1, <1>2 DEF FailsOnlyWhenAllFailed
  <2>8. hedgePick'["third"] = None
    BY <1>0, <1>2, <2>1 DEF ArmsInv, Arm
  <2>9. \A a \in Launched' \ {"primary"} : ~NarrowsIntoStale(cands'[a], hedgePool, Behind)
    BY <1>0, <1>4, <2>0 DEF ArmsGoElsewhere, Launched
  <2>10. ArmsGoElsewhere'
    BY <1>2, <1>4, <2>8, <2>9 DEF ArmsGoElsewhere, NarrowsIntoStale, AllStale
  <2>11. QED
    BY <2>3, <2>4, <2>5, <2>6, <2>7, <2>10 DEF HedgeInv, RacesFairly
<1>5. QED
  BY <1>3, <1>4, Zenon DEF HedgeFails, HedgeDoneAfterLaunch

\* Every step of the race keeps the invariant.
LEMMA HedgeNextInv == HedgeInv /\ [HedgeNext]_hedgeVars => HedgeInv'
<1> SUFFICES ASSUME HedgeInv, [HedgeNext]_hedgeVars PROVE HedgeInv'
  OBVIOUS
<1>0. HedgeTypeOK /\ ArmsInv /\ RaceInv /\ ListsInv /\ FailsOnlyWhenAllFailed /\ ArmsGoElsewhere
  BY DEF HedgeInv, RacesFairly
<1>1. ASSUME NEW a \in Arm, Select(a) PROVE HedgeInv'
  <2>1. HedgeTypeOK'
    BY <1>0, <1>1, HedgeAssumption DEF Select, Selectable, race, HedgeTypeOK
  <2>2. ArmsInv'
    BY <1>0, <1>1, HedgeAssumption DEF Select, race, HedgeTypeOK, ArmsInv
  <2>3. RaceInv'
    BY <1>0, <1>1, HedgeAssumption DEF Select, race, RaceInv
  <2>4. ListsInv'
    BY <1>0, <1>1, HedgeAssumption DEF Select, race, ListsInv
  <2>5. FailsOnlyWhenAllFailed'
    BY <1>0, <1>1, HedgeAssumption DEF Select, Launched, FailsOnlyWhenAllFailed
  <2>6. ArmsGoElsewhere'
    BY <1>0, <1>1, HedgeAssumption DEF Select, Selectable, race, Launched, ArmsInv, ListsInv, ArmsGoElsewhere
  <2>7. QED
    BY <2>1, <2>2, <2>3, <2>4, <2>5, <2>6 DEF HedgeInv, RacesFairly
<1>2. ASSUME NEW a \in Arm, SelectNone(a) PROVE HedgeInv'
  <2>1. HedgeTypeOK'
    BY <1>0, <1>2 DEF SelectNone, race, HedgeTypeOK, ArmsInv
  <2>2. ArmsInv'
    BY <1>0, <1>2 DEF SelectNone, race, HedgeTypeOK, ArmsInv
  <2>3. RaceInv'
    BY <1>0, <1>2 DEF SelectNone, race, ArmsInv, RaceInv
  <2>4. ListsInv'
    BY <1>0, <1>2 DEF SelectNone, race, ListsInv
  <2>5. FailsOnlyWhenAllFailed'
    BY <1>0, <1>2 DEF SelectNone, Launched, FailsOnlyWhenAllFailed
  <2>6. ArmsGoElsewhere'
    BY <1>0, <1>2 DEF SelectNone, race, Launched, ArmsGoElsewhere
  <2>7. QED
    BY <2>1, <2>2, <2>3, <2>4, <2>5, <2>6 DEF HedgeInv, RacesFairly
<1>3. ASSUME NEW a \in Arm, RelayEnds(a) PROVE HedgeInv'
  <2>1. HedgeTypeOK'
    BY <1>0, <1>3 DEF RelayEnds, race, HedgeTypeOK, ArmsInv
  <2>2. ArmsInv'
    BY <1>0, <1>3 DEF RelayEnds, race, HedgeTypeOK, ArmsInv
  <2>3. RaceInv'
    BY <1>0, <1>3 DEF RelayEnds, race, ArmsInv, RaceInv
  <2>4. ListsInv'
    BY <1>0, <1>3 DEF RelayEnds, race, ListsInv
  <2>5. FailsOnlyWhenAllFailed'
    BY <1>0, <1>3, Zenon DEF RelayEnds, Launched, ArmsInv, FailsOnlyWhenAllFailed
  <2>6. ArmsGoElsewhere'
    BY <1>0, <1>3 DEF RelayEnds, race, Launched, ArmsGoElsewhere
  <2>7. QED
    BY <2>1, <2>2, <2>3, <2>4, <2>5, <2>6 DEF HedgeInv, RacesFairly
<1>4. ASSUME NEW a \in Arm, HedgeReport(a) PROVE HedgeInv'
  <2>1. HedgeTypeOK'
    BY <1>0, <1>4 DEF HedgeReport, Sent, race, Arm, HedgeTypeOK
  <2>2. ArmsInv'
    BY <1>0, <1>4 DEF HedgeReport, Sent, race, Arm, HedgeTypeOK, ArmsInv
  <2>3. RaceInv'
    BY <1>0, <1>4 DEF HedgeReport, race, RaceInv
  <2>4. ListsInv'
    BY <1>0, <1>4 DEF HedgeReport, race, ListsInv
  <2>5. FailsOnlyWhenAllFailed'
    BY <1>0, <1>4 DEF HedgeReport, Launched, FailsOnlyWhenAllFailed
  <2>6. ArmsGoElsewhere'
    BY <1>0, <1>4 DEF HedgeReport, race, Launched, ArmsGoElsewhere
  <2>7. QED
    BY <2>1, <2>2, <2>3, <2>4, <2>5, <2>6 DEF HedgeInv, RacesFairly
<1>5. CASE HedgeContextEnds
  <2>1. HedgeTypeOK'
    BY <1>0, <1>5 DEF HedgeContextEnds, race, HedgeTypeOK
  <2>2. ArmsInv'
    BY <1>0, <1>5 DEF HedgeContextEnds, race, ArmsInv
  <2>3. RaceInv'
    BY <1>0, <1>5, Zenon DEF HedgeContextEnds, race, RaceInv
  <2>4. ListsInv'
    BY <1>0, <1>5 DEF HedgeContextEnds, race, ListsInv
  <2>5. FailsOnlyWhenAllFailed'
    BY <1>0, <1>5 DEF HedgeContextEnds, FailsOnlyWhenAllFailed
  <2>6. ArmsGoElsewhere'
    BY <1>0, <1>5, Zenon DEF HedgeContextEnds, race, Launched, ArmsGoElsewhere
  <2>7. QED
    BY <2>1, <2>2, <2>3, <2>4, <2>5, <2>6 DEF HedgeInv, RacesFairly
<1>6. CASE PrimaryAnswers
  <2>1. HedgeTypeOK'
    BY <1>0, <1>6 DEF PrimaryAnswers, ReturnArm, HedgeReturn, race, HedgeTypeOK
  <2>2. ArmsInv'
    BY <1>0, <1>6 DEF PrimaryAnswers, race, ArmsInv
  <2>3. RaceInv'
    BY <1>0, <1>6, Zenon DEF PrimaryAnswers, ReturnArm, HedgeReturn, race, RaceInv
  <2>4. ListsInv'
    BY <1>0, <1>6 DEF PrimaryAnswers, race, ListsInv
  <2>5. FailsOnlyWhenAllFailed'
    BY <1>0, <1>6, Zenon DEF PrimaryAnswers, ReturnArm, HedgeReturn, Launched, Arm, HedgeTypeOK, ArmsInv, RaceInv, FailsOnlyWhenAllFailed
  <2>6. ArmsGoElsewhere'
    BY <1>0, <1>6 DEF PrimaryAnswers, race, Launched, ArmsGoElsewhere
  <2>7. QED
    BY <2>1, <2>2, <2>3, <2>4, <2>5, <2>6 DEF HedgeInv, RacesFairly
<1>7. CASE GiveUpWaiting \/ RaceOver
  <2>1. HedgeTypeOK'
    BY <1>0, <1>7 DEF GiveUpWaiting, RaceOver, HedgeReturn, race, HedgeTypeOK
  <2>2. ArmsInv'
    BY <1>0, <1>7, Zenon DEF GiveUpWaiting, RaceOver, race, ArmsInv
  <2>3. RaceInv'
    BY <1>0, <1>7 DEF GiveUpWaiting, RaceOver, HedgeReturn, race, RaceInv
  <2>4. ListsInv'
    BY <1>0, <1>7, Zenon DEF GiveUpWaiting, RaceOver, race, ListsInv
  <2>5. FailsOnlyWhenAllFailed'
    BY <1>0, <1>7 DEF GiveUpWaiting, RaceOver, HedgeReturn, FailsOnlyWhenAllFailed
  <2>6. ArmsGoElsewhere'
    BY <1>0, <1>7 DEF GiveUpWaiting, RaceOver, HedgeReturn, race, Launched, ArmsGoElsewhere
  <2>7. QED
    BY <2>1, <2>2, <2>3, <2>4, <2>5, <2>6 DEF HedgeInv, RacesFairly
<1>8. CASE Fire
  BY <1>8, FireKeepsInv, Zenon
<1>9. CASE RacePrimary
  <2>1. HedgeTypeOK'
    BY <1>0, <1>9 DEF RacePrimary, ReturnArm, HedgeReturn, HedgeTypeOK
  <2>2. ArmsInv'
    BY <1>0, <1>9, Zenon DEF RacePrimary, ArmsInv
  <2>3. RaceInv'
    BY <1>0, <1>9, Zenon DEF RacePrimary, Racing, ReturnArm, HedgeReturn, Arm, HedgeTypeOK, ArmsInv, RaceInv
  <2>4. ListsInv'
    BY <1>0, <1>9 DEF RacePrimary, ListsInv
  <2>5. FailsOnlyWhenAllFailed'
    BY <1>0, <1>9 DEF RacePrimary, ReturnArm, HedgeReturn, Launched, FailsOnlyWhenAllFailed
  <2>6. ArmsGoElsewhere'
    BY <1>0, <1>9, Zenon DEF RacePrimary, Launched, ArmsGoElsewhere
  <2>7. QED
    BY <2>1, <2>2, <2>3, <2>4, <2>5, <2>6 DEF HedgeInv, RacesFairly
<1>10. CASE HedgeRuledOut
  <2>1. HedgeTypeOK'
    BY <1>0, <1>10, Zenon DEF HedgeRuledOut, ReturnArm, HedgeReturn, race, HedgeTypeOK
  <2>2. ArmsInv'
    BY <1>0, <1>10, Zenon DEF HedgeRuledOut, race, ArmsInv
  <2>3. RaceInv'
    BY <1>0, <1>10, SMTT(30) DEF HedgeRuledOut, LeavesToPrimary, ReturnArm, HedgeReturn, race, HedgeTypeOK, ArmsInv, RaceInv
  <2>4. ListsInv'
    BY <1>0, <1>10 DEF HedgeRuledOut, race, ListsInv
  <2>5. FailsOnlyWhenAllFailed'
    BY <1>0, <1>10, SMTT(30) DEF HedgeRuledOut, Racing, LeavesToPrimary, Launched, Arm, HedgeTypeOK, ArmsInv, RaceInv, FailsOnlyWhenAllFailed
  <2>6. ArmsGoElsewhere'
    BY <1>0, <1>10, Zenon DEF HedgeRuledOut, race, Launched, ArmsGoElsewhere
  <2>7. QED
    BY <2>1, <2>2, <2>3, <2>4, <2>5, <2>6 DEF HedgeInv, RacesFairly
<1>11. CASE HedgeWins
  <2>1. HedgeTypeOK'
    BY <1>0, <1>11 DEF HedgeWins, ReturnArm, HedgeReturn, HedgeTypeOK
  <2>2. ArmsInv'
    BY <1>0, <1>11 DEF HedgeWins, ArmsInv
  <2>3. RaceInv'
    BY <1>0, <1>11, Zenon DEF HedgeWins, ReturnArm, HedgeReturn, RaceInv
  <2>4. ListsInv'
    BY <1>0, <1>11 DEF HedgeWins, ListsInv
  <2>5. FailsOnlyWhenAllFailed'
    BY <1>0, <1>11, Zenon DEF HedgeWins, ReturnArm, HedgeReturn, FailsOnlyWhenAllFailed
  <2>6. ArmsGoElsewhere'
    BY <1>0, <1>11, Zenon DEF HedgeWins, Launched, ArmsGoElsewhere
  <2>7. QED
    BY <2>1, <2>2, <2>3, <2>4, <2>5, <2>6 DEF HedgeInv, RacesFairly
<1>12. CASE HedgeFails
  BY <1>12, HedgeFailsKeepsInv
<1>13. CASE BothFailed
  <2>1. HedgeTypeOK'
    BY <1>0, <1>13 DEF BothFailed, HedgeReturn, race, HedgeTypeOK
  <2>2. ArmsInv'
    BY <1>0, <1>13 DEF BothFailed, race, ArmsInv
  <2>3. RaceInv'
    BY <1>0, <1>13, Zenon DEF BothFailed, HedgeReturn, RaceInv
  <2>4. ListsInv'
    BY <1>0, <1>13 DEF BothFailed, race, ListsInv
  <2>5. FailsOnlyWhenAllFailed'
    BY <1>0, <1>13, Zenon DEF BothFailed, Launched, Arm, HedgeTypeOK, ArmsInv, RaceInv, FailsOnlyWhenAllFailed
  <2>6. ArmsGoElsewhere'
    BY <1>0, <1>13 DEF BothFailed, race, Launched, ArmsGoElsewhere
  <2>7. QED
    BY <2>1, <2>2, <2>3, <2>4, <2>5, <2>6 DEF HedgeInv, RacesFairly
<1>14. CASE UNCHANGED hedgeVars
  <2>1. HedgeTypeOK'
    BY <1>0, <1>14 DEF hedgeVars, race, HedgeTypeOK
  <2>2. ArmsInv'
    BY <1>0, <1>14 DEF hedgeVars, race, ArmsInv
  <2>3. RaceInv'
    BY <1>0, <1>14, Zenon DEF hedgeVars, race, RaceInv
  <2>4. ListsInv'
    BY <1>0, <1>14 DEF hedgeVars, race, ListsInv
  <2>5. FailsOnlyWhenAllFailed'
    BY <1>0, <1>14, Zenon DEF hedgeVars, Launched, FailsOnlyWhenAllFailed
  <2>6. ArmsGoElsewhere'
    BY <1>0, <1>14 DEF hedgeVars, race, Launched, ArmsGoElsewhere
  <2>7. QED
    BY <2>1, <2>2, <2>3, <2>4, <2>5, <2>6 DEF HedgeInv, RacesFairly
<1>15. QED
  BY <1>1, <1>2, <1>3, <1>4, <1>5, <1>6, <1>7, <1>8, <1>9, <1>10, <1>11, <1>12, <1>13, <1>14 DEF HedgeNext, Race, HedgeArmStep

\* For any endpoints, operators, flags and starting lists, and every
\* interleaving of the race with its arms: a hedged attempt fails only when all
\* its arms have, and its arms go elsewhere.
THEOREM RacesAlwaysFair == HedgeSpec => []RacesFairly
<1>1. HedgeSpec => []HedgeInv
  BY HedgeInitInv, HedgeNextInv, PTL DEF HedgeSpec
<1>2. HedgeInv => RacesFairly
  BY DEF HedgeInv
<1>3. QED
  BY <1>1, <1>2, PTL

-----------------------------------------------------------------------------
(* The retries.  Two things are carried from attempt to attempt: the kept  *)
(* answer is the best of the answers brought so far, and everything the    *)
(* session's attempts were reported under is in the tried set, which the   *)
(* next list avoids.                                                       *)

Kinds == {o.kind : o \in Outcome}
Causes == Kinds \cup {"", "none"}
SentRec == [ep : Endpoint, kind : Kinds, lag : RetryLag \cup {0}, cause : Causes]

\* k is the best of the first n answers of s.
Covers(k, s, n) ==
    \A i \in 1..n : RealAnswer(s[i]) =>
        /\ RealAnswer(k)
        /\ (\A j \in 1..n : RealAnswer(s[j]) => IsStale(s[j])) => IsStale(k) /\ k.lag <= s[i].lag

\* k is nothing or one of the answers of s.
FromOne(k, s) == k # Nothing => RealAnswer(k) /\ \E i \in 1..Len(s) : s[i].kind = k.kind

KeptInv ==
    /\ FromOne(kept, sent)
    /\ retryPc = "attempt" => Covers(kept, sent, Len(sent))
    /\ retryPc = "decide" => Covers(kept, sent, Len(sent) - 1)

\* The attempts since the last rollover.
Session == {i \in DOMAIN sent : \A m \in i..Len(sent) : sent[m].kind # "rollover"}

TriedInv ==
    /\ retryPc = "attempt" /\ retryTried = {} => Session = {}
    /\ retryPc = "attempt" /\ retryTried # {} =>
           /\ eps # {} /\ eps \cap retryTried = {}
           /\ \A i \in Session : sent[i].ep \in retryTried
           /\ LimiterVerdict(pending) => \A e \in eps : OperatorOf[e] \notin Operators(retryTried)
    /\ retryPc = "decide" => \A i \in Session : sent[i].ep \in Tried

SentInv ==
    /\ sent \in Seq(SentRec) /\ pending \in Causes
    /\ retryPc # "done" => Len(sent) <= MaxRetries
    /\ retryPc = "decide" =>
           /\ Len(sent) > 0 /\ retryAt.ep = sent[Len(sent)].ep
           /\ retryAt.kind = sent[Len(sent)].kind /\ retryAt.lag = sent[Len(sent)].lag

RetryInv == RetriesDoBetter /\ SentInv /\ KeptInv /\ TriedInv

\* What an attempt leaves, and nothing, are well formed.
LEMMA OutcomesLeft ==
    /\ "rollover" \in Kinds /\ Nothing \in Left
    /\ \A o \in Outcome, e \in Endpoint, c \in Causes :
           /\ [ep |-> e, kind |-> o.kind, lag |-> o.lag] \in Left
           /\ [ep |-> e, kind |-> o.kind, lag |-> o.lag, cause |-> c] \in SentRec
<1>1. [kind |-> "rollover", lag |-> 0] \in Outcome
  BY DEF Outcome
<1>2. "rollover" \in Kinds
  BY <1>1 DEF Kinds
<1>3. Nothing \in Left
  BY DEF Nothing, Left
<1>4. \A o \in Outcome : o.kind \in Kinds /\ o.lag \in RetryLag \cup {0}
  BY Zenon DEF Kinds, Outcome
<1>5. \A o \in Outcome, e \in Endpoint, c \in Causes :
           /\ [ep |-> e, kind |-> o.kind, lag |-> o.lag] \in Left
           /\ [ep |-> e, kind |-> o.kind, lag |-> o.lag, cause |-> c] \in SentRec
  BY <1>4 DEF Left, Kinds, SentRec
<1>6. QED
  BY <1>2, <1>3, <1>5

\* Lags are numbers.
LEMMA LagsAreNumbers ==
    /\ RetryLag \cup {0} \subseteq Nat /\ MaxRetries \in Nat \ {0}
    /\ \A x \in Left : x.lag \in Nat
    /\ \A x \in SentRec : x.lag \in Nat
<1>1. RetryLag \cup {0} \subseteq Nat /\ MaxRetries \in Nat \ {0}
  BY RetryAssumption
<1>2. \A x \in Left : x.lag \in RetryLag \cup {0}
  BY DEF Left
<1>3. \A x \in SentRec : x.lag \in RetryLag \cup {0}
  BY Zenon DEF SentRec
<1>4. QED
  BY <1>1, <1>2, <1>3

\* Keeps: the answer kept after an attempt is the best of those so far.
LEMMA KeptStaysBest ==
    ASSUME NEW s \in Seq(SentRec), NEW n \in Nat, n + 1 = Len(s),
           NEW x \in Left, NEW k \in Left, x.kind = s[n + 1].kind, x.lag = s[n + 1].lag,
           Covers(k, s, n), FromOne(k, s)
    PROVE  /\ Covers(IF Keeps(x, k) THEN x ELSE k, s, n + 1)
           /\ FromOne(IF Keeps(x, k) THEN x ELSE k, s)
<1> DEFINE best == IF Keeps(x, k) THEN x ELSE k
<1>1. /\ \A i \in 1..(n + 1) : s[i].lag \in Nat
      /\ x.lag \in Nat /\ k.lag \in Nat
  BY LagsAreNumbers
<1>2. RealAnswer(x) <=> RealAnswer(s[n + 1])
  BY DEF RealAnswer
<1>3. IsStale(x) <=> IsStale(s[n + 1])
  BY DEF IsStale
<1>4. Keeps(x, k) <=> RealAnswer(x) /\ (~IsStale(x) \/ ~IsStale(k) \/ x.lag < k.lag)
  BY DEF Keeps, HasResponse, SupplierAttributed, RealAnswer, IsStale, FresherStale
<1>5. IsStale(k) => RealAnswer(k)
  BY DEF IsStale, RealAnswer
<1>6. FromOne(best, s)
  <2>1. CASE Keeps(x, k)
    BY <1>4, <2>1 DEF FromOne
  <2>2. CASE ~Keeps(x, k)
    BY <2>2, Zenon
  <2>3. QED
    BY <2>1, <2>2
<1>7. Covers(best, s, n + 1)
  <2> SUFFICES ASSUME NEW i \in 1..(n + 1), RealAnswer(s[i])
               PROVE  /\ RealAnswer(best)
                      /\ (\A j \in 1..(n + 1) : RealAnswer(s[j]) => IsStale(s[j])) => IsStale(best) /\ best.lag <= s[i].lag
    BY Zenon DEF Covers
  <2>1. i \in 1..n => /\ RealAnswer(k)
                      /\ (\A j \in 1..n : RealAnswer(s[j]) => IsStale(s[j])) => IsStale(k) /\ k.lag <= s[i].lag
    BY DEF Covers
  <2>2. i = n + 1 \/ i \in 1..n
    OBVIOUS
  <2>3. RealAnswer(best)
    BY <1>2, <1>4, <1>5, <2>1, <2>2, Zenon
  <2>4. ASSUME \A j \in 1..(n + 1) : RealAnswer(s[j]) => IsStale(s[j]) PROVE IsStale(best) /\ best.lag <= s[i].lag
    <3>1. RealAnswer(x) => IsStale(x)
      BY <1>2, <1>3, <2>4
    <3>2. i \in 1..n => IsStale(k) /\ k.lag <= s[i].lag
      BY <2>1, <2>4
    <3>3. CASE Keeps(x, k)
      BY <1>1, <1>4, <2>2, <3>1, <3>2, <3>3
    <3>4. CASE ~Keeps(x, k)
      BY <1>1, <1>2, <1>4, <2>2, <3>1, <3>2, <3>4
    <3>5. QED
      BY <3>3, <3>4
  <2>5. QED
    BY <2>3, <2>4, Zenon
<1>8. QED
  BY <1>6, <1>7

\* The deferred call of Retry: what it delivers of the last attempt x and the
\* kept answer k is the best answer of the request.
LEMMA BestDelivered ==
    ASSUME NEW s \in Seq(SentRec), Len(s) > 0, NEW m \in {Len(s) - 1, Len(s)},
           NEW x \in Left, NEW k \in Left, x.kind = s[Len(s)].kind, x.lag = s[Len(s)].lag,
           Covers(k, s, m), FromOne(k, s),
           NEW a, a = (IF DeliversKept(x, k) THEN k ELSE x), a.kind # "ok",
           NEW i \in 1..Len(s), RealAnswer(s[i])
    PROVE  /\ RealAnswer(a)
           /\ (\A j \in 1..Len(s) : RealAnswer(s[j]) => IsStale(s[j])) => a.lag <= s[i].lag
<1>1. /\ \A j \in 1..Len(s) : s[j].lag \in Nat
      /\ x.lag \in Nat /\ k.lag \in Nat /\ Len(s) \in Nat
  BY LagsAreNumbers
<1>2. (RealAnswer(x) <=> RealAnswer(s[Len(s)])) /\ (IsStale(x) <=> IsStale(s[Len(s)]))
  BY Zenon DEF RealAnswer, IsStale
<1>3. ~RealAnswer(Nothing) /\ (k # Nothing => RealAnswer(k))
  BY Zenon DEF RealAnswer, Nothing, FromOne
<1>4. DeliversKept(x, k) <=> x.kind # "ok" /\ k # Nothing /\ x.kind # "answer" /\ ~(IsStale(x) /\ IsStale(k) /\ x.lag < k.lag)
  BY DEF DeliversKept, HasResponse, SupplierAttributed, IsStale, FresherStale
<1>5. i = Len(s) \/ i \in 1..m
  BY <1>1
<1>6. i \in 1..m => RealAnswer(k) /\ ((\A j \in 1..m : RealAnswer(s[j]) => IsStale(s[j])) => IsStale(k) /\ k.lag <= s[i].lag)
  BY Zenon DEF Covers
<1>7. RealAnswer(a)
  BY <1>2, <1>3, <1>4, <1>5, <1>6 DEF IsStale, RealAnswer
<1>8. ASSUME \A j \in 1..Len(s) : RealAnswer(s[j]) => IsStale(s[j]) PROVE a.lag <= s[i].lag
  <2>1. k # Nothing => IsStale(k)
    <3> SUFFICES ASSUME k # Nothing PROVE IsStale(k)
      OBVIOUS
    <3>1. RealAnswer(k) /\ \E j \in 1..Len(s) : s[j].kind = k.kind
      BY DEF FromOne
    <3>2. PICK j \in 1..Len(s) : s[j].kind = k.kind
      BY <3>1
    <3>3. RealAnswer(s[j])
      BY <3>1, <3>2, Zenon DEF RealAnswer
    <3>4. QED
      BY <1>8, <3>2, <3>3 DEF IsStale
  <2>2. i \in 1..m => IsStale(k) /\ k.lag <= s[i].lag
    BY <1>1, <1>6, <1>8
  <2>3. x.kind # "answer" /\ (RealAnswer(x) => IsStale(x))
    BY <1>1, <1>2, <1>8 DEF RealAnswer, IsStale
  <2>4. CASE DeliversKept(x, k)
    <3>1. i = Len(s) => k.lag <= s[i].lag
      BY <1>1, <1>2, <1>4, <2>1, <2>3, <2>4
    <3>2. QED
      BY <1>5, <2>2, <2>4, <3>1, Zenon
  <2>5. CASE ~DeliversKept(x, k)
    <3>1. x.kind # "ok" /\ a = x
      BY <2>5, Zenon
    <3>2. CASE k = Nothing
      BY <1>1, <1>3, <1>5, <1>6, <3>1, <3>2
    <3>3. CASE k # Nothing
      BY <1>1, <1>4, <1>5, <2>2, <2>3, <2>5, <3>1, <3>3
    <3>4. QED
      BY <3>2, <3>3
  <2>6. QED
    BY <2>4, <2>5
<1>9. QED
  BY <1>7, <1>8
\* Returning: what Retry returns with is well formed and the best answer.
LEMMA ReturnsTheBest ==
    ASSUME NEW x \in Left, NEW k \in Left, NEW c, NEW lim \in BOOLEAN,
           RetryReturn(x, k, c, lim),
           sent' \in Seq(SentRec), Len(sent') > 0, NEW m \in {Len(sent') - 1, Len(sent')},
           x.kind = sent'[Len(sent')].kind, x.lag = sent'[Len(sent')].lag,
           Covers(k, sent', m), FromOne(k, sent')
    PROVE  /\ retryPc' = "done" /\ limited' \in BOOLEAN /\ answer' \in Left
           /\ resolved' \in {"none", "recovered", "exhausted", "limited"}
           /\ BestAnswerStands'
<1>1. /\ retryPc' = "done" /\ limited' \in BOOLEAN /\ answer' \in Left
      /\ answer' = IF DeliversKept(x, k) THEN k ELSE x
  BY Zenon DEF RetryReturn
<1>2. resolved' \in {"none", "recovered", "exhausted", "limited"}
  BY Zenon DEF RetryReturn
<1>3. DOMAIN sent' = 1..Len(sent')
  OBVIOUS
<1>4. ASSUME answer'.kind # "ok", NEW i \in 1..Len(sent'), RealAnswer(sent'[i])
      PROVE  /\ RealAnswer(answer')
             /\ (\A j \in 1..Len(sent') : RealAnswer(sent'[j]) => IsStale(sent'[j])) => answer'.lag <= sent'[i].lag
  BY <1>1, <1>4, BestDelivered, Zenon
<1>5. BestAnswerStands'
  BY <1>3, <1>4, Zenon DEF BestAnswerStands, Failed, RealAnswers
<1>6. QED
  BY <1>1, <1>2, <1>5

\* A request that has made no attempt satisfies the invariant.
LEMMA RetryInitInv == RetryInit => RetryInv
<1> SUFFICES ASSUME RetryInit PROVE RetryInv
  OBVIOUS
<1>0. /\ view \in Views /\ retryPc = "attempt" /\ eps = Endpoint /\ retryAt = Nothing /\ retryPool = {}
      /\ retryTried = {} /\ kept = Nothing /\ pending = "" /\ answer = Nothing
  BY Zenon DEF RetryInit
<1>1. Len(sent) = 0 /\ DOMAIN sent = {} /\ sent \in Seq(SentRec)
  <2>1. sent = <<>>
    BY Zenon DEF RetryInit
  <2>2. QED
    BY ONLY <2>1
<1>2. RetryTypeOK
  <2>1. limited \in BOOLEAN /\ resolved \in {"none", "recovered", "exhausted", "limited"}
    BY Zenon DEF RetryInit
  <2>2. Len(sent) <= MaxRetries + 1
    BY <1>1, LagsAreNumbers
  <2>3. retryAt \in Left /\ kept \in Left /\ answer \in Left /\ ~(kept # Nothing)
    BY <1>0, OutcomesLeft, Zenon
  <2>4. QED
    BY <1>0, <2>1, <2>2, <2>3, Zenon DEF RetryTypeOK
<1>3. BestAnswerStands /\ RetriesGoElsewhere
  <2>1. ~AnyVouched(retryPool \ retryTried)
    BY <1>0, Zenon DEF AnyVouched
  <2>2. QED
    BY <1>0, <1>1, <2>1, Zenon DEF BestAnswerStands, Failed, RetriesGoElsewhere
<1>4. SentInv
  <2>1. pending \in Causes
    BY <1>0, Zenon DEF Causes
  <2>2. Len(sent) <= MaxRetries
    BY <1>1, LagsAreNumbers
  <2>3. retryPc # "decide"
    BY <1>0, Zenon
  <2>4. QED
    BY <1>1, <2>1, <2>2, <2>3 DEF SentInv
<1>5. KeptInv /\ TriedInv
  <2>1. FromOne(kept, sent)
    BY <1>0, Zenon DEF FromOne
  <2>2. Covers(kept, sent, Len(sent))
    BY <1>1 DEF Covers
  <2>3. KeptInv
    BY <1>0, <2>1, <2>2, Zenon DEF KeptInv
  <2>4. Session = {}
    BY <1>1 DEF Session
  <2>5. TriedInv
    BY <1>0, <2>4, Zenon DEF TriedInv
  <2>6. QED
    BY <2>3, <2>5
<1>6. QED
  BY <1>2, <1>3, <1>4, <1>5 DEF RetryInv, RetriesDoBetter

\* An attempt: it joins the session, at an endpoint none of the session's
\* attempts was reported under.
LEMMA AttemptKeepsInv == RetryInv /\ Attempt => RetryInv'
<1> SUFFICES ASSUME RetryInv, Attempt PROVE RetryInv'
  OBVIOUS
<1>0. RetryTypeOK /\ BestAnswerStands /\ RetriesGoElsewhere /\ SentInv /\ KeptInv /\ TriedInv
  BY DEF RetryInv, RetriesDoBetter
<1>1. PICK e \in RetryCandidates, o \in Outcome :
         /\ sent' = Append(sent, [ep |-> e, kind |-> o.kind, lag |-> o.lag, cause |-> pending])
         /\ retryAt' = [ep |-> e, kind |-> o.kind, lag |-> o.lag]
         /\ eps' \in IF retryTried = {} THEN {s \in SUBSET RetryCandidates : e \in s} ELSE {RetryCandidates}
         /\ pending' = ""
         /\ \/ /\ o.kind # "ok" /\ IsRetryable(o) /\ Len(sent) < MaxRetries
               /\ retryPc' = "decide" /\ retriedFor' = pending
               /\ UNCHANGED <<limited, resolved, answer>>
            \/ RetryReturn(retryAt', kept, pending, FALSE)
  BY Zenon DEF Attempt
<1>2. retryPc = "attempt" /\ view' = view /\ retryPool' = retryPool /\ retryTried' = retryTried /\ kept' = kept
  BY Zenon DEF Attempt
<1> DEFINE n == Len(sent)
           x == [ep |-> e, kind |-> o.kind, lag |-> o.lag]
           r == [ep |-> e, kind |-> o.kind, lag |-> o.lag, cause |-> pending]
<1>3. e \in Endpoint /\ RetryCandidates \subseteq Endpoint
  BY <1>0 DEF RetryTypeOK, RetryCandidates
<1>4. r \in SentRec /\ x \in Left /\ retryAt' = x
  <2>1. pending \in Causes
    BY <1>0 DEF SentInv
  <2>2. QED
    BY <1>1, <1>3, <2>1, OutcomesLeft, Zenon
<1>5. sent \in Seq(SentRec) /\ n \in Nat /\ DOMAIN sent = 1..n /\ MaxRetries \in Nat /\ n <= MaxRetries
  <2>1. sent \in Seq(SentRec) /\ n <= MaxRetries
    BY <1>0, <1>2 DEF SentInv
  <2>2. MaxRetries \in Nat
    BY LagsAreNumbers
  <2>3. QED
    BY <2>1, <2>2
<1>6. r.ep = e /\ r.kind = x.kind /\ r.lag = x.lag /\ r.cause = pending /\ x.ep = e
  OBVIOUS
<1> HIDE DEF r, x
<1>7. /\ sent' \in Seq(SentRec) /\ Len(sent') = n + 1 /\ DOMAIN sent' = 1..(n + 1)
      /\ \A i \in 1..n : sent'[i] = sent[i]
      /\ sent'[n + 1] = r
  <2>1. sent' = Append(sent, r)
    BY <1>1, Zenon DEF r
  <2>2. QED
    BY <1>4, <1>5, <2>1
<1> HIDE DEF n
<1>8. retryPc' \in {"decide", "done"} /\ (retryPc' = "decide" => n < MaxRetries) /\ pending' = ""
  BY <1>1, Zenon DEF RetryReturn, n
<1>9. Covers(kept', sent', n) /\ FromOne(kept', sent')
  <2>1. Covers(kept, sent, n) /\ FromOne(kept, sent)
    BY <1>0, <1>2, Zenon DEF KeptInv, n
  <2>2. Covers(kept, sent', n)
    BY <1>7, <2>1 DEF Covers
  <2>3. FromOne(kept, sent')
    <3>1. \A i \in 1..Len(sent) : i \in 1..Len(sent') /\ sent'[i] = sent[i]
      BY <1>5, <1>7 DEF n
    <3>2. QED
      BY <2>1, <3>1 DEF FromOne
  <2>4. QED
    BY <1>2, <2>2, <2>3
<1>10. SentInv'
  <2>1. retryPc' # "done" => n + 1 <= MaxRetries
    <3>1. retryPc' # "done" => n < MaxRetries
      BY <1>8, Zenon
    <3>2. QED
      BY <1>5, <3>1
  <2>2. pending' \in Causes
    BY <1>8, Zenon DEF Causes
  <2>3. retryAt'.ep = r.ep /\ retryAt'.kind = r.kind /\ retryAt'.lag = r.lag
    BY <1>4, <1>6
  <2>4. Len(sent') > 0
    BY <1>5, <1>7
  <2>5. QED
    BY <1>7, <2>1, <2>2, <2>3, <2>4 DEF SentInv
<1>11. KeptInv'
  <2>1. Len(sent') - 1 = n
    BY <1>5, <1>7
  <2>2. retryPc' # "attempt"
    BY <1>8, Zenon
  <2>3. QED
    BY <1>9, <2>1, <2>2 DEF KeptInv
<1>12. /\ limited' \in BOOLEAN /\ resolved' \in {"none", "recovered", "exhausted", "limited"}
       /\ answer' \in Left /\ BestAnswerStands'
  <2>1. CASE retryPc' = "decide" /\ UNCHANGED <<limited, resolved, answer>>
    <3>1. limited \in BOOLEAN /\ resolved \in {"none", "recovered", "exhausted", "limited"} /\ answer \in Left
      BY <1>0 DEF RetryTypeOK
    <3>2. BestAnswerStands'
      BY <2>1, Zenon DEF BestAnswerStands, Failed
    <3>3. QED
      BY <2>1, <3>1, <3>2
  <2>2. CASE RetryReturn(retryAt', kept, pending, FALSE)
    <3>1. kept \in Left
      BY <1>0 DEF RetryTypeOK
    <3>2. n \in {Len(sent') - 1, Len(sent')} /\ Len(sent') > 0
      BY <1>5, <1>7
    <3>3. x.kind = sent'[Len(sent')].kind /\ x.lag = sent'[Len(sent')].lag
      BY <1>6, <1>7
    <3>4. RetryReturn(x, kept, pending, FALSE)
      BY <1>4, <2>2, Zenon
    <3>5. Covers(kept, sent', n) /\ FromOne(kept, sent')
      BY <1>2, <1>9
    <3>6. QED
      BY <1>4, <1>7, <3>1, <3>2, <3>3, <3>4, <3>5, ReturnsTheBest, Zenon
  <2>3. QED
    BY <1>1, <2>1, <2>2, Zenon
<1>13. RetryTypeOK'
  <2>1. eps' \subseteq Endpoint
    BY <1>1, <1>3, Zenon
  <2>2. Len(sent') <= MaxRetries + 1
    BY <1>5, <1>7
  <2>3. /\ view \in Views /\ retryPool \subseteq Endpoint /\ retryTried \subseteq Endpoint \cup {None}
        /\ kept \in Left /\ (kept # Nothing => RealAnswer(kept))
    BY <1>0 DEF RetryTypeOK
  <2>4. retryPc' \in {"attempt", "decide", "done"} /\ retryAt' \in Left
    BY <1>4, <1>8, Zenon
  <2>5. QED
    BY <1>2, <1>12, <2>1, <2>2, <2>3, <2>4 DEF RetryTypeOK
<1>14. \A i \in 1..n : (\A m \in i..n : sent'[m].kind # "rollover") => i \in Session
  <2> SUFFICES ASSUME NEW i \in 1..n, \A m \in i..n : sent'[m].kind # "rollover" PROVE i \in Session
    BY Zenon
  <2>1. \A m \in i..n : sent'[m].kind # "rollover" /\ m \in 1..n
    BY <1>5
  <2>2. \A m \in i..n : sent[m].kind # "rollover"
    BY <1>7, <2>1
  <2>3. QED
    BY <1>5, <2>2, Zenon DEF Session, n
<1>15. \A i \in Session : sent[i].ep # e /\ (LimiterVerdict(pending) => OperatorOf[sent[i].ep] # OperatorOf[e])
  <2> SUFFICES ASSUME NEW i \in Session PROVE sent[i].ep # e /\ (LimiterVerdict(pending) => OperatorOf[sent[i].ep] # OperatorOf[e])
    BY Zenon
  <2>1. retryTried # {} /\ sent[i].ep \in retryTried /\ eps # {} /\ eps \cap retryTried = {}
    BY <1>0, <1>2, Zenon DEF TriedInv
  <2>2. e \in eps
    BY <1>1, <2>1, Zenon DEF RetryCandidates
  <2>3. sent[i].ep # None
    <3>1. i \in 1..n
      BY <1>5 DEF Session
    <3>2. sent[i] \in SentRec
      BY <1>5, <3>1 DEF n
    <3>3. QED
      BY <3>2, HedgeAssumption DEF SentRec
  <2>4. OperatorOf[sent[i].ep] \in Operators(retryTried)
    BY <2>1, <2>3, Zenon DEF Operators
  <2>5. LimiterVerdict(pending) => OperatorOf[e] \notin Operators(retryTried)
    BY <1>0, <1>2, <2>1, <2>2, Zenon DEF TriedInv
  <2>6. QED
    BY <2>1, <2>2, <2>4, <2>5
<1>16. RetriesGoElsewhere'
  <2>1. ASSUME NEW i \in 1..(n + 1), NEW j \in 1..(n + 1), SameSession(i, j)'
        PROVE  /\ sent'[i].ep # sent'[j].ep
               /\ LimiterVerdict(sent'[j].cause) => OperatorOf[sent'[i].ep] # OperatorOf[sent'[j].ep]
    <3>1. i < j /\ \A m \in i..(j - 1) : sent'[m].kind # "rollover"
      BY <2>1 DEF SameSession
    <3>2. i \in 1..n /\ sent'[i] = sent[i]
      BY <1>5, <1>7, <3>1
    <3>3. CASE j = n + 1
      <4>1. i \in Session
        BY <1>5, <1>14, <3>1, <3>2, <3>3
      <4>2. sent'[j].ep = e /\ sent'[j].cause = pending
        BY <1>6, <1>7, <3>3, Zenon
      <4>3. QED
        BY <1>15, <3>2, <4>1, <4>2
    <3>4. CASE j \in 1..n
      <4>1. \A m \in i..(j - 1) : sent'[m] = sent[m]
        BY <1>5, <1>7, <3>2, <3>4
      <4>2. SameSession(i, j)
        BY <3>1, <4>1, Zenon DEF SameSession
      <4>3. i \in DOMAIN sent /\ j \in DOMAIN sent /\ sent'[j] = sent[j]
        BY <1>5, <1>7, <3>2, <3>4, Zenon
      <4>4. QED
        BY <1>0, <3>2, <4>2, <4>3, Zenon DEF RetriesGoElsewhere
    <3>5. QED
      BY <1>5, <3>3, <3>4
  <2>2. retryPc' # "attempt"
    BY <1>8, Zenon
  <2>3. QED
    BY <1>7, <2>1, <2>2, Zenon DEF RetriesGoElsewhere
<1>17. TriedInv'
  <2>1. \A i \in Session' : sent'[i].ep \in Tried'
    <3> SUFFICES ASSUME NEW i \in Session' PROVE sent'[i].ep \in Tried'
      OBVIOUS
    <3>1. i \in 1..(n + 1) /\ \A m \in i..(n + 1) : sent'[m].kind # "rollover"
      BY <1>7 DEF Session
    <3>2. CASE i = n + 1
      BY <1>4, <1>6, <1>7, <3>2, Zenon DEF Tried
    <3>3. CASE i \in 1..n
      <4>1. \A m \in i..n : sent[m].kind # "rollover"
        BY <1>5, <1>7, <3>1, <3>3
      <4>2. i \in Session
        BY <1>5, <3>3, <4>1, Zenon DEF Session, n
      <4>3. sent[i].ep \in retryTried
        BY <1>0, <1>2, <4>2, Zenon DEF TriedInv
      <4>4. QED
        BY <1>2, <1>7, <3>3, <4>3, Zenon DEF Tried
    <3>4. QED
      BY <1>5, <3>1, <3>2, <3>3
  <2>2. retryPc' # "attempt"
    BY <1>8, Zenon
  <2>3. QED
    BY <2>1, <2>2 DEF TriedInv
<1>18. QED
  BY <1>10, <1>11, <1>12, <1>13, <1>16, <1>17 DEF RetryInv, RetriesDoBetter

\* Deciding: with the last attempt's answer weighed, what is kept is the best.
LEMMA DecideKeepsBest ==
    ASSUME RetryInv, retryPc = "decide"
    PROVE  /\ sent \in Seq(SentRec) /\ Len(sent) \in Nat \ {0} /\ retryAt \in Left /\ kept \in Left
           /\ retryAt.kind = sent[Len(sent)].kind /\ retryAt.lag = sent[Len(sent)].lag
           /\ Covers(kept, sent, Len(sent) - 1) /\ FromOne(kept, sent)
           /\ RetryKept \in Left /\ Covers(RetryKept, sent, Len(sent)) /\ FromOne(RetryKept, sent)
           /\ (RetryKept # Nothing => RealAnswer(RetryKept))
<1>1. /\ sent \in Seq(SentRec) /\ Len(sent) \in Nat \ {0} /\ retryAt \in Left /\ kept \in Left
      /\ retryAt.kind = sent[Len(sent)].kind /\ retryAt.lag = sent[Len(sent)].lag
  BY DEF RetryInv, RetriesDoBetter, RetryTypeOK, SentInv
<1>2. Covers(kept, sent, Len(sent) - 1) /\ FromOne(kept, sent)
  BY DEF RetryInv, KeptInv
<1> DEFINE n == Len(sent) - 1
<1>3. n \in Nat /\ n + 1 = Len(sent)
  BY <1>1
<1>4. Covers(RetryKept, sent, n + 1) /\ FromOne(RetryKept, sent)
  BY <1>1, <1>2, <1>3, KeptStaysBest DEF RetryKept
<1>5. RetryKept \in Left
  BY <1>1 DEF RetryKept
<1>6. RetryKept # Nothing => RealAnswer(RetryKept)
  BY <1>4 DEF FromOne
<1>7. QED
  BY <1>1, <1>2, <1>3, <1>4, <1>5, <1>6, Zenon

\* The endpoint of the last attempt, and those of the pool, are endpoints.
LEMMA DecideSets ==
    ASSUME RetryInv, retryPc = "decide"
    PROVE  /\ Pool \subseteq Endpoint /\ Tried \subseteq Endpoint \cup {None}
           /\ Tried # {} /\ Left0 \subseteq Endpoint /\ Left0 \cap Tried = {}
           /\ \A i \in Session : sent[i].ep \in Tried
<1>1. retryAt.ep \in Endpoint \cup {None}
  BY DEF RetryInv, RetriesDoBetter, RetryTypeOK, Left
<1>2. Pool \subseteq Endpoint /\ Tried \subseteq Endpoint \cup {None} /\ Tried # {}
  BY <1>1 DEF Pool, Tried, RetryInv, RetriesDoBetter, RetryTypeOK
<1>3. Left0 \subseteq Endpoint /\ Left0 \cap Tried = {}
  BY <1>2 DEF Left0
<1>4. \A i \in Session : sent[i].ep \in Tried
  BY Zenon DEF RetryInv, TriedInv
<1>5. QED
  BY <1>2, <1>3, <1>4, Zenon

\* A return that makes no attempt keeps the invariant, the best answer given.
LEMMA ReturnKeepsInv ==
    ASSUME RetryInv, retryPc = "decide", NEW k \in Left, NEW c, NEW lim \in BOOLEAN,
           RetryReturn(retryAt, k, c, lim), view' = view, eps' = eps, retryAt' = retryAt, sent' = sent,
           NEW m \in {Len(sent) - 1, Len(sent)}, Covers(k, sent, m), FromOne(k, sent),
           kept' = k, retryPool' \subseteq Endpoint, retryTried' \subseteq Endpoint \cup {None},
           pending' \in Causes
    PROVE  RetryInv'
<1>0. RetryTypeOK /\ BestAnswerStands /\ RetriesGoElsewhere /\ SentInv /\ KeptInv /\ TriedInv
  BY Zenon DEF RetryInv, RetriesDoBetter
<1>1. sent' \in Seq(SentRec) /\ Len(sent') > 0 /\ retryAt \in Left
  BY DecideKeepsBest
<1>2. retryAt.kind = sent'[Len(sent')].kind /\ retryAt.lag = sent'[Len(sent')].lag
  BY DecideKeepsBest
<1>3. m \in {Len(sent') - 1, Len(sent')} /\ Covers(k, sent', m) /\ FromOne(k, sent')
  BY Zenon
<1>4. /\ retryPc' = "done" /\ limited' \in BOOLEAN /\ answer' \in Left
      /\ resolved' \in {"none", "recovered", "exhausted", "limited"}
      /\ BestAnswerStands'
  BY <1>1, <1>2, <1>3, ReturnsTheBest, Zenon
<1>5. kept' # Nothing => RealAnswer(kept')
  BY DEF FromOne
<1>6. RetryTypeOK'
  <2>1. view \in Views /\ eps \subseteq Endpoint /\ retryAt \in Left /\ Len(sent) <= MaxRetries + 1
    BY <1>0 DEF RetryTypeOK
  <2>2. retryPc' \in {"attempt", "decide", "done"}
    BY <1>4, ZenonT(60)
  <2>3. QED
    BY <1>4, <1>5, <2>1, <2>2, Zenon DEF RetryTypeOK
<1>7. RetriesGoElsewhere'
  <2>1. retryPc' # "attempt"
    BY <1>4, Zenon
  <2>2. \A i, j \in DOMAIN sent : SameSession(i, j)' = SameSession(i, j)
    BY Zenon DEF SameSession
  <2>3. QED
    BY <1>0, <2>1, <2>2, Zenon DEF RetriesGoElsewhere
<1>8. SentInv'
  <2>1. retryPc' # "decide" /\ ~(retryPc' # "done")
    BY <1>4
  <2>2. QED
    BY <1>1, <2>1 DEF SentInv
<1>9. KeptInv' /\ TriedInv'
  <2>1. retryPc' # "decide" /\ retryPc' # "attempt"
    BY <1>4
  <2>2. FromOne(kept', sent')
    BY <1>3, Zenon
  <2>3. KeptInv'
    BY <2>1, <2>2, Zenon DEF KeptInv
  <2>4. TriedInv'
    BY <2>1 DEF TriedInv
  <2>5. QED
    BY <2>3, <2>4
<1>10. QED
  BY <1>4, <1>6, <1>7, <1>8, <1>9 DEF RetryInv, RetriesDoBetter

\* The kinds and causes an attempt leaves are causes of a retry.
LEMMA CausesOfRetries == \A x \in Left : x.kind \in Causes
BY Zenon DEF Left, Causes, Kinds

\* Preferred narrows what is left without emptying it, and without leaving it
\* only endpoints nobody vouches for.
LEMMA PreferredLeaves ==
    ASSUME Left0 # {}
    PROVE  Preferred \subseteq Left0 /\ Preferred # {} /\ (AnyVouched(Left0) => AnyVouched(Preferred))
<1> DEFINE narrowed == ExcludeAffiliates(Left0, Operators(Tried))
<1>1. narrowed \subseteq Left0 /\ narrowed # {}
  BY DEF ExcludeAffiliates
<1>2. CASE Preferred = narrowed /\ (AnyVouched(narrowed) \/ ~AnyVouched(Left0))
  BY <1>1, <1>2
<1>3. CASE Preferred = Left0
  BY <1>3, Zenon
<1>4. QED
  BY <1>2, <1>3 DEF Preferred

\* Archival narrows without emptying, and keeps to endpoints vouched for.
LEMMA ArchivalLeaves ==
    ASSUME NEW es, es # {}
    PROVE  Archival(es) \subseteq es /\ Archival(es) # {} /\ (AnyVouched(es) => AnyVouched(Archival(es)))
BY DEF Archival, AnyVouched

\* The next attempt's list: untried, not empty, vouched for when what is left
\* is, and past the limiter's operators after its verdict.
LEMMA ElsewhereLists ==
    ASSUME RetryInv, RetryElsewhere
    PROVE  /\ eps' \subseteq Left0 /\ eps' # {}
           /\ AnyVouched(Left0) => AnyVouched(eps')
           /\ LimiterVerdict(retryAt.kind) => \A e \in eps' : OperatorOf[e] \notin Operators(Tried)
<1>1. Preferred \subseteq Left0 /\ Preferred # {} /\ (AnyVouched(Left0) => AnyVouched(Preferred))
  BY PreferredLeaves DEF RetryElsewhere
<1>2. CASE LimiterVerdict(retryAt.kind)
  <2>1. eps' = PastLimiter(Preferred) /\ eps' # {} /\ AnyVouched(eps')
    BY <1>2 DEF RetryElsewhere
  <2>2. QED
    BY <1>1, <2>1, Zenon DEF PastLimiter
<1>3. CASE ~LimiterVerdict(retryAt.kind)
  <2>1. eps' = Archival(Preferred) \/ eps' = Preferred
    BY <1>3 DEF RetryElsewhere
  <2>2. QED
    BY <1>1, <1>3, <2>1, ArchivalLeaves, Zenon
<1>4. QED
  BY <1>2, <1>3, Zenon

\* Going on after a failure: the invariant holds for the next attempt when its
\* list is made as it should be.
LEMMA GoesOnKeepsInv ==
    ASSUME RetryInv, retryPc = "decide", retryPc' = "attempt",
           view' = view, limited' = limited, resolved' = resolved, sent' = sent, answer' = answer,
           kept' = RetryKept, retryAt' = Nothing, eps' \subseteq Endpoint, retryPool' \subseteq Endpoint,
           retryTried' \subseteq Endpoint \cup {None}, pending' \in Causes,
           AnyVouched(retryPool' \ retryTried') => AnyVouched(eps'), TriedInv'
    PROVE  RetryInv'
<1>0. RetryTypeOK /\ BestAnswerStands /\ RetriesGoElsewhere /\ SentInv /\ KeptInv /\ TriedInv
  BY DEF RetryInv, RetriesDoBetter
<1>1. RetryTypeOK'
  <2>1. /\ view \in Views /\ limited \in BOOLEAN /\ resolved \in {"none", "recovered", "exhausted", "limited"}
        /\ Len(sent) <= MaxRetries + 1 /\ answer \in Left
    BY <1>0, Zenon DEF RetryTypeOK
  <2>2. retryAt' \in Left
    BY OutcomesLeft, Zenon
  <2>3. kept' \in Left /\ (kept' # Nothing => RealAnswer(kept'))
    BY DecideKeepsBest
  <2>4. retryPc' \in {"attempt", "decide", "done"}
    BY Zenon
  <2>5. QED
    BY <2>1, <2>2, <2>3, <2>4, Zenon DEF RetryTypeOK
<1>2. BestAnswerStands'
  BY Zenon DEF BestAnswerStands, Failed
<1>3. RetriesGoElsewhere'
  <2>1. AnyVouched(retryPool \ retryTried)' => AnyVouched(eps)'
    BY Zenon DEF AnyVouched
  <2>2. \A i, j \in DOMAIN sent : SameSession(i, j)' = SameSession(i, j)
    BY Zenon DEF SameSession
  <2>3. QED
    BY <1>0, <2>1, <2>2 DEF RetriesGoElsewhere
<1>4. SentInv'
  <2>1. sent \in Seq(SentRec) /\ Len(sent) <= MaxRetries
    BY <1>0 DEF SentInv
  <2>2. retryPc' # "decide"
    OBVIOUS
  <2>3. QED
    BY <2>1, <2>2, Zenon DEF SentInv
<1>5. KeptInv'
  <2>1. Covers(kept', sent', Len(sent')) /\ FromOne(kept', sent')
    BY DecideKeepsBest, Zenon
  <2>2. retryPc' # "decide"
    OBVIOUS
  <2>3. QED
    BY <2>1, <2>2, Zenon DEF KeptInv
<1>6. QED
  BY <1>1, <1>2, <1>3, <1>4, <1>5 DEF RetryInv, RetriesDoBetter

\* The tried set at the start of the next attempt of the same session.
LEMMA ElsewhereKeepsInv == RetryInv /\ RetryElsewhere => RetryInv'
<1> SUFFICES ASSUME RetryInv, RetryElsewhere PROVE RetryInv'
  OBVIOUS
<1>1. /\ retryPc = "decide" /\ retryPc' = "attempt" /\ retryAt' = Nothing
      /\ kept' = RetryKept /\ retryPool' = Pool /\ retryTried' = Tried /\ pending' = retryAt.kind
      /\ view' = view /\ limited' = limited /\ resolved' = resolved /\ sent' = sent /\ answer' = answer
  BY Zenon DEF RetryElsewhere
<1>2. /\ Pool \subseteq Endpoint /\ Tried \subseteq Endpoint \cup {None} /\ Tried # {}
      /\ Left0 \subseteq Endpoint /\ Left0 \cap Tried = {}
      /\ \A i \in Session : sent[i].ep \in Tried
  BY <1>1, DecideSets
<1>3. /\ eps' \subseteq Left0 /\ eps' # {} /\ (AnyVouched(Left0) => AnyVouched(eps'))
      /\ LimiterVerdict(retryAt.kind) => \A e \in eps' : OperatorOf[e] \notin Operators(Tried)
  BY ElsewhereLists, Zenon
<1>4. pending' \in Causes
  BY <1>1, DecideKeepsBest, CausesOfRetries, Zenon
<1>5. Session' = Session
  BY <1>1, Zenon DEF Session
<1>6. TriedInv'
  <2>1. eps' \cap retryTried' = {} /\ retryTried' # {}
    BY <1>1, <1>2, <1>3, Zenon
  <2>2. \A i \in Session' : sent'[i].ep \in retryTried'
    BY <1>1, <1>2, <1>5, Zenon
  <2>3. LimiterVerdict(pending') => \A e \in eps' : OperatorOf[e] \notin Operators(retryTried')
    BY <1>1, <1>3
  <2>4. QED
    BY <1>1, <1>3, <2>1, <2>2, <2>3, Zenon DEF TriedInv
<1>7. AnyVouched(retryPool' \ retryTried') => AnyVouched(eps')
  BY <1>1, <1>3, Zenon DEF Left0
<1>8. eps' \subseteq Endpoint
  BY <1>2, <1>3, Zenon
<1>9. QED
  BY <1>1, <1>2, <1>4, <1>6, <1>7, <1>8, GoesOnKeepsInv, Zenon

\* A rollover starts a session in which nothing was tried.
LEMMA FreshSessionKeepsInv == RetryInv /\ RetryFreshSession => RetryInv'
<1> SUFFICES ASSUME RetryInv, RetryFreshSession PROVE RetryInv'
  OBVIOUS
<1>1. /\ retryPc = "decide" /\ retryPc' = "attempt" /\ retryAt' = Nothing /\ retryAt.kind = "rollover"
      /\ kept' = RetryKept /\ eps' = {} /\ retryPool' = {} /\ retryTried' = {} /\ pending' = "rollover"
      /\ view' = view /\ limited' = limited /\ resolved' = resolved /\ sent' = sent /\ answer' = answer
  BY Zenon DEF RetryFreshSession
<1>2. sent \in Seq(SentRec) /\ Len(sent) \in Nat \ {0} /\ sent[Len(sent)].kind = "rollover"
  BY <1>1, DecideKeepsBest
<1>3. Session = {}
  BY <1>2 DEF Session
<1>4. TriedInv'
  BY <1>1, <1>3, Zenon DEF TriedInv, Session
<1>5. pending' \in Causes
  BY <1>1, OutcomesLeft, Zenon DEF Causes
<1>6. ~AnyVouched(retryPool' \ retryTried')
  BY <1>1 DEF AnyVouched
<1>7. QED
  BY <1>1, <1>4, <1>5, <1>6, GoesOnKeepsInv

\* Every step of Retry keeps the invariant.
LEMMA RetryNextInv == RetryInv /\ [RetryNext]_retryVars => RetryInv'
<1> SUFFICES ASSUME RetryInv, [RetryNext]_retryVars PROVE RetryInv'
  OBVIOUS
<1>1. CASE Attempt
  BY <1>1, AttemptKeepsInv, Zenon
<1>2. CASE RetryStop
  <2>1. /\ retryPc = "decide" /\ RetryReturn(retryAt, kept, retriedFor, FALSE)
        /\ view' = view /\ eps' = eps /\ retryAt' = retryAt /\ sent' = sent
        /\ retryPool' = retryPool /\ retryTried' = retryTried /\ kept' = kept /\ pending' = pending
    BY <1>2, Zenon DEF RetryStop
  <2>2. retryPool \subseteq Endpoint /\ retryTried \subseteq Endpoint \cup {None} /\ pending \in Causes
    BY Zenon DEF RetryInv, RetriesDoBetter, RetryTypeOK, SentInv
  <2>3. kept \in Left /\ Covers(kept, sent, Len(sent) - 1) /\ FromOne(kept, sent)
    BY <2>1, DecideKeepsBest
  <2>4. QED
    BY <2>1, <2>2, <2>3, ReturnKeepsInv, Zenon
<1>3. CASE RetryFreshSession
  BY <1>3, FreshSessionKeepsInv
<1>4. CASE NoneLeft \/ StopAtLimiter
  <2>1. /\ retryPc = "decide" /\ view' = view /\ eps' = eps /\ retryAt' = retryAt /\ sent' = sent
        /\ kept' = RetryKept /\ retryPool' = Pool /\ retryTried' = Tried /\ pending' = retryAt.kind
    BY <1>4, Zenon DEF NoneLeft, StopAtLimiter
  <2>2. RetryReturn(retryAt, RetryKept, CauseWhenNoneLeft, FALSE) \/ RetryReturn(retryAt, RetryKept, retryAt.kind, TRUE)
    BY <1>4, Zenon DEF NoneLeft, StopAtLimiter
  <2>3. Pool \subseteq Endpoint /\ Tried \subseteq Endpoint \cup {None}
    BY <2>1, DecideSets, Zenon
  <2>4. pending' \in Causes
    BY <2>1, DecideKeepsBest, CausesOfRetries, Zenon
  <2>5. RetryKept \in Left /\ Covers(RetryKept, sent, Len(sent)) /\ FromOne(RetryKept, sent)
    BY <2>1, DecideKeepsBest
  <2>6. QED
    BY <2>1, <2>2, <2>3, <2>4, <2>5, ReturnKeepsInv, Zenon
<1>5. CASE RetryElsewhere
  BY <1>5, ElsewhereKeepsInv
<1>6. CASE UNCHANGED retryVars
  <2> USE DEF retryVars
  <2>1. RetryTypeOK' = RetryTypeOK /\ BestAnswerStands' = BestAnswerStands
    BY <1>6, Zenon DEF RetryTypeOK, BestAnswerStands, Failed, RealAnswers
  <2>2. RetriesGoElsewhere' = RetriesGoElsewhere
    BY <1>6 DEF RetriesGoElsewhere, SameSession, AnyVouched
  <2>3. SentInv' = SentInv /\ KeptInv' = KeptInv
    BY <1>6, Zenon DEF SentInv, KeptInv
  <2>4. TriedInv' = TriedInv
    BY <1>6 DEF TriedInv, Session, Tried
  <2>5. QED
    BY <2>1, <2>2, <2>3, <2>4, Zenon DEF RetryInv, RetriesDoBetter
<1>7. QED
  BY <1>1, <1>2, <1>3, <1>4, <1>5, <1>6 DEF RetryNext

\* retry.go: for every set of endpoints, their operators, what is known of
\* them, every bound on the retries and every lag, the best answer any attempt
\* brought is the one the client gets, a retry never goes back to an endpoint
\* its session tried, nor after a rate limit to an operator that failed the
\* request, and no narrowing trades a vouched list for one nobody vouches for.
THEOREM RetriesAlwaysDoBetter == RetrySpec => []RetriesDoBetter
<1>1. RetryInv => RetriesDoBetter
  BY DEF RetryInv
<1>2. QED
  BY RetryInitInv, RetryNextInv, <1>1, PTL DEF RetrySpec

==============================================================================
