------------------------------ MODULE MCStreams ------------------------------
(***************************************************************************)
(* WebSocket streams and the suppliers behind them: the subscriptions of a *)
(* connection across rebinds, the grades of its suppliers, the heads they  *)
(* push, the placement of connections, the ledger of clients, the probes   *)
(* of demoted suppliers, and the suppliers of a session.  Each is explored *)
(* with the others at rest.                                                *)
(***************************************************************************)
EXTENDS Subscriptions, WSGrades, WSPlacement, Suppliers

CONSTANTS Parts, s1, s2, s3, r1, w1, b1, q1, q2,    \* a connection's frames
          e1, e2, e3, e4, pa, pb,                   \* endpoints and parties
          i1, i2, k1, k2, u1, u2, u3,               \* clients, suppliers, URLs
          o1, o2, o3, o4                            \* operators of a session

VARIABLE part

mcVars == <<part, subscriptionVars, gradeVars, headVars, placementVars, ledgerVars, probeVars, supplyVars>>

ReqIdOfDef == [s \in Subs |-> IF s = s3 THEN q2 ELSE q1]
Scene(uses, all, refuses, n) == [uses |-> uses, all |-> all, refuses |-> refuses, moves |-> n]
ScenesDef == {Scene({s1, s2}, FALSE, {}, 2), Scene({s1, w1}, FALSE, {s1}, 2), Scene({r1, w1, b1}, FALSE, {}, 1),
              Scene({s1, s2}, TRUE, {s2}, 1), Scene({s1, s3}, FALSE, {}, 1), Scene({s1, r1}, FALSE, {}, 1)}
WSSuppliersDef == <<e1, e2>>
PlPartyDef == e1 :> pa @@ e2 :> pb @@ e3 :> pb @@ e4 :> pa
LedgerOwnerDef == k1 :> "x" @@ k2 :> "y"
Tenure(ip, key, long, quits, topic) == [ip |-> ip, key |-> key, long |-> long, quit |-> quits, topic |-> topic]
LedgerScriptDef == {Tenure(i1, k1, FALSE, TRUE, "t"), Tenure(i1, k2, TRUE, FALSE, "u"),
                    Tenure(i1, k2, TRUE, TRUE, "t"), Tenure(i2, k1, FALSE, FALSE, "t")}
NatureDef == u1 :> "dial_failed" @@ u2 :> "refused" @@ u3 :> "other_dialect"
InSessionDef == <<{o2, o3, o4}, {o1, o2}>>
StakesDef == o1 :> {"want"} @@ o2 :> {"want", "fallback"} @@ o3 :> {"fallback"} @@ o4 :> {"want"}
AnsweringDef == o1 :> {"good", "over_served"} @@ o2 :> {"bad_signature", "over_served"}
                @@ o3 :> {"good", "garbled"} @@ o4 :> {"good"}

MCInit ==
    /\ part \in Parts /\ SubsInit /\ (part # "subscriptions" => scene = Scene({s1, s2}, FALSE, {}, 2))
    /\ GradesInit /\ HeadsInit /\ PlacementInit /\ LedgerInit /\ ProbesInit /\ SuppliersInit

InSubscriptions == part = "subscriptions" /\ UNCHANGED <<part, gradeVars, headVars, placementVars, ledgerVars, probeVars, supplyVars>>
InGrades == part = "grades" /\ UNCHANGED <<part, subscriptionVars, headVars, placementVars, ledgerVars, probeVars, supplyVars>>
InHeads == part = "heads" /\ UNCHANGED <<part, subscriptionVars, gradeVars, placementVars, ledgerVars, probeVars, supplyVars>>
InPlacement == part = "placement" /\ UNCHANGED <<part, subscriptionVars, gradeVars, headVars, ledgerVars, probeVars, supplyVars>>
InLedger == part = "ledger" /\ UNCHANGED <<part, subscriptionVars, gradeVars, headVars, placementVars, probeVars, supplyVars>>
InProbes == part = "probes" /\ UNCHANGED <<part, subscriptionVars, gradeVars, headVars, placementVars, ledgerVars, supplyVars>>
InSuppliers == part = "suppliers" /\ UNCHANGED <<part, subscriptionVars, gradeVars, headVars, placementVars, ledgerVars, probeVars>>

MCNext ==
    \/ InSubscriptions /\ SubsNext
    \/ InGrades /\ GradesNext
    \/ InHeads /\ HeadsNext
    \/ InPlacement /\ PlacementNext
    \/ InLedger /\ LedgerNext
    \/ InProbes /\ ProbesNext
    \/ InSuppliers /\ SuppliersNext

\* The probes' ticker and workers go on, as ProbesFairness has them.
MCSpec ==
    /\ MCInit /\ [][MCNext]_mcVars
    /\ WF_mcVars(part = "probes" /\ ProbeCycle /\ InProbes)
    /\ \A u \in URLs : WF_mcVars(part = "probes" /\ (ProbeOne(u) \/ Unresolved(u)) /\ InProbes)

-----------------------------------------------------------------------------
\* TranslateEndpointFrame, Replay and Reissue (subscription.go): whatever
\* endpoint a connection is moved to, a notification reaches the subscription it
\* is for under the id its client knows, and a rebind loses no subscription and
\* no request.
SubscriptionsHold == part = "subscriptions" => SubsTypeOK /\ NotesReachTheirSubscriber /\ RebindsLoseNothing

\* lossIsSuppliers (ws_relayer.go), ws_heads.go, ws_clients.go: what is held
\* against the suppliers of streams is what they did.  One charge for one fault
\* and none for a planned move or a miner's refusal; a head counts as wrong only
\* when the others outvote it; and a report of the ledger is complete for its
\* window.
GradesFair ==
    /\ part = "grades" => GradesTypeOK /\ FaultsChargedOnce
    /\ part = "heads" => HeadsTypeOK /\ OutvotedOnly
    /\ part = "ledger" => LedgerTypeOK /\ LedgerReadsBack
    /\ part = "placement" => PlacementTypeOK
    /\ part = "probes" => ProbesTypeOK

\* ws_probe.go: a demoted WebSocket key is probed, ever less often while it
\* fails, and comes back once it answers.
ProbesComeBack == BacksOff /\ (part = "probes" => EveryKeyRecovers)
=============================================================================
