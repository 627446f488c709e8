------------------------------ MODULE MCChecks ------------------------------
(***************************************************************************)
(* Chain state, endpoint selection and health checks: the head the         *)
(* reports agree on, the heights and archival marks requests are routed    *)
(* by, the schedule of the probes, the feed of their results between pods, *)
(* the readiness gate and the external sources.  Each is explored with the *)
(* others at rest.                                                         *)
(***************************************************************************)
EXTENDS Heights, Executor, ExternalSources, TLC

CONSTANTS Parts, a, b, c, A, B, C, a1, a2, b1, c1,
          Floors,           \* floors external sources set
          HeadMaxTime,
          RolloverObs,      \* observations in part "rollover"
          ScheduleMaxTime,
          ChangesAt         \* when the leader, the flag or the session changes in part "schedule"

VARIABLE part

mcVars == <<part, qClock, bcVars, htVars, prVars, fdVars, wgVars, xsVars>>

PartyOfDef == a1 :> a @@ a2 :> a @@ b1 :> b @@ c1 :> c
HostOfDef == a1 :> A @@ a2 :> A @@ b1 :> B @@ c1 :> C

\* Who reports which heights in part "heads", and whose retention is observed in part "archival".
HeadReports == {<<a1, 15>>, <<b1, 2>>, <<c1, 5>>, <<c1, 15>>}
StoredReports == {<<a1, 0>>, <<a1, 30>>, <<b1, 4>>, <<b1, 7>>}
Askings == {<<"state", a1, 0, FALSE>>, <<"state", a1, 2, FALSE>>, <<"state", a1, 0, TRUE>>,
            <<"state", b1, 2, FALSE>>, <<"logs", b1, 0, FALSE>>}

CheckOrderDef == <<"height", "other">>
CheckIntervalDef == [height |-> 1, other |-> 2]
FileListDef == [sources |-> "l1", checks |-> "l1"]

MCInit ==
    /\ part \in Parts /\ BcInit /\ HtInit /\ PrInit /\ FdInit /\ XsInit
    /\ WgInit /\ (part # "warm" => staked = {})

Tick == qClock < HeadMaxTime /\ qClock' = qClock + 1 /\ UNCHANGED <<bcVars, htVars>>

HeadsNext ==
    \/ \E r \in HeadReports : AddObservation(r[1], r[2]) /\ UNCHANGED <<qClock, htVars>>
    \/ \E h \in Floors : SetExternalFloor(h) /\ UNCHANGED <<qClock, htVars>>
    \/ Tick

RolloverNext ==
    \/ \E r \in StoredReports :
          Len(obs) + Cardinality(adding) < RolloverObs /\ UpdateBlockHeight(r[1], r[2]) /\ UNCHANGED qClock
    \/ \E o \in adding : ObservationAdded(o) /\ UNCHANGED qClock
    \/ RecordHead(a2, 4) /\ UNCHANGED qClock
    \/ (ResetState \/ ResetStores) /\ UNCHANGED qClock
    \/ Tick

ArchivalNext ==
    \/ \E q \in Askings : RecordArchival(q[1], q[2], q[3], q[4]) /\ UNCHANGED qClock
    \/ perceived = 0 /\ AddObservation(a1, 5) /\ UNCHANGED <<qClock, htVars>>
    \/ Tick

ScheduleNext ==
    \/ prClock < ScheduleMaxTime /\ RunOnce
    \/ \E k \in Keys, ok \in BOOLEAN : ProbeAnswered(k, ok)
    \/ \E k \in Backends \X Essential, at \in {t \in {prClock, prClock - 1, prClock - 3} : t >= 0} : ApplyPeerResult(k, at)
    \/ \E be \in Backends : \/ SignalsEvicted(be)
                           \/ \E height \in BOOLEAN : ClientTraffic(be, MinSignals, height)
    \/ Warmed
    \/ prClock \in ChangesAt /\ (Election \/ ProbingFlag \/ \E bs \in SUBSET Backends : Rollover(bs))

InHeights == UNCHANGED <<part, prVars, fdVars, wgVars, xsVars>>
InSchedule == part = "schedule" /\ UNCHANGED <<part, qClock, bcVars, htVars, fdVars, wgVars, xsVars>>
InFeed == part = "feed" /\ UNCHANGED <<part, qClock, bcVars, htVars, prVars, wgVars, xsVars>>
InWarm == part = "warm" /\ UNCHANGED <<part, qClock, bcVars, htVars, prVars, fdVars, xsVars>>
InSources == part \in XKinds /\ UNCHANGED <<part, qClock, bcVars, htVars, prVars, fdVars, wgVars>>

MCNext ==
    \/ part = "heads" /\ InHeights /\ HeadsNext
    \/ part = "rollover" /\ InHeights /\ RolloverNext
    \/ part = "archival" /\ InHeights /\ ArchivalNext
    \/ InSchedule /\ ScheduleNext
    \/ InFeed /\ FdNext
    \/ InWarm /\ WgNext
    \/ InSources /\ XsNext(part)

\* The readiness handler is asked, time passes; a fetcher polls, its sources answer in the
\* end and its heights are taken; a fetcher that was stopped ends.
Sources(live, Step(_)) == part = "sources" /\ (\E i \in DOMAIN fetchers : fetchers[i].live = live /\ Step(i)) /\ InSources

Fairness ==
    /\ WF_mcVars(part = "warm" /\ AskWarm /\ InWarm)
    /\ WF_mcVars(part = "warm" /\ WarmTick /\ InWarm)
    /\ WF_mcVars(Sources(TRUE, PollBegins))
    /\ SF_mcVars(Sources(TRUE, LAMBDA i : PollEnds(i, TRUE)))
    /\ WF_mcVars(Sources(FALSE, LAMBDA i : PollEnds(i, FALSE)))
    /\ SF_mcVars(Sources(TRUE, FloorLoop))
    /\ WF_mcVars(Sources(FALSE, FloorLoop))

MCSpec == MCInit /\ [][MCNext]_mcVars /\ Fairness

-----------------------------------------------------------------------------
\* blockconsensus.go:299, selector.go (SelectWithKnownHeights), evm/plugin.go:50:
\* where a request goes by height.  The head stands against parties that lag or
\* run ahead alone; whatever the candidates and whatever history the request
\* asks for, it is sent where it can be answered, and a refusal keeps requests
\* as deep away for its lifetime and no longer.
HeightsRouteWell ==
    /\ part = "heads" => BcTypeOK /\ HtTypeOK /\ HeadStands
    /\ part = "rollover" => BcTypeOK /\ HtTypeOK /\ \A es \in SUBSET Endpoints \ {{}} : ChoosesWell(es, 0, 0, TRUE)
    /\ part = "archival" =>
           /\ HtTypeOK /\ MarksRegular
           /\ \A ds \in Depths, dl \in Depths, routing \in BOOLEAN : ChoosesWell(Endpoints, ds, dl, routing)

\* executor.go:651, stream.go:97, executor.go:1026, external_manager.go:316: what
\* the fleet learns from probes.  A backend is never left unread for long, a
\* peer's result is applied once and in order, readiness is earned, and one
\* fetcher polls the sources in force.
ProbesEarn ==
    /\ part = "schedule" => PrTypeOK /\ HeightsStayFresh
    /\ part = "feed" => FdTypeOK /\ AppliedOnce
    /\ part = "warm" => WgTypeOK /\ WarmEarned
    /\ part \in XKinds => XsTypeOK /\ OneFetcher

\* executor.go:1323, external_manager.go:316: a pod that is asked is ready in the
\* end and stays so, and once changes stop the floor is the height of the
\* sources in force, whatever a stopped fetcher had still to deliver.
ChecksComeGood == <>[]((part = "warm" => warm) /\ (part = "sources" => FloorSettles))
=============================================================================
