---------------------------------- MODULE Hedge ----------------------------------
(***************************************************************************)
(* One hedged attempt of relay/middleware/hedge.go.  The race waits for    *)
(* the hedge delay, the primary or the request's end; a hedge arm follows, *)
(* steered away from the primary's published pick, and with the rehedge    *)
(* flag one third arm when the hedge fails first.  Arms run detached and   *)
(* report on channels of capacity one.  SelectEndpoint, inside each arm,   *)
(* refetches the session's list when the arm's own is empty.               *)
(***************************************************************************)
EXTENDS Sage, Integers, Sequences

CONSTANTS
    Endpoint,       \* the endpoints a fetch returns
    OperatorOf,     \* OperatorOf[e]: its operator (an owner's brands are one)
    OperatorAware,  \* the operator_aware_selection flag
    Behind,         \* the endpoints known to be far behind the head
    Pools,          \* the lists an attempt may start from
    Rehedge         \* the rehedge flag

ASSUME HedgeAssumption ==
    /\ None \notin Endpoint /\ OperatorAware \in BOOLEAN
    /\ Behind \subseteq Endpoint /\ Pools \subseteq (SUBSET Endpoint) \ {{}} /\ Rehedge \in BOOLEAN

-----------------------------------------------------------------------------
(* How the middlewares narrow a list of endpoints, by operator or by       *)
(* height; Retry shares these.                                             *)

Operators(es) == {OperatorOf[e] : e \in es \ {None}}

\* Never empties a list that was not empty.
ExcludeAffiliates(es, ops) ==
    LET left == {e \in es : OperatorOf[e] \notin ops} IN IF left = {} THEN es ELSE left

AllStale(es, behind) == es # {} /\ es \subseteq behind
NarrowsIntoStale(narrowed, full, behind) == AllStale(narrowed, behind) /\ ~AllStale(full, behind)

-----------------------------------------------------------------------------
Arm == {"primary", "hedge", "third"}

VARIABLES
    hedgePool,           \* ctx.Endpoints when the race starts
    hedgeOver,           \* the attempt's context has ended
    hedgePc,             \* "delay", "alone" (the primary's alone), "race" or "done"
    hedgeArm,            \* arm[a]: "idle", "running", "picked", "reporting" or "gone"
    cands,               \* cands[a]: the list arm a was given
    hedgePick,           \* pick[a]: the endpoint it published, or None
    res,                 \* res[a]: "none", "ok", "failed" or "ruledOut"
    primaryCh, hedgeCh,  \* the arms whose results wait in a channel
    primaryDone, hedgeDone, rehedged,
    hedgeCur,            \* hedgeCtx: the arm the race calls the hedge
    known,               \* the picks the race had loaded when it launched the last arm
    hedgeOut             \* what the race returned

race == <<primaryDone, hedgeDone, rehedged, hedgeCur, known>>
hedgeVars == <<hedgePool, hedgeOver, hedgePc, hedgeArm, cands, hedgePick, res, primaryCh, hedgeCh, race, hedgeOut>>

NoOut == [ok |-> FALSE, why |-> "none", ep |-> None]

HedgeInit ==
    /\ hedgePool \in Pools /\ hedgeOver = FALSE /\ hedgePc = "delay"
    /\ hedgeArm = [a \in Arm |-> IF a = "primary" THEN "running" ELSE "idle"]
    /\ cands = [a \in Arm |-> IF a = "primary" THEN hedgePool ELSE {}]
    /\ hedgePick = [a \in Arm |-> None] /\ res = [a \in Arm |-> "none"]
    /\ primaryCh = <<>> /\ hedgeCh = <<>>
    /\ primaryDone = FALSE /\ hedgeDone = FALSE /\ rehedged = FALSE /\ hedgeCur = "hedge" /\ known = {}
    /\ hedgeOut = NoOut

-----------------------------------------------------------------------------
(* The arms: next.HandleRelay on a clone, then one send.                   *)

\* The list SelectEndpoint selects from: fetched again when the arm has none.
Selectable(a) == IF cands[a] = {} THEN Endpoint ELSE cands[a]

Select(a) ==
    /\ hedgeArm[a] = "running"
    /\ \E e \in Selectable(a) : hedgePick' = [hedgePick EXCEPT ![a] = e]
    /\ hedgeArm' = [hedgeArm EXCEPT ![a] = "picked"]
    /\ UNCHANGED <<hedgePool, hedgeOver, hedgePc, cands, res, primaryCh, hedgeCh, race, hedgeOut>>

\* Nothing is selected: every candidate of a hedge arm is ruled out, or the
\* chain fails before selection.
SelectNone(a) ==
    /\ hedgeArm[a] = "running"
    /\ hedgeArm' = [hedgeArm EXCEPT ![a] = "reporting"]
    /\ \E r \in {"failed"} \cup (IF a = "primary" THEN {} ELSE {"ruledOut"}) :
            res' = [res EXCEPT ![a] = r]
    /\ UNCHANGED <<hedgePool, hedgeOver, hedgePc, cands, hedgePick, primaryCh, hedgeCh, race, hedgeOut>>

\* The relay returns (a panic comes back as an error).
RelayEnds(a) ==
    /\ hedgeArm[a] = "picked"
    /\ hedgeArm' = [hedgeArm EXCEPT ![a] = "reporting"]
    /\ \E r \in {"ok", "failed"} : res' = [res EXCEPT ![a] = r]
    /\ UNCHANGED <<hedgePool, hedgeOver, hedgePc, cands, hedgePick, primaryCh, hedgeCh, race, hedgeOut>>

\* Mutant: an unbuffered channel takes a result only while the race receives.
RoomWhenReceiving(ch) == ch = <<>> /\ hedgePc # "done"

HedgeRoom(ch) == ch = <<>>

\* What an arm leaves in its channel: safego.Call turns a panic into an error.
Sent(a) == <<a>>

HedgeReport(a) ==
    /\ hedgeArm[a] = "reporting"
    /\ IF a = "primary"
       THEN HedgeRoom(primaryCh) /\ primaryCh' = Sent(a) /\ UNCHANGED hedgeCh
       ELSE HedgeRoom(hedgeCh) /\ hedgeCh' = Sent(a) /\ UNCHANGED primaryCh
    /\ hedgeArm' = [hedgeArm EXCEPT ![a] = "gone"]
    /\ UNCHANGED <<hedgePool, hedgeOver, hedgePc, cands, hedgePick, res, race, hedgeOut>>

\* The attempt's deadline passes or the client leaves.
HedgeContextEnds ==
    /\ ~hedgeOver /\ hedgePc # "done"
    /\ hedgeOver' = TRUE
    /\ UNCHANGED <<hedgePool, hedgePc, hedgeArm, cands, hedgePick, res, primaryCh, hedgeCh, race, hedgeOut>>

-----------------------------------------------------------------------------
(* The race.                                                               *)

HedgeReturn(ok, why, ep) == hedgePc' = "done" /\ hedgeOut' = [ok |-> ok, why |-> why, ep |-> ep]

\* mergeContext of arm a, and its error.
ReturnArm(a, why) == HedgeReturn(res[a] = "ok", why, hedgePick[a])

\* deadlineInFlight: the first pick that was published names the attempt.
HedgeInFlight(first, second) == IF first # None THEN first ELSE second

\* Waiting for the delay, or for the primary alone: its result is the answer.
PrimaryAnswers ==
    /\ hedgePc \in {"delay", "alone"} /\ primaryCh # <<>>
    /\ primaryCh' = <<>>
    /\ ReturnArm("primary", IF hedgePc = "delay" THEN "beforeDelay" ELSE "alone")
    /\ UNCHANGED <<hedgePool, hedgeOver, hedgeArm, cands, hedgePick, res, hedgeCh, race>>

GiveUpWaiting ==
    /\ hedgePc \in {"delay", "alone"} /\ hedgeOver
    /\ HedgeReturn(FALSE, "over", HedgeInFlight(hedgePick["primary"], None))
    /\ UNCHANGED <<hedgePool, hedgeOver, hedgeArm, cands, hedgePick, res, primaryCh, hedgeCh, race>>

\* The list the hedge is given, away from the primary's pick.
HedgeList(primary) ==
    LET excluded == hedgePool \ {primary}
        narrowed == ExcludeAffiliates(excluded, Operators({primary}))
    IN IF OperatorAware /\ ~NarrowsIntoStale(narrowed, hedgePool, Behind) THEN narrowed ELSE excluded

\* The hedge is not sent when only endpoints far behind are left for it.
Suppressed(eps) == NarrowsIntoStale(eps, hedgePool, Behind)

HedgeLaunch(a, eps, loaded) ==
    /\ hedgeArm' = [hedgeArm EXCEPT ![a] = "running"]
    /\ cands' = [cands EXCEPT ![a] = eps]
    /\ known' = loaded

\* The delay elapses.
Fire ==
    /\ hedgePc = "delay"
    /\ LET primary == hedgePick["primary"]
           eps == IF primary = None THEN hedgePool ELSE HedgeList(primary)
       IN IF primary # None /\ Suppressed(eps)
          THEN hedgePc' = "alone" /\ UNCHANGED <<hedgeArm, cands, known>>
          ELSE hedgePc' = "race" /\ HedgeLaunch("hedge", eps, {primary} \ {None})
    /\ UNCHANGED <<hedgePool, hedgeOver, hedgePick, res, primaryCh, hedgeCh, primaryDone, hedgeDone, rehedged, hedgeCur, hedgeOut>>

Racing == hedgePc = "race" /\ ~(primaryDone /\ hedgeDone)

RaceOver ==
    /\ Racing /\ hedgeOver
    /\ HedgeReturn(FALSE, "over", HedgeInFlight(hedgePick["primary"], hedgePick[hedgeCur]))
    /\ UNCHANGED <<hedgePool, hedgeOver, hedgeArm, cands, hedgePick, res, primaryCh, hedgeCh, race>>

RacePrimary ==
    /\ Racing /\ primaryCh # <<>>
    /\ primaryCh' = <<>> /\ primaryDone' = TRUE
    /\ IF res["primary"] = "ok" THEN ReturnArm("primary", "primaryWon") ELSE UNCHANGED <<hedgePc, hedgeOut>>
    /\ UNCHANGED <<hedgePool, hedgeOver, hedgeArm, cands, hedgePick, res, hedgeCh, hedgeDone, rehedged, hedgeCur, known>>

\* errHedgeRuledOut, from the first hedge.
LeavesToPrimary(a) == res[a] = "ruledOut" /\ ~rehedged

\* A hedge with nothing to send to leaves the race to the primary.
HedgeRuledOut ==
    /\ Racing /\ hedgeCh # <<>> /\ LeavesToPrimary(Head(hedgeCh))
    /\ hedgeCh' = <<>>
    /\ IF primaryDone THEN ReturnArm("primary", "alone") ELSE hedgePc' = "alone" /\ UNCHANGED hedgeOut
    /\ UNCHANGED <<hedgePool, hedgeOver, hedgeArm, cands, hedgePick, res, primaryCh, race>>

HedgeWins ==
    /\ Racing /\ hedgeCh # <<>> /\ res[Head(hedgeCh)] = "ok"
    /\ hedgeCh' = <<>> /\ hedgeDone' = TRUE
    /\ ReturnArm(Head(hedgeCh), IF rehedged THEN "rehedgeWon" ELSE "hedgeWon")
    /\ UNCHANGED <<hedgePool, hedgeOver, hedgeArm, cands, hedgePick, res, primaryCh, primaryDone, rehedged, hedgeCur, known>>

\* Mutant: only the failed hedge's operator is left out.
ThirdListHedge(tried) ==
    {e \in hedgePool : OperatorOf[e] \notin Operators(tried \ {hedgePick["primary"]})}

\* rehedgeArm: the endpoints of the operators none of tried belongs to.
ThirdList(tried) == {e \in hedgePool : OperatorOf[e] \notin Operators(tried)}

\* Mutant: the race is not told that it has an arm to wait for again.
HedgeOpenForgotten == TRUE

\* hedgeDone once the third arm is launched.
HedgeDoneAfterLaunch == FALSE

\* The hedge fails: with the rehedge flag and the primary still running, one
\* more arm, unless no operator is left or only endpoints far behind are.
HedgeFails ==
    /\ Racing /\ hedgeCh # <<>> /\ res[Head(hedgeCh)] # "ok"
    /\ ~LeavesToPrimary(Head(hedgeCh))
    /\ hedgeCh' = <<>>
    /\ LET again == ~primaryDone /\ ~rehedged /\ Rehedge
           tried == {hedgePick["hedge"], hedgePick["primary"]} \ {None}
           left == ThirdList(tried)
       IN /\ rehedged' = (rehedged \/ again)
          /\ IF again /\ left # {} /\ ~NarrowsIntoStale(left, hedgePool, Behind)
             THEN HedgeLaunch("third", left, tried) /\ hedgeCur' = "third" /\ hedgeDone' = HedgeDoneAfterLaunch
             ELSE hedgeDone' = TRUE /\ UNCHANGED <<hedgeArm, cands, known, hedgeCur>>
    /\ UNCHANGED <<hedgePool, hedgeOver, hedgePc, hedgePick, res, primaryCh, primaryDone, hedgeOut>>

\* The endpoint the attempt reports when both fail: the primary's, merged.
FailedEndpoint == hedgePick["primary"]

BothFailed ==
    /\ hedgePc = "race" /\ primaryDone /\ hedgeDone
    /\ HedgeReturn(FALSE, "bothFailed", FailedEndpoint)
    /\ UNCHANGED <<hedgePool, hedgeOver, hedgeArm, cands, hedgePick, res, primaryCh, hedgeCh, race>>

Race == PrimaryAnswers \/ GiveUpWaiting \/ Fire \/ RaceOver \/ RacePrimary
        \/ HedgeRuledOut \/ HedgeWins \/ HedgeFails \/ BothFailed

HedgeArmStep(a) == Select(a) \/ SelectNone(a) \/ RelayEnds(a) \/ HedgeReport(a)

HedgeNext == HedgeContextEnds \/ Race \/ \E a \in Arm : HedgeArmStep(a)

HedgeSpec == HedgeInit /\ [][HedgeNext]_hedgeVars

-----------------------------------------------------------------------------
Launched == {a \in Arm : hedgeArm[a] # "idle"}

\* The state stays well formed.
HedgeTypeOK ==
    /\ hedgePool \in Pools /\ hedgeOver \in BOOLEAN /\ hedgePc \in {"delay", "alone", "race", "done"}
    /\ hedgeArm \in [Arm -> {"idle", "running", "picked", "reporting", "gone"}]
    /\ cands \in [Arm -> SUBSET Endpoint] /\ hedgePick \in [Arm -> Endpoint \cup {None}]
    /\ res \in [Arm -> {"none", "ok", "failed", "ruledOut"}]
    /\ primaryCh \in {<<>>, <<"primary">>} /\ hedgeCh \in {<<>>, <<"hedge">>, <<"third">>}
    /\ {primaryDone, hedgeDone, rehedged} \subseteq BOOLEAN /\ hedgeCur \in {"hedge", "third"}
    /\ known \subseteq Endpoint
    /\ hedgeCur = "third" => rehedged /\ res["hedge"] = "failed"

\* hedge.go:34: an attempt that fails with its context alive failed on every
\* arm it launched, the third included; no arm that is still running, or
\* that succeeded, is given up on.
FailsOnlyWhenAllFailed ==
    hedgePc = "done" /\ ~hedgeOut.ok /\ hedgeOut.why \in {"bothFailed", "alone"} =>
        \A a \in Launched : res[a] \in {"failed", "ruledOut"}

\* The list holds a second endpoint.
HoldsAnother(es) == \E d, e \in es : d # e

\* hedge.go:136-148: the later arms go elsewhere: the hedge to another endpoint
\* than the one the primary had published, while the attempt's list holds
\* another (left with an empty list the hedge fetches the session's again and
\* may pick the same), the third arm to an operator none of the published picks
\* belongs to, and neither into endpoints far behind while the list holds a
\* fresh one.
ArmsGoElsewhere ==
    /\ hedgeCur = "hedge" /\ hedgePick["hedge"] # None /\ HoldsAnother(hedgePool) =>
           hedgePick["hedge"] \notin known
    /\ hedgePick["third"] # None => OperatorOf[hedgePick["third"]] \notin Operators(known)
    /\ \A a \in Launched \ {"primary"} : ~NarrowsIntoStale(cands[a], hedgePool, Behind)

\* hedge.go: a hedged attempt fails only when every arm it launched failed, and
\* no arm goes where another of its arms is known to be.
RacesFairly == HedgeTypeOK /\ FailsOnlyWhenAllFailed /\ ArmsGoElsewhere
=============================================================================
