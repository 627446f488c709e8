------------------------------- MODULE MCAttempts -------------------------------
(***************************************************************************)
(* The relays one request becomes: coalesced, hedged, retried, sent to a   *)
(* quorum (its ranking and its vote) or split into a batch (its dispatch   *)
(* and the budget batches share).  The middlewares share no state, so each *)
(* is explored with the others at rest: part says which.  MCSpec is for    *)
(* safety; EndsSpec adds what makes a relay end.                           *)
(***************************************************************************)
EXTENDS Singleflight, Hedge, Retry, QuorumFanout, Batch, TLC

CONSTANTS Parts, e1, e2, e3, e4, r1, r2, r3

VARIABLE part

\* e1 and e2 are one operator's; e3 and e4 are two others.
MCOperatorOf == (e1 :> "a" @@ e2 :> "a" @@ e3 :> "b" @@ e4 :> "c")
MCPools == {{e1, e2, e3, e4}, {e1, e3}, {e1, e2}, {e1, e4}, {e1}}
EndPools == {{e1, e3, e4}, {e1}}

\* Everybody is vouched for and fresh; or the vouched, the stale and those
\* with the history asked for differ.
Healthy == [vouched |-> Endpoint, behind |-> {}, retaining |-> {}]
MCViews == {Healthy} \cup [vouched : {{e1}, {e2, e3}}, behind : {{}, {e2, e3}, {e4}}, retaining : {{e2}}]
EndViews == {Healthy}

\* The first and the third operator are two brands of one owner.
MCPartyOf == <<"p", "q", "p", "r", "s", "t">>
MCLimits == <<2, 1>>

mcVars == <<part, flightVars, hedgeVars, retryVars, voteVars, rankVars, batchVars, budgetVars>>

InFlight == part = "flight" /\ UNCHANGED <<part, hedgeVars, retryVars, voteVars, rankVars, batchVars, budgetVars>>
InHedge == part = "hedge" /\ UNCHANGED <<part, flightVars, retryVars, voteVars, rankVars, batchVars, budgetVars>>
InRetry == part = "retry" /\ UNCHANGED <<part, flightVars, hedgeVars, voteVars, rankVars, batchVars, budgetVars>>
InVote == part = "vote" /\ UNCHANGED <<part, flightVars, hedgeVars, retryVars, rankVars, batchVars, budgetVars>>
InRank == part = "rank" /\ UNCHANGED <<part, flightVars, hedgeVars, retryVars, voteVars, batchVars, budgetVars>>
InBatch == part = "batch" /\ UNCHANGED <<part, flightVars, hedgeVars, retryVars, voteVars, rankVars, budgetVars>>
InBudget == part = "budget" /\ UNCHANGED <<part, flightVars, hedgeVars, retryVars, voteVars, rankVars, batchVars>>

MCInit ==
    /\ part \in Parts
    /\ FlightInit /\ HedgeInit /\ RetryInit /\ VoteInit /\ RankInit /\ BatchInit /\ BudgetInit
    /\ part # "hedge" => hedgePool = Endpoint
    /\ part # "retry" => view = Healthy
    /\ part # "batch" => streaming /\ others = 0

MCNext ==
    \/ InFlight /\ FlightNext
    \/ InHedge /\ HedgeNext
    \/ InRetry /\ RetryNext
    \/ InVote /\ VoteNext
    \/ InRank /\ RankNext
    \/ InBatch /\ BatchNext
    \/ InBudget /\ BudgetNext

MCSpec == MCInit /\ [][MCNext]_mcVars

-----------------------------------------------------------------------------
(* What makes a relay end: a goroutine that can run does, and every relay, *)
(* which has a deadline, ends.  Nothing is assumed of clients.  As one     *)
(* component is in play in a behaviour, one fairness formula serves a      *)
(* goroutine of each.                                                      *)

\* A request of a flight runs on and the flight lands.
FlightGoroutine(i) ==
    i \in 1..3 /\ LET r == <<r1, r2, r3>>[i] IN Land(r) \/ GoAgain(r) \/ TakeFlight(r)

\* The race takes what is there, its delay elapses; the arms run.
HedgeGoroutine(i) ==
    (i = 1 /\ Race) \/ (i \in 2..4 /\ HedgeArmStep(<<"primary", "hedge", "third">>[i - 1]))

\* The same of a quorum's loop and its arms.
VoteGoroutine(i) ==
    (i = 1 /\ (PassBy \/ VoteLaunch \/ Loop)) \/ (i - 1 \in Arms /\ VoteArmStep(i - 1))

\* The batch's goroutines run and its request has a deadline.
BatchGoroutine(i) ==
    \/ i = 1 /\ BatchCollect
    \/ i = 2 /\ Dispatch
    \/ i = 3 /\ RequestEnds
    \/ i \in 4..(3 + N) /\ SubStep(i - 3)

Runs(i) ==
    \/ part = "flight" /\ FlightGoroutine(i) /\ InFlight
    \/ part = "hedge" /\ HedgeGoroutine(i) /\ InHedge
    \/ part = "vote" /\ VoteGoroutine(i) /\ InVote
    \/ part = "batch" /\ BatchGoroutine(i) /\ InBatch

EndsSpec == MCSpec /\ \A i \in 1..6 : WF_mcVars(Runs(i))

-----------------------------------------------------------------------------
\* relay/middleware/quorum.go:197, :334: what is delivered is what the parties
\* asked agree on, and they are the best ranked, one operator each.
QuorumIsRight ==
    /\ part = "vote" => VoteTypeOK /\ VoteIsRight
    /\ part = "rank" => RankTypeOK /\ RankingIsRight

\* relay/middleware/batch.go:89, :181, :313: every payload is answered in its
\* place or the batch falls back, what is held stays within the window and the
\* semaphores, and all batches share one budget.
BatchesHold ==
    /\ part = "batch" => BatchTypeOK /\ AnsweredUnlessFallback /\ HoldsWithinBounds
    /\ part = "budget" => CeilingHolds

\* singleflight.go, hedge.go, quorum.go, batch.go: HandleRelay returns.  A
\* follower never waits for a flight that is gone; every arm a hedge or a quorum
\* launched ends, those left behind by an early winner or majority included,
\* none blocked for ever on a channel nobody reads; neither the semaphores, the
\* window nor an abandoned stream keeps a batch's collector.
RelaysReturn ==
    /\ \A r \in Request : flightPc[r] # "new" ~> flightPc[r] = "answered"
    /\ part = "hedge" => <>(hedgePc = "done") /\ <>[](\A a \in Launched : hedgeArm[a] = "gone")
    /\ part = "vote" => <>(votePc = "done") /\ <>[](\A i \in Arms : voteArm[i] = "gone")
    /\ part = "batch" => <>(collector = "returned")
=============================================================================
