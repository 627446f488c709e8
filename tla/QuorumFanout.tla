----------------------------- MODULE QuorumFanout -----------------------------
(***************************************************************************)
(* One quorum request in relay/middleware/quorum.go: an arm per operator,  *)
(* each running detached and reporting on a channel that holds them all,   *)
(* and the loop that counts votes as they arrive.  Two brands of one owner *)
(* are one voice.  In consensus mode the first answer with a majority is   *)
(* returned; otherwise every arm's result is.  No later stage empties an   *)
(* arm's list (circuit_break, method_blocks and select_endpoint each keep  *)
(* it rather), so an arm's answer comes from its own operator.             *)
(***************************************************************************)
EXTENDS Sage, Integers, FiniteSets, Sequences, SequencesExt

CONSTANTS
    Requested,      \* the counts a client may ask for (Target-Quorum-Count)
    VoteOperators,  \* how many operators the pool has
    PartyOf,        \* PartyOf[i]: who is behind the endpoint the i-th operator's arm
                    \* picks: an owner's two dedicated domains are one party
    Value           \* the answers, up to what answerDigest takes out

ASSUME QuorumAssumption ==
    Requested \subseteq Int /\ VoteOperators \in Nat \ {0} /\ None \notin Value

VARIABLES
    n,                                  \* arms launched: len(groups)
    mode,                               \* "consensus" or "collect"
    preset,                             \* a consensus on what is not immutable: collect_not_immutable
    voteOver,                           \* the request's context has ended
    voteArm,                            \* arm[i]: "running", "reporting" or "gone"
    val,                                \* val[i]: its answer; None when it failed
    results,                            \* the channel
    votePc,                             \* "enter", "wait", "after", "outcome" or "done"
    received, voteDone, voters, votes, answered, \* the loop's own
    voteOut                             \* what the request returned

loop == <<received, voteDone, voters, votes, answered>>
voteVars == <<n, mode, preset, voteOver, voteArm, val, results, votePc, loop, voteOut>>

Arms == 1..n

\* quorumSize: clamped to 3..9, an even count rounded down.
QuorumSize(c) ==
    LET clamped == IF c < 3 THEN 3 ELSE IF c > 9 THEN 9 ELSE c
    IN IF clamped % 2 = 0 THEN clamped - 1 ELSE clamped

\* topOperators: an even count above two drops the lowest-ranked operator.
VoteTake(c) ==
    LET size == QuorumSize(c)
        take == IF size < VoteOperators THEN size ELSE VoteOperators
    IN IF take > 2 /\ take % 2 = 0 THEN take - 1 ELSE take

Need == n \div 2 + 1

VoteInit ==
    /\ n = 0 /\ mode = "collect" /\ preset = FALSE
    /\ voteOver = FALSE /\ voteArm = <<>> /\ val = <<>>
    /\ results = <<>> /\ votePc = "enter" /\ received = 0 /\ voteDone = {} /\ voters = {}
    /\ votes = [v \in Value |-> {}] /\ answered = {} /\ voteOut = [kind |-> "none", value |-> None]

VoteReturn(kind, value) == votePc' = "done" /\ voteOut' = [kind |-> kind, value |-> value]

\* No quorum: no header or a skip (the plain chain), a mode that is none, or
\* no endpoint to send to.
PassBy ==
    /\ votePc = "enter"
    /\ \E kind \in {"plain", "rejected", "noEndpoint"} : VoteReturn(kind, None)
    /\ UNCHANGED <<n, mode, preset, voteOver, voteArm, val, results, loop>>

\* An arm per operator taken; consensus only on an immutable request.
VoteLaunch ==
    /\ votePc = "enter" /\ votePc' = "wait"
    /\ n' \in {VoteTake(c) : c \in Requested}
    /\ \E m \in {"consensus", "collect"}, immutable \in BOOLEAN :
         /\ mode' = IF immutable THEN m ELSE "collect"
         /\ preset' = (m = "consensus" /\ ~immutable)
    /\ voteArm' = [i \in 1..n' |-> "running"] /\ val' = [i \in 1..n' |-> None]
    /\ UNCHANGED <<voteOver, results, loop, voteOut>>

-----------------------------------------------------------------------------
\* An arm's relay ends: an answer, or an error.
ArmEnds(i) ==
    /\ voteArm[i] = "running"
    /\ voteArm' = [voteArm EXCEPT ![i] = "reporting"]
    /\ \E v \in Value \cup {None} : val' = [val EXCEPT ![i] = v]
    /\ UNCHANGED <<n, mode, preset, voteOver, results, votePc, loop, voteOut>>

\* The channel has a place for every arm.
VoteRoom == Len(results) < n

VoteReport(i) ==
    /\ voteArm[i] = "reporting" /\ VoteRoom
    /\ results' = Append(results, i)
    /\ voteArm' = [voteArm EXCEPT ![i] = "gone"]
    /\ UNCHANGED <<n, mode, preset, voteOver, val, votePc, loop, voteOut>>

VoteContextEnds ==
    /\ ~voteOver /\ votePc # "done" /\ voteOver' = TRUE
    /\ UNCHANGED <<n, mode, preset, voteArm, val, results, votePc, loop, voteOut>>

-----------------------------------------------------------------------------
\* Mutant: an arm's answer is a vote whoever is behind it.
IsVoteAnyone(i) == val[i] # None

\* The arm answered, and its party has not voted.
IsVote(i) == val[i] # None /\ PartyOf[i] \notin voters

\* The loop goes on until it has received from every arm.
WaitsOn == received < n

VoteReceive ==
    /\ votePc = "wait" /\ WaitsOn /\ results # <<>>
    /\ LET i == Head(results)
           counts == mode = "consensus" /\ IsVote(i)
           cast == IF counts THEN [votes EXCEPT ![val[i]] = @ \cup {i}] ELSE votes
       IN /\ results' = Tail(results) /\ received' = received + 1
          /\ voteDone' = voteDone \cup {i}
          /\ answered' = IF val[i] # None THEN answered \cup {i} ELSE answered
          /\ votes' = cast
          /\ voters' = IF counts THEN voters \cup {PartyOf[i]} ELSE voters
          /\ IF counts /\ Cardinality(cast[val[i]]) >= Need
             THEN VoteReturn("majority", val[i])
             ELSE UNCHANGED <<votePc, voteOut>>
    /\ UNCHANGED <<n, mode, preset, voteOver, voteArm, val>>

\* Every arm was received from, or the context ended.
LeaveLoop ==
    /\ votePc = "wait" /\ (~WaitsOn \/ voteOver)
    /\ votePc' = "after"
    /\ UNCHANGED <<n, mode, preset, voteOver, voteArm, val, results, loop, voteOut>>

\* Nobody answered and the context has ended: its error.
Fail ==
    /\ votePc = "after" /\ voteOver /\ answered = {} /\ VoteReturn("error", None)
    /\ UNCHANGED <<n, mode, preset, voteOver, voteArm, val, results, loop>>

GoOn ==
    /\ votePc = "after" /\ ~(voteOver /\ answered = {}) /\ votePc' = "outcome"
    /\ UNCHANGED <<n, mode, preset, voteOver, voteArm, val, results, loop, voteOut>>

\* The context is read again to name the outcome of the envelope of every
\* arm's result.
VoteCollect ==
    /\ votePc = "outcome"
    /\ VoteReturn(CASE preset -> "notImmutable"
                [] ~preset /\ voteOver -> "timeout"
                [] ~preset /\ ~voteOver /\ mode = "consensus" -> "noMajority"
                [] OTHER -> "collect", None)
    /\ UNCHANGED <<n, mode, preset, voteOver, voteArm, val, results, loop>>

Loop == VoteReceive \/ LeaveLoop \/ Fail \/ GoOn \/ VoteCollect
VoteArmStep(i) == ArmEnds(i) \/ VoteReport(i)

VoteNext == PassBy \/ VoteLaunch \/ VoteContextEnds \/ Loop \/ \E i \in Arms : VoteArmStep(i)

VoteSpec == VoteInit /\ [][VoteNext]_voteVars

-----------------------------------------------------------------------------
\* The state stays well formed; there are never four, six or eight arms.
VoteTypeOK ==
    /\ n \in {0, 1, 2, 3, 5, 7, 9} /\ n <= VoteOperators /\ (n = 0 => votePc \in {"enter", "done"})
    /\ preset \in BOOLEAN /\ mode \in {"consensus", "collect"}
    /\ voteOver \in BOOLEAN /\ votePc \in {"enter", "wait", "after", "outcome", "done"}
    /\ voteArm \in [Arms -> {"running", "reporting", "gone"}] /\ val \in [Arms -> Value \cup {None}]
    /\ received \in 0..n /\ voteDone \subseteq Arms /\ answered \subseteq voteDone
    /\ votes \in [Value -> SUBSET Arms] /\ Len(results) + received <= n
    /\ voteOut.kind \in {"none", "plain", "rejected", "noEndpoint", "majority", "error", "timeout",
                      "noMajority", "collect", "notImmutable"}

\* The parties that answered v and nothing else.
VoteBehind(v) == {p \in {PartyOf[i] : i \in Arms} : \A i \in Arms : PartyOf[i] = p => val[i] = v}

\* quorum.go:77, 82, 176: a majority is more independent parties giving one
\* answer than half of the arms, an owner's second brand adding nothing; a
\* consensus that reports no majority with the request still alive had none (no
\* answer was the only one of that many parties), and an envelope not put down
\* to the deadline has every arm's own result.
VoteIsRight ==
    /\ voteOut.kind = "majority" =>
           2 * Cardinality({PartyOf[i] : i \in {j \in Arms : val[j] = voteOut.value}}) > n
    /\ voteOut.kind = "noMajority" => \A v \in Value : 2 * Cardinality(VoteBehind(v)) <= n
    /\ voteOut.kind \in {"noMajority", "collect"} => voteDone = Arms

-----------------------------------------------------------------------------
(***************************************************************************)
(* topOperators of relay/middleware/quorum.go: one pass over the pool      *)
(* groups it by operator and keeps each operator's best score, taken over  *)
(* its vouched endpoints once it has one; the groups are then ranked.  The *)
(* pool comes in any order and a score may be missing.                     *)
(***************************************************************************)

CONSTANTS
    Operator,  \* operators by the order of their names: 1..k
    Score,     \* the scores reputation gives, naturals
    Size,      \* how many operators are wanted
    MaxPool    \* bound on the pool

ASSUME QuorumRankAssumption ==
    /\ Operator \subseteq Nat /\ IsFiniteSet(Operator) /\ Score \subseteq Nat
    /\ Size \in Nat \ {0} /\ MaxPool \in Nat

NoScore == -1

VARIABLES
    rankPool,  \* the endpoints taken so far: operator, score, vouched
    groups     \* groups[op]: whether vouched, and the best score; -1: none yet

rankVars == <<rankPool, groups>>

\* GetScore fails for an endpoint nothing has scored; only a scored one is
\* asked whether it is vouched for.
RankEndpoint == {e \in [op : Operator, score : Score \cup {NoScore}, vouched : BOOLEAN] :
               e.score = NoScore => ~e.vouched}
Grouped == DOMAIN groups

RankInit == rankPool = <<>> /\ groups = [op \in {} |-> 0]

NewGroup == [vouched |-> FALSE, best |-> NoScore]

\* Mutant: the first vouched endpoint does not put the unvouched best aside.
MergedMax(g, e) ==
    IF e.score = NoScore THEN g
    ELSE [vouched |-> g.vouched \/ e.vouched, best |-> IF e.score > g.best THEN e.score ELSE g.best]

\* One endpoint's score goes into its operator's group.
RankMerged(g, e) ==
    CASE e.score = NoScore -> g
      [] e.score # NoScore /\ e.vouched /\ ~g.vouched -> [vouched |-> TRUE, best |-> e.score]
      [] e.score # NoScore /\ e.vouched = g.vouched /\ e.score > g.best -> [g EXCEPT !.best = e.score]
      [] OTHER -> g

\* The operators with a group once e is taken.
Regrouped(e) == Grouped \cup {e.op}

AddEndpoint(e) ==
    /\ Len(rankPool) < MaxPool
    /\ rankPool' = Append(rankPool, e)
    /\ groups' = [op \in Regrouped(e) |->
                    IF op # e.op THEN groups[op]
                    ELSE RankMerged(IF op \in Grouped THEN groups[op] ELSE NewGroup, e)]

RankNext == \E e \in RankEndpoint : AddEndpoint(e)

RankSpec == RankInit /\ [][RankNext]_rankVars

-----------------------------------------------------------------------------
\* SortFunc's order: vouched first, then the best score, then the name.
Before(a, b) ==
    \/ groups[a].vouched /\ ~groups[b].vouched
    \/ /\ groups[a].vouched = groups[b].vouched
       /\ groups[a].best > groups[b].best \/ (groups[a].best = groups[b].best /\ a < b)

Ranking == SetToSortSeq(Grouped, Before)

\* How many are taken: an even count above two drops one.
RankTaken ==
    LET take == IF Size < Cardinality(Grouped) THEN Size ELSE Cardinality(Grouped)
    IN IF take > 2 /\ take % 2 = 0 THEN take - 1 ELSE take

RankTop == {Ranking[i] : i \in 1..RankTaken}

-----------------------------------------------------------------------------
Of(op) == {i \in DOMAIN rankPool : rankPool[i].op = op /\ rankPool[i].score # NoScore}
Measured(op) == {i \in Of(op) : rankPool[i].vouched}
Highest(I) ==
    IF I = {} THEN NoScore
    ELSE CHOOSE s \in {rankPool[i].score : i \in I} : \A i \in I : rankPool[i].score <= s

\* The state stays well formed and every operator of the pool has its group.
RankTypeOK ==
    /\ rankPool \in Seq(RankEndpoint) /\ Len(rankPool) <= MaxPool
    /\ groups \in [{rankPool[i].op : i \in DOMAIN rankPool} -> [vouched : BOOLEAN, best : Score \cup {NoScore}]]

\* quorum.go:70, 261, 290: whatever order the pool is in, an operator's best is
\* its highest vouched score when it has one and its highest score otherwise; an
\* operator with no vouched endpoint is taken only with every vouched one; and
\* with two operators or more one never answers alone.
RankingIsRight ==
    /\ \A op \in Grouped :
           groups[op] = [vouched |-> Measured(op) # {},
                         best |-> Highest(IF Measured(op) # {} THEN Measured(op) ELSE Of(op))]
    /\ \A a \in RankTop, b \in Grouped \ RankTop : Measured(a) = {} => Measured(b) = {}
    /\ Cardinality(Grouped) >= 2 => Cardinality(RankTop) >= 2
=============================================================================
