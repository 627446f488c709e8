------------------------------- MODULE WSGrades -------------------------------
(***************************************************************************)
(* How a WebSocket connection's suppliers are graded while the connection  *)
(* moves across them (protocol/shannon: ProcessEndpointMessage of          *)
(* ws_processor.go; frameSink, drainFrameEvents, handleEndpointFrame, the  *)
(* stall detector and the endpoint-lost handler of ws_relayer.go;          *)
(* ws_stale.go; ws_duplicates.go).                                         *)
(*                                                                         *)
(* The routing loop processes frames and hands them to a bounded queue; a  *)
(* second goroutine grades the queue; failed frames are graded by          *)
(* goroutines of their own; loss reports wait for the endpoint lock, and   *)
(* the first to get it moves the connection.  A report about a supplier    *)
(* already replaced does nothing.                                          *)
(***************************************************************************)
EXTENDS Sage, Naturals, Sequences, SequencesExt, FiniteSets, Functions

CONSTANTS
    WSSuppliers,    \* the suppliers, as the connection meets them
    FrameQueue,     \* wsFrameEventQueueSize
    StaleRun,       \* wsStaleHeadsToRebind
    MaxFrames,      \* bound on the frames each supplier sends
    MaxReports,     \* bound on the loss reports waiting at once
    MinNotes,       \* MinNotifications
    MinorAt,        \* repeats per note, in tenths: MaxShare and MajorShare
    MajorAt

ASSUME GradesAssumption ==
    /\ WSSuppliers # <<>> /\ IsInjective(WSSuppliers)
    /\ FrameQueue \in Nat \ {0} /\ StaleRun \in Nat \ {0} /\ MaxFrames \in Nat /\ MaxReports \in Nat
    /\ MinNotes \in Nat /\ MinorAt \in 0..10 /\ MajorAt \in 0..10

GradedEps == {WSSuppliers[i] : i \in DOMAIN WSSuppliers}

VARIABLES
    at,          \* the connection is on WSSuppliers[at]; past the end: closed
    frameQ,      \* frames to grade: [ep, kind]
    spawned,     \* failed frames being graded: [ep, n]
    reports,     \* losses reported and not handled: [gen, cause]
    staleHeads,  \* the run of stale heads on the current supplier
    notes, dups, \* this minute's notifications and repeats
    noAnswer,    \* the stall detector saw a request unanswered
    silentOnce,  \* suppliers that left a request unanswered in the window
    frames,      \* frames[e]: how many it sent
    faults,      \* faults[e]: charges it has earned
    charged,     \* charged[e]: charges recorded
    minor        \* minor[e]: how many of them minor

gradeVars == <<at, frameQ, spawned, reports, staleHeads, notes, dups, noAnswer, silentOnce, frames, faults,
               charged, minor>>

Here == WSSuppliers[at]
Bound == at \in DOMAIN WSSuppliers

\* CanRebind: a move is left.
CanMove == at < Len(WSSuppliers)

GradesInit ==
    /\ at = 1 /\ frameQ = <<>> /\ spawned = {} /\ reports = {}
    /\ staleHeads = 0 /\ notes = 0 /\ dups = 0 /\ noAnswer = FALSE /\ silentOnce = {}
    /\ frames = [e \in GradedEps |-> 0] /\ faults = [e \in GradedEps |-> 0]
    /\ charged = [e \in GradedEps |-> 0] /\ minor = [e \in GradedEps |-> 0]

Sends1 == Bound /\ frames[Here] < MaxFrames /\ frames' = [frames EXCEPT ![Here] = @ + 1]

Earn(n) == faults' = [faults EXCEPT ![Here] = @ + n]
Charge(e, n) == charged' = [charged EXCEPT ![e] = @ + n]

\* A loss of the current supplier is reported, for the endpoint lock.
Reported(cause) == reports' = reports \cup {[gen |-> at, cause |-> cause]}

\* frameSink: queued, dropped when the queue is full.
Sunk(kind) ==
    frameQ' = IF Len(frameQ) < FrameQueue THEN Append(frameQ, [ep |-> Here, kind |-> kind]) ELSE frameQ

Kept == Len(frameQ) < FrameQueue

-----------------------------------------------------------------------------
(* ProcessEndpointMessage.                                                 *)

\* The miner's own refusal: graded by nobody, the bridge is lost for it.
MinerRefuses ==
    /\ Sends1 /\ Sunk("control") /\ Reported("refusal")
    /\ UNCHANGED <<at, spawned, staleHeads, notes, dups, noAnswer, silentOnce, faults, charged, minor>>

\* A frame that fails validation is graded on its own, whatever the queue.
FrameInvalid ==
    /\ Sends1 /\ Earn(1) /\ spawned' = spawned \cup {[ep |-> Here, n |-> frames[Here]]}
    /\ Reported("processing")
    /\ UNCHANGED <<at, frameQ, staleHeads, notes, dups, noAnswer, silentOnce, charged, minor>>

\* A non-2xx status: forwarded or swallowed, never graded.
ControlFrame ==
    /\ Sends1 /\ Sunk("control")
    /\ UNCHANGED <<at, spawned, reports, staleHeads, notes, dups, noAnswer, silentOnce, faults, charged, minor>>

\* An answer with a head the chain has moved past: charged here, and asked
\* again elsewhere while a move is left.
StaleAnswer ==
    /\ Sends1 /\ Earn(1) /\ Charge(Here, 1)
    /\ IF CanMove THEN Reported("processing") ELSE UNCHANGED reports
    /\ UNCHANGED <<at, frameQ, spawned, staleHeads, notes, dups, noAnswer, silentOnce, minor>>

\* An answer the heuristic penalizes: charged when its turn in the queue
\* comes; one that is a rate limit is asked again elsewhere.
BadAnswer(limited) ==
    /\ Sends1 /\ Sunk("bad") /\ Earn(IF Kept THEN 1 ELSE 0)
    /\ IF limited /\ CanMove THEN Reported("processing") ELSE UNCHANGED reports
    /\ UNCHANGED <<at, spawned, staleHeads, notes, dups, noAnswer, silentOnce, charged, minor>>

\* Mutant: every head of a run past its length is charged.
RunAfterNoReset(stale) == IF stale THEN staleHeads + 1 ELSE 0

\* staleHead: the run a head leaves behind.
RunAfter(stale) == IF stale /\ staleHeads + 1 < StaleRun THEN staleHeads + 1 ELSE 0

\* The head ends a run.
EndsRun(stale) == stale /\ staleHeads + 1 >= StaleRun

\* A newHeads push, judged against the chain's head.
HeadPushed(stale) ==
    /\ Sends1 /\ Sunk("ok") /\ staleHeads' = RunAfter(stale)
    /\ IF EndsRun(stale)
       THEN /\ Charge(Here, 1) /\ Earn(1)
            /\ IF CanMove THEN Reported("processing") ELSE UNCHANGED reports
       ELSE UNCHANGED <<charged, faults, reports>>
    /\ UNCHANGED <<at, spawned, notes, dups, noAnswer, silentOnce, minor>>

\* A notification, a repeat or not: counted for the minute.
Notified(dup) ==
    /\ Sends1 /\ Sunk("ok")
    /\ notes' = notes + 1 /\ dups' = dups + IF dup THEN 1 ELSE 0
    /\ UNCHANGED <<at, spawned, reports, staleHeads, noAnswer, silentOnce, faults, charged, minor>>

\* What a minute of repeats costs: nothing, a minor or a major charge.
MinuteCharge(n, d) ==
    IF n < MinNotes \/ 10 * d <= MinorAt * n THEN "none"
    ELSE IF 10 * d > MajorAt * n THEN "major" ELSE "minor"

\* observe closes the minute with the first notification after it.
MinuteEnds(dup) ==
    LET n == notes + 1
        d == dups + IF dup THEN 1 ELSE 0
        c == MinuteCharge(n, d)
    IN
    /\ Sends1 /\ Sunk("ok") /\ notes' = 0 /\ dups' = 0
    /\ Charge(Here, IF c = "none" THEN 0 ELSE 1) /\ Earn(IF c = "none" THEN 0 ELSE 1)
    /\ minor' = [minor EXCEPT ![Here] = @ + IF c = "minor" THEN 1 ELSE 0]
    /\ UNCHANGED <<at, spawned, reports, staleHeads, noAnswer, silentOnce>>

-----------------------------------------------------------------------------
(* The graders.                                                            *)

\* drainFrameEvents, handleEndpointFrame: the oldest frame of the queue.
FrameGraded ==
    /\ frameQ # <<>> /\ frameQ' = Tail(frameQ)
    /\ Charge(Head(frameQ).ep, IF Head(frameQ).kind = "bad" THEN 1 ELSE 0)
    /\ UNCHANGED <<at, spawned, reports, staleHeads, notes, dups, noAnswer, silentOnce, frames, faults, minor>>

FailureGraded(f) ==
    /\ f \in spawned /\ spawned' = spawned \ {f} /\ Charge(f.ep, 1)
    /\ UNCHANGED <<at, frameQ, reports, staleHeads, notes, dups, noAnswer, silentOnce, frames, faults, minor>>

-----------------------------------------------------------------------------
(* Losses.                                                                 *)

\* The socket drops, the miner closes it with one of its codes, the session
\* ends or an operator asks.
Lost(cause) ==
    /\ Bound /\ Cardinality(reports) < MaxReports /\ Reported(cause)
    /\ UNCHANGED <<at, frameQ, spawned, staleHeads, notes, dups, noAnswer, silentOnce, frames, faults, charged, minor>>

\* The stall detector: a silent feed, or a request held past its timeout
\* while a move is left.
Stalls(unanswered) ==
    /\ Bound /\ (unanswered => CanMove) /\ Cardinality(reports) < MaxReports
    /\ noAnswer' = (noAnswer \/ unanswered) /\ Reported("stalled")
    /\ UNCHANGED <<at, frameQ, spawned, staleHeads, notes, dups, silentOnce, frames, faults, charged, minor>>

\* Mutant: a frame that failed to process is charged again as the loss.
LossIsSuppliersToo(cause) == cause \in {"socket", "stalled", "processing"}

\* lossIsSuppliers: not a planned move, not a refusal that is scored as
\* nothing, not a frame that was graded when it arrived.
LossIsSuppliers(cause) == cause \in {"socket", "stalled"}

\* The charge of a loss: an unanswered request is minor the first time.
LossCharge(e, cause) ==
    IF cause = "stalled" /\ noAnswer THEN (IF e \in silentOnce THEN "major" ELSE "minor")
    ELSE IF LossIsSuppliers(cause) THEN "major" ELSE "none"

\* What a loss earns, by what is known of it: a supplier that went silent or
\* dropped the socket has failed, anything else has or is being graded.
LossEarns(cause) == IF cause \in {"socket", "stalled"} THEN 1 ELSE 0

\* The endpoint-lost handler, of the report that gets the lock first; past
\* the last supplier the connection is closed.
MovesOn(r) ==
    LET c == LossCharge(Here, r.cause) IN
    /\ r \in reports /\ reports' = reports \ {r} /\ Bound /\ r.gen = at
    /\ Charge(Here, IF c = "none" THEN 0 ELSE 1)
    /\ faults' = [faults EXCEPT ![Here] = @ + LossEarns(r.cause)]
    /\ minor' = [minor EXCEPT ![Here] = @ + IF c = "minor" THEN 1 ELSE 0]
    /\ IF r.cause = "stalled" /\ noAnswer
       THEN noAnswer' = FALSE /\ silentOnce' = silentOnce \cup {Here}
       ELSE UNCHANGED <<noAnswer, silentOnce>>
    /\ at' = at + 1 /\ staleHeads' = 0 /\ notes' = 0 /\ dups' = 0
    /\ UNCHANGED <<frameQ, spawned, frames>>

\* A supplier already replaced.
ReportStale(r) ==
    /\ r \in reports /\ r.gen # at /\ reports' = reports \ {r}
    /\ UNCHANGED <<at, frameQ, spawned, staleHeads, notes, dups, noAnswer, silentOnce, frames, faults, charged, minor>>

GradesNext ==
    \/ MinerRefuses \/ FrameInvalid \/ ControlFrame \/ StaleAnswer
    \/ \E yes \in BOOLEAN : BadAnswer(yes) \/ HeadPushed(yes) \/ Notified(yes) \/ MinuteEnds(yes) \/ Stalls(yes)
    \/ FrameGraded \/ \E f \in spawned : FailureGraded(f)
    \/ \E cause \in {"socket", "refusal", "planned"} : Lost(cause)
    \/ \E r \in reports : MovesOn(r) \/ ReportStale(r)

GradesSpec == GradesInit /\ [][GradesNext]_gradeVars

-----------------------------------------------------------------------------
GradesTypeOK ==
    /\ at \in 1..(Len(WSSuppliers) + 1)
    /\ Len(frameQ) <= FrameQueue /\ staleHeads \in 0..(StaleRun - 1)
    /\ \A r \in reports : r.gen <= at
    /\ \A e \in GradedEps : minor[e] <= charged[e]

\* Charges under way against e.
ChargesDue(e) ==
    Cardinality({f \in spawned : f.ep = e})
      + Cardinality({i \in DOMAIN frameQ : frameQ[i].ep = e /\ frameQ[i].kind = "bad"})

\* Each fault is charged once and to the supplier whose it is, whichever of
\* the queue, the failed frame's goroutine, the stale run, the minute and the
\* loss handler meets it first and wherever the connection is by then
\* (lossIsSuppliers: the loss a bad frame causes is the same fault).
FaultsChargedOnce == \A e \in GradedEps : charged[e] + ChargesDue(e) = faults[e]

-----------------------------------------------------------------------------
(***************************************************************************)
(* The head tracker of protocol/shannon/ws_heads.go for one service: which *)
(* operator pushed which hash for which block, the blocks judged by        *)
(* majority once the newest head is far enough past them, and the blocks   *)
(* forgotten.  Several connections of an operator push the same heads.     *)
(***************************************************************************)

CONSTANTS
    Pushers,        \* operators
    Hashes,
    FinalizeDepth,  \* wsHeadFinalizeDepth
    HeadKeep,       \* wsHeadKeepDepth
    MaxHead,        \* bound on the block numbers pushed
    ChainTop        \* bound on the service's consensus head

ASSUME HeadsAssumption == FinalizeDepth \in Nat /\ HeadKeep \in Nat /\ MaxHead \in Nat /\ ChainTop \in Nat

VARIABLES
    newest,     \* wsServiceHeads.max
    blocks,     \* blocks[n]: [by: operator -> hash, order: the hashes, judged]
    consensus,  \* the service's consensus head, 0 while unknown
    mismatched  \* the pushers judged wrong: [op, n, hash, by]

headVars == <<newest, blocks, consensus, mismatched>>

HeadsInit == newest = 0 /\ blocks = [n \in {} |-> 0] /\ consensus = 0 /\ mismatched = {}

\* The chain moves, or becomes known.
ConsensusMoves == consensus < ChainTop /\ consensus' = consensus + 1 /\ UNCHANGED <<newest, blocks, mismatched>>

\* Far past the service's consensus: not a reading.
FarPast(n) == consensus > 0 /\ n > consensus + HeadKeep

\* Too old to hold.
TooOld(n) == n \notin DOMAIN blocks /\ newest > HeadKeep /\ n < newest - HeadKeep

Backers(b, h) == {p \in DOMAIN b.by : b.by[p] = h}

\* Mutant: the first hash pushed is the block's.
WinnerFirst(b) == b.order[1]

\* The hash with the most operators behind it, the earliest on a tie.
Winner(b) ==
    b.order[CHOOSE i \in DOMAIN b.order :
                \A j \in DOMAIN b.order :
                    LET x == Cardinality(Backers(b, b.order[i]))
                        y == Cardinality(Backers(b, b.order[j]))
                    IN x > y \/ (x = y /\ i <= j)]

\* settle, with the newest head at m: blocks past the keep depth are
\* forgotten, those past the finalize depth judged.
HeldBlocks(bs, m) == Restrict(bs, {n \in DOMAIN bs : ~(m >= HeadKeep /\ n < m - HeadKeep)})

DueBlocks(bs, m) == {n \in DOMAIN HeldBlocks(bs, m) : ~bs[n].judged /\ n + FinalizeDepth <= m}

Wrong(bs, m) ==
    UNION {{[op |-> p, n |-> n, hash |-> bs[n].by[p], by |-> bs[n].by] :
                p \in {q \in DOMAIN bs[n].by : bs[n].by[q] # Winner(bs[n])}} : n \in DueBlocks(bs, m)}

Settled(bs, m) == [n \in DOMAIN HeldBlocks(bs, m) |-> [bs[n] EXCEPT !.judged = @ \/ n \in DueBlocks(bs, m)]]

\* The block with operator p's push added.
Pushed(p, n, h) ==
    LET b == IF n \in DOMAIN blocks THEN blocks[n]
             ELSE [by |-> [q \in {} |-> h], order |-> <<>>, judged |-> FALSE]
    IN [by |-> [q \in DOMAIN b.by \cup {p} |-> IF q = p THEN h ELSE b.by[q]],
        order |-> IF Contains(b.order, h) THEN b.order ELSE Append(b.order, h),
        judged |-> b.judged]

\* observe: a far or an old head changes nothing, nor does an operator's
\* repeat of a block it already pushed.
Observe(p, n, h) ==
    LET bs == [m \in DOMAIN blocks \cup {n} |-> IF m = n THEN Pushed(p, n, h) ELSE blocks[m]]
    IN
    /\ ~FarPast(n) /\ ~TooOld(n)
    /\ n \in DOMAIN blocks => p \notin DOMAIN blocks[n].by
    /\ IF n > newest
       THEN newest' = n /\ blocks' = Settled(bs, n) /\ mismatched' = mismatched \cup Wrong(bs, n)
       ELSE blocks' = bs /\ UNCHANGED <<newest, mismatched>>
    /\ UNCHANGED consensus

HeadsNext ==
    \/ ConsensusMoves
    \/ \E p \in Pushers, n \in 1..MaxHead, h \in Hashes : Observe(p, n, h)

-----------------------------------------------------------------------------
HeadsTypeOK ==
    /\ newest \in 0..MaxHead /\ DOMAIN blocks \subseteq 1..MaxHead
    /\ \A n \in DOMAIN blocks : ToSet(blocks[n].order) = Range(blocks[n].by)

\* Only an operator outvoted on a block is counted wrong on it: as many had
\* pushed another hash, and it was never counted with the hash most pushed,
\* however its push raced the judging and the forgetting; and no operator is
\* counted twice on a block, whoever repeats what.
OutvotedOnly ==
    /\ \A w \in mismatched :
          \E h \in Hashes \ {w.hash} :
              Cardinality({p \in DOMAIN w.by : w.by[p] = h}) >= Cardinality({p \in DOMAIN w.by : w.by[p] = w.hash})
    /\ \A w1, w2 \in mismatched : w1.op = w2.op /\ w1.n = w2.n => w1 = w2

-----------------------------------------------------------------------------
(***************************************************************************)
(* The WebSocket recovery probes of protocol/shannon/ws_probe.go: each     *)
(* cycle dials the lowest-scoring URLs that are below full score and due,  *)
(* a bounded number of them, grades what they answer and backs off from    *)
(* the ones that fail.                                                     *)
(*                                                                         *)
(* Time is in cycles (wsProbeInterval).  How a URL answers is fixed; a     *)
(* probe may also find no session to sign for.                             *)
(***************************************************************************)

CONSTANTS
    URLs,           \* probed URLs, one service
    Nature,         \* Nature[u]: "ok", "other_dialect", "refused" or a failure
    ProbePerCycle,  \* wsProbeMaxPerCycle
    MaxShift,       \* the backoff stops doubling here (5)
    FullScore,      \* abstract scores 0..FullScore
    MaxUnresolved   \* bound: probes in a row that find nothing to sign for

ASSUME ProbesAssumption ==
    /\ ProbePerCycle \in Nat \ {0} /\ MaxShift \in Nat /\ FullScore \in Nat /\ MaxUnresolved \in Nat

VARIABLES
    wsScore,    \* wsScore[u]: its own score
    wait,       \* wait[u]: cycles until it is due, 0 when due
    fails,      \* fails[u]: consecutive failures
    todo,       \* the cycle's targets still to be probed
    unresolved, \* unresolved[u]: probes in a row that graded nothing
    gap         \* gap[u]: cycles since u last failed a probe, up to the cap

probeVars == <<wsScore, wait, fails, todo, unresolved, gap>>

Cap == 2 ^ MaxShift

ProbesInit ==
    /\ wsScore = [u \in URLs |-> FullScore] /\ wait = [u \in URLs |-> 0]
    /\ fails = [u \in URLs |-> 0] /\ todo = {}
    /\ unresolved = [u \in URLs |-> 0] /\ gap = [u \in URLs |-> Cap]

\* probeTargets: below full score and due.
Targets(left) == {u \in URLs : wsScore[u] < FullScore /\ left[u] = 0}

\* The cap keeps the lowest scores.
LowestFirst(sel, all) == \A u \in sel, v \in all \ sel : wsScore[u] <= wsScore[v]

\* A cycle begins when the one before has ended: probeCycle.
ProbeCycle ==
    LET left == [u \in URLs |-> IF wait[u] > 0 THEN wait[u] - 1 ELSE 0]
        due == Targets(left)
    IN /\ todo = {} /\ wait' = left
       /\ gap' = [u \in URLs |-> IF gap[u] < Cap THEN gap[u] + 1 ELSE Cap]
       /\ \E sel \in kSubset(IF Cardinality(due) < ProbePerCycle THEN Cardinality(due) ELSE ProbePerCycle, due) :
             LowestFirst(sel, due) /\ todo' = sel
       /\ UNCHANGED <<wsScore, fails, unresolved>>

Failed(result) == result \notin {"ok", "other_dialect"}

\* Mutant: the backoff keeps doubling from the first failure's length.
WaitFlat(n) == 1

\* record: how long after this many failures in a row.
Wait(n) == 2 ^ (IF n < MaxShift THEN n ELSE MaxShift)

\* probeEndpoint with a graded or a refused result.
ProbeOne(u) ==
    /\ u \in todo /\ todo' = todo \ {u}
    /\ IF Failed(Nature[u])
       THEN /\ wait' = [wait EXCEPT ![u] = Wait(fails[u])]
            /\ fails' = [fails EXCEPT ![u] = IF @ <= MaxShift THEN @ + 1 ELSE @]
            /\ gap' = [gap EXCEPT ![u] = 0]
       ELSE wait' = [wait EXCEPT ![u] = 0] /\ fails' = [fails EXCEPT ![u] = 0] /\ UNCHANGED gap
    /\ wsScore' = [wsScore EXCEPT ![u] =
          CASE Nature[u] = "refused" -> @
            [] Failed(Nature[u]) -> IF @ > 0 THEN @ - 1 ELSE 0
            [] OTHER -> IF @ < FullScore THEN @ + 1 ELSE @]
    /\ unresolved' = [unresolved EXCEPT ![u] = 0]

\* ... with no session, URL or app to sign with: nothing is recorded.
Unresolved(u) ==
    /\ u \in todo /\ todo' = todo \ {u} /\ unresolved[u] < MaxUnresolved
    /\ unresolved' = [unresolved EXCEPT ![u] = @ + 1]
    /\ UNCHANGED <<wsScore, wait, fails, gap>>

\* A connection's failure lowers a score: the only other thing that moves one.
ConnectionFails(u) ==
    /\ wsScore[u] = FullScore /\ wsScore' = [wsScore EXCEPT ![u] = 0]
    /\ UNCHANGED <<wait, fails, todo, unresolved, gap>>

ProbesNext ==
    \/ ProbeCycle
    \/ \E u \in URLs : ProbeOne(u) \/ Unresolved(u) \/ ConnectionFails(u)

\* The ticker keeps ticking, and every target of a cycle is worked off.
ProbesFairness == WF_probeVars(ProbeCycle) /\ \A u \in URLs : WF_probeVars(ProbeOne(u) \/ Unresolved(u))

ProbesSpec == ProbesInit /\ [][ProbesNext]_probeVars /\ ProbesFairness

-----------------------------------------------------------------------------
ProbesTypeOK ==
    /\ \A u \in URLs : wsScore[u] \in 0..FullScore /\ wait[u] \in 0..Cap /\ fails[u] \in 0..MaxShift + 1
    /\ Cardinality(todo) <= ProbePerCycle

\* A URL that keeps failing is left alone longer each time, whatever else
\* the cycles hold: it is dialled again no sooner than twice the wait before,
\* up to the cap, and refusing is no way around it (probeBackoff).
BacksOff == [][\A u \in URLs : (u \in todo' /\ u \notin todo /\ fails[u] > 0) => gap'[u] >= Wait(fails[u] - 1)]_probeVars

\* No key stays demoted because nothing tries it: a key below full score is
\* probed with a graded result again and again until it is back, also while
\* lower ones that never recover compete for the cycle's slots.
EveryKeyRecovers ==
    \A u \in URLs : Nature[u] \in {"ok", "other_dialect"} => []<>(wsScore[u] = FullScore)
=============================================================================
