-------------------------------- MODULE Batch ---------------------------------
(***************************************************************************)
(* One batch request in relay/middleware/batch.go: the dispatcher that     *)
(* takes a window, a local and a global slot for each payload before it    *)
(* starts the payload's sub-relay, the sub-relays, and the collector that  *)
(* writes the answers in order as they come in.  Every channel operation   *)
(* is a step; the other batches hold global slots of their own.            *)
(***************************************************************************)
EXTENDS Integers, FiniteSets, Sequences, FiniteSetsExt

CONSTANTS
    N,            \* payloads in the batch
    Global,       \* max_concurrent_relays; 0: no bound
    PerBatch,     \* max_batch_concurrency; 0: no bound
    BatchWindow   \* max_batch_window; negative: no window

ASSUME BatchAssumption ==
    N \in Nat /\ N > 1 /\ Global \in Nat /\ PerBatch \in Nat /\ BatchWindow \in Int

Items == 1..N

VARIABLES
    streaming,                \* whether the writer takes the body in pieces
    others,                   \* global slots other batches hold
    batchOver,                \* the request's context: "no", "deadline" or "canceled"
    cancelled,                \* cancelBatch was called
    batchAt,                  \* the dispatcher's payload
    want,                     \* the slot it wants next for it
    step,                     \* where it is in acquire
    window, local, batchSem,  \* slots this batch holds
    sub,                      \* sub[i]: the sub-relay
    result,                   \* result[i]
    ready,                    \* items sent on ready and not received
    batchDone,                \* items received
    nextOut,                  \* the next item to write
    batchOut,                 \* out[i]: what was written for item i
    abandoned,
    bytes,                    \* the items whose answers count in the gauge
    collector                 \* "open", "collect" or "returned"

batchVars == <<streaming, others, batchOver, cancelled, batchAt, want, step, window, local, batchSem, sub, result, ready, batchDone,
          nextOut, batchOut, abandoned, bytes, collector>>

HasWindow == streaming /\ PerBatch > 0 /\ BatchWindow >= 0
HasLocal == PerBatch > 0 /\ N > PerBatch
HasGlobal == Global > 0

Over == batchOver # "no" \/ cancelled

BatchInit ==
    /\ streaming \in BOOLEAN /\ others \in 0..Global /\ batchOver = "no" /\ cancelled = FALSE
    /\ batchAt = 1 /\ want = "window" /\ step = "check" /\ window = 0 /\ local = 0 /\ batchSem = 0
    /\ sub = [i \in Items |-> "new"] /\ result = [i \in Items |-> "nil"]
    /\ ready = {} /\ batchDone = {} /\ nextOut = 1 /\ batchOut = [i \in Items |-> "unwritten"]
    /\ abandoned = FALSE /\ bytes = {} /\ collector = "open"

-----------------------------------------------------------------------------
(* The rest of the process: other batches, the request's context.          *)

OthersMove ==
    /\ \/ others + batchSem < Global /\ others' = others + 1
       \/ others > 0 /\ others' = others - 1
    /\ UNCHANGED <<streaming, batchOver, cancelled, batchAt, want, step, window, local, batchSem, sub, result, ready,
                   batchDone, nextOut, batchOut, abandoned, bytes, collector>>

RequestEnds ==
    /\ batchOver = "no" /\ batchOver' \in {"deadline", "canceled"}
    /\ UNCHANGED <<streaming, others, cancelled, batchAt, want, step, window, local, batchSem, sub, result, ready, batchDone,
                   nextOut, batchOut, abandoned, bytes, collector>>

-----------------------------------------------------------------------------
(* The dispatcher.                                                         *)

undispatched == <<batchOver, cancelled, sub, result, ready, batchDone, nextOut, batchOut, abandoned, bytes,
                  collector, others, streaming>>

\* acquire's look at the context before its select.
PassesErrCheck == ~Over

\* A semaphore that is not there is acquired at once.
Absent(s) ==
    \/ s = "window" /\ ~HasWindow
    \/ s = "local" /\ ~HasLocal
    \/ s = "global" /\ ~HasGlobal

After(s) == IF s = "window" THEN "local" ELSE IF s = "local" THEN "global" ELSE "start"

\* acquire begins: skipped, refused, or on to its select.
Acquire ==
    /\ batchAt <= N /\ step = "check" /\ want # "start"
    /\ IF Absent(want) THEN want' = After(want) /\ UNCHANGED step
       ELSE step' = (IF PassesErrCheck THEN "select" ELSE "refused") /\ UNCHANGED want
    /\ UNCHANGED <<batchAt, window, local, batchSem>> /\ UNCHANGED undispatched

\* The select takes a slot.
BatchTake ==
    /\ step = "select" /\ step' = "check" /\ want' = After(want)
    /\ \/ want = "window" /\ window < PerBatch + BatchWindow /\ window' = window + 1
          /\ UNCHANGED <<local, batchSem>>
       \/ want = "local" /\ local < PerBatch /\ local' = local + 1 /\ UNCHANGED <<window, batchSem>>
       \/ want = "global" /\ others + batchSem < Global /\ batchSem' = batchSem + 1
          /\ UNCHANGED <<window, local>>
    /\ UNCHANGED batchAt /\ UNCHANGED undispatched

\* Or the context's end.
SelectDone ==
    /\ step = "select" /\ Over /\ step' = "refused"
    /\ UNCHANGED <<batchAt, want, window, local, batchSem>> /\ UNCHANGED undispatched

\* The sub-relay's goroutine starts.
BatchStart ==
    /\ want = "start" /\ sub' = [sub EXCEPT ![batchAt] = "running"]
    /\ batchAt' = batchAt + 1 /\ want' = "window"
    /\ UNCHANGED <<batchOver, cancelled, step, window, local, batchSem, result, ready, batchDone, nextOut, batchOut,
                   abandoned, bytes, collector, others, streaming>>

\* Mutant: nothing is given back.
GivesNothingBack == UNCHANGED <<window, local>>

\* Mutant: a local slot is given back whether or not one was taken.
GivesBackUntaken ==
    /\ local' = (IF HasLocal THEN local - 1 ELSE local)
    /\ window' = (IF want # "window" /\ HasWindow THEN window - 1 ELSE window)

\* gotLocal and gotWindow: refused at the global slot, or past the window.
GivesBack ==
    /\ local' = (IF want = "global" /\ HasLocal THEN local - 1 ELSE local)
    /\ window' = (IF want # "window" /\ HasWindow THEN window - 1 ELSE window)

\* The payloads answered without having been started.
AnswersRest == batchAt..N

\* Not acquired: what was taken goes back, and everything left is answered.
Refuse ==
    /\ step = "refused" /\ GivesBack
    /\ result' = [i \in Items |-> IF i \in AnswersRest THEN "notStarted" ELSE result[i]]
    /\ ready' = ready \cup AnswersRest
    /\ step' = "returned" /\ batchAt' = N + 1
    /\ UNCHANGED <<want, batchOver, cancelled, batchSem, sub, batchDone, nextOut, batchOut, abandoned, bytes, collector,
                   others, streaming>>

-----------------------------------------------------------------------------
(* The sub-relays.                                                         *)

\* The relay is answered, with JSON or not, or fails, which counts in no gauge.
SubEnds(i) ==
    /\ sub[i] = "running" /\ sub' = [sub EXCEPT ![i] = "ended"]
    /\ \E r \in {"answer", "notJSON", "error"} :
          /\ result' = [result EXCEPT ![i] = r]
          /\ bytes' = IF r = "error" THEN bytes ELSE bytes \cup {i}
    /\ UNCHANGED <<streaming, others, batchOver, cancelled, batchAt, want, step, window, local, batchSem, ready, batchDone, nextOut,
                   batchOut, abandoned, collector>>

\* The deferred release.
SubReleases(i) ==
    /\ sub[i] = "ended" /\ sub' = [sub EXCEPT ![i] = "released"]
    /\ batchSem' = (IF HasGlobal THEN batchSem - 1 ELSE batchSem)
    /\ local' = (IF HasLocal THEN local - 1 ELSE local)
    /\ UNCHANGED <<streaming, others, batchOver, cancelled, batchAt, want, step, window, result, ready, batchDone, nextOut, batchOut,
                   abandoned, bytes, collector>>

\* Mutant: ready is told when the relay starts.
ReadyEarly(i) == sub[i] = "running"

ReadyAfter(i) == sub[i] = "released"

SubReady(i) ==
    /\ ReadyAfter(i) /\ i \notin ready \cup batchDone
    /\ ready' = ready \cup {i}
    /\ UNCHANGED <<streaming, others, batchOver, cancelled, batchAt, want, step, window, local, batchSem, sub, result, batchDone,
                   nextOut, batchOut, abandoned, bytes, collector>>

-----------------------------------------------------------------------------
(* The collector.                                                          *)

\* The opening bracket, which the client may be gone for.
Open ==
    /\ collector = "open" /\ collector' = "collect"
    /\ \E gone \in {FALSE, streaming} :
          abandoned' = gone /\ cancelled' = (cancelled \/ gone)
    /\ UNCHANGED <<streaming, others, batchOver, batchAt, want, step, window, local, batchSem, sub, result, ready, batchDone, nextOut,
                   batchOut, bytes>>

Pending == nextOut <= N /\ nextOut \in batchDone

BatchReceive ==
    /\ collector = "collect" /\ ~Pending
    /\ \E i \in ready : ready' = ready \ {i} /\ batchDone' = batchDone \cup {i}
    /\ UNCHANGED <<streaming, others, batchOver, cancelled, batchAt, want, step, window, local, batchSem, sub, result, nextOut,
                   batchOut, abandoned, bytes, collector>>

\* An answer that is not JSON becomes an error with the item's id.
Rendered(r) == IF r = "notJSON" THEN "error" ELSE r

\* The next item in order is written, or skipped once the client is gone;
\* either way it is released.
WriteNext ==
    /\ collector = "collect" /\ streaming /\ Pending
    /\ \E fails \in BOOLEAN :
          LET left == abandoned \/ batchOver = "canceled" IN
          /\ abandoned' = (left \/ fails) /\ cancelled' = (cancelled \/ left \/ fails)
          /\ batchOut' = [batchOut EXCEPT ![nextOut] = IF left \/ fails THEN @ ELSE Rendered(result[nextOut])]
    /\ result' = [result EXCEPT ![nextOut] = "freed"]
    /\ bytes' = bytes \ {nextOut}
    /\ window' = (IF HasWindow /\ sub[nextOut] # "new" THEN window - 1 ELSE window)
    /\ nextOut' = nextOut + 1
    /\ UNCHANGED <<streaming, others, batchOver, batchAt, want, step, local, batchSem, sub, ready, batchDone, collector>>

\* Unstreamed, it is only counted.
Count ==
    /\ collector = "collect" /\ ~streaming /\ Pending /\ nextOut' = nextOut + 1
    /\ UNCHANGED <<streaming, others, batchOver, cancelled, batchAt, want, step, window, local, batchSem, sub, result, ready,
                   batchDone, batchOut, abandoned, bytes, collector>>

\* mergeBatch: one answer that is not JSON and the whole body is the fallback.
BatchMerged == IF \E i \in Items : result[i] = "notJSON" THEN [i \in Items |-> "fallback"] ELSE result

\* Every item is in: the merge when unstreamed, and the deferred release.
BatchReturn ==
    /\ collector = "collect" /\ nextOut > N
    /\ batchOut' = IF streaming THEN batchOut ELSE BatchMerged
    /\ bytes' = {} /\ cancelled' = TRUE /\ collector' = "returned"
    /\ UNCHANGED <<streaming, others, batchOver, batchAt, want, step, window, local, batchSem, sub, result, ready, batchDone, nextOut,
                   abandoned>>

-----------------------------------------------------------------------------
Dispatch == Acquire \/ BatchTake \/ SelectDone \/ BatchStart \/ Refuse

BatchCollect == Open \/ BatchReceive \/ WriteNext \/ Count \/ BatchReturn

SubStep(i) == SubEnds(i) \/ SubReleases(i) \/ SubReady(i)

BatchNext == OthersMove \/ RequestEnds \/ Dispatch \/ BatchCollect \/ \E i \in Items : SubStep(i)

BatchSpec == BatchInit /\ [][BatchNext]_batchVars

-----------------------------------------------------------------------------
\* The state stays well formed and no semaphore is over its capacity.
BatchTypeOK ==
    /\ streaming \in BOOLEAN /\ others \in 0..Global /\ batchOver \in {"no", "deadline", "canceled"} /\ cancelled \in BOOLEAN
    /\ batchAt \in 1..(N + 1) /\ window \in 0..N /\ local \in 0..PerBatch
    /\ batchSem \in 0..Global /\ others + batchSem <= Global
    /\ want \in {"window", "local", "global", "start"}
    /\ step \in {"check", "select", "refused", "returned"}
    /\ sub \in [Items -> {"new", "running", "ended", "released"}]
    /\ result \in [Items -> {"nil", "answer", "notJSON", "error", "notStarted", "freed"}]
    /\ ready \subseteq Items /\ batchDone \subseteq Items /\ nextOut \in 1..(N + 1)
    /\ batchOut \in [Items -> {"unwritten", "nil", "answer", "error", "notStarted", "freed", "fallback"}]
    /\ abandoned \in BOOLEAN /\ bytes \subseteq Items /\ collector \in {"open", "collect", "returned"}

\* batch.go:29: every payload is answered with a response object of its own:
\* none is written before it is in, none twice, and a batch whose client
\* stayed answers all.
EveryPayloadAnswered ==
    /\ \A i \in Items : batchOut[i] \notin {"nil", "freed", "fallback"}
    /\ collector = "returned" /\ ~abandoned => \A i \in Items : batchOut[i] # "unwritten"

\* The same of every batch but one that is merged with an answer that is not
\* JSON, whose whole body is the fallback.
AnsweredUnlessFallback ==
    streaming \/ (\A i \in Items : result[i] # "notJSON") => EveryPayloadAnswered

\* batch.go:181: a streamed batch holds at most max_batch_concurrency +
\* max_batch_window answers, however slow its first item, and when a batch has
\* returned it holds no slot and no byte of the gauge, on every way there:
\* refused at any of the three semaphores, client gone, done.
HoldsWithinBounds ==
    /\ streaming /\ PerBatch > 0 /\ BatchWindow >= 0 =>
           Cardinality({i \in Items : result[i] \in {"answer", "notJSON"}}) <= PerBatch + BatchWindow
    /\ collector = "returned" => window = 0 /\ local = 0 /\ batchSem = 0 /\ bytes = {}

-----------------------------------------------------------------------------
(***************************************************************************)
(* The process-wide budget of sub-relays (relay/middleware/batch.go,       *)
(* semFor): a channel shared by every batch, replaced when                 *)
(* max_concurrent_relays changes.  A batch reads the limit, loads the      *)
(* channel, keeps it or swaps in one of its own, and takes and returns its *)
(* slots there, whatever has become of the shared one since.               *)
(***************************************************************************)

CONSTANTS
    Batches,
    Limits,   \* max_concurrent_relays: its values, first to last
    Payloads  \* most slots one batch takes

ASSUME BudgetAssumption ==
    /\ Limits \in Seq(Nat \ {0}) /\ Limits # <<>> /\ Payloads \in Nat \ {0}
    /\ IsFiniteSet(Batches)

VARIABLES
    applied,    \* how many of Limits the config has been through
    caps,       \* the channels made, by capacity
    budget,     \* the shared channel; 0: none yet
    budgetPc,   \* pc[b]
    limit,      \* limit[b]: the limit the batch read
    budgetCur,  \* cur[b]: the channel it loaded
    budgetSem,  \* sem[b]: the channel it uses
    slots       \* slots[b]: slots it holds there

budgetVars == <<applied, caps, budget, budgetPc, limit, budgetCur, budgetSem, slots>>

BudgetInit ==
    /\ applied = 1 /\ caps = <<>> /\ budget = 0
    /\ budgetPc = [b \in Batches |-> "new"] /\ limit = [b \in Batches |-> 0]
    /\ budgetCur = [b \in Batches |-> 0] /\ budgetSem = [b \in Batches |-> 0]
    /\ slots = [b \in Batches |-> 0]

BudgetGoto(b, l) == budgetPc' = [budgetPc EXCEPT ![b] = l]

\* A config apply.
BudgetApply ==
    /\ applied < Len(Limits) /\ applied' = applied + 1
    /\ UNCHANGED <<caps, budget, budgetPc, limit, budgetCur, budgetSem, slots>>

\* limits(serviceID).
ReadLimit(b) ==
    /\ budgetPc[b] = "new" /\ limit' = [limit EXCEPT ![b] = Limits[applied]] /\ BudgetGoto(b, "load")
    /\ UNCHANGED <<applied, caps, budget, budgetCur, budgetSem, slots>>

\* budget.Load: kept when it has the capacity wanted.
Load(b) ==
    /\ budgetPc[b] = "load"
    /\ IF budget # 0 /\ caps[budget] = limit[b]
       THEN budgetSem' = [budgetSem EXCEPT ![b] = budget] /\ BudgetGoto(b, "run") /\ UNCHANGED budgetCur
       ELSE budgetCur' = [budgetCur EXCEPT ![b] = budget] /\ BudgetGoto(b, "swap") /\ UNCHANGED budgetSem
    /\ UNCHANGED <<applied, caps, budget, limit, slots>>

\* Mutant: the new channel is stored whatever is there now.
SwapsAlways(b) == TRUE

Swaps(b) == budget = budgetCur[b]

\* CompareAndSwap of a new channel.
Swap(b) ==
    /\ budgetPc[b] = "swap"
    /\ IF Swaps(b)
       THEN /\ caps' = Append(caps, limit[b]) /\ budget' = Len(caps) + 1
            /\ budgetSem' = [budgetSem EXCEPT ![b] = Len(caps) + 1] /\ BudgetGoto(b, "run")
       ELSE BudgetGoto(b, "reload") /\ UNCHANGED <<caps, budget, budgetSem>>
    /\ UNCHANGED <<applied, limit, budgetCur, slots>>

\* Lost: whatever is there now.
Reload(b) ==
    /\ budgetPc[b] = "reload" /\ budgetSem' = [budgetSem EXCEPT ![b] = budget] /\ BudgetGoto(b, "run")
    /\ UNCHANGED <<applied, caps, budget, limit, budgetCur, slots>>

On(c) == {b \in Batches : budgetSem[b] = c}

\* A slot is taken on the batch's channel and given back there.
TakeSlot(b) ==
    /\ budgetPc[b] = "run" /\ slots[b] < Payloads
    /\ MapThenSumSet(LAMBDA d : slots[d], On(budgetSem[b])) < caps[budgetSem[b]]
    /\ slots' = [slots EXCEPT ![b] = @ + 1]
    /\ UNCHANGED <<applied, caps, budget, budgetPc, limit, budgetCur, budgetSem>>

ReleaseSlot(b) ==
    /\ slots[b] > 0 /\ slots' = [slots EXCEPT ![b] = @ - 1]
    /\ UNCHANGED <<applied, caps, budget, budgetPc, limit, budgetCur, budgetSem>>

BudgetNext ==
    \/ BudgetApply
    \/ \E b \in Batches :
          ReadLimit(b) \/ Load(b) \/ Swap(b) \/ Reload(b) \/ TakeSlot(b) \/ ReleaseSlot(b)

BudgetSpec == BudgetInit /\ [][BudgetNext]_budgetVars

-----------------------------------------------------------------------------
BudgetInFlight == MapThenSumSet(LAMBDA b : slots[b], Batches)

\* batch.go:84: while max_concurrent_relays does not change, the sub-relays
\* in flight stay within it, whatever batches race to make the channel.
CeilingHolds == applied = 1 => BudgetInFlight <= Limits[1]
=============================================================================
