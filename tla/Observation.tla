---------------------------- MODULE Observation -----------------------------
(***************************************************************************)
(* How the gateway observes its traffic.  The request-shape sampler of one *)
(* service (traffic/sampler.go): an atomic counter picks one relay in      *)
(* SampleEvery, its payloads are fingerprinted outside the lock, and under it *)
(* the window rolls and tallies them; fingerprints and methods are capped per *)
(* window; admin and metrics read copies.  The observation pipeline        *)
(* (observe/queue.go): Observe and the health checks submit, a bounded channel *)
(* holds, workers hand each observation to the plugin of its service, and Stop *)
(* closes done and waits for the workers, which drain the channel first.   *)
(***************************************************************************)
EXTENDS Naturals, Sequences, FiniteSets, FiniteSetsExt, SequencesExt, Functions, Sage

CONSTANTS
    Relayers,        \* requests in flight at once
    Shapes,          \* payload lists: sequences of [method, fp]
    SampleEvery,     \* rate
    SampleWindow,    \* window, in ticks
    MaxFingerprints, \* the cap of both tables
    MaxObserved,     \* bound: relays observed
    MaxSampleTime    \* bound: ticks

VARIABLES
    counted,         \* counter
    hashed,          \* sampled payloads waiting for the lock, by request
    current,         \* the window filling
    previous,        \* the window completed last; None before the first roll
    sampleClock,
    report           \* the admin request being answered and what it read

samplerVars == <<counted, hashed, current, previous, sampleClock, report>>

otherMethod == "_other"

\* newWindow.  oldest is when its first payload was recorded.
NewWindow(start) ==
    [start |-> start, end |-> start + SampleWindow, sampled |-> 0, overflow |-> 0, fingerprints |-> <<>>,
     methods |-> <<>>, methodOverflow |-> 0, overflowMethods |-> {}, oldest |-> start]

NoReport == [pc |-> "idle", which |-> "none", summary |-> None, top |-> {}]

SamplerInit ==
    /\ counted = 0 /\ hashed = [r \in Relayers |-> <<>>]
    /\ current = None /\ previous = None /\ sampleClock = 0 /\ report = NoReport

With(f, k, v) == [x \in DOMAIN f \cup {k} |-> IF x = k THEN v ELSE f[x]]

\* methodRecordFor: the table entry a method is tallied in, and the window with
\* that entry in place.
TalliedAs(w, m) ==
    IF m \in DOMAIN w.methods \/ Cardinality(DOMAIN w.methods) < MaxFingerprints THEN m ELSE otherMethod
FoldedMethod(w, m) ==
    IF TalliedAs(w, m) = m \/ m \in w.overflowMethods THEN w
    ELSE [w EXCEPT !.methodOverflow = @ + 1,
                   !.overflowMethods = IF Cardinality(@) < MaxFingerprints THEN @ \cup {m} ELSE @]

\* Mutant: the shared bucket is made anew for every method folded into it.
MethodRecordForNew(w, m) ==
    IF m \in DOMAIN w.methods \ {otherMethod} THEN w.methods[m] ELSE [sampled |-> 0, distinct |-> 0]

MethodRecordFor(w, m) == IF m \in DOMAIN w.methods THEN w.methods[m] ELSE [sampled |-> 0, distinct |-> 0]

\* A fingerprint is tracked while there is room for it.
NewlyTracked(w, fp) == fp \notin DOMAIN w.fingerprints /\ Cardinality(DOMAIN w.fingerprints) < MaxFingerprints

\* record.
Record(w, p, now) ==
    LET as == TalliedAs(w, p.method)
        folded == FoldedMethod(w, p.method)
        new == NewlyTracked(w, p.fp)
        mr == MethodRecordFor(w, as)
        tracked == p.fp \in DOMAIN w.fingerprints
    IN  [folded EXCEPT
            !.sampled = @ + 1,
            !.oldest = IF w.sampled = 0 THEN now ELSE @,
            !.methods = With(@, as, [sampled |-> mr.sampled + 1, distinct |-> mr.distinct + IF new THEN 1 ELSE 0]),
            !.overflow = @ + IF new \/ tracked THEN 0 ELSE 1,
            !.fingerprints = IF new THEN With(@, p.fp, [method |-> p.method, count |-> 1])
                             ELSE IF tracked THEN [@ EXCEPT ![p.fp].count = @ + 1] ELSE @]

RecordAll(w, ps, now) ==
    LET rec[i \in 0..Len(ps)] == IF i = 0 THEN w ELSE Record(rec[i - 1], ps[i], now) IN rec[Len(ps)]

\* Observe up to the lock: stateFor, the counter and the hashing.
ObserveRelay(r, ps) ==
    /\ hashed[r] = <<>> /\ counted < MaxObserved
    /\ counted' = counted + 1
    /\ current' = IF current = None THEN NewWindow(sampleClock) ELSE current
    /\ hashed' = IF counted' % SampleEvery = 0 THEN [hashed EXCEPT ![r] = ps] ELSE hashed
    /\ UNCHANGED <<previous, sampleClock, report>>

\* Observe under the lock.
Tally(r) ==
    /\ hashed[r] # <<>> /\ hashed' = [hashed EXCEPT ![r] = <<>>]
    /\ IF sampleClock >= current.end
       THEN previous' = current /\ current' = RecordAll(NewWindow(sampleClock), hashed[r], sampleClock)
       ELSE current' = RecordAll(current, hashed[r], sampleClock) /\ UNCHANGED previous
    /\ UNCHANGED <<counted, sampleClock, report>>

\* windowFor; None when there is no such window.
WindowFor(which) == IF which = "previous" THEN previous ELSE current

\* summarize, with the shares as counts of the sampled payloads.
Summarize(w) ==
    [start |-> w.start, end |-> w.end, sampled |-> w.sampled, distinct |-> Cardinality(DOMAIN w.fingerprints),
     overflow |-> w.overflow, perMethod |-> w.methods, methodOverflow |-> w.methodOverflow,
     top1 |-> IF w.fingerprints = <<>> THEN 0 ELSE Max({w.fingerprints[f].count : f \in DOMAIN w.fingerprints})]
Summary(which) == IF WindowFor(which) = None THEN None ELSE Summarize(WindowFor(which))

\* Mutant: a previous window is reported however old it is.
PreviousWindowAnyAge == previous # None

\* PreviousWindow: whether the gauges have a window to report.
PreviousWindow == previous # None /\ ~(sampleClock > previous.end + 2 * SampleWindow)

\* Top.
Top(which, n) ==
    LET w == WindowFor(which)
        ranked == {f \in DOMAIN w.fingerprints :
                     Cardinality({g \in DOMAIN w.fingerprints : w.fingerprints[g].count > w.fingerprints[f].count}) < n}
    IN  IF w = None THEN {} ELSE {w.fingerprints[f] : f \in ranked}

\* handleListRequestSamples, for this service: the previous window's summary,
\* else, in a second read, the current one's.
ListSamples ==
    /\ report.pc = "idle" /\ current # None
    /\ report' = IF previous # None THEN [pc |-> "done", which |-> "previous", summary |-> Summary("previous"), top |-> {}]
                 ELSE [NoReport EXCEPT !.pc = "list", !.which = "current"]
    /\ UNCHANGED <<counted, hashed, current, previous, sampleClock>>
ListCurrent ==
    /\ report.pc = "list" /\ report' = [report EXCEPT !.pc = "done", !.summary = Summary("current")]
    /\ UNCHANGED <<counted, hashed, current, previous, sampleClock>>

\* handleGetRequestSample: the summary, zero-valued for a window that has not
\* completed, then the top fingerprints, each read under the lock.
EmptySummary == [Summarize(NewWindow(0)) EXCEPT !.end = 0]
GetSample(which) ==
    /\ report.pc = "idle" /\ current # None
    /\ report' = [pc |-> "top", which |-> which, summary |-> IF Summary(which) = None THEN EmptySummary ELSE Summary(which), top |-> {}]
    /\ UNCHANGED <<counted, hashed, current, previous, sampleClock>>
GetTop ==
    /\ report.pc = "top" /\ report' = [report EXCEPT !.pc = "done", !.top = Top(report.which, 1)]
    /\ UNCHANGED <<counted, hashed, current, previous, sampleClock>>

Respond ==
    /\ report.pc = "done" /\ report' = NoReport
    /\ UNCHANGED <<counted, hashed, current, previous, sampleClock>>

SampleTick ==
    /\ sampleClock < MaxSampleTime /\ sampleClock' = sampleClock + 1
    /\ UNCHANGED <<counted, hashed, current, previous, report>>

SamplerNext ==
    \/ \E r \in Relayers, ps \in Shapes : ObserveRelay(r, ps)
    \/ \E r \in Relayers : Tally(r)
    \/ ListSamples \/ ListCurrent \/ (\E which \in {"current", "previous"} : GetSample(which)) \/ GetTop \/ Respond
    \/ SampleTick

SamplerTypeOK ==
    /\ counted \in 0..MaxObserved /\ hashed \in [Relayers -> Shapes \cup {<<>>}] /\ sampleClock \in 0..MaxSampleTime
    /\ \A w \in {current, previous} \ {None} : Cardinality(DOMAIN w.fingerprints) <= MaxFingerprints

-----------------------------------------------------------------------------

Sum(f, field(_)) == FoldFunction(LAMBDA r, n : field(r) + n, 0, f)

\* sampler.go:123: whatever the caps fold away, a window's figures add up: every
\* payload is in one method's tally and in one fingerprint's count or the
\* overflow, every tracked fingerprint in one method's distinct count.
TalliesAgree ==
    \A w \in {current, previous} \ {None} :
        /\ Sum(w.methods, LAMBDA m : m.sampled) = w.sampled
        /\ Sum(w.methods, LAMBDA m : m.distinct) = Cardinality(DOMAIN w.fingerprints)
        /\ Sum(w.fingerprints, LAMBDA f : f.count) + w.overflow = w.sampled
        /\ Cardinality(DOMAIN w.methods) <= MaxFingerprints + 1

\* admin_traffic.go:59: the service the list names has a window to show, even
\* when its first one rolls between the two reads.
ListedHasWindow == report.pc = "done" => report.summary # None

\* sampler.go:390: whatever the gaps between relays, the gauges describe traffic
\* of the last three windows or say nothing.
GaugesRecent == PreviousWindow => sampleClock - previous.oldest <= 3 * SampleWindow

-----------------------------------------------------------------------------
(* The observation queue.                                                  *)

CONSTANTS
    Observations,    \* what may be submitted, each once
    ObservationFrom, \* "relay" or "health_check", by observation
    ObservationDoes, \* what handling it does, by observation
    QueueWorkers,
    QueueSize

VARIABLES
    queued,          \* q.ch
    queueWorker,     \* each worker: where it is and the observation it holds
    queueDone,       \* q.done is closed
    queueStop,       \* Stop: "running", "waiting", "returned"
    sampleRate,      \* the live rate: none, some or all of the client relays
    fate,            \* what became of each observation
    heightsFed       \* observations whose height reached the plugin

queueVars == <<queued, queueWorker, queueDone, queueStop, sampleRate, fate, heightsFed>>

At(pc) == [pc |-> pc, holds |-> None]

QueueInit ==
    /\ queued = <<>> /\ queueWorker = [w \in QueueWorkers |-> At("select")]
    /\ queueDone = FALSE /\ queueStop = "running" /\ sampleRate = "all"
    /\ fate = [o \in Observations |-> "new"] /\ heightsFed = {}

\* SetSampleRate: the tuning knob.
SetSampleRate(r) ==
    /\ sampleRate' = r
    /\ UNCHANGED <<queued, queueWorker, queueDone, queueStop, fate, heightsFed>>

\* The outcomes sampling may have for an observation.
Kept(o) ==
    IF ObservationFrom[o] = "health_check" \/ sampleRate = "all" THEN {TRUE}
    ELSE IF sampleRate = "none" THEN {FALSE} ELSE BOOLEAN

\* Submit never blocks: a full channel drops.
Submit(o) ==
    /\ fate[o] = "new"
    /\ \/ /\ TRUE \in Kept(o) /\ Len(queued) < QueueSize
          /\ queued' = Append(queued, o)
          /\ fate' = [fate EXCEPT ![o] = IF queueDone THEN "late" ELSE "accepted"]
       \/ TRUE \in Kept(o) /\ Len(queued) >= QueueSize /\ fate' = [fate EXCEPT ![o] = "dropped"] /\ UNCHANGED queued
       \/ FALSE \in Kept(o) /\ fate' = [fate EXCEPT ![o] = "unsampled"] /\ UNCHANGED queued
    /\ UNCHANGED <<queueWorker, queueDone, queueStop, sampleRate, heightsFed>>

\* The worker's select takes an observation, in its loop or while it drains.
Receive(w) ==
    /\ queueWorker[w].pc \in {"select", "draining"} /\ queued # <<>>
    /\ queueWorker' = [queueWorker EXCEPT ![w] = [pc |-> IF @.pc = "select" THEN "handling" ELSE "drain_handling", holds |-> Head(queued)]]
    /\ queued' = Tail(queued)
    /\ UNCHANGED <<queueDone, queueStop, sampleRate, fate, heightsFed>>

\* handle, with HandleObservation: a plugin that is not there, cannot extract,
\* fails to or panics leaves no height, and costs only the observation.
HandleObservation(o) == IF ObservationDoes[o] = "height" THEN heightsFed \cup {o} ELSE heightsFed
HandleOne(w) ==
    /\ queueWorker[w].pc \in {"handling", "drain_handling"}
    /\ heightsFed' = HandleObservation(queueWorker[w].holds)
    /\ fate' = [fate EXCEPT ![queueWorker[w].holds] = IF @ = "accepted" THEN "handled" ELSE @]
    /\ queueWorker' = [queueWorker EXCEPT ![w] = At(IF @.pc = "handling" THEN "select" ELSE "draining")]
    /\ UNCHANGED <<queued, queueDone, queueStop, sampleRate>>

\* Mutant: a worker leaves as soon as it sees done.
AfterDoneExit == "exited"

\* The worker sees done: it drains before it returns.
AfterDone == "draining"

SeeDone(w) ==
    /\ queueWorker[w].pc = "select" /\ queueDone
    /\ queueWorker' = [queueWorker EXCEPT ![w] = At(AfterDone)]
    /\ UNCHANGED <<queued, queueDone, queueStop, sampleRate, fate, heightsFed>>

WorkerReturns(w) ==
    /\ queueWorker[w].pc = "draining" /\ queued = <<>>
    /\ queueWorker' = [queueWorker EXCEPT ![w] = At("exited")]
    /\ UNCHANGED <<queued, queueDone, queueStop, sampleRate, fate, heightsFed>>

StopQueue ==
    /\ queueStop = "running" /\ queueStop' = "waiting" /\ queueDone' = TRUE
    /\ UNCHANGED <<queued, queueWorker, sampleRate, fate, heightsFed>>

StopReturns ==
    /\ queueStop = "waiting" /\ \A w \in QueueWorkers : queueWorker[w].pc = "exited"
    /\ queueStop' = "returned"
    /\ UNCHANGED <<queued, queueWorker, queueDone, sampleRate, fate, heightsFed>>

WorkerStep(w) == Receive(w) \/ HandleOne(w) \/ SeeDone(w) \/ WorkerReturns(w)

QueueNext ==
    \/ \E r \in {"none", "some", "all"} : SetSampleRate(r)
    \/ \E o \in Observations : Submit(o)
    \/ \E w \in QueueWorkers : WorkerStep(w)
    \/ StopQueue \/ StopReturns

QueueTypeOK ==
    /\ queued \in Seq(Observations) /\ Len(queued) <= QueueSize
    /\ \A w \in QueueWorkers :
        /\ queueWorker[w].pc \in {"select", "handling", "draining", "drain_handling", "exited"}
        /\ queueWorker[w].holds \in Observations \cup {None}
    /\ queueStop \in {"running", "waiting", "returned"} /\ sampleRate \in {"none", "some", "all"}
    /\ heightsFed \subseteq Observations

-----------------------------------------------------------------------------

Holds(o) == {w \in QueueWorkers : queueWorker[w].holds = o}

\* queue.go:104: "Stop signals workers to drain remaining items": an observation
\* accepted before Stop is in the channel or with exactly one worker until it
\* is handled, and handled by the time Stop returns, its height fed once.
StopDrains ==
    /\ \A o \in Observations : fate[o] = "accepted" =>
        Cardinality(Holds(o)) + Cardinality({i \in DOMAIN queued : queued[i] = o}) = 1
    /\ queueStop = "returned" => \A o \in Observations : fate[o] # "accepted"
    /\ \A o \in Observations : fate[o] = "handled" /\ ObservationDoes[o] = "height" => o \in heightsFed
=============================================================================
