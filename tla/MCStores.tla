-------------------------------- MODULE MCStores --------------------------------
(***************************************************************************)
(* What an instance remembers of the traffic it served, and the lease that *)
(* says which instance probes: the circuit breaker, the drains and the     *)
(* method marks that steer relays away from a domain, an operator or a     *)
(* host, the traffic sampler, the queue of observations, and the leader    *)
(* election.  They share no state: each is explored with the others at     *)
(* rest.                                                                   *)
(***************************************************************************)
EXTENDS CircuitBreaker, Drain, MethodBlock, Observation, LeaderElection, TLC

CONSTANTS Parts, o1, o2, o3, o4

VARIABLE part

\* Three requests: their methods and fingerprints.
Payload(m, f) == [method |-> m, fp |-> f]
MCShapes ==
    {<<Payload("a", 1), Payload("b", 2)>>, <<Payload("c", 3), Payload("a", 4)>>, <<Payload("c", 3), Payload("d", 5)>>}

\* A relay's observation, a probe's, one whose handling panics and another.
MCFrom == (o1 :> "relay") @@ (o2 :> "health_check") @@ (o3 :> "relay") @@ (o4 :> "relay")
MCDoes == (o1 :> "height") @@ (o2 :> "height") @@ (o3 :> "panics") @@ (o4 :> "height")

mcVars == <<part, breakerVars, drainVars, markVars, samplerVars, queueVars, leaderVars>>

MCInit == part \in Parts /\ BreakerInit /\ DrainInit /\ MarkInit /\ SamplerInit /\ QueueInit /\ LeaderInit

InBreaker == part = "breaker" /\ UNCHANGED <<part, drainVars, markVars, samplerVars, queueVars, leaderVars>>
InDrain == part = "drain" /\ UNCHANGED <<part, breakerVars, markVars, samplerVars, queueVars, leaderVars>>
InMarks == part = "marks" /\ UNCHANGED <<part, breakerVars, drainVars, samplerVars, queueVars, leaderVars>>
InSampler == part = "sampler" /\ UNCHANGED <<part, breakerVars, drainVars, markVars, queueVars, leaderVars>>
InQueue == part = "queue" /\ UNCHANGED <<part, breakerVars, drainVars, markVars, samplerVars, leaderVars>>
InLeader == part = "leader" /\ UNCHANGED <<part, breakerVars, drainVars, markVars, samplerVars, queueVars>>

MCNext ==
    \/ InBreaker /\ BreakerNext
    \/ InDrain /\ DrainNext
    \/ InMarks /\ MarkNext
    \/ InSampler /\ SamplerNext
    \/ InQueue /\ QueueNext
    \/ InLeader /\ LeaderNext

MCSpec == MCInit /\ [][MCNext]_mcVars

\* One set of names serves as the breaker's relays, the drains' requests, the
\* pods of the election and, but for one, the methods.
MCSymmetry == Permutations(Ops)

\* circuitbreaker/breaker.go:314, drain/redis.go:311, methodblock/store.go:227,
\* healthcheck/leader.go:26: no break spends failures another break has spent; a
\* write on the wire never lacks the record that tells whether a release or a
\* newer set has overtaken it; a marked method stays away from its host for the
\* mark's life, also in a full map, and only suppliers' faults block a host; and
\* the fleet is never without a leader for longer than a lease and an attempt.
StoresHold ==
    /\ part = "breaker" => BreakerTypeOK /\ BreaksConsumeFailures
    /\ part = "drain" => DrainTypeOK /\ RecordsExact
    /\ part = "marks" => MarkTypeOK /\ MarkKeepsMethodAway /\ OnlySuppliersEscalate
    /\ part = "leader" => LeaderTypeOK /\ NoLongGap

\* traffic/sampler.go:191, observe/queue.go:104: the sampler's totals are the
\* sums of what it tallied, within its cap and its window, and Stop returns only
\* once every observation accepted before it has been handled.
ObservedExactly ==
    /\ part = "sampler" => SamplerTypeOK /\ TalliesAgree /\ ListedHasWindow /\ GaugesRecent
    /\ part = "queue" => QueueTypeOK /\ StopDrains
=============================================================================
