------------------------------ MODULE MCStanding ------------------------------
(***************************************************************************)
(* How a supplier comes by its standing: the verdict on one attempt and    *)
(* what is recorded of it, the scores and their storage, the parties       *)
(* behind the endpoints and their penalties, the traffic cap, the          *)
(* automatic drains, and the breaks a busy fleet forgets.  part says which *)
(* of them a behaviour is of.                                              *)
(***************************************************************************)
EXTENDS AttemptChain, Reputation, Parties, AutoDrain, CircuitBreaker, TLC

CONSTANTS Parts, Acting, ManualKeys, StoredKeys, Lone, a, b, A, B, x, h1, h2
VARIABLE part

-----------------------------------------------------------------------------
(* The circuit breaker on replicas that are never idle: each of them asks  *)
(* IsBroken at least once a tick, and its reads of Redis are answered.     *)
(* Writes and deletes may still fail.  Under that load a break that Redis  *)
(* does not list, because it was cleared on some replica, because its      *)
(* write was lost or because the hash expired, is forgotten everywhere     *)
(* within a bounded time: the promise mergeRedisEntries' comment makes.    *)

\* Since when Redis has not listed a domain; meaningless while it lists it.
VARIABLE absentSince

busyVars == <<breakerVars, absentSince>>

BusyInit == BreakerInit /\ absentSince = [d \in Domains |-> 0]

Reads ==
    \/ \E r \in BreakerReplicas : GetBroken(r)
    \/ \E r \in BreakerReplicas, s \in Slots : BreakerFetchAnswered(r, s) \/ Merge(r, s)

Marks ==
    \/ \E p \in BreakerRelays, r \in BreakerReplicas : RelayStart(p, r)
    \/ \E p \in BreakerRelays : \/ MarkCheck(p) \/ ShouldBreak(p) \/ MarkWrite(p)
                         \/ PersistHSet(p) \/ PersistExpire(p)

Clears == \E r \in BreakerReplicas : ClearBroken(r) \/ ClearStats(r) \/ ClearDel(r)

\* A tick passes only once every replica has looked at its cache.
BusyTick == (\A r \in BreakerReplicas : ~BreakerStale(r)) /\ BreakerTick

BusyNext ==
    /\ Reads \/ Marks \/ Clears \/ KeyExpires \/ BusyTick
    /\ absentSince' = [d \in Domains |->
                          IF breakerRedis[d] # None /\ breakerRedis'[d] = None THEN breakerNow ELSE absentSince[d]]

Max2(m, n) == IF m >= n THEN m ELSE n

\* A break that Redis does not list is forgotten: after the later of the
\* moment it left Redis and the moment this replica broke the domain, a busy
\* replica still treats the domain as broken for two cache TTLs and one fetch
\* at most.  This is how POST /admin/circuit-breaker/clear reaches the other
\* replicas.
UnlistedBreaksFade ==
    \A r \in BreakerReplicas, d \in Domains :
        IsBroken(r, d) /\ breakerRedis[d] = None =>
            LET own == IF brokenLocally[r][d] = None THEN 0 ELSE brokenLocally[r][d]
            IN  breakerNow <= Max2(absentSince[d], own) + CacheTTL + CacheTTL + IOTimeout

-----------------------------------------------------------------------------
PartyPods == {a, b}
PartyFleet == [p \in {a, b} |-> IF p = a THEN A ELSE B]
PartyPeer == [f \in {A, B} |-> IF f = A THEN B ELSE A]

\* Points are scaled: the initial score is 4, the minimum 1.
AutoKeys == {<<x, a>>, <<A, a>>}
Released1 == {<<x, a>>}
ImpactMC == [major |-> 1, fatal |-> 4]
PenaltyMC == [l \in 0..1 |-> 3 * l]

\* The attempt chain: what the flags, the marks and the vouchers are when a
\* request comes, the requests, and what one attempt may bring back.
MCHosts == {h1, h2}
AllFlags ==
    {"heuristic", "method_blocks", "circuit_breaker", "scoring_v2", "rest_bodies_as_answers",
     "rest_documents_as_answers", "query_5xx_retry", "circuit_break_upstream", "future_block_answers",
     "light_method_errors", "penalize_408", "stale_response", "invalid_result", "method_block_408",
     "method_block_refusal", "chain_answers_unscored"}
Setting(flags, marked, v) ==
    [flags |-> flags, marks |-> [h \in MCHosts |-> IF h \in marked THEN {"method"} ELSE {}], vouched |-> v]
MCStarts ==
    {Setting(AllFlags, {}, MCHosts), Setting(AllFlags, {h1}, {h2}), Setting(AllFlags, MCHosts, {h1}),
     Setting(AllFlags \ {"scoring_v2"}, {}, MCHosts), Setting({"heuristic", "scoring_v2", "circuit_breaker"}, {}, MCHosts),
     Setting(AllFlags \ {"heuristic", "circuit_breaker"}, {h1}, {h1})}

NoBlocks == [named |-> FALSE, from |-> 0, to |-> 0, head |-> 20, perBlock |-> FALSE]
Asks(from, to, perBlock) == [named |-> TRUE, from |-> from, to |-> to, head |-> 20, perBlock |-> perBlock]
Req(rpc, plugin, named, light, route, blocks) ==
    [rpc |-> rpc, plugin |-> plugin, named |-> named, light |-> light, family |-> named /\ ~light,
     route |-> route, blocks |-> blocks]
MCRequests ==
    {Req("json_rpc", "evm", TRUE, FALSE, "none", bs) :
        bs \in {NoBlocks, Asks(15, 16, FALSE), Asks(20, 20, FALSE), Asks(17, 20, TRUE), Asks(3, 3, FALSE), Asks(24, 24, FALSE)}}
    \cup {Req("json_rpc", "evm", TRUE, TRUE, "none", NoBlocks),
          Req("json_rpc", "cosmos", FALSE, FALSE, "none", Asks(15, 15, FALSE)),
          Req("rest", "cosmos", TRUE, FALSE, "query", NoBlocks), Req("rest", "cosmos", TRUE, FALSE, "root", NoBlocks),
          Req("rest", "none", FALSE, FALSE, "none", NoBlocks), Req("comet_bft", "cosmos", TRUE, FALSE, "none", NoBlocks),
          Req("grpc", "none", FALSE, FALSE, "none", NoBlocks)}

Says(form, w) == Body(form, "none", w)
MCErrors ==
    {[kind |-> k] : k \in {"cancelled", "stale", "connect", "connect_timeout", "timeout", "too_large", "other"}}
    \cup {[kind |-> "miner", report |-> r] : r \in {"over_served", "session", "timeout", "body_limit", "other"}}
    \cup {[kind |-> "status", status |-> c, body |-> t] : c \in {403, 413, 429, 500},
             t \in {Says("html", ""), Body("error", "internal", "missing"), Says("text", "over_served")}}

NodeErrors ==
    {Body("error", c, "") : c \in ErrorCodes} \cup {Body("error", c, w) : c \in {"server", "internal"}, w \in Wordings}
    \cup {Body("error", "other", "pruned")}
Pages ==
    {Says("empty", ""), Says("html", ""), Says("text", ""), Says("scalar", ""), Says("text", "lite"), Says("text", "over_served")}
Documents == {Says(f, w) : f \in {"document", "envelope"}, w \in {"", "deep", "infra", "missing", "no_index"}}
HTTPAnswers ==
    {Answered(200, t) : t \in NodeErrors \cup Pages \cup Documents \cup {Says("result", ""), Says("both", "")}}
    \cup {[Answered(200, Says("result", "")) EXCEPT !.lagging = l, !.invalid = ~l] : l \in BOOLEAN}
    \cup {Answered(204, Says("empty", ""))}
    \cup {Answered(c, t) : c \in {400, 401, 408, 429, 500},
             t \in {Says("html", ""), Says("document", "no_index"), Says("text", "over_served"), Body("error", "internal", "")}}
GRPCAnswers ==
    {[Answered(200, Says(f, "")) EXCEPT !.grpc = g] :
        f \in {"empty", "text"}, g \in {"ok", "request", "deadline", "exhausted", "backend", "other"}}
MCAnswers == [r \in {"json_rpc", "rest", "comet_bft", "grpc"} |-> IF r = "grpc" THEN GRPCAnswers ELSE HTTPAnswers]

mcVars == <<part, chainVars, repVars, mass, partyVars, adVars, busyVars>>

InAttempt == part = "attempt" /\ UNCHANGED <<part, repVars, mass, partyVars, adVars, busyVars>>
InScoring == part = "scoring" /\ UNCHANGED <<part, chainVars, mass, partyVars, adVars, busyVars>>
InStorage == part = "storage" /\ UNCHANGED <<part, chainVars, mass, partyVars, adVars, busyVars>>
InCap == part = "cap" /\ UNCHANGED <<part, chainVars, repVars, partyVars, adVars, busyVars>>
InParties == part = "parties" /\ UNCHANGED <<part, chainVars, repVars, mass, adVars, busyVars>>
InAutoDrain == part = "autodrain" /\ UNCHANGED <<part, chainVars, repVars, mass, partyVars, busyVars>>
InBusy == part = "busy" /\ UNCHANGED <<part, chainVars, repVars, mass, partyVars, adVars>>

MCInit ==
    /\ part \in Parts
    /\ RepInit
    /\ leads = [r \in Replica |-> part = "storage" /\ r = Lone]
    /\ party = [k \in Keys |-> 0] /\ base = 0
    /\ IF part = "cap" THEN CapInit ELSE mass = [o \in Operators |-> 0]
    /\ PartyInit /\ BusyInit
    /\ AdInit /\ adLeader = Lone
    /\ ChainInit
    /\ part # "attempt" => /\ request = CHOOSE q \in ChainRequests : TRUE
                           /\ enabled = AllFlags /\ vouched = MCHosts /\ methodMarks = [h \in MCHosts |-> {}]

\* One pod that leads nobody, two keys of two parties, one of them penalised at
\* times: every signal, at one instant.
ScoringSignals ==
    {sig \in Signal : (sig.timeout => sig.type = "major") /\ Cardinality({g \in {"probe", "leftover", "timeout"} : sig[g]}) <= 1}

ScoringNext ==
    \E r \in {Lone}, k \in Keys :
        \/ \E sig \in ScoringSignals : \E l \in Rates(StateOf(r, k), sig) : RecordSignal(r, k, sig, l)
        \/ RebaseAfterDrain(r, k)
        \/ \E n \in PartyPenalty, l \in {0, 1}, seeding \in BOOLEAN :
              RefreshBaselines(r, [j \in Keys |-> IF j \in StoredKeys THEN n ELSE 0], l, seeding)

\* Every pod, one key, in time: probes that fail.  One pod's handlers overlap,
\* the other restarts.
StorageSignal == [type |-> "fatal", probe |-> TRUE, leftover |-> FALSE, timeout |-> FALSE]

StorageNext ==
    \/ \E r \in Replica, k \in StoredKeys :
          \/ RecordSignal(r, k, StorageSignal, 0)
          \/ r = Lone /\ RecordSignalLate(r, k, StorageSignal, 0)
          \/ r = Lone /\ ResetMatching(r, {k})
          \/ ForceSetState(r, k)
          \/ LoadState(r, k)
    \/ \E r \in Replica :
          \/ RecordEnqueue(r) \/ DrainWrites(r)
          \/ r # Lone /\ Lead(r)
          \/ r # Lone /\ \E ok \in BOOLEAN : RepRestart(r, ok)
    \/ RepTick

\* Two fleets that lend to each other, a pod each; one of them may find a store
\* out of reach.
PartiesNext ==
    \/ PartyTick
    \/ \E p \in Pods, readable, written \in BOOLEAN :
          /\ p = a \/ (readable /\ written)
          /\ \/ \E ev \in Evidence : Refresh(p, ev, readable, written)
             \/ PodRestart(p, readable, written)

\* Windows that decide takes through every outcome.
Enough == {"collapse", "standsOut", "clientEvidence", "clientFails", "vouched"}
WindowFacts == {Enough} \cup {Enough \ {g} : g \in Enough}

\* One replica evaluates, while it leads; people use the other.
AutoDrainNext ==
    \/ \E e \in Acting :
          \/ \E s \in AdServices : Count(e, s)
          \/ Evaluate(e)
          \/ \E k \in DrainKeys, f \in WindowFacts, act \in BOOLEAN : Decide(e, k, f, act)
          \/ \E ok \in BOOLEAN : SetAutoDrain(e, ok)
          \/ CacheRefresh(e)
    \/ \E e \in Engines \ {Lone}, k \in ManualKeys : ManualDrain(e, k) \/ ManualRelease(e, k)
    \/ \E e \in Engines : ElectOther(e)
    \/ AdTick

MCNext ==
    \/ InAttempt /\ ChainNext
    \/ InScoring /\ ScoringNext
    \/ InStorage /\ StorageNext
    \/ InCap /\ CapNext
    \/ InParties /\ PartiesNext
    \/ InAutoDrain /\ AutoDrainNext
    \/ InBusy /\ BusyNext

MCSpec == MCInit /\ [][MCNext]_mcVars

MCSymmetry == Permutations(BreakerReplicas)

-----------------------------------------------------------------------------
\* The state of the part in play stays well formed.
TypeOK ==
    /\ part = "attempt" => ChainTypeOK
    /\ part \in {"scoring", "storage"} => RepTypeOK
    /\ part = "cap" => CapTypeOK
    /\ part = "parties" => PartyTypeOK
    /\ part = "autodrain" => AdTypeOK

\* service.go:301, concentration.go:239: what moves traffic loses none of it.
\* Penalties rank a pool and never empty it, and the cap's shares sum to the
\* whole, nobody past the cap while another has room.
TrafficGoesOn ==
    /\ part = "scoring" => PenaltiesNeverEmpty
    /\ part = "cap" => CapMovesShares

\* heuristic/transport.go:42, score.go:84, circuitbreak.go:72: an attempt costs
\* its supplier nothing it did not do, and what the score, the breaker and the
\* retry make of one attempt agrees.
AttemptsJudged == part = "attempt" => ChargedFairly /\ AttemptOfOnePiece

\* mergeRedisEntries (circuitbreaker/breaker.go): a break Redis no longer lists
\* is forgotten by a busy replica within two cache TTLs and one fetch.
BreaksFade == part = "busy" => UnlistedBreaksFade
=============================================================================
