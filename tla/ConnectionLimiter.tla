-------------------------- MODULE ConnectionLimiter --------------------------
(***************************************************************************)
(* The cap on open WebSocket connections (websockets/limiter.go) under the *)
(* upgrades that take and return its slots (WSRelayer.Open): a slot of the *)
(* gateway's, then one of the client's own, both given back on every way   *)
(* out.  Acquire is a load of the counter, a load of the cap and a compare *)
(* and swap; other upgrades and SetMax come between them.                  *)
(***************************************************************************)
EXTENDS Naturals, FiniteSets

CONSTANTS
    Opens,     \* the upgrade requests
    Clients,   \* client addresses
    ClientOf,  \* ClientOf[o]: the client of an upgrade
    Caps,      \* the values the cap may be set to; 0: none
    ClientCap  \* maxConnectionsPerClient; 0: none

ASSUME LimiterAssumption ==
    /\ ClientOf \in [Opens -> Clients]
    /\ Caps \subseteq Nat /\ Caps # {} /\ ClientCap \in Nat
    /\ IsFiniteSet(Opens)

VARIABLES
    max,        \* the cap
    active,     \* slots taken
    perClient,  \* live connections of each client
    limiterPc,  \* pc[o]: "new", "loaded", "checked", "slot", "up", "leaving", "out"
    seen,       \* seen[o]: the counter as Acquire loaded it
    capSeen     \* capSeen[o]: the cap as Acquire loaded it

limiterVars == <<max, active, perClient, limiterPc, seen, capSeen>>

LimiterInit ==
    /\ max \in Caps
    /\ active = 0 /\ perClient = [c \in Clients |-> 0]
    /\ limiterPc = [o \in Opens |-> "new"] /\ seen = [o \in Opens |-> 0]
    /\ capSeen = [o \in Opens |-> 0]

LimiterGoto(o, l) == limiterPc' = [limiterPc EXCEPT ![o] = l]

SetMax ==
    /\ max' \in Caps
    /\ UNCHANGED <<active, perClient, limiterPc, seen, capSeen>>

\* Acquire: the counter is loaded.
AcquireLoads(o) ==
    /\ limiterPc[o] = "new" /\ LimiterGoto(o, "loaded") /\ seen' = [seen EXCEPT ![o] = active]
    /\ UNCHANGED <<max, active, perClient, capSeen>>

\* Then the cap: full, or on to the swap.
AcquireChecks(o) ==
    /\ limiterPc[o] = "loaded"
    /\ capSeen' = [capSeen EXCEPT ![o] = max]
    /\ LimiterGoto(o, IF max > 0 /\ seen[o] >= max THEN "out" ELSE "checked")
    /\ UNCHANGED <<max, active, perClient, seen>>

\* Mutant: the counter is added to whatever it has become.
AddsBlindly(o) == active' = active + 1 /\ LimiterGoto(o, "slot")

\* The compare and swap; the loop again when it lost.
CompareAndSwap(o) ==
    IF active = seen[o] THEN active' = seen[o] + 1 /\ LimiterGoto(o, "slot")
    ELSE LimiterGoto(o, "new") /\ UNCHANGED active

AcquireSwaps(o) ==
    /\ limiterPc[o] = "checked" /\ CompareAndSwap(o)
    /\ UNCHANGED <<max, perClient, seen, capSeen>>

\* Mutant: the refusal leaves without the deferred Release.
RefusedGoesTo == "out"

RefusedTo == "leaving"

\* AcquireClient, under the mutex: refused, or the connection opens.
AcquireClient(o) ==
    /\ limiterPc[o] = "slot"
    /\ IF ClientCap > 0 /\ perClient[ClientOf[o]] >= ClientCap
       THEN LimiterGoto(o, RefusedTo) /\ UNCHANGED perClient
       ELSE LimiterGoto(o, "up") /\ perClient' = [perClient EXCEPT ![ClientOf[o]] = @ + 1]
    /\ UNCHANGED <<max, active, seen, capSeen>>

\* Open returns, whether the bridge ran or never started: ReleaseClient.
ReleaseClient(o) ==
    /\ limiterPc[o] = "up" /\ LimiterGoto(o, "leaving")
    /\ perClient' = [perClient EXCEPT ![ClientOf[o]] = IF @ > 1 THEN @ - 1 ELSE 0]
    /\ UNCHANGED <<max, active, seen, capSeen>>

\* And Release.
LimiterRelease(o) ==
    /\ limiterPc[o] = "leaving" /\ LimiterGoto(o, "out") /\ active' = active - 1
    /\ UNCHANGED <<max, perClient, seen, capSeen>>

LimiterNext ==
    \/ SetMax
    \/ \E o \in Opens :
          \/ AcquireLoads(o) \/ AcquireChecks(o) \/ AcquireSwaps(o)
          \/ AcquireClient(o) \/ ReleaseClient(o) \/ LimiterRelease(o)

LimiterSpec == LimiterInit /\ [][LimiterNext]_limiterVars

-----------------------------------------------------------------------------
LimiterTypeOK ==
    /\ max \in Caps /\ active \in Nat /\ perClient \in [Clients -> Nat]
    /\ limiterPc \in [Opens -> {"new", "loaded", "checked", "slot", "up", "leaving", "out"}]
    /\ seen \in [Opens -> Nat] /\ capSeen \in [Opens -> Caps \cup {0}]

Holders == {o \in Opens : limiterPc[o] \in {"slot", "up", "leaving"}}

Ups(c) == {o \in Opens : ClientOf[o] = c /\ limiterPc[o] = "up"}

\* No slot is lost or given back twice: the counters are the connections that
\* hold a slot, on every way out of Open.
SlotsExact ==
    active = Cardinality(Holders) /\ \A c \in Clients : perClient[c] = Cardinality(Ups(c))

\* No Acquire takes the counter past the cap it compared it with, however many
\* run at once.
NoOvershoot ==
    [][\A o \in Opens : limiterPc[o] = "checked" /\ limiterPc'[o] = "slot" /\ capSeen[o] > 0
            => active' <= capSeen[o]]_limiterVars

=============================================================================
