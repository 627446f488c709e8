------------------------------ MODULE Singleflight ------------------------------
(***************************************************************************)
(* relay/middleware/singleflight.go: the requests that share one request   *)
(* key.  group.Do makes the first of them the leader, which relays on its  *)
(* own context; those that arrive meanwhile wait, uninterruptibly, for the *)
(* flight it leaves.  Keys are independent, so one key is modelled.        *)
(***************************************************************************)
EXTENDS Sage, Integers, FiniteSets

CONSTANTS
    Request  \* the requests with this key

ASSUME NoneIsNoRequest == None \notin Request

VARIABLES
    flightPc,    \* "new", "leading", "waiting", "landed" or "answered"
    ended,       \* the requests whose own context has ended
    flightCall,  \* the leader of the call in the group's map, or None
    waitsFor,    \* waitsFor[r]: the leader whose flight r waits for
    flight,      \* flight[r]: what r's relay left for its followers
    got,         \* got[r]: the outcome r returned with
    coalesced    \* the requests answered by another's relay

flightVars == <<flightPc, ended, flightCall, waitsFor, flight, got, coalesced>>

\* A relay ends with an answer, with an upstream error, or because the
\* context it ran on ended.
Outcomes == {"answer", "error", "cancelled"}
NoFlight == [outcome |-> "none", leaderGone |-> FALSE]
Flights == [outcome : Outcomes \cup {"none"}, leaderGone : BOOLEAN]

Leading == {r \in Request : flightPc[r] = "leading"}

FlightInit ==
    /\ flightPc = [r \in Request |-> "new"] /\ ended = {} /\ flightCall = None
    /\ waitsFor = [r \in Request |-> None] /\ flight = [r \in Request |-> NoFlight]
    /\ got = [r \in Request |-> "none"] /\ coalesced = {}

-----------------------------------------------------------------------------
\* The client hangs up, or the request's deadline passes.
FlightContextEnds(r) ==
    /\ flightPc[r] # "answered" /\ r \notin ended
    /\ ended' = ended \cup {r}
    /\ UNCHANGED <<flightPc, flightCall, waitsFor, flight, got, coalesced>>

\* group.Do: join the call in the map, or become its leader.
Do(r) ==
    IF flightCall = None
    THEN /\ flightPc' = [flightPc EXCEPT ![r] = "leading"] /\ flightCall' = r
         /\ UNCHANGED waitsFor
    ELSE /\ flightPc' = [flightPc EXCEPT ![r] = "waiting"] /\ waitsFor' = [waitsFor EXCEPT ![r] = flightCall]
         /\ UNCHANGED flightCall

Arrive(r) ==
    /\ flightPc[r] = "new"
    /\ Do(r)
    /\ UNCHANGED <<ended, flight, got, coalesced>>

\* Whether the leader's own context is over when its relay returns.
LeaderGone(r) == r \in ended

\* The leader's relay returns and its flight is handed to the followers: the
\* call leaves the map before any of them reads it.
Land(r) ==
    /\ flightPc[r] = "leading"
    /\ \E o \in Outcomes :
        /\ o = "cancelled" => r \in ended
        /\ flight' = [flight EXCEPT ![r] = [outcome |-> o, leaderGone |-> LeaderGone(r)]]
        /\ got' = [got EXCEPT ![r] = o]
    /\ flightCall' = None
    /\ flightPc' = [q \in Request |->
                CASE q = r -> "answered"
                  [] q # r /\ flightPc[q] = "waiting" /\ waitsFor[q] = r -> "landed"
                  [] OTHER -> flightPc[q]]
    /\ UNCHANGED <<ended, waitsFor, coalesced>>

\* Mutant: a follower left behind relays by itself, outside the group.
ReRunsAlone(r) ==
    /\ flightPc' = [flightPc EXCEPT ![r] = "leading"]
    /\ UNCHANGED <<flightCall, waitsFor>>

\* The recursive coalesce(ctx): through the group again.
ReRuns(r) == Do(r)

\* A follower whose leader's client left goes round again while its own
\* client still waits.
GoAgain(r) ==
    /\ flightPc[r] = "landed" /\ flight[waitsFor[r]].leaderGone /\ r \notin ended
    /\ ReRuns(r)
    /\ UNCHANGED <<ended, flight, got, coalesced>>

\* It returns with all of the leader's outcome.
TakeFlight(r) ==
    /\ flightPc[r] = "landed" /\ ~(flight[waitsFor[r]].leaderGone /\ r \notin ended)
    /\ got' = [got EXCEPT ![r] = flight[waitsFor[r]].outcome]
    /\ coalesced' = coalesced \cup {r}
    /\ flightPc' = [flightPc EXCEPT ![r] = "answered"]
    /\ UNCHANGED <<ended, flightCall, waitsFor, flight>>

FlightNext == \E r \in Request :
    FlightContextEnds(r) \/ Arrive(r) \/ Land(r) \/ GoAgain(r) \/ TakeFlight(r)

FlightSpec == FlightInit /\ [][FlightNext]_flightVars

-----------------------------------------------------------------------------
\* The state stays well formed: a waiting request waits for a leader that
\* is relaying, and only an answered one has an outcome.
FlightTypeOK ==
    /\ flightPc \in [Request -> {"new", "leading", "waiting", "landed", "answered"}]
    /\ ended \subseteq Request /\ coalesced \subseteq Request
    /\ flightCall \in Request \cup {None} /\ waitsFor \in [Request -> Request \cup {None}]
    /\ flight \in [Request -> Flights] /\ got \in [Request -> Outcomes \cup {"none"}]
    /\ \A r \in Request : flightPc[r] = "waiting" => waitsFor[r] = flightCall /\ flightPc[flightCall] = "leading"
    /\ \A r \in Request : (flightPc[r] = "answered") = (got[r] # "none")

\* singleflight.go:94-97: a request whose own client is still there never returns
\* with the end of another's context, and the followers a leader leaves behind
\* coalesce under a new leader: two relays of one key never run at once.
FollowersGoOn ==
    /\ \A r \in Request : got[r] = "cancelled" => r \in ended
    /\ Cardinality(Leading) <= 1
=============================================================================
