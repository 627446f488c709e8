---------------------------- MODULE LeaderElection ----------------------------
(***************************************************************************)
(* The health-check leader election of healthcheck/leader.go: a lease in   *)
(* Redis (SET NX EX, renewed by compare-and-expire), a renew loop on every *)
(* replica, and a fallback in which a replica leads itself while its Redis *)
(* calls fail.                                                             *)
(*                                                                         *)
(* A call to Redis is sent, applied by Redis at a later moment, answered   *)
(* at a later one still; it may fail before or after it was applied.  Time *)
(* is a tick counter; Latency bounds a call (the context of tryAcquire and *)
(* the client's own timeouts), and a replica's ticker fires on time.       *)
(***************************************************************************)
EXTENDS Sage, Integers

CONSTANTS
    LeaderReplicas,  \* pods; a pod that restarts is a new one, with a new id
    LeaderTTL,       \* leaderTTL
    Renew,           \* renewInterval
    Latency,         \* the longest a call takes
    LeaderMaxTime    \* bound on the clock

\* The code has TTL = 3 * Renew and calls bounded by Renew.
ASSUME LeaseAssumption ==
    /\ LeaderTTL \in Nat /\ Renew \in Nat \ {0} /\ Latency \in Nat /\ LeaderMaxTime \in Nat
    /\ Latency <= Renew
    /\ Renew + 2 * Latency < LeaderTTL
    /\ None \notin LeaderReplicas

VARIABLES
    leaderNow,
    status,      \* status[r]: "new", "up", or "gone" (stopped or crashed)
    isLeader,    \* isLeader[r], fallback[r]: the two atomics
    fallback,
    ticking,     \* ticking[r]: the ticker exists, the first attempt is over
    due,         \* due[r]: when the next attempt starts
    leaderCall,  \* call[r]: the Redis call in flight
    releasing,   \* releasing[r]: Stop is about to release the lock
    holder,      \* the key's value, None when it was never set or deleted
    expiry,      \* when the key expires
    gap          \* ticks without a leader since a pod last left (history)

leaderVars == <<leaderNow, status, isLeader, fallback, ticking, due, leaderCall, releasing,
          holder, expiry, gap>>

-----------------------------------------------------------------------------
Calls == [kind : {"none", "renew", "acquire"}, res : {"sent", "yes", "no"}, deadline : Nat]

NoCall == [kind |-> "none", res |-> "sent", deadline |-> 0]

Up(r) == status[r] = "up"

\* The key as Redis sees it now.
Holder == IF holder # None /\ leaderNow < expiry THEN holder ELSE None

\* Leading by election, as opposed to leading itself while Redis errors.
Elected(r) == isLeader[r] /\ ~fallback[r]

LeaderInit ==
    /\ leaderNow = 0
    /\ status = [r \in LeaderReplicas |-> "new"]
    /\ isLeader = [r \in LeaderReplicas |-> FALSE]
    /\ fallback = [r \in LeaderReplicas |-> FALSE]
    /\ ticking = [r \in LeaderReplicas |-> FALSE]
    /\ due = [r \in LeaderReplicas |-> 0]
    /\ leaderCall = [r \in LeaderReplicas |-> NoCall]
    /\ releasing = [r \in LeaderReplicas |-> FALSE]
    /\ holder = None
    /\ expiry = 0
    /\ gap = 0

\* Start: the first attempt happens immediately.
LeaderStart(r) ==
    /\ status[r] = "new"
    /\ status' = [status EXCEPT ![r] = "up"]
    /\ due' = [due EXCEPT ![r] = leaderNow]
    /\ UNCHANGED <<leaderNow, isLeader, fallback, ticking, leaderCall, releasing, holder, expiry, gap>>

\* tryAcquire, up to its Redis call.
TryAcquire(r) ==
    /\ Up(r) /\ leaderCall[r].kind = "none" /\ leaderNow >= due[r]
    /\ leaderCall' = [leaderCall EXCEPT ![r] = [kind |-> IF Elected(r) THEN "renew" ELSE "acquire",
                                    res |-> "sent", deadline |-> leaderNow + Latency]]
    /\ UNCHANGED <<leaderNow, status, isLeader, fallback, ticking, due, releasing, holder, expiry, gap>>

\* renewScript's test: the key still is ours.
Renews(r) == Holder = r

\* Redis runs renewScript, or SET NX EX.
LeaderApply(r, granted) ==
    /\ leaderCall[r].res = "sent"
    /\ granted = (IF leaderCall[r].kind = "renew" THEN Renews(r) ELSE Holder = None)
    /\ holder' = IF granted /\ leaderCall[r].kind = "acquire" THEN r ELSE holder
    /\ expiry' = IF granted THEN leaderNow + LeaderTTL ELSE expiry
    /\ leaderCall' = [leaderCall EXCEPT ![r].res = IF granted THEN "yes" ELSE "no"]
    /\ UNCHANGED <<leaderNow, status, isLeader, fallback, ticking, due, releasing, gap>>

RenewApplied(r) == leaderCall[r].kind = "renew" /\ \E granted \in BOOLEAN : LeaderApply(r, granted)

AcquireApplied(r) == leaderCall[r].kind = "acquire" /\ \E granted \in BOOLEAN : LeaderApply(r, granted)

\* Mutant: the loop waits for a full TTL between attempts.
NextDueLate(r) == leaderNow + LeaderTTL

\* The ticker starts after the first attempt and then keeps its own pace.
NextDue(r) == IF ticking[r] THEN due[r] + Renew ELSE leaderNow + Renew

\* The attempt is over and the loop waits for its ticker.
AttemptOver(r) ==
    /\ leaderCall' = [leaderCall EXCEPT ![r] = NoCall]
    /\ due' = [due EXCEPT ![r] = NextDue(r)]
    /\ ticking' = [ticking EXCEPT ![r] = TRUE]
    /\ UNCHANGED <<leaderNow, status, releasing, holder, expiry, gap>>

\* An answered renew keeps or loses the leadership.
RenewAnswered(r) ==
    /\ leaderCall[r].kind = "renew" /\ leaderCall[r].res # "sent"
    /\ isLeader' = [isLeader EXCEPT ![r] = leaderCall[r].res = "yes"]
    /\ AttemptOver(r)
    /\ UNCHANGED fallback

\* An answered acquire ends a fallback and decides.
AcquireAnswered(r) ==
    /\ leaderCall[r].kind = "acquire" /\ leaderCall[r].res # "sent"
    /\ isLeader' = [isLeader EXCEPT ![r] = leaderCall[r].res = "yes"]
    /\ fallback' = [fallback EXCEPT ![r] = FALSE]
    /\ AttemptOver(r)

\* Mutant: a Redis error ends the leadership.
FallBackLapse(r) ==
    /\ leaderCall[r].kind # "none"
    /\ isLeader' = [isLeader EXCEPT ![r] = FALSE]
    /\ fallback' = [fallback EXCEPT ![r] = FALSE]
    /\ AttemptOver(r)

\* fallBack: the call failed, applied or not.
FallBack(r) ==
    /\ leaderCall[r].kind # "none"
    /\ isLeader' = [isLeader EXCEPT ![r] = TRUE]
    /\ fallback' = [fallback EXCEPT ![r] = TRUE]
    /\ AttemptOver(r)

\* Stop: the loop is cancelled; the lock is released only by an elected leader.
LeaderStop(r) ==
    /\ Up(r)
    /\ status' = [status EXCEPT ![r] = "gone"]
    /\ releasing' = [releasing EXCEPT ![r] = Elected(r)]
    /\ gap' = 0
    /\ UNCHANGED <<leaderNow, isLeader, fallback, ticking, due, leaderCall, holder, expiry>>

\* Stop's releaseScript, which may fail or never be sent.
LeaderRelease(r) ==
    /\ releasing[r]
    /\ releasing' = [releasing EXCEPT ![r] = FALSE]
    /\ holder' \in {IF Holder = r THEN None ELSE holder, holder}
    /\ UNCHANGED <<leaderNow, status, isLeader, fallback, ticking, due, leaderCall, expiry, gap>>

\* The process dies: nothing is released.
Crash(r) ==
    /\ Up(r)
    /\ status' = [status EXCEPT ![r] = "gone"]
    /\ gap' = 0
    /\ UNCHANGED <<leaderNow, isLeader, fallback, ticking, due, leaderCall, releasing, holder, expiry>>

\* A tick: no call outlasts Latency, no attempt is late.
OnTime(r) ==
    /\ Up(r) /\ leaderCall[r].kind = "none" => leaderNow < due[r]
    /\ leaderCall[r].kind # "none" => leaderNow < leaderCall[r].deadline
    /\ ~releasing[r]

Led == \E r \in LeaderReplicas : Up(r) /\ isLeader[r]

LeaderTick ==
    /\ leaderNow < LeaderMaxTime /\ \A r \in LeaderReplicas : OnTime(r)
    /\ leaderNow' = leaderNow + 1
    /\ gap' = IF Led \/ ~\E r \in LeaderReplicas : Up(r) THEN 0 ELSE gap + 1
    /\ UNCHANGED <<status, isLeader, fallback, ticking, due, leaderCall, releasing, holder, expiry>>

LeaderNext ==
    \/ \E r \in LeaderReplicas :
          \/ LeaderStart(r) \/ TryAcquire(r) \/ RenewApplied(r) \/ AcquireApplied(r)
          \/ RenewAnswered(r) \/ AcquireAnswered(r) \/ FallBack(r)
          \/ LeaderStop(r) \/ LeaderRelease(r) \/ Crash(r)
    \/ LeaderTick

LeaderSpec == LeaderInit /\ [][LeaderNext]_leaderVars

-----------------------------------------------------------------------------
(* Properties.                                                             *)

\* The state keeps its shape.
LeaderTypeOK ==
    /\ leaderNow \in Nat /\ expiry \in Nat /\ gap \in Nat
    /\ status \in [LeaderReplicas -> {"new", "up", "gone"}]
    /\ isLeader \in [LeaderReplicas -> BOOLEAN] /\ fallback \in [LeaderReplicas -> BOOLEAN]
    /\ ticking \in [LeaderReplicas -> BOOLEAN] /\ releasing \in [LeaderReplicas -> BOOLEAN]
    /\ due \in [LeaderReplicas -> Nat] /\ leaderCall \in [LeaderReplicas -> Calls]
    /\ holder \in LeaderReplicas \cup {None}

\* A replica that leads by election holds the lock, unexpired, at every
\* moment: no two replicas are elected at once, so the probes are sent and the
\* reputation is written by one of them, whatever calls are slow or lost.
ElectedHoldsLock == \A r \in LeaderReplicas : Up(r) /\ Elected(r) => Holder = r

\* Nobody leads for at most one TTL, one renew interval and one call after the
\* last pod left: an expired lease is taken up, a fallback never strands the
\* fleet for longer.
NoLongGap == gap <= LeaderTTL + Renew + Latency

\* leader.go implements Leadership: the pod that leads by election and is still
\* there is the leader, a pod that stopped or crashed is gone.
Leads(r) == Up(r) /\ Elected(r)
Seat == IF \E r \in LeaderReplicas : Leads(r) THEN CHOOSE r \in LeaderReplicas : Leads(r) ELSE None
Left == {r \in LeaderReplicas : status[r] = "gone"}

Leader == INSTANCE Leadership WITH Pods <- LeaderReplicas, seat <- Seat, gone <- Left

\* leader.go:26, "a single leader among replicas": however attempts, expiries,
\* failed calls, stops and crashes interleave, the fleet sees one leader at a
\* time; the lead changes hands only through a moment without a leader and never
\* returns to a pod that is gone.
LeadershipKept == Leader!SeatSpec
=============================================================================
