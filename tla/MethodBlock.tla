------------------------------- MODULE MethodBlock -------------------------------
(***************************************************************************)
(* methodblock/store.go: the marks of one host within one service.  Hosts  *)
(* and services share nothing but the lock, under which each call runs, so *)
(* one host is modelled.  Expiry is lazy: a lapsed mark stays in the map   *)
(* until a Mark or the sweep drops it, and counts toward the cap until     *)
(* then.                                                                   *)
(***************************************************************************)
EXTENDS Integers, FiniteSets, Functions

CONSTANTS
    Method,
    MarkTTL,     \* the ttl the store starts with
    ClientTTL,   \* the clientTTL it starts with
    Escalation,  \* the escalation it starts with
    Cap,         \* maxMethodsPerHost
    MarkMaxTime  \* bound on the clock

ASSUME MethodBlockAssumption ==
    /\ MarkTTL \in Nat \ {0} /\ ClientTTL \in Nat /\ Escalation \in Nat /\ Cap \in Nat \ {0}
    /\ MarkMaxTime \in Nat \ {0} /\ IsFiniteSet(Method)

\* The config supplies the longer value (store.go:80).  It does not check it:
\* with a shorter one a client's re-mark would end a supplier's mark early.
ASSUME ClientMarksLastLonger == ClientTTL >= MarkTTL

VARIABLES
    markNow,
    ttl,         \* s.ttl, which a reload may set to zero and back
    clientTTL,   \* s.clientTTL; 0: the ordinary ttl
    escalation,  \* s.escalation; 0: never escalates
    hostUntil,   \* the host-level block; 0: none
    marks,       \* the method marks: expiry and whether they escalate
    owed,        \* owed[m]: until when the last supplier's mark taken in is due
    evidence,    \* evidence[m]: when m was last marked by the supplier's fault
                 \* since the marks were last dropped; 0: not
    blame        \* the evidence behind the last host-level block

history == <<owed, evidence, blame>>
settings == <<ttl, clientTTL, escalation>>
markVars == <<markNow, settings, hostUntil, marks, history>>

Times == 0..(MarkMaxTime + MarkTTL + ClientTTL)
MarkSet == [expiry : Times, escalates : BOOLEAN]
Known == DOMAIN marks
NoMarks == [m \in {} |-> 0]
NoEvidence == [m \in Method |-> 0]

MarkLive(m) == m \in Known /\ markNow < marks[m].expiry
Blocked(m) == ttl > 0 /\ (markNow < hostUntil \/ MarkLive(m))

MarkInit ==
    /\ markNow = 1 /\ ttl = MarkTTL /\ clientTTL = ClientTTL /\ escalation = Escalation /\ hostUntil = 0 /\ marks = NoMarks
    /\ owed = NoEvidence /\ evidence = NoEvidence /\ blame = NoEvidence

-----------------------------------------------------------------------------
\* How long a mark lasts.
Lifetime(escalates) == IF ~escalates /\ clientTTL > 0 THEN clientTTL ELSE ttl

\* Mutant: a full map makes room by dropping an established mark.
MadeRoomEvict(m) ==
    IF m \in Known \/ Cardinality(Known) < Cap THEN Known
    ELSE Known \ {CHOOSE k \in Known : TRUE}

\* The marks left when m needs a place: lapsed ones go when the map is full.
MadeRoom(m) ==
    IF m \in Known \/ Cardinality(Known) < Cap THEN Known ELSE {k \in Known : MarkLive(k)}

\* Whether the new mark on m counts toward the host-level block.
Counts(m, escalates) == escalates \/ (MarkLive(m) /\ marks[m].escalates)

\* Mutant: any live mark counts.
EscalatesAny(new, escalates) == escalation > 0 /\ Cardinality(DOMAIN new) >= escalation

\* A supplier's mark, with enough live supplier's marks, blocks the host.
Escalates(new, escalates) ==
    /\ escalates /\ escalation > 0
    /\ Cardinality({m \in DOMAIN new : new[m].escalates}) >= escalation

\* Mutant: a full map takes one more.
RefusesNever(m, room) == FALSE

\* A map still full of live marks refuses the new one.
Refuses(m, room) == m \notin room /\ Cardinality(room) >= Cap

Mark(m, escalates) ==
    LET room == MadeRoom(m)
        expiry == markNow + Lifetime(escalates)
        put == [k \in room \cup {m} |->
                  IF k = m THEN [expiry |-> expiry, escalates |-> Counts(m, escalates)] ELSE marks[k]]
        seen == [evidence EXCEPT ![m] = IF escalates THEN markNow ELSE @]
        new == Restrict(put, {k \in DOMAIN put : markNow < put[k].expiry})
    IN /\ ttl > 0 /\ markNow >= hostUntil
       /\ IF Refuses(m, room)
          THEN marks' = Restrict(marks, room) /\ UNCHANGED <<hostUntil, history>>
          ELSE /\ owed' = [owed EXCEPT ![m] = IF escalates THEN expiry ELSE @]
               /\ IF Escalates(new, escalates)
                  THEN hostUntil' = expiry /\ marks' = NoMarks /\ evidence' = NoEvidence /\ blame' = seen
                  ELSE marks' = new /\ evidence' = seen /\ UNCHANGED <<hostUntil, blame>>
       /\ UNCHANGED <<markNow, settings>>

Clear ==
    /\ hostUntil' = 0 /\ marks' = NoMarks
    /\ owed' = NoEvidence /\ evidence' = NoEvidence
    /\ blame' = NoEvidence
    /\ UNCHANGED <<markNow, settings>>

\* The marks the sweep keeps.
Swept == {m \in Known : MarkLive(m)}

\* The sweep drops the host when nothing on it is live.
DropsHost == Swept = {} /\ markNow >= hostUntil

Sweep ==
    /\ marks' = Restrict(marks, Swept)
    /\ hostUntil' = IF DropsHost THEN 0 ELSE hostUntil
    /\ UNCHANGED <<markNow, settings, history>>

\* A reload turns marking off, or on again.
SetTTL ==
    /\ ttl' = IF ttl = 0 THEN MarkTTL ELSE 0
    /\ UNCHANGED <<markNow, clientTTL, escalation, hostUntil, marks, history>>

SetClientTTL ==
    /\ clientTTL' = IF clientTTL = 0 THEN ClientTTL ELSE 0
    /\ UNCHANGED <<markNow, ttl, escalation, hostUntil, marks, history>>

SetEscalation ==
    /\ escalation' = IF escalation = 0 THEN Escalation ELSE 0
    /\ UNCHANGED <<markNow, ttl, clientTTL, hostUntil, marks, history>>

MarkTick ==
    /\ markNow < MarkMaxTime /\ markNow' = markNow + 1
    /\ UNCHANGED <<settings, hostUntil, marks, history>>

MarkNext ==
    \/ \E m \in Method, e \in BOOLEAN : Mark(m, e)
    \/ Clear \/ Sweep \/ SetTTL \/ SetClientTTL \/ SetEscalation \/ MarkTick

MarkSpec == MarkInit /\ [][MarkNext]_markVars

-----------------------------------------------------------------------------
\* The state stays well formed and one host never holds more marks than the
\* cap.
MarkTypeOK ==
    /\ markNow \in 1..MarkMaxTime /\ ttl \in {0, MarkTTL} /\ clientTTL \in {0, ClientTTL}
    /\ escalation \in {0, Escalation} /\ hostUntil \in Times
    /\ Known \subseteq Method /\ Cardinality(Known) <= Cap
    /\ \A m \in Known : marks[m] \in MarkSet
    /\ owed \in [Method -> Times]
    /\ evidence \in [Method -> 0..MarkMaxTime] /\ blame \in [Method -> 0..MarkMaxTime]

\* store.go:54: a supplier's mark that was taken in keeps its method away
\* from the host for its whole lifetime: no re-mark, escalation, sweep or
\* flood of other methods ends it early.
MarkKeepsMethodAway ==
    \A m \in Method : ttl > 0 /\ markNow < owed[m] => Blocked(m)

\* store.go:166: only supplier's marks remove a host for every method, on
\* enough distinct methods, each since the marks were last dropped.
OnlySuppliersEscalate ==
    hostUntil # 0 => Cardinality({m \in Method : blame[m] # 0}) >= Escalation

=============================================================================
