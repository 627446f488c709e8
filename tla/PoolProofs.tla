------------------------------ MODULE PoolProofs ------------------------------
(***************************************************************************)
(* What keeps a host out of a pool, for any number of operators, sessions, *)
(* relays and methods: the supplier pool of a session with its blacklist,  *)
(* its over-served suppliers and its load, and the marks of a host against *)
(* a method.                                                               *)
(*                                                                         *)
(* Suppliers.  That only the guilty are blacklisted is not inductive: the  *)
(* blacklist is written from what a relay carries through a fetch of the   *)
(* supplier's key, so the invariant says that each relay on its way back   *)
(* holds grounds against its own supplier (RelayHolds), and that the cache *)
(* holds a missing key only of a supplier that had none.  The load is one  *)
(* session's because a relay is sent once (SendsCounted).                  *)
(*                                                                         *)
(* Method marks.  That a mark keeps its method away is not inductive:      *)
(* what is owed is kept by a mark before an escalation and by the          *)
(* host-level block after it (Owes), and an escalation is earned because   *)
(* every mark that counts for it rests on a supplier's fault (Blames).     *)
(***************************************************************************)
EXTENDS MethodBlock, Suppliers, FiniteSetTheorems, TLAPS

(* The method marks of a host.                                             *)

\* A supplier's mark is owed for a lifetime at most, and what is owed is kept by
\* the host-level block or by the method's own mark.
Owes ==
    \A m \in Method :
        /\ owed[m] <= markNow + MarkTTL
        /\ markNow < owed[m] => owed[m] <= hostUntil \/ (m \in Known /\ owed[m] <= marks[m].expiry)

\* A mark that escalates rests on a supplier's fault.
Blames == \A m \in Known : marks[m].escalates => evidence[m] # 0

\* The inductive invariant.
MarkInv == MarkTypeOK /\ Owes /\ Blames /\ OnlySuppliersEscalate

\* Nothing is marked.
LEMMA MarkInitInv == MarkInit => MarkInv
<1> SUFFICES ASSUME MarkInit PROVE MarkInv
  OBVIOUS
<1>1. Known = {}
  BY DEF MarkInit, Known, NoMarks
<1>2. Cardinality(Known) = 0
  BY <1>1, FS_EmptySet
<1>3. MarkTypeOK
  BY <1>1, <1>2, MethodBlockAssumption DEF MarkInit, MarkTypeOK, Times, NoEvidence
<1>4. Owes /\ Blames /\ OnlySuppliersEscalate
  BY <1>1, MethodBlockAssumption DEF MarkInit, Owes, Blames, OnlySuppliersEscalate, NoEvidence
<1>5. QED
  BY <1>3, <1>4 DEF MarkInv

\* What is owed and not the host-level block's is a live mark.
LEMMA OwedIsLive ==
    ASSUME MarkInv, NEW m \in Method, markNow < owed[m], markNow >= hostUntil
    PROVE  MarkLive(m) /\ owed[m] <= marks[m].expiry
<1>1. markNow \in Nat /\ owed[m] \in Nat /\ hostUntil \in Nat
  BY MethodBlockAssumption DEF MarkInv, MarkTypeOK, Times
<1>2. m \in Known /\ owed[m] <= marks[m].expiry
  BY <1>1 DEF MarkInv, Owes
<1>3. marks[m].expiry \in Nat
  BY <1>2, MethodBlockAssumption DEF MarkInv, MarkTypeOK, MarkSet, Times
<1>4. QED
  BY <1>1, <1>2, <1>3 DEF MarkLive

\* Marks are dropped, but none that is live: a sweep, or the room made for a
\* mark that is refused all the same.
LEMMA DropKeepsInv ==
    ASSUME MarkInv, NEW S, S \subseteq Known, \A m \in Known : MarkLive(m) => m \in S,
           marks' = Restrict(marks, S),
           hostUntil' = hostUntil \/ (hostUntil' = 0 /\ markNow >= hostUntil),
           UNCHANGED <<markNow, settings, history>>
    PROVE  MarkInv'
<1> USE DEF settings, history
<1>1. Known' = S /\ \A m \in S : marks'[m] = marks[m]
  BY DEF Restrict, Known
<1>2. Cardinality(S) <= Cap
  <2>1. IsFiniteSet(Known)
    BY FS_Subset, MethodBlockAssumption DEF MarkInv, MarkTypeOK
  <2>2. Cardinality(S) <= Cardinality(Known) /\ IsFiniteSet(S)
    BY <2>1, FS_Subset
  <2>3. Cardinality(S) \in Nat /\ Cardinality(Known) \in Nat
    BY <2>1, <2>2, FS_CardinalityType
  <2>4. QED
    BY <2>2, <2>3, MethodBlockAssumption DEF MarkInv, MarkTypeOK
<1>3. hostUntil' \in Times
  BY MethodBlockAssumption DEF MarkInv, MarkTypeOK, Times
<1>4. MarkTypeOK'
  BY <1>1, <1>2, <1>3 DEF MarkInv, MarkTypeOK
<1>5. Owes'
  <2> SUFFICES ASSUME NEW m \in Method
               PROVE  /\ owed[m] <= markNow + MarkTTL
                      /\ markNow < owed[m] => owed[m] <= hostUntil' \/ (m \in S /\ owed[m] <= marks'[m].expiry)
    BY <1>1 DEF Owes
  <2>1. owed[m] <= markNow + MarkTTL
    BY DEF MarkInv, Owes
  <2>2. CASE markNow < owed[m] /\ markNow >= hostUntil
    BY <2>1, <2>2, <1>1, OwedIsLive DEF MarkLive
  <2>3. CASE markNow < owed[m] /\ ~(markNow >= hostUntil)
    <3>1. hostUntil' = hostUntil
      BY <2>3
    <3>2. owed[m] <= hostUntil \/ (m \in Known /\ owed[m] <= marks[m].expiry)
      BY <2>3 DEF MarkInv, Owes
    <3>3. ASSUME m \in Known, owed[m] <= marks[m].expiry PROVE m \in S /\ owed[m] <= marks'[m].expiry
      <4>1. markNow \in Nat /\ owed[m] \in Nat /\ marks[m].expiry \in Nat
        BY <3>3, MethodBlockAssumption DEF MarkInv, MarkTypeOK, MarkSet, Times
      <4>2. MarkLive(m)
        BY <3>3, <4>1, <2>3 DEF MarkLive
      <4>3. QED
        BY <3>3, <4>2, <1>1
    <3>4. QED
      BY <2>1, <3>1, <3>2, <3>3
  <2>4. QED
    BY <2>1, <2>2, <2>3
<1>6. Blames'
  BY <1>1 DEF MarkInv, Blames
<1>7. OnlySuppliersEscalate'
  BY DEF MarkInv, OnlySuppliersEscalate
<1>8. QED
  BY <1>4, <1>5, <1>6, <1>7 DEF MarkInv

\* A mark lasts at least as long as a supplier's.
LEMMA LifetimeLong ==
    ASSUME MarkInv, ttl > 0, NEW e \in BOOLEAN
    PROVE  /\ Lifetime(e) \in Nat /\ Lifetime(e) >= MarkTTL
           /\ markNow + Lifetime(e) \in Times
           /\ e => Lifetime(e) = MarkTTL
<1>1. ttl = MarkTTL /\ clientTTL \in {0, ClientTTL} /\ markNow \in 1..MarkMaxTime
  BY DEF MarkInv, MarkTypeOK
<1>2. QED
  BY <1>1, MethodBlockAssumption, ClientMarksLastLonger DEF Lifetime, Times

\* The map with the new mark in it stays within the cap.
LEMMA RoomHolds ==
    ASSUME MarkInv, NEW m \in Method, ~Refuses(m, MadeRoom(m))
    PROVE  /\ MadeRoom(m) \subseteq Known
           /\ \A k \in Known : MarkLive(k) => k \in MadeRoom(m)
           /\ IsFiniteSet(MadeRoom(m) \cup {m}) /\ Cardinality(MadeRoom(m) \cup {m}) <= Cap
<1> DEFINE room == MadeRoom(m)
<1>1. room \subseteq Known /\ \A k \in Known : MarkLive(k) => k \in room
  BY DEF MadeRoom
<1>2. Known \subseteq Method /\ Cardinality(Known) <= Cap /\ Cap \in Nat
  BY MethodBlockAssumption DEF MarkInv, MarkTypeOK
<1>3. IsFiniteSet(Known) /\ IsFiniteSet(room)
  BY <1>1, <1>2, FS_Subset, MethodBlockAssumption
<1>4. IsFiniteSet(room \cup {m}) /\ Cardinality(room \cup {m}) =
         IF m \in room THEN Cardinality(room) ELSE Cardinality(room) + 1
  BY <1>3, FS_AddElement
<1>5. Cardinality(room) \in Nat /\ Cardinality(Known) \in Nat /\ Cardinality(room) <= Cardinality(Known)
  BY <1>1, <1>3, FS_CardinalityType, FS_Subset
<1>6. m \in room \/ Cardinality(room) < Cap
  BY <1>2, <1>5 DEF Refuses
<1> HIDE DEF room
<1>7. Cardinality(room \cup {m}) <= Cap
  BY <1>2, <1>4, <1>5, <1>6
<1>8. QED
  BY <1>1, <1>4, <1>7 DEF room

\* A mark on m that is taken in: what was owed stays owed and kept, by the marks
\* or by the host-level block the mark brings about.
LEMMA MarkTakenKeepsInv ==
    ASSUME MarkInv, NEW m \in Method, NEW e \in BOOLEAN, Mark(m, e), ~Refuses(m, MadeRoom(m))
    PROVE  MarkInv'
<1> DEFINE room == MadeRoom(m)
           expiry == markNow + Lifetime(e)
           put == [k \in room \cup {m} |->
                     IF k = m THEN [expiry |-> expiry, escalates |-> Counts(m, e)] ELSE marks[k]]
           seen == [evidence EXCEPT ![m] = IF e THEN markNow ELSE evidence[m]]
           new == Restrict(put, {k \in DOMAIN put : markNow < put[k].expiry})
<1>1. /\ ttl > 0 /\ markNow >= hostUntil
      /\ owed' = [owed EXCEPT ![m] = IF e THEN expiry ELSE owed[m]]
      /\ IF Escalates(new, e)
         THEN hostUntil' = expiry /\ marks' = NoMarks /\ evidence' = NoEvidence /\ blame' = seen
         ELSE marks' = new /\ evidence' = seen /\ UNCHANGED <<hostUntil, blame>>
      /\ UNCHANGED <<markNow, settings>>
  BY Zenon DEF Mark
<1>2. /\ expiry \in Times /\ expiry \in Nat /\ expiry >= markNow + MarkTTL /\ markNow < expiry
      /\ e => expiry = markNow + MarkTTL
  BY <1>1, LifetimeLong, MethodBlockAssumption DEF MarkInv, MarkTypeOK, Times
<1>3. /\ markNow \in Nat \ {0} /\ markNow \in 1..MarkMaxTime /\ hostUntil \in Nat /\ Known \subseteq Method
      /\ \A k \in Known : marks[k] \in MarkSet /\ marks[k].expiry \in Nat
      /\ owed \in [Method -> Times] /\ evidence \in [Method -> 0..MarkMaxTime]
      /\ \A k \in Method : owed[k] \in Nat
  BY MethodBlockAssumption DEF MarkInv, MarkTypeOK, MarkSet, Times
<1>4. /\ room \subseteq Known /\ \A k \in Known : MarkLive(k) => k \in room
      /\ IsFiniteSet(room \cup {m}) /\ Cardinality(room \cup {m}) <= Cap
  BY RoomHolds
<1>5. Counts(m, e) \in BOOLEAN
  BY <1>3, Zenon DEF Counts, MarkLive, MarkSet
<1> HIDE DEF room, expiry
<1>6. /\ DOMAIN new \subseteq room \cup {m} /\ m \in DOMAIN new
      /\ new[m] = [expiry |-> expiry, escalates |-> Counts(m, e)]
      /\ \A k \in DOMAIN new : k # m => k \in Known /\ new[k] = marks[k]
      /\ \A k \in Known : MarkLive(k) => k \in DOMAIN new
  BY <1>2, <1>3, <1>4 DEF Restrict, MarkLive
<1>7. \A k \in DOMAIN new : k \in Method /\ new[k] \in MarkSet
  <2> HIDE DEF new
  <2> SUFFICES ASSUME NEW k \in DOMAIN new PROVE k \in Method /\ new[k] \in MarkSet
    BY Zenon
  <2>1. CASE k = m
    <3>1. [expiry |-> expiry, escalates |-> Counts(m, e)] \in MarkSet
      BY <1>2, <1>5, Zenon DEF MarkSet
    <3>2. QED
      BY <2>1, <3>1, <1>6
  <2>2. CASE k # m
    BY <2>2, <1>3, <1>6, Zenon
  <2>3. QED
    BY <2>1, <2>2
<1>8. seen \in [Method -> 0..MarkMaxTime]
  BY <1>3
<1>9. \A k \in DOMAIN new : new[k].escalates => seen[k] # 0
  <2> SUFFICES ASSUME NEW k \in DOMAIN new, new[k].escalates PROVE seen[k] # 0
    BY Zenon
  <2>1. CASE k # m
    BY <2>1, <1>3, <1>6, Zenon DEF MarkInv, Blames
  <2>2. CASE k = m /\ e
    BY <2>2, <1>3, Zenon
  <2>3. CASE k = m /\ ~e
    <3>1. Counts(m, e)
      <4> HIDE DEF new
      <4>1. QED
        BY <2>3, <1>6
    <3>2. m \in Known /\ marks[m].escalates
      BY <2>3, <3>1, Zenon DEF Counts, MarkLive
    <3>3. evidence[m] # 0
      BY <3>2, Zenon DEF MarkInv, Blames
    <3>4. seen[k] = evidence[m]
      BY <2>3, <1>3, Zenon
    <3>5. QED
      BY <3>3, <3>4, Zenon
  <2>4. QED
    BY <2>1, <2>2, <2>3, Zenon
<1>10. Cardinality(DOMAIN new) <= Cap
  <2>1. IsFiniteSet(DOMAIN new) /\ Cardinality(DOMAIN new) <= Cardinality(room \cup {m})
    BY <1>4, <1>6, FS_Subset, Zenon
  <2>2. QED
    BY <1>4, <2>1, FS_CardinalityType, MethodBlockAssumption, SMTT(30)
<1> HIDE DEF put, seen, new
<1>11. owed' \in [Method -> Times]
  BY <1>1, <1>2, <1>3
<1>12. \A k \in Method : owed'[k] <= markNow + MarkTTL
  BY <1>1, <1>2, <1>3, MethodBlockAssumption DEF MarkInv, Owes
<1>13. CASE Escalates(new, e)
  <2>1. hostUntil' = expiry /\ marks' = NoMarks /\ evidence' = NoEvidence /\ blame' = seen
    BY <1>1, <1>13
  <2>2. Known' = {} /\ Cardinality(Known') = 0
    BY <2>1, FS_EmptySet, Zenon DEF Known, NoMarks
  <2>3. MarkTypeOK'
    BY <1>1, <1>2, <1>8, <1>11, <2>1, <2>2, MethodBlockAssumption DEF MarkInv, MarkTypeOK, NoEvidence, settings
  <2>4. e
    BY <1>13, Zenon DEF Escalates
  <2>5. Owes' /\ Blames'
    BY <1>1, <1>2, <1>12, <2>1, <2>2, <2>4 DEF Owes, Blames
  <2>6. OnlySuppliersEscalate'
    <3> DEFINE marked == {k \in DOMAIN new : new[k].escalates}
               proven == {k \in Method : seen[k] # 0}
    <3>1. marked \subseteq proven
      BY <1>7, <1>9
    <3>2. IsFiniteSet(proven)
      BY FS_Subset, MethodBlockAssumption
    <3>3. Cardinality(marked) <= Cardinality(proven) /\ IsFiniteSet(marked)
      BY <3>1, <3>2, FS_Subset
    <3>4. Cardinality(marked) \in Nat /\ Cardinality(proven) \in Nat
      BY <3>2, <3>3, FS_CardinalityType
    <3>5. Cardinality(marked) >= escalation /\ escalation = Escalation
      BY <1>13 DEF Escalates, MarkInv, MarkTypeOK
    <3>6. Cardinality(proven) >= Escalation
      BY <3>3, <3>4, <3>5, MethodBlockAssumption
    <3>7. QED
      BY <3>6, <2>1 DEF OnlySuppliersEscalate
  <2>7. QED
    BY <2>3, <2>5, <2>6 DEF MarkInv
<1>14. CASE ~Escalates(new, e)
  <2>1. marks' = new /\ evidence' = seen /\ hostUntil' = hostUntil /\ blame' = blame
    BY <1>1, <1>14
  <2>2. Known' = DOMAIN new
    BY <2>1, Zenon DEF Known
  <2>3. MarkTypeOK'
    BY <1>1, <1>7, <1>8, <1>10, <1>11, <2>1, <2>2, Zenon DEF MarkInv, MarkTypeOK, settings
  <2>4. ASSUME NEW k \in Method, markNow < owed'[k]
        PROVE  k \in DOMAIN new /\ owed'[k] <= new[k].expiry
    <3>1. CASE k = m
      <4>1. owed'[m] <= expiry
        BY <1>2, <1>12, <1>3, <1>11, <3>1, MethodBlockAssumption DEF Times
      <4>2. QED
        BY <3>1, <4>1, <1>6
    <3>2. CASE k # m
      <4>1. owed'[k] = owed[k]
        BY <3>2, <1>1, <1>3
      <4>2. MarkLive(k) /\ owed[k] <= marks[k].expiry
        BY <2>4, <4>1, <1>1, OwedIsLive, Zenon
      <4>3. QED
        BY <3>2, <4>1, <4>2, <1>6, Zenon DEF MarkLive
    <3>3. QED
      BY <3>1, <3>2, Zenon
  <2>5. Owes'
    BY <1>1, <1>12, <2>1, <2>2, <2>4, Zenon DEF Owes
  <2>6. Blames'
    BY <1>9, <2>1, <2>2 DEF Blames
  <2>7. OnlySuppliersEscalate'
    BY <2>1 DEF MarkInv, OnlySuppliersEscalate
  <2>8. QED
    BY <2>3, <2>5, <2>6, <2>7 DEF MarkInv
<1>15. QED
  BY <1>13, <1>14, Zenon

\* Every step keeps the invariant.
LEMMA MarkStepKeepsInv ==
    ASSUME MarkInv, [MarkNext]_markVars PROVE MarkInv'
<1>1. ASSUME NEW m \in Method, NEW e \in BOOLEAN, Mark(m, e) PROVE MarkInv'
  <2>1. CASE Refuses(m, MadeRoom(m))
    <3>1. /\ marks' = Restrict(marks, MadeRoom(m)) /\ hostUntil' = hostUntil
          /\ UNCHANGED <<history, markNow, settings>>
      BY <1>1, <2>1 DEF Mark
    <3>2. MadeRoom(m) \subseteq Known /\ \A k \in Known : MarkLive(k) => k \in MadeRoom(m)
      BY DEF MadeRoom
    <3>3. QED
      BY <3>1, <3>2, DropKeepsInv, Zenon
  <2>2. CASE ~Refuses(m, MadeRoom(m))
    BY <1>1, <2>2, MarkTakenKeepsInv, Zenon
  <2>3. QED
    BY <2>1, <2>2
<1>2. ASSUME Clear PROVE MarkInv'
  <2>1. Known' = {} /\ Cardinality(Known') = 0
    BY <1>2, FS_EmptySet DEF Clear, Known, NoMarks
  <2>2. QED
    BY <1>2, <2>1, MethodBlockAssumption
       DEF Clear, MarkInv, MarkTypeOK, Owes, Blames, OnlySuppliersEscalate, NoMarks, NoEvidence, settings, Times
<1>3. ASSUME Sweep PROVE MarkInv'
  <2>1. Swept \subseteq Known /\ \A m \in Known : MarkLive(m) => m \in Swept
    BY DEF Swept
  <2>2. /\ marks' = Restrict(marks, Swept)
        /\ hostUntil' = hostUntil \/ (hostUntil' = 0 /\ markNow >= hostUntil)
        /\ UNCHANGED <<markNow, settings, history>>
    BY <1>3, Zenon DEF Sweep, DropsHost
  <2>3. QED
    BY <2>1, <2>2, DropKeepsInv
<1>4. ASSUME SetTTL \/ SetClientTTL \/ SetEscalation PROVE MarkInv'
  BY <1>4, Zenon DEF SetTTL, SetClientTTL, SetEscalation, MarkInv, MarkTypeOK, Owes, Blames, OnlySuppliersEscalate, Known, history
<1>5. ASSUME MarkTick PROVE MarkInv'
  <2>1. /\ markNow \in Nat /\ markNow' = markNow + 1 /\ markNow' \in 1..MarkMaxTime
        /\ UNCHANGED <<ttl, clientTTL, escalation, hostUntil, marks, owed, evidence, blame>>
    BY <1>5, MethodBlockAssumption DEF MarkTick, MarkInv, MarkTypeOK, settings, history
  <2>2. \A m \in Method : owed[m] \in Nat
    BY MethodBlockAssumption DEF MarkInv, MarkTypeOK, Times
  <2>3. MarkTypeOK' /\ Blames' /\ OnlySuppliersEscalate'
    BY <2>1 DEF MarkInv, MarkTypeOK, Blames, OnlySuppliersEscalate, Known
  <2>4. Owes'
    BY <2>1, <2>2, MethodBlockAssumption DEF MarkInv, Owes, Known
  <2>5. QED
    BY <2>3, <2>4 DEF MarkInv
<1>6. ASSUME UNCHANGED markVars PROVE MarkInv'
  BY <1>6 DEF markVars, MarkInv, MarkTypeOK, Owes, Blames, OnlySuppliersEscalate, Known, history, settings
<1>7. QED
  BY <1>1, <1>2, <1>3, <1>4, <1>5, <1>6 DEF MarkNext

\* store.go:54: a supplier's mark that was taken in keeps its method away for its
\* whole lifetime, whatever re-marks, floods, sweeps and escalations follow,
\* for any number of methods, any lifetimes, any cap and any threshold.
THEOREM MarksAlwaysKeepMethodsAway == MarkSpec => []MarkKeepsMethodAway
<1>1. MarkInv => MarkKeepsMethodAway
  <2> SUFFICES ASSUME MarkInv, NEW m \in Method, ttl > 0, markNow < owed[m] PROVE Blocked(m)
    BY DEF MarkKeepsMethodAway
  <2>1. CASE markNow >= hostUntil
    BY <2>1, OwedIsLive DEF Blocked
  <2>2. CASE ~(markNow >= hostUntil)
    BY <2>2, MethodBlockAssumption DEF Blocked, MarkInv, MarkTypeOK, Times
  <2>3. QED
    BY <2>1, <2>2
<1>2. QED
  BY <1>1, MarkInitInv, MarkStepKeepsInv, PTL DEF MarkSpec

\* store.go:166: a host-level block always rests on the supplier's faults on
\* enough distinct methods, however a client's marks are mixed in.
THEOREM OnlySuppliersEverEscalate == MarkSpec => []OnlySuppliersEscalate
<1>1. MarkInv => OnlySuppliersEscalate
  BY DEF MarkInv
<1>2. QED
  BY <1>1, MarkInitInv, MarkStepKeepsInv, PTL DEF MarkSpec

-----------------------------------------------------------------------------
(* The suppliers of a session.                                             *)

RelayRec ==
    [at : {"idle", "picked", "addressed", "sent", "verify", "fetched", "done"},
     to : Operators \cup {None}, for : Nat, answer : {None, "good", "bad_signature"},
     first : {None, "get_pub_key", "nil_pub_key", "signature"}, got : {None, "err", "nil", "key"}]

\* What a verification that fails with e says of s: e is the outage of the full
\* node, or s really has no key, or s really signs badly.
Grounds(e, s) ==
    \/ e = "get_pub_key"
    \/ e = "nil_pub_key" /\ s \in LateKeys
    \/ e = "signature" /\ "bad_signature" \in Answering[s]

\* A relay is signed for a session that has begun, and what it holds of its
\* supplier is the supplier's.
RelayHolds(x, n) ==
    /\ x.at \notin {"idle", "done"} => x.to \in Operators
    /\ x.for <= n
    /\ x.at \in {"picked", "addressed", "sent"} => x.first = None
    /\ x.at \in {"verify", "fetched"} =>
           /\ x.answer = "good" \/ (x.answer = "bad_signature" /\ "bad_signature" \in Answering[x.to])
           /\ x.first = None \/ Grounds(x.first, x.to)
    /\ x.at = "fetched" => x.got \in {"err", "key"} \/ (x.got = "nil" /\ x.to \in LateKeys)

SupplyTypeOK ==
    /\ session \in DOMAIN InSession
    /\ keyCache \subseteq Operators /\ nilCache \subseteq Operators \cap LateKeys
    /\ Operators \ LateKeys \subseteq onChain
    /\ relay \in [RelayIds -> RelayRec]
    /\ load \in [end : Nat, n : [Operators -> Nat]]

RelaysHold == \A r \in RelayIds : RelayHolds(relay[r], session)

\* What was refused in the session under way is excluded, and nothing else is.
RefusalsKept ==
    /\ overServed \subseteq refusals
    /\ \A x \in refusals : x \in Operators \X Nat /\ x[2] <= session
    /\ \A x \in refusals : x[2] = session => x \in overServed

\* A relay is sent once, and the load has what was sent for its session.
SendsCounted ==
    /\ IsFiniteSet(sentTo) /\ sentTo \subseteq RelayIds \X Operators \X Nat
    /\ \A x \in sentTo : relay[x[1]].at \notin {"idle", "picked", "addressed"}
    /\ LoadIsOneSessions

SupplyInv == SupplyTypeOK /\ RelaysHold /\ RefusalsKept /\ SendsCounted /\ NoInnocentBlacklisted

\* Sessions are numbered from 1, and their suppliers are operators.
LEMMA SessionFacts ==
    /\ 1 \in DOMAIN InSession
    /\ \A n \in DOMAIN InSession : n \in Nat /\ n >= 1 /\ InSession[n] \subseteq Operators
<1>1. Len(InSession) \in Nat /\ DOMAIN InSession = 1..Len(InSession) /\ Len(InSession) # 0
  BY SuppliersAssumption
<1>2. \A n \in 1..Len(InSession) : InSession[n] \in SUBSET Operators
  BY SuppliersAssumption
<1>3. QED
  BY <1>1, <1>2

\* A pod starts with no relay, no count and nobody kept out.
LEMMA SupplyInitInv == SuppliersInit => SupplyInv
<1> SUFFICES ASSUME SuppliersInit PROVE SupplyInv
  OBVIOUS
<1>0. Idle \in RelayRec
  BY DEF Idle, RelayRec
<1>1. SupplyTypeOK
  BY <1>0, SessionFacts, Zenon DEF SuppliersInit, SupplyTypeOK
<1>2. RelaysHold
  BY DEF SuppliersInit, RelaysHold, RelayHolds, Idle
<1>3. RefusalsKept
  BY DEF SuppliersInit, RefusalsKept
<1>4. SendsCounted
  <2>1. \A s \in Operators : {x \in sentTo : x[2] = s /\ x[3] = load.end} = {}
    BY DEF SuppliersInit
  <2>2. Cardinality({}) = 0 /\ IsFiniteSet({})
    BY FS_EmptySet
  <2>3. LoadIsOneSessions
    BY <2>1, <2>2 DEF SuppliersInit, LoadIsOneSessions
  <2>4. QED
    BY <2>2, <2>3 DEF SuppliersInit, SendsCounted
<1>5. NoInnocentBlacklisted
  BY DEF SuppliersInit, NoInnocentBlacklisted
<1>6. QED
  BY <1>1, <1>2, <1>3, <1>4, <1>5 DEF SupplyInv

\* endpoints only offers operators of the session that are not kept out.
LEMMA EndpointsEligible == Endpoints \subseteq Eligible("want") \/ Endpoints \subseteq Eligible("fallback")
  BY DEF Endpoints, FirstPass, Unlisted

\* A relay moves on: the others hold as they did.
LEMMA RelayStep ==
    ASSUME SupplyInv, NEW r \in RelayIds, NEW x \in RelayRec, Set(r, x), RelayHolds(x, session),
           session' = session
    PROVE  /\ relay' \in [RelayIds -> RelayRec] /\ RelaysHold'
           /\ relay'[r] = x /\ \A q \in RelayIds \ {r} : relay'[q] = relay[q]
<1>1. relay \in [RelayIds -> RelayRec] /\ RelaysHold
  BY DEF SupplyInv, SupplyTypeOK
<1>2. relay'[r] = x /\ \A q \in RelayIds \ {r} : relay'[q] = relay[q]
  BY <1>1 DEF Set
<1>3. relay' \in [RelayIds -> RelayRec]
  BY <1>1 DEF Set
<1>4. \A q \in RelayIds : RelayHolds(relay'[q], session')
  BY <1>1, <1>2 DEF RelaysHold
<1>5. QED
  BY <1>2, <1>3, <1>4 DEF RelaysHold

\* Relays that are past sending stay so, and the books are as they were.
LEMMA BooksKept ==
    ASSUME SupplyInv, UNCHANGED <<load, sentTo>>,
           \A q \in RelayIds : relay[q].at \notin {"idle", "picked", "addressed"} =>
               relay'[q].at \notin {"idle", "picked", "addressed"}
    PROVE  SendsCounted'
<1>1. SendsCounted
  BY DEF SupplyInv
<1>2. \A x \in sentTo : x[1] \in RelayIds
  BY <1>1 DEF SendsCounted
<1>3. LoadIsOneSessions'
  BY <1>1, Zenon DEF SendsCounted, LoadIsOneSessions
<1>4. QED
  BY <1>1, <1>2, <1>3 DEF SendsCounted

\* Everything but the relays is as it was.
LEMMA RelayAlone ==
    ASSUME SupplyInv, NEW r \in RelayIds, NEW x \in RelayRec, Set(r, x), RelayHolds(x, session),
           UNCHANGED <<poolVars, keyVars, bookVars>>,
           relay[r].at \notin {"idle", "picked", "addressed"} => x.at \notin {"idle", "picked", "addressed"}
    PROVE  SupplyInv'
<1>0. UNCHANGED <<session, blacklisted, overServed, keyCache, nilCache, onChain, load, refusals, sentTo>>
  BY Zenon DEF poolVars, keyVars, bookVars
<1>1. relay' \in [RelayIds -> RelayRec] /\ RelaysHold' /\ relay'[r] = x
      /\ \A q \in RelayIds \ {r} : relay'[q] = relay[q]
  BY <1>0, RelayStep
<1>2. SupplyTypeOK'
  BY <1>0, <1>1 DEF SupplyInv, SupplyTypeOK
<1>3. RefusalsKept'
  BY <1>0 DEF SupplyInv, RefusalsKept
<1>4. SendsCounted'
  BY <1>0, <1>1, BooksKept, Zenon
<1>5. NoInnocentBlacklisted'
  BY <1>0 DEF SupplyInv, NoInnocentBlacklisted
<1>6. QED
  BY <1>1, <1>2, <1>3, <1>4, <1>5 DEF SupplyInv

\* The relay as it is, and ended.
LEMMA RelayFacts ==
    ASSUME SupplyInv, NEW r \in RelayIds
    PROVE  /\ relay[r] \in RelayRec /\ RelayHolds(relay[r], session)
           /\ session \in Nat /\ session >= 1
           /\ [Idle EXCEPT !.at = "done"] \in RelayRec /\ [Idle EXCEPT !.at = "done"].at = "done"
           /\ RelayHolds([Idle EXCEPT !.at = "done"], session)
<1>1. relay[r] \in RelayRec /\ RelayHolds(relay[r], session)
  BY DEF SupplyInv, SupplyTypeOK, RelaysHold
<1>2. session \in Nat /\ session >= 1
  BY SessionFacts DEF SupplyInv, SupplyTypeOK
<1>3. [Idle EXCEPT !.at = "done"] \in RelayRec /\ [Idle EXCEPT !.at = "done"].at = "done"
  BY DEF Idle, RelayRec
<1>4. RelayHolds([Idle EXCEPT !.at = "done"], session)
  BY <1>2 DEF Idle, RelayHolds
<1>5. QED
  BY <1>1, <1>2, <1>3, <1>4

\* A relay is picked, addressed or given up.
LEMMA PickKeepsInv ==
    ASSUME SupplyInv, NEW r \in RelayIds, Select(r) \/ Address(r) \/ SignFails(r)
    PROVE  SupplyInv'
<1>0. /\ relay[r] \in RelayRec /\ RelayHolds(relay[r], session) /\ session \in Nat /\ session >= 1
      /\ [Idle EXCEPT !.at = "done"] \in RelayRec /\ [Idle EXCEPT !.at = "done"].at = "done"
      /\ RelayHolds([Idle EXCEPT !.at = "done"], session)
  BY RelayFacts
<1>1. CASE Select(r)
  <2>1. PICK s \in Endpoints : Set(r, [Idle EXCEPT !.at = "picked", !.to = s])
    BY <1>1, Zenon DEF Select
  <2>2. s \in Operators
    <3>1. s \in InSession[session]
      BY EndpointsEligible DEF Eligible
    <3>2. session \in DOMAIN InSession
      BY DEF SupplyInv, SupplyTypeOK
    <3>3. QED
      BY <3>1, <3>2, SessionFacts
  <2> DEFINE x == [Idle EXCEPT !.at = "picked", !.to = s]
  <2>3. x \in RelayRec /\ RelayHolds(x, session)
    BY <1>0, <2>2, Zenon DEF Idle, RelayRec, RelayHolds
  <2>4. relay[r].at = "idle" /\ UNCHANGED <<poolVars, keyVars, bookVars>>
    BY <1>1, Zenon DEF Select
  <2> HIDE DEF x
  <2>5. QED
    BY <2>1, <2>3, <2>4, RelayAlone, Zenon DEF x
<1>2. CASE Address(r)
  <2>1. relay[r].at = "picked" /\ UNCHANGED <<poolVars, keyVars, bookVars>>
    BY <1>2 DEF Address
  <2> DEFINE x == [relay[r] EXCEPT !.at = "addressed", !.for = session]
  <2>2. x \in RelayRec /\ RelayHolds(x, session)
    <3>1. x \in RelayRec
      BY <1>0, Zenon DEF RelayRec
    <3>2. x.at = "addressed" /\ x.for = session /\ x.to = relay[r].to /\ x.first = relay[r].first
      BY <1>0 DEF RelayRec
    <3>3. relay[r].to \in Operators /\ relay[r].first = None
      BY <1>0, <2>1 DEF RelayHolds
    <3>4. QED
      BY <1>0, <3>1, <3>2, <3>3 DEF RelayHolds
  <2>3. Set(r, x) \/ Set(r, [Idle EXCEPT !.at = "done"])
    BY <1>2 DEF Address
  <2> HIDE DEF x
  <2>4. QED
    BY <1>0, <2>1, <2>2, <2>3, RelayAlone
<1>3. CASE SignFails(r)
  BY <1>0, <1>3, RelayAlone DEF SignFails
<1>4. QED
  BY <1>1, <1>2, <1>3

\* The relays of S sent to s for session e.
SentIn(S, s, e) == {x \in S : x[2] = s /\ x[3] = e}

\* The counts after one more relay.
LEMMA CountsOne ==
    ASSUME IsFiniteSet(sentTo), NEW e, NEW s, NEW y, y \notin sentTo
    PROVE  /\ y[2] = s /\ y[3] = e =>
                  Cardinality(SentIn(sentTo \cup {y}, s, e)) = Cardinality(SentIn(sentTo, s, e)) + 1
           /\ ~(y[2] = s /\ y[3] = e) => SentIn(sentTo \cup {y}, s, e) = SentIn(sentTo, s, e)
<1>1. IsFiniteSet(SentIn(sentTo, s, e)) /\ y \notin SentIn(sentTo, s, e)
  BY FS_Subset DEF SentIn
<1>2. y[2] = s /\ y[3] = e => SentIn(sentTo \cup {y}, s, e) = SentIn(sentTo, s, e) \cup {y}
  BY DEF SentIn
<1>3. Cardinality(SentIn(sentTo, s, e) \cup {y}) = Cardinality(SentIn(sentTo, s, e)) + 1
  BY <1>1, FS_AddElement, Zenon
<1>4. ~(y[2] = s /\ y[3] = e) => SentIn(sentTo \cup {y}, s, e) = SentIn(sentTo, s, e)
  BY DEF SentIn
<1>5. QED
  BY <1>2, <1>3, <1>4

\* sessionLoad.add counts a relay for the latest session it has seen only.
LEMMA SendKeepsInv ==
    ASSUME SupplyInv, NEW r \in RelayIds, Send(r)
    PROVE  SupplyInv'
<1>0. relay[r] \in RelayRec /\ RelayHolds(relay[r], session) /\ session \in Nat
  BY RelayFacts
<1> DEFINE x == [relay[r] EXCEPT !.at = "sent"]
           e == relay[r].for
           s == relay[r].to
           y == <<r, s, e>>
<1>1. /\ relay[r].at = "addressed" /\ Set(r, x)
      /\ UNCHANGED <<session, blacklisted, overServed, keyCache, nilCache, onChain, refusals>>
  BY DEF Send, poolVars, keyVars
<1>2. e \in Nat /\ s \in Operators
  BY <1>0, <1>1 DEF RelayRec, RelayHolds
<1>3. x \in RelayRec /\ RelayHolds(x, session) /\ x.at = "sent"
  BY <1>0, <1>1 DEF RelayRec, RelayHolds
<1>4. r \notin DebugRelays => load' = LoadAdd(e, s) /\ sentTo' = sentTo \cup {y}
  BY DEF Send
<1>5. r \in DebugRelays => UNCHANGED <<load, sentTo>>
  BY DEF Send
<1> HIDE DEF x
<1>6. /\ relay' \in [RelayIds -> RelayRec] /\ RelaysHold' /\ relay'[r] = x
      /\ \A q \in RelayIds \ {r} : relay'[q] = relay[q]
  BY <1>1, <1>3, RelayStep
<1>7. load' \in [end : Nat, n : [Operators -> Nat]] /\ SendsCounted'
  <2>0. SendsCounted /\ load \in [end : Nat, n : [Operators -> Nat]]
    BY DEF SupplyInv, SupplyTypeOK
  <2>1. CASE r \in DebugRelays
    BY <1>1, <1>3, <1>5, <1>6, <2>0, <2>1, BooksKept, Zenon
  <2>2. CASE r \notin DebugRelays
    <3>1. load' = LoadAdd(e, s) /\ sentTo' = sentTo \cup {y} /\ y \in RelayIds \X Operators \X Nat
      BY <1>2, <1>4, <2>2, Zenon
    <3>2. y \notin sentTo /\ IsFiniteSet(sentTo)
      BY <1>1, <2>0 DEF SendsCounted
    <3>3. /\ \A z \in sentTo : z[3] \in Nat /\ z[3] <= load.end
          /\ \A o \in Operators : load.n[o] = Cardinality(SentIn(sentTo, o, load.end))
      BY <2>0 DEF SendsCounted, LoadIsOneSessions, SentIn
    <3> HIDE DEF e, s
    <3>4. ASSUME e > load.end PROVE load' \in [end : Nat, n : [Operators -> Nat]] /\ LoadIsOneSessions'
      <4>1. load' = [end |-> e, n |-> [o \in Operators |-> IF o = s THEN 1 ELSE 0]]
        BY <1>2, <2>0, <3>1, <3>4 DEF LoadAdd
      <4>2. \A z \in sentTo' : z[3] <= load'.end
        BY <1>2, <2>0, <3>1, <3>3, <3>4, <4>1
      <4>3. ASSUME NEW o \in Operators
            PROVE  load'.n[o] = Cardinality(SentIn(sentTo', o, load'.end))
        <5>1. SentIn(sentTo, o, e) = {}
          BY <1>2, <2>0, <3>3, <3>4 DEF SentIn
        <5>2. Cardinality({}) = 0
          BY FS_EmptySet
        <5>3. CASE o = s
          <6>1. Cardinality(SentIn(sentTo \cup {y}, o, e)) = Cardinality(SentIn(sentTo, o, e)) + 1
            BY <3>2, <5>3, CountsOne
          <6>2. Cardinality(SentIn(sentTo, o, e)) = 0
            BY <5>1, <5>2
          <6>3. QED
            BY <3>1, <4>1, <5>3, <6>1, <6>2
        <5>4. CASE o # s
          <6>1. SentIn(sentTo \cup {y}, o, e) = {}
            BY <3>2, <5>1, <5>4, CountsOne
          <6>2. QED
            BY <3>1, <4>1, <5>2, <5>4, <6>1
        <5>5. QED
          BY <5>3, <5>4
      <4>4. QED
        BY <1>2, <3>1, <4>1, <4>2, <4>3 DEF LoadIsOneSessions, SentIn
    <3>5. ASSUME e = load.end PROVE load' \in [end : Nat, n : [Operators -> Nat]] /\ LoadIsOneSessions'
      <4>1. load' = [load EXCEPT !.n[s] = @ + 1]
        BY <1>2, <2>0, <3>1, <3>5 DEF LoadAdd
      <4>2. /\ load' \in [end : Nat, n : [Operators -> Nat]] /\ load'.end = load.end
            /\ load'.n[s] = load.n[s] + 1 /\ \A o \in Operators \ {s} : load'.n[o] = load.n[o]
        BY <1>2, <2>0, <4>1
      <4>3. \A z \in sentTo' : z[3] <= load'.end
        BY <1>2, <2>0, <3>1, <3>3, <3>5, <4>2
      <4>4. ASSUME NEW o \in Operators
            PROVE  load'.n[o] = Cardinality(SentIn(sentTo', o, load'.end))
        <5>1. load.n[o] = Cardinality(SentIn(sentTo, o, e))
          BY <3>3, <3>5
        <5>2. CASE o = s
          <6>1. Cardinality(SentIn(sentTo \cup {y}, o, e)) = load.n[o] + 1
            BY <1>2, <3>2, <5>1, <5>2, CountsOne
          <6>2. QED
            BY <3>1, <3>5, <4>2, <5>2, <6>1, Zenon
        <5>3. CASE o # s
          <6>1. SentIn(sentTo \cup {y}, o, e) = SentIn(sentTo, o, e)
            BY <3>2, <5>3, CountsOne
          <6>2. QED
            BY <3>1, <3>5, <4>2, <5>1, <5>3, <6>1, Zenon
        <5>4. QED
          BY <5>2, <5>3
      <4>5. QED
        BY <4>2, <4>3, <4>4 DEF LoadIsOneSessions, SentIn
    <3>6. ASSUME e < load.end PROVE load' \in [end : Nat, n : [Operators -> Nat]] /\ LoadIsOneSessions'
      <4>1. load' = load
        BY <1>2, <2>0, <3>1, <3>6 DEF LoadAdd
      <4>2. \A z \in sentTo' : z[3] <= load'.end
        BY <1>2, <2>0, <3>1, <3>3, <3>6, <4>1
      <4>3. \A o \in Operators : SentIn(sentTo', o, load'.end) = SentIn(sentTo, o, load.end)
        BY <1>2, <2>0, <3>1, <3>6, <4>1 DEF SentIn
      <4>4. QED
        BY <2>0, <3>3, <4>1, <4>2, <4>3 DEF LoadIsOneSessions, SentIn
    <3>7. load' \in [end : Nat, n : [Operators -> Nat]] /\ LoadIsOneSessions'
      <4>1. e > load.end \/ e = load.end \/ e < load.end
        BY <1>2, <2>0
      <4>2. QED
        BY <3>4, <3>5, <3>6, <4>1
    <3>8. IsFiniteSet(sentTo') /\ sentTo' \subseteq RelayIds \X Operators \X Nat
      BY <2>0, <3>1, FS_AddElement, Zenon DEF SendsCounted
    <3>9. \A z \in sentTo' : relay'[z[1]].at \notin {"idle", "picked", "addressed"}
      <4>1. \A z \in sentTo : z[1] \in RelayIds /\ relay[z[1]].at \notin {"idle", "picked", "addressed"}
        BY <2>0 DEF SendsCounted
      <4>2. QED
        BY <1>3, <1>6, <3>1, <4>1
    <3>10. QED
      BY <3>7, <3>8, <3>9, Zenon DEF SendsCounted
  <2>3. QED
    BY <2>1, <2>2
<1>8. SupplyTypeOK'
  BY <1>1, <1>6, <1>7, Zenon DEF SupplyInv, SupplyTypeOK
<1>9. RefusalsKept' /\ NoInnocentBlacklisted'
  BY <1>1 DEF SupplyInv, RefusalsKept, NoInnocentBlacklisted
<1>10. QED
  BY <1>6, <1>7, <1>8, <1>9 DEF SupplyInv

\* What a step of a relay that is past sending leaves: the books, and who is
\* blacklisted for it.
LEMMA AnswerStep ==
    ASSUME SupplyInv, NEW r \in RelayIds, NEW x \in RelayRec, Set(r, x), RelayHolds(x, session),
           x.at \notin {"idle", "picked", "addressed"}, UNCHANGED <<session, load, sentTo>>
    PROVE  /\ relay' \in [RelayIds -> RelayRec] /\ load' \in [end : Nat, n : [Operators -> Nat]]
           /\ session' \in DOMAIN InSession /\ RelaysHold' /\ SendsCounted'
<1>1. /\ relay' \in [RelayIds -> RelayRec] /\ RelaysHold' /\ relay'[r] = x
      /\ \A q \in RelayIds \ {r} : relay'[q] = relay[q]
  BY RelayStep
<1>2. SendsCounted'
  BY <1>1, BooksKept
<1>3. QED
  BY <1>1, <1>2, Zenon DEF SupplyInv, SupplyTypeOK

\* overServed.mark keeps the exclusions of the session the refusal is of and of
\* those after it.
LEMMA MarkedKeeps ==
    ASSUME SupplyInv, NEW s \in Operators, NEW e \in Nat, e <= session,
           overServed' = Marked(s, e), refusals' = refusals \cup {<<s, e>>}, session' = session
    PROVE  RefusalsKept'
<1>0. RefusalsKept /\ session \in Nat
  BY SessionFacts DEF SupplyInv, SupplyTypeOK
<1>1. \A k \in overServed : k[2] \in Nat /\ k[2] <= session
  BY <1>0 DEF RefusalsKept
<1>2. overServed' \subseteq refusals'
  BY <1>0 DEF Marked, RefusalsKept
<1>3. \A x \in refusals' : x \in Operators \X Nat /\ x[2] <= session
  BY <1>0 DEF RefusalsKept
<1>4. ASSUME NEW x \in refusals', x[2] = session PROVE x \in overServed'
  <2>1. CASE x = <<s, e>>
    BY <2>1 DEF Marked
  <2>2. CASE x # <<s, e>>
    <3>1. x \in overServed
      BY <1>0, <1>4, <2>2 DEF RefusalsKept
    <3>2. x[2] >= e
      BY <1>0, <1>4
    <3>3. QED
      BY <3>1, <3>2 DEF Marked
  <2>3. QED
    BY <2>1, <2>2
<1>5. QED
  BY <1>2, <1>3, <1>4 DEF RefusalsKept

\* An answer arrives.
LEMMA ReceiveKeepsInv ==
    ASSUME SupplyInv, NEW r \in RelayIds, Receive(r)
    PROVE  SupplyInv'
<1> DEFINE s == relay[r].to
           done == [Idle EXCEPT !.at = "done"]
<1>0. /\ relay[r] \in RelayRec /\ RelayHolds(relay[r], session) /\ session \in Nat
      /\ done \in RelayRec /\ done.at = "done" /\ RelayHolds(done, session)
  BY RelayFacts
<1>1. relay[r].at = "sent" /\ UNCHANGED <<session, keyCache, nilCache, onChain, load, sentTo>>
  BY DEF Receive, keyVars
<1>2. s \in Operators /\ relay[r].for \in Nat /\ relay[r].for <= session
  BY <1>0, <1>1, Zenon DEF RelayRec, RelayHolds
<1>3. PICK a \in Answering[s] \cup {"transport"} :
          CASE a \in {"over_served", "unsigned_over_served"} ->
                       /\ overServed' = Marked(s, relay[r].for)
                       /\ refusals' = refusals \cup {<<s, relay[r].for>>}
                       /\ Set(r, done) /\ UNCHANGED blacklisted
            [] a \in {"transport", "status", "unsigned", "too_large"} ->
                       Set(r, done) /\ UNCHANGED <<overServed, refusals, blacklisted>>
            [] a = "garbled" ->
                       /\ blacklisted' = IF r \in DebugRelays THEN blacklisted ELSE blacklisted \cup {s}
                       /\ Set(r, done) /\ UNCHANGED <<overServed, refusals>>
            [] a \in {"good", "bad_signature"} ->
                       /\ Set(r, [relay[r] EXCEPT !.at = "verify", !.answer = a])
                       /\ UNCHANGED <<overServed, refusals, blacklisted>>
  BY Zenon DEF Receive
<1>4. a \in Answers \cup {"transport"}
  BY <1>2, SuppliersAssumption, Zenon
<1> HIDE DEF done, s
<1>5. ASSUME Set(r, done)
      PROVE  /\ relay' \in [RelayIds -> RelayRec] /\ load' \in [end : Nat, n : [Operators -> Nat]]
             /\ session' \in DOMAIN InSession /\ RelaysHold' /\ SendsCounted'
  BY <1>0, <1>1, <1>5, AnswerStep, Zenon
<1>6. ASSUME relay' \in [RelayIds -> RelayRec], load' \in [end : Nat, n : [Operators -> Nat]],
             session' \in DOMAIN InSession
      PROVE  SupplyTypeOK'
  BY <1>1, <1>6 DEF SupplyInv, SupplyTypeOK
<1>7. UNCHANGED <<overServed, refusals>> => RefusalsKept'
  BY <1>1 DEF SupplyInv, RefusalsKept
<1>8. UNCHANGED blacklisted => NoInnocentBlacklisted'
  BY ZenonT(60) DEF SupplyInv, NoInnocentBlacklisted
<1>9. CASE a \in {"over_served", "unsigned_over_served"}
  <2>1. Set(r, done) /\ UNCHANGED blacklisted /\ overServed' = Marked(s, relay[r].for)
        /\ refusals' = refusals \cup {<<s, relay[r].for>>}
    BY <1>3, <1>9, Zenon
  <2>2. RefusalsKept'
    BY <1>1, <1>2, <2>1, MarkedKeeps, ZenonT(60)
  <2>3. QED
    BY <1>5, <1>6, <1>8, <2>1, <2>2 DEF SupplyInv
<1>10. CASE a \in {"transport", "status", "unsigned", "too_large"}
  <2>1. Set(r, done) /\ UNCHANGED blacklisted /\ UNCHANGED <<overServed, refusals>>
    BY <1>3, <1>10, Zenon
  <2>2. QED
    BY <1>5, <1>6, <1>7, <1>8, <2>1 DEF SupplyInv
<1>11. CASE a = "garbled"
  <2>1. Set(r, done) /\ UNCHANGED <<overServed, refusals>> /\ blacklisted' \subseteq blacklisted \cup {s}
    BY <1>3, <1>11
  <2>2. "garbled" \in Answering[s]
    BY <1>11
  <2>3. NoInnocentBlacklisted'
    BY <2>1, <2>2, Zenon DEF SupplyInv, NoInnocentBlacklisted
  <2>4. QED
    BY <1>5, <1>6, <1>7, <2>1, <2>3 DEF SupplyInv
<1>12. CASE a \in {"good", "bad_signature"}
  <2> DEFINE x == [relay[r] EXCEPT !.at = "verify", !.answer = a]
  <2>1. Set(r, x) /\ UNCHANGED blacklisted /\ UNCHANGED <<overServed, refusals>>
    BY <1>3, <1>12, Zenon
  <2>2. x \in RelayRec
    BY <1>0, <1>12, Zenon DEF RelayRec
  <2>3. x.at = "verify" /\ x.answer = a /\ x.for = relay[r].for /\ x.to = s /\ x.first = relay[r].first
    BY <1>0, Zenon DEF RelayRec, s
  <2>4. relay[r].first = None
    BY <1>0, <1>1 DEF RelayHolds
  <2>5. RelayHolds(x, session)
    BY <1>2, <1>12, <2>3, <2>4, Zenon DEF RelayHolds
  <2> HIDE DEF x
  <2>6. /\ relay' \in [RelayIds -> RelayRec] /\ load' \in [end : Nat, n : [Operators -> Nat]]
        /\ session' \in DOMAIN InSession /\ RelaysHold' /\ SendsCounted'
    BY <1>1, <2>1, <2>2, <2>3, <2>5, AnswerStep, Zenon
  <2>7. QED
    BY <1>6, <1>7, <1>8, <2>1, <2>6 DEF SupplyInv
<1>13. QED
  BY <1>4, <1>9, <1>10, <1>11, <1>12 DEF Answers

\* The full node is asked for the key, and may fail.
LEMMA FetchKeepsInv ==
    ASSUME SupplyInv, NEW r \in RelayIds, Fetch(r)
    PROVE  SupplyInv'
<1>0. relay[r] \in RelayRec /\ RelayHolds(relay[r], session)
  BY RelayFacts
<1>1. relay[r].at = "verify" /\ UNCHANGED <<poolVars, keyVars, bookVars>>
  BY DEF Fetch
<1>2. PICK got \in {"err", IF relay[r].to \in onChain THEN "key" ELSE "nil"} :
          Set(r, [relay[r] EXCEPT !.at = "fetched", !.got = got])
  BY Zenon DEF Fetch
<1> DEFINE x == [relay[r] EXCEPT !.at = "fetched", !.got = got]
<1>3. x \in RelayRec
  BY <1>0, Zenon DEF RelayRec
<1>4. /\ x.at = "fetched" /\ x.got = got /\ x.for = relay[r].for /\ x.to = relay[r].to
      /\ x.first = relay[r].first /\ x.answer = relay[r].answer
  BY <1>0, Zenon DEF RelayRec
<1>5. relay[r].to \in Operators
  BY <1>0, <1>1 DEF RelayHolds
<1>6. got \in {"err", "key"} \/ (got = "nil" /\ relay[r].to \in LateKeys)
  BY <1>5 DEF SupplyInv, SupplyTypeOK
<1>7. RelayHolds(x, session)
  BY <1>0, <1>1, <1>4, <1>6 DEF RelayHolds
<1> HIDE DEF x
<1>8. QED
  BY <1>1, <1>2, <1>3, <1>4, <1>7, RelayAlone, Zenon DEF x

\* The verdict on the answer with the key at hand: a failure rests on grounds.
LEMMA VerdictGrounds ==
    ASSUME NEW answer, NEW key \in {"err", "nil", "key"}, NEW s,
           answer = "good" \/ (answer = "bad_signature" /\ "bad_signature" \in Answering[s]),
           key = "nil" => s \in LateKeys
    PROVE  /\ Verdict(answer, key) \in {"ok", "get_pub_key", "nil_pub_key", "signature"}
           /\ Verdict(answer, key) # "ok" => Grounds(Verdict(answer, key), s)
  BY DEF Verdict, Grounds

\* The answer is verified: it is tried again with a new key, or concluded.
LEMMA VerdictKeepsInv ==
    ASSUME SupplyInv, NEW r \in RelayIds, NEW key \in {"err", "nil", "key"},
           relay[r].at \in {"verify", "fetched"}, key = "nil" => relay[r].to \in LateKeys,
           Retries(r, key) \/ Concludes(r, key),
           UNCHANGED <<session, overServed, onChain, bookVars>>,
           keyCache' \subseteq keyCache \cup {relay[r].to},
           nilCache' \subseteq nilCache \cup (IF key = "nil" THEN {relay[r].to} ELSE {})
    PROVE  SupplyInv'
<1> DEFINE s == relay[r].to
           now == Verdict(relay[r].answer, key)
<1>0. /\ relay[r] \in RelayRec /\ RelayHolds(relay[r], session) /\ session \in Nat
      /\ [Idle EXCEPT !.at = "done"] \in RelayRec /\ [Idle EXCEPT !.at = "done"].at = "done"
      /\ RelayHolds([Idle EXCEPT !.at = "done"], session)
  BY RelayFacts
<1>1. /\ s \in Operators /\ relay[r].for <= session
      /\ relay[r].answer = "good" \/ (relay[r].answer = "bad_signature" /\ "bad_signature" \in Answering[s])
      /\ relay[r].first = None \/ Grounds(relay[r].first, s)
  BY <1>0, Zenon DEF RelayHolds
<1>2. /\ now \in {"ok", "get_pub_key", "nil_pub_key", "signature"}
      /\ now # "ok" => Grounds(now, s)
  BY <1>1, VerdictGrounds, Zenon
<1>3. UNCHANGED <<load, refusals, sentTo>>
  BY DEF bookVars
<1>4. RefusalsKept'
  BY <1>3, Zenon DEF SupplyInv, RefusalsKept
<1>5. keyCache' \subseteq Operators /\ nilCache' \subseteq Operators \cap LateKeys
  BY <1>1, Zenon DEF SupplyInv, SupplyTypeOK
<1>6. ASSUME NEW x \in RelayRec, Set(r, x), RelayHolds(x, session), x.at \notin {"idle", "picked", "addressed"}
      PROVE  SupplyTypeOK' /\ RelaysHold' /\ SendsCounted'
  <2>1. /\ relay' \in [RelayIds -> RelayRec] /\ load' \in [end : Nat, n : [Operators -> Nat]]
        /\ session' \in DOMAIN InSession /\ RelaysHold' /\ SendsCounted'
    BY <1>3, <1>6, AnswerStep
  <2>2. Operators \ LateKeys \subseteq onChain'
    BY ZenonT(60) DEF SupplyInv, SupplyTypeOK
  <2>3. QED
    BY <1>5, <2>1, <2>2, Zenon DEF SupplyTypeOK
<1>7. CASE Retries(r, key)
  <2> DEFINE x == [relay[r] EXCEPT !.at = "verify", !.first = now, !.got = None]
  <2>1. now # "ok" /\ Set(r, x) /\ UNCHANGED blacklisted
    BY <1>7 DEF Retries
  <2>2. x \in RelayRec
    BY <1>0, <1>2, <2>1, Zenon DEF RelayRec
  <2>3. x.at = "verify" /\ x.first = now /\ x.to = s /\ x.for = relay[r].for /\ x.answer = relay[r].answer
    BY <1>0 DEF RelayRec
  <2>4. RelayHolds(x, session)
    BY <1>1, <1>2, <2>1, <2>3, Zenon DEF RelayHolds
  <2> HIDE DEF x
  <2>5. SupplyTypeOK' /\ RelaysHold' /\ SendsCounted'
    BY <1>6, <2>1, <2>2, <2>3, <2>4, Zenon
  <2>6. NoInnocentBlacklisted'
    BY <2>1, Zenon DEF SupplyInv, NoInnocentBlacklisted
  <2>7. QED
    BY <1>4, <2>5, <2>6 DEF SupplyInv
<1>8. CASE Concludes(r, key)
  <2> DEFINE error == IF relay[r].first = None THEN now ELSE relay[r].first
  <2>1. Set(r, [Idle EXCEPT !.at = "done"])
    BY <1>8 DEF Concludes
  <2>2. blacklisted' = IF now # "ok" /\ SupplierError(error) /\ r \notin DebugRelays
                       THEN blacklisted \cup {s} ELSE blacklisted
    BY <1>8 DEF Concludes
  <2>3. SupplyTypeOK' /\ RelaysHold' /\ SendsCounted'
    BY <1>0, <1>6, <2>1, Zenon
  <2>4. now # "ok" /\ SupplierError(error) => s \in LateKeys \/ "bad_signature" \in Answering[s]
    BY <1>1, <1>2, Zenon DEF Grounds, SupplierError
  <2>5. NoInnocentBlacklisted'
    BY <2>2, <2>4, Zenon DEF SupplyInv, NoInnocentBlacklisted
  <2>6. QED
    BY <1>4, <2>3, <2>5 DEF SupplyInv
<1>9. QED
  BY <1>7, <1>8

\* The key comes from the cache, or from the fetch that was noted.
LEMMA VerifyKeepsInv ==
    ASSUME SupplyInv, NEW r \in RelayIds, Verify(r) \/ Note(r)
    PROVE  SupplyInv'
<1>0. relay[r] \in RelayRec /\ RelayHolds(relay[r], session)
  BY RelayFacts
<1>n. nilCache \subseteq LateKeys
  BY Zenon DEF SupplyInv, SupplyTypeOK
<1>1. CASE Verify(r)
  <2> DEFINE key == IF relay[r].to \in keyCache THEN "key" ELSE "nil"
  <2>1. /\ relay[r].at = "verify" /\ relay[r].to \in keyCache \cup nilCache
        /\ Retries(r, key) \/ (Concludes(r, key) /\ UNCHANGED <<keyCache, nilCache>>)
        /\ UNCHANGED <<session, overServed, onChain, bookVars>>
    BY <1>1, Zenon DEF Verify
  <2>2. key \in {"err", "nil", "key"} /\ (key = "nil" => relay[r].to \in LateKeys)
    BY <1>n, <2>1
  <2> HIDE DEF key
  <2>3. keyCache' \subseteq keyCache /\ nilCache' \subseteq nilCache
    BY <2>1, Zenon DEF Retries, Invalidated
  <2>4. QED
    BY <2>1, <2>2, <2>3, VerdictKeepsInv, Zenon
<1>2. CASE Note(r)
  <2> DEFINE got == relay[r].got
  <2>1. /\ relay[r].at = "fetched"
        /\ \/ Retries(r, got)
           \/ /\ Concludes(r, got)
              /\ keyCache' = Store(got, relay[r].to) /\ nilCache' = MarkNil(got, relay[r].to)
        /\ UNCHANGED <<session, overServed, onChain, bookVars>>
    BY <1>2, Zenon DEF Note
  <2>2. got \in {"err", "nil", "key"} /\ (got = "nil" => relay[r].to \in LateKeys)
    BY <1>0, <2>1, Zenon DEF RelayHolds
  <2> HIDE DEF got
  <2>3. /\ keyCache' \subseteq keyCache \cup {relay[r].to}
        /\ nilCache' \subseteq nilCache \cup (IF got = "nil" THEN {relay[r].to} ELSE {})
    BY <2>1 DEF Retries, Invalidated, Store, MarkNil
  <2>4. QED
    BY <2>1, <2>2, <2>3, VerdictKeepsInv, Zenon
<1>3. QED
  BY <1>1, <1>2

\* Sessions roll over, bans, drains and scores change, timers clear entries and
\* keys appear: no relay moves and no book is written.
LEMMA AroundKeepsInv ==
    ASSUME SupplyInv, UNCHANGED <<overServed, bookVars, relay>>,
           session' \in DOMAIN InSession, session <= session', session' # session => session' = session + 1,
           blacklisted' \subseteq blacklisted, UNCHANGED keyCache, nilCache' \subseteq nilCache, onChain \subseteq onChain'
    PROVE  SupplyInv'
<1>0. session \in Nat /\ session' \in Nat
  BY SessionFacts DEF SupplyInv, SupplyTypeOK
<1>1. UNCHANGED <<load, refusals, sentTo>>
  BY DEF bookVars
<1>2. SupplyTypeOK'
  BY <1>1 DEF SupplyInv, SupplyTypeOK
<1>3. RelaysHold'
  <2>1. ASSUME NEW r \in RelayIds PROVE RelayHolds(relay[r], session')
    <3>1. RelayHolds(relay[r], session) /\ relay[r].for \in Nat
      BY ZenonT(60) DEF SupplyInv, SupplyTypeOK, RelaysHold, RelayRec
    <3>2. relay[r].for <= session'
      BY <1>0, <3>1 DEF RelayHolds
    <3>3. QED
      BY <3>1, <3>2 DEF RelayHolds
  <2>2. QED
    BY <2>1, ZenonT(60) DEF RelaysHold
<1>4. RefusalsKept'
  <2>1. RefusalsKept
    BY DEF SupplyInv
  <2>2. \A x \in refusals : x[2] \in Nat /\ x[2] <= session
    BY <2>1 DEF RefusalsKept
  <2>3. \A x \in refusals : x[2] <= session' /\ (x[2] = session' => x[2] = session)
    BY <1>0, <2>2
  <2>4. QED
    BY <1>1, <2>1, <2>3 DEF RefusalsKept
<1>5. SendsCounted'
  BY <1>1, BooksKept, Zenon
<1>6. NoInnocentBlacklisted'
  BY DEF SupplyInv, NoInnocentBlacklisted
<1>7. QED
  BY <1>2, <1>3, <1>4, <1>5, <1>6, Zenon DEF SupplyInv

\* Every step keeps the invariant.
LEMMA SupplyNextInv == SupplyInv /\ [SuppliersNext]_supplyVars => SupplyInv'
<1> SUFFICES ASSUME SupplyInv, [SuppliersNext]_supplyVars PROVE SupplyInv'
  OBVIOUS
<1>0. session \in DOMAIN InSession /\ session \in Nat /\ session <= session
  BY SessionFacts DEF SupplyInv, SupplyTypeOK
<1>1. ASSUME NEW r \in RelayIds,
             Select(r) \/ Address(r) \/ Send(r) \/ SignFails(r) \/ Receive(r) \/ Verify(r) \/ Fetch(r) \/ Note(r)
      PROVE  SupplyInv'
  BY <1>1, PickKeepsInv, SendKeepsInv, ReceiveKeepsInv, FetchKeepsInv, VerifyKeepsInv, Zenon
<1>2. CASE RollsOver
  <2>1. session' \in DOMAIN InSession /\ session' = session + 1 /\ session <= session'
    BY <1>0, <1>2 DEF RollsOver
  <2>2. UNCHANGED <<overServed, bookVars, relay, blacklisted, keyCache, nilCache, onChain>>
    BY <1>2 DEF RollsOver, keyVars
  <2>3. QED
    BY <2>1, <2>2, AroundKeepsInv
<1>3. ASSUME NEW s, Bans(s) \/ DrainsOp(s) \/ RulesOut(s) PROVE SupplyInv'
  <2>1. UNCHANGED <<session, overServed, bookVars, relay, blacklisted, keyCache, nilCache, onChain>>
    BY <1>3 DEF Bans, DrainsOp, RulesOut, keyVars
  <2>2. QED
    BY <1>0, <2>1, AroundKeepsInv, Zenon
<1>4. ASSUME NEW s \in Operators, BlacklistExpires(s) \/ NilExpires(s) \/ RefetchAgain(s) \/ KeyAppears(s)
      PROVE  SupplyInv'
  <2>1. UNCHANGED <<session, overServed, bookVars, relay, keyCache>>
    BY <1>4 DEF BlacklistExpires, NilExpires, RefetchAgain, KeyAppears, keyVars, poolVars
  <2>2. blacklisted' \subseteq blacklisted /\ nilCache' \subseteq nilCache /\ onChain \subseteq onChain'
    BY <1>4 DEF BlacklistExpires, NilExpires, RefetchAgain, KeyAppears, keyVars, poolVars
  <2>3. QED
    BY <1>0, <2>1, <2>2, AroundKeepsInv, Zenon
<1>5. CASE UNCHANGED supplyVars
  <2>1. UNCHANGED <<session, overServed, bookVars, relay, blacklisted, keyCache, nilCache, onChain>>
    BY <1>5, Zenon DEF supplyVars, bookVars
  <2>2. QED
    BY <1>0, <2>1, AroundKeepsInv
<1>6. QED
  BY <1>1, <1>2, <1>3, <1>4, <1>5 DEF SuppliersNext

\* What the pool promises, from what is kept.
LEMMA PoolAlwaysHolds == SupplyInv => PoolHolds
<1> SUFFICES ASSUME SupplyInv PROVE PoolHolds
  OBVIOUS
<1>1. Eligible("want") # {} => Endpoints # {}
  <2> SUFFICES ASSUME Eligible("want") # {} PROVE Endpoints # {}
    OBVIOUS
  <2>1. AnyStakes
    BY DEF AnyStakes, Eligible
  <2>2. QED
    BY <2>1 DEF Endpoints, FirstPass, Unlisted
<1>2. Endpoints \cap (banned \cup drainedOps \cup Refused) = {}
  BY EndpointsEligible DEF Eligible, Rejected
<1>3. Endpoints \cap blacklisted # {} => Endpoints \subseteq blacklisted
  BY DEF Endpoints, Unlisted
<1>4. \A s \in InSession[session] : OverServedNow(s) <=> <<s, session>> \in refusals
  BY DEF SupplyInv, RefusalsKept, OverServedNow
<1>5. QED
  BY <1>1, <1>2, <1>3, <1>4 DEF PoolHolds

\* For any suppliers, sessions, relays and answers, and every interleaving of
\* relays with rollovers, bans, drains, scores and failing key fetches: a request
\* finds the endpoints that may serve it, a refusal keeps its supplier out of the
\* rest of its session and of no other, the load counts one session, and nobody
\* is blacklisted for an outage of the full node.
THEOREM SuppliersAlwaysHold == SuppliersSpec => []SuppliersHold
<1>1. SuppliersSpec => []SupplyInv
  BY SupplyInitInv, SupplyNextInv, PTL DEF SuppliersSpec
<1>2. SupplyInv => SuppliersTypeOK
  BY DEF SupplyInv, SupplyTypeOK, SuppliersTypeOK, RelayRec
<1>3. SupplyInv => SuppliersHold
  BY <1>2, PoolAlwaysHolds DEF SupplyInv, SendsCounted, SuppliersHold
<1>4. QED
  BY <1>1, <1>3, PTL

==============================================================================
