--------------------------- MODULE DrainRecordProofs ---------------------------
(***************************************************************************)
(* The records of the drain store for any replicas, keys and requests:     *)
(* what finishWrite reads from a key's record is exact.                    *)
(*                                                                         *)
(* RecordsExact is not inductive.  That a record is dropped only when no   *)
(* write is left rests on its counter; that a generation identifies the    *)
(* decision rests on generations only growing while a write is on the      *)
(* wire, so Knows also bounds the generations of the writes, and Placed    *)
(* says which requests may be taken or decided at all.                     *)
(***************************************************************************)
EXTENDS Drain, FiniteSetTheorems, TLAPS

\* Requests and refreshes are where their steps say, and what was decided or
\* taken for a retry is a request that has begun.
Placed ==
    /\ \A o \in Ops : op[o].pc # "idle" => op[o].rep \in DrainReplicas /\ op[o].key \in Keys
    /\ \A o \in Ops : op[o].pc \in {"hset", "finish"} => op[o].kind = "set"
    /\ \A r \in DrainReplicas :
          /\ drainRefresh[r].pc \notin {"retry", "finish", "undo"} => \A k \in Keys : ~RetryOnWire(r, k)
          /\ drainRefresh[r].pc \in {"finish", "undo"} => drainRefresh[r].cur \in Keys
          /\ drainRefresh[r].pc = "finish" => RetryOnWire(r, drainRefresh[r].cur)
          /\ \A k \in Keys : RetryOnWire(r, k) => drainRefresh[r].todo[k] \in Nat /\ drainRefresh[r].taken[k] \in Ops
          /\ drainRefresh[r].asOf \subseteq drainOver
    /\ \A r \in DrainReplicas, k \in Keys, o \in Ops :
          decided[r][k] = o \/ drainRefresh[r].taken[k] = o => op[o].pc \notin {"idle", "begin"}

\* The record of a key counts its writes on the wire.
Counted(r, k) ==
    IF keys[r][k] = None THEN OnWire(r, k) = {}
    ELSE /\ keys[r][k].inflight = Cardinality(OnWire(r, k))
         /\ keys[r][k].pending \/ keys[r][k].inflight > 0

\* It knows the latest decision, and a write on the wire is older than it or is
\* of it.
Knows(r, k) ==
    /\ decided[r][k] \in Ops
    /\ keys[r][k].released <=> op[decided[r][k]].kind = "release"
    /\ keys[r][k].entry # None => keys[r][k].entry = decided[r][k]
    /\ ~keys[r][k].released /\ DrainLive(decided[r][k]) => keys[r][k].entry = decided[r][k]
    /\ \A o \in Ops : OpOnWire(o, r, k) =>
          op[o].gen <= keys[r][k].gen /\ (op[o].gen = keys[r][k].gen <=> decided[r][k] = o)
    /\ RetryOnWire(r, k) =>
          /\ drainRefresh[r].todo[k] <= keys[r][k].gen
          /\ drainRefresh[r].todo[k] = keys[r][k].gen <=> decided[r][k] = drainRefresh[r].taken[k]

Record(r, k) == Counted(r, k) /\ (keys[r][k] # None => Knows(r, k))

DrainInv == DrainTypeOK /\ Placed /\ \A r \in DrainReplicas, k \in Keys : Record(r, k)

\* Nothing of a key's record changes in a step that is not about it.
LEMMA RecordFrame ==
    ASSUME NEW r \in DrainReplicas, NEW k \in Keys, Record(r, k),
           keys'[r][k] = keys[r][k], decided'[r][k] = decided[r][k],
           drainRefresh'[r].todo[k] = drainRefresh[r].todo[k],
           drainRefresh[r].todo[k] # -1 => drainRefresh'[r].taken[k] = drainRefresh[r].taken[k],
           drainOver \subseteq drainOver',
           \A o \in Ops : OpOnWire(o, r, k)' <=> OpOnWire(o, r, k),
           \A o \in Ops : OpOnWire(o, r, k) => op'[o].gen = op[o].gen,
           \A o \in Ops : decided[r][k] = o => op'[o].kind = op[o].kind
    PROVE  Record(r, k)'
<1>1. RetryOnWire(r, k)' <=> RetryOnWire(r, k)
  BY DEF RetryOnWire
<1>2. OnWire(r, k)' = OnWire(r, k)
  BY <1>1 DEF OnWire
<1>3. Counted(r, k)'
  BY <1>2 DEF Counted, Record
<1>4. ASSUME keys[r][k] # None PROVE Knows(r, k)'
  <2>0. Knows(r, k)
    BY <1>4 DEF Record
  <2>1. decided'[r][k] \in Ops
    BY <2>0 DEF Knows
  <2>2. keys'[r][k].released <=> op'[decided'[r][k]].kind = "release"
    BY <2>0 DEF Knows
  <2>3. /\ keys'[r][k].entry # None => keys'[r][k].entry = decided'[r][k]
        /\ ~keys'[r][k].released /\ DrainLive(decided[r][k])' => keys'[r][k].entry = decided'[r][k]
    BY <2>0 DEF Knows, DrainLive
  <2>4. \A o \in Ops : OpOnWire(o, r, k)' =>
          op'[o].gen <= keys'[r][k].gen /\ (op'[o].gen = keys'[r][k].gen <=> decided'[r][k] = o)
    BY <2>0 DEF Knows
  <2>5. RetryOnWire(r, k)' =>
          /\ drainRefresh'[r].todo[k] <= keys'[r][k].gen
          /\ drainRefresh'[r].todo[k] = keys'[r][k].gen <=> decided'[r][k] = drainRefresh'[r].taken[k]
    BY <1>1, <2>0 DEF Knows, RetryOnWire
  <2>6. QED
    BY <2>1, <2>2, <2>3, <2>4, <2>5 DEF Knows
<1>5. QED
  BY <1>3, <1>4 DEF Record

\* A step of request o that leaves it off the wire, or on it, and leaves the
\* records, the decisions and the refreshes alone.
LEMMA OpStepKeepsRecords ==
    ASSUME DrainInv, NEW o \in Ops, NEW q \in OpState, op' = [op EXCEPT ![o] = q],
           UNCHANGED <<keys, decided, drainRefresh, drainOver>>,
           op[o].pc \in {"hset", "finish"} <=> q.pc \in {"hset", "finish"},
           op[o].pc # "idle" => q.rep = op[o].rep /\ q.key = op[o].key /\ q.gen = op[o].gen,
           op[o].pc \notin {"idle", "begin"} => q.kind = op[o].kind /\ q.pc \notin {"idle", "begin"},
           q.pc # "idle" => q.rep \in DrainReplicas /\ q.key \in Keys,
           q.pc \in {"hset", "finish"} => q.kind = "set"
    PROVE  Placed' /\ \A r \in DrainReplicas, k \in Keys : Record(r, k)'
<1>0. DrainTypeOK /\ Placed /\ \A r \in DrainReplicas, k \in Keys : Record(r, k)
  BY DEF DrainInv
<1>1. op'[o] = q /\ \A p \in Ops \ {o} : op'[p] = op[p]
  BY <1>0 DEF DrainTypeOK
<1>2. Placed'
  BY <1>0, <1>1 DEF Placed, RetryOnWire
<1>3. ASSUME NEW r \in DrainReplicas, NEW k \in Keys PROVE Record(r, k)'
  <2>1. \A p \in Ops : OpOnWire(p, r, k)' <=> OpOnWire(p, r, k)
    BY <1>1 DEF OpOnWire
  <2>2. \A p \in Ops : OpOnWire(p, r, k) => op'[p].gen = op[p].gen
    BY <1>1 DEF OpOnWire
  <2>3. \A p \in Ops : decided[r][k] = p => op'[p].kind = op[p].kind
    BY <1>0, <1>1 DEF Placed
  <2>4. QED
    BY <1>0, <2>1, <2>2, <2>3, RecordFrame
<1>4. QED
  BY <1>2, <1>3

\* No request has been made and no refresh has begun.
LEMMA DrainInitInv == DrainInit => DrainInv
<1> SUFFICES ASSUME DrainInit PROVE DrainInv
  OBVIOUS
<1>1. NoEntries \in Entries /\ DrainIdleRefresh \in DrainRefreshState
  BY DEF NoEntries, Entries, DrainIdleRefresh, DrainRefreshState
<1>2. IdleOp \in OpState
  BY DEF IdleOp, OpState
<1>3. DrainTypeOK
  BY <1>1, <1>2 DEF DrainInit, DrainTypeOK
<1>4. \A r \in DrainReplicas, k \in Keys :
        ~RetryOnWire(r, k) /\ drainRefresh[r].pc = "idle" /\ drainRefresh[r].taken[k] = None
        /\ drainRefresh[r].asOf = {} /\ decided[r][k] = None /\ keys[r][k] = None
  BY DEF DrainInit, RetryOnWire, DrainIdleRefresh, NoEntries
<1>5. \A o \in Ops : op[o].pc = "idle"
  BY DEF DrainInit, IdleOp
<1>6. \A r \in DrainReplicas : drainRefresh[r].pc = "idle" /\ drainRefresh[r].asOf = {}
  BY DEF DrainInit, DrainIdleRefresh
<1>7. Placed
  BY <1>4, <1>5, <1>6, DrainAssumption DEF Placed
<1>8. \A r \in DrainReplicas, k \in Keys : Record(r, k)
  BY <1>4, <1>5 DEF Record, Counted, OnWire, OpOnWire
<1>9. QED
  BY <1>3, <1>7, <1>8 DEF DrainInv

\* The local step of a Set or of a Release.
LEMMA LocalKeeps ==
    ASSUME DrainInv, NEW o \in Ops, NEW r \in DrainReplicas, NEW k \in Keys,
           SetLocal(o, r, k) \/ ReleaseLocal(o, r, k)
    PROVE  DrainInv'
<1>0. DrainTypeOK
  BY DEF DrainInv
<1>1. PICK kind \in {"set", "release"} :
        op' = [op EXCEPT ![o] = [@ EXCEPT !.pc = "begin", !.kind = kind, !.rep = r, !.key = k]]
  BY DEF SetLocal, ReleaseLocal
<1> DEFINE q == [op[o] EXCEPT !.pc = "begin", !.kind = kind, !.rep = r, !.key = k]
<1>2. q \in OpState /\ q.pc = "begin" /\ q.rep = r /\ q.key = k /\ op' = [op EXCEPT ![o] = q]
  BY <1>0, <1>1, Zenon DEF DrainTypeOK, OpState
<1> HIDE DEF q
<1>3. op[o].pc = "idle" /\ UNCHANGED <<keys, drainRedis, drainOver, drainRefresh, decided, unclean>>
  BY DEF SetLocal, ReleaseLocal
<1>4. Placed' /\ \A s \in DrainReplicas, j \in Keys : Record(s, j)'
  BY <1>2, <1>3, OpStepKeepsRecords, Zenon
<1>5. /\ entries' \in [DrainReplicas -> Entries]
      /\ setAfter' \in [DrainReplicas -> SUBSET Keys] /\ releasedAfter' \in [DrainReplicas -> SUBSET Keys]
  <2>1. \A S \in SUBSET Keys : Since(r, S, k) \in SUBSET Keys
    BY DEF Since
  <2>2. \A v \in Ops \cup {None} : [entries[r] EXCEPT ![k] = v] \in Entries
    BY <1>0 DEF DrainTypeOK, Entries
  <2>3. PICK v \in Ops \cup {None} : entries' = [entries EXCEPT ![r] = [entries[r] EXCEPT ![k] = v]]
    BY DEF SetLocal, ReleaseLocal
  <2>4. entries' \in [DrainReplicas -> Entries]
    BY <1>0, <2>2, <2>3, Zenon DEF DrainTypeOK
  <2>5. CASE SetLocal(o, r, k)
    BY <1>0, <2>1, <2>4, <2>5 DEF SetLocal, DrainTypeOK
  <2>6. CASE ReleaseLocal(o, r, k)
    BY <1>0, <2>1, <2>4, <2>6 DEF ReleaseLocal, DrainTypeOK
  <2>7. QED
    BY <2>5, <2>6
<1>6. DrainTypeOK'
  BY <1>0, <1>2, <1>3, <1>5 DEF DrainTypeOK
<1>7. QED
  BY <1>4, <1>6 DEF DrainInv

\* A command of one field keeps the hash's shape.
LEMMA WritesType ==
    ASSUME DrainTypeOK, NEW k \in Keys, NEW v \in Ops \cup {None}, NEW err \in BOOLEAN, Writes(k, v, err)
    PROVE  drainRedis' \in Entries
BY Zenon DEF Writes, DrainTypeOK, Entries

\* The commands of a request.
LEMMA CommandKeeps ==
    ASSUME DrainInv, NEW o \in Ops, NEW err \in BOOLEAN, HSet(o, err) \/ Undo(o, err) \/ HDel(o, err)
    PROVE  DrainInv'
<1>0. DrainTypeOK /\ Placed
  BY DEF DrainInv
<1>1. op[o].pc \in {"hset", "undo", "hdel"} /\ op[o].key \in Keys /\ op[o].rep \in DrainReplicas
  BY <1>0 DEF HSet, Undo, HDel, Placed
<1>2. PICK q \in OpState : /\ op' = [op EXCEPT ![o] = q]
                           /\ q.rep = op[o].rep /\ q.key = op[o].key /\ q.gen = op[o].gen /\ q.kind = op[o].kind
                           /\ q.pc = IF op[o].pc = "hset" THEN "finish" ELSE "done"
  <2>1. CASE HSet(o, err)
    <3> DEFINE q == [op[o] EXCEPT !.pc = "finish", !.err = err]
    <3>1. q \in OpState /\ op' = [op EXCEPT ![o] = q] /\ op[o].pc = "hset"
          /\ q.rep = op[o].rep /\ q.key = op[o].key /\ q.gen = op[o].gen /\ q.kind = op[o].kind /\ q.pc = "finish"
      BY <1>0, <2>1, Zenon DEF DrainTypeOK, OpState, HSet
    <3> HIDE DEF q
    <3>2. QED
      BY <3>1, Zenon
  <2>2. CASE Undo(o, err) \/ HDel(o, err)
    <3> DEFINE q == [op[o] EXCEPT !.pc = "done"]
    <3>1. q \in OpState /\ op' = [op EXCEPT ![o] = q] /\ op[o].pc # "hset"
          /\ q.rep = op[o].rep /\ q.key = op[o].key /\ q.gen = op[o].gen /\ q.kind = op[o].kind /\ q.pc = "done"
      BY <1>0, <2>2, Zenon DEF DrainTypeOK, OpState, Undo, HDel
    <3> HIDE DEF q
    <3>2. QED
      BY <3>1, Zenon
  <2>3. QED
    BY <2>1, <2>2
<1>3. UNCHANGED <<entries, setAfter, releasedAfter, keys, drainOver, drainRefresh, decided>>
  BY DEF HSet, Undo, HDel
<1>4. Placed' /\ \A s \in DrainReplicas, j \in Keys : Record(s, j)'
  BY <1>0, <1>1, <1>2, <1>3, OpStepKeepsRecords, Zenon DEF Placed
<1>5. drainRedis' \in Entries
  <2>1. CASE Writes(op[o].key, o, err) \/ Writes(op[o].key, None, err)
    BY <1>0, <1>1, <2>1, WritesType
  <2>2. CASE UNCHANGED drainRedis
    BY <1>0, <2>2 DEF DrainTypeOK
  <2>3. QED
    BY <2>1, <2>2 DEF HSet, Undo, HDel
<1>6. unclean' \in [DrainReplicas -> SUBSET Keys]
  BY <1>0, <1>1 DEF HSet, Undo, HDel, NoteUnclean, DrainTypeOK
<1>7. DrainTypeOK'
  BY <1>0, <1>2, <1>3, <1>5, <1>6 DEF DrainTypeOK
<1>8. QED
  BY <1>4, <1>7 DEF DrainInv

\* The clock passes the Until of a drain: live drains only get fewer.
LEMMA ExpireKeeps == ASSUME DrainInv, NEW o \in Ops, Expire(o) PROVE DrainInv'
<1>0. DrainTypeOK /\ Placed /\ \A r \in DrainReplicas, k \in Keys : Record(r, k)
  BY DEF DrainInv
<1>1. drainOver \subseteq drainOver' /\ drainOver' \subseteq Ops
      /\ UNCHANGED <<entries, setAfter, releasedAfter, keys, drainRedis, op, drainRefresh, decided, unclean>>
  BY <1>0 DEF Expire, DrainTypeOK
<1>2. \A r \in DrainReplicas, k \in Keys : Record(r, k)'
  BY <1>0, <1>1, RecordFrame DEF OpOnWire
<1>3. Placed'
  BY <1>0, <1>1 DEF Placed, RetryOnWire
<1>4. DrainTypeOK'
  BY <1>0, <1>1 DEF DrainTypeOK
<1>5. QED
  BY <1>2, <1>3, <1>4 DEF DrainInv

\* What is on the wire is finite.
LEMMA WireFinite ==
    ASSUME NEW r \in DrainReplicas, NEW k \in Keys
    PROVE  IsFiniteSet(OnWire(r, k)) /\ Cardinality(OnWire(r, k)) \in Nat
<1>1. IsFiniteSet(Ops \cup {r})
  BY DrainAssumption, FS_AddElement
<1>2. OnWire(r, k) \subseteq Ops \cup {r}
  BY DEF OnWire
<1>3. QED
  BY <1>1, <1>2, FS_Subset, FS_CardinalityType

\* The record of a key as the operations read it.
LEMMA StateFacts ==
    ASSUME DrainInv, NEW r \in DrainReplicas, NEW k \in Keys
    PROVE  /\ StateOf(r, k) \in KeyState
           /\ StateOf(r, k).inflight = Cardinality(OnWire(r, k))
           /\ keys[r][k] # None => StateOf(r, k) = keys[r][k]
           /\ keys[r][k] = None => OnWire(r, k) = {} /\ StateOf(r, k).inflight = 0
<1>0. DrainTypeOK /\ Counted(r, k)
  BY DEF DrainInv, Record
<1>1. NewState \in KeyState /\ NewState.inflight = 0
  BY DEF NewState, KeyState
<1>2. Cardinality({}) = 0
  BY FS_EmptySet
<1>3. QED
  BY <1>0, <1>1, <1>2, Zenon DEF Counted, StateOf, DrainTypeOK

\* A step of a request is about its own key's record.
LEMMA OpElsewhere ==
    ASSUME DrainInv, NEW o \in Ops, NEW q \in OpState, op' = [op EXCEPT ![o] = q],
           UNCHANGED <<drainRefresh, drainOver>>,
           op[o].pc # "idle", q.rep = op[o].rep, q.key = op[o].key,
           op[o].pc # "begin" => q.kind = op[o].kind,
           NEW s \in DrainReplicas, NEW j \in Keys, s # op[o].rep \/ j # op[o].key,
           keys'[s][j] = keys[s][j], decided'[s][j] = decided[s][j]
    PROVE  Record(s, j)'
<1>0. DrainTypeOK /\ Placed /\ Record(s, j)
  BY DEF DrainInv
<1>1. op'[o] = q /\ \A p \in Ops \ {o} : op'[p] = op[p]
  BY <1>0 DEF DrainTypeOK
<1>2. \A p \in Ops : OpOnWire(p, s, j)' <=> OpOnWire(p, s, j)
  BY <1>1 DEF OpOnWire
<1>3. \A p \in Ops : OpOnWire(p, s, j) => op'[p].gen = op[p].gen
  BY <1>1 DEF OpOnWire
<1>4. \A p \in Ops : decided[s][j] = p => op'[p].kind = op[p].kind
  BY <1>0, <1>1 DEF Placed
<1>5. QED
  BY <1>0, <1>2, <1>3, <1>4, RecordFrame

\* beginSet: a new generation, and its write is counted on the wire.
LEMMA BeginSetKeeps == ASSUME DrainInv, NEW o \in Ops, BeginSet(o) PROVE DrainInv'
<1>0. DrainTypeOK /\ Placed /\ \A s \in DrainReplicas, j \in Keys : Record(s, j)
  BY DEF DrainInv
<1>a. PICK r \in DrainReplicas, k \in Keys : r = op[o].rep /\ k = op[o].key
  BY <1>0 DEF BeginSet, Placed
<1>1. op[o].pc = "begin" /\ op[o].kind = "set"
  BY DEF BeginSet
<1>b. PICK old \in KeyState : old = StateOf(r, k)
  BY StateFacts
<1>2. /\ old.inflight = Cardinality(OnWire(r, k))
      /\ keys[r][k] # None => old = keys[r][k]
      /\ keys[r][k] = None => OnWire(r, k) = {}
  BY <1>b, StateFacts
<1>c. SetState(old, o) \in KeyState
  <2>1. old.gen + 1 \in Nat /\ old.inflight + 1 \in Nat
    BY DEF KeyState
  <2>2. QED
    BY <2>1, Zenon DEF SetState, KeyState
<1>d. PICK st \in KeyState : st = SetState(old, o)
  BY <1>c
<1>3. /\ st.gen = old.gen + 1 /\ st.inflight = old.inflight + 1 /\ ~st.released /\ st.entry = o /\ st # None
  <2>1. st # None
    BY KeyStateAssumption
  <2>2. st = [old EXCEPT !.gen = @ + 1, !.released = FALSE, !.entry = o, !.inflight = @ + 1]
    BY <1>d DEF SetState
  <2>3. QED
    BY <2>1, <2>2 DEF KeyState
<1>e. [op[o] EXCEPT !.pc = "hset", !.gen = st.gen] \in OpState
  <2>1. st.gen \in Nat
    BY DEF KeyState
  <2>2. QED
    BY <1>0, <2>1, Zenon DEF DrainTypeOK, OpState
<1>f. PICK q \in OpState : q = [op[o] EXCEPT !.pc = "hset", !.gen = st.gen]
  BY <1>e
<1>4. /\ keys' = [keys EXCEPT ![r][k] = st] /\ decided' = [decided EXCEPT ![r][k] = o]
      /\ op' = [op EXCEPT ![o] = q]
      /\ UNCHANGED <<entries, setAfter, releasedAfter, drainRedis, drainOver, drainRefresh, unclean>>
  <2>1. keys' = [keys EXCEPT ![r][k] = st] /\ decided' = [decided EXCEPT ![r][k] = o]
    BY <1>a, <1>b, <1>d DEF BeginSet
  <2>2. op' = [op EXCEPT ![o] = [@ EXCEPT !.pc = "hset", !.gen = st.gen]]
    BY <1>a, <1>b, <1>d DEF BeginSet
  <2>3. op' = [op EXCEPT ![o] = q]
    BY <1>f, <2>2
  <2>4. QED
    BY <2>1, <2>3, Zenon DEF BeginSet
<1>5. q.pc = "hset" /\ q.rep = r /\ q.key = k /\ q.gen = st.gen /\ q.kind = "set"
  BY <1>0, <1>1, <1>a, <1>f DEF DrainTypeOK, OpState
<1>6. op'[o] = q /\ \A p \in Ops \ {o} : op'[p] = op[p]
  BY <1>0, <1>4 DEF DrainTypeOK
<1>7. /\ keys'[r][k] = st /\ decided'[r][k] = o
      /\ \A s \in DrainReplicas, j \in Keys : s # r \/ j # k =>
             keys'[s][j] = keys[s][j] /\ decided'[s][j] = decided[s][j]
  BY <1>0, <1>1, <1>4, Zenon DEF DrainTypeOK, Entries
<1>8. DrainTypeOK'
  <2>1. keys' \in [DrainReplicas -> [Keys -> KeyState \cup {None}]]
    BY <1>0, <1>1, <1>3, <1>4 DEF DrainTypeOK
  <2>2. decided' \in [DrainReplicas -> Entries]
    BY <1>0, <1>1, <1>4, Zenon DEF DrainTypeOK, Entries
  <2>3. QED
    BY <1>0, <1>4, <1>5, <2>1, <2>2 DEF DrainTypeOK
<1>9. Placed'
  <2>1. \A s \in DrainReplicas, j \in Keys, p \in Ops :
          decided'[s][j] = p \/ drainRefresh'[s].taken[j] = p => op'[p].pc \notin {"idle", "begin"}
    BY <1>0, <1>1, <1>4, <1>5, <1>6, <1>7 DEF Placed
  <2>2. QED
    BY <1>0, <1>1, <1>4, <1>5, <1>6, <2>1, Zenon DEF Placed, RetryOnWire
<1>10. Record(r, k)'
  <2>1. RetryOnWire(r, k)' <=> RetryOnWire(r, k)
    BY <1>4 DEF RetryOnWire
  <2>2. /\ OpOnWire(o, r, k)' /\ ~OpOnWire(o, r, k)
        /\ \A p \in Ops \ {o} : OpOnWire(p, r, k)' <=> OpOnWire(p, r, k)
    BY <1>1, <1>5, <1>6 DEF OpOnWire
  <2>3. OnWire(r, k)' = OnWire(r, k) \cup {o} /\ o \notin OnWire(r, k)
    BY <1>1, <2>1, <2>2, DrainAssumption DEF OnWire
  <2>4. Cardinality(OnWire(r, k) \cup {o}) = Cardinality(OnWire(r, k)) + 1
    BY <1>1, <2>3, WireFinite, FS_AddElement, Zenon
  <2>5. Counted(r, k)'
    <3>1. st.inflight = Cardinality(OnWire(r, k)')
      BY <1>2, <1>3, <2>3, <2>4
    <3>2. st.inflight > 0
      BY <1>2, <1>3 DEF KeyState
    <3>3. QED
      BY <1>3, <1>7, <3>1, <3>2 DEF Counted
  <2>6. \A p \in Ops \ {o} : OpOnWire(p, r, k) => op[p].gen <= old.gen /\ op[p].gen \in Nat
    <3> SUFFICES ASSUME NEW p \in Ops \ {o}, OpOnWire(p, r, k) PROVE op[p].gen <= old.gen /\ op[p].gen \in Nat
      OBVIOUS
    <3>1. p \in OnWire(r, k)
      BY DEF OnWire
    <3>2. keys[r][k] # None
      BY <1>2, <3>1, Zenon
    <3>3. QED
      BY <1>0, <1>1, <1>2, <3>2 DEF Record, Knows, DrainTypeOK, OpState
  <2>7. RetryOnWire(r, k) => drainRefresh[r].todo[k] <= old.gen /\ drainRefresh[r].todo[k] \in Nat
    <3> SUFFICES ASSUME RetryOnWire(r, k)
                 PROVE  drainRefresh[r].todo[k] <= old.gen /\ drainRefresh[r].todo[k] \in Nat
      OBVIOUS
    <3>1. r \in OnWire(r, k)
      BY DEF OnWire
    <3>2. keys[r][k] # None
      BY <1>2, <3>1
    <3>3. QED
      BY <1>0, <1>1, <1>2, <3>2 DEF Record, Knows, Placed
  <2>8. \A n \in Nat : n <= old.gen => n <= st.gen /\ n # st.gen
    BY <1>2, <1>3 DEF KeyState
  <2>9. \A p \in Ops : OpOnWire(p, r, k)' =>
          op'[p].gen <= st.gen /\ (op'[p].gen = st.gen <=> o = p)
    <3>1. st.gen <= st.gen
      BY <1>3 DEF KeyState
    <3>2. QED
      BY <1>5, <1>6, <2>2, <2>6, <2>8, <3>1
  <2>10. RetryOnWire(r, k)' =>
          /\ drainRefresh'[r].todo[k] <= st.gen
          /\ drainRefresh'[r].todo[k] = st.gen <=> o = drainRefresh'[r].taken[k]
    <3>1. drainRefresh[r].taken[k] # o
      BY <1>0, <1>1, Zenon DEF Placed
    <3>2. QED
      BY <1>4, <2>1, <2>7, <2>8, <3>1, Zenon
  <2>11. Knows(r, k)'
    <3>1. st.released <=> op'[o].kind = "release"
      BY <1>3, <1>5, <1>6, Zenon
    <3>2. QED
      BY <1>3, <1>7, <2>9, <2>10, <3>1 DEF Knows
  <2>12. QED
    BY <2>5, <2>11 DEF Record
<1>11. ASSUME NEW s \in DrainReplicas, NEW j \in Keys, s # r \/ j # k PROVE Record(s, j)'
  BY <1>1, <1>4, <1>5, <1>7, <1>11, <1>a, OpElsewhere, Zenon
<1>12. QED
  BY <1>8, <1>9, <1>10, <1>11 DEF DrainInv

\* forget drops a record exactly when it has nothing to remember.
LEMMA ForgetFacts ==
    ASSUME NEW st \in KeyState
    PROVE  /\ Forget(st) \in KeyState \cup {None}
           /\ Forget(st) = None => st.inflight = 0
           /\ Forget(st) # None => Forget(st) = st /\ (st.pending \/ st.inflight > 0)
<1>1. st # None /\ st.inflight \in Nat
  BY KeyStateAssumption DEF KeyState
<1>2. CASE ~st.pending /\ st.inflight = 0
  BY <1>2 DEF Forget
<1>3. CASE ~(~st.pending /\ st.inflight = 0)
  <2>1. Forget(st) = st
    BY <1>3 DEF Forget
  <2>2. st.pending \/ st.inflight > 0
    BY <1>1, <1>3
  <2>3. QED
    BY <1>1, <2>1, <2>2
<1>4. QED
  BY <1>2, <1>3

\* beginRelease: a new generation, and no write for it to count; a record is
\* dropped only when none is on the wire.
LEMMA BeginReleaseKeeps == ASSUME DrainInv, NEW o \in Ops, BeginRelease(o) PROVE DrainInv'
<1>0. DrainTypeOK /\ Placed /\ \A s \in DrainReplicas, j \in Keys : Record(s, j)
  BY DEF DrainInv
<1>1. op[o].pc = "begin"
  BY DEF BeginRelease
<1>2. PICK r \in DrainReplicas, k \in Keys : r = op[o].rep /\ k = op[o].key
  BY <1>0, <1>1 DEF Placed
<1>3. PICK old \in KeyState : old = StateOf(r, k)
  BY StateFacts
<1>4. /\ old.inflight = Cardinality(OnWire(r, k))
      /\ keys[r][k] # None => old = keys[r][k]
      /\ keys[r][k] = None => OnWire(r, k) = {}
  BY <1>3, StateFacts
<1>5. ReleaseState(old) \in KeyState
  <2>1. old.gen + 1 \in Nat
    BY DEF KeyState
  <2>2. QED
    BY <2>1, Zenon DEF ReleaseState, KeyState
<1>6. PICK st \in KeyState : st = ReleaseState(old)
  BY <1>5
<1>7. st.gen = old.gen + 1 /\ st.inflight = old.inflight /\ st.released /\ st.entry = None
  <2>1. st = [old EXCEPT !.gen = @ + 1, !.released = TRUE, !.pending = FALSE, !.entry = None]
    BY <1>6 DEF ReleaseState
  <2>2. QED
    BY <2>1 DEF KeyState
<1>8. PICK new \in KeyState \cup {None} : new = Forget(st)
  BY ForgetFacts
<1>9. PICK q \in OpState : q = [op[o] EXCEPT !.pc = "hdel", !.kind = "release"]
  BY <1>0, Zenon DEF DrainTypeOK, OpState
<1>10. /\ keys' = [keys EXCEPT ![r][k] = new] /\ decided' = [decided EXCEPT ![r][k] = o]
       /\ op' = [op EXCEPT ![o] = q]
       /\ UNCHANGED <<entries, setAfter, releasedAfter, drainRedis, drainOver, drainRefresh, unclean>>
  BY <1>2, <1>3, <1>6, <1>8, <1>9 DEF BeginRelease
<1>11. q.pc = "hdel" /\ q.rep = r /\ q.key = k /\ q.kind = "release"
  BY <1>0, <1>2, <1>9 DEF DrainTypeOK, OpState
<1>12. op'[o] = q /\ \A p \in Ops \ {o} : op'[p] = op[p]
  BY <1>0, <1>10 DEF DrainTypeOK
<1>13. /\ keys'[r][k] = new /\ decided'[r][k] = o
       /\ \A s \in DrainReplicas, j \in Keys : s # r \/ j # k =>
             keys'[s][j] = keys[s][j] /\ decided'[s][j] = decided[s][j]
  BY <1>0, <1>10 DEF DrainTypeOK, Entries
<1>14. DrainTypeOK'
  <2>1. keys' \in [DrainReplicas -> [Keys -> KeyState \cup {None}]]
    BY <1>0, <1>10 DEF DrainTypeOK
  <2>2. decided' \in [DrainReplicas -> Entries]
    BY <1>0, <1>10, Zenon DEF DrainTypeOK, Entries
  <2>3. QED
    BY <1>0, <1>10, <2>1, <2>2 DEF DrainTypeOK
<1>15. Placed'
  <2>1. \A s \in DrainReplicas, j \in Keys, p \in Ops :
          decided'[s][j] = p \/ drainRefresh'[s].taken[j] = p => op'[p].pc \notin {"idle", "begin"}
    BY <1>0, <1>1, <1>10, <1>11, <1>12, <1>13 DEF Placed
  <2>2. QED
    BY <1>0, <1>1, <1>10, <1>11, <1>12, <2>1, Zenon DEF Placed, RetryOnWire
<1>16. Record(r, k)'
  <2>1. RetryOnWire(r, k)' <=> RetryOnWire(r, k)
    BY <1>10 DEF RetryOnWire
  <2>2. /\ ~OpOnWire(o, r, k)' /\ ~OpOnWire(o, r, k)
        /\ \A p \in Ops \ {o} : OpOnWire(p, r, k)' <=> OpOnWire(p, r, k)
    BY <1>1, <1>11, <1>12 DEF OpOnWire
  <2>3. OnWire(r, k)' = OnWire(r, k)
    BY <2>1, <2>2 DEF OnWire
  <2>4. Counted(r, k)'
    <3>1. CASE new = None
      <4>1. Cardinality(OnWire(r, k)) = 0
        BY <1>4, <1>7, <1>8, <3>1, ForgetFacts, Zenon
      <4>2. OnWire(r, k) = {}
        BY <4>1, WireFinite, FS_EmptySet
      <4>3. QED
        BY <1>13, <2>3, <3>1, <4>2 DEF Counted
    <3>2. CASE new # None
      <4>1. new = st /\ (st.pending \/ st.inflight > 0)
        BY <1>8, <3>2, ForgetFacts
      <4>2. QED
        BY <1>4, <1>7, <1>13, <2>3, <3>2, <4>1 DEF Counted
    <3>3. QED
      BY <3>1, <3>2
  <2>5. \A p \in Ops \ {o} : OpOnWire(p, r, k) => op[p].gen <= old.gen /\ op[p].gen \in Nat
    <3> SUFFICES ASSUME NEW p \in Ops \ {o}, OpOnWire(p, r, k) PROVE op[p].gen <= old.gen /\ op[p].gen \in Nat
      OBVIOUS
    <3>1. p \in OnWire(r, k)
      BY DEF OnWire
    <3>2. keys[r][k] # None
      BY <1>4, <3>1, Zenon
    <3>3. QED
      BY <1>0, <1>4, <3>2 DEF Record, Knows, DrainTypeOK, OpState
  <2>6. RetryOnWire(r, k) => drainRefresh[r].todo[k] <= old.gen /\ drainRefresh[r].todo[k] \in Nat
    <3> SUFFICES ASSUME RetryOnWire(r, k)
                 PROVE  drainRefresh[r].todo[k] <= old.gen /\ drainRefresh[r].todo[k] \in Nat
      OBVIOUS
    <3>1. r \in OnWire(r, k)
      BY DEF OnWire
    <3>2. keys[r][k] # None
      BY <1>4, <3>1
    <3>3. QED
      BY <1>0, <1>4, <3>2, Zenon DEF Record, Knows, Placed
  <2>7. \A n \in Nat : n <= old.gen => n <= st.gen /\ n # st.gen
    BY <1>7 DEF KeyState
  <2>8. \A p \in Ops : OpOnWire(p, r, k)' =>
          op'[p].gen <= st.gen /\ (op'[p].gen = st.gen <=> o = p)
    BY <1>12, <2>2, <2>5, <2>7
  <2>9. RetryOnWire(r, k)' =>
          /\ drainRefresh'[r].todo[k] <= st.gen
          /\ drainRefresh'[r].todo[k] = st.gen <=> o = drainRefresh'[r].taken[k]
    <3>1. drainRefresh[r].taken[k] # o
      BY <1>0, <1>1, Zenon DEF Placed
    <3>2. QED
      BY <1>10, <2>1, <2>6, <2>7, <3>1, Zenon
  <2>10. ASSUME new # None PROVE Knows(r, k)'
    <3>1. new = st
      BY <1>8, <2>10, ForgetFacts
    <3>2. st.released <=> op'[o].kind = "release"
      BY <1>7, <1>11, <1>12, Zenon
    <3>3. QED
      BY <1>7, <1>13, <2>8, <2>9, <3>1, <3>2 DEF Knows
  <2>11. QED
    BY <1>13, <2>4, <2>10 DEF Record
<1>17. ASSUME NEW s \in DrainReplicas, NEW j \in Keys, s # r \/ j # k PROVE Record(s, j)'
  BY <1>1, <1>2, <1>10, <1>11, <1>13, <1>17, OpElsewhere, Zenon
<1>18. QED
  BY <1>14, <1>15, <1>16, <1>17 DEF DrainInv

\* finishWrite on a record: one write fewer; nothing else is changed but what
\* is to be retried, which is the write's own entry if nothing overtook it.
LEMMA FinishedFacts ==
    ASSUME NEW st \in KeyState, st.inflight > 0, NEW gen \in Nat, NEW e \in Ops, NEW err \in BOOLEAN,
           NEW new, new = Finished(st, gen, e, err)
    PROVE  /\ new \in KeyState \cup {None}
           /\ new = None => st.inflight = 1
           /\ new # None => /\ new.inflight = st.inflight - 1 /\ new.gen = st.gen
                            /\ new.pending \/ new.inflight > 0
                            /\ new.released = st.released
                            /\ new.entry = st.entry \/ (st.gen = gen /\ new.entry = e)
<1>1. st.inflight - 1 \in Nat
  BY DEF KeyState
<1> DEFINE done == [st EXCEPT !.inflight = @ - 1]
           last == IF OvertakenByRelease(st, gen, err) THEN done
                   ELSE IF st.gen # gen THEN [done EXCEPT !.pending = TRUE]
                   ELSE [done EXCEPT !.pending = err, !.entry = IF err THEN e ELSE @]
<1>2. done \in KeyState /\ done.inflight = st.inflight - 1 /\ done.gen = st.gen
      /\ done.released = st.released /\ done.entry = st.entry
  BY <1>1 DEF KeyState
<1> HIDE DEF done
<1>3. /\ last \in KeyState /\ last.inflight = st.inflight - 1 /\ last.gen = st.gen /\ last.released = st.released
      /\ last.entry = st.entry \/ (st.gen = gen /\ last.entry = e)
  <2>1. CASE OvertakenByRelease(st, gen, err)
    BY <1>2, <2>1
  <2>2. CASE ~OvertakenByRelease(st, gen, err) /\ st.gen # gen
    BY <1>2, <2>2, Zenon DEF KeyState
  <2>3. CASE ~OvertakenByRelease(st, gen, err) /\ st.gen = gen
    BY <1>2, <2>3, Zenon DEF KeyState
  <2>4. QED
    BY <2>1, <2>2, <2>3
<1>4. new = Forget(last)
  BY DEF Finished, done
<1> HIDE DEF last
<1>5. st.inflight \in Nat
  BY DEF KeyState
<1>6. QED
  BY <1>1, <1>3, <1>4, <1>5, ForgetFacts

\* Write w of key k leaves the wire through finishWrite, of entry e at gen; it
\* is the key's latest decision if it carries its generation.
LeavesWire(r, k, st, gen, e, err, w) ==
    /\ st = keys[r][k] /\ keys'[r][k] = Finished(st, gen, e, err)
    /\ gen = st.gen => e = decided[r][k]
    /\ UNCHANGED <<decided, drainOver>>
    /\ \A p \in Ops : decided[r][k] = p => op'[p].kind = op[p].kind
    /\ \A p \in Ops : OpOnWire(p, r, k)' => OpOnWire(p, r, k) /\ op'[p].gen = op[p].gen
    /\ RetryOnWire(r, k)' => /\ RetryOnWire(r, k)
                             /\ drainRefresh'[r].todo[k] = drainRefresh[r].todo[k]
                             /\ drainRefresh'[r].taken[k] = drainRefresh[r].taken[k]
    /\ w \in OnWire(r, k) /\ OnWire(r, k)' = OnWire(r, k) \ {w}

\* A write that left the wire leaves a record that still knows the decision.
LEMMA FinishRecord ==
    ASSUME DrainInv, NEW r \in DrainReplicas, NEW k \in Keys, NEW st \in KeyState,
           NEW gen \in Nat, NEW e \in Ops, NEW err \in BOOLEAN, NEW w, LeavesWire(r, k, st, gen, e, err, w)
    PROVE  Record(r, k)' /\ keys'[r][k] \in KeyState \cup {None}
<1> USE DEF LeavesWire
<1>0. Counted(r, k) /\ Knows(r, k) /\ st # None
  BY KeyStateAssumption, Zenon DEF DrainInv, Record
<1>1. /\ IsFiniteSet(OnWire(r, k)) /\ Cardinality(OnWire(r, k)) = st.inflight /\ st.inflight \in Nat
      /\ IsFiniteSet(OnWire(r, k) \ {w})
  BY <1>0, WireFinite, FS_RemoveElement, SMTT(30) DEF Counted
<1>2. Cardinality(OnWire(r, k) \ {w}) = st.inflight - 1 /\ st.inflight > 0
  <2>1. Cardinality(OnWire(r, k) \ {w}) = Cardinality(OnWire(r, k)) - 1
    BY <1>1, FS_RemoveElement, Zenon
  <2>2. Cardinality(OnWire(r, k) \ {w}) \in Nat
    BY <1>1, FS_CardinalityType, Zenon
  <2>3. QED
    BY <1>1, <2>1, <2>2, SMTT(30)
<1>3. PICK new : new = keys'[r][k]
  BY Zenon
<1>4. /\ new \in KeyState \cup {None}
      /\ new = None => st.inflight = 1
      /\ new # None => /\ new.inflight = st.inflight - 1 /\ new.gen = st.gen
                       /\ new.pending \/ new.inflight > 0
                       /\ new.released = st.released
                       /\ new.entry = st.entry \/ (st.gen = gen /\ new.entry = e)
  BY <1>2, <1>3, FinishedFacts, SMTT(30)
<1>5. Counted(r, k)'
  <2>1. CASE new = None
    <3>1. Cardinality(OnWire(r, k) \ {w}) = 0
      BY <1>2, <1>4, <2>1, SMTT(30)
    <3>2. OnWire(r, k) \ {w} = {}
      BY <1>1, <3>1, FS_EmptySet, Zenon
    <3>3. QED
      BY <1>3, <2>1, <3>2, Zenon DEF Counted
  <2>2. CASE new # None
    BY <1>2, <1>3, <1>4, <2>2, Zenon DEF Counted
  <2>3. QED
    BY <2>1, <2>2, Zenon
<1>6. ASSUME new # None PROVE Knows(r, k)'
  <2>1. new.gen = st.gen /\ new.released = st.released
        /\ (new.entry = st.entry \/ new.entry = decided[r][k])
    BY <1>4, <1>6, Zenon
  <2>2. new.released <=> op'[decided[r][k]].kind = "release"
    BY <1>0, <2>1, Zenon DEF Knows
  <2>3. /\ new.entry # None => new.entry = decided[r][k]
        /\ ~new.released /\ DrainLive(decided[r][k]) => new.entry = decided[r][k]
    BY <1>0, <2>1, Zenon DEF Knows
  <2>4. \A p \in Ops : OpOnWire(p, r, k)' =>
          op'[p].gen <= new.gen /\ (op'[p].gen = new.gen <=> decided[r][k] = p)
    BY <1>0, <2>1, Zenon DEF Knows
  <2>5. RetryOnWire(r, k)' =>
          /\ drainRefresh'[r].todo[k] <= new.gen
          /\ drainRefresh'[r].todo[k] = new.gen <=> decided[r][k] = drainRefresh'[r].taken[k]
    BY <1>0, <2>1, Zenon DEF Knows
  <2>6. decided[r][k] \in Ops
    BY <1>0 DEF Knows
  <2>7. QED
    BY <1>3, <2>2, <2>3, <2>4, <2>5, <2>6, Zenon DEF Knows, DrainLive
<1>7. QED
  BY <1>3, <1>4, <1>5, <1>6 DEF Record

\* finishWrite of a request: one write fewer on the wire.
LEMMA FinishKeeps == ASSUME DrainInv, NEW o \in Ops, Finish(o) PROVE DrainInv'
<1>0. DrainTypeOK /\ Placed /\ \A s \in DrainReplicas, j \in Keys : Record(s, j)
  BY DEF DrainInv
<1>1. op[o].pc = "finish"
  BY DEF Finish
<1>2. PICK r \in DrainReplicas, k \in Keys : r = op[o].rep /\ k = op[o].key
  BY <1>0, <1>1, Zenon DEF Placed
<1>3. OpOnWire(o, r, k) /\ o \in OnWire(r, k) /\ keys[r][k] # None
  <2>1. OpOnWire(o, r, k)
    BY <1>1, <1>2 DEF OpOnWire
  <2>2. o \in OnWire(r, k)
    BY <2>1 DEF OnWire
  <2>3. QED
    BY <2>1, <2>2, StateFacts, Zenon
<1>4. PICK st \in KeyState : st = keys[r][k] /\ st = StateOf(r, k)
  BY <1>3, StateFacts
<1>5. PICK gen \in Nat, err \in BOOLEAN : gen = op[o].gen /\ err = op[o].err
  BY <1>0, Zenon DEF DrainTypeOK, OpState
<1>6. gen = st.gen => o = decided[r][k]
  <2>1. Knows(r, k)
    BY <1>0, <1>3, Zenon DEF Record
  <2>2. op[o].gen = keys[r][k].gen <=> decided[r][k] = o
    BY <1>3, <2>1 DEF Knows
  <2>3. QED
    BY <1>4, <1>5, <2>2
<1>7. PICK q \in OpState :
        q = [op[o] EXCEPT !.pc = IF OvertakenByRelease(st, gen, err) THEN "undo" ELSE "done",
                          !.gen = 0, !.err = FALSE]
  BY <1>0, Zenon DEF DrainTypeOK, OpState
<1>8. /\ keys' = [keys EXCEPT ![r][k] = Finished(st, gen, o, err)]
      /\ op' = [op EXCEPT ![o] = q]
      /\ UNCHANGED <<entries, setAfter, releasedAfter, drainRedis, drainOver, drainRefresh, decided, unclean>>
  <2>1. keys' = [keys EXCEPT ![r][k] = Finished(st, gen, o, err)]
    BY <1>2, <1>4, <1>5 DEF Finish
  <2>2. op' = [op EXCEPT ![o] = [@ EXCEPT
               !.pc = IF OvertakenByRelease(st, gen, err) THEN "undo" ELSE "done",
               !.gen = 0, !.err = FALSE]]
    BY <1>2, <1>4, <1>5 DEF Finish
  <2>3. QED
    BY <1>7, <2>1, <2>2, Zenon DEF Finish
<1>9. q.pc \in {"undo", "done"} /\ q.rep = r /\ q.key = k /\ q.kind = op[o].kind
  BY <1>0, <1>2, <1>7 DEF DrainTypeOK, OpState
<1>10. op'[o] = q /\ \A p \in Ops \ {o} : op'[p] = op[p]
  BY <1>0, <1>8 DEF DrainTypeOK
<1>11. /\ keys'[r][k] = Finished(st, gen, o, err)
       /\ \A s \in DrainReplicas, j \in Keys : s # r \/ j # k => keys'[s][j] = keys[s][j]
  BY <1>0, <1>8 DEF DrainTypeOK
<1>12. Record(r, k)' /\ keys'[r][k] \in KeyState \cup {None}
  <2>1. RetryOnWire(r, k)' <=> RetryOnWire(r, k)
    BY <1>8 DEF RetryOnWire
  <2>2. ~OpOnWire(o, r, k)' /\ \A p \in Ops \ {o} : (OpOnWire(p, r, k)' <=> OpOnWire(p, r, k))
    BY <1>9, <1>10 DEF OpOnWire
  <2>3. OnWire(r, k)' = OnWire(r, k) \ {o}
    BY <2>1, <2>2, DrainAssumption, Zenon DEF OnWire
  <2>4. \A p \in Ops : OpOnWire(p, r, k)' => OpOnWire(p, r, k) /\ op'[p].gen = op[p].gen
    BY <1>10, <2>2, Zenon
  <2>5. \A p \in Ops : decided[r][k] = p => op'[p].kind = op[p].kind
    BY <1>9, <1>10
  <2>6. UNCHANGED <<decided, drainOver>>
    BY <1>8
  <2>7. RetryOnWire(r, k)' => /\ RetryOnWire(r, k)
                              /\ drainRefresh'[r].todo[k] = drainRefresh[r].todo[k]
                              /\ drainRefresh'[r].taken[k] = drainRefresh[r].taken[k]
    BY <1>8, <2>1, Zenon
  <2>8. keys'[r][k] = Finished(st, gen, o, err) /\ st = keys[r][k] /\ o \in OnWire(r, k)
    BY <1>3, <1>4, <1>11, Zenon
  <2>9. LeavesWire(r, k, st, gen, o, err, o)
    BY <1>6, <2>3, <2>4, <2>5, <2>6, <2>7, <2>8, Zenon DEF LeavesWire
  <2>10. QED
    BY <2>9, FinishRecord
<1>13. DrainTypeOK'
  <2>1. keys' \in [DrainReplicas -> [Keys -> KeyState \cup {None}]]
    <3>1. Finished(st, gen, o, err) \in KeyState \cup {None}
      BY <1>11, <1>12, Zenon
    <3>2. QED
      BY <1>0, <1>8, <3>1, Zenon DEF DrainTypeOK
  <2>2. QED
    BY <1>0, <1>8, <2>1 DEF DrainTypeOK
<1>14. Placed'
  BY <1>0, <1>1, <1>8, <1>9, <1>10, SMTT(30) DEF Placed, RetryOnWire
<1>15. ASSUME NEW s \in DrainReplicas, NEW j \in Keys, s # r \/ j # k PROVE Record(s, j)'
  BY <1>1, <1>2, <1>8, <1>9, <1>11, <1>15, OpElsewhere, Zenon
<1>16. QED
  BY <1>12, <1>13, <1>14, <1>15 DEF DrainInv

-----------------------------------------------------------------------------
(* The refresh loop.                                                       *)

\* What Placed says of one refresh.
RefreshPlaced(r) ==
    /\ drainRefresh[r].pc \notin {"retry", "finish", "undo"} => \A k \in Keys : ~RetryOnWire(r, k)
    /\ drainRefresh[r].pc \in {"finish", "undo"} => drainRefresh[r].cur \in Keys
    /\ drainRefresh[r].pc = "finish" => RetryOnWire(r, drainRefresh[r].cur)
    /\ \A k \in Keys : RetryOnWire(r, k) => drainRefresh[r].todo[k] \in Nat /\ drainRefresh[r].taken[k] \in Ops
    /\ drainRefresh[r].asOf \subseteq drainOver
    /\ \A k \in Keys, o \in Ops : drainRefresh[r].taken[k] = o => op[o].pc \notin {"idle", "begin"}

\* A step of a refresh leaves the requests, the decisions and the records of
\* the other replicas alone.
LEMMA RefreshElsewhere ==
    ASSUME DrainInv, NEW r \in DrainReplicas, NEW g \in DrainRefreshState,
           drainRefresh' = [drainRefresh EXCEPT ![r] = g], UNCHANGED <<op, decided, drainOver>>,
           \A s \in DrainReplicas \ {r} : keys'[s] = keys[s],
           RefreshPlaced(r)'
    PROVE  Placed' /\ \A s \in DrainReplicas \ {r}, j \in Keys : Record(s, j)'
<1>0. DrainTypeOK /\ Placed /\ \A s \in DrainReplicas, j \in Keys : Record(s, j)
  BY Zenon DEF DrainInv
<1>1. drainRefresh'[r] = g /\ \A s \in DrainReplicas \ {r} : drainRefresh'[s] = drainRefresh[s]
  BY <1>0, Zenon DEF DrainTypeOK
<1>2. Placed'
  BY <1>0, <1>1, SMTT(30) DEF Placed, RefreshPlaced, RetryOnWire
<1>3. ASSUME NEW s \in DrainReplicas \ {r}, NEW j \in Keys PROVE Record(s, j)'
  BY <1>0, <1>1, RecordFrame, Zenon DEF OpOnWire
<1>4. QED
  BY <1>2, <1>3, Zenon

\* A step of a refresh that takes no write and finishes none.
LEMMA RefreshStepKeeps ==
    ASSUME DrainInv, NEW r \in DrainReplicas, NEW g \in DrainRefreshState,
           drainRefresh' = [drainRefresh EXCEPT ![r] = g], UNCHANGED <<keys, op, decided, drainOver>>,
           \A k \in Keys : /\ g.todo[k] = drainRefresh[r].todo[k]
                           /\ drainRefresh[r].todo[k] # -1 => g.taken[k] = drainRefresh[r].taken[k],
           RefreshPlaced(r)'
    PROVE  Placed' /\ \A s \in DrainReplicas, j \in Keys : Record(s, j)'
<1>0. DrainTypeOK /\ Placed /\ \A s \in DrainReplicas, j \in Keys : Record(s, j)
  BY Zenon DEF DrainInv
<1>1. drainRefresh'[r] = g
  BY <1>0, Zenon DEF DrainTypeOK
<1>2. Placed' /\ \A s \in DrainReplicas \ {r}, j \in Keys : Record(s, j)'
  BY RefreshElsewhere, Zenon
<1>3. ASSUME NEW j \in Keys PROVE Record(r, j)'
  BY <1>0, <1>1, RecordFrame DEF OpOnWire
<1>4. QED
  BY <1>2, <1>3, Zenon

\* The steps that leave what was taken alone.
LEMMA RefreshMoves ==
    ASSUME DrainInv, NEW r \in DrainReplicas, NEW err \in BOOLEAN,
           \/ RefreshBegin(r) \/ DrainFetchFailed(r) \/ DrainFetchAnswered(r)
           \/ RetryUndo(r, err) \/ \E k \in Keys : RetryHSet(r, k, err)
    PROVE  DrainInv'
<1>0. DrainTypeOK /\ Placed
  BY DEF DrainInv
<1>1. drainRefresh[r] \in DrainRefreshState /\ drainRedis \in Entries
  BY <1>0 DEF DrainTypeOK
<1>2. RefreshPlaced(r)
  BY <1>0, Zenon DEF Placed, RefreshPlaced
<1>3. UNCHANGED <<entries, keys, op, decided, drainOver>>
  BY Zenon DEF RefreshBegin, DrainFetchFailed, DrainFetchAnswered, RetryHSet, RetryUndo
<1>4. PICK g \in DrainRefreshState :
         /\ drainRefresh' = [drainRefresh EXCEPT ![r] = g]
         /\ g.todo = drainRefresh[r].todo /\ g.taken = drainRefresh[r].taken /\ g.asOf = drainRefresh[r].asOf
         /\ \/ drainRefresh[r].pc \notin {"retry", "finish", "undo"} /\ g.pc \notin {"retry", "finish", "undo"}
            \/ g.pc = "finish" /\ g.cur \in Keys /\ drainRefresh[r].todo[g.cur] # -1
            \/ g.pc = "retry"
  <2>1. CASE RefreshBegin(r) \/ DrainFetchFailed(r)
    <3>1. PICK pc \in {"fetch", "idle"} : drainRefresh' = [drainRefresh EXCEPT ![r].pc = pc]
      BY <2>1 DEF RefreshBegin, DrainFetchFailed
    <3>2. drainRefresh[r].pc \notin {"retry", "finish", "undo"}
      BY <2>1 DEF RefreshBegin, DrainFetchFailed
    <3> DEFINE g == [drainRefresh[r] EXCEPT !.pc = pc]
    <3>3. g \in DrainRefreshState /\ drainRefresh' = [drainRefresh EXCEPT ![r] = g] /\ g.pc = pc
          /\ g.todo = drainRefresh[r].todo /\ g.taken = drainRefresh[r].taken /\ g.asOf = drainRefresh[r].asOf
      BY <1>1, <3>1 DEF DrainRefreshState
    <3> HIDE DEF g
    <3>4. QED
      BY <3>2, <3>3, Zenon
  <2>2. CASE DrainFetchAnswered(r)
    <3> DEFINE g == [drainRefresh[r] EXCEPT !.pc = "scan", !.next = drainRedis]
    <3>1. drainRefresh' = [drainRefresh EXCEPT ![r] = g] /\ drainRefresh[r].pc = "fetch"
      BY <2>2 DEF DrainFetchAnswered
    <3>2. g \in DrainRefreshState /\ g.pc = "scan"
          /\ g.todo = drainRefresh[r].todo /\ g.taken = drainRefresh[r].taken /\ g.asOf = drainRefresh[r].asOf
      BY <1>1, Zenon DEF DrainRefreshState
    <3> HIDE DEF g
    <3>3. QED
      BY <3>1, <3>2, Zenon
  <2>3. CASE \E k \in Keys : RetryHSet(r, k, err)
    <3>0. PICK k \in Keys : RetryHSet(r, k, err)
      BY <2>3
    <3> DEFINE g == [drainRefresh[r] EXCEPT !.pc = "finish", !.cur = k, !.err = err]
    <3>1. drainRefresh' = [drainRefresh EXCEPT ![r] = g] /\ drainRefresh[r].todo[k] # -1
      BY <3>0, Zenon DEF RetryHSet
    <3>2. g \in DrainRefreshState /\ g.pc = "finish" /\ g.cur = k
          /\ g.todo = drainRefresh[r].todo /\ g.taken = drainRefresh[r].taken /\ g.asOf = drainRefresh[r].asOf
      BY <1>1, Zenon DEF DrainRefreshState
    <3> HIDE DEF g
    <3>3. QED
      BY <3>1, <3>2, Zenon
  <2>4. CASE RetryUndo(r, err)
    <3> DEFINE g == [drainRefresh[r] EXCEPT !.pc = "retry"]
    <3>1. drainRefresh' = [drainRefresh EXCEPT ![r] = g]
      BY <2>4 DEF RetryUndo
    <3>2. g \in DrainRefreshState /\ g.pc = "retry"
          /\ g.todo = drainRefresh[r].todo /\ g.taken = drainRefresh[r].taken /\ g.asOf = drainRefresh[r].asOf
      BY <1>1 DEF DrainRefreshState
    <3> HIDE DEF g
    <3>3. QED
      BY <3>1, <3>2, Zenon
  <2>5. QED
    BY <2>1, <2>2, <2>3, <2>4, Zenon
<1>5. drainRefresh'[r] = g
  BY <1>0, <1>4 DEF DrainTypeOK
<1>6. RefreshPlaced(r)'
  BY <1>2, <1>3, <1>4, <1>5, Zenon DEF RefreshPlaced, RetryOnWire
<1>7. Placed' /\ \A s \in DrainReplicas, j \in Keys : Record(s, j)'
  BY <1>3, <1>4, <1>6, RefreshStepKeeps, Zenon
<1>8. drainRedis' \in Entries
  <2>1. CASE UNCHANGED drainRedis
    BY <1>1, <2>1
  <2>2. ASSUME NEW k \in Keys, Writes(k, drainRefresh[r].taken[k], err) PROVE drainRedis' \in Entries
    <3>1. drainRefresh[r].taken[k] \in Ops \cup {None}
      BY <1>1 DEF DrainRefreshState, Entries
    <3>2. QED
      BY <1>0, <2>2, <3>1, WritesType, Zenon
  <2>3. CASE RetryUndo(r, err)
    <3>1. drainRefresh[r].cur \in Keys /\ Writes(drainRefresh[r].cur, None, err)
      BY <1>2, <2>3, Zenon DEF RefreshPlaced, RetryUndo
    <3>2. QED
      BY <1>0, <3>1, WritesType
  <2>4. QED
    BY <2>1, <2>2, <2>3, Zenon DEF RefreshBegin, DrainFetchFailed, DrainFetchAnswered, RetryHSet
<1>9. /\ setAfter' \in [DrainReplicas -> SUBSET Keys] /\ releasedAfter' \in [DrainReplicas -> SUBSET Keys]
      /\ unclean' \in [DrainReplicas -> SUBSET Keys]
  <2>1. CASE UNCHANGED <<setAfter, releasedAfter, unclean>>
    BY <1>0, <2>1 DEF DrainTypeOK
  <2>2. CASE DrainFetchFailed(r)
    BY <1>0, <2>2 DEF DrainTypeOK, DrainFetchFailed
  <2>3. CASE RetryUndo(r, err)
    <3>1. drainRefresh[r].cur \in Keys
      BY <1>2, <2>3, Zenon DEF RefreshPlaced, RetryUndo
    <3>2. QED
      BY <1>0, <2>3, <3>1 DEF DrainTypeOK, RetryUndo, NoteUnclean
  <2>4. QED
    BY <2>1, <2>2, <2>3, Zenon DEF RefreshBegin, DrainFetchAnswered, RetryHSet
<1>10. DrainTypeOK'
  BY <1>0, <1>3, <1>4, <1>8, <1>9, Zenon DEF DrainTypeOK
<1>11. QED
  BY <1>7, <1>10 DEF DrainInv

\* The steps that end a refresh.
LEMMA RefreshEnds == ASSUME DrainInv, NEW r \in DrainReplicas, Replace(r) \/ Purge(r) PROVE DrainInv'
<1>0. DrainTypeOK /\ Placed
  BY DEF DrainInv
<1>1. drainRefresh[r] \in DrainRefreshState /\ drainRedis \in Entries
  BY <1>0 DEF DrainTypeOK
<1>2. RefreshPlaced(r)
  BY <1>0 DEF Placed, RefreshPlaced
<1>3. UNCHANGED <<keys, op, decided, drainOver, unclean>>
  BY DEF Replace, Purge
<1>4. \A k \in Keys : drainRefresh[r].todo[k] = -1
  BY <1>2, Zenon DEF Replace, Purge, RefreshPlaced, RetryOnWire
<1>5. /\ DrainIdleRefresh \in DrainRefreshState /\ DrainIdleRefresh.pc = "idle" /\ DrainIdleRefresh.asOf = {}
      /\ \A k \in Keys : DrainIdleRefresh.todo[k] = -1 /\ DrainIdleRefresh.taken[k] = None
  BY DEF DrainIdleRefresh, DrainRefreshState, NoEntries, Entries
<1>6. PICK g \in DrainRefreshState :
         /\ drainRefresh' = [drainRefresh EXCEPT ![r] = g] /\ g.pc \in {"idle", "purge"} /\ g.asOf = {}
         /\ \A k \in Keys : g.todo[k] = -1 /\ g.taken[k] = None
  <2> DEFINE p == [DrainIdleRefresh EXCEPT !.pc = "purge", !.expired = drainRefresh[r].expired]
  <2>1. /\ p \in DrainRefreshState /\ p.pc = "purge" /\ p.asOf = {}
        /\ \A k \in Keys : p.todo[k] = -1 /\ p.taken[k] = None
    <3>1. drainRefresh[r].expired \in SUBSET Keys
      BY <1>1 DEF DrainRefreshState
    <3>2. QED
      BY <1>5, <3>1, Zenon DEF DrainRefreshState
  <2>2. \/ drainRefresh' = [drainRefresh EXCEPT ![r] = p]
        \/ drainRefresh' = [drainRefresh EXCEPT ![r] = DrainIdleRefresh]
    BY DEF Replace, Purge
  <2> HIDE DEF p
  <2>3. QED
    BY <1>5, <2>1, <2>2
<1>7. drainRefresh'[r] = g
  BY <1>0, <1>6 DEF DrainTypeOK
<1>8. RefreshPlaced(r)'
  <2>1. \A k \in Keys : ~RetryOnWire(r, k)'
    BY <1>6, <1>7 DEF RetryOnWire
  <2>2. \A k \in Keys, o \in Ops : drainRefresh'[r].taken[k] # o
    BY <1>6, <1>7, DrainAssumption, Zenon
  <2>3. drainRefresh'[r].pc \in {"idle", "purge"} /\ drainRefresh'[r].asOf = {}
    BY <1>6, <1>7, Zenon
  <2>4. QED
    BY <2>1, <2>2, <2>3 DEF RefreshPlaced
<1>9. Placed' /\ \A s \in DrainReplicas, j \in Keys : Record(s, j)'
  <2>1. \A k \in Keys : /\ g.todo[k] = drainRefresh[r].todo[k]
                        /\ drainRefresh[r].todo[k] # -1 => g.taken[k] = drainRefresh[r].taken[k]
    BY <1>4, <1>6
  <2>2. UNCHANGED <<keys, op, decided, drainOver>>
    BY <1>3
  <2>3. QED
    BY <1>6, <1>8, <2>1, <2>2, RefreshStepKeeps, Zenon
<1>10. entries' \in [DrainReplicas -> Entries]
  <2>1. CASE Replace(r)
    <3>1. \A k \in Keys : Replaced(r, k) \in Ops \cup {None}
      BY <1>0, <1>1 DEF Replaced, DrainTypeOK, Entries, DrainRefreshState
    <3>2. [k \in Keys |-> Replaced(r, k)] \in Entries
      BY <3>1, Zenon DEF Entries
    <3>3. QED
      BY <1>0, <2>1, <3>2 DEF Replace, DrainTypeOK
  <2>2. CASE Purge(r)
    BY <1>0, <2>2 DEF Purge, DrainTypeOK
  <2>3. QED
    BY <2>1, <2>2
<1>11. /\ drainRedis' \in Entries
       /\ setAfter' \in [DrainReplicas -> SUBSET Keys] /\ releasedAfter' \in [DrainReplicas -> SUBSET Keys]
  <2>1. CASE Replace(r)
    BY <1>0, <2>1, Zenon DEF Replace, DrainTypeOK
  <2>2. CASE Purge(r)
    BY <1>0, <2>2, Zenon DEF Purge, DrainTypeOK, Entries
  <2>3. QED
    BY <2>1, <2>2
<1>12. DrainTypeOK'
  BY <1>0, <1>3, <1>6, <1>10, <1>11, Zenon DEF DrainTypeOK
<1>13. QED
  BY <1>9, <1>12 DEF DrainInv

\* takePending on one record: a drain that is over is dropped, a live one gets
\* the retry as one more write on the wire.
LEMMA TakeKeeps ==
    ASSUME DrainInv, NEW r \in DrainReplicas, NEW k \in Keys, ~RetryOnWire(r, k),
           keys'[r][k] = DrainTaken(keys[r][k]), UNCHANGED <<op, decided, drainOver>>,
           drainRefresh'[r].todo[k] = IF Takes(keys[r][k]) THEN keys[r][k].gen ELSE -1,
           drainRefresh'[r].taken[k] = IF Takes(keys[r][k]) THEN keys[r][k].entry ELSE None
    PROVE  /\ Record(r, k)' /\ keys'[r][k] \in KeyState \cup {None}
           /\ RetryOnWire(r, k)' => drainRefresh'[r].todo[k] \in Nat /\ drainRefresh'[r].taken[k] \in Ops
           /\ \A o \in Ops : drainRefresh'[r].taken[k] = o => o = decided[r][k]
<1>0. DrainTypeOK /\ Record(r, k)
  BY DEF DrainInv
<1>1. PICK st \in KeyState \cup {None} : st = keys[r][k]
  BY <1>0 DEF DrainTypeOK
<1>2. \A p \in Ops : OpOnWire(p, r, k)' <=> OpOnWire(p, r, k)
  BY Zenon DEF OpOnWire
<1>3. CASE st = None \/ ~st.pending
  <2>1. DrainTaken(st) = st /\ ~Takes(st)
    BY <1>3, Zenon DEF DrainTaken, Takes
  <2>2. keys'[r][k] = keys[r][k] /\ drainRefresh'[r].todo[k] = -1 /\ drainRefresh'[r].taken[k] = None
    BY <1>1, <2>1
  <2>3. drainRefresh[r].todo[k] = -1
    BY Zenon DEF RetryOnWire
  <2>4. Record(r, k)'
    BY <1>0, <1>2, <2>2, <2>3, RecordFrame, Zenon
  <2>5. QED
    BY <1>1, <2>2, <2>4, DrainAssumption DEF RetryOnWire
<1>4. CASE st # None /\ st.pending /\ ~DrainLive(st.entry)
  <2>1. DrainTaken(st) = Forget([st EXCEPT !.pending = FALSE, !.entry = None]) /\ ~Takes(st) /\ st \in KeyState
    BY <1>4 DEF DrainTaken, Takes
  <2>2. [st EXCEPT !.pending = FALSE, !.entry = None] \in KeyState
    BY <2>1, Zenon DEF KeyState
  <2>3. PICK s \in KeyState : s = [st EXCEPT !.pending = FALSE, !.entry = None]
    BY <2>2
  <2>4. ~s.pending /\ s.entry = None /\ s.inflight = st.inflight /\ s.gen = st.gen /\ s.released = st.released
    BY <2>1, <2>3 DEF KeyState
  <2>5. PICK new \in KeyState \cup {None} : new = Forget(s) /\ keys'[r][k] = new
    BY <1>1, <2>1, <2>3, ForgetFacts
  <2>6. drainRefresh'[r].todo[k] = -1 /\ drainRefresh'[r].taken[k] = None
    BY <1>1, <2>1
  <2>7. ~RetryOnWire(r, k)'
    BY <2>6 DEF RetryOnWire
  <2>8. OnWire(r, k)' = OnWire(r, k)
    BY <1>2, <2>7, Zenon DEF OnWire
  <2>9. Knows(r, k) /\ st.inflight = Cardinality(OnWire(r, k))
    BY <1>0, <1>1, <1>4, Zenon DEF Record, Counted
  <2>10. Counted(r, k)'
    <3>1. CASE new = None
      <4>1. OnWire(r, k) = {}
        BY <2>4, <2>5, <2>9, <3>1, ForgetFacts, WireFinite, FS_EmptySet, Zenon
      <4>2. QED
        BY <2>5, <2>8, <3>1, <4>1, Zenon DEF Counted
    <3>2. CASE new # None
      BY <2>4, <2>5, <2>8, <2>9, <3>2, ForgetFacts DEF Counted
    <3>3. QED
      BY <3>1, <3>2, Zenon
  <2>11. ASSUME new # None PROVE Knows(r, k)'
    <3>1. new = s
      BY <2>5, <2>11, ForgetFacts, Zenon
    <3>2. ~st.released => ~DrainLive(decided[r][k])
      BY <1>1, <1>4, <2>9, Zenon DEF Knows
    <3>3. \A p \in Ops : OpOnWire(p, r, k)' =>
            op'[p].gen <= new.gen /\ (op'[p].gen = new.gen <=> decided'[r][k] = p)
      BY <1>1, <1>2, <2>4, <2>9, <3>1, Zenon DEF Knows
    <3>4. new.released <=> op'[decided'[r][k]].kind = "release"
      BY <1>1, <2>4, <2>9, <3>1, Zenon DEF Knows
    <3>5. ~(~new.released /\ DrainLive(decided[r][k])') /\ new.entry = None
      BY <2>4, <3>1, <3>2, Zenon DEF DrainLive
    <3>6. decided'[r][k] \in Ops
      BY <2>9, Zenon DEF Knows
    <3>7. QED
      BY <2>5, <2>7, <3>3, <3>4, <3>5, <3>6, Zenon DEF Knows
  <2>12. QED
    BY <2>5, <2>6, <2>7, <2>10, <2>11, DrainAssumption DEF Record
<1>5. CASE st # None /\ st.pending /\ DrainLive(st.entry)
  <2>1. DrainTaken(st) = [st EXCEPT !.inflight = @ + 1] /\ Takes(st) /\ st \in KeyState
    BY <1>5 DEF DrainTaken, Takes
  <2>2. st.gen \in Nat /\ st.inflight \in Nat /\ st.inflight + 1 \in Nat
    BY <2>1 DEF KeyState
  <2>3. [st EXCEPT !.inflight = @ + 1] \in KeyState
    BY <2>1, <2>2 DEF KeyState
  <2>4. PICK new \in KeyState : new = [st EXCEPT !.inflight = @ + 1]
    BY <2>3
  <2>5. /\ new.pending /\ new.entry = st.entry /\ new.inflight = st.inflight + 1 /\ new.gen = st.gen
        /\ new.released = st.released /\ new # None
    BY <1>5, <2>1, <2>4, KeyStateAssumption DEF KeyState
  <2>6. keys'[r][k] = new /\ drainRefresh'[r].todo[k] = st.gen /\ drainRefresh'[r].taken[k] = st.entry
    BY <1>1, <2>1, <2>4, Zenon
  <2>7. Knows(r, k) /\ st.inflight = Cardinality(OnWire(r, k))
    BY <1>0, <1>1, <1>5, Zenon DEF Record, Counted
  <2>8. st.entry = decided[r][k] /\ decided[r][k] \in Ops
    BY <1>1, <1>5, <2>7, Zenon DEF Knows, DrainLive
  <2>9. RetryOnWire(r, k)'
    BY <2>2, <2>6, SMTT(30) DEF RetryOnWire
  <2>10. OnWire(r, k)' = OnWire(r, k) \cup {r} /\ r \notin OnWire(r, k)
    BY <1>2, <2>9, DrainAssumption, Zenon DEF OnWire
  <2>11. Cardinality(OnWire(r, k) \cup {r}) = Cardinality(OnWire(r, k)) + 1
    BY <2>10, WireFinite, FS_AddElement, Zenon
  <2>12. Counted(r, k)'
    BY <2>5, <2>6, <2>7, <2>10, <2>11 DEF Counted
  <2>13. Knows(r, k)'
    <3>1. \A p \in Ops : OpOnWire(p, r, k)' =>
            op'[p].gen <= new.gen /\ (op'[p].gen = new.gen <=> decided'[r][k] = p)
      BY <1>1, <1>2, <2>5, <2>7, Zenon DEF Knows
    <3>2. new.released <=> op'[decided'[r][k]].kind = "release"
      BY <1>1, <2>5, <2>7, Zenon DEF Knows
    <3>3. new.entry = decided'[r][k]
      BY <2>5, <2>8, Zenon
    <3>4. st.gen <= new.gen /\ (st.gen = new.gen <=> decided'[r][k] = st.entry)
      BY <2>2, <2>5, <2>8, SMTT(30)
    <3>5. QED
      BY <2>6, <2>8, <3>1, <3>2, <3>3, <3>4, Zenon DEF Knows
  <2>14. QED
    BY <2>2, <2>6, <2>8, <2>12, <2>13 DEF Record
<1>6. QED
  BY <1>3, <1>4, <1>5

\* takePending, on every record of the replica.
LEMMA ScanKeeps == ASSUME DrainInv, NEW r \in DrainReplicas, Scan(r) PROVE DrainInv'
<1>0. DrainTypeOK /\ Placed /\ drainRefresh[r].pc = "scan"
  BY DEF DrainInv, Scan
<1>1. drainRefresh[r] \in DrainRefreshState /\ drainRefresh[r].next \in Entries
  BY <1>0, Zenon DEF DrainTypeOK, DrainRefreshState
<1>2. \A k \in Keys : ~RetryOnWire(r, k)
  BY <1>0, Zenon DEF Placed
<1> DEFINE todo == [k \in Keys |-> IF Takes(keys[r][k]) THEN keys[r][k].gen ELSE -1]
           taken == [k \in Keys |-> IF Takes(keys[r][k]) THEN keys[r][k].entry ELSE None]
           next == [k \in Keys |-> IF Wanted(r, drainRefresh[r].next[k]) THEN drainRefresh[r].next[k] ELSE None]
           exp == {k \in Keys : drainRefresh[r].next[k] \in drainOver}
<1>3. todo \in [Keys -> Int] /\ taken \in Entries /\ next \in Entries /\ exp \in SUBSET Keys
  <2>1. \A k \in Keys : Takes(keys[r][k]) => keys[r][k].gen \in Nat /\ keys[r][k].entry \in Ops \cup {None}
    BY <1>0, SMTT(30) DEF DrainTypeOK, Takes, KeyState
  <2>2. todo \in [Keys -> Int]
    BY <2>1
  <2>3. taken \in Entries
    BY <2>1 DEF Entries
  <2>4. next \in Entries
    BY <1>1, Zenon DEF Entries
  <2>5. QED
    BY <2>2, <2>3, <2>4, Zenon
<1>4. /\ \A k \in Keys : todo[k] = IF Takes(keys[r][k]) THEN keys[r][k].gen ELSE -1
      /\ \A k \in Keys : taken[k] = IF Takes(keys[r][k]) THEN keys[r][k].entry ELSE None
  OBVIOUS
<1>5. /\ drainRefresh' = [drainRefresh EXCEPT ![r] = [@ EXCEPT !.pc = "retry", !.next = next, !.expired = exp,
                                                      !.asOf = drainOver, !.todo = todo, !.taken = taken]]
      /\ keys' = [keys EXCEPT ![r] = [k \in Keys |-> DrainTaken(keys[r][k])]]
      /\ UNCHANGED <<entries, setAfter, releasedAfter, drainRedis, drainOver, op, decided, unclean>>
  BY DEF Scan
<1> HIDE DEF todo, taken, next, exp
<1>6. [drainRefresh[r] EXCEPT !.pc = "retry", !.next = next, !.expired = exp,
                              !.asOf = drainOver, !.todo = todo, !.taken = taken] \in DrainRefreshState
  BY <1>0, <1>1, <1>3, Zenon DEF DrainTypeOK, DrainRefreshState
<1>7. PICK g \in DrainRefreshState :
        g = [drainRefresh[r] EXCEPT !.pc = "retry", !.next = next, !.expired = exp,
                                    !.asOf = drainOver, !.todo = todo, !.taken = taken]
  BY <1>6
<1>8. /\ drainRefresh' = [drainRefresh EXCEPT ![r] = g] /\ g.pc = "retry" /\ g.asOf = drainOver
      /\ g.todo = todo /\ g.taken = taken
  BY <1>1, <1>5, <1>7 DEF DrainRefreshState
<1>9. drainRefresh'[r] = g
  BY <1>0, <1>8 DEF DrainTypeOK
<1>10. /\ \A k \in Keys : keys'[r][k] = DrainTaken(keys[r][k])
       /\ \A s \in DrainReplicas \ {r} : keys'[s] = keys[s]
  BY <1>0, <1>5, Zenon DEF DrainTypeOK
<1>11. ASSUME NEW k \in Keys
       PROVE  /\ Record(r, k)' /\ keys'[r][k] \in KeyState \cup {None}
              /\ RetryOnWire(r, k)' => drainRefresh'[r].todo[k] \in Nat /\ drainRefresh'[r].taken[k] \in Ops
              /\ \A o \in Ops : drainRefresh'[r].taken[k] = o => o = decided[r][k]
  <2>1. /\ drainRefresh'[r].todo[k] = IF Takes(keys[r][k]) THEN keys[r][k].gen ELSE -1
        /\ drainRefresh'[r].taken[k] = IF Takes(keys[r][k]) THEN keys[r][k].entry ELSE None
    BY <1>4, <1>8, <1>9
  <2>2. UNCHANGED <<op, decided, drainOver>>
    BY <1>5
  <2>3. QED
    BY <1>2, <1>10, <2>1, <2>2, TakeKeeps, Zenon
<1>12. RefreshPlaced(r)'
  <2>1. \A k \in Keys, o \in Ops : drainRefresh'[r].taken[k] = o => op'[o].pc \notin {"idle", "begin"}
    BY <1>0, <1>5, <1>11 DEF Placed
  <2>2. QED
    BY <1>5, <1>8, <1>9, <1>11, <2>1 DEF RefreshPlaced
<1>13. Placed' /\ \A s \in DrainReplicas \ {r}, j \in Keys : Record(s, j)'
  BY <1>5, <1>8, <1>10, <1>12, RefreshElsewhere, Zenon
<1>14. DrainTypeOK'
  <2>1. [k \in Keys |-> DrainTaken(keys[r][k])] \in [Keys -> KeyState \cup {None}]
    BY <1>10, <1>11
  <2>2. keys' \in [DrainReplicas -> [Keys -> KeyState \cup {None}]]
    BY <1>0, <1>5, <2>1 DEF DrainTypeOK
  <2>3. QED
    BY <1>0, <1>5, <1>8, <2>2 DEF DrainTypeOK
<1>15. QED
  BY <1>11, <1>13, <1>14 DEF DrainInv

\* A retry returns: finishWrite on its record, and the drain it leaves is shown
\* by the refresh unless it was over when the snapshot was read.
RetryFinishes(r, k, gen, e, err, st, g) ==
    /\ k = drainRefresh[r].cur /\ gen = drainRefresh[r].todo[k] /\ e = drainRefresh[r].taken[k]
    /\ st = keys[r][k] /\ keys[r][k] # None /\ RetryOnWire(r, k) /\ drainRefresh[r].pc = "finish"
    /\ keys' = [keys EXCEPT ![r][k] = Finished(st, gen, e, err)]
    /\ drainRefresh' = [drainRefresh EXCEPT ![r] = g]
    /\ g.pc \in {"undo", "retry"} /\ (OvertakenByRelease(st, gen, err) => g.pc = "undo") /\ g.cur = k
    /\ g.taken = drainRefresh[r].taken /\ g.asOf = drainRefresh[r].asOf
    /\ g.todo[k] = -1 /\ \A j \in Keys \ {k} : g.todo[j] = drainRefresh[r].todo[j]
    /\ \A j \in Keys \ {k} : g.next[j] = drainRefresh[r].next[j]
    /\ DrainKept(st, gen, e, err) # None /\ DrainKept(st, gen, e, err) \notin drainRefresh[r].asOf =>
          g.next[k] = DrainKept(st, gen, e, err)
    /\ UNCHANGED <<entries, setAfter, releasedAfter, drainRedis, drainOver, op, decided, unclean>>

\* RetryFinish is such a step: what it finishes is on the wire, so its record is
\* there.
LEMMA RetryFinishStep ==
    ASSUME DrainInv, NEW r \in DrainReplicas, RetryFinish(r)
    PROVE  \E k \in Keys, gen \in Nat, e \in Ops, err \in BOOLEAN, st \in KeyState, g \in DrainRefreshState :
              RetryFinishes(r, k, gen, e, err, st, g)
<1>0. DrainTypeOK /\ Placed /\ drainRefresh[r].pc = "finish"
  BY Zenon DEF DrainInv, RetryFinish
<1>1. PICK k \in Keys : k = drainRefresh[r].cur /\ RetryOnWire(r, k)
  BY <1>0, Zenon DEF Placed
<1>2. PICK gen \in Nat, e \in Ops : gen = drainRefresh[r].todo[k] /\ e = drainRefresh[r].taken[k]
  BY <1>0, <1>1 DEF Placed
<1>3. r \in OnWire(r, k)
  BY <1>1, Zenon DEF OnWire
<1>4. PICK st \in KeyState : st = keys[r][k] /\ st = StateOf(r, k) /\ keys[r][k] # None
  BY <1>3, StateFacts
<1>5. drainRefresh[r] \in DrainRefreshState
  BY <1>0, Zenon DEF DrainTypeOK
<1>6. PICK err \in BOOLEAN : err = drainRefresh[r].err
  BY <1>5 DEF DrainRefreshState
<1>7. PICK live : live = DrainKept(st, gen, e, err)
  OBVIOUS
<1>8. live \in Ops \cup {None}
  BY <1>7, Zenon DEF DrainKept, KeyState
<1> DEFINE f == drainRefresh[r]
           next == [f.next EXCEPT ![k] = IF live # None /\ live \notin f.asOf THEN live ELSE f.next[k]]
           todo == [f.todo EXCEPT ![k] = -1]
           pc == IF OvertakenByRelease(st, gen, err) THEN "undo" ELSE "retry"
           h == [f EXCEPT !.pc = pc, !.next = next, !.todo = todo, !.err = FALSE]
<1>9. /\ next \in Entries /\ todo \in [Keys -> Int] /\ pc \in {"undo", "retry"}
      /\ OvertakenByRelease(st, gen, err) => pc = "undo"
  BY <1>5, <1>8, SMTT(30) DEF DrainRefreshState, Entries
<1>10. /\ todo[k] = -1 /\ \A j \in Keys \ {k} : todo[j] = f.todo[j] /\ next[j] = f.next[j]
       /\ live # None /\ live \notin f.asOf => next[k] = live
  BY <1>5, Zenon DEF DrainRefreshState, Entries
<1> DEFINE n == [f EXCEPT !.pc = pc, !.next[k] = IF live # None /\ live \notin f.asOf THEN live ELSE f.next[k],
                          !.todo[k] = -1, !.err = FALSE]
<1>11. drainRefresh' = [drainRefresh EXCEPT ![r] = n]
  BY <1>1, <1>2, <1>4, <1>6, <1>7, Zenon DEF RetryFinish
<1>12. n = h
  BY <1>5, Zenon DEF DrainRefreshState
<1> HIDE DEF n
<1>13. keys' = [keys EXCEPT ![r][k] = Finished(st, gen, e, err)]
  BY <1>1, <1>2, <1>4, <1>6, Zenon DEF RetryFinish
<1>14. UNCHANGED <<entries, setAfter, releasedAfter, drainRedis, drainOver, op, decided, unclean>>
  BY DEF RetryFinish
<1> HIDE DEF next, todo, pc
<1>15. /\ h \in DrainRefreshState /\ h.pc = pc /\ h.cur = k /\ h.taken = f.taken /\ h.asOf = f.asOf
       /\ h.todo = todo /\ h.next = next
  BY <1>1, <1>5, <1>9, Zenon DEF DrainRefreshState
<1> HIDE DEF h
<1>16. PICK g \in DrainRefreshState : g = h /\ drainRefresh' = [drainRefresh EXCEPT ![r] = g]
  BY <1>11, <1>12, <1>15, Zenon
<1>17. /\ g.pc \in {"undo", "retry"} /\ (OvertakenByRelease(st, gen, err) => g.pc = "undo") /\ g.cur = k
       /\ g.taken = drainRefresh[r].taken /\ g.asOf = drainRefresh[r].asOf
       /\ g.todo[k] = -1 /\ \A j \in Keys \ {k} : g.todo[j] = drainRefresh[r].todo[j]
       /\ \A j \in Keys \ {k} : g.next[j] = drainRefresh[r].next[j]
       /\ DrainKept(st, gen, e, err) # None /\ DrainKept(st, gen, e, err) \notin drainRefresh[r].asOf =>
             g.next[k] = DrainKept(st, gen, e, err)
  BY <1>7, <1>9, <1>10, <1>15, <1>16, Zenon
<1>18. RetryFinishes(r, k, gen, e, err, st, g)
  BY <1>0, <1>1, <1>2, <1>4, <1>13, <1>14, <1>16, <1>17, Zenon DEF RetryFinishes
<1>19. QED
  BY <1>18

\* finishWrite of a retry.
LEMMA RetryFinishKeeps == ASSUME DrainInv, NEW r \in DrainReplicas, RetryFinish(r) PROVE DrainInv'
<1>0. DrainTypeOK /\ Placed /\ \A j \in Keys : Record(r, j)
  BY DEF DrainInv
<1>a. PICK k \in Keys, gen \in Nat, e \in Ops, err \in BOOLEAN, st \in KeyState, g \in DrainRefreshState :
        RetryFinishes(r, k, gen, e, err, st, g)
  BY RetryFinishStep, Zenon
<1>1. /\ k = drainRefresh[r].cur /\ gen = drainRefresh[r].todo[k] /\ e = drainRefresh[r].taken[k]
      /\ st = keys[r][k] /\ keys[r][k] # None /\ RetryOnWire(r, k) /\ drainRefresh[r].pc = "finish"
      /\ keys' = [keys EXCEPT ![r][k] = Finished(st, gen, e, err)]
      /\ drainRefresh' = [drainRefresh EXCEPT ![r] = g]
      /\ g.pc \in {"undo", "retry"} /\ g.cur = k
      /\ g.taken = drainRefresh[r].taken /\ g.asOf = drainRefresh[r].asOf
      /\ g.todo[k] = -1 /\ \A j \in Keys \ {k} : g.todo[j] = drainRefresh[r].todo[j]
      /\ UNCHANGED <<entries, setAfter, releasedAfter, drainRedis, drainOver, op, decided, unclean>>
  BY <1>a, Zenon DEF RetryFinishes
<1>2. drainRefresh'[r] = g
  BY <1>0, <1>1, Zenon DEF DrainTypeOK
<1>3. /\ keys'[r][k] = Finished(st, gen, e, err)
      /\ \A j \in Keys \ {k} : keys'[r][j] = keys[r][j]
      /\ \A s \in DrainReplicas \ {r} : keys'[s] = keys[s]
  BY <1>0, <1>1, Zenon DEF DrainTypeOK
<1>4. \A j \in Keys, p \in Ops : OpOnWire(p, r, j)' <=> OpOnWire(p, r, j)
  BY <1>1, Zenon DEF OpOnWire
<1>5. gen = st.gen => e = decided[r][k]
  <2>1. Knows(r, k)
    BY <1>0, <1>1, Zenon DEF Record
  <2>2. QED
    BY <1>1, <2>1, Zenon DEF Knows
<1>6. Record(r, k)' /\ keys'[r][k] \in KeyState \cup {None}
  <2>1. ~RetryOnWire(r, k)'
    BY <1>1, <1>2, Zenon DEF RetryOnWire
  <2>2. r \in OnWire(r, k)
    BY <1>1, Zenon DEF OnWire
  <2>3. OnWire(r, k)' = OnWire(r, k) \ {r}
    BY <1>1, <1>4, <2>1, DrainAssumption, Zenon DEF OnWire
  <2>4. UNCHANGED <<decided, drainOver>>
    BY <1>1, Zenon
  <2>5. \A p \in Ops : OpOnWire(p, r, k)' => OpOnWire(p, r, k) /\ op'[p].gen = op[p].gen
    BY <1>1, <1>4, Zenon
  <2>6. \A p \in Ops : decided[r][k] = p => op'[p].kind = op[p].kind
    BY <1>1, Zenon
  <2>7. keys'[r][k] = Finished(st, gen, e, err) /\ st = keys[r][k]
    BY <1>1, <1>3, Zenon
  <2>8. RetryOnWire(r, k)' => /\ RetryOnWire(r, k)
                              /\ drainRefresh'[r].todo[k] = drainRefresh[r].todo[k]
                              /\ drainRefresh'[r].taken[k] = drainRefresh[r].taken[k]
    BY <2>1, Zenon
  <2>9. LeavesWire(r, k, st, gen, e, err, r)
    BY <1>5, <2>2, <2>3, <2>4, <2>5, <2>6, <2>7, <2>8, Zenon DEF LeavesWire
  <2>10. QED
    BY <2>9, FinishRecord, Zenon
<1>7. ASSUME NEW j \in Keys \ {k} PROVE Record(r, j)'
  BY <1>0, <1>1, <1>2, <1>3, <1>4, RecordFrame, ZenonT(60)
<1>8. RefreshPlaced(r)'
  BY <1>0, <1>1, <1>2 DEF RefreshPlaced, Placed, RetryOnWire
<1>9. Placed' /\ \A s \in DrainReplicas \ {r}, j \in Keys : Record(s, j)'
  BY <1>1, <1>3, <1>8, RefreshElsewhere, Zenon
<1>10. DrainTypeOK'
  <2>1. keys' \in [DrainReplicas -> [Keys -> KeyState \cup {None}]]
    BY <1>0, <1>1, <1>3, <1>6 DEF DrainTypeOK
  <2>2. QED
    BY <1>0, <1>1, <2>1 DEF DrainTypeOK
<1>11. QED
  BY <1>6, <1>7, <1>9, <1>10 DEF DrainInv

\* The invariant is inductive.
LEMMA DrainStepKeeps == DrainInv /\ [DrainNext]_drainVars => DrainInv'
<1> SUFFICES ASSUME DrainInv, [DrainNext]_drainVars PROVE DrainInv'
  OBVIOUS
<1>1. ASSUME NEW o \in Ops, OpNext(o) PROVE DrainInv'
  BY <1>1, LocalKeeps, BeginSetKeeps, BeginReleaseKeeps, FinishKeeps, ExpireKeeps, CommandKeeps, Zenon DEF OpNext
<1>2. ASSUME NEW r \in DrainReplicas, RefreshNext(r) PROVE DrainInv'
  <2>1. CASE RefreshBegin(r) \/ DrainFetchFailed(r) \/ DrainFetchAnswered(r)
    <3>1. TRUE \in BOOLEAN
      OBVIOUS
    <3>2. QED
      BY <2>1, <3>1, RefreshMoves, Zenon
  <2>2. CASE \E err \in BOOLEAN : RetryUndo(r, err) \/ \E k \in Keys : RetryHSet(r, k, err)
    BY <2>2, RefreshMoves
  <2>3. QED
    BY <1>2, <2>1, <2>2, ScanKeeps, RetryFinishKeeps, RefreshEnds, Zenon DEF RefreshNext
<1>3. CASE UNCHANGED drainVars
  <2>1. DrainTypeOK'
    BY <1>3 DEF drainVars, DrainInv, DrainTypeOK
  <2>2. Placed'
    BY <1>3, Zenon DEF drainVars, DrainInv, Placed, RetryOnWire
  <2>3. \A r \in DrainReplicas, k \in Keys : Record(r, k)'
    BY <1>3, RecordFrame, Zenon DEF drainVars, DrainInv, OpOnWire
  <2>4. QED
    BY <2>1, <2>2, <2>3 DEF DrainInv
<1>4. QED
  BY <1>1, <1>2, <1>3 DEF DrainNext

\* The invariant says what RecordsExact does.
LEMMA DrainInvExact == DrainInv => RecordsExact
<1> SUFFICES ASSUME DrainInv PROVE RecordsExact
  BY Zenon
<1> SUFFICES ASSUME NEW r \in DrainReplicas, NEW k \in Keys
    PROVE /\ IF keys[r][k] = None THEN OnWire(r, k) = {}
             ELSE /\ keys[r][k].inflight = Cardinality(OnWire(r, k))
                  /\ keys[r][k].pending \/ keys[r][k].inflight > 0
          /\ \A o \in Ops : OpOnWire(o, r, k) => (Current(r, k, op[o].gen) <=> decided[r][k] = o)
          /\ RetryOnWire(r, k) =>
                (Current(r, k, drainRefresh[r].todo[k]) <=> decided[r][k] = drainRefresh[r].taken[k])
          /\ keys[r][k] # None => /\ keys[r][k].released <=> op[decided[r][k]].kind = "release"
                                  /\ ~keys[r][k].released /\ DrainLive(decided[r][k]) =>
                                        keys[r][k].entry = decided[r][k]
  BY Zenon DEF RecordsExact
<1>1. Record(r, k)
  BY Zenon DEF DrainInv
<1>2. CASE keys[r][k] = None
  BY <1>1, <1>2, Zenon DEF Record, Counted, OnWire
<1>3. CASE keys[r][k] # None
  <2>1. Knows(r, k) /\ Counted(r, k)
    BY <1>1, <1>3 DEF Record
  <2>2. QED
    BY <1>3, <2>1, Zenon DEF Knows, Counted, Current
<1>4. QED
  BY <1>2, <1>3, Zenon

\* For any replicas, keys and requests: the record of a key counts exactly the
\* writes of the key on the wire and is there as long as there is one, and the
\* generation a write carries tells finishWrite exactly whether a Set or a
\* Release overtook it.
THEOREM RecordsAlwaysExact == DrainSpec => []RecordsExact
<1>1. DrainSpec => []DrainInv
  BY DrainInitInv, DrainStepKeeps, PTL DEF DrainSpec
<1>2. QED
  BY <1>1, DrainInvExact, PTL
=============================================================================
