------------------------------ MODULE DrainProofs ------------------------------
(***************************************************************************)
(* What exact records are for, for any replicas, keys and requests: what a *)
(* refresh retried stays drained, and a release wins over every write it   *)
(* overtook.                                                               *)
(***************************************************************************)
EXTENDS DrainRecordProofs

(* What a refresh shows.                                                   *)

\* What was taken, retried and still is the decision is what the refresh will
\* show.
Shows ==
    \A r \in DrainReplicas, k \in Keys :
        /\ drainRefresh[r].pc \in {"retry", "finish", "undo"} /\ ~RetryOnWire(r, k)
        /\ DrainLive(drainRefresh[r].taken[k]) /\ decided[r][k] = drainRefresh[r].taken[k]
        => drainRefresh[r].next[k] = drainRefresh[r].taken[k]

\* No refresh has begun.
LEMMA ShowsInit == DrainInit => Shows
<1> SUFFICES ASSUME DrainInit PROVE Shows
  OBVIOUS
<1>1. \A r \in DrainReplicas : drainRefresh[r].pc = "idle"
  BY DEF DrainInit, DrainIdleRefresh
<1>2. QED
  BY <1>1 DEF Shows

\* A request records a decision at most once, and never the one that was taken.
LEMMA OpKeepsShows == ASSUME DrainInv, Shows, NEW o \in Ops, OpNext(o) PROVE Shows'
<1>0. DrainTypeOK /\ Placed
  BY Zenon DEF DrainInv
<1>1. drainRefresh' = drainRefresh /\ drainOver \subseteq drainOver'
  BY <1>0, Zenon DEF OpNext, SetLocal, ReleaseLocal, BeginSet, BeginRelease, Finish, Expire, HSet, Undo, HDel, DrainTypeOK
<1>2. ASSUME NEW r \in DrainReplicas, NEW k \in Keys, DrainLive(drainRefresh[r].taken[k])',
             decided'[r][k] = drainRefresh[r].taken[k]
      PROVE  DrainLive(drainRefresh[r].taken[k]) /\ decided[r][k] = drainRefresh[r].taken[k]
  <2>1. DrainLive(drainRefresh[r].taken[k])
    BY <1>1, <1>2 DEF DrainLive
  <2>2. CASE decided' = decided
    BY <1>2, <2>1, <2>2
  <2>3. CASE BeginSet(o) \/ BeginRelease(o)
    <3>1. op[o].pc = "begin"
      BY <2>3 DEF BeginSet, BeginRelease
    <3>2. drainRefresh[r].taken[k] # o
      BY <1>0, <3>1 DEF Placed
    <3>3. PICK s \in DrainReplicas, j \in Keys : s = op[o].rep /\ j = op[o].key
      BY <1>0, <3>1 DEF Placed
    <3>4. decided' = [decided EXCEPT ![s][j] = o]
      BY <2>3, <3>3 DEF BeginSet, BeginRelease
    <3>5. decided'[r][k] = decided[r][k] \/ decided'[r][k] = o
      BY <1>0, <3>4 DEF DrainTypeOK, Entries
    <3>6. QED
      BY <1>2, <2>1, <3>2, <3>5
  <2>4. QED
    BY <2>2, <2>3, Zenon DEF OpNext, SetLocal, ReleaseLocal, Finish, Expire, HSet, Undo, HDel
<1>3. QED
  BY <1>1, <1>2 DEF Shows, RetryOnWire

\* The retry of what still is the decision finds its own generation, and leaves
\* its entry in what the refresh will show.
LEMMA RetryFinishShows == ASSUME DrainInv, Shows, NEW r \in DrainReplicas, RetryFinish(r) PROVE Shows'
<1>0. DrainTypeOK /\ Placed /\ \A j \in Keys : Record(r, j)
  BY DEF DrainInv
<1>1. PICK k \in Keys, gen \in Nat, e \in Ops, err \in BOOLEAN, st \in KeyState, g \in DrainRefreshState :
        RetryFinishes(r, k, gen, e, err, st, g)
  BY RetryFinishStep
<1>2. drainRefresh'[r] = g /\ \A s \in DrainReplicas \ {r} : drainRefresh'[s] = drainRefresh[s]
  BY <1>0, <1>1, Zenon DEF RetryFinishes, DrainTypeOK
<1>3. /\ UNCHANGED <<drainOver, decided>> /\ drainRefresh[r].pc = "finish" /\ g.taken = drainRefresh[r].taken
      /\ \A j \in Keys \ {k} : g.todo[j] = drainRefresh[r].todo[j] /\ g.next[j] = drainRefresh[r].next[j]
  BY <1>1, Zenon DEF RetryFinishes
<1>4. ASSUME DrainLive(e), decided[r][k] = e PROVE g.next[k] = e
  <2>1. Knows(r, k)
    BY <1>0, <1>1, Zenon DEF Record, RetryFinishes
  <2>2. st.gen = gen
    BY <1>1, <1>4, <2>1, Zenon DEF RetryFinishes, Knows
  <2>3. DrainKept(st, gen, e, err) = e
    BY <2>2 DEF DrainKept, OvertakenByRelease
  <2>4. e # None /\ e \notin drainRefresh[r].asOf
    BY <1>0, <1>4, Zenon DEF DrainLive, Placed
  <2>5. QED
    BY <1>1, <2>3, <2>4, Zenon DEF RetryFinishes
<1>5. e = drainRefresh[r].taken[k]
  BY <1>1 DEF RetryFinishes
<1>6. ASSUME NEW s \in DrainReplicas, NEW j \in Keys,
             drainRefresh'[s].pc \in {"retry", "finish", "undo"}, ~RetryOnWire(s, j)',
             DrainLive(drainRefresh[s].taken[j])', decided'[s][j] = drainRefresh'[s].taken[j]
      PROVE  drainRefresh'[s].next[j] = drainRefresh'[s].taken[j]
  <2>1. CASE s = r /\ j = k
    BY <1>2, <1>3, <1>4, <1>5, <1>6, <2>1, Zenon DEF DrainLive
  <2>2. CASE s = r /\ j # k
    BY <1>2, <1>3, <1>6, <2>2 DEF Shows, DrainLive, RetryOnWire
  <2>3. CASE s # r
    BY <1>2, <1>3, <1>6, <2>3 DEF Shows, DrainLive, RetryOnWire
  <2>4. QED
    BY <2>1, <2>2, <2>3
<1>7. QED
  BY <1>6 DEF Shows

\* A step of a refresh: only a retry that returns adds to what will be shown.
LEMMA RefreshKeepsShows == ASSUME DrainInv, Shows, NEW r \in DrainReplicas, RefreshNext(r) PROVE Shows'
<1>0. DrainTypeOK
  BY DEF DrainInv
<1>1. CASE RetryFinish(r)
  BY <1>1, RetryFinishShows
<1>2. ASSUME ~RetryFinish(r) PROVE Shows'
  <2>1. UNCHANGED <<drainOver, decided>> /\ \A s \in DrainReplicas \ {r} : drainRefresh'[s] = drainRefresh[s]
    BY <1>0, <1>2, Zenon DEF RefreshNext, RefreshBegin, DrainFetchFailed, DrainFetchAnswered, Scan, RetryUndo, RetryHSet,
                      Replace, Purge, DrainTypeOK
  <2>2. drainRefresh[r] \in DrainRefreshState
    BY <1>0 DEF DrainTypeOK
  <2>3. \/ drainRefresh'[r].pc \notin {"retry", "finish", "undo"}
        \/ Scan(r)
        \/ /\ drainRefresh[r].pc \in {"retry", "undo"} /\ drainRefresh'[r].todo = drainRefresh[r].todo
           /\ drainRefresh'[r].taken = drainRefresh[r].taken /\ drainRefresh'[r].next = drainRefresh[r].next
    <3>1. CASE RefreshBegin(r) \/ DrainFetchFailed(r) \/ DrainFetchAnswered(r)
      <4>1. PICK g \in {[drainRefresh[r] EXCEPT !.pc = "fetch"], [drainRefresh[r] EXCEPT !.pc = "idle"],
                        [drainRefresh[r] EXCEPT !.pc = "scan", !.next = drainRedis]} :
              drainRefresh' = [drainRefresh EXCEPT ![r] = g]
        BY <3>1 DEF RefreshBegin, DrainFetchFailed, DrainFetchAnswered
      <4>2. g.pc \in {"fetch", "idle", "scan"}
        BY <2>2, <4>1, Zenon DEF DrainRefreshState
      <4>3. drainRefresh'[r] = g
        BY <1>0, <4>1 DEF DrainTypeOK
      <4>4. QED
        BY <4>2, <4>3
    <3>2. CASE \E err \in BOOLEAN : RetryUndo(r, err) \/ \E k \in Keys : RetryHSet(r, k, err)
      <4>1. PICK g : /\ drainRefresh' = [drainRefresh EXCEPT ![r] = g]
                     /\ \/ g = [drainRefresh[r] EXCEPT !.pc = "retry"]
                        \/ \E k \in Keys, err \in BOOLEAN :
                              g = [drainRefresh[r] EXCEPT !.pc = "finish", !.cur = k, !.err = err]
        BY <3>2, Zenon DEF RetryUndo, RetryHSet
      <4>2. /\ g.todo = drainRefresh[r].todo /\ g.taken = drainRefresh[r].taken /\ g.next = drainRefresh[r].next
        BY <2>2, <4>1, Zenon DEF DrainRefreshState
      <4>3. drainRefresh'[r] = g
        BY <1>0, <4>1, Zenon DEF DrainTypeOK
      <4>4. drainRefresh[r].pc \in {"retry", "undo"}
        BY <3>2, Zenon DEF RetryUndo, RetryHSet
      <4>5. QED
        BY <4>2, <4>3, <4>4
    <3>3. CASE Replace(r) \/ Purge(r)
      <4>1. DrainIdleRefresh.pc = "idle"
            /\ [DrainIdleRefresh EXCEPT !.pc = "purge", !.expired = drainRefresh[r].expired].pc = "purge"
        BY DEF DrainIdleRefresh
      <4>2. QED
        BY <1>0, <3>3, <4>1, Zenon DEF Replace, Purge, DrainTypeOK
    <3>4. QED
      BY <1>2, <3>1, <3>2, <3>3 DEF RefreshNext
  <2>4. ASSUME Scan(r), NEW k \in Keys, ~RetryOnWire(r, k)' PROVE ~DrainLive(drainRefresh[r].taken[k])'
    <3>1. /\ drainRefresh'[r].todo[k] = IF Takes(keys[r][k]) THEN keys[r][k].gen ELSE -1
          /\ drainRefresh'[r].taken[k] = IF Takes(keys[r][k]) THEN keys[r][k].entry ELSE None
      BY <1>0, <2>2, <2>4 DEF Scan, DrainTypeOK, DrainRefreshState
    <3>2. Takes(keys[r][k]) => keys[r][k].gen \in Nat
      BY <1>0 DEF Takes, DrainTypeOK, KeyState
    <3>3. drainRefresh'[r].taken[k] = None
      BY <2>4, <3>1, <3>2 DEF RetryOnWire
    <3>4. QED
      BY <3>3 DEF DrainLive
  <2>5. QED
    BY <2>1, <2>3, <2>4, SMTT(30) DEF Shows, DrainLive, RetryOnWire
<1>3. QED
  BY <1>1, <1>2

\* For any replicas, keys and requests: a drain that a refresh took as pending,
\* retried and still finds to be the decision is in the local map the refresh
\* leaves, whatever the retry's write came to and whatever requests of other
\* keys, or of the same one, came in between.
THEOREM RetriedDrainsAlwaysHeld == DrainSpec => RetriedDrainsHeld
<1> DEFINE Inv == DrainInv /\ Shows
<1>1. DrainInit => Inv
  BY DrainInitInv, ShowsInit
<1>2. Inv /\ [DrainNext]_drainVars => Inv'
  <2> SUFFICES ASSUME Inv, [DrainNext]_drainVars PROVE Shows'
    BY DrainStepKeeps
  <2>1. CASE UNCHANGED drainVars
    BY <2>1 DEF drainVars, Shows, RetryOnWire, DrainLive
  <2>2. QED
    BY <2>1, OpKeepsShows, RefreshKeepsShows DEF DrainNext
<1>3. Inv /\ [DrainNext]_drainVars => [\A r \in DrainReplicas : KeepsRetried(r)]_drainVars
  <2> SUFFICES ASSUME Inv, NEW r \in DrainReplicas, Replace(r), NEW k \in Keys,
                      DrainLive(drainRefresh[r].taken[k]), decided[r][k] = drainRefresh[r].taken[k],
                      k \notin releasedAfter[r]
               PROVE  entries'[r][k] = drainRefresh[r].taken[k]
    BY DEF KeepsRetried
  <2>1. drainRefresh[r].pc = "retry" /\ ~RetryOnWire(r, k)
    BY DEF Replace, RetryOnWire
  <2>2. drainRefresh[r].next[k] = drainRefresh[r].taken[k] /\ drainRefresh[r].taken[k] # None
    BY <2>1 DEF Shows, DrainLive
  <2>3. entries'[r][k] = Replaced(r, k)
    BY Zenon DEF Replace, DrainInv, DrainTypeOK
  <2>4. QED
    BY <2>2, <2>3 DEF Replaced
<1> HIDE DEF Inv
<1>4. QED
  BY <1>1, <1>2, <1>3, PTL DEF DrainSpec, RetriedDrainsHeld

-----------------------------------------------------------------------------
(* A release wins.                                                         *)

Begun(o) == op[o].pc \notin {"idle", "begin"}

\* What a replica decided or took is its own; what is to be written or retried
\* is a Set; what is in Redis has begun.
Owned ==
    /\ \A r \in DrainReplicas, k \in Keys, o \in Ops :
          decided[r][k] = o \/ drainRefresh[r].taken[k] = o => op[o].rep = r
    /\ \A r \in DrainReplicas, k \in Keys, o \in Ops :
          drainRefresh[r].taken[k] = o \/ (keys[r][k] # None /\ keys[r][k].entry = o) => op[o].kind = "set"
    /\ \A k \in Keys, o \in Ops : drainRedis[k] = o => Begun(o)

\* A request that has begun keeps its replica, its key and its kind.
BegunStay ==
    \A o \in Ops : Begun(o) => /\ op'[o].rep = op[o].rep /\ op'[o].key = op[o].key
                               /\ op'[o].kind = op[o].kind /\ Begun(o)'

\* Every step leaves the requests that have begun where they are.
LEMMA BegunStays == ASSUME DrainInv, [DrainNext]_drainVars PROVE BegunStay
<1>0. op \in [Ops -> OpState]
  BY DEF DrainInv, DrainTypeOK
<1>1. CASE UNCHANGED op
  BY <1>1 DEF BegunStay, Begun
<1>2. ASSUME NEW p \in Ops, OpNext(p) PROVE BegunStay
  <2>1. ASSUME op[p].pc \in {"idle", "begin"}, \A o \in Ops \ {p} : op'[o] = op[o] PROVE BegunStay
    BY <2>1 DEF BegunStay, Begun
  <2>2. CASE \E r \in DrainReplicas, k \in Keys : SetLocal(p, r, k) \/ ReleaseLocal(p, r, k)
    BY <1>0, <2>1, <2>2 DEF SetLocal, ReleaseLocal
  <2>3. CASE BeginSet(p) \/ BeginRelease(p)
    BY <1>0, <2>1, <2>3 DEF BeginSet, BeginRelease
  <2>4. CASE UNCHANGED op
    BY <1>1, <2>4
  <2>5. CASE \E err \in BOOLEAN : HSet(p, err) \/ Undo(p, err) \/ HDel(p, err)
    <3>1. PICK err \in BOOLEAN : HSet(p, err) \/ Undo(p, err) \/ HDel(p, err)
      BY <2>5
    <3>2. PICK q \in {[op[p] EXCEPT !.pc = "finish", !.err = err], [op[p] EXCEPT !.pc = "done"]} :
            op' = [op EXCEPT ![p] = q]
      BY <3>1 DEF HSet, Undo, HDel
    <3>3. /\ q.rep = op[p].rep /\ q.key = op[p].key /\ q.kind = op[p].kind
          /\ q.pc \in {"finish", "done"}
      BY <1>0, <3>2, Zenon DEF OpState
    <3>4. op'[p] = q /\ \A o \in Ops \ {p} : op'[o] = op[o]
      BY <1>0, <3>2
    <3>5. QED
      BY <3>3, <3>4 DEF BegunStay, Begun
  <2>6. CASE Finish(p)
    BY <1>0, <2>6 DEF Finish, BegunStay, Begun, OpState
  <2>7. QED
    BY <1>2, <2>2, <2>3, <2>4, <2>5, <2>6 DEF OpNext, Expire
<1>3. QED
  BY <1>1, <1>2, Zenon DEF DrainNext, drainVars, RefreshNext, RefreshBegin, DrainFetchFailed, DrainFetchAnswered, Scan,
                    RetryUndo, RetryHSet, RetryFinish, Replace, Purge

\* What a step may do to what Owned speaks of.
LEMMA OwnedStep ==
    ASSUME DrainInv, Owned, BegunStay,
           \A r \in DrainReplicas, k \in Keys, o \in Ops :
              decided'[r][k] = o => decided[r][k] = o \/ op'[o].rep = r,
           \A r \in DrainReplicas, k \in Keys, o \in Ops :
              drainRefresh'[r].taken[k] = o =>
                 \/ drainRefresh[r].taken[k] = o
                 \/ keys[r][k] # None /\ keys[r][k].entry = o,
           \A r \in DrainReplicas, k \in Keys, o \in Ops :
              keys'[r][k] # None /\ keys'[r][k].entry = o =>
                 \/ keys[r][k] # None /\ keys[r][k].entry = o
                 \/ op'[o].kind = "set",
           \A k \in Keys, o \in Ops : drainRedis'[k] = o => drainRedis[k] = o \/ Begun(o)'
    PROVE  Owned'
<1>1. \A r \in DrainReplicas, k \in Keys, o \in Ops :
         decided[r][k] = o \/ drainRefresh[r].taken[k] = o => Begun(o)
  BY DEF DrainInv, Placed, Begun
<1>2. ASSUME NEW r \in DrainReplicas, NEW k \in Keys, NEW o \in Ops, keys[r][k] # None, keys[r][k].entry = o
      PROVE  decided[r][k] = o
  BY <1>2, DrainAssumption DEF DrainInv, Record, Knows
<1>3. \A r \in DrainReplicas, k \in Keys, o \in Ops :
         decided'[r][k] = o \/ drainRefresh'[r].taken[k] = o => op'[o].rep = r
  BY <1>1, <1>2 DEF Owned, BegunStay
<1>4. \A r \in DrainReplicas, k \in Keys, o \in Ops :
         drainRefresh'[r].taken[k] = o \/ (keys'[r][k] # None /\ keys'[r][k].entry = o) => op'[o].kind = "set"
  BY <1>1, <1>2 DEF Owned, BegunStay
<1>5. \A k \in Keys, o \in Ops : drainRedis'[k] = o => Begun(o)'
  BY DEF Owned, BegunStay
<1>6. QED
  BY <1>3, <1>4, <1>5 DEF Owned

\* A command writes its value or nothing.
LEMMA WritesOr ==
    ASSUME DrainTypeOK, NEW k \in Keys, NEW v, NEW err \in BOOLEAN, Writes(k, v, err)
    PROVE  /\ drainRedis'[k] = v \/ (err /\ drainRedis'[k] = drainRedis[k])
           /\ \A j \in Keys \ {k} : drainRedis'[j] = drainRedis[j]
BY Zenon DEF Writes, DrainTypeOK, Entries

\* A step of a request.
LEMMA OpKeepsOwned == ASSUME DrainInv, Owned, NEW p \in Ops, OpNext(p), BegunStay PROVE Owned'
<1>0. DrainTypeOK /\ Placed
  BY Zenon DEF DrainInv
<1>1. UNCHANGED drainRefresh
  BY Zenon DEF OpNext, SetLocal, ReleaseLocal, BeginSet, BeginRelease, Finish, Expire, HSet, Undo, HDel
<1>2. CASE UNCHANGED <<keys, decided, drainRedis>>
  BY <1>1, <1>2, OwnedStep
<1>3. CASE \E err \in BOOLEAN : HSet(p, err) \/ Undo(p, err) \/ HDel(p, err)
  <2>1. PICK err \in BOOLEAN : HSet(p, err) \/ Undo(p, err) \/ HDel(p, err)
    BY <1>3
  <2>2. UNCHANGED <<keys, decided>> /\ Begun(p)
    BY <2>1 DEF HSet, Undo, HDel, Begun
  <2>3. op[p].key \in Keys
    BY <1>0, <2>2 DEF Placed, Begun
  <2>4. \A k \in Keys, o \in Ops : drainRedis'[k] = o => drainRedis[k] = o \/ o = p
    BY <1>0, <2>1, <2>3, WritesOr, DrainAssumption DEF HSet, Undo, HDel
  <2>5. QED
    BY <1>1, <2>2, <2>4, OwnedStep DEF BegunStay
<1>4. CASE BeginSet(p) \/ BeginRelease(p)
  <2>1. PICK r \in DrainReplicas, k \in Keys : r = op[p].rep /\ k = op[p].key
    BY <1>0, <1>4 DEF Placed, BeginSet, BeginRelease
  <2>2. decided' = [decided EXCEPT ![r][k] = p] /\ UNCHANGED drainRedis
    BY <1>4, <2>1 DEF BeginSet, BeginRelease
  <2>3. op'[p].rep = r
    <3>1. CASE BeginSet(p)
      <4>1. PICK gen : op' = [op EXCEPT ![p] = [@ EXCEPT !.pc = "hset", !.gen = gen]]
        BY <3>1, Zenon DEF BeginSet
      <4>2. QED
        BY <1>0, <2>1, <4>1, Zenon DEF DrainTypeOK, OpState
    <3>2. CASE BeginRelease(p)
      BY <1>0, <2>1, <3>2 DEF BeginRelease, DrainTypeOK, OpState
    <3>3. QED
      BY <1>4, <3>1, <3>2
  <2>4. \A s \in DrainReplicas, j \in Keys, o \in Ops : decided'[s][j] = o => decided[s][j] = o \/ op'[o].rep = s
    BY <1>0, <2>2, <2>3 DEF DrainTypeOK, Entries
  <2>5. PICK st \in KeyState : st = StateOf(r, k)
    BY StateFacts
  <2>6. \A s \in DrainReplicas, j \in Keys, o \in Ops :
           keys'[s][j] # None /\ keys'[s][j].entry = o =>
              (keys[s][j] # None /\ keys[s][j].entry = o) \/ op'[o].kind = "set"
    <3>1. CASE BeginSet(p)
      <4>1. keys' = [keys EXCEPT ![r][k] = SetState(st, p)]
        BY <2>1, <2>5, <3>1 DEF BeginSet
      <4>2. SetState(st, p).entry = p
        BY DEF SetState, KeyState
      <4>3. op'[p].kind = "set"
        BY <1>0, <3>1 DEF BeginSet, DrainTypeOK, OpState
      <4>4. QED
        BY <1>0, <4>1, <4>2, <4>3, Zenon DEF DrainTypeOK
    <3>2. CASE BeginRelease(p)
      <4>1. keys' = [keys EXCEPT ![r][k] = Forget(ReleaseState(st))]
        BY <2>1, <2>5, <3>2 DEF BeginRelease
      <4>2. Forget(ReleaseState(st)) = None \/ Forget(ReleaseState(st)).entry = None
        BY DEF Forget, ReleaseState, KeyState
      <4>3. QED
        BY <1>0, <4>1, <4>2, DrainAssumption, Zenon DEF DrainTypeOK
    <3>3. QED
      BY <1>4, <3>1, <3>2
  <2>7. QED
    BY <1>1, <2>2, <2>4, <2>6, OwnedStep, Zenon
<1>5. CASE Finish(p)
  <2>1. UNCHANGED <<decided, drainRedis>> /\ Begun(p) /\ op[p].kind = "set" /\ op[p].pc = "finish"
    BY <1>0, <1>5 DEF Finish, Placed, Begun
  <2>2. PICK r \in DrainReplicas, k \in Keys : r = op[p].rep /\ k = op[p].key
    BY <1>0, <2>1 DEF Placed, Begun
  <2>3. p \in OnWire(r, k)
    BY <2>1, <2>2 DEF OnWire, OpOnWire
  <2>4. PICK st \in KeyState : st = StateOf(r, k) /\ st = keys[r][k] /\ keys[r][k] # None /\ st.inflight > 0
    <3>1. IsFiniteSet(OnWire(r, k)) /\ Cardinality(OnWire(r, k)) \in Nat /\ Cardinality(OnWire(r, k)) # 0
      BY <2>3, WireFinite, FS_EmptySet
    <3>2. QED
      BY <2>3, <3>1, StateFacts
  <2>5. PICK gen \in Nat, err \in BOOLEAN : gen = op[p].gen /\ err = op[p].err
    BY <1>0 DEF DrainTypeOK, OpState
  <2>6. PICK new : new = Finished(st, gen, p, err)
    OBVIOUS
  <2>7. new # None => new.entry = st.entry \/ new.entry = p
    BY <2>4, <2>6, FinishedFacts, SMTT(30)
  <2>8. keys' = [keys EXCEPT ![r][k] = new]
    BY <1>5, <2>2, <2>4, <2>5, <2>6, Zenon DEF Finish
  <2>9. op'[p].kind = "set"
    BY <2>1 DEF BegunStay
  <2>10. \A s \in DrainReplicas, j \in Keys, o \in Ops :
           keys'[s][j] # None /\ keys'[s][j].entry = o =>
              (keys[s][j] # None /\ keys[s][j].entry = o) \/ op'[o].kind = "set"
    BY <1>0, <2>4, <2>7, <2>8, <2>9, Zenon DEF DrainTypeOK
  <2>11. QED
    BY <1>1, <2>1, <2>10, OwnedStep
<1>6. QED
  BY <1>2, <1>3, <1>4, <1>5, Zenon DEF OpNext, SetLocal, ReleaseLocal, Expire

\* What a refresh's step leaves of what was taken.
LEMMA TakenStep ==
    ASSUME DrainInv, NEW r \in DrainReplicas, RefreshNext(r)
    PROVE  \A s \in DrainReplicas, k \in Keys, o \in Ops :
              drainRefresh'[s].taken[k] = o =>
                 \/ drainRefresh[s].taken[k] = o
                 \/ keys[s][k] # None /\ keys[s][k].entry = o
<1>0. DrainTypeOK /\ drainRefresh[r] \in DrainRefreshState
  BY Zenon DEF DrainInv, DrainTypeOK
<1>1. \A s \in DrainReplicas \ {r} : drainRefresh'[s] = drainRefresh[s]
  BY <1>0, Zenon DEF RefreshNext, RefreshBegin, DrainFetchFailed, DrainFetchAnswered, Scan, RetryUndo, RetryHSet,
              RetryFinish, Replace, Purge, DrainTypeOK
<1>2. \/ drainRefresh'[r].taken = drainRefresh[r].taken
      \/ \A k \in Keys : drainRefresh'[r].taken[k] = None
      \/ \A k \in Keys : drainRefresh'[r].taken[k] = IF Takes(keys[r][k]) THEN keys[r][k].entry ELSE None
  <2>1. CASE RefreshBegin(r) \/ DrainFetchFailed(r) \/ DrainFetchAnswered(r)
    <3>1. PICK g \in {[drainRefresh[r] EXCEPT !.pc = "fetch"], [drainRefresh[r] EXCEPT !.pc = "idle"],
                      [drainRefresh[r] EXCEPT !.pc = "scan", !.next = drainRedis]} :
            drainRefresh' = [drainRefresh EXCEPT ![r] = g]
      BY <2>1 DEF RefreshBegin, DrainFetchFailed, DrainFetchAnswered
    <3>2. g.taken = drainRefresh[r].taken
      BY <1>0, <3>1, Zenon DEF DrainRefreshState
    <3>3. drainRefresh'[r] = g
      BY <1>0, <3>1 DEF DrainTypeOK
    <3>4. QED
      BY <3>2, <3>3
  <2>2. CASE \E err \in BOOLEAN : RetryUndo(r, err) \/ \E k \in Keys : RetryHSet(r, k, err)
    <3>1. PICK g : /\ drainRefresh' = [drainRefresh EXCEPT ![r] = g]
                   /\ \/ g = [drainRefresh[r] EXCEPT !.pc = "retry"]
                      \/ \E k \in Keys, err \in BOOLEAN :
                            g = [drainRefresh[r] EXCEPT !.pc = "finish", !.cur = k, !.err = err]
      BY <2>2, Zenon DEF RetryUndo, RetryHSet
    <3>2. g.taken = drainRefresh[r].taken
      BY <1>0, <3>1, Zenon DEF DrainRefreshState
    <3>3. drainRefresh'[r] = g
      BY <1>0, <3>1, Zenon DEF DrainTypeOK
    <3>4. QED
      BY <3>2, <3>3
  <2>3. CASE Replace(r) \/ Purge(r)
    <3>1. /\ \A k \in Keys : DrainIdleRefresh.taken[k] = None
          /\ \A k \in Keys :
               [DrainIdleRefresh EXCEPT !.pc = "purge", !.expired = drainRefresh[r].expired].taken[k] = None
      BY DEF DrainIdleRefresh, NoEntries
    <3>2. \/ drainRefresh'[r] = DrainIdleRefresh
          \/ drainRefresh'[r] = [DrainIdleRefresh EXCEPT !.pc = "purge", !.expired = drainRefresh[r].expired]
      BY <1>0, <2>3 DEF Replace, Purge, DrainTypeOK
    <3>3. QED
      BY <3>1, <3>2, Zenon
  <2>4. CASE RetryFinish(r)
    <3>1. PICK k \in Keys, gen \in Nat, e \in Ops, err \in BOOLEAN, st \in KeyState, g \in DrainRefreshState :
            RetryFinishes(r, k, gen, e, err, st, g)
      BY <2>4, RetryFinishStep
    <3>2. QED
      BY <1>0, <3>1 DEF RetryFinishes, DrainTypeOK
  <2>5. CASE Scan(r)
    BY <1>0, <2>5 DEF Scan, DrainTypeOK, DrainRefreshState
  <2>6. QED
    BY <2>1, <2>2, <2>3, <2>4, <2>5 DEF RefreshNext
<1>3. QED
  BY <1>1, <1>2, DrainAssumption DEF Takes

\* A step of a refresh.
LEMMA RefreshKeepsOwned == ASSUME DrainInv, Owned, NEW r \in DrainReplicas, RefreshNext(r), BegunStay PROVE Owned'
<1>0. DrainTypeOK /\ Placed
  BY Zenon DEF DrainInv
<1>1. UNCHANGED <<decided, op>>
  BY Zenon DEF RefreshNext, RefreshBegin, DrainFetchFailed, DrainFetchAnswered, Scan, RetryUndo, RetryHSet,
         RetryFinish, Replace, Purge
<1>2. \A s \in DrainReplicas, k \in Keys, o \in Ops :
         keys'[s][k] # None /\ keys'[s][k].entry = o =>
            (keys[s][k] # None /\ keys[s][k].entry = o) \/ op'[o].kind = "set"
  <2>1. CASE Scan(r)
    <3>1. /\ \A k \in Keys : keys'[r][k] = DrainTaken(keys[r][k])
          /\ \A s \in DrainReplicas \ {r} : keys'[s] = keys[s]
      BY <1>0, <2>1 DEF Scan, DrainTypeOK
    <3>2. ASSUME NEW st \in KeyState \cup {None}, DrainTaken(st) # None
          PROVE  st # None /\ (DrainTaken(st).entry = None \/ DrainTaken(st).entry = st.entry)
      BY <3>2, Zenon DEF DrainTaken, Forget, KeyState
    <3>3. QED
      BY <1>0, <3>1, <3>2, DrainAssumption DEF DrainTypeOK
  <2>2. CASE RetryFinish(r)
    <3>1. PICK k \in Keys, gen \in Nat, e \in Ops, err \in BOOLEAN, st \in KeyState, g \in DrainRefreshState :
            RetryFinishes(r, k, gen, e, err, st, g)
      BY <2>2, RetryFinishStep, Zenon
    <3>2. /\ keys' = [keys EXCEPT ![r][k] = Finished(st, gen, e, err)] /\ e = drainRefresh[r].taken[k]
          /\ st = keys[r][k] /\ keys[r][k] # None /\ r \in OnWire(r, k)
      BY <3>1 DEF RetryFinishes, OnWire
    <3>3. st.inflight > 0
      <4>1. IsFiniteSet(OnWire(r, k)) /\ Cardinality(OnWire(r, k)) \in Nat /\ Cardinality(OnWire(r, k)) # 0
        BY <3>2, WireFinite, FS_EmptySet
      <4>2. QED
        BY <3>2, <4>1, StateFacts
    <3>4. PICK new : new = Finished(st, gen, e, err)
      OBVIOUS
    <3>5. new # None => new.entry = st.entry \/ new.entry = e
      BY <3>3, <3>4, FinishedFacts
    <3>6. op'[e].kind = "set"
      BY <1>1, <3>2 DEF Owned
    <3>7. QED
      BY <1>0, <3>2, <3>4, <3>5, <3>6 DEF DrainTypeOK
  <2>3. CASE UNCHANGED keys
    BY <2>3, Zenon
  <2>4. QED
    BY <2>1, <2>2, <2>3, Zenon DEF RefreshNext, RefreshBegin, DrainFetchFailed, DrainFetchAnswered, RetryUndo, RetryHSet,
                            Replace, Purge
<1>3. \A k \in Keys, o \in Ops : drainRedis'[k] = o => drainRedis[k] = o \/ Begun(o)'
  <2>1. CASE UNCHANGED drainRedis
    BY <2>1
  <2>2. CASE Purge(r)
    BY <1>0, <2>2, DrainAssumption, Zenon DEF Purge, DrainTypeOK
  <2>3. ASSUME NEW j \in Keys, NEW err \in BOOLEAN, RetryHSet(r, j, err)
        PROVE  \A k \in Keys, o \in Ops : drainRedis'[k] = o => drainRedis[k] = o \/ Begun(o)'
    <3>1. \A o \in Ops : drainRefresh[r].taken[j] = o => Begun(o)'
      BY <1>0, <1>1 DEF Placed, Begun
    <3>2. UNCHANGED drainRedis \/ Writes(j, drainRefresh[r].taken[j], err)
      BY <2>3 DEF RetryHSet
    <3>3. QED
      BY <1>0, <3>1, <3>2, WritesOr, Zenon
  <2>4. ASSUME NEW err \in BOOLEAN, RetryUndo(r, err)
        PROVE  \A k \in Keys, o \in Ops : drainRedis'[k] = o => drainRedis[k] = o \/ Begun(o)'
    <3>1. drainRefresh[r].cur \in Keys /\ Writes(drainRefresh[r].cur, None, err)
      BY <1>0, <2>4 DEF RetryUndo, Placed
    <3>2. QED
      BY <1>0, <3>1, WritesOr, DrainAssumption
  <2>5. QED
    BY <2>1, <2>2, <2>3, <2>4 DEF RefreshNext, RefreshBegin, DrainFetchFailed, DrainFetchAnswered, Scan,
                                  RetryFinish, Replace
<1>4. QED
  BY <1>1, <1>2, <1>3, TakenStep, OwnedStep

Wins(r, k) == ReleasedCleanly(r, k) => \A o \in Ops : op[o].rep = r => drainRedis[k] # o

\* A step that decides nothing about a key, leaves its writes to come and puts
\* nothing of the replica into Redis.
LEMMA WinsFrame ==
    ASSUME DrainInv, BegunStay, NEW r \in DrainReplicas, NEW k \in Keys, Wins(r, k),
           decided'[r][k] = decided[r][k], Settling(r, k) => Settling(r, k)', unclean[r] \subseteq unclean'[r],
           \A o \in Ops : op'[o].rep = r /\ drainRedis'[k] = o => op[o].rep = r /\ drainRedis[k] = o
    PROVE  Wins(r, k)'
<1>1. decided[r][k] \in Ops => Begun(decided[r][k])
  BY DEF DrainInv, Placed, Begun
<1>2. decided[r][k] \in Ops \cup {None}
  BY DEF DrainInv, DrainTypeOK, Entries
<1>3. ReleasedCleanly(r, k)' => ReleasedCleanly(r, k)
  BY <1>1, <1>2, Zenon DEF ReleasedCleanly, BegunStay
<1>4. QED
  BY <1>3, Zenon DEF Wins

SettlesAt(p, r, k) == op[p].rep = r /\ op[p].key = k /\ op[p].pc \in {"hset", "finish", "undo", "hdel"}

\* A step of a request that is not to write to a key leaves the key's writes to
\* come.
LEMMA SettlingOp ==
    ASSUME NEW r \in DrainReplicas, NEW k \in Keys, NEW p \in Ops, ~SettlesAt(p, r, k),
           UNCHANGED drainRefresh, \A o \in Ops \ {p} : op'[o] = op[o]
    PROVE  Settling(r, k) => Settling(r, k)'
<1>1. Settling(r, k) <=> \/ \E o \in Ops : SettlesAt(o, r, k)
                         \/ RetryOnWire(r, k)
                         \/ drainRefresh[r].pc = "undo" /\ drainRefresh[r].cur = k
  BY DEF Settling, SettlesAt, OnWire, OpOnWire
<1>2. Settling(r, k)' <=> \/ \E o \in Ops : SettlesAt(o, r, k)'
                          \/ RetryOnWire(r, k)'
                          \/ drainRefresh'[r].pc = "undo" /\ drainRefresh'[r].cur = k
  BY DEF Settling, SettlesAt, OnWire, OpOnWire
<1>3. RetryOnWire(r, k)' <=> RetryOnWire(r, k)
  BY DEF RetryOnWire
<1>4. \A o \in Ops : SettlesAt(o, r, k) => SettlesAt(o, r, k)'
  BY DEF SettlesAt
<1>5. QED
  BY <1>1, <1>2, <1>3, <1>4, Zenon

\* What is in Redis has begun, so it keeps its replica.
LEMMA RedisFrame ==
    ASSUME Owned, BegunStay, NEW r \in DrainReplicas, NEW k \in Keys, NEW o \in Ops,
           op'[o].rep = r, drainRedis[k] = o
    PROVE  op[o].rep = r
BY Zenon DEF Owned, BegunStay

\* A step of a request changes no other request.
LEMMA OpAlone == ASSUME DrainTypeOK, NEW p \in Ops, OpNext(p) PROVE \A o \in Ops \ {p} : op'[o] = op[o]
BY Zenon DEF DrainTypeOK, OpNext, SetLocal, ReleaseLocal, BeginSet, BeginRelease, Finish, Expire, HSet, Undo, HDel

\* A step of a request: a Set overtaken by the release goes on to undo its write.
LEMMA OpKeepsWins ==
    ASSUME DrainInv, Owned, BegunStay, NEW p \in Ops, OpNext(p),
           NEW r \in DrainReplicas, NEW k \in Keys, Wins(r, k)
    PROVE  Wins(r, k)'
<1>0. DrainTypeOK /\ Placed /\ Record(r, k)
  BY Zenon DEF DrainInv
<1>1. UNCHANGED drainRefresh /\ \A o \in Ops \ {p} : op'[o] = op[o]
  BY <1>0, OpAlone, Zenon DEF OpNext, SetLocal, ReleaseLocal, BeginSet, BeginRelease, Finish, Expire, HSet, Undo, HDel
<1>2. ~SettlesAt(p, r, k) => (Settling(r, k) => Settling(r, k)')
  BY <1>1, SettlingOp
<1>3. SettlesAt(p, r, k)' => Settling(r, k)'
  <2>1. SettlesAt(p, r, k)' =>
           \/ OnWire(r, k)' # {}
           \/ \E o \in Ops : op'[o].rep = r /\ op'[o].key = k /\ op'[o].pc \in {"undo", "hdel"}
    BY DEF SettlesAt, OnWire, OpOnWire
  <2>2. QED
    BY <2>1 DEF Settling
<1>4. ASSUME Settling(r, k)' PROVE Wins(r, k)'
  BY <1>4 DEF Wins, ReleasedCleanly
<1>5. CASE \E s \in DrainReplicas, j \in Keys : SetLocal(p, s, j) \/ ReleaseLocal(p, s, j)
  <2>1. op[p].pc = "idle" /\ UNCHANGED <<decided, drainRedis, unclean>>
    BY <1>5 DEF SetLocal, ReleaseLocal
  <2>2. ~SettlesAt(p, r, k)
    BY <2>1, Zenon DEF SettlesAt
  <2>3. QED
    BY <1>2, <2>1, <2>2, WinsFrame, RedisFrame
<1>6. CASE Expire(p)
  <2>1. UNCHANGED <<decided, drainRedis, unclean, op>>
    BY <1>6, Zenon DEF Expire
  <2>2. Settling(r, k) => Settling(r, k)'
    BY <1>1, <2>1 DEF Settling, OnWire, OpOnWire, RetryOnWire
  <2>3. QED
    BY <2>1, <2>2, WinsFrame, RedisFrame, Zenon
<1>7. CASE BeginSet(p) \/ BeginRelease(p)
  <2>1. op[p].pc = "begin" /\ UNCHANGED <<drainRedis, unclean>>
    BY <1>7, Zenon DEF BeginSet, BeginRelease
  <2>2. PICK s \in DrainReplicas, j \in Keys : s = op[p].rep /\ j = op[p].key
    BY <1>0, <2>1, Zenon DEF Placed
  <2>3. decided' = [decided EXCEPT ![s][j] = p]
    BY <1>7, <2>2, Zenon DEF BeginSet, BeginRelease
  <2>4. op'[p].rep = s /\ op'[p].key = j /\ op'[p].pc \in {"hset", "hdel"}
    <3>1. CASE BeginSet(p)
      <4>1. PICK gen : op' = [op EXCEPT ![p] = [@ EXCEPT !.pc = "hset", !.gen = gen]]
        BY <3>1, Zenon DEF BeginSet
      <4>2. QED
        BY <1>0, <2>2, <4>1, Zenon DEF DrainTypeOK, OpState
    <3>2. CASE BeginRelease(p)
      BY <1>0, <2>2, <3>2 DEF BeginRelease, DrainTypeOK, OpState
    <3>3. QED
      BY <1>7, <3>1, <3>2
  <2>5. CASE s = r /\ j = k
    BY <1>3, <1>4, <2>4, <2>5, Zenon DEF SettlesAt
  <2>6. CASE s # r \/ j # k
    <3>1. decided'[r][k] = decided[r][k]
      BY <1>0, <2>3, <2>6 DEF DrainTypeOK, Entries
    <3>2. ~SettlesAt(p, r, k)
      BY <2>1 DEF SettlesAt
    <3>3. QED
      BY <1>2, <2>1, <3>1, <3>2, WinsFrame, RedisFrame
  <2>7. QED
    BY <2>5, <2>6
<1>8. CASE Finish(p)
  <2>1. op[p].pc = "finish" /\ UNCHANGED <<decided, drainRedis, unclean>>
    BY <1>8, Zenon DEF Finish
  <2>2. CASE SettlesAt(p, r, k)
    <3>1. SUFFICES ASSUME ReleasedCleanly(r, k)' PROVE FALSE
      BY DEF Wins
    <3>2. OpOnWire(p, r, k) /\ p \in OnWire(r, k)
      BY <2>1, <2>2, Zenon DEF SettlesAt, OpOnWire, OnWire
    <3>3. keys[r][k] # None /\ Knows(r, k)
      BY <1>0, <3>2, Zenon DEF Record, Counted
    <3>4. decided[r][k] \in Ops /\ op[decided[r][k]].kind = "release"
      <4>1. decided[r][k] \in Ops /\ Begun(decided[r][k])
        BY <1>0, <3>3, Zenon DEF Knows, Placed, Begun
      <4>2. QED
        BY <2>1, <3>1, <4>1, Zenon DEF ReleasedCleanly, BegunStay
    <3>5. decided[r][k] # p
      BY <1>0, <2>1, <3>4, Zenon DEF Placed
    <3>6. OvertakenByRelease(StateOf(r, k), op[p].gen, op[p].err)
      BY <3>2, <3>3, <3>4, <3>5, Zenon DEF OvertakenByRelease, StateOf, Knows
    <3>7. op'[p].pc = "undo" /\ op'[p].rep = r /\ op'[p].key = k
      BY <1>0, <1>8, <2>2, <3>6, Zenon DEF Finish, SettlesAt, DrainTypeOK, OpState
    <3>8. QED
      BY <1>3, <3>1, <3>7, Zenon DEF SettlesAt, ReleasedCleanly
  <2>3. CASE ~SettlesAt(p, r, k)
    BY <1>2, <2>1, <2>3, WinsFrame, RedisFrame
  <2>4. QED
    BY <2>2, <2>3
<1>9. ASSUME NEW err \in BOOLEAN, HSet(p, err) PROVE Wins(r, k)'
  <2>1. op[p].pc = "hset" /\ UNCHANGED <<decided, unclean>> /\ op'[p].pc = "finish" /\ Begun(p)
    BY <1>0, <1>9, Zenon DEF HSet, DrainTypeOK, OpState, Begun
  <2>2. op'[p].rep = op[p].rep /\ op'[p].key = op[p].key /\ op[p].key \in Keys
    BY <1>0, <2>1, Zenon DEF BegunStay, Placed
  <2>3. CASE SettlesAt(p, r, k)
    BY <1>3, <1>4, <2>1, <2>2, <2>3, Zenon DEF SettlesAt
  <2>4. CASE ~SettlesAt(p, r, k)
    <3>1. op[p].rep # r \/ op[p].key # k
      BY <2>1, <2>4 DEF SettlesAt
    <3>2. UNCHANGED drainRedis \/ Writes(op[p].key, p, err)
      BY <1>9, Zenon DEF HSet
    <3>3. drainRedis'[k] = drainRedis[k] \/ (drainRedis'[k] = p /\ op'[p].rep # r)
      BY <1>0, <2>2, <3>1, <3>2, WritesOr, Zenon
    <3>4. QED
      BY <1>2, <2>1, <2>4, <3>3, WinsFrame, RedisFrame
  <2>5. QED
    BY <2>3, <2>4
<1>10. ASSUME NEW err \in BOOLEAN, Undo(p, err) \/ HDel(p, err) PROVE Wins(r, k)'
  <2>1. /\ op[p].pc \in {"undo", "hdel"} /\ UNCHANGED decided /\ Begun(p)
        /\ Writes(op[p].key, None, err) /\ NoteUnclean(op[p].rep, op[p].key, err)
    BY <1>10, Zenon DEF Undo, HDel, Begun
  <2>2. op[p].rep \in DrainReplicas /\ op[p].key \in Keys
    BY <1>0, <2>1, Zenon DEF Placed
  <2>3. unclean[r] \subseteq unclean'[r] /\ (err => op[p].key \in unclean'[op[p].rep])
    BY <1>0, <2>1, <2>2, Zenon DEF NoteUnclean, DrainTypeOK
  <2>4. /\ drainRedis'[op[p].key] = None \/ (err /\ drainRedis'[op[p].key] = drainRedis[op[p].key])
        /\ \A j \in Keys \ {op[p].key} : drainRedis'[j] = drainRedis[j]
    BY <1>0, <2>1, <2>2, WritesOr
  <2>5. CASE SettlesAt(p, r, k)
    BY <2>3, <2>4, <2>5, DrainAssumption, Zenon DEF SettlesAt, Wins, ReleasedCleanly
  <2>6. CASE ~SettlesAt(p, r, k)
    <3>1. \A o \in Ops : drainRedis'[k] = o => drainRedis[k] = o
      BY <2>4, DrainAssumption
    <3>2. QED
      BY <1>2, <2>1, <2>3, <2>6, <3>1, WinsFrame, RedisFrame, SMTT(30)
  <2>7. QED
    BY <2>5, <2>6
<1>11. QED
  BY <1>5, <1>6, <1>7, <1>8, <1>9, <1>10 DEF OpNext

\* A step of a refresh that leaves what it has to write to a key.
LEMMA SettlingRefresh ==
    ASSUME NEW r \in DrainReplicas, NEW k \in Keys, UNCHANGED op,
           RetryOnWire(r, k) => RetryOnWire(r, k)',
           drainRefresh[r].pc = "undo" /\ drainRefresh[r].cur = k =>
              drainRefresh'[r].pc = "undo" /\ drainRefresh'[r].cur = k
    PROVE  Settling(r, k) => Settling(r, k)'
<1>1. OnWire(r, k) \subseteq OnWire(r, k)'
  BY Zenon DEF OnWire, OpOnWire
<1>2. QED
  BY <1>1 DEF Settling

\* What a refresh of replica s does to Redis and to unclean.
LEMMA RefreshWrites ==
    ASSUME DrainInv, Owned, NEW s \in DrainReplicas, RefreshNext(s),
           NEW r \in DrainReplicas, NEW k \in Keys, s # r
    PROVE  /\ unclean[r] \subseteq unclean'[r]
           /\ \A o \in Ops : op[o].rep = r /\ drainRedis'[k] = o => drainRedis[k] = o
<1>0. DrainTypeOK /\ Placed
  BY DEF DrainInv
<1>1. CASE UNCHANGED <<drainRedis, unclean>>
  BY <1>1
<1>2. ASSUME NEW err \in BOOLEAN, RetryUndo(s, err)
      PROVE  /\ unclean[r] \subseteq unclean'[r]
             /\ \A o \in Ops : op[o].rep = r /\ drainRedis'[k] = o => drainRedis[k] = o
  <2>1. drainRefresh[s].cur \in Keys /\ Writes(drainRefresh[s].cur, None, err)
    BY <1>0, <1>2, Zenon DEF RetryUndo, Placed
  <2>2. \A o \in Ops : drainRedis'[k] = o => drainRedis[k] = o
    BY <1>0, <2>1, WritesOr, DrainAssumption
  <2>3. unclean[r] \subseteq unclean'[r]
    BY <1>0, <1>2, <2>1 DEF RetryUndo, NoteUnclean, DrainTypeOK
  <2>4. QED
    BY <2>2, <2>3
<1>3. ASSUME NEW err \in BOOLEAN, NEW j \in Keys, RetryHSet(s, j, err)
      PROVE  /\ unclean[r] \subseteq unclean'[r]
             /\ \A o \in Ops : op[o].rep = r /\ drainRedis'[k] = o => drainRedis[k] = o
  <2>1. UNCHANGED drainRedis \/ Writes(j, drainRefresh[s].taken[j], err)
    BY <1>3 DEF RetryHSet
  <2>2. \A o \in Ops : drainRefresh[s].taken[j] = o => op[o].rep # r
    BY DEF Owned
  <2>3. \A o \in Ops : op[o].rep = r /\ drainRedis'[k] = o => drainRedis[k] = o
    BY <1>0, <2>1, <2>2, WritesOr
  <2>4. QED
    BY <1>3, <2>3 DEF RetryHSet
<1>4. CASE Purge(s)
  BY <1>0, <1>4, DrainAssumption, Zenon DEF Purge, DrainTypeOK
<1>5. QED
  BY <1>1, <1>2, <1>3, <1>4 DEF RefreshNext, RefreshBegin, DrainFetchFailed, DrainFetchAnswered, Scan,
                                RetryFinish, Replace

\* A refresh of another replica.
LEMMA OtherRefreshKeepsWins ==
    ASSUME DrainInv, Owned, BegunStay, NEW s \in DrainReplicas, RefreshNext(s),
           NEW r \in DrainReplicas, NEW k \in Keys, Wins(r, k), s # r
    PROVE  Wins(r, k)'
<1>0. DrainTypeOK
  BY Zenon DEF DrainInv
<1>1. UNCHANGED <<op, decided>>
  BY Zenon DEF RefreshNext, RefreshBegin, DrainFetchFailed, DrainFetchAnswered, Scan, RetryUndo, RetryHSet,
         RetryFinish, Replace, Purge
<1>2. drainRefresh'[r] = drainRefresh[r]
  BY <1>0, Zenon DEF RefreshNext, RefreshBegin, DrainFetchFailed, DrainFetchAnswered, Scan, RetryUndo, RetryHSet,
              RetryFinish, Replace, Purge, DrainTypeOK
<1>3. Settling(r, k) => Settling(r, k)'
  BY <1>1, <1>2, SettlingRefresh, Zenon DEF RetryOnWire
<1>4. QED
  BY <1>1, <1>3, RefreshWrites, WinsFrame

\* A refresh of the replica itself: a retry overtaken by the release is undone.
LEMMA OwnRefreshKeepsWins ==
    ASSUME DrainInv, Owned, BegunStay, NEW r \in DrainReplicas, RefreshNext(r), NEW k \in Keys, Wins(r, k)
    PROVE  Wins(r, k)'
<1>0. DrainTypeOK /\ Placed /\ Record(r, k) /\ drainRefresh[r] \in DrainRefreshState
  BY Zenon DEF DrainInv, DrainTypeOK
<1>1. UNCHANGED <<op, decided>>
  BY Zenon DEF RefreshNext, RefreshBegin, DrainFetchFailed, DrainFetchAnswered, Scan, RetryUndo, RetryHSet,
         RetryFinish, Replace, Purge
<1>2. ASSUME Settling(r, k)' PROVE Wins(r, k)'
  BY <1>2, Zenon DEF Wins, ReleasedCleanly
<1>3. ASSUME UNCHANGED unclean, RetryOnWire(r, k) => RetryOnWire(r, k)',
             ~(drainRefresh[r].pc = "undo" /\ drainRefresh[r].cur = k),
             \A o \in Ops : drainRedis'[k] = o => drainRedis[k] = o
      PROVE  Wins(r, k)'
  <2>1. Settling(r, k) => Settling(r, k)'
    BY <1>1, <1>3, SettlingRefresh, Zenon
  <2>2. QED
    BY <1>1, <1>3, <2>1, WinsFrame, SMTT(30)
<1>4. CASE RefreshBegin(r) \/ DrainFetchFailed(r) \/ DrainFetchAnswered(r) \/ Scan(r)
  <2>1. drainRefresh[r].pc \in {"idle", "fetch", "scan"} /\ UNCHANGED <<drainRedis, unclean>>
    BY <1>4, Zenon DEF RefreshBegin, DrainFetchFailed, DrainFetchAnswered, Scan
  <2>2. ~RetryOnWire(r, k)
    BY <1>0, <2>1, Zenon DEF Placed
  <2>3. QED
    BY <1>3, <2>1, <2>2
<1>5. CASE Replace(r) \/ Purge(r)
  <2>1. drainRefresh[r].pc \in {"retry", "purge"} /\ UNCHANGED unclean
    BY <1>5 DEF Replace, Purge
  <2>2. ~RetryOnWire(r, k)
    BY <1>0, <1>5 DEF Placed, Replace, Purge, RetryOnWire
  <2>3. \A o \in Ops : drainRedis'[k] = o => drainRedis[k] = o
    BY <1>0, <1>5, DrainAssumption DEF Replace, Purge, DrainTypeOK
  <2>4. QED
    BY <1>3, <2>1, <2>2, <2>3
<1>6. ASSUME NEW err \in BOOLEAN, NEW j \in Keys, RetryHSet(r, j, err) PROVE Wins(r, k)'
  <2>1. drainRefresh[r].pc = "retry" /\ UNCHANGED unclean /\ drainRefresh[r].todo[j] # -1
    BY <1>6 DEF RetryHSet
  <2>2. drainRefresh'[r].todo = drainRefresh[r].todo
    BY <1>0, <1>6 DEF RetryHSet, DrainTypeOK, DrainRefreshState
  <2>3. CASE j = k
    <3>1. RetryOnWire(r, k)'
      BY <2>1, <2>2, <2>3, Zenon DEF RetryOnWire
    <3>2. Settling(r, k)'
      BY <3>1, Zenon DEF Settling, OnWire
    <3>3. QED
      BY <1>2, <3>2, Zenon
  <2>4. CASE j # k
    <3>1. UNCHANGED drainRedis \/ Writes(j, drainRefresh[r].taken[j], err)
      BY <1>6, Zenon DEF RetryHSet
    <3>2. drainRedis'[k] = drainRedis[k]
      BY <1>0, <2>4, <3>1, WritesOr, Zenon
    <3>3. QED
      BY <1>3, <2>1, <2>2, <3>2, Zenon DEF RetryOnWire
  <2>5. QED
    BY <2>3, <2>4
<1>7. ASSUME NEW err \in BOOLEAN, RetryUndo(r, err) PROVE Wins(r, k)'
  <2>1. /\ drainRefresh[r].pc = "undo" /\ drainRefresh[r].cur \in Keys
        /\ Writes(drainRefresh[r].cur, None, err) /\ NoteUnclean(r, drainRefresh[r].cur, err)
    BY <1>0, <1>7 DEF RetryUndo, Placed
  <2>2. unclean[r] \subseteq unclean'[r] /\ (err => drainRefresh[r].cur \in unclean'[r])
    BY <1>0, <2>1, Zenon DEF NoteUnclean, DrainTypeOK
  <2>3. /\ drainRedis'[drainRefresh[r].cur] = None \/ err
        /\ \A j \in Keys \ {drainRefresh[r].cur} : drainRedis'[j] = drainRedis[j]
    BY <1>0, <2>1, WritesOr, SMTT(30)
  <2>4. CASE drainRefresh[r].cur = k
    BY <2>2, <2>3, <2>4, DrainAssumption, Zenon DEF Wins, ReleasedCleanly
  <2>5. CASE drainRefresh[r].cur # k
    <3>1. drainRefresh'[r].todo = drainRefresh[r].todo
      BY <1>0, <1>7, Zenon DEF RetryUndo, DrainTypeOK, DrainRefreshState
    <3>2. Settling(r, k) => Settling(r, k)'
      BY <1>1, <2>5, <3>1, SettlingRefresh, Zenon DEF RetryOnWire
    <3>3. QED
      BY <1>1, <2>2, <2>3, <2>5, <3>2, WinsFrame
  <2>6. QED
    BY <2>4, <2>5
<1>8. CASE RetryFinish(r)
  <2>1. PICK j \in Keys, gen \in Nat, e \in Ops, err \in BOOLEAN, st \in KeyState, g \in DrainRefreshState :
          RetryFinishes(r, j, gen, e, err, st, g)
    BY <1>8, RetryFinishStep, Zenon
  <2>2. /\ drainRefresh[r].pc = "finish" /\ UNCHANGED <<drainRedis, unclean>> /\ drainRefresh'[r] = g
        /\ \A i \in Keys \ {j} : g.todo[i] = drainRefresh[r].todo[i]
    BY <1>0, <2>1, Zenon DEF RetryFinishes, DrainTypeOK
  <2>3. CASE j = k
    <3>1. SUFFICES ASSUME ReleasedCleanly(r, k)' PROVE FALSE
      BY Zenon DEF Wins
    <3>2. RetryOnWire(r, k) /\ Knows(r, k) /\ st = keys[r][k] /\ gen = drainRefresh[r].todo[k]
          /\ e = drainRefresh[r].taken[k]
      BY <1>0, <2>1, <2>3, Zenon DEF RetryFinishes, Record
    <3>3. op[decided[r][k]].kind = "release" /\ op[e].kind = "set"
      BY <1>1, <3>1, <3>2, Zenon DEF ReleasedCleanly, Owned
    <3>4. st.gen # gen /\ st.released
      BY <3>2, <3>3, Zenon DEF Knows
    <3>5. drainRefresh'[r].pc = "undo" /\ drainRefresh'[r].cur = k
      BY <2>1, <2>2, <2>3, <3>4, Zenon DEF RetryFinishes, OvertakenByRelease
    <3>6. QED
      BY <3>1, <3>5, Zenon DEF ReleasedCleanly, Settling
  <2>4. CASE j # k
    BY <1>3, <2>2, <2>4 DEF RetryOnWire
  <2>5. QED
    BY <2>3, <2>4
<1>9. QED
  BY <1>4, <1>5, <1>6, <1>7, <1>8, Zenon DEF RefreshNext

\* For any replicas, keys and requests: once a replica's latest decision for a
\* key is a release and its commands have run without an error, no drain the
\* replica set is in Redis.  Owned is what the induction needs beside the
\* records: an overtaken retry is a Set of the same replica, so finishWrite
\* finds the release in the record and undoes it.
THEOREM ReleaseAlwaysWins == DrainSpec => []ReleaseWins
<1> DEFINE Inv == DrainInv /\ Owned /\ \A r \in DrainReplicas, k \in Keys : Wins(r, k)
<1>1. DrainInit => Inv
  <2> SUFFICES ASSUME DrainInit PROVE Owned /\ \A r \in DrainReplicas, k \in Keys : Wins(r, k)
    BY DrainInitInv, Zenon
  <2>1. \A r \in DrainReplicas, k \in Keys :
           decided[r][k] = None /\ drainRefresh[r].taken[k] = None /\ keys[r][k] = None /\ drainRedis[k] = None
    BY DEF DrainInit, DrainIdleRefresh, NoEntries
  <2>2. \A k \in Keys : drainRedis[k] = None
    BY DEF DrainInit, NoEntries
  <2>3. QED
    BY <2>1, <2>2, DrainAssumption DEF Owned, Wins, ReleasedCleanly
<1>2. Inv /\ [DrainNext]_drainVars => Inv'
  <2> SUFFICES ASSUME DrainInv, Owned, \A r \in DrainReplicas, k \in Keys : Wins(r, k), [DrainNext]_drainVars
               PROVE  Owned' /\ \A r \in DrainReplicas, k \in Keys : Wins(r, k)'
    BY DrainStepKeeps
  <2>1. BegunStay
    BY BegunStays
  <2>2. CASE UNCHANGED drainVars
    <3>1. Owned'
      BY <2>2, SMTT(30) DEF drainVars, Owned, Begun
    <3>2. ASSUME NEW r \in DrainReplicas, NEW k \in Keys PROVE Wins(r, k)'
      <4>1. Settling(r, k) => Settling(r, k)'
        BY <2>2, SettlingRefresh DEF drainVars, RetryOnWire
      <4>2. QED
        BY <2>1, <2>2, <4>1, WinsFrame, Zenon DEF drainVars
    <3>3. QED
      BY <3>1, <3>2, Zenon
  <2>3. ASSUME NEW p \in Ops, OpNext(p) PROVE Owned' /\ \A r \in DrainReplicas, k \in Keys : Wins(r, k)'
    BY <2>1, <2>3, OpKeepsOwned, OpKeepsWins, Zenon
  <2>4. ASSUME NEW s \in DrainReplicas, RefreshNext(s)
        PROVE  Owned' /\ \A r \in DrainReplicas, k \in Keys : Wins(r, k)'
    BY <2>1, <2>4, RefreshKeepsOwned, OwnRefreshKeepsWins, OtherRefreshKeepsWins, Zenon
  <2>5. QED
    BY <2>2, <2>3, <2>4 DEF DrainNext
<1>3. Inv => ReleaseWins
  BY DEF ReleaseWins, Wins
<1> HIDE DEF Inv
<1>4. QED
  BY <1>1, <1>2, <1>3, PTL DEF DrainSpec
=============================================================================
