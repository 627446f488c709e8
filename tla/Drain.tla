-------------------------------- MODULE Drain --------------------------------
(***************************************************************************)
(* The operator drains of drain/redis.go and drain/memory.go: each replica *)
(* answers from a local map, writes a drain locally first and to one Redis *)
(* hash second, retries a write that failed from its refresh loop, and     *)
(* rebuilds the local map from Redis every cache TTL.                      *)
(*                                                                         *)
(* One step is one critical section (MemoryStore.mu, keysMu) or one Redis  *)
(* command.  An admin request is an element of Ops; a drain entry is the   *)
(* request that set it, and the clock is the set of requests whose Until   *)
(* has passed.  setAt and releasedAt are only ever compared with the start *)
(* of the refresh in flight, so they are kept as the keys set and released *)
(* since it began.                                                         *)
(***************************************************************************)
EXTENDS Sage, Integers, FiniteSets

CONSTANTS
    DrainReplicas,  \* instances sharing the hash
    Followers,      \* instances that follow another's drains read-only (FollowPeer)
    Keys,           \* service, operator and RPC type of a drain
    Ops,            \* admin requests, Set or Release, each made at most once
    AutoMade        \* the requests whose reason has the prefix followers look for

ASSUME DrainAssumption ==
    /\ Followers \subseteq DrainReplicas /\ AutoMade \subseteq Ops
    /\ IsFiniteSet(Ops) /\ Ops \cap DrainReplicas = {}
    /\ None \notin Ops

VARIABLES
    entries,        \* entries[r][k]: the Set in r's local map, or None
    setAfter,       \* setAfter[r]: keys Set since r's refresh in flight began
    releasedAfter,  \* releasedAfter[r]: keys released since then
    keys,           \* keys[r][k]: keyState, or None
    drainRedis,     \* redis[k]: the Set in the hash, or None
    drainOver,      \* requests whose Until has passed
    op,             \* op[o]: one admin request
    drainRefresh,   \* refresh[r]: r's refresh loop
    decided,        \* decided[r][k]: the request r recorded last for k (history)
    unclean         \* unclean[r]: keys an HDEL of r failed on (history)

drainVars == <<entries, setAfter, releasedAfter, keys, drainRedis, drainOver, op, drainRefresh,
          decided, unclean>>

-----------------------------------------------------------------------------
KeyState == [gen : Nat, released : BOOLEAN, pending : BOOLEAN,
             entry : Ops \cup {None}, inflight : Nat]

ASSUME KeyStateAssumption == None \notin KeyState

NewState == [gen |-> 0, released |-> FALSE, pending |-> FALSE,
             entry |-> None, inflight |-> 0]

OpState == [pc : {"idle", "begin", "hset", "finish", "undo", "hdel", "done"},
            kind : {"set", "release"}, rep : DrainReplicas \cup {None},
            key : Keys \cup {None}, gen : Nat, err : BOOLEAN]

IdleOp == [pc |-> "idle", kind |-> "set", rep |-> None, key |-> None,
           gen |-> 0, err |-> FALSE]

Entries == [Keys -> Ops \cup {None}]

\* todo[k] is the generation a pending drain was taken at, -1 when not taken.
DrainRefreshState == [pc : {"idle", "fetch", "scan", "retry", "finish", "undo", "purge"},
                 next : Entries, expired : SUBSET Keys, asOf : SUBSET Ops,
                 todo : [Keys -> Int], taken : Entries,
                 cur : Keys \cup {None}, err : BOOLEAN]

NoEntries == [k \in Keys |-> None]

DrainIdleRefresh == [pc |-> "idle", next |-> NoEntries, expired |-> {}, asOf |-> {},
                todo |-> [k \in Keys |-> -1], taken |-> NoEntries,
                cur |-> None, err |-> FALSE]

DrainLive(e) == e # None /\ e \notin drainOver

\* Drained: the hot-path check.
Drained(r, k) == DrainLive(entries[r][k])

\* state: k's record on r, a new one when there is none.
StateOf(r, k) == IF keys[r][k] = None THEN NewState ELSE keys[r][k]

\* forget: a record with nothing left to remember is dropped.
Forget(st) == IF ~st.pending /\ st.inflight = 0 THEN None ELSE st

\* One HSET or HDEL of a field: its reply says whether it failed, and a
\* command that failed may have been applied.
Writes(k, v, err) ==
    \/ ~err /\ drainRedis' = [drainRedis EXCEPT ![k] = v]
    \/ err /\ \E w \in {v, drainRedis[k]} : drainRedis' = [drainRedis EXCEPT ![k] = w]

-----------------------------------------------------------------------------
DrainInit ==
    /\ entries = [r \in DrainReplicas |-> NoEntries]
    /\ setAfter = [r \in DrainReplicas |-> {}]
    /\ releasedAfter = [r \in DrainReplicas |-> {}]
    /\ keys = [r \in DrainReplicas |-> [k \in Keys |-> None]]
    /\ drainRedis = NoEntries
    /\ drainOver = {}
    /\ op = [o \in Ops |-> IdleOp]
    /\ drainRefresh = [r \in DrainReplicas |-> DrainIdleRefresh]
    /\ decided = [r \in DrainReplicas |-> NoEntries]
    /\ unclean = [r \in DrainReplicas |-> {}]

\* Keys touched between the start of r's refresh and its replaceAll are newer
\* than the snapshot.
Since(r, S, k) == IF drainRefresh[r].pc \in {"idle", "purge"} THEN S ELSE S \cup {k}

\* Set: MemoryStore.Set.
SetLocal(o, r, k) ==
    /\ op[o].pc = "idle" /\ o \notin drainOver /\ r \notin Followers
    /\ entries' = [entries EXCEPT ![r][k] = o]
    /\ setAfter' = [setAfter EXCEPT ![r] = Since(r, @, k)]
    /\ releasedAfter' = [releasedAfter EXCEPT ![r] = @ \ {k}]
    /\ op' = [op EXCEPT ![o] = [@ EXCEPT !.pc = "begin", !.kind = "set", !.rep = r, !.key = k]]
    /\ UNCHANGED <<keys, drainRedis, drainOver, drainRefresh, decided, unclean>>

\* Release, and a Set whose Until is not in the future: MemoryStore.Release.
ReleaseLocal(o, r, k) ==
    /\ op[o].pc = "idle" /\ r \notin Followers
    /\ entries' = [entries EXCEPT ![r][k] = None]
    /\ setAfter' = [setAfter EXCEPT ![r] = @ \ {k}]
    /\ releasedAfter' = [releasedAfter EXCEPT ![r] = Since(r, @, k)]
    /\ op' = [op EXCEPT ![o] = [@ EXCEPT !.pc = "begin", !.kind = "release", !.rep = r, !.key = k]]
    /\ UNCHANGED <<keys, drainRedis, drainOver, drainRefresh, decided, unclean>>

\* beginSet: a new generation, its write in flight.
SetState(st, o) == [st EXCEPT !.gen = @ + 1, !.released = FALSE, !.entry = o,
                              !.inflight = @ + 1]

BeginSet(o) ==
    LET r == op[o].rep
        k == op[o].key
        st == SetState(StateOf(r, k), o)
    IN  /\ op[o].pc = "begin" /\ op[o].kind = "set" /\ o \notin drainOver
        /\ keys' = [keys EXCEPT ![r][k] = st]
        /\ decided' = [decided EXCEPT ![r][k] = o]
        /\ op' = [op EXCEPT ![o] = [@ EXCEPT !.pc = "hset", !.gen = st.gen]]
        /\ UNCHANGED <<entries, setAfter, releasedAfter, drainRedis, drainOver, drainRefresh, unclean>>

\* Mutant: a release keeps the generation.
ReleaseStateSameGen(st) == [st EXCEPT !.released = TRUE, !.pending = FALSE, !.entry = None]

\* beginRelease, on a record.
ReleaseState(st) == [st EXCEPT !.gen = @ + 1, !.released = TRUE,
                               !.pending = FALSE, !.entry = None]

\* A Release, or a Set whose Until passed on the way.
BeginRelease(o) ==
    LET r == op[o].rep
        k == op[o].key
    IN  /\ op[o].pc = "begin" /\ (op[o].kind = "release" \/ o \in drainOver)
        /\ keys' = [keys EXCEPT ![r][k] = Forget(ReleaseState(StateOf(r, k)))]
        /\ decided' = [decided EXCEPT ![r][k] = o]
        /\ op' = [op EXCEPT ![o] = [@ EXCEPT !.pc = "hdel", !.kind = "release"]]
        /\ UNCHANGED <<entries, setAfter, releasedAfter, drainRedis, drainOver, drainRefresh, unclean>>

\* propagate: nothing is written once Until has passed.
HSet(o, err) ==
    /\ op[o].pc = "hset"
    /\ \/ o \in drainOver /\ ~err /\ UNCHANGED drainRedis
       \/ o \notin drainOver /\ Writes(op[o].key, o, err)
    /\ op' = [op EXCEPT ![o] = [@ EXCEPT !.pc = "finish", !.err = err]]
    /\ UNCHANGED <<entries, setAfter, releasedAfter, keys, drainOver, drainRefresh, decided, unclean>>

-----------------------------------------------------------------------------
(* finishWrite, on the record and in what it tells its caller.             *)

\* Mutant: a write that reported an error is not undone.
OvertakenByReleaseNoErr(st, gen, err) == st.gen # gen /\ st.released /\ ~err

OvertakenByRelease(st, gen, err) == st.gen # gen /\ st.released

Finished(st, gen, e, err) ==
    LET done == [st EXCEPT !.inflight = @ - 1]
    IN  Forget(IF OvertakenByRelease(st, gen, err) THEN done
               ELSE IF st.gen # gen THEN [done EXCEPT !.pending = TRUE]
               ELSE [done EXCEPT !.pending = err, !.entry = IF err THEN e ELSE @])

\* Mutant: only a write that succeeded keeps its entry.
KeptIfWritten(st, gen, e, err) ==
    IF OvertakenByRelease(st, gen, err) \/ err THEN None
    ELSE IF st.gen # gen THEN st.entry ELSE e

\* The entry the local map should now hold, or None.
DrainKept(st, gen, e, err) ==
    IF OvertakenByRelease(st, gen, err) THEN None
    ELSE IF st.gen # gen THEN st.entry ELSE e

Finish(o) ==
    LET r == op[o].rep
        k == op[o].key
        st == StateOf(r, k)
    IN  /\ op[o].pc = "finish"
        /\ keys' = [keys EXCEPT ![r][k] = Finished(st, op[o].gen, o, op[o].err)]
        /\ op' = [op EXCEPT ![o] = [@ EXCEPT
               !.pc = IF OvertakenByRelease(st, op[o].gen, op[o].err) THEN "undo" ELSE "done",
               !.gen = 0, !.err = FALSE]]
        /\ UNCHANGED <<entries, setAfter, releasedAfter, drainRedis, drainOver, drainRefresh, decided, unclean>>

NoteUnclean(r, k, err) == unclean' = IF err THEN [unclean EXCEPT ![r] = @ \cup {k}] ELSE unclean

\* The compensating HDEL of finishWrite: its error is only logged.
Undo(o, err) ==
    /\ op[o].pc = "undo"
    /\ Writes(op[o].key, None, err)
    /\ NoteUnclean(op[o].rep, op[o].key, err)
    /\ op' = [op EXCEPT ![o].pc = "done"]
    /\ UNCHANGED <<entries, setAfter, releasedAfter, keys, drainOver, drainRefresh, decided>>

\* del.
HDel(o, err) ==
    /\ op[o].pc = "hdel"
    /\ Writes(op[o].key, None, err)
    /\ NoteUnclean(op[o].rep, op[o].key, err)
    /\ op' = [op EXCEPT ![o].pc = "done"]
    /\ UNCHANGED <<entries, setAfter, releasedAfter, keys, drainOver, drainRefresh, decided>>

-----------------------------------------------------------------------------
(* The refresh loop.                                                       *)

RefreshBegin(r) ==
    /\ drainRefresh[r].pc = "idle"
    /\ drainRefresh' = [drainRefresh EXCEPT ![r].pc = "fetch"]
    /\ UNCHANGED <<entries, setAfter, releasedAfter, keys, drainRedis, drainOver, op, decided, unclean>>

\* HGETALL failed: the local map is left alone.
DrainFetchFailed(r) ==
    /\ drainRefresh[r].pc = "fetch"
    /\ drainRefresh' = [drainRefresh EXCEPT ![r].pc = "idle"]
    /\ setAfter' = [setAfter EXCEPT ![r] = {}]
    /\ releasedAfter' = [releasedAfter EXCEPT ![r] = {}]
    /\ UNCHANGED <<entries, keys, drainRedis, drainOver, op, decided, unclean>>

DrainFetchAnswered(r) ==
    /\ drainRefresh[r].pc = "fetch"
    /\ drainRefresh' = [drainRefresh EXCEPT ![r] = [@ EXCEPT !.pc = "scan", !.next = drainRedis]]
    /\ UNCHANGED <<entries, setAfter, releasedAfter, keys, drainRedis, drainOver, op, decided, unclean>>

\* takePending, on one record: drop a drain that is over, else one more write.
DrainTaken(st) ==
    IF st = None \/ ~st.pending THEN st
    ELSE IF ~DrainLive(st.entry) THEN Forget([st EXCEPT !.pending = FALSE, !.entry = None])
    ELSE [st EXCEPT !.inflight = @ + 1]

Takes(st) == st # None /\ st.pending /\ DrainLive(st.entry)

Wanted(r, e) == DrainLive(e) /\ (r \in Followers => e \in AutoMade)

\* The snapshot is read against the clock, then takePending.
Scan(r) ==
    LET snap == drainRefresh[r].next
        todo == [k \in Keys |-> IF Takes(keys[r][k]) THEN keys[r][k].gen ELSE -1]
    IN  /\ drainRefresh[r].pc = "scan"
        /\ drainRefresh' = [drainRefresh EXCEPT ![r] = [@ EXCEPT
               !.pc = "retry",
               !.next = [k \in Keys |-> IF Wanted(r, snap[k]) THEN snap[k] ELSE None],
               !.expired = {k \in Keys : snap[k] \in drainOver},
               !.asOf = drainOver,
               !.todo = todo,
               !.taken = [k \in Keys |-> IF Takes(keys[r][k]) THEN keys[r][k].entry ELSE None]]]
        /\ keys' = [keys EXCEPT ![r] = [k \in Keys |-> DrainTaken(keys[r][k])]]
        /\ UNCHANGED <<entries, setAfter, releasedAfter, drainRedis, drainOver, op, decided, unclean>>

\* reconcilePending: one retry after the other, in map order.
RetryHSet(r, k, err) ==
    LET e == drainRefresh[r].taken[k]
    IN  /\ drainRefresh[r].pc = "retry" /\ drainRefresh[r].todo[k] # -1
        /\ \/ e \in drainOver /\ ~err /\ UNCHANGED drainRedis
           \/ e \notin drainOver /\ Writes(k, e, err)
        /\ drainRefresh' = [drainRefresh EXCEPT ![r] = [@ EXCEPT !.pc = "finish", !.cur = k, !.err = err]]
        /\ UNCHANGED <<entries, setAfter, releasedAfter, keys, drainOver, op, decided, unclean>>

RetryFinish(r) ==
    LET f == drainRefresh[r]
        k == f.cur
        st == StateOf(r, k)
        live == DrainKept(st, f.todo[k], f.taken[k], f.err)
    IN  /\ f.pc = "finish"
        /\ keys' = [keys EXCEPT ![r][k] = Finished(st, f.todo[k], f.taken[k], f.err)]
        /\ drainRefresh' = [drainRefresh EXCEPT ![r] = [@ EXCEPT
               !.pc = IF OvertakenByRelease(st, f.todo[k], f.err) THEN "undo" ELSE "retry",
               !.next[k] = IF live # None /\ live \notin f.asOf THEN live ELSE f.next[k],
               !.todo[k] = -1, !.err = FALSE]]
        /\ UNCHANGED <<entries, setAfter, releasedAfter, drainRedis, drainOver, op, decided, unclean>>

RetryUndo(r, err) ==
    /\ drainRefresh[r].pc = "undo"
    /\ Writes(drainRefresh[r].cur, None, err)
    /\ NoteUnclean(r, drainRefresh[r].cur, err)
    /\ drainRefresh' = [drainRefresh EXCEPT ![r].pc = "retry"]
    /\ UNCHANGED <<entries, setAfter, releasedAfter, keys, drainOver, op, decided>>

\* Mutant: the snapshot is merged into the local map.
ReplacedMerged(r, k) ==
    IF k \notin releasedAfter[r] /\ drainRefresh[r].next[k] # None THEN drainRefresh[r].next[k]
    ELSE entries[r][k]

\* replaceAll, on one key: the snapshot without what was released since it
\* began, and with what was set since then if the snapshot has nothing there.
Replaced(r, k) ==
    IF k \notin releasedAfter[r] /\ drainRefresh[r].next[k] # None THEN drainRefresh[r].next[k]
    ELSE IF k \in setAfter[r] /\ DrainLive(entries[r][k]) THEN entries[r][k]
    ELSE None

Replace(r) ==
    /\ drainRefresh[r].pc = "retry" /\ \A k \in Keys : drainRefresh[r].todo[k] = -1
    /\ entries' = [entries EXCEPT ![r] = [k \in Keys |-> Replaced(r, k)]]
    /\ setAfter' = [setAfter EXCEPT ![r] = {}]
    /\ releasedAfter' = [releasedAfter EXCEPT ![r] = {}]
    /\ drainRefresh' = [drainRefresh EXCEPT ![r] =
           IF drainRefresh[r].expired # {} /\ r \notin Followers
           THEN [DrainIdleRefresh EXCEPT !.pc = "purge", !.expired = drainRefresh[r].expired]
           ELSE DrainIdleRefresh]
    /\ UNCHANGED <<keys, drainRedis, drainOver, op, decided, unclean>>

\* The fields found expired are deleted; a failure is only logged.
Purge(r) ==
    /\ drainRefresh[r].pc = "purge"
    /\ \/ drainRedis' = [k \in Keys |-> IF k \in drainRefresh[r].expired THEN None ELSE drainRedis[k]]
       \/ UNCHANGED drainRedis
    /\ drainRefresh' = [drainRefresh EXCEPT ![r] = DrainIdleRefresh]
    /\ UNCHANGED <<entries, setAfter, releasedAfter, keys, drainOver, op, decided, unclean>>

\* The clock passes the Until of a drain.
Expire(o) ==
    /\ o \notin drainOver /\ op[o].pc # "idle" /\ op[o].kind = "set"
    /\ drainOver' = drainOver \cup {o}
    /\ UNCHANGED <<entries, setAfter, releasedAfter, keys, drainRedis, op, drainRefresh, decided, unclean>>

-----------------------------------------------------------------------------
OpNext(o) ==
    \/ \E r \in DrainReplicas, k \in Keys : SetLocal(o, r, k) \/ ReleaseLocal(o, r, k)
    \/ BeginSet(o) \/ BeginRelease(o) \/ Finish(o) \/ Expire(o)
    \/ \E err \in BOOLEAN : HSet(o, err) \/ Undo(o, err) \/ HDel(o, err)

RefreshNext(r) ==
    \/ RefreshBegin(r) \/ DrainFetchFailed(r) \/ DrainFetchAnswered(r) \/ Scan(r)
    \/ \E err \in BOOLEAN : RetryUndo(r, err) \/ \E k \in Keys : RetryHSet(r, k, err)
    \/ RetryFinish(r) \/ Replace(r) \/ Purge(r)

DrainNext == (\E o \in Ops : OpNext(o)) \/ (\E r \in DrainReplicas : RefreshNext(r))

DrainSpec == DrainInit /\ [][DrainNext]_drainVars

-----------------------------------------------------------------------------
(* Properties.                                                             *)

\* Every variable keeps its shape; in particular no counter of writes in
\* flight goes below zero.
DrainTypeOK ==
    /\ entries \in [DrainReplicas -> Entries]
    /\ setAfter \in [DrainReplicas -> SUBSET Keys]
    /\ releasedAfter \in [DrainReplicas -> SUBSET Keys]
    /\ keys \in [DrainReplicas -> [Keys -> KeyState \cup {None}]]
    /\ drainRedis \in Entries
    /\ drainOver \subseteq Ops
    /\ op \in [Ops -> OpState]
    /\ drainRefresh \in [DrainReplicas -> DrainRefreshState]
    /\ decided \in [DrainReplicas -> Entries]
    /\ unclean \in [DrainReplicas -> SUBSET Keys]

OpOnWire(o, r, k) == op[o].pc \in {"hset", "finish"} /\ op[o].rep = r /\ op[o].key = k

RetryOnWire(r, k) == drainRefresh[r].todo[k] # -1

OnWire(r, k) == {o \in Ops : OpOnWire(o, r, k)} \cup (IF RetryOnWire(r, k) THEN {r} ELSE {})

\* Whether a write on the wire still is its key's latest decision.
Current(r, k, gen) == keys[r][k].gen = gen

\* finishWrite acts on what a key's record tells it.  The record counts exactly
\* the writes of the key on the wire and is kept as long as there is something
\* to remember (dropped earlier, the generations would restart under a write
\* that holds an old one); the generation a write carries tells it exactly
\* whether a Set or a Release of the same key overtook it, and the record tells
\* which of the two.
RecordsExact ==
    \A r \in DrainReplicas, k \in Keys :
        /\ IF keys[r][k] = None THEN OnWire(r, k) = {}
           ELSE /\ keys[r][k].inflight = Cardinality(OnWire(r, k))
                /\ keys[r][k].pending \/ keys[r][k].inflight > 0
        /\ \A o \in Ops : OpOnWire(o, r, k) =>
               (Current(r, k, op[o].gen) <=> decided[r][k] = o)
        /\ RetryOnWire(r, k) =>
               (Current(r, k, drainRefresh[r].todo[k]) <=> decided[r][k] = drainRefresh[r].taken[k])
        /\ keys[r][k] # None => /\ keys[r][k].released <=> op[decided[r][k]].kind = "release"
                                /\ ~keys[r][k].released /\ DrainLive(decided[r][k]) =>
                                      keys[r][k].entry = decided[r][k]

\* Writes of r to the field of k that are still to come.
Settling(r, k) ==
    \/ OnWire(r, k) # {}
    \/ \E o \in Ops : op[o].rep = r /\ op[o].key = k /\ op[o].pc \in {"undo", "hdel"}
    \/ drainRefresh[r].pc = "undo" /\ drainRefresh[r].cur = k

ReleasedCleanly(r, k) ==
    /\ decided[r][k] # None /\ op[decided[r][k]].kind = "release"
    /\ ~Settling(r, k) /\ k \notin unclean[r]

\* Once a replica's latest decision for a key is a release and its commands
\* have run without an error, no drain the replica set is in Redis: a retry or
\* a Set that was on the wire when the release came did not bring it back.
ReleaseWins ==
    \A r \in DrainReplicas, k \in Keys :
        ReleasedCleanly(r, k) => \A o \in Ops : op[o].rep = r => drainRedis[k] # o

KeepsRetried(r) ==
    Replace(r) =>
        \A k \in Keys :
            /\ DrainLive(drainRefresh[r].taken[k]) /\ decided[r][k] = drainRefresh[r].taken[k]
            /\ k \notin releasedAfter[r]
            => entries'[r][k] = drainRefresh[r].taken[k]

\* What a refresh took as pending, retried and still finds to be the decision
\* is drained after the refresh, whether the retry reached Redis or not: the
\* drain ErrPropagation promises on this instance.
RetriedDrainsHeld == [][\A r \in DrainReplicas : KeepsRetried(r)]_drainVars

-----------------------------------------------------------------------------
(* What the comments of the source say and its interleavings do not keep.  *)

\* What was Set locally after a refresh began survives its replaceAll.
NewerSetSurvives ==
    [][\A r \in DrainReplicas : Replace(r) =>
          \A k \in setAfter[r] : DrainLive(entries[r][k]) => entries'[r][k] = entries[r][k]]_drainVars

\* A refresh deletes the fields whose until has passed, and no others.
PurgesOnlyExpired ==
    [][\A r \in DrainReplicas, k \in Keys : Purge(r) /\ DrainLive(drainRedis[k]) => drainRedis'[k] = drainRedis[k]]_drainVars

-----------------------------------------------------------------------------
(* What must eventually hold for good.                                     *)

OnlyRequest(o) ==
    /\ op[o].pc = "done" /\ op[o].kind = "set"
    /\ \A x \in Ops \ {o} : op[x].pc = "idle"

\* A release that reached Redis reaches every instance: in the end none of them
\* drains what the releasing instance had set.  A drain reaches every instance,
\* the ones that follow it included, even if its first write failed.
DrainsSettled ==
    /\ \A r \in DrainReplicas, k \in Keys : ReleasedCleanly(r, k) =>
           \A q \in DrainReplicas, o \in Ops : entries[q][k] = o => op[o].rep # r
    /\ \A o \in Ops : OnlyRequest(o) /\ o \notin drainOver =>
           \A q \in DrainReplicas : (q \in Followers => o \in AutoMade) => entries[q][op[o].key] = o
=============================================================================
