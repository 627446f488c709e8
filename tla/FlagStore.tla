------------------------------ MODULE FlagStore ------------------------------
(***************************************************************************)
(* The feature flags of featureflag/redis.go.  Every replica answers from  *)
(* a snapshot of the flag keys in Redis, over the config file's overrides, *)
(* over the compiled defaults.  A write changes the local snapshot first   *)
(* and Redis second; a refresh loop lists the keys, reads them one by one  *)
(* and replaces the snapshot.                                              *)
(*                                                                         *)
(* A step is one atomic snapshot swap or one Redis command.  A key is a    *)
(* flag and a service, or a flag and Global.                               *)
(***************************************************************************)
EXTENDS Sage

CONSTANTS
    FlagReplicas,   \* instances sharing the Redis keys
    FlagNames,      \* known flags
    FlagServices,   \* services with overrides of their own
    Global,         \* the service of a global key
    FlagReqs,       \* admin requests and reloads, each made at most once
    DefaultFlags    \* the compiled default of each flag

VARIABLES
    flagRedis,      \* flagRedis[k]: the value of key k, or None
    snapshot,       \* snapshot[r][k]: r's snapshot
    fileFlags,      \* fileFlags[r][f]: the config override of f on r, or None
    flagReq,        \* flagReq[q]: one write
    flagPoll,       \* flagPoll[r]: the refresh in flight
    flagHeld        \* flagHeld[r][k]: what key k held since r's refresh began (history)

flagVars == <<flagRedis, snapshot, fileFlags, flagReq, flagPoll, flagHeld>>

-----------------------------------------------------------------------------
FlagKeys == FlagNames \X (FlagServices \cup {Global})

FlagValues == BOOLEAN \cup {None}

FlagReqState == [pc : {"idle", "local", "redis", "done"}, file : BOOLEAN, rep : FlagReplicas \cup {None},
                 key : FlagKeys \cup {None}, val : FlagValues]

FlagPollState == [pc : {"idle", "get"}, todo : SUBSET FlagKeys, got : [FlagKeys -> FlagValues]]

NoFlags == [k \in FlagKeys |-> None]

FlagIdlePoll == [pc |-> "idle", todo |-> {}, got |-> NoFlags]

\* IsEnabled: the service's key, the global key, the file's override, the
\* compiled default.
IsEnabled(r, f, s) ==
    IF snapshot[r][<<f, s>>] # None THEN snapshot[r][<<f, s>>]
    ELSE IF snapshot[r][<<f, Global>>] # None THEN snapshot[r][<<f, Global>>]
    ELSE IF fileFlags[r][f] # None THEN fileFlags[r][f]
    ELSE DefaultFlags[f]

\* NewRedisStore: an empty snapshot over the file's overrides.
FlagInit ==
    /\ flagRedis \in [FlagKeys -> {TRUE, None}]
    /\ snapshot = [r \in FlagReplicas |-> NoFlags]
    /\ fileFlags \in [FlagReplicas -> [FlagNames -> {TRUE, None}]]
    /\ flagReq = [q \in FlagReqs |-> [pc |-> "idle", file |-> FALSE, rep |-> None, key |-> None, val |-> None]]
    /\ flagPoll = [r \in FlagReplicas |-> FlagIdlePoll]
    /\ flagHeld = [r \in FlagReplicas |-> [k \in FlagKeys |-> {}]]

\* Set, SetForService, Delete: updateSnapshot on the instance asked.
FlagWrite(q, r, k, v) ==
    /\ flagReq[q].pc = "idle"
    /\ snapshot' = [snapshot EXCEPT ![r][k] = v]
    /\ flagReq' = [flagReq EXCEPT ![q] = [pc |-> "redis", file |-> FALSE, rep |-> r, key |-> k, val |-> v]]
    /\ UNCHANGED <<flagRedis, fileFlags, flagPoll, flagHeld>>

\* Mutant: the file's override is left in place.
DropsNoOverride(r, f) == fileFlags

DropsOverride(r, f) == [fileFlags EXCEPT ![r][f] = None]

\* DeleteGlobal drops the file's override first, then the global key.
DeleteGlobal(q, r, f) ==
    /\ flagReq[q].pc = "idle"
    /\ fileFlags' = DropsOverride(r, f)
    /\ flagReq' = [flagReq EXCEPT ![q] = [pc |-> "local", file |-> TRUE, rep |-> r, key |-> <<f, Global>>,
                                          val |-> None]]
    /\ UNCHANGED <<flagRedis, snapshot, flagPoll, flagHeld>>

DeleteGlobalLocal(q) ==
    /\ flagReq[q].pc = "local"
    /\ snapshot' = [snapshot EXCEPT ![flagReq[q].rep][flagReq[q].key] = None]
    /\ flagReq' = [flagReq EXCEPT ![q].pc = "redis"]
    /\ UNCHANGED <<flagRedis, fileFlags, flagPoll, flagHeld>>

\* SET or DEL: a command that failed may have been applied.
FlagWriteRedis(q, err) ==
    LET k == flagReq[q].key
    IN  /\ flagReq[q].pc = "redis"
        /\ \E w \in {flagReq[q].val} \cup (IF err THEN {flagRedis[k]} ELSE {}) :
              /\ flagRedis' = [flagRedis EXCEPT ![k] = w]
              /\ flagHeld' = [r \in FlagReplicas |-> [flagHeld[r] EXCEPT ![k] = @ \cup {w}]]
        /\ flagReq' = [flagReq EXCEPT ![q].pc = "done"]
        /\ UNCHANGED <<snapshot, fileFlags, flagPoll>>

-----------------------------------------------------------------------------
\* scanKeys: the keys that exist; a failed SCAN ends the refresh where it began.
FlagScan(r) ==
    /\ flagPoll[r].pc = "idle"
    /\ flagPoll' = [flagPoll EXCEPT ![r] = [pc |-> "get", todo |-> {k \in FlagKeys : flagRedis[k] # None},
                                            got |-> NoFlags]]
    /\ flagHeld' = [flagHeld EXCEPT ![r] = [k \in FlagKeys |-> {flagRedis[k]}]]
    /\ UNCHANGED <<flagRedis, snapshot, fileFlags, flagReq>>

\* One GET: a key deleted since the scan is skipped.
FlagGet(r, k) ==
    /\ flagPoll[r].pc = "get" /\ k \in flagPoll[r].todo
    /\ flagPoll' = [flagPoll EXCEPT ![r].todo = @ \ {k}, ![r].got[k] = flagRedis[k]]
    /\ UNCHANGED <<flagRedis, snapshot, fileFlags, flagReq, flagHeld>>

\* A GET that fails keeps the previous snapshot whole.
FlagGetFails(r) ==
    /\ flagPoll[r].pc = "get" /\ flagPoll[r].todo # {}
    /\ flagPoll' = [flagPoll EXCEPT ![r] = FlagIdlePoll]
    /\ flagHeld' = [flagHeld EXCEPT ![r] = [k \in FlagKeys |-> {}]]
    /\ UNCHANGED <<flagRedis, snapshot, fileFlags, flagReq>>

\* Mutant: the refresh is merged into the previous snapshot.
RefreshedMerged(r) == [k \in FlagKeys |-> IF flagPoll[r].got[k] # None THEN flagPoll[r].got[k] ELSE snapshot[r][k]]

\* What a refresh stores: the keys it read and no others.
Refreshed(r) == flagPoll[r].got

FlagStoreSnapshot(r) ==
    /\ flagPoll[r].pc = "get" /\ flagPoll[r].todo = {}
    /\ snapshot' = [snapshot EXCEPT ![r] = Refreshed(r)]
    /\ flagPoll' = [flagPoll EXCEPT ![r] = FlagIdlePoll]
    /\ flagHeld' = [flagHeld EXCEPT ![r] = [k \in FlagKeys |-> {}]]
    /\ UNCHANGED <<flagRedis, fileFlags, flagReq>>

-----------------------------------------------------------------------------
FlagReqNext(q) ==
    \/ \E r \in FlagReplicas, k \in FlagKeys, v \in {FALSE, None} : FlagWrite(q, r, k, v)
    \/ \E r \in FlagReplicas, f \in FlagNames : DeleteGlobal(q, r, f)
    \/ DeleteGlobalLocal(q)
    \/ \E err \in BOOLEAN : FlagWriteRedis(q, err)

FlagRefresh(r) ==
    FlagScan(r) \/ FlagGetFails(r) \/ FlagStoreSnapshot(r) \/ \E k \in FlagKeys : FlagGet(r, k)

FlagNext == (\E q \in FlagReqs : FlagReqNext(q)) \/ (\E r \in FlagReplicas : FlagRefresh(r))

FlagSpec == FlagInit /\ [][FlagNext]_flagVars

-----------------------------------------------------------------------------
FlagTypeOK ==
    /\ flagRedis \in [FlagKeys -> FlagValues]
    /\ snapshot \in [FlagReplicas -> [FlagKeys -> FlagValues]]
    /\ fileFlags \in [FlagReplicas -> [FlagNames -> FlagValues]]
    /\ flagReq \in [FlagReqs -> FlagReqState]
    /\ flagPoll \in [FlagReplicas -> FlagPollState]
    /\ flagHeld \in [FlagReplicas -> [FlagKeys -> SUBSET FlagValues]]

\* redis.go:337, refresh: a snapshot is put together from one SCAN and a GET per
\* key while other instances write, and a local write may land in between.  What
\* it stores for a key is nevertheless something Redis held for that key while
\* the refresh ran: no snapshot keeps a key Redis no longer had, and a refresh
\* that began after a write reached Redis shows that write or a later one.
SnapshotsRegular ==
    [][\A r \in FlagReplicas : FlagStoreSnapshot(r) =>
          \A k \in FlagKeys : snapshot'[r][k] \in flagHeld[r][k]]_flagVars

FlagsQuiet == \A q \in FlagReqs : flagReq[q].pc \in {"idle", "done"}

\* A reload that removed a flag from the file: what it deleted in Redis is gone.
FlagRemoved(q, f) == flagReq[q].file /\ flagReq[q].key = <<f, Global>> /\ flagRedis[<<f, Global>>] = None

\* redis.go:313, Start; :239, DeleteGlobal: once nobody writes, every instance
\* ends up with what Redis holds, whatever a refresh in flight overwrote and
\* whichever command failed on the way; and a flag removed from the file is back
\* at its compiled default for every service without a key of its own.
FlagsSettled ==
    FlagsQuiet =>
        /\ \A r \in FlagReplicas : snapshot[r] = flagRedis
        /\ \A q \in FlagReqs, f \in FlagNames, s \in FlagServices :
               FlagRemoved(q, f) /\ flagRedis[<<f, s>>] = None =>
                   IsEnabled(flagReq[q].rep, f, s) = DefaultFlags[f]
=============================================================================
