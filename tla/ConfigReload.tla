----------------------------- MODULE ConfigReload -----------------------------
(***************************************************************************)
(* The operator overrides of override/store.go and tuning/store.go.  A     *)
(* tuning value set on one instance is written to Redis, then applied to   *)
(* the instance's own map; a watcher lists the keys every interval and     *)
(* replaces the map when the listing differs from the last one it applied. *)
(* Whatever changes the map runs the change hook, through which a reader   *)
(* that keeps its own copy (here the method-block store's TTL) pulls the   *)
(* value in force (cmd/sagegw/wire.go).                                    *)
(*                                                                         *)
(* A key is a knob, globally or of one service.  A step is one Redis       *)
(* command, one critical section of the store or one call of the hook.     *)
(***************************************************************************)
EXTENDS Sage

CONSTANTS
    OvReplicas,     \* instances sharing the override store
    OvKeys,         \* knobs, globally or of a service
    Pulled,         \* the key the reader with a copy of its own pulls
    OvValues,       \* values the knobs' bounds accept
    BadValue,       \* a stored value this release does not parse
    Base,           \* the config file's value of Pulled when the process was wired
    OvReqs          \* admin requests, Set or Delete, each made at most once

VARIABLES
    ovRedis,        \* ovRedis[k]: the stored value of k, or None
    tuned,          \* tuned[r][k]: the override in r's map, or None
    ovReq,          \* ovReq[q]: one admin request
    watch,          \* watch[r]: r's watcher
    pulled,         \* pulled[r]: the copy the reader on r holds
    hook,           \* hook[a]: a call of the change hook, by the request or watcher that runs it
    undeleted       \* requests whose Delete failed in Redis (history)

ovVars == <<ovRedis, tuned, ovReq, watch, pulled, hook, undeleted>>

-----------------------------------------------------------------------------
OvStored == OvValues \cup {BadValue, None}

NoOverrides == [k \in OvKeys |-> None]

OvReqState == [pc : {"idle", "store", "local", "done"}, rep : OvReplicas \cup {None},
               key : OvKeys \cup {None}, val : OvValues \cup {None}]

WatchState == [pc : {"idle", "get"}, todo : SUBSET OvKeys, got : [OvKeys -> OvStored],
               first : BOOLEAN, last : [OvKeys -> OvStored]]

HookState == [pc : {"idle", "read", "set"}, rep : OvReplicas \cup {None}, val : OvValues \cup {Base, None}]

IdleHook == [pc |-> "idle", rep |-> None, val |-> None]

\* Parse: what is stored counts only as far as this release accepts it.
Parse(v) == IF v \in OvValues THEN v ELSE None

\* lookup, for the reader: the override, or the base it was wired with.
InForce(r) == IF tuned[r][Pulled] # None THEN tuned[r][Pulled] ELSE Base

OvInit ==
    /\ ovRedis \in [OvKeys -> {BadValue, None}]
    /\ tuned = [r \in OvReplicas |-> NoOverrides]
    /\ ovReq = [q \in OvReqs |-> [pc |-> "idle", rep |-> None, key |-> None, val |-> None]]
    /\ watch = [r \in OvReplicas |-> [pc |-> "idle", todo |-> {}, got |-> NoOverrides, first |-> TRUE,
                                      last |-> NoOverrides]]
    /\ pulled = [r \in OvReplicas |-> Base]
    /\ hook = [a \in OvReqs \cup OvReplicas |-> IdleHook]
    /\ undeleted = {}

\* changed: the hook is called outside the lock, by whoever changed the map.
RunsHook(a, r) == hook' = [hook EXCEPT ![a] = [IdleHook EXCEPT !.pc = "read", !.rep = r]]

\* Set of a value Parse accepts, or Delete (v = None).  Set stops at a write that
\* failed; Delete goes on.
TuningBegin(q, r, k, v) ==
    /\ ovReq[q].pc = "idle"
    /\ ovReq' = [ovReq EXCEPT ![q] = [pc |-> "store", rep |-> r, key |-> k, val |-> v]]
    /\ UNCHANGED <<ovRedis, tuned, watch, pulled, hook, undeleted>>

TuningStore(q, err) ==
    LET k == ovReq[q].key
        v == ovReq[q].val
    IN  /\ ovReq[q].pc = "store"
        /\ \E w \in {v} \cup (IF err THEN {ovRedis[k]} ELSE {}) : ovRedis' = [ovRedis EXCEPT ![k] = w]
        /\ ovReq' = [ovReq EXCEPT ![q].pc = IF err /\ v # None THEN "done" ELSE "local"]
        /\ undeleted' = IF err /\ v = None THEN undeleted \cup {q} ELSE undeleted
        /\ UNCHANGED <<tuned, watch, pulled, hook>>

TuningLocal(q) ==
    /\ ovReq[q].pc = "local"
    /\ tuned' = [tuned EXCEPT ![ovReq[q].rep][ovReq[q].key] = ovReq[q].val]
    /\ ovReq' = [ovReq EXCEPT ![q].pc = "done"]
    /\ RunsHook(q, ovReq[q].rep)
    /\ UNCHANGED <<ovRedis, watch, pulled, undeleted>>

-----------------------------------------------------------------------------
\* A tick, once the last apply is through.  List: a SCAN of the prefix, then a
\* GET per key; an error leaves the watcher as it was.
WatchScan(r) ==
    /\ watch[r].pc = "idle" /\ hook[r].pc = "idle"
    /\ watch' = [watch EXCEPT ![r] = [@ EXCEPT !.pc = "get", !.todo = {k \in OvKeys : ovRedis[k] # None},
                                               !.got = NoOverrides]]
    /\ UNCHANGED <<ovRedis, tuned, ovReq, pulled, hook, undeleted>>

WatchGet(r, k) ==
    /\ watch[r].pc = "get" /\ k \in watch[r].todo
    /\ watch' = [watch EXCEPT ![r] = [@ EXCEPT !.todo = @ \ {k}, !.got[k] = ovRedis[k]]]
    /\ UNCHANGED <<ovRedis, tuned, ovReq, pulled, hook, undeleted>>

WatchFails(r) ==
    /\ watch[r].pc = "get" /\ watch[r].todo # {}
    /\ watch' = [watch EXCEPT ![r] = [@ EXCEPT !.pc = "idle", !.todo = {}, !.got = NoOverrides]]
    /\ UNCHANGED <<ovRedis, tuned, ovReq, pulled, hook, undeleted>>

\* Mutant: a listing is compared by what it added to the last one.
NothingAdded(w) == ~w.first /\ \A k \in OvKeys : w.got[k] \in {None, w.last[k]}

\* The listing is the one applied last: nothing to do.
Unchanged(w) == ~w.first /\ w.got = w.last

WatchSame(r) ==
    /\ watch[r].pc = "get" /\ watch[r].todo = {} /\ Unchanged(watch[r])
    /\ watch' = [watch EXCEPT ![r] = [@ EXCEPT !.pc = "idle", !.got = NoOverrides]]
    /\ UNCHANGED <<ovRedis, tuned, ovReq, pulled, hook, undeleted>>

\* applyPersisted: the map becomes what the listing parses to.
WatchApply(r) ==
    /\ watch[r].pc = "get" /\ watch[r].todo = {} /\ ~Unchanged(watch[r])
    /\ tuned' = [tuned EXCEPT ![r] = [k \in OvKeys |-> Parse(watch[r].got[k])]]
    /\ watch' = [watch EXCEPT ![r] = [@ EXCEPT !.pc = "idle", !.first = FALSE, !.last = watch[r].got,
                                               !.got = NoOverrides]]
    /\ RunsHook(r, r)
    /\ UNCHANGED <<ovRedis, ovReq, pulled, undeleted>>

\* The hook pulls the value in force, then hands it to the reader.
HookRead(a) ==
    /\ hook[a].pc = "read"
    /\ hook' = [hook EXCEPT ![a] = [@ EXCEPT !.pc = "set", !.val = InForce(hook[a].rep)]]
    /\ UNCHANGED <<ovRedis, tuned, ovReq, watch, pulled, undeleted>>

HookSet(a) ==
    /\ hook[a].pc = "set"
    /\ pulled' = [pulled EXCEPT ![hook[a].rep] = hook[a].val]
    /\ hook' = [hook EXCEPT ![a] = IdleHook]
    /\ UNCHANGED <<ovRedis, tuned, ovReq, watch, undeleted>>

-----------------------------------------------------------------------------
OvReqNext(q) ==
    \/ \E r \in OvReplicas, k \in OvKeys, v \in OvValues \cup {None} : TuningBegin(q, r, k, v)
    \/ TuningLocal(q) \/ (\E err \in BOOLEAN : TuningStore(q, err))

OvWatchNext(r) ==
    WatchScan(r) \/ WatchFails(r) \/ WatchSame(r) \/ WatchApply(r) \/ \E k \in OvKeys : WatchGet(r, k)

OvNext ==
    \/ \E q \in OvReqs : OvReqNext(q)
    \/ \E r \in OvReplicas : OvWatchNext(r)
    \/ \E a \in OvReqs \cup OvReplicas : HookRead(a) \/ HookSet(a)

OvSpec == OvInit /\ [][OvNext]_ovVars

-----------------------------------------------------------------------------
OvTypeOK ==
    /\ ovRedis \in [OvKeys -> OvStored]
    /\ tuned \in [OvReplicas -> [OvKeys -> OvValues \cup {None}]]
    /\ ovReq \in [OvReqs -> OvReqState]
    /\ watch \in [OvReplicas -> WatchState]
    /\ pulled \in [OvReplicas -> OvValues \cup {Base}]
    /\ hook \in [OvReqs \cup OvReplicas -> HookState]
    /\ undeleted \subseteq OvReqs

\* override/store.go:196, Watch; tuning/store.go:206, Set: an override set on one
\* instance reaches the others, and a value this release does not parse is
\* nowhere in force.  (One request: with two, a watcher that applied the second
\* in between leaves the first request's late local write standing, and a Delete
\* that failed in Redis stays deleted on its instance only.)
OverridesSettled ==
    (\A q \in OvReqs : ovReq[q].pc \in {"idle", "done"}) /\ undeleted = {} =>
        \A r \in OvReplicas, k \in OvKeys : tuned[r][k] = Parse(ovRedis[k])

-----------------------------------------------------------------------------
(***************************************************************************)
(* Reloading the configuration of a running process, cmd/sagegw/reload.go: *)
(* POST /admin/reload re-reads the file, PUT /admin/config applies an      *)
(* uploaded document and stores it, DELETE /admin/config returns to the    *)
(* file, and a watcher follows the stored document on every instance.  All *)
(* four end in apply, which hands each changed section to the part of the  *)
(* process that takes it and reports the others.                           *)
(*                                                                         *)
(* A document is a function on Sections.  apply holds reloadMu and is one  *)
(* step; reading the override store, writing it and recording overrideRaw  *)
(* are steps of their own.  The section "marks" ends in the method-block   *)
(* store, which also pulls a tuning override (Overrides).                  *)
(***************************************************************************)

CONSTANTS
    CfgReplicas,    \* the instances whose configuration is followed
    Docs,           \* documents, valid or not
    Invalid,        \* the documents that would not boot
    Boot,           \* the document the processes started with
    HasFile,        \* the processes started from a file rather than from GATEWAY_CONFIG
    Seams,          \* Seams[r]: the sections process r has a seam for
    CfgReqs         \* admin requests, each made at most once

ASSUME CfgAssumption == CfgReplicas \subseteq OvReplicas /\ Boot \in Docs \ Invalid

VARIABLES
    file,           \* file[r]: what r's config file holds now
    cfg,            \* cfg[r]: the snapshot the per-request closures read
    inForce,        \* inForce[r][s]: the section the running process uses
    reported,       \* reported[r]: sections named in needs_restart or a warning so far (history)
    cfgStored,      \* the stored document, or None
    overrideRaw,    \* overrideRaw[r]: the uploaded document r knows of, or None
    cfgReq,         \* cfgReq[q]: one admin request
    cfgWatch        \* cfgWatch[r]: r's watcher

cfgVars == <<file, cfg, inForce, reported, cfgStored, overrideRaw, cfgReq, cfgWatch>>
reloadVars == <<cfgVars, ovVars>>

-----------------------------------------------------------------------------
Sections == {"knobs", "flags", "checks", "domains", "marks", "reputation", "sockets", "wiring"}

MaybeDoc == Docs \cup {None}

CfgReqState == [pc : {"idle", "check", "load", "apply", "raw", "store", "forget", "done"},
                kind : {"reload", "upload", "clear"}, rep : CfgReplicas \cup {None}, doc : MaybeDoc]

CfgWatchState == [pc : {"idle", "listed", "apply", "raw"}, got : MaybeDoc, first : BOOLEAN,
                  last : MaybeDoc, doc : MaybeDoc]

CfgInit ==
    /\ file = [r \in CfgReplicas |-> Boot]
    /\ cfg = [r \in CfgReplicas |-> Boot]
    /\ inForce = [r \in CfgReplicas |-> Boot]
    /\ reported = [r \in CfgReplicas |-> {}]
    /\ cfgStored \in MaybeDoc
    /\ overrideRaw = [r \in CfgReplicas |-> None]
    /\ cfgReq = [q \in CfgReqs |-> [pc |-> "idle", kind |-> "reload", rep |-> None, doc |-> None]]
    /\ cfgWatch = [r \in CfgReplicas |-> [pc |-> "idle", got |-> None, first |-> TRUE, last |-> None, doc |-> None]]

\* diffConfig: the sections that differ.
Changed(r, doc) == {s \in Sections : cfg[r][s] # doc[s]}

\* Mutant: a section nothing can take is not reported.
NeedsRestartNone(r, doc) == {}

\* Every changed section without a seam of its own needs a restart.
NeedsRestart(r, doc) == Changed(r, doc) \cap {"wiring"}

\* The changed sections apply hands on.  A section this process has no seam for
\* is a warning.
Handed(r, doc) == {s \in Changed(r, doc) \ {"wiring"} : s \in Seams[r]}
Unavailable(r, doc) == Changed(r, doc) \ ({"wiring"} \cup Seams[r])

\* apply: a document that would not boot changes nothing.  After that nothing
\* aborts: a flag that could not be set and bans that were refused (failed) are
\* warnings, and the snapshot is swapped in any case.
Apply(r, doc, failed) ==
    /\ failed \subseteq (Handed(r, doc) \cap {"flags", "domains"})
    /\ IF doc \in Invalid
       THEN UNCHANGED <<cfg, inForce, reported, pulled>>
       ELSE /\ inForce' = [inForce EXCEPT ![r] = [s \in Sections |->
                   IF s \in Handed(r, doc) \ failed THEN doc[s] ELSE inForce[r][s]]]
            /\ reported' = [reported EXCEPT ![r] = @ \cup NeedsRestart(r, doc) \cup Unavailable(r, doc) \cup failed]
            /\ pulled' = [pulled EXCEPT ![r] = IF "marks" \in Handed(r, doc) THEN doc["marks"] ELSE @]
            /\ cfg' = [cfg EXCEPT ![r] = doc]
    /\ UNCHANGED <<ovRedis, tuned, ovReq, watch, hook, undeleted>>

-----------------------------------------------------------------------------
\* Somebody edits the file.
Edit(r, doc) ==
    /\ doc # file[r] /\ file' = [file EXCEPT ![r] = doc]
    /\ UNCHANGED <<cfg, inForce, reported, cfgStored, overrideRaw, cfgReq, cfgWatch, ovVars>>

Goes(q, pc) == cfgReq' = [cfgReq EXCEPT ![q].pc = pc]

Request(q, r, kind, doc) ==
    /\ cfgReq[q].pc = "idle"
    /\ cfgReq' = [cfgReq EXCEPT ![q] =
           [kind |-> kind, rep |-> r, doc |-> doc,
            pc |-> CASE kind = "reload" -> IF r \in HasFile THEN "check" ELSE "done"
                     [] kind = "upload" -> "apply"
                     [] kind = "clear" -> "forget"]]
    /\ UNCHANGED <<file, cfg, inForce, reported, cfgStored, overrideRaw, cfgWatch, ovVars>>

\* Reload stops at a stored document; a Get that failed counts as none.
Check(q, err) ==
    /\ cfgReq[q].pc = "check"
    /\ Goes(q, IF ~err /\ cfgStored # None THEN "done" ELSE "load")
    /\ UNCHANGED <<file, cfg, inForce, reported, cfgStored, overrideRaw, cfgWatch, ovVars>>

LoadFile(q) ==
    /\ cfgReq[q].pc = "load"
    /\ cfgReq' = [cfgReq EXCEPT ![q] = [@ EXCEPT !.pc = "apply", !.doc = file[cfgReq[q].rep]]]
    /\ UNCHANGED <<file, cfg, inForce, reported, cfgStored, overrideRaw, cfgWatch, ovVars>>

RequestApply(q, failed) ==
    /\ cfgReq[q].pc = "apply"
    /\ Apply(cfgReq[q].rep, cfgReq[q].doc, failed)
    /\ Goes(q, IF cfgReq[q].kind = "upload" /\ cfgReq[q].doc \notin Invalid THEN "raw" ELSE "done")
    /\ UNCHANGED <<file, cfgStored, overrideRaw, cfgWatch>>

\* ApplyConfig records what it applied, then stores it.
RecordRaw(q) ==
    /\ cfgReq[q].pc = "raw"
    /\ overrideRaw' = [overrideRaw EXCEPT ![cfgReq[q].rep] = IF cfgReq[q].kind = "clear" THEN None ELSE cfgReq[q].doc]
    /\ Goes(q, IF cfgReq[q].kind = "upload" THEN "store"
               ELSE IF cfgReq[q].rep \in HasFile THEN "load" ELSE "done")
    /\ UNCHANGED <<file, cfg, inForce, reported, cfgStored, cfgWatch, ovVars>>

StoreDoc(q, err) ==
    /\ cfgReq[q].pc = "store"
    /\ \E w \in {cfgReq[q].doc} \cup (IF err THEN {cfgStored} ELSE {}) : cfgStored' = w
    /\ Goes(q, "done")
    /\ UNCHANGED <<file, cfg, inForce, reported, overrideRaw, cfgWatch, ovVars>>

\* ClearConfigOverride: a document that could not be deleted stays in force.
ForgetDoc(q, err) ==
    /\ cfgReq[q].pc = "forget"
    /\ \E w \in {None} \cup (IF err THEN {cfgStored} ELSE {}) : cfgStored' = w
    /\ Goes(q, IF err THEN "done" ELSE "raw")
    /\ UNCHANGED <<file, cfg, inForce, reported, overrideRaw, cfgWatch, ovVars>>

-----------------------------------------------------------------------------
WatcherIs(r, w) == cfgWatch' = [cfgWatch EXCEPT ![r] = w]

CfgIdle(w) == [w EXCEPT !.pc = "idle", !.got = None, !.doc = None]

\* A tick of the watcher: what is stored, if it is not what it saw last.
CfgList(r) ==
    LET w == cfgWatch[r]
    IN  /\ w.pc = "idle" /\ (w.first \/ cfgStored # w.last)
        /\ WatcherIs(r, [w EXCEPT !.pc = "listed", !.got = cfgStored, !.first = FALSE, !.last = cfgStored])
        /\ UNCHANGED <<file, cfg, inForce, reported, cfgStored, overrideRaw, cfgReq, ovVars>>

\* The stored document is new to r: apply it.
WatchNew(r) ==
    LET w == cfgWatch[r]
    IN  /\ w.pc = "listed" /\ w.got # None /\ w.got # overrideRaw[r]
        /\ WatcherIs(r, IF w.got \in Invalid THEN CfgIdle(w) ELSE [w EXCEPT !.pc = "apply", !.doc = w.got])
        /\ UNCHANGED <<file, cfg, inForce, reported, cfgStored, overrideRaw, cfgReq, ovVars>>

\* It is gone: back to the file.
WatchGone(r) ==
    LET w == cfgWatch[r]
    IN  /\ w.pc = "listed" /\ w.got = None /\ overrideRaw[r] # None
        /\ overrideRaw' = [overrideRaw EXCEPT ![r] = None]
        /\ WatcherIs(r, IF r \notin HasFile \/ file[r] \in Invalid THEN CfgIdle(w) ELSE [w EXCEPT !.pc = "apply", !.doc = file[r]])
        /\ UNCHANGED <<file, cfg, inForce, reported, cfgStored, cfgReq, ovVars>>

WatchNothing(r) ==
    LET w == cfgWatch[r]
    IN  /\ w.pc = "listed" /\ w.got = overrideRaw[r]
        /\ WatcherIs(r, CfgIdle(w))
        /\ UNCHANGED <<file, cfg, inForce, reported, cfgStored, overrideRaw, cfgReq, ovVars>>

WatchApplies(r, failed) ==
    LET w == cfgWatch[r]
    IN  /\ w.pc = "apply"
        /\ Apply(r, w.doc, failed)
        /\ WatcherIs(r, IF w.got # None THEN [w EXCEPT !.pc = "raw"] ELSE CfgIdle(w))
        /\ UNCHANGED <<file, cfgStored, overrideRaw, cfgReq>>

WatchRaw(r) ==
    LET w == cfgWatch[r]
    IN  /\ w.pc = "raw"
        /\ overrideRaw' = [overrideRaw EXCEPT ![r] = w.got]
        /\ WatcherIs(r, CfgIdle(w))
        /\ UNCHANGED <<file, cfg, inForce, reported, cfgStored, cfgReq, ovVars>>

-----------------------------------------------------------------------------
CfgNext ==
    \/ \E r \in CfgReplicas, doc \in Docs : Edit(r, doc)
    \/ \E q \in CfgReqs :
          \/ \E r \in CfgReplicas : Request(q, r, "reload", None) \/ Request(q, r, "clear", None)
          \/ \E r \in CfgReplicas, doc \in Docs : Request(q, r, "upload", doc)
          \/ LoadFile(q) \/ RecordRaw(q)
          \/ \E err \in BOOLEAN : Check(q, err) \/ StoreDoc(q, err) \/ ForgetDoc(q, err)
          \/ \E failed \in SUBSET {"flags", "domains"} : RequestApply(q, failed)
    \/ \E r \in CfgReplicas :
          \/ CfgList(r) \/ WatchNew(r) \/ WatchGone(r) \/ WatchNothing(r) \/ WatchRaw(r)
          \/ \E failed \in SUBSET {"flags", "domains"} : WatchApplies(r, failed)

\* The tuning overrides go on beside it.
ReloadNext == CfgNext \/ (OvNext /\ UNCHANGED cfgVars)

ReloadSpec == CfgInit /\ OvInit /\ [][ReloadNext]_reloadVars

-----------------------------------------------------------------------------
CfgTypeOK ==
    /\ file \in [CfgReplicas -> Docs] /\ cfg \in [CfgReplicas -> Docs]
    /\ DOMAIN inForce = CfgReplicas /\ reported \in [CfgReplicas -> SUBSET Sections]
    /\ cfgStored \in MaybeDoc /\ overrideRaw \in [CfgReplicas -> MaybeDoc]
    /\ cfgReq \in [CfgReqs -> CfgReqState] /\ cfgWatch \in [CfgReplicas -> CfgWatchState]

\* reload.go:62, Reload: however many reloads, uploads and clears a process has
\* been through, a section it does not run as its configuration says was named
\* to an operator in needs_restart or in a warning; and no document that would
\* not boot is ever its configuration.
NothingSilentlyDropped ==
    \A r \in CfgReplicas : /\ \A s \in Sections : inForce[r][s] # cfg[r][s] => s \in reported[r]
                          /\ cfg[r] \notin Invalid

\* reload.go:88: "An uploaded config in force is not undone by re-reading the
\* file".
UploadNotUndone ==
    [][\A q \in CfgReqs, failed \in SUBSET {"flags", "domains"} :
          RequestApply(q, failed) /\ cfgReq[q].kind = "reload" => cfgStored = None \/ cfg' = cfg]_reloadVars

\* reload.go:74: an operator's runtime override "still wins over the reloaded
\* base".
OverrideWins ==
    [][\A r \in CfgReplicas : tuned[r][Pulled] # None /\ cfg'[r] # cfg[r] => pulled'[r] = pulled[r]]_reloadVars
=============================================================================
