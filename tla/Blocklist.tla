------------------------------ MODULE Blocklist ------------------------------
(***************************************************************************)
(* The operator ban on domains, blocklist/store.go: every replica holds    *)
(* the config file's bans and the bans set through the admin API, and      *)
(* hands their union to the protocol, which may refuse it whole.  An admin *)
(* request changes this replica, then the backend; a poll replaces the     *)
(* admin bans with the backend's.                                          *)
(*                                                                         *)
(* A step is one critical section of Manager.mu or one backend call.  A    *)
(* ban is a request, or one the backend already holds.                     *)
(***************************************************************************)
EXTENDS Sage

CONSTANTS
    BlReplicas,     \* instances sharing the backend
    BlDomains,      \* domains
    BlReqs,         \* admin requests, each made at most once
    Found,          \* bans the backend may hold from before
    Refused,        \* the bans the protocol's compiler refuses
    FileBans        \* what a config file may ban: sets of domains

VARIABLES
    blBase,         \* blBase[r]: the config file's bans
    blEntries,      \* blEntries[r][d]: the admin ban on d, or None
    blApplied,      \* blApplied[r]: what the protocol holds: file bans and admin bans
    blBackend,      \* blBackend[d]: the ban the backend holds, or None
    blReq,          \* blReq[q]: one admin request
    blPoll,         \* blPoll[r]: what a poll loaded, or None between polls
    blFailed        \* bans whose Save failed (history)

blVars == <<blBase, blEntries, blApplied, blBackend, blReq, blPoll, blFailed>>

-----------------------------------------------------------------------------
Bans == BlReqs \cup Found

NoBans == [d \in BlDomains |-> None]

BlReqState == [pc : {"idle", "save", "delete", "done"}, rep : BlReplicas \cup {None},
               dom : BlDomains \cup {None}]

\* applyLocked: the config's bans and the admin bans, in one list.
Union(base, entries) == [file |-> base, admin |-> entries]

\* SetBlockedDomains of the protocol compiles the whole list or nothing.
Compiles(entries) == \A d \in BlDomains : entries[d] \notin Refused

BlInit ==
    /\ blBase \in [BlReplicas -> FileBans]
    /\ blEntries = [r \in BlReplicas |-> NoBans]
    /\ blApplied = [r \in BlReplicas |-> Union(blBase[r], NoBans)]
    /\ blBackend \in [BlDomains -> Found \cup {None}]
    /\ blReq = [q \in BlReqs |-> [pc |-> "idle", rep |-> None, dom |-> None]]
    /\ blPoll = [r \in BlReplicas |-> None]
    /\ blFailed = {}

\* Mutant: the bans in memory are not rolled back when the union is refused.
HeldAnyway(entries, old) == entries

\* The entries kept once the protocol has answered: the new ones, or the old.
Held(entries, old) == IF Compiles(entries) THEN entries ELSE old

\* The bans r holds and the union the protocol has, once it was handed new ones.
Applies(r, base, entries) ==
    /\ blEntries' = [blEntries EXCEPT ![r] = Held(entries, blEntries[r])]
    /\ blBase' = [blBase EXCEPT ![r] = IF Compiles(entries) THEN base ELSE @]
    /\ blApplied' = [blApplied EXCEPT ![r] = IF Compiles(entries) THEN Union(base, entries) ELSE @]

\* Set: a ban the protocol refuses is not stored.
Ban(q, r, d) ==
    LET next == [blEntries[r] EXCEPT ![d] = q]
    IN  /\ blReq[q].pc = "idle"
        /\ Applies(r, blBase[r], next)
        /\ blReq' = [blReq EXCEPT ![q] = [pc |-> IF Compiles(next) THEN "save" ELSE "done",
                                          rep |-> r, dom |-> d]]
        /\ UNCHANGED <<blBackend, blPoll, blFailed>>

\* Release of a ban this replica knows; of any other it is ErrNotFound.
Unban(q, r, d) ==
    LET next == [blEntries[r] EXCEPT ![d] = None]
    IN  /\ blReq[q].pc = "idle" /\ blEntries[r][d] # None
        /\ Applies(r, blBase[r], next)
        /\ blReq' = [blReq EXCEPT ![q] = [pc |-> IF Compiles(next) THEN "delete" ELSE "done",
                                          rep |-> r, dom |-> d]]
        /\ UNCHANGED <<blBackend, blPoll, blFailed>>

\* Save and Delete: a call that failed may have been applied.
BlBackendWrite(q, err) ==
    LET d == blReq[q].dom
        v == IF blReq[q].pc = "save" THEN q ELSE None
    IN  /\ blReq[q].pc \in {"save", "delete"}
        /\ \E w \in {v} \cup (IF err THEN {blBackend[d]} ELSE {}) : blBackend' = [blBackend EXCEPT ![d] = w]
        /\ blFailed' = IF err /\ v = q THEN blFailed \cup {q} ELSE blFailed
        /\ blReq' = [blReq EXCEPT ![q].pc = "done"]
        /\ UNCHANGED <<blBase, blEntries, blApplied, blPoll>>

\* SetBlockedDomains: a reload replaces the config's bans.
SetBase(r, base) ==
    /\ Applies(r, base, blEntries[r])
    /\ UNCHANGED <<blBackend, blReq, blPoll, blFailed>>

\* reload: Load; a failed Load changes nothing.
BlLoad(r) ==
    /\ blPoll[r] = None
    /\ blPoll' = [blPoll EXCEPT ![r] = blBackend]
    /\ UNCHANGED <<blBase, blEntries, blApplied, blBackend, blReq, blFailed>>

\* reload: what was loaded replaces the admin bans, unless the protocol refuses.
BlReload(r) ==
    /\ blPoll[r] # None
    /\ IF blPoll[r] = blEntries[r] THEN UNCHANGED <<blBase, blEntries, blApplied>>
       ELSE Applies(r, blBase[r], blPoll[r])
    /\ blPoll' = [blPoll EXCEPT ![r] = None]
    /\ UNCHANGED <<blBackend, blReq, blFailed>>

BlNext ==
    \/ \E q \in BlReqs : \/ \E r \in BlReplicas, d \in BlDomains : Ban(q, r, d) \/ Unban(q, r, d)
                         \/ \E err \in BOOLEAN : BlBackendWrite(q, err)
    \/ \E r \in BlReplicas : \/ \E base \in FileBans : SetBase(r, base)
                             \/ BlLoad(r) \/ BlReload(r)

BlSpec == BlInit /\ [][BlNext]_blVars

-----------------------------------------------------------------------------
BlTypeOK ==
    /\ blBase \in [BlReplicas -> FileBans]
    /\ blEntries \in [BlReplicas -> [BlDomains -> Bans \cup {None}]]
    /\ blApplied \in [BlReplicas -> [file : FileBans, admin : [BlDomains -> Bans \cup {None}]]]
    /\ blBackend \in [BlDomains -> Bans \cup {None}]
    /\ blReq \in [BlReqs -> BlReqState]
    /\ blPoll \in [BlReplicas -> [BlDomains -> Bans \cup {None}] \cup {None}]
    /\ blFailed \subseteq BlReqs

\* store.go:114, :130, :164, :214: what the protocol refuses relays to is at all
\* times the union of the config's bans and of the admin bans this replica
\* lists, although the protocol may refuse a union whichever of a request, a
\* reload of the file and a poll handed it over; and it never holds a ban its
\* compiler refuses.
AppliedIsUnion ==
    \A r \in BlReplicas : /\ blApplied[r] = Union(blBase[r], blEntries[r])
                          /\ Compiles(blEntries[r])

\* store.go:30, ErrPropagation: "The local change stands" when the backend could
\* not be told.
LocalChangeStands ==
    [][\A r \in BlReplicas, d \in BlDomains :
          BlReload(r) /\ blEntries[r][d] \in blFailed => blEntries'[r][d] = blEntries[r][d]]_blVars

\* store.go:96, Start: once nobody asks for anything, what the backend holds is
\* what every replica refuses, if it is a list the protocol accepts.
BansSettled ==
    (\A q \in BlReqs : blReq[q].pc \in {"idle", "done"}) /\ Compiles(blBackend) =>
        \A r \in BlReplicas : blApplied[r].admin = blBackend
=============================================================================
