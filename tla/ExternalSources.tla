--------------------------- MODULE ExternalSources ---------------------------
(***************************************************************************)
(* The sources outside the network a service's head is held against, and   *)
(* the checks it is probed with, as an operator replaces them on a running *)
(* pod: healthcheck/external_manager.go, external.go, check_overrides.go.  *)
(* Both persist to the override store, then apply; a watcher brings the    *)
(* changes of other pods.  One service; a list of sources, or a block of   *)
(* checks, is one value.                                                   *)
(***************************************************************************)
EXTENDS Integers, Sequences, FiniteSets, SequencesExt, Sage

CONSTANTS
    Lists,          \* lists of sources; blocks of checks
    EmptyList,      \* the list of no sources
    FileList,       \* FileList[k]: what the config file says; None is nothing
    QueueLen,       \* capacity of a fetcher's channel
    XReqs,          \* admin requests to this pod, each made at most once
    Elsewhere       \* admin requests to another pod

XKinds == {"sources", "checks"}

VARIABLES
    xStored,        \* xStored[k]: the override in the store, or None
    admin,          \* admin[k]: the override in force on this pod, or None
    base,           \* base[k]: what this pod's config says
    xReq,           \* xReq[q]: an admin request on this pod
    listed,         \* listed[k]: the listing the watcher applied last
    listing,        \* listing[k]: a listing read, not compared yet; <<>> is none
    fetchers,       \* the fetchers not done: live or stopped, with a poll under way or not
    xFloor,         \* the list the external floor came from, or None
    inForce         \* the block of checks the executor runs

xsVars == <<xStored, admin, base, xReq, listed, listing, fetchers, xFloor, inForce>>

Effective(k) == IF admin[k] # None THEN admin[k] ELSE base[k]

Fetcher(l) == [list |-> l, live |-> TRUE, polling |-> FALSE, queue |-> <<>>]
Running(fs) == SelectSeq(fs, LAMBDA f : f.live \/ f.polling \/ f.queue # <<>>)

\* Start: a fetcher for the file's sources.
XsInit ==
    /\ xStored = [k \in XKinds |-> None] /\ admin = [k \in XKinds |-> None]
    /\ base = FileList
    /\ xReq = [q \in XReqs \cup Elsewhere |-> [pc |-> "idle", kind |-> "sources", val |-> None]]
    /\ listed = [k \in XKinds |-> <<>>] /\ listing = [k \in XKinds |-> <<>>]
    /\ fetchers = IF FileList["sources"] \in {None, EmptyList} THEN <<>> ELSE <<Fetcher(FileList["sources"])>>
    /\ xFloor = None /\ inForce = FileList["checks"]

-----------------------------------------------------------------------------
\* Mutant: the fetcher of the replaced list goes on.
RestartedBeside(l) == IF l \in {None, EmptyList} THEN fetchers ELSE Append(fetchers, Fetcher(l))

\* restartLocked and stopLocked: cancel the fetcher, start one if there is anything to poll.
RestartedWith(l) ==
    LET stopped == Running([i \in DOMAIN fetchers |-> [fetchers[i] EXCEPT !.live = FALSE]])
    IN  IF l \in {None, EmptyList} THEN stopped ELSE Append(stopped, Fetcher(l))

\* applyOverrideLocked, clearOverrideLocked; applyLocked.
Applies(k, v) ==
    LET l == IF v # None THEN v ELSE base[k]
    IN  /\ admin' = [admin EXCEPT ![k] = v]
        /\ IF k = "sources" THEN fetchers' = RestartedWith(l) /\ UNCHANGED inForce
                            ELSE inForce' = l /\ UNCHANGED fetchers

\* Set of a list, or Remove (None): persisted first.  A Set not persisted is not
\* applied; a Remove is.
AdminBegin(q, k, v) ==
    /\ xReq[q].pc = "idle"
    /\ xReq' = [xReq EXCEPT ![q] = [pc |-> "store", kind |-> k, val |-> v]]
    /\ UNCHANGED <<xStored, admin, base, listed, listing, fetchers, xFloor, inForce>>

AdminStore(q, err) ==
    /\ xReq[q].pc = "store"
    /\ xStored' = IF err THEN xStored ELSE [xStored EXCEPT ![xReq[q].kind] = xReq[q].val]
    /\ xReq' = [xReq EXCEPT ![q].pc = IF err /\ xReq[q].val # None THEN "done" ELSE "local"]
    /\ UNCHANGED <<admin, base, listed, listing, fetchers, xFloor, inForce>>

AdminLocal(q) ==
    LET k == xReq[q].kind
        v == xReq[q].val
    IN  /\ xReq[q].pc = "local"
        /\ xReq' = [xReq EXCEPT ![q].pc = "done"]
        /\ IF v = None /\ admin[k] = None THEN UNCHANGED <<admin, fetchers, inForce>> ELSE Applies(k, v)
        /\ UNCHANGED <<xStored, base, listed, listing, xFloor>>

\* Another pod persists a change.
OtherPod(q, k, v) ==
    /\ xReq[q].pc = "idle" /\ xReq' = [xReq EXCEPT ![q].pc = "done"]
    /\ xStored' = [xStored EXCEPT ![k] = v]
    /\ UNCHANGED <<admin, base, listed, listing, fetchers, xFloor, inForce>>

\* Watch: list, and apply what differs from the last listing applied.
WatchList(k) ==
    /\ listing[k] = <<>> /\ listing' = [listing EXCEPT ![k] = <<xStored[k]>>]
    /\ UNCHANGED <<xStored, admin, base, xReq, listed, fetchers, xFloor, inForce>>

ApplyPersisted(k) ==
    /\ listing[k] # <<>> /\ listing' = [listing EXCEPT ![k] = <<>>]
    /\ listed' = [listed EXCEPT ![k] = listing[k]]
    /\ IF listing[k] = listed[k] \/ listing[k][1] = admin[k] THEN UNCHANGED <<admin, fetchers, inForce>>
       ELSE Applies(k, listing[k][1])
    /\ UNCHANGED <<xStored, base, xReq, xFloor>>

\* SetBase on a reload: the file's checks change, an admin block stays on top.
SetBase(v) ==
    /\ base["checks"] # v /\ base' = [base EXCEPT !["checks"] = v]
    /\ inForce' = IF admin["checks"] # None THEN admin["checks"] ELSE v
    /\ UNCHANGED <<xStored, admin, xReq, listed, listing, fetchers, xFloor>>

-----------------------------------------------------------------------------
\* emit: a poll of the list's sources.
PollBegins(i) ==
    /\ fetchers[i].live /\ ~fetchers[i].polling
    /\ fetchers' = [fetchers EXCEPT ![i].polling = TRUE]
    /\ UNCHANGED <<xStored, admin, base, xReq, listed, listing, xFloor, inForce>>

\* It ends with a height, also once the fetcher is stopped, or with none; a full
\* channel drops it.
PollEnds(i, ok) ==
    /\ fetchers[i].polling
    /\ fetchers' = Running([fetchers EXCEPT ![i].polling = FALSE,
                              ![i].queue = IF ok /\ Len(@) < QueueLen THEN Append(@, fetchers[i].list) ELSE @])
    /\ UNCHANGED <<xStored, admin, base, xReq, listed, listing, xFloor, inForce>>

\* The loop that hands heights to SetExternalFloor empties its channel.
FloorLoop(i) ==
    /\ fetchers[i].queue # <<>>
    /\ xFloor' = Head(fetchers[i].queue)
    /\ fetchers' = Running([fetchers EXCEPT ![i].queue = Tail(@)])
    /\ UNCHANGED <<xStored, admin, base, xReq, listed, listing, inForce>>

XsNext(k) ==
    \/ \E q \in XReqs : \/ \E v \in Lists \cup {None} : AdminBegin(q, k, v)
                        \/ \E err \in BOOLEAN : AdminStore(q, err)
                        \/ AdminLocal(q)
    \/ \E q \in Elsewhere, v \in Lists \cup {None} : OtherPod(q, k, v)
    \/ WatchList(k) \/ ApplyPersisted(k)
    \/ k = "checks" /\ \E v \in Lists : SetBase(v)
    \/ \E i \in DOMAIN fetchers : \/ k = "sources" /\ (PollBegins(i) \/ FloorLoop(i))
                                  \/ \E ok \in BOOLEAN : k = "sources" /\ PollEnds(i, ok)

-----------------------------------------------------------------------------
XsTypeOK ==
    /\ \A k \in XKinds : /\ {xStored[k], admin[k]} \subseteq Lists \cup {None}
                         /\ base[k] \in Lists \cup {None, FileList[k]}
    /\ \A i \in DOMAIN fetchers : /\ fetchers[i].list \in (Lists \cup {FileList["sources"]}) \ {EmptyList}
                                  /\ {fetchers[i].live, fetchers[i].polling} \subseteq BOOLEAN

\* healthcheck/external_manager.go:316, restartLocked: two admin requests and a watcher
\* never leave two fetchers polling, and the one that polls has the sources in force;
\* check_overrides.go:274, applyLocked: nor a reload checks other than those in force.
OneFetcher ==
    /\ \A i \in DOMAIN fetchers : fetchers[i].live => fetchers[i].list = Effective("sources")
    /\ Cardinality({i \in DOMAIN fetchers : fetchers[i].live}) <= 1
    /\ Effective("sources") \notin {None, EmptyList} => \E i \in DOMAIN fetchers : fetchers[i].live
    /\ inForce = Effective("checks")

\* healthcheck/external_manager.go:316, restartLocked: once changes stop, the floor is the
\* height of the sources in force, whatever a stopped fetcher had still to deliver.
FloorSettles == Effective("sources") \notin {None, EmptyList} => xFloor = Effective("sources")
=============================================================================
