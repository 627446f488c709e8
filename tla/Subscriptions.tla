----------------------------- MODULE Subscriptions -----------------------------
(***************************************************************************)
(* The subscription registry of one WebSocket connection                   *)
(* (qos/subscription.go) between a client and the suppliers it is moved    *)
(* across (the endpoint-lost handler of protocol/shannon/ws_relayer.go,    *)
(* rebind of websockets/bridge.go).                                        *)
(*                                                                         *)
(* The client keeps the subscription ids its first supplier assigned.  A   *)
(* rebind empties the registry's account of what was in flight into frames *)
(* for the next supplier; they are sent one by one while the client goes   *)
(* on sending and the new supplier goes on answering.  A frame of a        *)
(* supplier that was replaced is ignored by the bridge, so replacing one   *)
(* loses everything it owed.                                               *)
(***************************************************************************)
EXTENDS Sage, Naturals, Sequences, SequencesExt, FiniteSets, Functions

CONSTANTS
    Subs,           \* the subscribes the client makes
    ReqIdOf,        \* the request id of each: a client may reuse one
    Reqs,           \* its other requests, each with an id of its own
    Writes,         \* those of IsWriteMethod
    Batched,        \* those sent in a batch: not tracked in flight
    Deniable,       \* subscribes to a feed a flag may deny
    Ids,            \* the subscription ids suppliers assign, when they are
                    \* not unique across suppliers; {} when they are
    MaxTracked,     \* maxTrackedSubscriptions
    MaxInflight,    \* maxInflightRequests
    Scenes,         \* bounds: what the client sends, whether it unsubscribes
                    \* from all, which subscribes suppliers may refuse, how
                    \* often the supplier is replaced
    MaxOut,         \* bound: frames under way when a notification is pushed
    WritesFail      \* whether a replay write may find the new socket dead

ASSUME SubsAssumption ==
    /\ Writes \subseteq Reqs /\ Batched \subseteq Reqs /\ Deniable \subseteq Subs
    /\ Scenes \subseteq [uses : SUBSET (Subs \cup Reqs), all : BOOLEAN, refuses : SUBSET Subs, moves : Nat]
    /\ MaxTracked \in Nat /\ MaxInflight \in Nat /\ WritesFail \in BOOLEAN

VARIABLES
    scene,     \* which of the Scenes it is
    cut,       \* a replay was cut short: its socket is "dead", or "replaced"; None before
    sent,      \* what the client has sent
    held,      \* held[c]: the subscription it was told has id c
    quit,      \* subscribes it has asked to end
    given,     \* given[x]: the answers it received to x
    pending,   \* subscribes awaiting their response, oldest first
    active,    \* active[c]: [ep: the supplier's id, sub: the request]
    toClient,  \* supplier's id -> client's, where they differ
    replayIds, \* replay request id -> the client's subscription id
    replays,   \* replay ids used so far
    orphaned,  \* ids of replays acked after the client unsubscribed
    closed,    \* supplier ids unsubscribed recently
    inflight,  \* requests in flight, oldest first
    reissue,   \* requests a supplier refused, for the next replay
    dropped,   \* whether a subscribe went untracked
    toSend,    \* the frames of a rebind not sent yet
    owed,      \* frames the supplier has not answered
    out,       \* frames it sent that the bridge has not routed
    has,       \* has[id]: the subscription it pushes under id
    nextId,    \* the id it assigns next, where ids are unique
    moves,     \* suppliers replaced so far
    refused,   \* subscribes some supplier refused
    denied,    \* feeds whose flag is on
    over,      \* the connection was closed
    acted,     \* requests an earlier supplier may have acted on
    misgraded  \* an honest supplier's notification was graded unsolicited

subscriptionVars ==
    <<scene, sent, held, quit, given, pending, active, toClient, replayIds, replays, orphaned, closed, inflight,
      reissue, dropped, toSend, owed, out, has, nextId, moves, refused, denied, over, acted, misgraded, cut>>

clientVars == <<sent, held, quit, given>>
registryVars == <<pending, active, toClient, replayIds, replays, orphaned, closed, inflight, reissue, dropped>>
supplierVars == <<owed, out, has, nextId, refused>>
moveVars == <<toSend, moves, denied, over, acted>>

Without(f, x) == Restrict(f, DOMAIN f \ {x})
With(f, x, v) == [y \in DOMAIN f \cup {x} |-> IF y = x THEN v ELSE f[y]]
Empty == [x \in {} |-> None]

Subscribe(q, s) == [k |-> "subscribe", q |-> q, s |-> s]
Unsubscribe(id) == [k |-> "unsubscribe", id |-> id]
UnsubscribeAll == [k |-> "unsubscribe_all"]
Request(r) == [k |-> "request", r |-> r]

\* NewSubscriptionRegistry, on a connection just opened.
SubsInit ==
    /\ scene \in Scenes /\ cut = None
    /\ sent = {} /\ held = Empty /\ quit = {} /\ given = [x \in Subs \cup Reqs |-> 0]
    /\ pending = <<>> /\ active = Empty /\ toClient = Empty
    /\ replayIds = Empty /\ replays = 0 /\ orphaned = {} /\ closed = {}
    /\ inflight = <<>> /\ reissue = <<>> /\ dropped = FALSE
    /\ toSend = <<>> /\ owed = <<>> /\ out = <<>> /\ has = Empty /\ nextId = 1
    /\ moves = 0 /\ refused = {} /\ denied = {} /\ over = FALSE /\ acted = {} /\ misgraded = FALSE

Answer(x) == given' = [given EXCEPT ![x] = @ + 1]

-----------------------------------------------------------------------------
(* TranslateClientFrame, as a client's frame and a replayed one pass it.   *)

\* A subscribe: a replay's is matched by its own table, any other waits in
\* pending, forwarded untracked when that is full.
TrackSubscribe(f) ==
    IF f.q \in DOMAIN replayIds \/ Len(pending) >= MaxTracked
    THEN /\ UNCHANGED pending
         /\ dropped' = (dropped \/ f.q \notin DOMAIN replayIds)
    ELSE pending' = Append(pending, f.s) /\ UNCHANGED dropped

\* track: a request outside a batch is remembered, under the cap.
Track(r) ==
    inflight' = IF r \in Batched \/ Len(inflight) >= MaxInflight THEN inflight ELSE Append(inflight, r)

\* The frame on its way to the supplier.
ToSupplier(f) == owed' = Append(owed, f)

\* forget.
Forget(c) ==
    /\ active' = Without(active, c)
    /\ closed' = closed \cup {active[c].ep}
    /\ toClient' = IF active[c].ep # c THEN Without(toClient, active[c].ep) ELSE toClient

-----------------------------------------------------------------------------
(* The client.                                                             *)

\* A subscribe: one to a denied feed is answered by the gateway, any other
\* goes to the supplier.
ClientSubscribes(s) ==
    /\ ~over /\ s \in (Subs \cap scene.uses) \ sent /\ sent' = sent \cup {s}
    /\ \/ s \in denied /\ Answer(s) /\ quit' = quit \cup {s}
          /\ UNCHANGED <<held, registryVars, supplierVars, moveVars, misgraded>>
       \/ s \notin denied /\ TrackSubscribe(Subscribe(ReqIdOf[s], s)) /\ ToSupplier(Subscribe(ReqIdOf[s], s))
          /\ UNCHANGED <<held, quit, given, active, toClient, replayIds, replays, orphaned, closed, inflight,
                         reissue, out, has, nextId, refused, moveVars, misgraded>>

\* An unsubscribe, rewritten to the id the current supplier knows.
ClientUnsubscribes(c) ==
    /\ ~over /\ c \in DOMAIN held
    /\ held' = Without(held, c) /\ quit' = quit \cup {held[c]}
    /\ IF c \in DOMAIN active
       THEN Forget(c) /\ ToSupplier(Unsubscribe(active[c].ep))
       ELSE UNCHANGED <<active, closed, toClient>> /\ ToSupplier(Unsubscribe(c))
    /\ UNCHANGED <<sent, given, pending, replayIds, replays, orphaned, inflight, reissue, dropped,
                   out, has, nextId, refused, moveVars, misgraded>>

ClientUnsubscribesAll ==
    /\ ~over /\ scene.all /\ held # Empty
    /\ held' = Empty /\ quit' = quit \cup (sent \cap Subs)
    /\ closed' = closed \cup {active[c].ep : c \in DOMAIN active}
    /\ active' = Empty /\ toClient' = Empty
    /\ ToSupplier(UnsubscribeAll)
    /\ UNCHANGED <<sent, given, pending, replayIds, replays, orphaned, inflight, reissue, dropped,
                   out, has, nextId, refused, moveVars, misgraded>>

ClientRequests(r) ==
    /\ ~over /\ r \in (Reqs \cap scene.uses) \ sent /\ sent' = sent \cup {r}
    /\ Track(r) /\ ToSupplier(Request(r))
    /\ UNCHANGED <<held, quit, given, pending, active, toClient, replayIds, replays, orphaned, closed, reissue,
                   dropped, out, has, nextId, refused, moveVars, misgraded>>

-----------------------------------------------------------------------------
(* The supplier.  It answers requests of different ids in any order and    *)
(* pushes only what it was subscribed to.                                  *)

\* The i-th frame may be acted on: nothing before it clears the table, and
\* nothing before it waits under the same request id.
Ready(i) ==
    /\ owed[i].k \in {"unsubscribe", "unsubscribe_all"} => i = 1
    /\ \A j \in 1..(i - 1) :
          /\ owed[j].k # "unsubscribe_all"
          /\ owed[i].k = "subscribe" /\ owed[j].k = "subscribe" => owed[j].q # owed[i].q

\* The ids the supplier may assign.
FreshIds == IF Ids = {} THEN {nextId} ELSE Ids \ DOMAIN has

SupplierActs(i) ==
    LET f == owed[i] IN
    /\ ~over /\ Ready(i) /\ owed' = RemoveAt(owed, i)
    /\ \/ f.k = "subscribe"
          /\ \E id \in FreshIds :
                out' = Append(out, [k |-> "ack", q |-> f.q, id |-> id]) /\ has' = With(has, id, f.s)
          /\ nextId' = nextId + 1 /\ UNCHANGED refused
       \/ f.k = "subscribe" /\ f.s \in scene.refuses
          /\ out' = Append(out, [k |-> "ack", q |-> f.q, id |-> None])
          /\ refused' = refused \cup {f.s} /\ UNCHANGED <<has, nextId>>
       \/ f.k = "unsubscribe" /\ has' = Without(has, f.id) /\ UNCHANGED <<out, nextId, refused>>
       \/ f.k = "unsubscribe_all" /\ has' = Empty /\ UNCHANGED <<out, nextId, refused>>
       \/ f.k = "request"
          /\ \E ok \in BOOLEAN : out' = Append(out, [k |-> "answer", r |-> f.r, ok |-> ok])
          /\ UNCHANGED <<has, nextId, refused>>
    /\ UNCHANGED <<clientVars, registryVars, moveVars, misgraded>>

SupplierPushes(id) ==
    /\ ~over /\ id \in DOMAIN has /\ Len(out) < MaxOut
    /\ out' = Append(out, [k |-> "note", id |-> id, s |-> has[id]])
    /\ UNCHANGED <<clientVars, registryVars, owed, has, nextId, refused, moveVars, misgraded>>

-----------------------------------------------------------------------------
(* TranslateEndpointFrame, of the oldest frame.                            *)

\* toClient once subscription c, which the supplier knew by was, is id.
Renamed(was, id, c) ==
    LET rest == IF was # c THEN Without(toClient, was) ELSE toClient
    IN IF id # c THEN With(rest, id, c) ELSE rest

\* completeReplay: the client's subscription c has a new id, was refused, or
\* is gone and its data with it.
CompleteReplay(c, id) ==
    \/ c \notin DOMAIN active
       /\ orphaned' = orphaned \cup ({id} \ {None})
       /\ UNCHANGED <<active, toClient, closed>>
    \/ c \in DOMAIN active /\ id = None /\ Forget(c) /\ UNCHANGED orphaned
    \/ c \in DOMAIN active /\ id # None
       /\ active' = [active EXCEPT ![c].ep = id]
       /\ toClient' = Renamed(active[c].ep, id, c)
       /\ UNCHANGED <<orphaned, closed>>

\* A replay's ack is consumed: the client already had one.
ReplayAcked ==
    LET f == Head(out) IN
    /\ ~over /\ out # <<>> /\ f.k = "ack" /\ f.q \in DOMAIN replayIds
    /\ out' = Tail(out) /\ replayIds' = Without(replayIds, f.q)
    /\ CompleteReplay(replayIds[f.q], f.id)
    /\ UNCHANGED <<clientVars, pending, replays, inflight, reissue, dropped, owed, has, nextId, refused,
                   moveVars, misgraded>>

\* Mutant: the newest subscribe under the id is the one answered.
AckedNewest(q) ==
    IF \E i \in DOMAIN pending : ReqIdOf[pending[i]] = q
    THEN SelectLastInSeq(pending, LAMBDA s : ReqIdOf[s] = q) ELSE 0

\* The oldest subscribe waiting under the request id, 0 for none.
Acked(q) ==
    IF \E i \in DOMAIN pending : ReqIdOf[pending[i]] = q
    THEN SelectInSeq(pending, LAMBDA s : ReqIdOf[s] = q) ELSE 0

\* The client's own subscribe is answered: tracked when it succeeded.
SubscribeAcked ==
    LET f == Head(out)
        i == Acked(f.q)
        ok == i # 0 /\ f.id # None
        full == Cardinality(DOMAIN active) >= MaxTracked
        told == CHOOSE s \in Subs : ReqIdOf[s] = f.q /\ (f.id # None => has[f.id] = s \/ s \in quit)
    IN
    /\ ~over /\ out # <<>> /\ f.k = "ack" /\ f.q \notin DOMAIN replayIds
    /\ out' = Tail(out)
    /\ pending' = IF i = 0 THEN pending ELSE RemoveAt(pending, i)
    /\ active' = IF ok /\ ~full THEN With(active, f.id, [ep |-> f.id, sub |-> pending[i]]) ELSE active
    /\ closed' = IF ok /\ ~full THEN closed \ {f.id} ELSE closed
    /\ dropped' = (dropped \/ (ok /\ full))
    /\ Answer(IF i = 0 THEN told ELSE pending[i])
    /\ held' = IF f.id = None THEN held ELSE With(held, f.id, IF i = 0 THEN told ELSE pending[i])
    /\ UNCHANGED <<sent, quit, toClient, replayIds, replays, orphaned, inflight, reissue, owed, has, nextId,
                   refused, moveVars, misgraded>>

\* Where a notification under the supplier's id goes, and its grade.
Route(id) ==
    IF id \in DOMAIN toClient THEN [to |-> toClient[id], grade |-> "ok"]
    ELSE IF id \in DOMAIN active /\ active[id].ep = id THEN [to |-> id, grade |-> "ok"]
    ELSE IF id \in orphaned THEN [to |-> None, grade |-> "none"]
    ELSE IF id \in closed \/ dropped THEN [to |-> id, grade |-> "none"]
    ELSE [to |-> id, grade |-> "unsolicited"]

NoteRouted ==
    /\ ~over /\ out # <<>> /\ Head(out).k = "note" /\ out' = Tail(out)
    /\ misgraded' = (misgraded \/ Route(Head(out).id).grade = "unsolicited")
    /\ UNCHANGED <<clientVars, registryVars, owed, has, nextId, refused, moveVars>>

\* reissue: a refusal of a request in flight, while a rebind is left, goes
\* to the next supplier instead of to the client.
Reissued(r, ok) == ~ok /\ Contains(inflight, r) /\ moves < scene.moves

\* An answer: to the client, or dropped with the request taken for the next
\* supplier and the rebind that errReissue starts.
RequestAnswered ==
    LET f == Head(out) IN
    /\ ~over /\ out # <<>> /\ f.k = "answer" /\ out' = Tail(out)
    /\ inflight' = SelectSeq(inflight, LAMBDA r : r # f.r)
    /\ IF Reissued(f.r, f.ok) THEN reissue' = Append(reissue, f.r) /\ UNCHANGED given
       ELSE Answer(f.r) /\ UNCHANGED reissue
    /\ UNCHANGED <<sent, held, quit, pending, active, toClient, replayIds, replays, orphaned, closed, dropped,
                   owed, has, nextId, refused, moveVars, misgraded>>

-----------------------------------------------------------------------------
(* The rebind.                                                             *)

\* holdsDeniedSubscription, of what Subscribes lists.
HoldsDenied ==
    \/ \E c \in DOMAIN active : active[c].sub \in denied
    \/ \E i \in DOMAIN pending : pending[i] \in denied

\* Mutant: a write is sent again with the rest.
AgainAll == inflight

\* The requests in flight that may be asked twice.
Again == SelectSeq(inflight, LAMBDA r : r \notin Writes)

\* Replay: each live subscription under a fresh id, the subscribes not
\* answered, the requests reissued and those in flight; a write is answered
\* with an error instead.  The live ones come in any order.
Rebind ==
    /\ ~over /\ moves < scene.moves /\ toSend = <<>> /\ ~HoldsDenied
    /\ moves' = moves + 1
    /\ \E live \in SetToSeqs(DOMAIN active) :
          /\ replays' = replays + Len(live)
          /\ replayIds' = [q \in DOMAIN replayIds \cup (replays + 1)..(replays + Len(live)) |->
                              IF q > replays THEN live[q - replays] ELSE replayIds[q]]
          /\ toSend' = [i \in 1..Len(live) |-> Subscribe(replays + i, active[live[i]].sub)]
                       \o [i \in 1..Len(pending) |-> Subscribe(ReqIdOf[pending[i]], pending[i])]
                       \o [i \in 1..Len(reissue) |-> Request(reissue[i])]
                       \o [i \in 1..Len(Again) |-> Request(Again[i])]
    /\ given' = [x \in DOMAIN given |->
                    IF Contains(inflight, x) /\ ~Contains(Again, x) THEN given[x] + 1 ELSE given[x]]
    /\ pending' = <<>> /\ inflight' = <<>> /\ reissue' = <<>>
    /\ owed' = <<>> /\ out' = <<>> /\ has' = Empty
    /\ acted' = acted \cup {f.r : f \in {g \in Range(owed) : g.k = "request"}}
                     \cup {f.r : f \in {g \in Range(out) : g.k = "answer" /\ g.ok}}
    /\ UNCHANGED <<sent, held, quit, active, toClient, orphaned, closed, dropped, nextId, refused, denied, over,
                   misgraded>>

\* A denied subscription, or no supplier to move to: the client is closed.
RebindRefused ==
    /\ ~over /\ toSend = <<>> /\ (HoldsDenied \/ moves = scene.moves) /\ over' = TRUE
    /\ UNCHANGED <<clientVars, registryVars, supplierVars, toSend, moves, denied, acted, misgraded>>

\* The next frame of a replay, tracked as a client's is and written.
ReplaySends ==
    LET f == Head(toSend) IN
    /\ ~over /\ toSend # <<>> /\ toSend' = Tail(toSend) /\ ToSupplier(f)
    /\ \/ f.k = "subscribe" /\ TrackSubscribe(f) /\ UNCHANGED inflight
       \/ f.k = "request" /\ Track(f.r) /\ UNCHANGED <<pending, dropped>>
    /\ UNCHANGED <<clientVars, active, toClient, replayIds, replays, orphaned, closed, reissue, out, has, nextId,
                   refused, moves, denied, over, acted, misgraded>>

\* The write finds the new socket dead: the frame was tracked, the frames
\* after it are not sent.
ReplayWriteFails ==
    LET f == Head(toSend) IN
    /\ WritesFail /\ ~over /\ toSend # <<>> /\ toSend' = <<>>
    /\ \/ f.k = "subscribe" /\ TrackSubscribe(f) /\ UNCHANGED inflight
       \/ f.k = "request" /\ Track(f.r) /\ UNCHANGED <<pending, dropped>>
    /\ UNCHANGED <<clientVars, active, toClient, replayIds, replays, orphaned, closed, reissue, supplierVars,
                   moves, denied, over, acted, misgraded>>

\* An operator turns the flag of a feed on.
FeedDenied(s) ==
    /\ ~over /\ s \in (Deniable \cap scene.uses) \ denied /\ denied' = denied \cup {s}
    /\ UNCHANGED <<clientVars, registryVars, supplierVars, toSend, moves, over, acted, misgraded>>

SubsNext ==
  /\ UNCHANGED scene
  /\ \/ ReplayWriteFails /\ cut' = "dead"
     \/ Rebind /\ cut' = IF cut = "dead" THEN "replaced" ELSE cut
     \/ /\ UNCHANGED cut
        /\ \/ \E s \in Subs : ClientSubscribes(s) \/ FeedDenied(s)
           \/ \E c \in DOMAIN held : ClientUnsubscribes(c)
           \/ ClientUnsubscribesAll
           \/ \E r \in Reqs : ClientRequests(r)
           \/ \E i \in DOMAIN owed : cut # "dead" /\ SupplierActs(i)
           \/ \E id \in DOMAIN has : cut # "dead" /\ SupplierPushes(id)
           \/ ReplayAcked \/ SubscribeAcked \/ NoteRouted \/ RequestAnswered
           \/ RebindRefused \/ ReplaySends

SubsSpec == SubsInit /\ [][SubsNext]_subscriptionVars

-----------------------------------------------------------------------------
SubsTypeOK ==
    /\ sent \subseteq Subs \cup Reqs /\ quit \subseteq Subs
    /\ \A c \in DOMAIN held : held[c] \in Subs
    /\ \A c \in DOMAIN active : active[c].sub \in Subs
    /\ \A q \in DOMAIN replayIds : q \in 1..replays
    /\ Range(pending) \subseteq Subs /\ Range(inflight) \subseteq Reqs

\* A notification about to be routed reaches the client under the id it
\* holds that very subscription by, unless the client has asked it to end,
\* and a supplier that pushes only what it was subscribed to is never graded
\* as padding (TranslateEndpointFrame: toClient, active, orphaned and closed,
\* whatever unsubscribes and replays cross).
NotesReachTheirSubscriber ==
    /\ ~misgraded
    /\ out # <<>> /\ Head(out).k = "note" =>
          LET n == Head(out)
              c == Route(n.id).to
          IN n.s \in quit \/ (c \in DOMAIN held /\ held[c] = n.s)

\* What a frame to or from the supplier is about.
About(f) ==
    CASE f.k \in {"request", "answer"} -> {f.r}
      [] f.k = "subscribe" -> {f.s}
      [] OTHER -> {}

\* What is on its way to, with or back from the supplier.
Carried == Range(reissue) \cup UNION {About(f) : f \in Range(toSend) \cup Range(owed) \cup Range(out)}

\* A request sent outside a batch that the client has no answer to is on its
\* way to, with or back from the current supplier, and so is a subscription
\* it holds; until a socket dies under its replay.
NothingForgotten ==
    ~over /\ ~dropped /\ cut = None =>
        /\ \A r \in sent \cap (Reqs \ Batched) : given[r] = 0 => r \in Carried
        /\ \A c \in DOMAIN held : held[c] \in quit \cup refused \cup Carried \cup Range(has)

\* The client gets one answer to each thing it sends, however often the
\* request was sent to suppliers: a replay's ack is consumed, a refusal that
\* is reissued is dropped, a write that was abandoned is answered once.
AnsweredOnce == \A x \in Subs \cup Reqs : given[x] <= 1

\* A write a supplier may have acted on goes to no other.
WritesGoOnce ==
    \A f \in Range(toSend) \cup Range(owed) : f.k = "request" /\ f.r \in Writes => f.r \notin acted

\* Moving a connection to another supplier loses nothing the client is owed
\* and asks nothing twice that may be asked once (Replay, Reissue and
\* completeReplay against frames that cross the move): every request and
\* subscription is carried over, answered once, and no write is repeated.
RebindsLoseNothing == NothingForgotten /\ AnsweredOnce /\ WritesGoOnce

\* "Everything sent goes back through TranslateClientFrame and is tracked
\* again": a request the client waits for is with a supplier, on its way, or
\* remembered for the next move (Replay), also when a replay is cut short.
ReplayedIsTracked ==
    ~over /\ ~dropped => \A r \in sent \cap (Reqs \ Batched) : given[r] = 0 => r \in Carried \cup Range(inflight)
=============================================================================
