----------------------------- MODULE WSPlacement ------------------------------
(***************************************************************************)
(* Which supplier a WebSocket connection is put on, when it opens, when it *)
(* loses one and when it is moved on purpose: resolveEndpoint, freshest,   *)
(* topTier, noteRebind, untriedFirst, moveOffDrained and RebindService of  *)
(* protocol/shannon/ws_relayer.go, capShare of ws_share.go and             *)
(* withoutEvicted of ws_duplicates.go.                                     *)
(*                                                                         *)
(* The suppliers of the session, which of them are fresh and which are in  *)
(* the best tier are what the session manager, the plugin and the          *)
(* reputation service say; drains and evictions come and go.               *)
(***************************************************************************)
EXTENDS Sage, Naturals, FiniteSets, FiniteSetsExt, Functions, TLC

CONSTANTS
    PlEps,          \* WebSocket endpoints of the session
    PlParty,        \* the party of each
    PlTop,          \* those in the best reputation tier
    PlFresh,        \* those the height filter keeps
    PlVouched,      \* those the reputation service vouches for
    PlConns,        \* connections on this pod
    PlDrains,       \* the endpoints a drain may cover
    PlEvicts,       \* the parties that may be evicted
    MaxRate         \* bound on a connection's traffic

ASSUME PlacementAssumption ==
    /\ PlTop \subseteq PlEps /\ PlFresh \subseteq PlEps /\ PlVouched \subseteq PlEps
    /\ PlDrains \subseteq PlEps /\ MaxRate \in Nat

VARIABLES
    placed,   \* placed[c]: its endpoint, None while closed
    rate,     \* rate[c]: its traffic
    lostTo,   \* tried: the endpoints c lost to a failure since a planned move
    evicted,  \* parties ws_duplicate_evict keeps off
    drained,  \* endpoints a drain covers
    cooling,  \* connections inside wsDrainRebindCooldown
    since     \* since[c]: what failed under c since it was last moved on purpose

placementVars == <<placed, rate, lostTo, evicted, drained, cooling, since>>

PlParties == {PlParty[e] : e \in PlEps}
Live == {c \in PlConns : placed[c] # None}

PlacementInit ==
    /\ placed = [c \in PlConns |-> None] /\ rate = [c \in PlConns |-> 0]
    /\ lostTo = [c \in PlConns |-> {}] /\ since = lostTo
    /\ evicted = {} /\ drained = {} /\ cooling = {}

-----------------------------------------------------------------------------
(* The narrowings.  Each leaves at least one endpoint.                     *)

OrAll(kept, eps) == IF kept = {} THEN eps ELSE kept

\* AvailableEndpoints drops the drained ones.
Undrained == PlEps \ drained

WithoutEvicted(eps) == OrAll({e \in eps : PlParty[e] \notin evicted}, eps)

Freshest(eps) == OrAll(eps \cap PlFresh, eps)

TopTier(eps) == OrAll(eps \cap PlTop, eps)

AllTried(eps, tried) == tried # {} /\ eps # {} /\ eps \subseteq tried

\* The best tier, unless the connection lost every endpoint of it.
Tiered(eps, tried) == IF AllTried(TopTier(eps), tried) THEN eps ELSE TopTier(eps)

RateOn(p, c) == SumFunctionOnSet(rate, {d \in Live \ {c} : PlParty[placed[d]] = p})
Total(c) == SumFunctionOnSet(rate, Live \cup {c})

\* The parties the cap weighs: those with a vouched candidate, not all stale.
Weighed(eps) == {p \in PlParties : \E e \in eps \cap PlVouched : PlParty[e] = p /\ e \in PlFresh}

\* Those that would carry more than half of the traffic with c on them.
Over(eps, c) == {p \in Weighed(eps) : 2 * (RateOn(p, c) + rate[c]) > Total(c)}

\* capShare binds only when it can.
CapShare(eps, c) ==
    IF Cardinality(Weighed(eps)) < 2 \/ Total(c) = 0 \/ Over(eps, c) = Weighed(eps) THEN eps
    ELSE {e \in eps : PlParty[e] \notin Over(eps, c)}

\* The untried, those of no tried endpoint's party first.
UntriedFirst(eps, tried) ==
    IF tried = {} THEN eps
    ELSE LET untried == OrAll(eps \ tried, eps)
         IN IF eps \ tried = {} THEN eps
            ELSE OrAll({e \in untried : \A t \in tried : PlParty[t] # PlParty[e]}, untried)

\* resolveEndpoint: what c may be put on, with these endpoints tried.
Resolved(c, tried) ==
    UntriedFirst(CapShare(Tiered(Freshest(WithoutEvicted(Undrained)), tried), c), tried)

-----------------------------------------------------------------------------
(* A connection's life.                                                    *)

Opens(c) ==
    /\ placed[c] = None
    /\ \E e \in Resolved(c, {}) : placed' = [placed EXCEPT ![c] = e]
    /\ UNCHANGED <<rate, lostTo, since, evicted, drained, cooling>>

Closes(c) ==
    /\ placed[c] # None
    /\ placed' = [placed EXCEPT ![c] = None] /\ rate' = [rate EXCEPT ![c] = 0]
    /\ lostTo' = [lostTo EXCEPT ![c] = {}] /\ since' = [since EXCEPT ![c] = {}]
    /\ cooling' = cooling \ {c}
    /\ UNCHANGED <<evicted, drained>>

\* Mutant: every endpoint a connection was on is avoided.
NoteRebindAll(c, planned) == lostTo[c] \cup {placed[c]}

\* noteRebind.
NoteRebind(c, planned) == IF planned THEN {} ELSE lostTo[c] \cup {placed[c]}

\* The endpoint-lost handler; with nothing to resolve the bridge gives up
\* and the connection closes.
Rebinds(c, planned) ==
    /\ placed[c] # None
    /\ lostTo' = [lostTo EXCEPT ![c] = NoteRebind(c, planned)]
    /\ since' = [since EXCEPT ![c] = IF planned THEN {} ELSE @ \cup {placed[c]}]
    /\ \E e \in Resolved(c, NoteRebind(c, planned)) : placed' = [placed EXCEPT ![c] = e]
    /\ UNCHANGED <<rate, evicted, drained>>

\* A socket lost, a session that ended, RebindService.
Loses(c) == Rebinds(c, FALSE) /\ UNCHANGED cooling
Moves(c) == Rebinds(c, TRUE) /\ UNCHANGED cooling

\* evictedWithElsewhere.
EvictedWithElsewhere(e) == PlParty[e] \in evicted /\ \E d \in Undrained : PlParty[d] \notin evicted

\* moveOffDrained: at most once in the cooldown.
MovesOff(c) ==
    /\ placed[c] # None /\ c \notin cooling
    /\ placed[c] \in drained \/ EvictedWithElsewhere(placed[c])
    /\ cooling' = cooling \cup {c} /\ Rebinds(c, TRUE)

CooldownPasses(c) == c \in cooling /\ cooling' = cooling \ {c}
                     /\ UNCHANGED <<placed, rate, lostTo, since, evicted, drained>>

Carries(c) ==
    /\ placed[c] # None /\ rate[c] < MaxRate /\ rate' = [rate EXCEPT ![c] = @ + 1]
    /\ UNCHANGED <<placed, lostTo, since, evicted, drained, cooling>>

Drains(e) ==
    /\ drained' = IF e \in drained THEN drained \ {e} ELSE drained \cup {e}
    /\ UNCHANGED <<placed, rate, lostTo, since, evicted, cooling>>

Evicts(p) ==
    /\ evicted' = IF p \in evicted THEN evicted \ {p} ELSE evicted \cup {p}
    /\ UNCHANGED <<placed, rate, lostTo, since, drained, cooling>>

PlacementNext ==
    \/ \E c \in PlConns : Opens(c) \/ Closes(c) \/ Loses(c) \/ Moves(c) \/ MovesOff(c) \/ CooldownPasses(c) \/ Carries(c)
    \/ \E e \in PlDrains : Drains(e)
    \/ \E p \in PlEvicts : Evicts(p)

PlacementSpec == PlacementInit /\ [][PlacementNext]_placementVars

-----------------------------------------------------------------------------
PlacementTypeOK ==
    /\ \A c \in PlConns : placed[c] \in PlEps \cup {None} /\ lostTo[c] \subseteq PlEps
    /\ cooling \subseteq Live

\* A connection that is put somewhere: whatever it has been through, it goes
\* to no drained endpoint, to an evicted party's only when there is nothing
\* else, to a stale one only when nothing undrained and kept is fresh, and
\* below the best tier of those only when every endpoint of that tier failed
\* under it since its last planned move (moves at session ends used to wear
\* the best tier out); and not back onto one that failed while that tier has
\* another under the cap.
PlacedWell ==
    [][\A c \in PlConns :
          placed'[c] # None /\ (placed'[c] # placed[c] \/ since'[c] # since[c]) =>
              LET e == placed'[c]
                  kept == WithoutEvicted(Undrained)
                  fresh == Freshest(kept)
              IN /\ e \notin drained
                 /\ PlParty[e] \in evicted => \A d \in Undrained : PlParty[d] \in evicted
                 /\ e \notin PlFresh => kept \cap PlFresh = {}
                 /\ e \notin TopTier(fresh) => TopTier(fresh) \subseteq since'[c]
                 /\ e \in since'[c] => CapShare(Tiered(fresh, since'[c]), c) \subseteq since'[c]]_placementVars

-----------------------------------------------------------------------------
(***************************************************************************)
(* The client ledger of the WebSocket relayer (protocol/shannon/           *)
(* ws_clients.go): what each client's connections were served by over the  *)
(* last window or two, in bounded tables, and which clients look as if     *)
(* they reconnect until they land on one owner.                            *)
(*                                                                         *)
(* Time is in ticks.  A tenure is short or long; its frames are left out.  *)
(***************************************************************************)

CONSTANTS
    LedgerIPs,        \* clients
    LedgerKeys,       \* suppliers, one service
    LedgerOwner,      \* the owner of each
    LedgerScript,     \* the tenures clients may have: [ip, key, long, quit, topic]
    Long,             \* ticks a long tenure lasted; a short one 0
    LedgerWindow, LedgerMaxClients, LedgerMaxSuppliers, LedgerMaxTopics,
    ShoppingMinQuick, ShoppingMinTime,
    MaxTenures, MaxClock   \* bounds of the model

ASSUME LedgerAssumption == {LedgerWindow, LedgerMaxClients, LedgerMaxSuppliers, LedgerMaxTopics,
                            ShoppingMinQuick, ShoppingMinTime, MaxTenures, MaxClock, Long} \subseteq Nat

VARIABLES
    clock,
    winStart, winSince,   \* started and since
    curWin, prevWin,      \* cur and prev: client -> its stats
    missed,               \* dropped
    told                  \* every tenure reported: [ip, key, at, quick, topic, kept]

ledgerVars == <<clock, winStart, winSince, curWin, prevWin, missed, told>>

NoEntries == <<>>
Get(f, x, d) == IF x \in DOMAIN f THEN f[x] ELSE d
Put(f, x, v) == (x :> v) @@ f

NewClient == [connections |-> 0, quickCloses |-> 0, suppliers |-> NoEntries]
NewSupplier == [tenures |-> 0, seconds |-> 0, quickCloses |-> 0, topics |-> NoEntries]

LedgerInit ==
    /\ clock = 0 /\ winStart = 0 /\ winSince = 0 /\ curWin = NoEntries /\ prevWin = NoEntries
    /\ missed = 0 /\ told = {}

-----------------------------------------------------------------------------
(* Topics, and their cap.                                                  *)

Other == "__other__"

\* topicSlot.
TopicSlot(m, t) ==
    IF t \in DOMAIN m \cup {Other} \/ Cardinality(DOMAIN m \ {Other}) < LedgerMaxTopics THEN t ELSE Other

AddTopic(m, t, n) == LET slot == TopicSlot(m, t) IN Put(m, slot, Get(m, slot, 0) + n)

\* addTopics, in the order the map's iteration happens to take.
AddTopics(m, counts) == FoldFunctionOnSet(LAMBDA x, acc : AddTopic(acc, x[1], x[2]),
                                          m, [t \in DOMAIN counts |-> <<t, counts[t]>>], DOMAIN counts)

-----------------------------------------------------------------------------
(* The windows.                                                            *)

Due == clock - winStart >= LedgerWindow

\* Mutant: a rotation starts both windows afresh.
RotatedClear == IF Due THEN [cur |-> NoEntries, prev |-> NoEntries, start |-> clock, since |-> winStart, missed |-> 0]
                ELSE [cur |-> curWin, prev |-> prevWin, start |-> winStart, since |-> winSince, missed |-> missed]

\* rotate.
Rotated == IF Due THEN [cur |-> NoEntries, prev |-> curWin, start |-> clock, since |-> winStart, missed |-> 0]
           ELSE [cur |-> curWin, prev |-> prevWin, start |-> winStart, since |-> winSince, missed |-> missed]

Becomes(l) == /\ curWin' = l.cur /\ prevWin' = l.prev /\ winStart' = l.start /\ winSince' = l.since
              /\ missed' = l.missed

\* client: the entry of ip, unless the table is full.
HasRoom(l, ip) == ip \in DOMAIN l.cur \/ Cardinality(DOMAIN l.cur) < LedgerMaxClients

\* opened.
LedgerOpened(ip) ==
    LET l == Rotated
        c == Get(l.cur, ip, NewClient)
    IN /\ c.connections < 1
       /\ IF HasRoom(l, ip)
          THEN Becomes([l EXCEPT !.cur = Put(@, ip, [c EXCEPT !.connections = @ + 1])])
          ELSE l.missed < MaxTenures /\ Becomes([l EXCEPT !.missed = @ + 1])
       /\ UNCHANGED <<clock, told>>

\* A supplier's entry with one tenure more.
WithTenure(s, long, quick, topic) ==
    [s EXCEPT !.tenures = @ + 1, !.seconds = @ + (IF long THEN Long ELSE 0),
              !.quickCloses = @ + (IF quick THEN 1 ELSE 0), !.topics = AddTopic(@, topic, 1)]

\* tenure: a quick close is the client's own even where the supplier table
\* is full.
LedgerTenure(x) ==
    LET l == Rotated
        ip == x.ip
        key == x.key
        quick == x.quit /\ ~x.long
        c == Get(l.cur, ip, NewClient)
        quit1 == [c EXCEPT !.quickCloses = @ + (IF quick THEN 1 ELSE 0)]
        room == key \in DOMAIN c.suppliers \/ Cardinality(DOMAIN c.suppliers) < LedgerMaxSuppliers
        kept == HasRoom(l, ip) /\ room
    IN /\ Cardinality(told) < MaxTenures
       /\ Becomes(IF ~HasRoom(l, ip) THEN [l EXCEPT !.missed = @ + 1]
                  ELSE [l EXCEPT !.cur = Put(@, ip,
                          IF ~room THEN quit1
                          ELSE [quit1 EXCEPT !.suppliers = Put(@, key,
                                  WithTenure(Get(@, key, NewSupplier), x.long, quick, x.topic))])])
       /\ told' = told \cup {[id |-> Cardinality(told), ip |-> ip, key |-> key, at |-> clock,
                              kept |-> kept]}
       /\ UNCHANGED clock

\* shoppingClients and snapshot rotate before they read.
LedgerRead == Due /\ Becomes(Rotated) /\ UNCHANGED <<clock, told>>

LedgerTick == clock < MaxClock /\ clock' = clock + 1
              /\ UNCHANGED <<winStart, winSince, curWin, prevWin, missed, told>>

LedgerNext ==
    \/ \E ip \in LedgerIPs : LedgerOpened(ip)
    \/ \E x \in LedgerScript : LedgerTenure(x)
    \/ LedgerRead \/ LedgerTick

LedgerSpec == LedgerInit /\ [][LedgerNext]_ledgerVars

-----------------------------------------------------------------------------
(* The readings.                                                           *)

LedgerOwners == {LedgerOwner[k] : k \in LedgerKeys}
LedgerClients(l) == DOMAIN l.cur \cup DOMAIN l.prev

Entry(w, ip, key) == Get(Get(w, ip, NewClient).suppliers, key, NewSupplier)

\* shopping, over the time and the quick closes with each owner: one owner
\* has four fifths of the time, and the others the quick closes.
Shopping(seconds, quick) ==
    LET total == SumFunction(seconds)
    IN /\ total > 0
       /\ \E o \in LedgerOwners :
             /\ \A p \in LedgerOwners : seconds[p] <= seconds[o]
             /\ seconds[o] >= ShoppingMinTime /\ 5 * seconds[o] >= 4 * total
             /\ SumFunction(quick) - quick[o] >= ShoppingMinQuick

ByOwner(stat(_)) == [o \in LedgerOwners |-> MapThenSumSet(stat, {k \in LedgerKeys : LedgerOwner[k] = o})]

\* shoppingClients: each window's entries are added up per owner.
ShoppingClients(l) ==
    {ip \in LedgerClients(l) :
        Shopping(ByOwner(LAMBDA k : Entry(l.prev, ip, k).seconds + Entry(l.cur, ip, k).seconds),
                 ByOwner(LAMBDA k : Entry(l.prev, ip, k).quickCloses + Entry(l.cur, ip, k).quickCloses))}

\* snapshot: a client's suppliers over both windows.
Snapshot(l, ip) ==
    [k \in DOMAIN Get(l.prev, ip, NewClient).suppliers \cup DOMAIN Get(l.cur, ip, NewClient).suppliers |->
        LET p == Entry(l.prev, ip, k)
            c == Entry(l.cur, ip, k)
        IN [tenures |-> p.tenures + c.tenures, seconds |-> p.seconds + c.seconds,
            quickCloses |-> p.quickCloses + c.quickCloses,
            topics |-> AddTopics(AddTopics(NoEntries, p.topics), c.topics)]]

-----------------------------------------------------------------------------
LedgerTypeOK ==
    /\ Cardinality(DOMAIN curWin) <= LedgerMaxClients /\ winSince <= winStart /\ winStart <= clock
    /\ \A ip \in DOMAIN curWin : Cardinality(DOMAIN curWin[ip].suppliers) <= LedgerMaxSuppliers

\* What a report reads back (rotate, tenure, addTopics, snapshot): it goes
\* back at least a full window, or to the start; every tenure since then that
\* found room is in it exactly once and none from before is; the topics keep
\* to their cap over both windows and add up to the tenures; and the count a
\* scrape takes names the clients a report calls shopping.
LedgerReadsBack ==
    LET l == Rotated
        ofWindow(ip, k) == {t \in told : t.ip = ip /\ t.key = k /\ t.kept /\ t.at >= l.since}
    IN /\ l.since = 0 \/ clock - l.since >= LedgerWindow
       /\ \A ip \in LedgerIPs :
             LET snap == Snapshot(l, ip)
                 row(k) == Get(snap, k, NewSupplier)
             IN /\ \A k \in LedgerKeys :
                      /\ Cardinality({t \in ofWindow(ip, k) : t.at # l.since}) <= row(k).tenures
                      /\ row(k).tenures <= Cardinality(ofWindow(ip, k))
                      /\ SumFunction(row(k).topics) = row(k).tenures
                      /\ Cardinality(DOMAIN row(k).topics \ {Other}) <= LedgerMaxTopics
                /\ ip \in ShoppingClients(l) <=>
                      Shopping(ByOwner(LAMBDA k : row(k).seconds), ByOwner(LAMBDA k : row(k).quickCloses))
=============================================================================
