------------------------------- MODULE Sessions -------------------------------
(***************************************************************************)
(* The session cache of one (service, application) in                      *)
(* protocol/shannon/sessions.go: relays and WebSocket dials that ask for   *)
(* the session, the coalesced fetch from the full node, the background     *)
(* refresh of the grace period, and the hold that keeps an unhelpful       *)
(* answer from being asked for again.  A session is its end height.  Every *)
(* load, store and compare of a shared cell is a step of its own.          *)
(***************************************************************************)
EXTENDS Sage, Integers, FiniteSets

CONSTANTS
    SessionRelays,    \* callers of getSession
    Dials,            \* callers of currentSession
    Bg,               \* the background refresh
    Length,           \* blocks per session
    SessionGrace,     \* graceBlocks
    SessionLag,       \* how many blocks behind a GetSession may answer
    StartHeight,      \* the chain's height when the gateway starts
    SessionMaxHeight  \* bound on the chain

ASSUME SessionsAssumption ==
    /\ Length \in Nat \ {0} /\ SessionGrace \in Nat /\ SessionLag \in Nat
    /\ StartHeight \in Nat \ {0} /\ SessionMaxHeight \in Nat /\ StartHeight <= SessionMaxHeight
    /\ SessionRelays \cap Dials = {} /\ Bg \notin SessionRelays \cup Dials
    /\ None \notin SessionRelays \cup Dials \cup {Bg}

SessionCallers == SessionRelays \cup Dials \cup {Bg}

\* The end of the session a block belongs to.
SessionEnd(h) == (((h - 1) \div Length) + 1) * Length

Ends == {SessionEnd(h) : h \in 1..SessionMaxHeight}

VARIABLES
    sessionChain,  \* the chain's height
    latest,        \* latestBlockHeight; 0 before the first poll
    cache,         \* sessionCache's entry; 0: none
    hold,          \* the entry of holds; on is until not having passed
    bgRefreshing,  \* the marker
    wsAsked,       \* the height a dial last asked at
    leader,        \* refreshGroup: whose fetch is in flight, or None
    fetch,         \* fetch[c]: the fetch c started
    sessionCall,   \* call[c]: where a caller is
    wait           \* wait[c]: whose fetch a caller waits for

sessionVars == <<sessionChain, latest, cache, hold, bgRefreshing, wsAsked, leader, fetch, sessionCall, wait>>
node == <<sessionChain, latest>>

NoHold == [on |-> FALSE, height |-> 0, err |-> FALSE]
NoFetch == [st |-> "none", height |-> 0, at |-> 0, ans |-> 0]
\* saw: the session loaded; back: what a bounded wait falls back to; since: the
\* height polled when the call began.
Idle == [pc |-> "idle", saw |-> 0, back |-> 0, since |-> 0]

SessionInit ==
    /\ sessionChain = StartHeight /\ latest \in {0, StartHeight} /\ cache = 0 /\ hold = NoHold
    /\ bgRefreshing = FALSE /\ wsAsked = 0 /\ leader = None
    /\ fetch = [c \in SessionCallers |-> NoFetch] /\ sessionCall = [c \in SessionCallers |-> Idle]
    /\ wait = [c \in SessionCallers |-> None]

-----------------------------------------------------------------------------
(* The chain and the poller.                                               *)

\* A fetch (15 s at most) lasts less than a block (about a minute).
Advance ==
    /\ sessionChain < SessionMaxHeight
    /\ \A c \in SessionCallers : fetch[c].st # "none" => fetch[c].at = sessionChain
    /\ sessionChain' = sessionChain + 1
    /\ UNCHANGED <<latest, cache, hold, bgRefreshing, wsAsked, leader, fetch, sessionCall, wait>>

\* pollBlockHeight; a failed poll changes nothing.
Poll ==
    /\ latest' \in (latest + 1)..sessionChain
    /\ UNCHANGED <<sessionChain, cache, hold, bgRefreshing, wsAsked, leader, fetch, sessionCall, wait>>

\* The hold's until passes.
HoldLapses ==
    /\ hold.on /\ hold' = NoHold
    /\ UNCHANGED <<sessionChain, latest, cache, bgRefreshing, wsAsked, leader, fetch, sessionCall, wait>>

-----------------------------------------------------------------------------
(* The callers.                                                            *)

At(c, pc) == sessionCall[c].pc = pc
SessionGoto(c, pc) == sessionCall' = [sessionCall EXCEPT ![c].pc = pc]
\* The call's answer; 0: an error.
Done(c, s) == sessionCall' = [sessionCall EXCEPT ![c] = [@ EXCEPT !.pc = "done", !.saw = s, !.back = 0]]

\* Mutant: a hold lasts its time whatever the height does.
heldForItsTime == hold.on

held == hold.on /\ latest <= hold.height

Keep == UNCHANGED <<hold, bgRefreshing, wsAsked, leader, fetch, wait, cache>>

\* A relay or a dial begins.
Begin(c) ==
    /\ At(c, "idle") /\ c # Bg
    /\ sessionCall' = [sessionCall EXCEPT ![c] = [Idle EXCEPT !.pc = IF c \in Dials THEN "dial" ELSE "get",
                                                !.since = latest]]
    /\ UNCHANGED node /\ Keep

\* Mutant: the marker is deleted only after a refresh that succeeded.
UnmarksOnSuccess(c) == c = Bg /\ sessionCall[c].saw # 0

Unmarks(c) == c = Bg

\* And is over; the background refresh deletes its marker.
SessionReturn(c) ==
    /\ At(c, "done") /\ sessionCall' = [sessionCall EXCEPT ![c] = Idle]
    /\ bgRefreshing' = (bgRefreshing /\ ~Unmarks(c))
    /\ UNCHANGED <<hold, wsAsked, leader, fetch, wait, cache>> /\ UNCHANGED node

\* getSession and currentSession load the cached session.
LoadCache(c) ==
    /\ At(c, "get") \/ At(c, "dial")
    /\ sessionCall' = [sessionCall EXCEPT ![c].saw = cache,
                            ![c].pc = IF @ = "dial" THEN "dialHeight"
                                      ELSE IF cache = 0 THEN "refresh" ELSE "height"]
    /\ UNCHANGED node /\ Keep

\* getSession: current, in grace, or past it.
LoadHeight(c) ==
    /\ At(c, "height")
    /\ IF latest <= sessionCall[c].saw THEN Done(c, sessionCall[c].saw)
       ELSE IF latest <= sessionCall[c].saw + SessionGrace THEN SessionGoto(c, "schedule")
       ELSE sessionCall' = [sessionCall EXCEPT ![c] = [@ EXCEPT !.pc = "refresh", !.saw = 0]]
    /\ UNCHANGED node /\ Keep

\* scheduleBackgroundRefresh: not while held.
ScheduleChecksHold(c) ==
    /\ At(c, "schedule")
    /\ IF held THEN Done(c, sessionCall[c].saw) ELSE SessionGoto(c, "mark")
    /\ UNCHANGED node /\ Keep

\* One goroutine at a time.
ScheduleMarks(c) ==
    /\ At(c, "mark") /\ bgRefreshing' = TRUE
    /\ sessionCall' = [sessionCall EXCEPT
          ![c] = [@ EXCEPT !.pc = "done"],
          ![Bg] = IF bgRefreshing THEN @ ELSE [Idle EXCEPT !.pc = "refresh", !.since = latest]]
    /\ UNCHANGED <<hold, wsAsked, leader, fetch, wait, cache>> /\ UNCHANGED node

\* currentSession: within the session, past grace, or asking once per height.
DialHeight(c) ==
    /\ At(c, "dialHeight")
    /\ IF sessionCall[c].saw = 0 \/ latest <= sessionCall[c].saw
       THEN sessionCall' = [sessionCall EXCEPT ![c] = [@ EXCEPT !.pc = "get", !.saw = 0]] /\ UNCHANGED wsAsked
       ELSE IF latest > sessionCall[c].saw + SessionGrace
       THEN sessionCall' = [sessionCall EXCEPT ![c] = [@ EXCEPT !.pc = "refresh", !.saw = 0]] /\ UNCHANGED wsAsked
       ELSE /\ wsAsked' = latest
            /\ IF wsAsked = latest THEN Done(c, sessionCall[c].saw)
               ELSE sessionCall' = [sessionCall EXCEPT ![c] = [@ EXCEPT !.pc = "refresh", !.saw = 0,
                                                          !.back = sessionCall[c].saw]]
    /\ UNCHANGED <<hold, bgRefreshing, leader, fetch, wait, cache>> /\ UNCHANGED node

\* A failed ask of a dial in grace falls back to the ended session.
Answer(c, s) == Done(c, IF s = 0 THEN sessionCall[c].back ELSE s)

\* refreshSession and awaitSession: a held key is not asked again.
RefreshChecksHold(c) ==
    /\ At(c, "refresh")
    /\ IF ~held THEN SessionGoto(c, "join")
       ELSE IF hold.err THEN Answer(c, 0) ELSE SessionGoto(c, "heldAnswer")
    /\ UNCHANGED node /\ Keep

HeldAnswer(c) == At(c, "heldAnswer") /\ Answer(c, cache) /\ UNCHANGED node /\ Keep

\* Mutant: every caller fetches for itself.
LeadsAlways(c) == fetch[c].st = "none"

\* Whether refreshGroup runs the caller's own fetch.
Leads(c) == leader = None

\* refreshGroup.Do or DoChan: the first caller's fetch, which loads the height
\* before it asks, or the one in flight.
Join(c) ==
    /\ At(c, "join")
    /\ IF Leads(c)
       THEN /\ leader' = c /\ wait' = [wait EXCEPT ![c] = c]
            /\ fetch' = [fetch EXCEPT ![c] = [st |-> "asked", height |-> latest, at |-> sessionChain, ans |-> 0]]
       ELSE wait' = [wait EXCEPT ![c] = leader] /\ UNCHANGED <<leader, fetch>>
    /\ SessionGoto(c, "wait")
    /\ UNCHANGED <<hold, bgRefreshing, wsAsked, cache>> /\ UNCHANGED node

\* A dial gives up waiting: its bound inside grace, its context at any time.
GiveUp(c) ==
    /\ At(c, "wait") /\ c \in Dials
    /\ Answer(c, 0) /\ wait' = [wait EXCEPT ![c] = None]
    /\ UNCHANGED <<hold, bgRefreshing, wsAsked, leader, fetch, cache>> /\ UNCHANGED node

-----------------------------------------------------------------------------
(* The fetch: doRefreshSession.                                            *)

\* The full node answers with the session of a block at most Lag behind.
NodeAnswers(c) ==
    /\ fetch[c].st = "asked"
    /\ \E h \in (IF sessionChain > SessionLag THEN sessionChain - SessionLag ELSE 1)..sessionChain :
          fetch' = [fetch EXCEPT ![c].st = "answered", ![c].ans = SessionEnd(h)]
    /\ UNCHANGED <<cache, hold, bgRefreshing, wsAsked, leader, sessionCall, wait>> /\ UNCHANGED node

\* Mutant: held until the height has moved twice.
HoldOneMore(c, err) == hold' = [on |-> TRUE, height |-> fetch[c].height + 1, err |-> err]

Hold(c, err) == hold' = [on |-> TRUE, height |-> fetch[c].height, err |-> err]

\* It fails or times out: the error is held.
NodeFails(c) ==
    /\ fetch[c].st = "asked" /\ Hold(c, TRUE)
    /\ fetch' = [fetch EXCEPT ![c].st = "stored"]
    /\ UNCHANGED <<cache, bgRefreshing, wsAsked, leader, sessionCall, wait>> /\ UNCHANGED node

\* No newer than the cached session: held; newer: the hold is dropped.
Compare(c) ==
    /\ fetch[c].st = "answered"
    /\ IF cache # 0 /\ fetch[c].ans <= cache THEN Hold(c, FALSE) ELSE hold' = NoHold
    /\ fetch' = [fetch EXCEPT ![c].st = "compared"]
    /\ UNCHANGED <<cache, bgRefreshing, wsAsked, leader, sessionCall, wait>> /\ UNCHANGED node

Store(c) ==
    /\ fetch[c].st = "compared" /\ cache' = fetch[c].ans
    /\ fetch' = [fetch EXCEPT ![c].st = "stored"]
    /\ UNCHANGED <<hold, bgRefreshing, wsAsked, leader, sessionCall, wait>> /\ UNCHANGED node

\* refreshGroup hands the result to everyone waiting.
Deliver(c) ==
    /\ fetch[c].st = "stored"
    /\ sessionCall' = [d \in SessionCallers |->
          IF wait[d] # c THEN sessionCall[d]
          ELSE [sessionCall[d] EXCEPT !.pc = "done", !.back = 0,
                   !.saw = IF fetch[c].ans = 0 THEN sessionCall[d].back ELSE fetch[c].ans]]
    /\ wait' = [d \in SessionCallers |-> IF wait[d] = c THEN None ELSE wait[d]]
    /\ leader' = (IF leader = c THEN None ELSE leader)
    /\ fetch' = [fetch EXCEPT ![c] = NoFetch]
    /\ UNCHANGED <<cache, hold, bgRefreshing, wsAsked>> /\ UNCHANGED node

-----------------------------------------------------------------------------
CallerStep(c) ==
    \/ LoadCache(c) \/ LoadHeight(c) \/ ScheduleChecksHold(c) \/ ScheduleMarks(c)
    \/ DialHeight(c) \/ RefreshChecksHold(c) \/ HeldAnswer(c) \/ Join(c) \/ SessionReturn(c)

FetchStep(c) == NodeAnswers(c) \/ NodeFails(c) \/ Compare(c) \/ Store(c) \/ Deliver(c)

SessionNext ==
    \/ Advance \/ Poll \/ HoldLapses
    \/ \E c \in SessionCallers : Begin(c) \/ CallerStep(c) \/ GiveUp(c) \/ FetchStep(c)

SessionSpec == SessionInit /\ [][SessionNext]_sessionVars

\* An answer from the chain's own height.
FreshAnswer(c) == NodeAnswers(c) /\ fetch'[c].ans = SessionEnd(sessionChain)

-----------------------------------------------------------------------------
Pcs == {"idle", "get", "dial", "height", "dialHeight", "schedule", "mark", "refresh",
        "heldAnswer", "join", "wait", "done"}

SessionTypeOK ==
    /\ sessionChain \in 1..SessionMaxHeight /\ latest \in 0..sessionChain /\ cache \in Ends \cup {0}
    /\ hold \in [on: BOOLEAN, height: 0..SessionMaxHeight, err: BOOLEAN]
    /\ bgRefreshing \in BOOLEAN /\ wsAsked \in 0..SessionMaxHeight
    /\ leader \in SessionCallers \cup {None} /\ wait \in [SessionCallers -> SessionCallers \cup {None}]
    /\ fetch \in [SessionCallers -> [st: {"none", "asked", "answered", "compared", "stored"},
                              height: 0..SessionMaxHeight, at: 0..SessionMaxHeight, ans: Ends \cup {0}]]
    /\ sessionCall \in [SessionCallers -> [pc: Pcs, saw: Ends \cup {0}, back: Ends \cup {0},
                             since: 0..SessionMaxHeight]]

\* Every session handed out is one the chain still honoured when the call
\* began, whichever way it came: from the cache, from a shared fetch, from a
\* hold, or as a dial's fallback.
HonouredWhenServed ==
    \A c \in SessionCallers : At(c, "done") /\ sessionCall[c].saw # 0 => sessionCall[c].since <= sessionCall[c].saw + SessionGrace

\* protocol/shannon/sessions.go:451: a session handed out past its end is one
\* the chain still honours, whatever was held, coalesced or given up on.
SessionsHonoured == SessionTypeOK /\ HonouredWhenServed

\* A later fetch never puts an older session back in the cache.
CacheNeverRegresses == [][cache' >= cache]_cache

\* The key is on a session the poller has seen ended.
SessionBehind == cache # 0 /\ latest > cache

-----------------------------------------------------------------------------
(***************************************************************************)
(* The endpoints extracted from sessions (protocol/shannon/sessions.go):   *)
(* endpointCache by session, byServiceAddr by address, and the sweep that  *)
(* drops both at a rollover.  An extraction is the endpoint objects one    *)
(* caller of getOrCreateEndpoints made; the extractions of several callers *)
(* interleave at every access to a shared map.                             *)
(***************************************************************************)

CONSTANTS
    IndexCallers,  \* calls of getOrCreateEndpoints that found nothing cached
    SessionIDs,    \* session IDs
    EndOf,         \* EndOf[s]: the session's end height
    Addrs,         \* endpoint addresses of the service
    AddrsOf        \* AddrsOf[s]: the addresses of the session's suppliers

ASSUME IndexAssumption ==
    /\ EndOf \in [SessionIDs -> Nat \ {0}] /\ AddrsOf \in [SessionIDs -> SUBSET Addrs]
    /\ IsFiniteSet(IndexCallers) /\ None \notin IndexCallers \cup SessionIDs

VARIABLES
    endpointCache,  \* session -> the extraction cached, or None
    byServiceAddr,  \* address -> the extraction indexed, or None
    highest,        \* highestSessionEnd
    rolloverMu,     \* the sweep's holder, or None
    of,             \* of[c]: the session the caller extracts, or None
    indexPc,        \* where the caller is
    addrs,          \* addrs[c]: addresses its loop has left
    range,          \* range[c]: sessions its Range still has to visit
    sweep           \* sweep[c]: prevHighest, the extraction dropped, the address found its own

indexVars == <<endpointCache, byServiceAddr, highest, rolloverMu, of, indexPc, addrs, range, sweep>>

NoSweep == [prev |-> 0, dropped |-> None, found |-> None]

IndexInit ==
    /\ endpointCache = [s \in SessionIDs |-> None] /\ byServiceAddr = [a \in Addrs |-> None]
    /\ highest = 0 /\ rolloverMu = None
    /\ of = [c \in IndexCallers |-> None] /\ indexPc = [c \in IndexCallers |-> "idle"]
    /\ addrs = [c \in IndexCallers |-> {}] /\ range = [c \in IndexCallers |-> {}]
    /\ sweep = [c \in IndexCallers |-> NoSweep]

IndexGoto(c, l) == indexPc' = [indexPc EXCEPT ![c] = l]

\* Load finds nothing; the endpoints are built.
Extract(c) ==
    /\ indexPc[c] = "idle"
    /\ \E s \in SessionIDs : endpointCache[s] = None /\ of' = [of EXCEPT ![c] = s]
    /\ IndexGoto(c, "built")
    /\ UNCHANGED <<endpointCache, byServiceAddr, highest, rolloverMu, addrs, range, sweep>>

\* LoadOrStore: the first one in indexes, the others use its endpoints.
LoadOrStore(c) ==
    /\ indexPc[c] = "built"
    /\ IF endpointCache[of[c]] = None
       THEN /\ endpointCache' = [endpointCache EXCEPT ![of[c]] = c]
            /\ addrs' = [addrs EXCEPT ![c] = AddrsOf[of[c]]] /\ IndexGoto(c, "index")
       ELSE IndexGoto(c, "done") /\ UNCHANGED <<endpointCache, addrs>>
    /\ UNCHANGED <<byServiceAddr, highest, rolloverMu, of, range, sweep>>

\* byServiceAddr.Store, for each endpoint.
Index(c) ==
    /\ indexPc[c] = "index"
    /\ \E a \in addrs[c] :
          /\ byServiceAddr' = [byServiceAddr EXCEPT ![a] = c]
          /\ addrs' = [addrs EXCEPT ![c] = @ \ {a}]
    /\ UNCHANGED <<endpointCache, highest, rolloverMu, of, indexPc, range, sweep>>

\* evictStaleEndpointsOnRollover: nothing to do unless the end is new.
EvictCheck(c) ==
    /\ indexPc[c] = "index" /\ addrs[c] = {}
    /\ IndexGoto(c, IF EndOf[of[c]] <= highest THEN "done" ELSE "lock")
    /\ UNCHANGED <<endpointCache, byServiceAddr, highest, rolloverMu, of, addrs, range, sweep>>

NewHighest(c) == EndOf[of[c]]

\* Checked again under the lock; the sweep sees at least what is cached now.
EvictLock(c) ==
    /\ indexPc[c] = "lock" /\ rolloverMu = None
    /\ IF EndOf[of[c]] <= highest
       THEN IndexGoto(c, "done") /\ UNCHANGED <<highest, rolloverMu, range, sweep>>
       ELSE /\ rolloverMu' = c /\ highest' = NewHighest(c) /\ IndexGoto(c, "range")
            /\ range' = [range EXCEPT ![c] = {s \in SessionIDs : endpointCache[s] # None}]
            /\ sweep' = [sweep EXCEPT ![c].prev = highest]
    /\ UNCHANGED <<endpointCache, byServiceAddr, of, addrs>>

\* Mutant: everything older than the new session goes.
StaleByNew(c, s) == EndOf[s] < EndOf[of[c]]

\* Older than the previous session.
IndexStale(c, s) == EndOf[s] < sweep[c].prev

\* Range visits an entry, one stored since it began included.
Visit(c) ==
    /\ indexPc[c] = "range"
    /\ \E s \in SessionIDs :
          /\ endpointCache[s] # None /\ (s \in range[c] \/ IndexStale(c, s))
          /\ range' = [range EXCEPT ![c] = @ \ {s}]
          /\ IF IndexStale(c, s)
             THEN /\ endpointCache' = [endpointCache EXCEPT ![s] = None]
                  /\ addrs' = [addrs EXCEPT ![c] = AddrsOf[s]]
                  /\ sweep' = [sweep EXCEPT ![c].dropped = endpointCache[s]]
                  /\ IndexGoto(c, "drop")
             ELSE UNCHANGED <<endpointCache, addrs, sweep, indexPc>>
    /\ UNCHANGED <<byServiceAddr, highest, rolloverMu, of>>

\* For each address of the dropped entry: is the index still its own?
IndexLoad(c) ==
    /\ indexPc[c] = "drop" /\ sweep[c].found = None
    /\ \E a \in addrs[c] :
          /\ addrs' = [addrs EXCEPT ![c] = @ \ {a}]
          /\ sweep' = [sweep EXCEPT
                ![c].found = IF byServiceAddr[a] = sweep[c].dropped THEN a ELSE None]
    /\ UNCHANGED <<endpointCache, byServiceAddr, highest, rolloverMu, of, indexPc, range>>

\* Then it is deleted.
IndexDelete(c) ==
    /\ indexPc[c] = "drop" /\ sweep[c].found # None
    /\ byServiceAddr' = [byServiceAddr EXCEPT ![sweep[c].found] = None]
    /\ sweep' = [sweep EXCEPT ![c].found = None]
    /\ UNCHANGED <<endpointCache, highest, rolloverMu, of, indexPc, addrs, range>>

DropDone(c) ==
    /\ indexPc[c] = "drop" /\ addrs[c] = {} /\ sweep[c].found = None
    /\ sweep' = [sweep EXCEPT ![c].dropped = None] /\ IndexGoto(c, "range")
    /\ UNCHANGED <<endpointCache, byServiceAddr, highest, rolloverMu, of, addrs, range>>

Unlock(c) ==
    /\ indexPc[c] = "range" /\ range[c] = {}
    /\ rolloverMu' = None /\ IndexGoto(c, "done") /\ sweep' = [sweep EXCEPT ![c] = NoSweep]
    /\ UNCHANGED <<endpointCache, byServiceAddr, highest, of, addrs, range>>

IndexNext ==
    \E c \in IndexCallers :
        \/ Extract(c) \/ LoadOrStore(c) \/ Index(c) \/ EvictCheck(c) \/ EvictLock(c)
        \/ Visit(c) \/ IndexLoad(c) \/ IndexDelete(c) \/ DropDone(c) \/ Unlock(c)

IndexSpec == IndexInit /\ [][IndexNext]_indexVars

-----------------------------------------------------------------------------
IndexTypeOK ==
    /\ endpointCache \in [SessionIDs -> IndexCallers \cup {None}]
    /\ byServiceAddr \in [Addrs -> IndexCallers \cup {None}]
    /\ highest \in {0} \cup {EndOf[s] : s \in SessionIDs} /\ rolloverMu \in IndexCallers \cup {None}
    /\ of \in [IndexCallers -> SessionIDs \cup {None}]
    /\ indexPc \in [IndexCallers -> {"idle", "built", "index", "lock", "range", "drop", "done"}]
    /\ addrs \in [IndexCallers -> SUBSET Addrs] /\ range \in [IndexCallers -> SUBSET SessionIDs]

\* The ends of the sessions that were ever cached.
EndsSeen == {EndOf[of[c]] : c \in {d \in IndexCallers : indexPc[d] \notin {"idle", "built"}}}

\* The current session and the one before it are never dropped: an entry goes
\* only once two newer session ends were seen, in whatever order the sessions
\* were extracted.
KeepsCurrentAndPrevious ==
    [][\A s \in SessionIDs :
          endpointCache[s] # None /\ endpointCache'[s] = None
              => Cardinality({e \in EndsSeen : e > EndOf[s]}) >= 2]_indexVars
=============================================================================
