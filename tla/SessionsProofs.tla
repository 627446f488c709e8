---------------------------- MODULE SessionsProofs ----------------------------
(***************************************************************************)
(* The session manager, for any number of callers, sessions and heights:   *)
(* what is served is still honoured, the cache does not go back, and the   *)
(* sweep at a rollover leaves the current and the previous session.        *)
(***************************************************************************)
EXTENDS Sessions, FiniteSetTheorems, TLAPS

-----------------------------------------------------------------------------
(* The sweep of the endpoint index.                                        *)

\* What the sweep compares with was seen: the highest end, and the one a sweep
\* took over from, which is below the sweep's own.
SweepsFromSeen ==
    /\ sweep \in [IndexCallers -> [prev : Nat, dropped : IndexCallers \cup {None}, found : Addrs \cup {None}]]
    /\ \A c \in IndexCallers : indexPc[c] # "idle" => of[c] \in SessionIDs
    /\ highest = 0 \/ highest \in EndsSeen
    /\ \A c \in IndexCallers : indexPc[c] \in {"range", "drop"} =>
          /\ sweep[c].prev = 0 \/ sweep[c].prev \in EndsSeen
          /\ sweep[c].prev < EndOf[of[c]]

IndexInv == IndexTypeOK /\ SweepsFromSeen

\* Nothing is cached and no caller has begun.
LEMMA IndexInitInv == IndexInit => IndexInv
<1> SUFFICES ASSUME IndexInit PROVE IndexInv
  OBVIOUS
<1>1. IndexTypeOK
  BY DEF IndexInit, IndexTypeOK
<1>2. SweepsFromSeen
  BY DEF IndexInit, SweepsFromSeen, NoSweep
<1>3. QED
  BY <1>1, <1>2 DEF IndexInv

\* A caller past LoadOrStore stays so, for the session it extracted: an end
\* seen stays seen.
LEMMA SeenStays ==
    ASSUME IndexInv, NEW c \in IndexCallers,
           \A d \in IndexCallers : d # c => indexPc'[d] = indexPc[d] /\ of'[d] = of[d],
           indexPc[c] \notin {"idle", "built"} => indexPc'[c] \notin {"idle", "built"} /\ of'[c] = of[c]
    PROVE  EndsSeen \subseteq EndsSeen'
BY DEF EndsSeen

\* A step that leaves the highest end and the sweeps' own alone keeps them.
LEMMA SweepsUntouched ==
    ASSUME IndexInv, NEW c \in IndexCallers,
           \A d \in IndexCallers : d # c => indexPc'[d] = indexPc[d] /\ of'[d] = of[d] /\ sweep'[d].prev = sweep[d].prev,
           indexPc[c] \notin {"idle", "built"} => indexPc'[c] \notin {"idle", "built"} /\ of'[c] = of[c],
           indexPc'[c] # "idle" => of'[c] \in SessionIDs,
           indexPc'[c] \in {"range", "drop"} => indexPc[c] \in {"range", "drop"} /\ sweep'[c].prev = sweep[c].prev,
           highest' = highest,
           sweep' \in [IndexCallers -> [prev : Nat, dropped : IndexCallers \cup {None}, found : Addrs \cup {None}]]
    PROVE  SweepsFromSeen'
<1>1. EndsSeen \subseteq EndsSeen'
  BY SeenStays
<1>2. \A d \in IndexCallers : indexPc'[d] # "idle" => of'[d] \in SessionIDs
  BY DEF IndexInv, SweepsFromSeen
<1>3. \A d \in IndexCallers : indexPc'[d] \in {"range", "drop"} =>
          /\ sweep'[d].prev = 0 \/ sweep'[d].prev \in EndsSeen'
          /\ sweep'[d].prev < EndOf[of'[d]]
  BY <1>1 DEF IndexInv, SweepsFromSeen
<1>4. QED
  BY <1>1, <1>2, <1>3 DEF IndexInv, SweepsFromSeen

\* The index invariant is inductive.
LEMMA IndexNextInv == IndexInv /\ [IndexNext]_indexVars => IndexInv'
<1> SUFFICES ASSUME IndexInv, [IndexNext]_indexVars PROVE IndexInv'
  OBVIOUS
<1>0. IndexTypeOK /\ SweepsFromSeen
  BY DEF IndexInv
<1>1. ASSUME NEW c \in IndexCallers, Extract(c) PROVE IndexInv'
  <2>1. PICK s \in SessionIDs : of' = [of EXCEPT ![c] = s]
    BY <1>1, Zenon DEF Extract
  <2>2. IndexTypeOK'
    BY <1>0, <1>1, <2>1 DEF Extract, IndexGoto, IndexTypeOK
  <2>3. SweepsFromSeen'
    BY <1>0, <1>1, <2>1, SweepsUntouched DEF Extract, IndexGoto, IndexTypeOK, SweepsFromSeen
  <2>4. QED
    BY <2>2, <2>3 DEF IndexInv
<1>2. ASSUME NEW c \in IndexCallers, LoadOrStore(c) PROVE IndexInv'
  <2>1. of[c] \in SessionIDs
    BY <1>0, <1>2 DEF LoadOrStore, SweepsFromSeen
  <2>2. IndexTypeOK'
    BY <1>0, <1>2, <2>1, IndexAssumption DEF LoadOrStore, IndexGoto, IndexTypeOK
  <2>3. SweepsFromSeen'
    BY <1>0, <1>2, <2>1, SweepsUntouched DEF LoadOrStore, IndexGoto, IndexTypeOK, SweepsFromSeen
  <2>4. QED
    BY <2>2, <2>3 DEF IndexInv
<1>3. ASSUME NEW c \in IndexCallers, Index(c) \/ EvictCheck(c) PROVE IndexInv'
  <2>1. IndexTypeOK'
    BY <1>0, <1>3 DEF Index, EvictCheck, IndexGoto, IndexTypeOK
  <2>2. SweepsFromSeen'
    BY <1>0, <1>3, SweepsUntouched DEF Index, EvictCheck, IndexGoto, IndexTypeOK, SweepsFromSeen
  <2>3. QED
    BY <2>1, <2>2 DEF IndexInv
<1>4. ASSUME NEW c \in IndexCallers, EvictLock(c) PROVE IndexInv'
  <2>0. of[c] \in SessionIDs /\ EndOf[of[c]] \in Nat /\ EndOf[of[c]] \in EndsSeen /\ highest \in Nat
    BY <1>0, <1>4, IndexAssumption DEF EvictLock, SweepsFromSeen, EndsSeen, IndexTypeOK
  <2>1. CASE EndOf[of[c]] <= highest
    <3>1. IndexTypeOK'
      BY <1>0, <1>4, <2>1 DEF EvictLock, IndexGoto, IndexTypeOK
    <3>2. SweepsFromSeen'
      BY <1>0, <1>4, <2>1, SweepsUntouched DEF EvictLock, IndexGoto, IndexTypeOK, SweepsFromSeen
    <3>3. QED
      BY <3>1, <3>2 DEF IndexInv
  <2>2. CASE ~(EndOf[of[c]] <= highest)
    <3>1. /\ rolloverMu' = c /\ highest' = EndOf[of[c]] /\ indexPc' = [indexPc EXCEPT ![c] = "range"]
          /\ range' = [range EXCEPT ![c] = {s \in SessionIDs : endpointCache[s] # None}]
          /\ sweep' = [sweep EXCEPT ![c].prev = highest]
          /\ UNCHANGED <<endpointCache, byServiceAddr, of, addrs>>
      BY <1>4, <2>2 DEF EvictLock, IndexGoto, NewHighest
    <3>2. IndexTypeOK'
      BY <1>0, <2>0, <3>1 DEF IndexTypeOK
    <3>3. /\ sweep' \in [IndexCallers -> [prev : Nat, dropped : IndexCallers \cup {None}, found : Addrs \cup {None}]]
          /\ sweep'[c].prev = highest /\ \A d \in IndexCallers : d # c => sweep'[d] = sweep[d]
      BY <1>0, <2>0, <3>1 DEF SweepsFromSeen
    <3>4. EndsSeen \subseteq EndsSeen'
      BY <1>0, <3>1, SeenStays DEF IndexTypeOK
    <3>5. highest < EndOf[of[c]]
      BY <2>0, <2>2
    <3>6. \A d \in IndexCallers : indexPc'[d] \in {"range", "drop"} =>
              /\ sweep'[d].prev = 0 \/ sweep'[d].prev \in EndsSeen'
              /\ sweep'[d].prev < EndOf[of'[d]]
      BY <1>0, <3>1, <3>3, <3>4, <3>5 DEF IndexTypeOK, SweepsFromSeen
    <3>7. (\A d \in IndexCallers : indexPc'[d] # "idle" => of'[d] \in SessionIDs) /\ highest' \in EndsSeen'
      BY <1>0, <2>0, <3>1, <3>4 DEF IndexTypeOK, SweepsFromSeen
    <3>8. QED
      BY <3>2, <3>3, <3>6, <3>7 DEF IndexInv, SweepsFromSeen
  <2>3. QED
    BY <2>1, <2>2
<1>5. ASSUME NEW c \in IndexCallers, Visit(c) PROVE IndexInv'
  <2>1. PICK s \in SessionIDs :
          /\ endpointCache[s] # None
          /\ range' = [range EXCEPT ![c] = @ \ {s}]
          /\ IF IndexStale(c, s)
             THEN /\ endpointCache' = [endpointCache EXCEPT ![s] = None]
                  /\ addrs' = [addrs EXCEPT ![c] = AddrsOf[s]]
                  /\ sweep' = [sweep EXCEPT ![c].dropped = endpointCache[s]]
                  /\ IndexGoto(c, "drop")
             ELSE UNCHANGED <<endpointCache, addrs, sweep, indexPc>>
    BY <1>5, Zenon DEF Visit
  <2>2. indexPc[c] = "range" /\ UNCHANGED <<byServiceAddr, highest, rolloverMu, of>>
    BY <1>5 DEF Visit
  <2>3. IndexTypeOK'
    BY <1>0, <2>1, <2>2, IndexAssumption DEF IndexGoto, IndexTypeOK
  <2>4. /\ sweep' \in [IndexCallers -> [prev : Nat, dropped : IndexCallers \cup {None}, found : Addrs \cup {None}]]
        /\ \A d \in IndexCallers : sweep'[d].prev = sweep[d].prev
    <3>1. endpointCache[s] \in IndexCallers \cup {None}
      BY <1>0 DEF IndexTypeOK
    <3>2. CASE sweep' = [sweep EXCEPT ![c].dropped = endpointCache[s]]
      BY <1>0, <3>1, <3>2 DEF SweepsFromSeen
    <3>3. CASE sweep' = sweep
      BY <1>0, <3>3 DEF SweepsFromSeen
    <3>4. QED
      BY <2>1, <3>2, <3>3
  <2>5. SweepsFromSeen'
    BY <1>0, <2>1, <2>2, <2>4, SweepsUntouched, Zenon DEF IndexGoto, IndexTypeOK, SweepsFromSeen
  <2>6. QED
    BY <2>3, <2>5 DEF IndexInv
<1>6. ASSUME NEW c \in IndexCallers, IndexLoad(c) \/ IndexDelete(c) \/ DropDone(c) PROVE IndexInv'
  <2>1. /\ indexPc[c] = "drop" /\ UNCHANGED <<endpointCache, highest, rolloverMu, of, range>>
        /\ indexPc' = indexPc \/ indexPc' = [indexPc EXCEPT ![c] = "range"]
    BY <1>6 DEF IndexLoad, IndexDelete, DropDone, IndexGoto
  <2>2. addrs' \in [IndexCallers -> SUBSET Addrs] /\ byServiceAddr' \in [Addrs -> IndexCallers \cup {None}]
    BY <1>0, <1>6 DEF IndexLoad, IndexDelete, DropDone, IndexTypeOK
  <2>3. /\ sweep' \in [IndexCallers -> [prev : Nat, dropped : IndexCallers \cup {None}, found : Addrs \cup {None}]]
        /\ \A d \in IndexCallers : sweep'[d].prev = sweep[d].prev
    BY <1>0, <1>6 DEF IndexLoad, IndexDelete, DropDone, IndexTypeOK, SweepsFromSeen
  <2>4. IndexTypeOK'
    BY <1>0, <2>1, <2>2 DEF IndexTypeOK
  <2>5. SweepsFromSeen'
    BY <1>0, <2>1, <2>3, SweepsUntouched DEF IndexTypeOK, SweepsFromSeen
  <2>6. QED
    BY <2>4, <2>5 DEF IndexInv
<1>7. ASSUME NEW c \in IndexCallers, Unlock(c) PROVE IndexInv'
  <2>1. IndexTypeOK'
    BY <1>0, <1>7 DEF Unlock, IndexGoto, IndexTypeOK
  <2>2. SweepsFromSeen'
    BY <1>0, <1>7, SweepsUntouched, Zenon DEF Unlock, IndexGoto, IndexTypeOK, SweepsFromSeen, NoSweep
  <2>3. QED
    BY <2>1, <2>2 DEF IndexInv
<1>8. CASE UNCHANGED indexVars
  BY <1>0, <1>8 DEF indexVars, IndexInv, IndexTypeOK, SweepsFromSeen, EndsSeen
<1>9. QED
  BY <1>1, <1>2, <1>3, <1>4, <1>5, <1>6, <1>7, <1>8 DEF IndexNext

\* However many callers extract sessions, in whatever order they store, index
\* and sweep: an entry is dropped only once two newer session ends were seen.
THEOREM CurrentAndPreviousKept == IndexSpec => KeepsCurrentAndPrevious
<1>1. IndexInv /\ [IndexNext]_indexVars =>
        [\A s \in SessionIDs :
            endpointCache[s] # None /\ endpointCache'[s] = None
                => Cardinality({e \in EndsSeen : e > EndOf[s]}) >= 2]_indexVars
  <2> SUFFICES ASSUME IndexInv, IndexNext, NEW s \in SessionIDs,
                      endpointCache[s] # None, endpointCache'[s] = None
               PROVE  Cardinality({e \in EndsSeen : e > EndOf[s]}) >= 2
    BY DEF indexVars
  <2>0. IndexTypeOK /\ SweepsFromSeen
    BY Zenon DEF IndexInv
  <2>1. PICK c \in IndexCallers : Visit(c) /\ IndexStale(c, s)
    BY <2>0, IndexAssumption
       DEF IndexNext, Extract, LoadOrStore, Index, EvictCheck, EvictLock, Visit, IndexLoad, IndexDelete,
           DropDone, Unlock, IndexGoto, IndexTypeOK
  <2>2. /\ indexPc[c] = "range" /\ of[c] \in SessionIDs /\ EndOf[s] \in Nat /\ EndOf[of[c]] \in Nat
        /\ sweep[c].prev \in Nat /\ EndOf[s] < sweep[c].prev /\ sweep[c].prev < EndOf[of[c]]
    BY <2>0, <2>1, IndexAssumption DEF Visit, IndexStale, SweepsFromSeen
  <2>3. sweep[c].prev \in EndsSeen /\ EndOf[of[c]] \in EndsSeen
    BY <2>0, <2>2 DEF SweepsFromSeen, EndsSeen
  <2> DEFINE newer == {e \in EndsSeen : e > EndOf[s]}
             pair == {sweep[c].prev, EndOf[of[c]]}
  <2>4. pair \subseteq newer
    BY <2>2, <2>3
  <2>5. IsFiniteSet(EndsSeen)
    <3> DEFINE D == {d \in IndexCallers : indexPc[d] \notin {"idle", "built"}}
               f == [d \in D |-> EndOf[of[d]]]
    <3>1. IsFiniteSet(D)
      BY IndexAssumption, FS_Subset
    <3>2. f \in Surjection(D, EndsSeen)
      BY DEF Surjection, EndsSeen
    <3>3. QED
      BY <3>1, <3>2, FS_Surjection
  <2>6. IsFiniteSet(newer)
    BY <2>5, FS_Subset
  <2>7. Cardinality(pair) = 2
    <3>1. sweep[c].prev # EndOf[of[c]]
      BY <2>2
    <3>2. pair = {sweep[c].prev} \cup {EndOf[of[c]]}
      OBVIOUS
    <3>3. IsFiniteSet({sweep[c].prev}) /\ Cardinality({sweep[c].prev}) = 1
      BY FS_Singleton, Zenon
    <3>4. Cardinality({sweep[c].prev} \cup {EndOf[of[c]]})
            = IF EndOf[of[c]] \in {sweep[c].prev} THEN Cardinality({sweep[c].prev}) ELSE Cardinality({sweep[c].prev}) + 1
      BY <3>3, FS_AddElement, Zenon
    <3>5. QED
      BY <3>1, <3>2, <3>3, <3>4
  <2>8. Cardinality(pair) <= Cardinality(newer) /\ Cardinality(newer) \in Nat
    BY <2>4, <2>6, FS_Subset, FS_CardinalityType
  <2>9. QED
    BY <2>7, <2>8
<1>2. QED
  BY IndexInitInv, IndexNextInv, <1>1, PTL DEF IndexSpec, KeepsCurrentAndPrevious

-----------------------------------------------------------------------------
(* The session cache.                                                      *)

\* Multiplication keeps the order.
LEMMA Times == \A i, j, k \in Nat : i <= j => i * k <= j * k
  OBVIOUS

\* What integer division by the session length leaves.
LEMMA Divides ==
    \A n \in Nat : /\ n \div Length \in Nat
                   /\ (n \div Length) * Length <= n
                   /\ n < (n \div Length) * Length + Length
<1> SUFFICES ASSUME NEW n \in Nat
             PROVE  /\ n \div Length \in Nat
                    /\ (n \div Length) * Length <= n
                    /\ n < (n \div Length) * Length + Length
  OBVIOUS
<1>1. n \div Length \in Nat
  BY SessionsAssumption
<1>2. n = Length * (n \div Length) + (n % Length) /\ n % Length \in 0..(Length - 1)
  BY SessionsAssumption
<1>3. QED
  BY SessionsAssumption, <1>1, <1>2

\* A session ends at or after each of its blocks.
LEMMA EndFacts == \A h \in Nat \ {0} : SessionEnd(h) \in Nat /\ h <= SessionEnd(h)
<1> SUFFICES ASSUME NEW h \in Nat \ {0} PROVE SessionEnd(h) \in Nat /\ h <= SessionEnd(h)
  OBVIOUS
<1>1. h - 1 \in Nat
  OBVIOUS
<1> DEFINE q == (h - 1) \div Length
<1>2. q \in Nat /\ h - 1 < q * Length + Length
  BY <1>1, Divides
<1>3. q * Length \in Nat /\ (q + 1) * Length = q * Length + Length
  BY <1>2, SessionsAssumption
<1> HIDE DEF q
<1>4. QED
  BY <1>2, <1>3, SessionsAssumption DEF SessionEnd, q

\* A later block's session ends no earlier.
LEMMA EndMonotone == \A g, h \in Nat \ {0} : g <= h => SessionEnd(g) <= SessionEnd(h)
<1> SUFFICES ASSUME NEW g \in Nat \ {0}, NEW h \in Nat \ {0}, g <= h PROVE SessionEnd(g) <= SessionEnd(h)
  OBVIOUS
<1> DEFINE p == (g - 1) \div Length
           q == (h - 1) \div Length
<1>1. g - 1 \in Nat /\ h - 1 \in Nat /\ g - 1 <= h - 1
  OBVIOUS
<1>2. /\ p \in Nat /\ q \in Nat
      /\ p * Length <= g - 1 /\ h - 1 < q * Length + Length
  BY <1>1, Divides
<1>3. SessionEnd(g) = (p + 1) * Length /\ SessionEnd(h) = (q + 1) * Length
  BY DEF SessionEnd
<1> HIDE DEF p, q
<1>4. p <= q
  <2> SUFFICES ASSUME q + 1 <= p PROVE FALSE
    BY <1>2
  <2>1. (q + 1) * Length <= p * Length /\ (q + 1) * Length = q * Length + Length
    BY <1>2, Times, SessionsAssumption
  <2>2. p * Length \in Nat /\ q * Length \in Nat
    BY <1>2, SessionsAssumption
  <2>3. QED
    BY <1>1, <1>2, <2>1, <2>2, SessionsAssumption
<1>5. (p + 1) * Length <= (q + 1) * Length
  BY <1>2, <1>4, Times, SessionsAssumption
<1>6. QED
  BY <1>3, <1>5

\* One fetch is out at a time.  The chain moves at most once under it, and what
\* it answers is of a block at most SessionLag behind the one it was asked at; a
\* node that is never behind answers with nothing older than the cached session.
FetchesRecent ==
    /\ \A c \in SessionCallers : fetch[c].st # "none" =>
          /\ leader = c
          /\ fetch[c].height <= fetch[c].at /\ fetch[c].at <= sessionChain
          /\ sessionChain <= fetch[c].at + 1
    /\ \A c \in SessionCallers : fetch[c].st \in {"none", "asked"} => fetch[c].ans = 0
    /\ \A c \in SessionCallers : fetch[c].st \in {"answered", "compared"} => fetch[c].ans # 0
    /\ \A c \in SessionCallers : fetch[c].ans # 0 => fetch[c].at <= fetch[c].ans + SessionLag
    /\ \A c \in SessionCallers : fetch[c].ans <= SessionEnd(sessionChain)
    /\ cache <= SessionEnd(sessionChain)
    /\ SessionLag = 0 => \A c \in SessionCallers :
          fetch[c].st \in {"answered", "compared"} => cache <= fetch[c].ans

SessionInv == SessionTypeOK /\ FetchesRecent

Fetches == [st: {"none", "asked", "answered", "compared", "stored"},
            height: 0..SessionMaxHeight, at: 0..SessionMaxHeight, ans: Ends \cup {0}]
SessionCalls == [pc: Pcs, saw: Ends \cup {0}, back: Ends \cup {0}, since: 0..SessionMaxHeight]

\* The ends are heights.
LEMMA EndsAreHeights ==
    /\ \A n \in Ends \cup {0} : n \in Nat
    /\ \A h \in 1..SessionMaxHeight : SessionEnd(h) \in Ends /\ SessionEnd(h) \in Nat /\ SessionEnd(h) # 0
<1>1. \A h \in 1..SessionMaxHeight : SessionEnd(h) \in Nat /\ h <= SessionEnd(h)
  BY EndFacts, SessionsAssumption
<1>2. QED
  BY <1>1 DEF Ends

\* The gateway starts with no session and no fetch.
LEMMA SessionInitInv == SessionInit => SessionInv
<1> SUFFICES ASSUME SessionInit PROVE SessionInv
  OBVIOUS
<1>0. SessionEnd(sessionChain) \in Nat /\ sessionChain \in 1..SessionMaxHeight
  BY EndFacts, SessionsAssumption DEF SessionInit
<1>1. SessionTypeOK
  <2>1. NoFetch \in Fetches
    BY SessionsAssumption DEF NoFetch, Fetches
  <2>2. Idle \in SessionCalls
    BY SessionsAssumption DEF Idle, SessionCalls, Pcs
  <2>3. NoHold \in [on: BOOLEAN, height: 0..SessionMaxHeight, err: BOOLEAN]
    BY SessionsAssumption DEF NoHold
  <2>4. fetch \in [SessionCallers -> Fetches] /\ sessionCall \in [SessionCallers -> SessionCalls]
    BY <2>1, <2>2 DEF SessionInit
  <2>5. wait \in [SessionCallers -> SessionCallers \cup {None}]
    BY DEF SessionInit
  <2>6. latest \in 0..sessionChain /\ wsAsked \in 0..SessionMaxHeight
    BY <1>0, SessionsAssumption DEF SessionInit
  <2>7. QED
    BY <1>0, <2>3, <2>4, <2>5, <2>6, Zenon DEF SessionInit, SessionTypeOK, Fetches, SessionCalls
<1>2. FetchesRecent
  BY <1>0, SessionsAssumption DEF SessionInit, FetchesRecent, NoFetch
<1>3. QED
  BY <1>1, <1>2 DEF SessionInv

\* A caller's own step touches neither the chain, the cache, nor what is fetched,
\* unless it starts a fetch.
LEMMA CallerKeepsFetches ==
    ASSUME FetchesRecent, UNCHANGED <<sessionChain, cache, leader, fetch>>
    PROVE  FetchesRecent'
BY DEF FetchesRecent

\* Every step of a call keeps the types.
LEMMA CallStepTypeOK ==
    ASSUME SessionTypeOK, NEW c \in SessionCallers, Begin(c) \/ CallerStep(c) \/ GiveUp(c)
    PROVE  SessionTypeOK'
<1> USE DEF Fetches, SessionCalls
<1>0. sessionCall[c] \in SessionCalls /\ 0 \in Ends \cup {0} /\ latest \in 0..SessionMaxHeight
      /\ cache \in Ends \cup {0} /\ sessionCall \in [SessionCallers -> SessionCalls]
  BY SessionsAssumption DEF SessionTypeOK
<1>1. ASSUME NEW r \in SessionCalls, sessionCall' = [sessionCall EXCEPT ![c] = r],
             UNCHANGED <<sessionChain, latest, cache, hold, leader, fetch>>,
             bgRefreshing' \in BOOLEAN, wsAsked' \in 0..SessionMaxHeight,
             wait' \in [SessionCallers -> SessionCallers \cup {None}]
      PROVE  SessionTypeOK'
  BY <1>1 DEF SessionTypeOK
<1> HIDE DEF Fetches
<1>2. CASE Begin(c)
  <2> DEFINE r == [Idle EXCEPT !.pc = IF c \in Dials THEN "dial" ELSE "get", !.since = latest]
  <2>1. r \in SessionCalls
    BY <1>0, Zenon DEF Idle, Pcs
  <2>2. QED
    BY <1>1, <1>2, <2>1 DEF Begin, Keep, node, SessionTypeOK
<1>3. CASE LoadCache(c)
  <2> DEFINE pc == IF At(c, "dial") THEN "dialHeight" ELSE IF cache = 0 THEN "refresh" ELSE "height"
             r == [sessionCall[c] EXCEPT !.saw = cache, !.pc = pc]
  <2>1. r \in SessionCalls
    BY <1>0, Zenon DEF Pcs
  <2>2. sessionCall' = [sessionCall EXCEPT ![c] = r]
    BY <1>0, <1>3 DEF LoadCache, At
  <2>3. QED
    BY <1>1, <1>3, <2>1, <2>2, Zenon DEF LoadCache, Keep, node, SessionTypeOK
<1>4. ASSUME NEW pc \in Pcs, NEW s \in Ends \cup {0}, NEW b \in Ends \cup {0},
             sessionCall' = [sessionCall EXCEPT ![c] = [@ EXCEPT !.pc = pc, !.saw = s, !.back = b]],
             UNCHANGED <<sessionChain, latest, cache, hold, leader, fetch, bgRefreshing>>,
             wsAsked' \in 0..SessionMaxHeight,
             wait' \in [SessionCallers -> SessionCallers \cup {None}]
      PROVE  SessionTypeOK'
  <2> DEFINE r == [sessionCall[c] EXCEPT !.pc = pc, !.saw = s, !.back = b]
  <2>1. r \in SessionCalls
    BY <1>0, Zenon
  <2>2. sessionCall' = [sessionCall EXCEPT ![c] = r]
    BY <1>0, <1>4
  <2>3. bgRefreshing' \in BOOLEAN
    BY <1>4 DEF SessionTypeOK
  <2> HIDE DEF r
  <2>4. QED
    BY <1>1, <1>4, <2>1, <2>2, <2>3, Zenon
<1>5. ASSUME NEW pc \in Pcs, SessionGoto(c, pc),
             UNCHANGED <<sessionChain, latest, cache, hold, leader, fetch, bgRefreshing, wsAsked>>,
             wait' \in [SessionCallers -> SessionCallers \cup {None}]
      PROVE  SessionTypeOK'
  <2> DEFINE r == [sessionCall[c] EXCEPT !.pc = pc]
  <2>1. r \in SessionCalls /\ sessionCall' = [sessionCall EXCEPT ![c] = r]
    BY <1>0, <1>5 DEF SessionGoto
  <2>2. bgRefreshing' \in BOOLEAN /\ wsAsked' \in 0..SessionMaxHeight
    BY <1>5 DEF SessionTypeOK
  <2> HIDE DEF r
  <2>3. QED
    BY <1>1, <1>5, <2>1, <2>2, Zenon
<1>6. ASSUME NEW s \in Ends \cup {0}, Done(c, s),
             UNCHANGED <<sessionChain, latest, cache, hold, leader, fetch, bgRefreshing>>,
             wsAsked' \in 0..SessionMaxHeight,
             wait' \in [SessionCallers -> SessionCallers \cup {None}]
      PROVE  SessionTypeOK'
  <2>1. "done" \in Pcs
    BY DEF Pcs
  <2>2. QED
    BY <1>0, <1>4, <1>6, <2>1, Zenon DEF Done
<1>7. {"refresh", "schedule", "mark", "get", "join", "wait", "heldAnswer"} \subseteq Pcs
  BY DEF Pcs
<1>8. wsAsked \in 0..SessionMaxHeight /\ wait \in [SessionCallers -> SessionCallers \cup {None}]
      /\ sessionCall[c].saw \in Ends \cup {0} /\ sessionCall[c].back \in Ends \cup {0}
  BY <1>0 DEF SessionTypeOK
<1>9. CASE LoadHeight(c)
  <2>1. UNCHANGED <<sessionChain, latest, cache, hold, leader, fetch, bgRefreshing, wsAsked, wait>>
    BY <1>9, Zenon DEF LoadHeight, Keep, node
  <2>2. CASE Done(c, sessionCall[c].saw)
    BY <1>6, <1>8, <2>1, <2>2, Zenon
  <2>3. CASE SessionGoto(c, "schedule")
    BY <1>5, <1>7, <1>8, <2>1, <2>3, Zenon
  <2>4. CASE sessionCall' = [sessionCall EXCEPT ![c] = [@ EXCEPT !.pc = "refresh", !.saw = 0]]
    <3>1. sessionCall' = [sessionCall EXCEPT ![c] = [@ EXCEPT !.pc = "refresh", !.saw = 0,
                                                          !.back = sessionCall[c].back]]
      BY <1>0, <2>4, Zenon
    <3>2. QED
      BY <1>0, <1>4, <1>7, <1>8, <2>1, <3>1, Zenon
  <2>5. QED
    BY <1>9, <2>2, <2>3, <2>4 DEF LoadHeight
<1>10. CASE ScheduleChecksHold(c)
  <2>1. UNCHANGED <<sessionChain, latest, cache, hold, leader, fetch, bgRefreshing, wsAsked, wait>>
    BY <1>10 DEF ScheduleChecksHold, Keep, node
  <2>2. CASE Done(c, sessionCall[c].saw)
    BY <1>6, <1>8, <2>1, <2>2
  <2>3. CASE SessionGoto(c, "mark")
    BY <1>5, <1>7, <1>8, <2>1, <2>3
  <2>4. QED
    BY <1>10, <2>2, <2>3 DEF ScheduleChecksHold
<1>11. CASE ScheduleMarks(c)
  <2> DEFINE r == [sessionCall[c] EXCEPT !.pc = "done"]
             b == [Idle EXCEPT !.pc = "refresh", !.since = latest]
  <2>1. r \in SessionCalls /\ b \in SessionCalls
    BY <1>0, Zenon DEF Pcs, Idle
  <2>2. sessionCall' = [sessionCall EXCEPT ![c] = r, ![Bg] = IF bgRefreshing THEN @ ELSE b]
    BY <1>0, <1>11 DEF ScheduleMarks
  <2> HIDE DEF r, b
  <2>3. sessionCall' \in [SessionCallers -> SessionCalls]
    BY <1>0, <2>1, <2>2 DEF SessionCallers
  <2>4. QED
    BY <1>11, <2>3, Zenon DEF ScheduleMarks, node, SessionTypeOK
<1>12. CASE DialHeight(c)
  <2>1. UNCHANGED <<sessionChain, latest, cache, hold, leader, fetch, bgRefreshing, wait>>
        /\ wsAsked' \in 0..SessionMaxHeight
    BY <1>0, <1>8, <1>12 DEF DialHeight, node
  <2>2. CASE Done(c, sessionCall[c].saw)
    BY <1>6, <1>8, <2>1, <2>2, Zenon
  <2>3. ASSUME NEW pc \in {"get", "refresh"},
               sessionCall' = [sessionCall EXCEPT ![c] = [@ EXCEPT !.pc = pc, !.saw = 0]]
        PROVE  SessionTypeOK'
    <3>1. sessionCall' = [sessionCall EXCEPT ![c] = [@ EXCEPT !.pc = pc, !.saw = 0,
                                                          !.back = sessionCall[c].back]]
      BY <1>0, <2>3, Zenon
    <3>2. QED
      BY <1>0, <1>4, <1>7, <1>8, <2>1, <3>1, Zenon
  <2>4. CASE sessionCall' = [sessionCall EXCEPT ![c] = [@ EXCEPT !.pc = "refresh", !.saw = 0,
                                                          !.back = sessionCall[c].saw]]
    BY <1>0, <1>4, <1>7, <1>8, <2>1, <2>4, Zenon
  <2>5. QED
    BY <1>12, <2>2, <2>3, <2>4 DEF DialHeight
<1>13. ASSUME NEW s \in Ends \cup {0}, Answer(c, s),
             UNCHANGED <<sessionChain, latest, cache, hold, leader, fetch, bgRefreshing, wsAsked>>,
             wait' \in [SessionCallers -> SessionCallers \cup {None}]
      PROVE  SessionTypeOK'
  BY <1>6, <1>8, <1>13 DEF Answer
<1>14. CASE RefreshChecksHold(c)
  <2>1. UNCHANGED <<sessionChain, latest, cache, hold, leader, fetch, bgRefreshing, wsAsked, wait>>
    BY <1>14, Zenon DEF RefreshChecksHold, Keep, node
  <2>2. ASSUME NEW pc \in {"join", "heldAnswer"}, SessionGoto(c, pc) PROVE SessionTypeOK'
    BY <1>5, <1>7, <1>8, <2>1, <2>2
  <2>3. CASE Answer(c, 0)
    BY <1>0, <1>8, <1>13, <2>1, <2>3
  <2>4. QED
    BY <1>14, <2>2, <2>3 DEF RefreshChecksHold
<1>15. CASE HeldAnswer(c)
  BY <1>0, <1>8, <1>13, <1>15 DEF HeldAnswer, Keep, node
<1>16. CASE GiveUp(c)
  <2>1. wait' \in [SessionCallers -> SessionCallers \cup {None}]
    BY <1>8, <1>16, Zenon DEF GiveUp
  <2>2. QED
    BY <1>0, <1>13, <1>16, <2>1, Zenon DEF GiveUp, node
<1>17. CASE SessionReturn(c)
  <2>1. Idle \in SessionCalls
    BY SessionsAssumption DEF Idle, Pcs
  <2>2. QED
    BY <1>1, <1>8, <1>17, <2>1 DEF SessionReturn, node, SessionTypeOK
<1>18. CASE Join(c)
  <2>1. sessionCall' \in [SessionCallers -> SessionCalls]
    BY <1>0, <1>7, <1>18 DEF Join, SessionGoto
  <2>2. leader' \in SessionCallers \cup {None} /\ wait' \in [SessionCallers -> SessionCallers \cup {None}]
    BY <1>8, <1>18 DEF Join, SessionTypeOK
  <2>3. [st |-> "asked", height |-> latest, at |-> sessionChain, ans |-> 0] \in Fetches
    BY <1>0 DEF Fetches, SessionTypeOK
  <2>4. fetch' \in [SessionCallers -> Fetches]
    <3>1. fetch \in [SessionCallers -> Fetches]
      BY DEF SessionTypeOK, Fetches
    <3>2. QED
      BY <1>18, <2>3, <3>1 DEF Join
  <2>5. QED
    BY <1>18, <2>1, <2>2, <2>4 DEF Join, node, SessionTypeOK, Fetches
<1>19. QED
  BY <1>2, <1>3, <1>9, <1>10, <1>11, <1>12, <1>14, <1>15, <1>16, <1>17, <1>18 DEF CallerStep

\* And so does every step of a fetch.
LEMMA FetchStepTypeOK ==
    ASSUME SessionTypeOK, NEW c \in SessionCallers, FetchStep(c)
    PROVE  SessionTypeOK'
<1>0. fetch \in [SessionCallers -> Fetches] /\ fetch[c] \in Fetches
      /\ sessionCall \in [SessionCallers -> SessionCalls]
      /\ wait \in [SessionCallers -> SessionCallers \cup {None}]
      /\ leader \in SessionCallers \cup {None}
      /\ hold \in [on: BOOLEAN, height: 0..SessionMaxHeight, err: BOOLEAN]
      /\ cache \in Ends \cup {0} /\ fetch[c].ans \in Ends \cup {0}
  BY DEF SessionTypeOK, Fetches, SessionCalls
<1>1. fetch' \in [SessionCallers -> Fetches]
  <2>1. ASSUME NEW st \in {"answered", "compared", "stored"}, NEW a \in Ends \cup {0},
               fetch' = [fetch EXCEPT ![c] = [@ EXCEPT !.st = st, !.ans = a]]
        PROVE  fetch' \in [SessionCallers -> Fetches]
    <3>1. [fetch[c] EXCEPT !.st = st, !.ans = a] \in Fetches
      BY <1>0, Zenon DEF Fetches
    <3>2. QED
      BY <1>0, <2>1, <3>1
  <2>2. CASE NodeAnswers(c)
    <3>1. PICK h \in (IF sessionChain > SessionLag THEN sessionChain - SessionLag ELSE 1)..sessionChain :
             fetch' = [fetch EXCEPT ![c].st = "answered", ![c].ans = SessionEnd(h)]
      BY <2>2, Zenon DEF NodeAnswers
    <3>2. SessionEnd(h) \in Ends
      BY EndsAreHeights, SessionsAssumption DEF SessionTypeOK
    <3>3. fetch' = [fetch EXCEPT ![c] = [@ EXCEPT !.st = "answered", !.ans = SessionEnd(h)]]
      BY <1>0, <3>1, Zenon
    <3>4. QED
      BY <2>1, <3>2, <3>3, Zenon
  <2>3. ASSUME NEW st \in {"compared", "stored"}, fetch' = [fetch EXCEPT ![c].st = st]
        PROVE  fetch' \in [SessionCallers -> Fetches]
    <3>1. [fetch[c] EXCEPT !.st = st] \in Fetches
      BY <1>0 DEF Fetches
    <3>2. fetch' = [fetch EXCEPT ![c] = [fetch[c] EXCEPT !.st = st]]
      BY <1>0, <2>3
    <3>3. QED
      BY <1>0, <3>1, <3>2
  <2>4. CASE Deliver(c)
    <3>1. NoFetch \in Fetches
      BY SessionsAssumption, SMTT(30) DEF NoFetch, Fetches
    <3>2. QED
      BY <1>0, <2>4, <3>1, Zenon DEF Deliver
  <2>5. QED
    BY <2>2, <2>3, <2>4, Zenon DEF FetchStep, NodeFails, Compare, Store
<1>2. hold' \in [on: BOOLEAN, height: 0..SessionMaxHeight, err: BOOLEAN]
  <2>1. fetch[c].height \in 0..SessionMaxHeight
    BY <1>0 DEF Fetches
  <2>2. \A e \in BOOLEAN : [on |-> TRUE, height |-> fetch[c].height, err |-> e]
                             \in [on: BOOLEAN, height: 0..SessionMaxHeight, err: BOOLEAN]
    BY <2>1
  <2>3. NoHold \in [on: BOOLEAN, height: 0..SessionMaxHeight, err: BOOLEAN]
    BY SessionsAssumption DEF NoHold
  <2>4. QED
    BY <1>0, <2>2, <2>3, Zenon DEF FetchStep, NodeAnswers, NodeFails, Compare, Store, Deliver, Hold
<1>3. sessionCall' \in [SessionCallers -> SessionCalls]
  <2>1. CASE Deliver(c)
    <3>1. \A d \in SessionCallers :
             [sessionCall[d] EXCEPT !.pc = "done", !.back = 0,
                 !.saw = IF fetch[c].ans = 0 THEN sessionCall[d].back ELSE fetch[c].ans] \in SessionCalls
      BY <1>0, ZenonT(60) DEF SessionCalls, Pcs
    <3>2. QED
      BY <1>0, <2>1, <3>1, Zenon DEF Deliver
  <2>2. CASE ~Deliver(c)
    BY <1>0, <2>2, Zenon DEF FetchStep, NodeAnswers, NodeFails, Compare, Store
  <2>3. QED
    BY <2>1, <2>2, Zenon
<1>4. cache' \in Ends \cup {0}
  BY <1>0, Zenon DEF FetchStep, NodeAnswers, NodeFails, Compare, Store, Deliver
<1>5. wait' \in [SessionCallers -> SessionCallers \cup {None}] /\ leader' \in SessionCallers \cup {None}
  BY <1>0, Zenon DEF FetchStep, NodeAnswers, NodeFails, Compare, Store, Deliver
<1>6. UNCHANGED <<sessionChain, latest, bgRefreshing, wsAsked>>
  BY Zenon DEF FetchStep, NodeAnswers, NodeFails, Compare, Store, Deliver, node
<1>7. QED
  BY <1>1, <1>2, <1>3, <1>4, <1>5, <1>6, Zenon DEF SessionTypeOK, Fetches, SessionCalls

\* What is fetched stays recent through every step of a fetch.
LEMMA FetchStepRecent ==
    ASSUME SessionInv, NEW c \in SessionCallers, FetchStep(c)
    PROVE  FetchesRecent'
<1>0. SessionTypeOK /\ FetchesRecent
  BY DEF SessionInv
<1>1. fetch \in [SessionCallers -> Fetches] /\ cache \in Ends \cup {0} /\ cache \in Nat
      /\ sessionChain \in 1..SessionMaxHeight /\ SessionEnd(sessionChain) \in Nat
  BY <1>0, EndsAreHeights DEF SessionTypeOK, Fetches
<1>2. \A d \in SessionCallers : fetch[d].ans \in Nat /\ fetch[d].at \in Nat /\ fetch[d].height \in Nat
  <2> SUFFICES ASSUME NEW d \in SessionCallers
               PROVE  fetch[d].ans \in Nat /\ fetch[d].at \in Nat /\ fetch[d].height \in Nat
    OBVIOUS
  <2>1. fetch[d].ans \in Ends \cup {0} /\ fetch[d].at \in 0..SessionMaxHeight
        /\ fetch[d].height \in 0..SessionMaxHeight
    BY <1>1, Zenon DEF Fetches
  <2>2. QED
    BY <2>1, EndsAreHeights, SessionsAssumption
<1>3. \A d \in SessionCallers \ {c} : fetch[d].st = "none" /\ fetch[d].ans = 0
  BY <1>0, Zenon DEF FetchesRecent, FetchStep, NodeAnswers, NodeFails, Compare, Store, Deliver
<1>4. CASE NodeAnswers(c)
  <2>1. PICK h \in (IF sessionChain > SessionLag THEN sessionChain - SessionLag ELSE 1)..sessionChain :
           fetch' = [fetch EXCEPT ![c].st = "answered", ![c].ans = SessionEnd(h)]
    BY <1>4, Zenon DEF NodeAnswers
  <2>2. h \in 1..SessionMaxHeight /\ h <= sessionChain /\ sessionChain <= h + SessionLag
        /\ (SessionLag = 0 => h = sessionChain)
    BY <1>1, SessionsAssumption
  <2>3. SessionEnd(h) \in Nat /\ SessionEnd(h) # 0 /\ h <= SessionEnd(h)
        /\ SessionEnd(h) <= SessionEnd(sessionChain)
    BY <1>1, <2>2, EndsAreHeights, EndFacts, EndMonotone, SessionsAssumption
  <2>4. /\ fetch'[c].st = "answered" /\ fetch'[c].ans = SessionEnd(h)
        /\ fetch'[c].at = fetch[c].at /\ fetch'[c].height = fetch[c].height
        /\ \A d \in SessionCallers \ {c} : fetch'[d] = fetch[d]
    BY <1>1, <2>1 DEF Fetches
  <2>5. UNCHANGED <<sessionChain, cache, leader>> /\ fetch[c].st = "asked"
    BY <1>4 DEF NodeAnswers, node
  <2>6. fetch[c].at <= SessionEnd(h) + SessionLag
    BY <1>0, <1>1, <1>2, <2>2, <2>3, <2>5, SessionsAssumption DEF FetchesRecent
  <2>7. SessionLag = 0 => cache <= SessionEnd(h)
    BY <1>0, <2>2 DEF FetchesRecent
  <2>8. QED
    BY <1>0, <1>3, <2>3, <2>4, <2>5, <2>6, <2>7 DEF FetchesRecent
<1>5. CASE NodeFails(c) \/ Compare(c)
  <2>1. PICK st \in {"compared", "stored"} :
          /\ fetch' = [fetch EXCEPT ![c].st = st]
          /\ st = "stored" => fetch[c].st = "asked"
          /\ st = "compared" => fetch[c].st = "answered"
    BY <1>5, Zenon DEF NodeFails, Compare
  <2>2. /\ fetch'[c].st = st /\ fetch'[c].ans = fetch[c].ans
        /\ fetch'[c].at = fetch[c].at /\ fetch'[c].height = fetch[c].height
        /\ \A d \in SessionCallers \ {c} : fetch'[d] = fetch[d]
    BY <1>1, <2>1 DEF Fetches
  <2>3. UNCHANGED <<sessionChain, cache, leader>>
    BY <1>5, Zenon DEF NodeFails, Compare, node
  <2>4. QED
    BY <1>0, <1>3, <2>1, <2>2, <2>3 DEF FetchesRecent
<1>6. CASE Store(c)
  <2>1. /\ fetch'[c].st = "stored" /\ fetch'[c].ans = fetch[c].ans
        /\ fetch'[c].at = fetch[c].at /\ fetch'[c].height = fetch[c].height
        /\ \A d \in SessionCallers \ {c} : fetch'[d] = fetch[d]
    BY <1>1, <1>6 DEF Fetches, Store
  <2>2. UNCHANGED <<sessionChain, leader>> /\ cache' = fetch[c].ans /\ fetch[c].st = "compared"
    BY <1>6, Zenon DEF Store, node
  <2>3. QED
    BY <1>0, <1>3, <2>1, <2>2 DEF FetchesRecent
<1>7. CASE Deliver(c)
  <2>1. \A d \in SessionCallers : fetch'[d].st = "none" /\ fetch'[d].ans = 0
    BY <1>1, <1>3, <1>7, Zenon DEF Deliver, NoFetch
  <2>2. UNCHANGED <<sessionChain, cache>>
    BY <1>7, Zenon DEF Deliver, node
  <2>3. QED
    BY <1>0, <1>1, <2>1, <2>2, SMTT(30) DEF FetchesRecent
<1>8. QED
  BY <1>4, <1>5, <1>6, <1>7 DEF FetchStep

\* The session cache keeps its invariant.
LEMMA SessionInvKept == SessionInv /\ [SessionNext]_sessionVars => SessionInv'
<1> SUFFICES ASSUME SessionInv, [SessionNext]_sessionVars PROVE SessionInv'
  OBVIOUS
<1>0. SessionTypeOK /\ FetchesRecent
  BY DEF SessionInv
<1>1. sessionChain \in 1..SessionMaxHeight /\ latest \in 0..sessionChain
      /\ cache \in Nat /\ SessionEnd(sessionChain) \in Nat
      /\ \A d \in SessionCallers : fetch[d].ans \in Nat /\ fetch[d].at \in Nat /\ fetch[d].height \in Nat
  BY <1>0, EndsAreHeights, SessionsAssumption DEF SessionTypeOK
<1>2. CASE Advance
  <2>1. sessionChain' = sessionChain + 1 /\ sessionChain' \in 1..SessionMaxHeight
    BY <1>1, <1>2, SessionsAssumption DEF Advance
  <2>2. SessionTypeOK'
    <3>1. latest' \in 0..sessionChain'
      BY <1>1, <1>2, <2>1, SessionsAssumption DEF Advance
    <3>2. QED
      BY <1>0, <1>2, <2>1, <3>1 DEF Advance, SessionTypeOK
  <2>3. SessionEnd(sessionChain) <= SessionEnd(sessionChain + 1) /\ SessionEnd(sessionChain + 1) \in Nat
    BY <1>1, <2>1, EndMonotone, EndsAreHeights, SessionsAssumption
  <2>4. \A d \in SessionCallers : fetch[d].ans <= SessionEnd(sessionChain + 1)
    BY <1>0, <1>1, <2>3 DEF FetchesRecent
  <2>5. cache <= SessionEnd(sessionChain + 1)
    BY <1>0, <1>1, <2>3 DEF FetchesRecent
  <2>6. \A d \in SessionCallers : fetch[d].st # "none" =>
           fetch[d].at <= sessionChain + 1 /\ sessionChain + 1 <= fetch[d].at + 1
    BY <1>1, <1>2 DEF Advance
  <2>7. FetchesRecent'
    BY <1>0, <1>2, <2>1, <2>4, <2>5, <2>6 DEF Advance, FetchesRecent
  <2>8. QED
    BY <2>2, <2>7 DEF SessionInv
<1>3. CASE Poll
  <2>1. latest' \in 0..sessionChain
    BY <1>1, <1>3 DEF Poll
  <2>2. SessionTypeOK'
    BY <1>0, <1>3, <2>1 DEF Poll, SessionTypeOK
  <2>3. QED
    BY <1>0, <1>3, <2>2, CallerKeepsFetches DEF Poll, SessionInv
<1>4. CASE HoldLapses
  <2>1. NoHold \in [on: BOOLEAN, height: 0..SessionMaxHeight, err: BOOLEAN]
    BY SessionsAssumption DEF NoHold
  <2>2. SessionTypeOK'
    BY <1>0, <1>4, <2>1 DEF HoldLapses, SessionTypeOK
  <2>3. QED
    BY <1>0, <1>4, <2>2, CallerKeepsFetches DEF HoldLapses, SessionInv
<1>5. ASSUME NEW c \in SessionCallers, Begin(c) \/ CallerStep(c) \/ GiveUp(c)
      PROVE  SessionInv'
  <2>1. SessionTypeOK'
    BY <1>0, <1>5, CallStepTypeOK
  <2>2. CASE ~Join(c)
    <3>1. UNCHANGED <<sessionChain, cache, leader, fetch>>
      BY <1>5, <2>2 DEF Begin, CallerStep, GiveUp, LoadCache, LoadHeight, ScheduleChecksHold, ScheduleMarks,
                        DialHeight, RefreshChecksHold, HeldAnswer, SessionReturn, Keep, node
    <3>2. QED
      BY <1>0, <2>1, <3>1, CallerKeepsFetches DEF SessionInv
  <2>3. CASE Join(c) /\ ~Leads(c)
    <3>1. UNCHANGED <<sessionChain, cache, leader, fetch>>
      BY <2>3 DEF Join, node
    <3>2. QED
      BY <1>0, <2>1, <3>1, CallerKeepsFetches DEF SessionInv
  <2>4. CASE Join(c) /\ Leads(c)
    <3>1. \A d \in SessionCallers : fetch[d].st = "none"
      BY <1>0, <2>4, SessionsAssumption DEF FetchesRecent, Leads, SessionCallers
    <3>2. UNCHANGED <<sessionChain, cache>> /\ leader' = c
          /\ fetch' = [fetch EXCEPT ![c] = [st |-> "asked", height |-> latest, at |-> sessionChain, ans |-> 0]]
      BY <2>4 DEF Join, node
    <3>3. /\ fetch'[c] = [st |-> "asked", height |-> latest, at |-> sessionChain, ans |-> 0]
          /\ \A d \in SessionCallers \ {c} : fetch'[d] = fetch[d]
      BY <1>0, <3>2 DEF SessionTypeOK
    <3>4. latest <= sessionChain /\ sessionChain <= sessionChain + 1 /\ 0 <= SessionEnd(sessionChain)
      BY <1>1
    <3>5. FetchesRecent'
      BY <1>0, <1>1, <3>1, <3>2, <3>3, <3>4 DEF FetchesRecent
    <3>6. QED
      BY <2>1, <3>5, Zenon DEF SessionInv
  <2>5. QED
    BY <2>2, <2>3, <2>4
<1>6. ASSUME NEW c \in SessionCallers, FetchStep(c) PROVE SessionInv'
  BY <1>0, <1>6, FetchStepTypeOK, FetchStepRecent DEF SessionInv
<1>7. CASE UNCHANGED sessionVars
  <2>1. SessionTypeOK'
    BY <1>0, <1>7 DEF sessionVars, SessionTypeOK
  <2>2. QED
    BY <1>0, <1>7, <2>1, CallerKeepsFetches, Zenon DEF sessionVars, SessionInv
<1>8. QED
  BY <1>2, <1>3, <1>4, <1>5, <1>6, <1>7 DEF SessionNext

\* The session invariant holds, for every lag of the full node.
LEMMA SessionInvHolds == SessionSpec => []SessionInv
BY SessionInitInv, SessionInvKept, PTL DEF SessionSpec

\* A later fetch never puts an older session back in the cache, as long as the
\* full node answers from the chain's own height: the cache stores whatever is
\* answered, so it is the single fetch in flight, asked after the last one was
\* stored, that keeps it from going back (sessions.go, doRefreshSession).
THEOREM CacheNeverGoesBack ==
    ASSUME SessionLag = 0
    PROVE  SessionSpec => CacheNeverRegresses
<1>1. SessionInv /\ [SessionNext]_sessionVars => [cache' >= cache]_cache
  <2> SUFFICES ASSUME SessionInv, [SessionNext]_sessionVars, cache' # cache
               PROVE  cache' >= cache
    BY Zenon
  <2>1. PICK c \in SessionCallers : Store(c)
    BY Zenon DEF SessionNext, sessionVars, Advance, Poll, HoldLapses, Begin, CallerStep, GiveUp, LoadCache,
           LoadHeight, ScheduleChecksHold, ScheduleMarks, DialHeight, RefreshChecksHold, HeldAnswer, Join,
           SessionReturn, Keep, node, FetchStep, NodeAnswers, NodeFails, Compare, Deliver
  <2>2. cache' = fetch[c].ans /\ cache <= fetch[c].ans
    BY <2>1 DEF Store, SessionInv, FetchesRecent
  <2>3. cache \in Nat /\ fetch[c].ans \in Nat
    BY EndsAreHeights DEF SessionInv, SessionTypeOK
  <2>4. QED
    BY <2>2, <2>3
<1>2. QED
  BY <1>1, SessionInvHolds, PTL DEF SessionSpec, CacheNeverRegresses

\* What a call r may hold while the poller is at height and s is cached: nothing
\* it has decided to hand out, or may yet fall back to, was past its grace when
\* the call began.
Honours(r, height, s) ==
    /\ r.since <= height
    /\ r.pc \in {"schedule", "mark"} => r.since <= r.saw + SessionGrace
    /\ r.pc = "done" /\ r.saw # 0 => r.since <= r.saw + SessionGrace
    /\ r.back # 0 => r.since <= r.back + SessionGrace
    /\ r.pc = "heldAnswer" /\ s # 0 => r.since <= s + SessionLag + 1

\* A hold is for a height the session it stands for, and the one about to be
\* stored over it, are recent at.
HoldsRecent ==
    hold.on /\ ~hold.err =>
        /\ hold.height <= cache + SessionLag
        /\ \A c \in SessionCallers : fetch[c].st = "compared" => hold.height <= fetch[c].ans + SessionLag

HonourInv == HoldsRecent /\ \A c \in SessionCallers : Honours(sessionCall[c], latest, cache)

\* Callers have begun at heights the poller has seen, and hold sessions.
LEMMA CallsAreHeights ==
    ASSUME SessionTypeOK, NEW c \in SessionCallers
    PROVE  /\ sessionCall[c].since \in Nat /\ sessionCall[c].saw \in Nat /\ sessionCall[c].back \in Nat
           /\ latest \in Nat /\ cache \in Nat /\ hold.height \in Nat
           /\ SessionLag \in Nat /\ SessionGrace \in Nat
<1>1. sessionCall[c].since \in 0..SessionMaxHeight /\ sessionCall[c].saw \in Ends \cup {0}
      /\ sessionCall[c].back \in Ends \cup {0} /\ hold.height \in 0..SessionMaxHeight
      /\ latest \in 0..sessionChain /\ sessionChain \in 1..SessionMaxHeight /\ cache \in Ends \cup {0}
  BY DEF SessionTypeOK
<1>2. QED
  BY <1>1, EndsAreHeights, SessionsAssumption

\* A caller's step keeps what it holds honoured.
LEMMA CallStepHonours ==
    ASSUME SessionInv, HonourInv, SessionLag < SessionGrace,
           NEW c \in SessionCallers, Begin(c) \/ CallerStep(c) \/ GiveUp(c)
    PROVE  HonourInv'
<1> DEFINE r == sessionCall[c]
<1>0. /\ SessionTypeOK /\ HoldsRecent /\ Honours(r, latest, cache)
      /\ sessionCall \in [SessionCallers -> SessionCalls]
  BY DEF SessionInv, HonourInv, SessionTypeOK, SessionCalls
<1>1. /\ r.since \in Nat /\ r.saw \in Nat /\ r.back \in Nat /\ latest \in Nat /\ cache \in Nat
      /\ hold.height \in Nat /\ SessionLag \in Nat /\ SessionGrace \in Nat
  BY <1>0, CallsAreHeights
<1>2. UNCHANGED <<sessionChain, latest, cache, hold>>
  BY SMTT(30) DEF Begin, CallerStep, GiveUp, LoadCache, LoadHeight, ScheduleChecksHold, ScheduleMarks, DialHeight,
         RefreshChecksHold, HeldAnswer, Join, SessionReturn, Keep, node
<1>3. \A d \in SessionCallers : fetch'[d].st = "compared" => fetch'[d] = fetch[d]
  <2>1. CASE Join(c) /\ Leads(c)
    BY <1>0, <2>1 DEF Join, SessionTypeOK
  <2>2. CASE ~(Join(c) /\ Leads(c))
    BY <2>2, SMTT(30) DEF Begin, CallerStep, GiveUp, LoadCache, LoadHeight, ScheduleChecksHold, ScheduleMarks, DialHeight,
         RefreshChecksHold, HeldAnswer, Join, SessionReturn, Keep
  <2>3. QED
    BY <2>1, <2>2, Zenon
<1>4. HoldsRecent'
  BY <1>0, <1>2, <1>3, Zenon DEF HoldsRecent
<1>5. ASSUME NEW q, Honours(q, latest, cache), sessionCall' = [sessionCall EXCEPT ![c] = q]
      PROVE  HonourInv'
  <2>1. \A d \in SessionCallers : Honours(sessionCall'[d], latest, cache)
    BY <1>0, <1>5, Zenon DEF HonourInv
  <2>2. QED
    BY <1>2, <1>4, <2>1, Zenon DEF HonourInv
<1>6. Honours(Idle, latest, cache)
  BY <1>1 DEF Honours, Idle
<1>7. ASSUME NEW pc \in {"get", "refresh", "height", "dialHeight", "join", "wait"}, NEW s \in Nat
      PROVE  /\ Honours([r EXCEPT !.pc = pc, !.saw = s], latest, cache)
             /\ Honours([r EXCEPT !.pc = pc], latest, cache)
  BY <1>0 DEF Honours, SessionCalls
<1>8. ASSUME NEW s \in Nat, s # 0 => r.since <= s + SessionGrace, Done(c, s)
      PROVE  HonourInv'
  <2> DEFINE q == [r EXCEPT !.pc = "done", !.saw = s, !.back = 0]
  <2>1. /\ q.since = r.since /\ q.pc = "done" /\ q.saw = s /\ q.back = 0
        /\ sessionCall' = [sessionCall EXCEPT ![c] = q]
    BY <1>0, <1>8 DEF Done, SessionCalls
  <2> HIDE DEF q
  <2>2. Honours(q, latest, cache)
    BY <1>0, <1>8, <2>1 DEF Honours
  <2>3. QED
    BY <1>5, <2>1, <2>2, Zenon
<1>9. ASSUME NEW s \in Nat, s # 0 => r.since <= s + SessionGrace, Answer(c, s)
      PROVE  HonourInv'
  <2>1. r.back # 0 => r.since <= r.back + SessionGrace
    BY <1>0 DEF Honours
  <2>2. QED
    BY <1>1, <1>8, <1>9, <2>1 DEF Answer
<1>10. CASE Begin(c)
  <2> DEFINE q == [Idle EXCEPT !.pc = IF c \in Dials THEN "dial" ELSE "get", !.since = latest]
  <2>1. q.since = latest /\ q.pc \in {"dial", "get"} /\ q.back = 0
    BY DEF Idle
  <2>2. Honours(q, latest, cache)
    BY <1>1, <2>1 DEF Honours
  <2>3. QED
    BY <1>5, <1>10, <2>2, Zenon DEF Begin
<1>11. CASE LoadCache(c)
  <2> DEFINE pc == IF At(c, "dial") THEN "dialHeight" ELSE IF cache = 0 THEN "refresh" ELSE "height"
  <2>1. sessionCall' = [sessionCall EXCEPT ![c] = [r EXCEPT !.pc = pc, !.saw = cache]]
    BY <1>0, <1>11 DEF LoadCache, At, SessionCalls
  <2>2. Honours([r EXCEPT !.pc = pc, !.saw = cache], latest, cache)
    BY <1>1, <1>7, Zenon
  <2>3. QED
    BY <1>5, <2>1, <2>2, Zenon
<1>12. CASE LoadHeight(c)
  <2>1. CASE Done(c, r.saw) /\ latest <= r.saw
    <3>1. r.since <= r.saw + SessionGrace
      BY <1>0, <1>1, <2>1 DEF Honours
    <3>2. QED
      BY <1>1, <1>8, <2>1, <3>1, Zenon
  <2>2. CASE SessionGoto(c, "schedule") /\ latest <= r.saw + SessionGrace
    <3> DEFINE q == [r EXCEPT !.pc = "schedule"]
    <3>1. /\ q.since = r.since /\ q.pc = "schedule" /\ q.saw = r.saw /\ q.back = r.back
          /\ sessionCall' = [sessionCall EXCEPT ![c] = q]
      BY <1>0, <2>2 DEF SessionGoto, SessionCalls
    <3> HIDE DEF q
    <3>2. r.since <= r.saw + SessionGrace
      BY <1>0, <1>1, <2>2 DEF Honours
    <3>3. Honours(q, latest, cache)
      BY <1>0, <3>1, <3>2 DEF Honours
    <3>4. QED
      BY <1>5, <3>1, <3>3, Zenon
  <2>3. CASE sessionCall' = [sessionCall EXCEPT ![c] = [@ EXCEPT !.pc = "refresh", !.saw = 0]]
    <3>1. sessionCall' = [sessionCall EXCEPT ![c] = [r EXCEPT !.pc = "refresh", !.saw = 0]]
      BY <2>3
    <3>2. QED
      BY <1>5, <1>7, <3>1, Zenon
  <2>4. QED
    BY <1>12, <2>1, <2>2, <2>3, Zenon DEF LoadHeight
<1>13. CASE ScheduleChecksHold(c)
  <2>1. r.pc = "schedule" /\ r.since <= r.saw + SessionGrace
    BY <1>0, <1>13, Zenon DEF ScheduleChecksHold, At, Honours
  <2>2. CASE Done(c, r.saw)
    BY <1>1, <1>8, <2>1, <2>2
  <2>3. CASE SessionGoto(c, "mark")
    <3> DEFINE q == [r EXCEPT !.pc = "mark"]
    <3>1. /\ q.since = r.since /\ q.pc = "mark" /\ q.saw = r.saw /\ q.back = r.back
          /\ sessionCall' = [sessionCall EXCEPT ![c] = q]
      BY <1>0, <2>3 DEF SessionGoto, SessionCalls
    <3> HIDE DEF q
    <3>2. Honours(q, latest, cache)
      BY <1>0, <2>1, <3>1 DEF Honours
    <3>3. QED
      BY <1>5, <3>1, <3>2, Zenon
  <2>4. QED
    BY <1>13, <2>2, <2>3 DEF ScheduleChecksHold
<1>14. CASE ScheduleMarks(c)
  <2> DEFINE q == [r EXCEPT !.pc = "done"]
             b == [Idle EXCEPT !.pc = "refresh", !.since = latest]
  <2>1. sessionCall' = [sessionCall EXCEPT ![c] = q, ![Bg] = IF bgRefreshing THEN @ ELSE b]
    BY <1>14 DEF ScheduleMarks
  <2>2. q.since = r.since /\ q.pc = "done" /\ q.saw = r.saw /\ q.back = r.back
    BY <1>0 DEF SessionCalls
  <2>3. b.since = latest /\ b.pc = "refresh" /\ b.back = 0
    BY DEF Idle
  <2> HIDE DEF q, b
  <2>4. r.since <= r.saw + SessionGrace
    BY <1>0, <1>14, Zenon DEF ScheduleMarks, At, Honours
  <2>5. Honours(q, latest, cache)
    BY <1>0, <2>2, <2>4, Zenon DEF Honours
  <2>6. Honours(b, latest, cache)
    BY <1>1, <2>3 DEF Honours
  <2>7. \A d \in SessionCallers : Honours(sessionCall'[d], latest, cache)
    BY <1>0, <2>1, <2>5, <2>6 DEF HonourInv
  <2>8. QED
    BY <1>2, <1>4, <2>7 DEF HonourInv
<1>15. CASE DialHeight(c)
  <2>1. ASSUME NEW pc \in {"get", "refresh"},
               sessionCall' = [sessionCall EXCEPT ![c] = [@ EXCEPT !.pc = pc, !.saw = 0]]
        PROVE  HonourInv'
    <3>1. sessionCall' = [sessionCall EXCEPT ![c] = [r EXCEPT !.pc = pc, !.saw = 0]]
      BY <2>1
    <3>2. QED
      BY <1>5, <1>7, <3>1, Zenon
  <2>2. ASSUME ~(latest > r.saw + SessionGrace) PROVE r.since <= r.saw + SessionGrace
    BY <1>0, <1>1, <2>2, SMTT(30) DEF Honours
  <2>3. CASE Done(c, r.saw) /\ ~(latest > r.saw + SessionGrace)
    BY <1>1, <1>8, <2>2, <2>3, Zenon
  <2>4. CASE /\ ~(latest > r.saw + SessionGrace)
             /\ sessionCall' = [sessionCall EXCEPT ![c] = [@ EXCEPT !.pc = "refresh", !.saw = 0,
                                                                 !.back = r.saw]]
    <3> DEFINE q == [r EXCEPT !.pc = "refresh", !.saw = 0, !.back = r.saw]
    <3>1. /\ q.since = r.since /\ q.pc = "refresh" /\ q.back = r.saw
          /\ sessionCall' = [sessionCall EXCEPT ![c] = q]
      BY <1>0, <2>4 DEF SessionCalls
    <3> HIDE DEF q
    <3>2. Honours(q, latest, cache)
      BY <1>0, <2>2, <2>4, <3>1 DEF Honours
    <3>3. QED
      BY <1>5, <3>1, <3>2, Zenon
  <2>5. QED
    BY <1>15, <2>1, <2>3, <2>4, Zenon DEF DialHeight
<1>16. CASE RefreshChecksHold(c)
  <2>1. CASE SessionGoto(c, "join")
    BY <1>1, <1>5, <1>7, <2>1, Zenon DEF SessionGoto
  <2>2. CASE Answer(c, 0)
    BY <1>9, <2>2
  <2>3. CASE SessionGoto(c, "heldAnswer") /\ held /\ ~hold.err
    <3> DEFINE q == [r EXCEPT !.pc = "heldAnswer"]
    <3>1. /\ q.since = r.since /\ q.pc = "heldAnswer" /\ q.back = r.back
          /\ sessionCall' = [sessionCall EXCEPT ![c] = q]
      BY <1>0, <2>3 DEF SessionGoto, SessionCalls
    <3> HIDE DEF q
    <3>2. latest <= hold.height /\ hold.height <= cache + SessionLag /\ r.since <= latest
      BY <1>0, <2>3 DEF held, HoldsRecent, Honours
    <3>3. r.since <= cache + SessionLag + 1
      BY <1>1, <3>2
    <3>4. Honours(q, latest, cache)
      BY <1>0, <3>1, <3>3, Zenon DEF Honours
    <3>5. QED
      BY <1>5, <3>1, <3>4, Zenon
  <2>4. QED
    BY <1>16, <2>1, <2>2, <2>3 DEF RefreshChecksHold
<1>17. CASE HeldAnswer(c)
  <2>1. cache # 0 => r.since <= cache + SessionLag + 1
    BY <1>0, <1>17, Zenon DEF HeldAnswer, At, Honours
  <2>2. cache # 0 => r.since <= cache + SessionGrace
    BY <1>1, <2>1, SMTT(30)
  <2>3. QED
    BY <1>1, <1>9, <1>17, <2>2, Zenon DEF HeldAnswer
<1>18. CASE Join(c)
  BY <1>1, <1>5, <1>7, <1>18, Zenon DEF Join, SessionGoto
<1>19. CASE SessionReturn(c)
  BY <1>5, <1>6, <1>19, Zenon DEF SessionReturn
<1>20. CASE GiveUp(c)
  BY <1>9, <1>20 DEF GiveUp
<1>21. QED
  BY <1>10, <1>11, <1>12, <1>13, <1>14, <1>15, <1>16, <1>17, <1>18, <1>19, <1>20, Zenon DEF CallerStep

\* And so does a step of a fetch, whose answer is recent for whoever waits.
LEMMA FetchStepHonours ==
    ASSUME SessionInv, HonourInv, SessionLag < SessionGrace, NEW c \in SessionCallers, FetchStep(c)
    PROVE  HonourInv'
<1> DEFINE f == fetch[c]
<1>0. /\ SessionTypeOK /\ FetchesRecent /\ HoldsRecent
      /\ \A d \in SessionCallers : Honours(sessionCall[d], latest, cache)
      /\ fetch \in [SessionCallers -> Fetches] /\ sessionCall \in [SessionCallers -> SessionCalls]
  BY DEF SessionInv, HonourInv, SessionTypeOK, Fetches, SessionCalls
<1>1. f.ans \in Nat /\ f.at \in Nat /\ f.height \in Nat
  <2>1. f.ans \in Ends \cup {0} /\ f.at \in 0..SessionMaxHeight /\ f.height \in 0..SessionMaxHeight
    BY <1>0, Zenon DEF Fetches
  <2>2. QED
    BY <2>1, EndsAreHeights, SessionsAssumption
<1>2. /\ sessionChain \in Nat /\ latest \in Nat /\ latest <= sessionChain /\ cache \in Nat
      /\ hold.height \in Nat /\ SessionLag \in Nat /\ SessionGrace \in Nat
  BY <1>0, CallsAreHeights, SMTT(30) DEF SessionTypeOK
<1>3. f.st # "none" /\ f.height <= f.at /\ sessionChain <= f.at + 1
  BY <1>0, Zenon DEF FetchesRecent, FetchStep, NodeAnswers, NodeFails, Compare, Store, Deliver
<1>4. f.ans # 0 => /\ f.height <= f.ans + SessionLag
                   /\ latest <= f.ans + SessionLag + 1 /\ latest <= f.ans + SessionGrace
  <2>1. f.ans # 0 => f.at <= f.ans + SessionLag
    BY <1>0, Zenon DEF FetchesRecent
  <2>2. QED
    BY <1>1, <1>2, <1>3, <2>1
<1>5. \A d \in SessionCallers \ {c} : fetch[d].st = "none"
  BY <1>0, <1>3 DEF FetchesRecent
<1>6. CASE NodeAnswers(c)
  <2>1. \A d \in SessionCallers : fetch'[d].st # "compared"
    BY <1>0, <1>5, <1>6 DEF NodeAnswers, Fetches
  <2>2. QED
    BY <1>0, <1>6, <2>1 DEF NodeAnswers, HonourInv, HoldsRecent, node
<1>7. CASE NodeFails(c)
  BY <1>0, <1>7 DEF NodeFails, Hold, HonourInv, HoldsRecent, node
<1>8. CASE Compare(c)
  <2>1. f.ans # 0 /\ UNCHANGED <<latest, cache, sessionCall>>
    BY <1>0, <1>8 DEF Compare, FetchesRecent, node
  <2>2. \A d \in SessionCallers : fetch'[d].st = "compared" => fetch'[d].ans = f.ans
    BY <1>0, <1>5, <1>8 DEF Compare, Fetches
  <2>3. CASE hold' = NoHold
    BY <1>0, <2>1, <2>3, Zenon DEF HonourInv, HoldsRecent, NoHold
  <2>4. CASE f.ans <= cache /\ Hold(c, FALSE)
    <3>1. hold'.height = f.height /\ f.height <= cache + SessionLag /\ f.height <= f.ans + SessionLag
      BY <1>1, <1>2, <1>4, <2>1, <2>4, SMTT(30) DEF Hold
    <3>2. HoldsRecent'
      BY <2>1, <2>2, <3>1, ZenonT(60) DEF HoldsRecent
    <3>3. QED
      BY <1>0, <2>1, <3>2, ZenonT(60) DEF HonourInv
  <2>5. QED
    BY <1>8, <2>3, <2>4, Zenon DEF Compare
<1>9. CASE Store(c)
  <2>1. /\ f.st = "compared" /\ f.ans # 0 /\ cache' = f.ans /\ UNCHANGED <<latest, hold, sessionCall>>
        /\ \A d \in SessionCallers : fetch'[d].st # "compared"
    BY <1>0, <1>5, <1>9, Zenon DEF Store, FetchesRecent, Fetches, node
  <2>2. HoldsRecent'
    BY <1>0, <2>1, Zenon DEF HoldsRecent
  <2>3. ASSUME NEW d \in SessionCallers PROVE Honours(sessionCall[d], latest, f.ans)
    <3>1. sessionCall[d].since <= latest /\ sessionCall[d].since \in Nat
      BY <1>0, CallsAreHeights, Zenon DEF Honours
    <3>2. sessionCall[d].since <= f.ans + SessionLag + 1
      BY <1>1, <1>2, <1>4, <2>1, <3>1, SMTT(30)
    <3>3. QED
      BY <1>0, <3>2, Zenon DEF Honours
  <2>4. QED
    BY <2>1, <2>2, <2>3 DEF HonourInv
<1>10. CASE Deliver(c)
  <2>1. UNCHANGED <<latest, cache, hold>> /\ \A d \in SessionCallers : fetch'[d].st # "compared"
    BY <1>0, <1>5, <1>10, Zenon DEF Deliver, NoFetch, node
  <2>2. HoldsRecent'
    BY <1>0, <2>1 DEF HoldsRecent
  <2>3. ASSUME NEW d \in SessionCallers PROVE Honours(sessionCall'[d], latest, cache)
    <3> DEFINE r == sessionCall[d]
               s == IF f.ans = 0 THEN r.back ELSE f.ans
               q == [r EXCEPT !.pc = "done", !.back = 0, !.saw = s]
    <3>1. CASE wait[d] # c
      BY <1>0, <1>10, <3>1, Zenon DEF Deliver
    <3>2. CASE wait[d] = c
      <4>1. sessionCall'[d] = q
        BY <1>10, <3>2, Zenon DEF Deliver
      <4>2. q.pc = "done" /\ q.back = 0 /\ q.saw = s /\ q.since = r.since
        BY <1>0 DEF SessionCalls
      <4>3. r.since <= latest /\ (r.back # 0 => r.since <= r.back + SessionGrace)
        BY <1>0 DEF Honours
      <4>4. r.since \in Nat /\ r.back \in Nat
        BY <1>0, CallsAreHeights, Zenon
      <4>5. s # 0 => r.since <= s + SessionGrace
        BY <1>1, <1>2, <1>4, <4>3, <4>4, SMTT(30)
      <4> HIDE DEF q, s
      <4>6. Honours(q, latest, cache)
        BY <4>2, <4>3, <4>5 DEF Honours
      <4>7. QED
        BY <4>1, <4>6, Zenon
    <3>3. QED
      BY <3>1, <3>2, Zenon
  <2>4. QED
    BY <2>1, <2>2, <2>3, Zenon DEF HonourInv
<1>11. QED
  BY <1>6, <1>7, <1>8, <1>9, <1>10 DEF FetchStep

\* Every session handed out was still honoured when the call began, whichever of
\* the cache, a shared fetch, a hold or a dial's fallback it came from, as long as
\* the full node answers for a block less than the grace period behind (getSession,
\* currentSession and awaitSession).  The strict bound is needed: the chain may
\* move once between a fetch's answer and a caller that joins it.
THEOREM ServedIsHonoured ==
    ASSUME SessionLag < SessionGrace
    PROVE  SessionSpec => []SessionsHonoured
<1>1. SessionInit => HonourInv
  <2> SUFFICES ASSUME SessionInit PROVE HonourInv
    OBVIOUS
  <2>1. latest \in Nat
    BY SessionsAssumption DEF SessionInit
  <2>2. Honours(Idle, latest, cache)
    BY <2>1 DEF Honours, Idle
  <2>3. QED
    BY <2>2 DEF SessionInit, HonourInv, HoldsRecent, NoHold
<1>2. SessionInv /\ HonourInv /\ [SessionNext]_sessionVars => HonourInv'
  <2> SUFFICES ASSUME SessionInv, HonourInv, [SessionNext]_sessionVars PROVE HonourInv'
    BY Zenon
  <2>1. CASE Advance \/ UNCHANGED sessionVars
    BY <2>1, Zenon DEF Advance, sessionVars, HonourInv, HoldsRecent
  <2>2. CASE HoldLapses
    BY <2>2, Zenon DEF HoldLapses, HonourInv, HoldsRecent, NoHold
  <2>3. CASE Poll
    <3>1. ASSUME NEW d \in SessionCallers PROVE Honours(sessionCall[d], latest', cache)
      <4>1. Honours(sessionCall[d], latest, cache)
        BY DEF HonourInv
      <4>2. sessionCall[d].since <= latest'
        <5>1. sessionCall[d].since \in Nat /\ latest \in Nat /\ sessionCall[d].since <= latest
          BY <4>1, CallsAreHeights, Zenon DEF SessionInv, Honours
        <5>2. latest' \in (latest + 1)..sessionChain /\ sessionChain \in Nat
          BY <2>3, SessionsAssumption DEF Poll, SessionInv, SessionTypeOK
        <5>3. QED
          BY <5>1, <5>2
      <4>3. QED
        BY <4>1, <4>2 DEF Honours
    <3>2. UNCHANGED <<cache, hold, fetch, sessionCall>>
      BY <2>3 DEF Poll
    <3>3. QED
      BY <3>1, <3>2, Zenon DEF HonourInv, HoldsRecent
  <2>4. ASSUME NEW c \in SessionCallers, Begin(c) \/ CallerStep(c) \/ GiveUp(c) PROVE HonourInv'
    BY <2>4, CallStepHonours
  <2>5. ASSUME NEW c \in SessionCallers, FetchStep(c) PROVE HonourInv'
    BY <2>5, FetchStepHonours, Zenon
  <2>6. QED
    BY <2>1, <2>2, <2>3, <2>4, <2>5 DEF SessionNext
<1>3. HonourInv => HonouredWhenServed
  BY DEF HonourInv, Honours, HonouredWhenServed, At
<1>4. SessionInv /\ HonourInv => SessionsHonoured
  BY <1>3, Zenon DEF SessionInv, SessionsHonoured
<1>5. QED
  BY <1>1, <1>2, <1>4, SessionInvHolds, PTL DEF SessionSpec
=============================================================================
