------------------------------- MODULE Suppliers -------------------------------
(***************************************************************************)
(* Which suppliers of a session one service's relays may go to, and what a *)
(* relay's answer does to that: Protocol.endpoints and sendRelay           *)
(* (protocol/shannon/relayer.go), the rpc_type fallback (rpc_fallback.go), *)
(* the blacklist (blacklist.go), the over-served exclusions                *)
(* (overserved.go), the session's load counts (sessionload.go), response   *)
(* verification (fullnode.go, response_validation.go) and the public keys  *)
(* it reads (pubkeycache.go).                                              *)
(*                                                                         *)
(* Relays run side by side with the session rolling over, bans and drains  *)
(* changing, scores falling and the full node failing.  Timers are steps   *)
(* that may come at any time after the entry they clear.                   *)
(***************************************************************************)
EXTENDS Sage, Naturals, Sequences, FiniteSets

CONSTANTS
    Operators,      \* suppliers (operator addresses)
    InSession,      \* InSession[n]: the suppliers of the n-th session
    Stakes,         \* Stakes[s]: the faces s stakes, of {"want", "fallback"}
    RelayIds,       \* relays
    DebugRelays,    \* those that gather evidence and change nothing
    Bannable,       \* suppliers whose domain may be banned
    Drainable,      \* suppliers whose operator may be drained
    FallsShort,     \* suppliers reputation may rule out
    Refused,        \* suppliers the configuration blocks, or whose URL its policy rejects
    LateKeys,       \* suppliers with no public key on chain yet
    Answering,      \* Answering[s]: the answers s may give
    KeyRoom         \* maxPubKeyCacheEntries

Answers == {"good", "bad_signature", "garbled", "over_served", "unsigned_over_served", "status",
            "unsigned", "too_large"}

ASSUME SuppliersAssumption ==
    /\ DebugRelays \subseteq RelayIds /\ KeyRoom \in Nat
    /\ InSession \in Seq(SUBSET Operators) /\ InSession # <<>>
    /\ Answering \in [Operators -> SUBSET Answers]

VARIABLES
    session,    \* the session the manager hands out
    banned, drainedOps, ruledOut,
    blacklisted,    \* unexpired blacklist entries
    overServed,     \* <<supplier, session>> that refused for over-servicing
    load,           \* sessionLoad: the session it is for and the counts
    keyCache, nilCache, refetched,   \* pubKeyCache
    onChain,        \* suppliers with a public key
    relay,          \* relay[r]: where it is
    refusals,       \* what really was refused: <<supplier, session>>
    sentTo          \* <<r, supplier, session>> of each relay sent

supplyVars == <<session, banned, drainedOps, ruledOut, blacklisted, overServed, load, keyCache,
                nilCache, refetched, onChain, relay, refusals, sentTo>>
poolVars == <<session, banned, drainedOps, ruledOut, blacklisted, overServed>>
keyVars == <<keyCache, nilCache, refetched, onChain>>
bookVars == <<load, refusals, sentTo>>

Idle == [at |-> "idle", to |-> None, for |-> 0, answer |-> None, first |-> None, got |-> None]

SuppliersInit ==
    /\ session = 1 /\ banned = {} /\ drainedOps = {} /\ ruledOut = {}
    /\ blacklisted = {} /\ overServed = {}
    /\ load = [end |-> 0, n |-> [s \in Operators |-> 0]]
    /\ keyCache = {} /\ nilCache = {} /\ refetched = {} /\ onChain = Operators \ LateKeys
    /\ relay = [r \in RelayIds |-> Idle]
    /\ refusals = {} /\ sentTo = {}

-----------------------------------------------------------------------------
(* Protocol.endpoints.                                                     *)

\* excluded.
OverServedNow(s) == <<s, session>> \in overServed

\* blocked_suppliers and endpoint_policy.
Rejected(s) == s \in Refused

\* Everything that keeps a supplier out for good, of those serving face;
\* the fallback pool leaves the stakers of the wanted type out.
Eligible(face) ==
    {s \in InSession[session] :
        /\ face \in Stakes[s] /\ (face = "fallback" => "want" \notin Stakes[s])
        /\ s \notin banned /\ s \notin drainedOps /\ ~Rejected(s) /\ ~OverServedNow(s)}

AnyStakes == \E s \in InSession[session] : "want" \in Stakes[s]

\* The first pass: of the fallback type when nobody staked the wanted one.
FirstPass == IF AnyStakes THEN Eligible("want") ELSE Eligible("fallback")

\* unusable: nothing left, or (for relays) nothing reputation would use.
Unusable(pool) == pool \subseteq ruledOut

\* What collect keeps and what it benches.
Unlisted(eligible) == eligible \ blacklisted

\* Mutant: the fallback pool is taken whatever it holds.
EndpointsFallbackAnyway ==
    LET first == FirstPass
        chosen == IF AnyStakes /\ Unusable(Unlisted(first)) THEN Eligible("fallback") ELSE first
    IN IF Unlisted(chosen) # {} THEN Unlisted(chosen) ELSE chosen

\* The fallback is taken when the first pass cannot serve and it has
\* someone; the blacklisted are served when nobody else is left.
Endpoints ==
    LET first == FirstPass
        chosen == IF /\ AnyStakes /\ Unusable(Unlisted(first))
                     /\ Unlisted(Eligible("fallback")) # {}
                  THEN Eligible("fallback") ELSE first
    IN IF Unlisted(chosen) # {} THEN Unlisted(chosen) ELSE chosen

-----------------------------------------------------------------------------
(* A relay.                                                                *)

Set(r, rec) == relay' = [relay EXCEPT ![r] = rec]

\* The caller picks from the pool; the session is looked up again to send.
Select(r) ==
    /\ relay[r].at = "idle"
    /\ \E s \in Endpoints : Set(r, [Idle EXCEPT !.at = "picked", !.to = s])
    /\ UNCHANGED <<poolVars, keyVars, bookVars>>

\* Mutant: a relay of an older session starts the count again.
LoadAddOlder(end, s) ==
    IF end # load.end THEN [end |-> end, n |-> [o \in Operators |-> IF o = s THEN 1 ELSE 0]]
    ELSE [load EXCEPT !.n[s] = @ + 1]

\* sessionLoad.add, for the session the relay is signed for.
LoadAdd(end, s) ==
    CASE end > load.end -> [end |-> end, n |-> [o \in Operators |-> IF o = s THEN 1 ELSE 0]]
      [] end = load.end -> [load EXCEPT !.n[s] = @ + 1]
      [] OTHER          -> load

\* The session is read; signing and the count come after.
Address(r) ==
    /\ relay[r].at = "picked"
    /\ IF relay[r].to \notin InSession[session] \/ relay[r].to \in banned
       THEN Set(r, [Idle EXCEPT !.at = "done"])                      \* ErrEndpointsStale, or refused
       ELSE Set(r, [relay[r] EXCEPT !.at = "addressed", !.for = session])
    /\ UNCHANGED <<poolVars, keyVars, bookVars>>

Send(r) ==
    /\ relay[r].at = "addressed"
    /\ Set(r, [relay[r] EXCEPT !.at = "sent"])
    /\ IF r \in DebugRelays THEN UNCHANGED <<load, sentTo>>
       ELSE /\ load' = LoadAdd(relay[r].for, relay[r].to)
            /\ sentTo' = sentTo \cup {<<r, relay[r].to, relay[r].for>>}
    /\ UNCHANGED <<poolVars, keyVars, refusals>>

\* The app cannot be fetched or the request signed: nothing was sent.
SignFails(r) == relay[r].at = "addressed" /\ Set(r, [Idle EXCEPT !.at = "done"])
                /\ UNCHANGED <<poolVars, keyVars, bookVars>>

\* Mutant: a mark starts the exclusions again.
MarkedAlone(s, end) == {<<s, end>>}

\* overServed.mark.
Marked(s, end) ==
    IF <<s, end>> \in overServed THEN overServed
    ELSE {k \in overServed : k[2] >= end} \cup {<<s, end>>}

\* An answer arrives.  A status of the miner's own, a refusal it signed
\* nothing for and a response over the ceiling are concluded without the
\* key; so is one that does not unmarshal, which blacklists.
Receive(r) ==
    /\ relay[r].at = "sent"
    /\ \E a \in Answering[relay[r].to] \cup {"transport"} :
          LET s == relay[r].to
          IN /\ CASE a \in {"over_served", "unsigned_over_served"} ->
                       /\ overServed' = Marked(s, relay[r].for)
                       /\ refusals' = refusals \cup {<<s, relay[r].for>>}
                       /\ Set(r, [Idle EXCEPT !.at = "done"]) /\ UNCHANGED blacklisted
                  [] a \in {"transport", "status", "unsigned", "too_large"} ->
                       Set(r, [Idle EXCEPT !.at = "done"]) /\ UNCHANGED <<overServed, refusals, blacklisted>>
                  [] a = "garbled" ->
                       /\ blacklisted' = IF r \in DebugRelays THEN blacklisted ELSE blacklisted \cup {s}
                       /\ Set(r, [Idle EXCEPT !.at = "done"]) /\ UNCHANGED <<overServed, refusals>>
                  [] a \in {"good", "bad_signature"} ->
                       /\ Set(r, [relay[r] EXCEPT !.at = "verify", !.answer = a])
                       /\ UNCHANGED <<overServed, refusals, blacklisted>>
    /\ UNCHANGED <<session, banned, drainedOps, ruledOut, keyVars, load, sentTo>>

\* What verifying answer with this key says.
Verdict(answer, key) ==
    CASE key = "err" -> "get_pub_key"
      [] key = "nil" -> "nil_pub_key"
      [] OTHER -> IF answer = "good" THEN "ok" ELSE "signature"

\* Mutant: whatever fails verification is the supplier's.
SupplierErrorAll(e) == e # "ok"

\* isSupplierValidationError.
SupplierError(e) == e \in {"nil_pub_key", "signature"}

Invalidated(cache, s) == cache \ {s}

\* A verification that failed for what the key could explain is tried again
\* once with a key fetched anew (allowRefetch, invalidate).
Retries(r, key) ==
    LET s == relay[r].to
        error == Verdict(relay[r].answer, key)
    IN /\ error # "ok" /\ relay[r].first = None /\ s \notin refetched
       /\ refetched' = refetched \cup {s}
       /\ keyCache' = Invalidated(keyCache, s) /\ nilCache' = Invalidated(nilCache, s)
       /\ Set(r, [relay[r] EXCEPT !.at = "verify", !.first = error, !.got = None])
       /\ UNCHANGED blacklisted

\* It verified, or the first error stands: handleValidationFailure.
Concludes(r, key) ==
    LET s == relay[r].to
        now == Verdict(relay[r].answer, key)
        error == IF relay[r].first = None THEN now ELSE relay[r].first
    IN /\ now = "ok" \/ relay[r].first # None \/ s \in refetched
       /\ Set(r, [Idle EXCEPT !.at = "done"])
       /\ blacklisted' = IF now # "ok" /\ SupplierError(error) /\ r \notin DebugRelays
                         THEN blacklisted \cup {s} ELSE blacklisted
       /\ UNCHANGED refetched

\* GetPubKeyFromAddress from the cache.
Verify(r) ==
    LET key == IF relay[r].to \in keyCache THEN "key" ELSE "nil"
    IN /\ relay[r].at = "verify" /\ relay[r].to \in keyCache \cup nilCache
       /\ Retries(r, key) \/ (Concludes(r, key) /\ UNCHANGED <<keyCache, nilCache>>)
       /\ UNCHANGED <<session, banned, drainedOps, ruledOut, overServed, onChain, bookVars>>

\* ... from the full node, which may fail.
Fetch(r) ==
    /\ relay[r].at = "verify" /\ relay[r].to \notin keyCache \cup nilCache
    /\ \E got \in {"err", IF relay[r].to \in onChain THEN "key" ELSE "nil"} :
          Set(r, [relay[r] EXCEPT !.at = "fetched", !.got = got])
    /\ UNCHANGED <<poolVars, keyVars, bookVars>>

\* store, which drops the key at the cap.
Store(got, s) == IF got = "key" /\ Cardinality(keyCache) < KeyRoom THEN keyCache \cup {s} ELSE keyCache

MarkNil(got, s) == IF got = "nil" THEN nilCache \cup {s} ELSE nilCache

\* The fetched answer is cached, an error is not; then the verdict.
Note(r) ==
    LET got == relay[r].got
    IN /\ relay[r].at = "fetched"
       /\ \/ Retries(r, got)
          \/ /\ Concludes(r, got)
             /\ keyCache' = Store(got, relay[r].to) /\ nilCache' = MarkNil(got, relay[r].to)
       /\ UNCHANGED <<session, banned, drainedOps, ruledOut, overServed, onChain, bookVars>>

-----------------------------------------------------------------------------
(* What goes on around the relays.                                         *)

Toggled(set, s) == IF s \in set THEN set \ {s} ELSE set \cup {s}

RollsOver == session + 1 \in DOMAIN InSession /\ session' = session + 1
             /\ UNCHANGED <<banned, drainedOps, ruledOut, blacklisted, overServed, keyVars, bookVars, relay>>

Bans(s) == banned' = Toggled(banned, s)
           /\ UNCHANGED <<session, drainedOps, ruledOut, blacklisted, overServed, keyVars, bookVars, relay>>

DrainsOp(s) == drainedOps' = Toggled(drainedOps, s)
               /\ UNCHANGED <<session, banned, ruledOut, blacklisted, overServed, keyVars, bookVars, relay>>

RulesOut(s) == ruledOut' = Toggled(ruledOut, s)
               /\ UNCHANGED <<session, banned, drainedOps, blacklisted, overServed, keyVars, bookVars, relay>>

BlacklistExpires(s) == s \in blacklisted /\ blacklisted' = blacklisted \ {s}
                       /\ UNCHANGED <<session, banned, drainedOps, ruledOut, overServed, keyVars, bookVars, relay>>

NilExpires(s) == s \in nilCache /\ nilCache' = nilCache \ {s}
                 /\ UNCHANGED <<poolVars, keyCache, refetched, onChain, bookVars, relay>>

RefetchAgain(s) == s \in refetched /\ refetched' = refetched \ {s}
                   /\ UNCHANGED <<poolVars, keyCache, nilCache, onChain, bookVars, relay>>

\* The supplier signs its first transaction.
KeyAppears(s) == s \notin onChain /\ onChain' = onChain \cup {s}
                 /\ UNCHANGED <<poolVars, keyCache, nilCache, refetched, bookVars, relay>>

SuppliersNext ==
    \/ \E r \in RelayIds : Select(r) \/ Address(r) \/ Send(r) \/ SignFails(r) \/ Receive(r) \/ Verify(r) \/ Fetch(r) \/ Note(r)
    \/ RollsOver
    \/ \E s \in Bannable : Bans(s)
    \/ \E s \in Drainable : DrainsOp(s)
    \/ \E s \in FallsShort : RulesOut(s)
    \/ \E s \in Operators : BlacklistExpires(s) \/ NilExpires(s) \/ RefetchAgain(s) \/ KeyAppears(s)

SuppliersSpec == SuppliersInit /\ [][SuppliersNext]_supplyVars

-----------------------------------------------------------------------------
SuppliersTypeOK ==
    /\ session \in DOMAIN InSession /\ keyCache \cup nilCache \subseteq Operators
    /\ \A r \in RelayIds : relay[r].at \in {"idle", "picked", "addressed", "sent", "verify", "fetched", "done"}

\* What the pool promises while relays, rollovers and operators interleave
\* (endpoints): someone of the wanted type who is not kept out is always
\* served; nobody kept out is; a blacklisted supplier only when the pool has
\* no other; a supplier that refused for over-servicing is out of the rest
\* of that session, also when another's refusal of an older session arrives
\* late, and of no other session (overServed).
PoolHolds ==
    /\ Eligible("want") # {} => Endpoints # {}
    /\ Endpoints \cap (banned \cup drainedOps \cup Refused) = {}
    /\ Endpoints \cap blacklisted # {} => Endpoints \subseteq blacklisted
    /\ \A s \in InSession[session] : OverServedNow(s) <=> <<s, session>> \in refusals

\* A supplier that has its key on chain and signs what it answers is never
\* blacklisted, however the full node fails under the verification
\* (isSupplierValidationError: a failed key fetch is our own outage).
NoInnocentBlacklisted ==
    \A s \in blacklisted : s \in LateKeys \/ Answering[s] \cap {"bad_signature", "garbled"} # {}

\* The counts a refusal is weighed against are those of one session, and
\* complete: a relay signed for the session before, sent after the rollover,
\* neither joins them nor starts them again (sessionLoad.add).
LoadIsOneSessions ==
    /\ \A x \in sentTo : x[3] <= load.end
    /\ \A s \in Operators : load.n[s] = Cardinality({x \in sentTo : x[2] = s /\ x[3] = load.end})

\* endpoints (relayer.go:582), isSupplierValidationError: what a pod knows of the
\* suppliers of a session is that session's and theirs: a request finds the
\* endpoints that may serve it, the load counts one session, and nobody is
\* blacklisted for another's answer.
SuppliersHold == SuppliersTypeOK /\ PoolHolds /\ NoInnocentBlacklisted /\ LoadIsOneSessions

\* "The blacklist ranks a supplier out; it must not empty the pool."
BlacklistNeverEmpties ==
    Eligible("want") \cup Eligible("fallback") # {} => Endpoints # {}

\* "A relay that carries it is evidence-gathering, so it changes no routing
\* state or metrics."
EvidenceChangesNothing ==
    [][\A r \in DebugRelays : relay'[r] # relay[r] => UNCHANGED poolVars]_supplyVars
=============================================================================
