---------------------------------- MODULE Retry ----------------------------------
(***************************************************************************)
(* One request in relay/middleware/retry.go.  An attempt is the inner      *)
(* chain as Retry sees it: the endpoint it reports (the primary's when it  *)
(* was hedged and failed) and its outcome.  Between attempts Retry keeps a *)
(* node's answer, excludes what was tried and narrows the list; when it    *)
(* returns, its deferred calls decide what the client gets.  It narrows    *)
(* its list with the operators Hedge defines.                              *)
(***************************************************************************)
EXTENDS Hedge

CONSTANTS
    MaxRetries,
    RetryLag,  \* how far behind a stale answer may be
    Views      \* what may be known of the endpoints: those reputation vouches
               \* for, those far behind the head, those whose archival marks
               \* show the history the request asks for

ASSUME RetryAssumption ==
    /\ MaxRetries \in Nat \ {0} /\ RetryLag \subseteq Nat \ {0}
    /\ Views \subseteq [vouched : SUBSET Endpoint, behind : SUBSET Endpoint, retaining : SUBSET Endpoint]

VARIABLES
    view,                          \* what is known of the endpoints
    retryPc,                       \* "attempt", "decide" or "done"
    eps,                           \* ctx.Endpoints; {}: the inner chain fetches them
    retryAt,                       \* ctx.Endpoint and what the last attempt left on the context
    retryPool, retryTried,         \* the exclusion bookkeeping; tried = {}: not allocated
    kept,                          \* keptResp with its endpoint and verdict
    pending, retriedFor, limited,  \* the causes behind the resolution counter
    resolved,                      \* the outcome it recorded, or "none"
    sent,                          \* the attempts made
    answer                         \* what Retry returned with

retryVars == <<view, retryPc, eps, retryAt, retryPool, retryTried, kept, pending, retriedFor, limited, resolved, sent, answer>>

-----------------------------------------------------------------------------
(* Outcomes.  "answer" is a node's own error about the chain, "stale" and  *)
(* "light" are a node's answers graded against the supplier, "page" is the *)
(* relay miner's own page, "busy" a limiter's envelope, "throttled" a bare *)
(* 429, "lost" any failure without a response.                             *)

Outcome ==
    [kind : {"ok", "answer", "light", "page", "busy", "throttled", "lost", "rollover", "fatal"}, lag : {0}]
        \cup [kind : {"stale"}, lag : RetryLag]

Nothing == [ep |-> None, kind |-> "none", lag |-> 0]
Left == [ep : Endpoint \cup {None}, kind : {o.kind : o \in Outcome} \cup {"none"}, lag : RetryLag \cup {0}]

HasResponse(x) == x.kind \in {"answer", "stale", "light", "page", "busy"}
SupplierAttributed(x) == x.kind \in {"stale", "light", "page", "busy", "throttled"}
IsStale(x) == x.kind = "stale"
FresherStale(x, y) == IsStale(x) /\ IsStale(y) /\ x.lag < y.lag
LimiterVerdict(cause) == cause \in {"busy", "throttled"}
HistoryRefusal(cause) == cause = "answer"
IsRetryable(o) == o.kind # "fatal"

\* A node's real answer, whoever it is held against.
RealAnswer(x) == x.kind \in {"answer", "stale", "light"}

AnyVouched(es) == es \cap view.vouched # {}

RetryInit ==
    /\ view \in Views /\ retryPc = "attempt" /\ eps = Endpoint /\ retryAt = Nothing /\ retryPool = {} /\ retryTried = {}
    /\ kept = Nothing /\ pending = "" /\ retriedFor = "" /\ limited = FALSE
    /\ resolved = "none" /\ sent = <<>> /\ answer = Nothing

-----------------------------------------------------------------------------
\* The deferred call: the kept answer stands in for a failure that brought no
\* answer, or only a supplier's.
DeliversKept(x, k) ==
    /\ x.kind # "ok" /\ k # Nothing
    /\ ~HasResponse(x) \/ SupplierAttributed(x)
    /\ ~HasResponse(x) \/ ~FresherStale(x, k)

\* Retry returns with x on the context and k kept.
RetryReturn(x, k, cause, lim) ==
    /\ retryPc' = "done"
    /\ retriedFor' = cause /\ limited' = lim
    /\ resolved' = CASE cause = "" -> "none"
                     [] cause # "" /\ lim -> "limited"
                     [] cause # "" /\ ~lim /\ x.kind = "ok" -> "recovered"
                     [] OTHER -> "exhausted"
    /\ answer' = IF DeliversKept(x, k) THEN k ELSE x

\* The inner chain's candidates: fetched when the list is empty.
RetryCandidates == IF eps = {} THEN Endpoint ELSE eps

\* One attempt (runAttempt): it reports endpoint e and outcome o.  The inner
\* chain's filters may leave a shorter list on the context, which matters
\* while no pool is taken.  MaxLatency may end the request after any failure.
Attempt ==
    /\ retryPc = "attempt"
    /\ \E e \in RetryCandidates, o \in Outcome :
         /\ sent' = Append(sent, [ep |-> e, kind |-> o.kind, lag |-> o.lag, cause |-> pending])
         /\ retryAt' = [ep |-> e, kind |-> o.kind, lag |-> o.lag]
         /\ eps' \in IF retryTried = {} THEN {s \in SUBSET RetryCandidates : e \in s} ELSE {RetryCandidates}
         /\ pending' = ""
         /\ \/ /\ o.kind # "ok" /\ IsRetryable(o) /\ Len(sent) < MaxRetries
               /\ retryPc' = "decide" /\ retriedFor' = pending
               /\ UNCHANGED <<limited, resolved, answer>>
            \/ RetryReturn(retryAt', kept, pending, FALSE)
    /\ UNCHANGED <<view, retryPool, retryTried, kept>>

\* The request's context ends, or too little of its deadline is left.
RetryStop ==
    /\ retryPc = "decide"
    /\ RetryReturn(retryAt, kept, retriedFor, FALSE)
    /\ UNCHANGED <<view, eps, retryAt, retryPool, retryTried, kept, pending, sent>>

\* Mutant: whatever came back is kept.
KeepsAny(x, k) == HasResponse(x)

\* Mutant: the last stale answer is kept, however old.
KeepsLast(x, k) == RealAnswer(x)

\* The answer an attempt brought is kept over k.
Keeps(x, k) ==
    /\ HasResponse(x)
    /\ ~SupplierAttributed(x) \/ x.kind \in {"stale", "light"}
    /\ ~IsStale(x) \/ ~IsStale(k) \/ FresherStale(x, k)

RetryKept == IF Keeps(retryAt, kept) THEN retryAt ELSE kept

\* What the resolution counter is told when no endpoint is left: the cause of
\* the last retry that ran.
CauseWhenNoneLeft == retriedFor

\* A session rollover: the list is dropped and the bookkeeping with it.
RetryFreshSession ==
    /\ retryPc = "decide" /\ retryAt.kind = "rollover"
    /\ eps' = {} /\ retryAt' = Nothing /\ retryPool' = {} /\ retryTried' = {} /\ pending' = "rollover"
    /\ kept' = RetryKept /\ retryPc' = "attempt"
    /\ UNCHANGED <<view, retriedFor, limited, resolved, sent, answer>>

\* The pool, taken after the first attempt of a session.
Pool == IF retryTried = {} THEN eps ELSE retryPool

\* Mutant: only the endpoint of the last attempt is excluded.
TriedLastOnly == {retryAt.ep}

Tried == retryTried \cup {retryAt.ep}

Left0 == Pool \ Tried

\* The operators not tried, unless that leaves junk or a head left behind.
Preferred ==
    LET narrowed == ExcludeAffiliates(Left0, Operators(Tried))
    IN IF /\ OperatorAware
          /\ AnyVouched(narrowed) \/ ~AnyVouched(Left0)
          /\ ~NarrowsIntoStale(narrowed, Left0, view.behind)
       THEN narrowed ELSE Left0

\* After a limiter's verdict: the other operators.
PastLimiter(es) == {e \in es : OperatorOf[e] \notin Operators(Tried)}

\* Where the history asked for is retained, when anyone vouched for is there.
Archival(es) == IF AnyVouched(es \cap view.retaining) THEN es \cap view.retaining ELSE es

NoneLeft ==
    /\ retryPc = "decide" /\ retryAt.kind # "rollover" /\ Left0 = {}
    /\ kept' = RetryKept /\ retryPool' = Pool /\ retryTried' = Tried /\ pending' = retryAt.kind
    /\ RetryReturn(retryAt, RetryKept, CauseWhenNoneLeft, FALSE)
    /\ UNCHANGED <<view, eps, retryAt, sent>>

\* A rate limit with no vouched endpoint of another operator: not retried.
StopAtLimiter ==
    LET other == PastLimiter(Preferred)
    IN /\ retryPc = "decide" /\ Left0 # {} /\ LimiterVerdict(retryAt.kind)
       /\ other = {} \/ ~AnyVouched(other) \/ NarrowsIntoStale(other, Preferred, view.behind)
       /\ kept' = RetryKept /\ retryPool' = Pool /\ retryTried' = Tried /\ pending' = retryAt.kind
       /\ RetryReturn(retryAt, RetryKept, retryAt.kind, TRUE)
       /\ UNCHANGED <<view, eps, retryAt, sent>>

RetryElsewhere ==
    LET other == PastLimiter(Preferred)
    IN /\ retryPc = "decide" /\ retryAt.kind # "rollover" /\ Left0 # {}
       /\ IF LimiterVerdict(retryAt.kind)
          THEN /\ other # {} /\ AnyVouched(other) /\ ~NarrowsIntoStale(other, Preferred, view.behind)
               /\ eps' = other
          ELSE eps' = IF HistoryRefusal(retryAt.kind) THEN Archival(Preferred) ELSE Preferred
       /\ kept' = RetryKept /\ retryPool' = Pool /\ retryTried' = Tried /\ pending' = retryAt.kind
       /\ retryAt' = Nothing /\ retryPc' = "attempt"
       /\ UNCHANGED <<view, retriedFor, limited, resolved, sent, answer>>

RetryNext == Attempt \/ RetryStop \/ RetryFreshSession \/ NoneLeft \/ StopAtLimiter \/ RetryElsewhere

RetrySpec == RetryInit /\ [][RetryNext]_retryVars

-----------------------------------------------------------------------------
\* The state stays well formed, with at most one attempt more than MaxRetries,
\* and only a node's answer is ever kept.
RetryTypeOK ==
    /\ view \in Views /\ retryPc \in {"attempt", "decide", "done"} /\ eps \subseteq Endpoint /\ retryAt \in Left
    /\ retryPool \subseteq Endpoint /\ retryTried \subseteq Endpoint \cup {None} /\ kept \in Left
    /\ limited \in BOOLEAN /\ resolved \in {"none", "recovered", "exhausted", "limited"}
    /\ Len(sent) <= MaxRetries + 1 /\ answer \in Left
    /\ kept # Nothing => RealAnswer(kept)

Failed == retryPc = "done" /\ answer.kind # "ok"
RealAnswers == {i \in DOMAIN sent : RealAnswer(sent[i])}

\* retry.go:86, 105: when every attempt failed, an answer a node gave on any of
\* them is delivered, no error of the gateway's and no supplier's page is
\* written over it; when the only answers were stale ones the freshest stands,
\* whichever attempt produced it.
BestAnswerStands ==
    Failed /\ RealAnswers # {} =>
        /\ RealAnswer(answer)
        /\ (\A i \in RealAnswers : IsStale(sent[i])) => \A i \in RealAnswers : answer.lag <= sent[i].lag

\* The same session's attempts: none between them ended in a rollover.
SameSession(i, j) == i < j /\ \A m \in i..(j - 1) : sent[m].kind # "rollover"

\* retry.go:38, 280, 295: a retry goes to an endpoint no failed attempt of the
\* session was reported under; after a rate limit, to an operator that has not
\* failed this request; and no narrowing leaves it only endpoints nobody vouches
\* for while an untried one of the pool is vouched for.
RetriesGoElsewhere ==
    /\ \A i, j \in DOMAIN sent : SameSession(i, j) =>
           /\ sent[i].ep # sent[j].ep
           /\ LimiterVerdict(sent[j].cause) => OperatorOf[sent[i].ep] # OperatorOf[sent[j].ep]
    /\ retryPc = "attempt" /\ AnyVouched(retryPool \ retryTried) => AnyVouched(eps)

\* retry.go: the best answer any attempt brought is the one delivered, and a
\* retry goes to an endpoint not yet tried while there is one it may go to.
RetriesDoBetter == RetryTypeOK /\ BestAnswerStands /\ RetriesGoElsewhere
=============================================================================
