----------------------------- MODULE AttemptChain -----------------------------
(***************************************************************************)
(* What package heuristic makes of one attempt.  An attempt ends with a    *)
(* failure of the transport (AnalyzeTransportError) or with an answer      *)
(* (Analyze, AnalyzeGRPC), and gets a verdict: who it is held against, and *)
(* whether it is retried, scored, voted to the circuit breaker or kept as  *)
(* a mark against the method.                                              *)
(*                                                                         *)
(* A body is a form (what a parser makes of it), an error code and the     *)
(* wording its text carries.  A wording stands for the patterns of the     *)
(* source that are in the same pattern lists.                              *)
(***************************************************************************)
EXTENDS Naturals, Sage, FiniteSets

-----------------------------------------------------------------------------
(* Verdicts.  pen is the severity of the penalty, "none" without one;      *)
(* status is the 5xx a verdict was read from, or 0.                        *)

Severities == {"minor", "major", "critical", "fatal"}
Attributions == {"unknown", "supplier", "blockchain", "client"}

Verdict(reason, attr, retry, pen, brk, block) ==
    [reason |-> reason, attr |-> attr, retry |-> retry, pen |-> pen, brk |-> brk, block |-> block, status |-> 0]

NoVerdict == Verdict("none", "unknown", FALSE, "none", FALSE, FALSE)

Success == Verdict("success", "client", FALSE, "none", FALSE, FALSE)
OverServiced == Verdict("over_serviced", "client", TRUE, "none", FALSE, FALSE)
RefusedRecent == Verdict("refused_recent", "supplier", TRUE, "major", FALSE, FALSE)
StaleResponse == Verdict("stale_response", "supplier", TRUE, "major", FALSE, FALSE)
InvalidResult == Verdict("invalid_result", "supplier", TRUE, "major", FALSE, FALSE)
LightMethodError == Verdict("light_method_error", "supplier", TRUE, "major", FALSE, FALSE)
TimedOut == Verdict("transport_timeout", "supplier", TRUE, "major", FALSE, TRUE)
MinerSessionRejected == Verdict("miner_session_rejected", "unknown", TRUE, "none", FALSE, FALSE)
MinerFault == Verdict("upstream_miner_error", "supplier", TRUE, "minor", FALSE, FALSE)
MethodUnsupported == Verdict("method_unsupported", "blockchain", TRUE, "none", FALSE, TRUE)
FutureBlock(v) == [v EXCEPT !.reason = "future_block"]

IsSuccess(v) == v.reason = "success"

-----------------------------------------------------------------------------
(* Wordings.  "deep" is an infrastructure wording inside a document, not   *)
(* in one of its top-level strings.                                        *)

clientErrorPatterns == {"client"}
supplierLagPatterns == {"behind"}
capabilityLimitationPatterns == {"missing", "pruned", "lite"}
blockchainErrorPatterns == {"no_block", "ahead", "far_ahead"} \cup capabilityLimitationPatterns
supplierInfraPatterns == {"infra"}
quotaPatterns == {"quota"}
limiterPatterns == {"busy", "quota"}
methodUnsupportedPatterns == {"unsupported", "lite"}
overServedPatterns == {"over_served"}

\* refusalClaims and perBlockClaims (qos/evm/refusal.go).
refusalClaims == {"pruned"}

Wordings ==
    {"", "deep", "slow", "no_index"} \cup clientErrorPatterns \cup supplierLagPatterns \cup blockchainErrorPatterns
        \cup supplierInfraPatterns \cup limiterPatterns \cup methodUnsupportedPatterns \cup overServedPatterns

\* The indicator table: what its first entry matching a wording says.
methodBlockingIndicators == {"lite", "no_index"}
Indicator(w) ==
    CASE w \in {"missing", "pruned", "no_block"} \cup methodBlockingIndicators ->
            Verdict("indicated", "blockchain", TRUE, "none", FALSE, w \in methodBlockingIndicators)
      [] w \in {"infra", "deep"} -> Verdict("indicated", "supplier", TRUE, "critical", TRUE, FALSE)
      [] w = "slow" -> Verdict("indicated", "supplier", TRUE, "major", FALSE, FALSE)
      [] OTHER -> NoVerdict

\* matchIndicator: in a document that is the answer, a supplier's wording
\* counts only in a top-level string.
MatchIndicator(w, documentIsAnswer) == IF w = "deep" /\ documentIsAnswer THEN NoVerdict ELSE Indicator(w)

-----------------------------------------------------------------------------
(* Bodies.                                                                 *)

ErrorCodes == {"reverted", "no_method", "bad_params", "bad_request", "parse", "limit", "simulated",
               "server", "internal", "other"}

Body(form, code, says) == [form |-> form, code |-> code, says |-> says]

\* "scalar" is a bare JSON value, "envelope" a JSON-RPC object with neither a
\* result nor an error, "both" one with both.
IsEmpty(b) == b.form = "empty"
IsHTML(b) == b.form = "html"
IsPlainText(b) == b.form \in {"text", "scalar"}
ValidJSON(b) == b.form \in {"scalar", "document", "envelope", "result", "error", "both"}
IsOverServiced(b) == b.says \in overServedPatterns

\* classifyServerError.
ClassifyServerError(w) ==
    CASE w \in clientErrorPatterns -> Verdict("client_error", "client", FALSE, "none", FALSE, FALSE)
      [] w \in supplierLagPatterns -> Verdict("node_behind", "supplier", TRUE, "minor", FALSE, FALSE)
      [] w \in blockchainErrorPatterns ->
            Verdict("blockchain_error", "blockchain", TRUE, "none", FALSE, w \in methodUnsupportedPatterns)
      [] w \in supplierInfraPatterns -> Verdict("supplier_server_error", "supplier", TRUE, "critical", TRUE, FALSE)
      [] w \in quotaPatterns -> Verdict("quota_exceeded", "supplier", TRUE, "major", FALSE, FALSE)
      [] w \in limiterPatterns \ quotaPatterns -> Verdict("rate_limited", "supplier", TRUE, "minor", FALSE, FALSE)
      [] w \in methodUnsupportedPatterns \ blockchainErrorPatterns -> MethodUnsupported
      [] OTHER -> Verdict("server_error", "unknown", TRUE, "none", FALSE, FALSE)

\* A chain's answer under -32603 is delivered.
IndicatedInternally(ind) == IF ind.attr = "blockchain" THEN [ind EXCEPT !.retry = FALSE] ELSE ind

\* classifyInternalError.  "ahead" is a height at most heightAheadRetry blocks
\* past the node's head, "far_ahead" one further on.
ClassifyInternalError(w) ==
    CASE w \in supplierInfraPatterns -> Verdict("supplier_internal_error", "supplier", TRUE, "critical", TRUE, FALSE)
      [] w = "ahead" -> Verdict("blockchain_error", "blockchain", TRUE, "none", FALSE, FALSE)
      [] w \notin supplierInfraPatterns \cup {"ahead"} /\ MatchIndicator(w, FALSE) # NoVerdict ->
            IndicatedInternally(MatchIndicator(w, FALSE))
      [] OTHER -> Verdict("internal_error", "blockchain", FALSE, "none", FALSE, FALSE)

\* classifyJSONRPCError.
ClassifyJSONRPCError(code, w) ==
    CASE code = "reverted" -> Verdict("execution_reverted", "client", FALSE, "none", FALSE, FALSE)
      [] code = "no_method" -> Verdict("method_not_found", "client", FALSE, "none", FALSE, TRUE)
      [] code = "bad_params" -> Verdict("invalid_params", "client", FALSE, "none", FALSE, FALSE)
      [] code = "bad_request" -> Verdict("invalid_request", "client", FALSE, "none", FALSE, FALSE)
      [] code = "parse" -> Verdict("parse_error", "supplier", TRUE, "critical", FALSE, FALSE)
      [] code = "limit" -> Verdict("blockchain_error", "blockchain", TRUE, "none", FALSE, FALSE)
      [] code = "simulated" -> Verdict("client_error", "client", FALSE, "none", FALSE, FALSE)
      [] code = "server" -> ClassifyServerError(w)
      [] code = "internal" -> ClassifyInternalError(w)
      [] code = "other" /\ w \in capabilityLimitationPatterns -> ClassifyServerError(w)
      [] OTHER -> Verdict("unknown_error_code", "unknown", TRUE, "minor", FALSE, FALSE)

-----------------------------------------------------------------------------
(* Answers.  status is the node's, inside the signed response.             *)

\* CometBFTErrorAnswer: CometBFT sends its handlers' errors as HTTP 500.
CometBFTErrorAnswer(rpc, status, b) == rpc = "comet_bft" /\ status = 500 /\ b.form = "error"

\* frontDoorRefusal.
FrontDoorRefusal(rpc, status) ==
    \/ rpc = "json_rpc"
    \/ rpc \in {"rest", "comet_bft"} /\ status \in {401, 403}

\* isBodylessStatus.
IsBodylessStatus(status) == status \in {204, 205, 304}

\* analyzeTier0, for a status that ends the analysis.
Tier0Applies(rpc, status, b) == status >= 400 /\ ~CometBFTErrorAnswer(rpc, status, b)
AnalyzeTier0(rpc, status, b) ==
    CASE status >= 500 -> [Verdict("http_5xx", "supplier", TRUE, "major", FALSE, FALSE) EXCEPT !.status = status]
      [] status = 429 -> Verdict("http_429", "supplier", TRUE, "minor", FALSE, FALSE)
      [] status = 408 -> Verdict("http_408", "supplier", TRUE, "major", FALSE, FALSE)
      [] status \in 400..499 \ {408, 429} /\ FrontDoorRefusal(rpc, status) /\ ~ValidJSON(b) ->
            Verdict("http_4xx_page", "supplier", TRUE, "minor", FALSE, TRUE)
      [] status \in 400..499 \ {408, 429} /\ ~(FrontDoorRefusal(rpc, status) /\ ~ValidJSON(b))
           /\ b.says \in methodBlockingIndicators -> Indicator(b.says)
      [] OTHER -> Verdict("http_4xx", "client", FALSE, "none", FALSE, FALSE)

\* analyzeTier1: an empty, an HTML or a plain-text body ends the analysis.
Tier1Applies(b) == IsEmpty(b) \/ IsHTML(b) \/ IsPlainText(b)
AnalyzeTier1(status, b) ==
    CASE IsEmpty(b) /\ IsBodylessStatus(status) -> Success
      [] IsEmpty(b) /\ ~IsBodylessStatus(status) -> Verdict("empty_response", "supplier", TRUE, "critical", TRUE, FALSE)
      [] IsHTML(b) -> Verdict("html_response", "supplier", TRUE, "critical", TRUE, FALSE)
      [] IsPlainText(b) /\ b.says \in methodUnsupportedPatterns -> MethodUnsupported
      [] OTHER -> Verdict("plain_text_response", "supplier", TRUE, "major", FALSE, FALSE)

\* analyzeTier2: a JSON-RPC result or error ends the analysis.
Tier2Applies(b) == b.form \in {"result", "error", "both"}
AnalyzeTier2(b) ==
    CASE b.form = "both" -> Verdict("fabricated_response", "supplier", TRUE, "fatal", TRUE, FALSE)
      [] b.form = "error" -> ClassifyJSONRPCError(b.code, b.says)
      [] OTHER -> Success

\* Tiers 1 to 3, which a WebSocket frame (AnalyzeFrame, status 0) shares.
AnalyzeBody(status, b, documentIsAnswer) ==
    IF Tier1Applies(b) THEN AnalyzeTier1(status, b)
    ELSE IF Tier2Applies(b) THEN AnalyzeTier2(b)
    ELSE LET ind == MatchIndicator(b.says, documentIsAnswer /\ ValidJSON(b))
         IN  IF ind = NoVerdict THEN Success ELSE ind

\* AnalyzeFrame.
AnalyzeFrame(b) == AnalyzeBody(0, b, FALSE)

\* analyzeGRPC: a gRPC body can only be missing.
AnalyzeGRPCBody(b) ==
    IF IsEmpty(b) THEN Verdict("empty_response", "supplier", TRUE, "major", TRUE, FALSE) ELSE Success

\* Mutant: the status is looked at first.
AnalyzeStatusFirst(status, b, rpc, documentIsAnswer) ==
    IF Tier0Applies(rpc, status, b) THEN AnalyzeTier0(rpc, status, b)
    ELSE IF IsOverServiced(b) THEN OverServiced
    ELSE IF rpc = "grpc" THEN AnalyzeGRPCBody(b)
    ELSE AnalyzeBody(status, b, documentIsAnswer)

\* analyze.
Analyze(status, b, rpc, documentIsAnswer) ==
    IF IsOverServiced(b) THEN OverServiced
    ELSE IF Tier0Applies(rpc, status, b) THEN AnalyzeTier0(rpc, status, b)
    ELSE IF rpc = "grpc" THEN AnalyzeGRPCBody(b)
    ELSE AnalyzeBody(status, b, documentIsAnswer)

\* RESTBodyAnswer: an empty or plain-text 2xx passes.
RESTBodyAnswer(status, b) == status \in 200..299 /\ (IsEmpty(b) \/ IsPlainText(b))

\* RESTDocumentAnswer.
RESTDocumentAnswer(status, b) == Analyze(status, b, "rest", status \in 200..299)

\* grpcStatusResult, by what a status describes: the request, the time, the
\* load, the serving.
GRPCStatusResult(s) ==
    CASE s = "request" -> Verdict("grpc_request_error", "client", FALSE, "none", FALSE, FALSE)
      [] s = "deadline" -> Verdict("grpc_timeout", "supplier", TRUE, "minor", FALSE, FALSE)
      [] s = "exhausted" -> Verdict("grpc_resource_exhausted", "supplier", TRUE, "minor", FALSE, FALSE)
      [] s = "backend" -> Verdict("grpc_backend_error", "supplier", TRUE, "critical", TRUE, FALSE)
      [] OTHER -> Verdict("grpc_unknown_status", "unknown", TRUE, "none", FALSE, FALSE)

\* AnalyzeGRPC.
AnalyzeGRPC(b, s) == IF s = "ok" THEN AnalyzeGRPCBody(b) ELSE GRPCStatusResult(s)

-----------------------------------------------------------------------------
(* Failures of the transport.  An error is a kind and what it carries: the *)
(* miner's report, the status and body of the miner's own HTTP layer, the  *)
(* code of a WebSocket close.  ctx is the request context's error.         *)

\* analyzeMinerError.
AnalyzeMinerError(report) ==
    CASE report = "over_served" -> OverServiced
      [] report = "session" -> MinerSessionRejected
      [] report = "timeout" -> TimedOut
      [] report = "body_limit" -> [MinerFault EXCEPT !.reason = "miner_body_limit", !.block = TRUE]
      [] OTHER -> MinerFault

\* MinerRefusal; NoVerdict when the error carries no refusal.
MinerRefusal(e) ==
    CASE e.kind = "miner" -> AnalyzeMinerError(e.report)
      [] e.kind = "status" /\ IsOverServiced(e.body) -> OverServiced
      [] e.kind = "close" /\ e.report = "stake_limit" -> OverServiced
      [] e.kind = "close" /\ e.report = "session" -> MinerSessionRejected
      [] e.kind = "close" /\ e.report = "validation" -> MinerFault
      [] OTHER -> NoVerdict

\* The status of the miner's own HTTP layer.
UpstreamStatus(status) ==
    CASE status = 413 -> Verdict("upstream_413", "client", FALSE, "none", FALSE, FALSE)
      [] status = 429 -> Verdict("upstream_429", "supplier", TRUE, "minor", FALSE, FALSE)
      [] status >= 500 -> [Verdict("upstream_5xx", "supplier", TRUE, "minor", FALSE, FALSE) EXCEPT !.status = status]
      [] OTHER -> Verdict("upstream_4xx", "supplier", TRUE, "minor", FALSE, FALSE)

\* isConnectFailure, isTimeout.
IsConnectFailure(e) == e.kind \in {"connect", "connect_timeout"}
IsTimeout(e) == e.kind \in {"timeout", "connect_timeout"}

\* AnalyzeTransportError.
AnalyzeTransportError(e, ctx, retryable) ==
    IF ctx = "cancelled" \/ e.kind = "cancelled" THEN Verdict("client_cancelled", "client", FALSE, "none", FALSE, FALSE)
    ELSE IF e.kind = "stale" THEN Verdict("endpoint_left_session", "unknown", TRUE, "none", FALSE, FALSE)
    ELSE IF IsConnectFailure(e) THEN
        Verdict(IF IsTimeout(e) \/ ctx = "deadline" THEN "transport_connect_timeout" ELSE "transport_connect_failed",
                "supplier", TRUE, "critical", TRUE, FALSE)
    ELSE IF IsTimeout(e) \/ ctx = "deadline" THEN TimedOut
    ELSE IF e.kind = "too_large" THEN Verdict("response_too_large", "client", FALSE, "none", FALSE, FALSE)
    ELSE IF MinerRefusal(e) # NoVerdict THEN MinerRefusal(e)
    ELSE IF e.kind = "status" THEN UpstreamStatus(e.status)
    ELSE Verdict("transport_error", "unknown", retryable, "minor", FALSE, FALSE)

-----------------------------------------------------------------------------
(* A plugin's second opinion (qos.VerdictRefiner).                         *)

\* The blocks a request names, against the head: RefusalVerdict's window.
\* A per-block claim about history is measured on its oldest block, anything
\* else on its newest and over a short span.
CONSTANTS RefusalMinBack, RefusalMaxBack, RefusalMaxSpan, BeyondMargin

\* Mutant: a claim about the newest blocks is judged too.
RefusedInWindowNoFloor(from, to, head, perBlock) ==
    /\ head > 0 /\ from <= to
    /\ perBlock \/ to - from <= RefusalMaxSpan
    /\ from + RefusalMaxBack >= head

RefusedInWindow(from, to, head, perBlock) ==
    /\ head > 0 /\ from <= to
    /\ perBlock \/ to - from <= RefusalMaxSpan
    /\ (IF perBlock THEN from ELSE to) + RefusalMinBack <= head
    /\ from + RefusalMaxBack >= head

\* RefusalVerdict: a claim that a recent block was discarded is a refusal.
RefusalVerdict(v, says, blocks) ==
    IF /\ v.attr # "supplier" /\ says \in refusalClaims /\ blocks.named
       /\ RefusedInWindow(blocks.from, blocks.to, blocks.head, blocks.perBlock)
    THEN RefusedRecent ELSE NoVerdict

\* futureBlockVerdict: every block asked for is past the head, by more than an
\* answer may trail it (BeyondHead).
FutureBlockVerdict(v, blocks) ==
    IF blocks.head > 0 /\ v.reason = "blockchain_error" /\ blocks.named /\ blocks.from > blocks.head + BeyondMargin
    THEN FutureBlock(v) ELSE NoVerdict

\* RefineVerdict of qos/evm.
RefineEVM(v, says, blocks) ==
    IF FutureBlockVerdict(v, blocks) # NoVerdict THEN FutureBlockVerdict(v, blocks) ELSE RefusalVerdict(v, says, blocks)

\* RefineVerdict of qos/cosmos, on a route that answers a query it cannot
\* serve with a 500, or on the root of the node.
RefineCosmos(v, route) ==
    CASE v.reason = "html_response" /\ route = "root" -> Success
      [] v.reason \in {"http_5xx", "upstream_5xx"} /\ v.status = 500 /\ route = "query" ->
            Verdict("query_5xx", "blockchain", FALSE, "none", FALSE, FALSE)
      [] OTHER -> NoVerdict

-----------------------------------------------------------------------------
(***************************************************************************)
(* One attempt of a request on its way out of the relay chain: Heuristic   *)
(* grades what SendRelay brought, Score records it, MethodBlocks marks the *)
(* method against the host, CircuitBreak votes, and Retry, Observe and the *)
(* router decide what becomes of it.  Another attempt may mark a host      *)
(* meanwhile.                                                              *)
(***************************************************************************)

CONSTANTS
    ChainHosts,      \* the hosts of the pool, one endpoint each
    ChainStarts,     \* the flags on, the marks set and the hosts vouched for
    ChainRequests,   \* requests: RPC type, plugin and what it knows of them
    ChainErrors,     \* the errors a send may end with
    ChainAnswers     \* the answers it may bring, by RPC type

VARIABLES
    chainPc,         \* where the attempt is
    enabled,         \* the flags on for the service
    request,         \* the request
    vouched,         \* hosts reputation vouches for
    methodMarks,     \* hosts marked for the request's method, and for its family
    attemptAt,       \* ctx.Endpoint
    outcome,         \* what SendRelay brought: an error or an answer
    budget,          \* the share of its timeout the attempt had, and ctx.Err()
    verdict,         \* ctx.HeuristicResult; NoVerdict: nil
    chainErr,        \* the error handed outwards
    attemptRecorded,        \* what the score got, from whom
    vote             \* what the breaker got

chainVars == <<chainPc, enabled, request, vouched, methodMarks, attemptAt, outcome, budget, verdict, chainErr, attemptRecorded, vote>>

\* "final" cannot be retried, "verdict" is retryVerdict's error.
ChainErrs == {"nil", "retryable", "final", "verdict"}
Retryable(err) == err \in {"retryable", "verdict"}

NoError == [kind |-> "none"]
NoAnswer == [status |-> 0, body |-> Body("none", "none", ""), grpc |-> "ok", lagging |-> FALSE, invalid |-> FALSE]
Answered(status, b) == [NoAnswer EXCEPT !.status = status, !.body = b]

On(f) == f \in enabled

ChainInit ==
    /\ chainPc = "send"
    /\ \E start \in ChainStarts : enabled = start.flags /\ vouched = start.vouched /\ methodMarks = start.marks
    /\ request \in ChainRequests
    /\ attemptAt = None /\ outcome = [err |-> NoError, ans |-> NoAnswer] /\ budget = [had |-> "full", ctx |-> "live"]
    /\ verdict = NoVerdict /\ chainErr = "nil" /\ attemptRecorded = [by |-> "none", signal |-> "none"] /\ vote = "none"

-----------------------------------------------------------------------------
(* MethodBlocks on the way in, and the send.                               *)

\* The middleware runs for a method its plugin names.
BlocksApply == On("method_blocks") /\ request.named
Open(marks) == {h \in ChainHosts : "method" \notin marks[h]}

\* keepsVouchedCapacity.
KeepsVouchedCapacity(narrowed) ==
    LET have == Cardinality(vouched)
        half == (have + 1) \div 2
        wanted == IF half > 2 THEN half ELSE 2
    IN  Cardinality(narrowed \cap vouched) >= IF have < wanted THEN have ELSE wanted

\* A filter that leaves no host, no vouched host or too few of them is bypassed.
Bypassed(narrowed) ==
    \/ narrowed = {}
    \/ narrowed # ChainHosts /\ (narrowed \cap vouched = {} \/ ~KeepsVouchedCapacity(narrowed))

MethodCandidates ==
    LET narrowed == Open(methodMarks)
    IN  IF ~BlocksApply \/ Bypassed(narrowed) THEN ChainHosts ELSE narrowed

\* SelectEndpoint and SendRelay: a failed send is wrapped as retryable,
\* whatever the relayer said of it.
Send ==
    /\ chainPc = "send" /\ chainPc' = "grade"
    /\ attemptAt' \in MethodCandidates
    /\ \/ /\ outcome' \in {[err |-> e, ans |-> NoAnswer] : e \in ChainErrors} /\ chainErr' = "retryable"
          /\ budget' \in [had : {"full", "short"}, ctx : {"live", "cancelled", "deadline"}]
       \/ /\ outcome' \in {[err |-> NoError, ans |-> a] : a \in ChainAnswers[request.rpc]} /\ chainErr' = "nil"
          /\ UNCHANGED budget
    /\ UNCHANGED <<enabled, request, vouched, methodMarks, verdict, attemptRecorded, vote>>

-----------------------------------------------------------------------------
(* Heuristic.                                                              *)

\* upstreamAnswer: the JSON body a relay miner's own HTTP status carried.
UpstreamAnswer(e) == e.kind = "status" /\ ValidJSON(e.body)

\* Mutant: a short attempt's timeout is charged like any other.
GradeTimeoutBudgetFull(v) == v

\* gradeTimeoutBudget.
GradeTimeoutBudget(v) ==
    IF v.reason \in {"transport_timeout", "transport_connect_timeout"} /\ budget.had = "short"
    THEN [v EXCEPT !.reason = "short_budget_timeout", !.pen = "none", !.brk = FALSE, !.block = FALSE]
    ELSE v

\* refineVerdict: NoVerdict when the plugin leaves the verdict as it is.
Refined(v, says) ==
    CASE request.plugin = "evm" -> RefineEVM(v, says, request.blocks)
      [] request.plugin = "cosmos" /\ request.rpc = "json_rpc" -> RefusalVerdict(v, says, request.blocks)
      [] request.plugin = "cosmos" /\ request.rpc # "json_rpc" -> RefineCosmos(v, request.route)
      [] OTHER -> NoVerdict
RefineVerdict(v, says) == IF Refined(v, says) = NoVerdict THEN v ELSE Refined(v, says)

\* retryQuery5xx.
RetriesQuery5xx(v) == v.reason = "query_5xx" /\ On("query_5xx_retry")
RetryQuery5xx(v) == IF RetriesQuery5xx(v) THEN [v EXCEPT !.retry = TRUE] ELSE v

\* breakUpstream.
BreakUpstream(v) ==
    IF v.reason \in {"http_408", "upstream_5xx"} /\ v.attr = "supplier" /\ On("circuit_break_upstream")
    THEN [v EXCEPT !.brk = TRUE] ELSE v

\* The verdict on a failed send, the error handed on and the answer in hand.
ErrorGrade(e) ==
    LET graded == GradeTimeoutBudget(AnalyzeTransportError(e, budget.ctx, TRUE))
        v == RetryQuery5xx(RefineVerdict(graded, ""))
        refined == Refined(graded, "") # NoVerdict /\ ~RetriesQuery5xx(v)
        ans == Answered(e.status, e.body)
    IN  IF v.reason = "query_5xx" /\ v.retry /\ UpstreamAnswer(e) THEN [v |-> v, err |-> "verdict", ans |-> ans]
        ELSE IF refined /\ ~v.retry /\ UpstreamAnswer(e) THEN [v |-> v, err |-> "nil", ans |-> ans]
        ELSE [v |-> BreakUpstream(v), err |-> IF refined /\ ~v.retry THEN "final" ELSE "retryable", ans |-> NoAnswer]

\* A REST body or document that is the route's answer, where the flags say so.
GradeREST(v, a) ==
    IF request.rpc # "rest" \/ IsSuccess(v) THEN v
    ELSE IF On("rest_bodies_as_answers") /\ RESTBodyAnswer(a.status, a.body) THEN Success
    ELSE IF On("rest_documents_as_answers") THEN RESTDocumentAnswer(a.status, a.body)
    ELSE v

\* A catalogued method is worth another host.
GradeMethod(v) == IF v.reason = "method_not_found" /\ request.named THEN [v EXCEPT !.retry = TRUE] ELSE v

GradeFuture(v) ==
    IF v.reason = "future_block" /\ On("future_block_answers") THEN [v EXCEPT !.retry = FALSE] ELSE v

GradeLight(v) ==
    IF v.reason \in {"internal_error", "server_error"} /\ request.light /\ On("light_method_errors")
    THEN LightMethodError ELSE v

Grade408(v) == IF v.reason = "http_408" /\ ~On("penalize_408") THEN [v EXCEPT !.pen = "none"] ELSE v

\* A passed answer that names an old head, or that no node produces.
GradePassed(v, a) ==
    IF ~IsSuccess(v) THEN v
    ELSE IF a.lagging /\ On("stale_response") THEN StaleResponse
    ELSE IF a.invalid /\ On("invalid_result") THEN InvalidResult
    ELSE v

BlockMethod(v) ==
    IF \/ v.reason = "http_408" /\ v.attr = "supplier" /\ On("method_block_408")
       \/ v.reason = "refused_recent" /\ On("method_block_refusal")
    THEN [v EXCEPT !.block = TRUE] ELSE v

\* The verdict on an answer.
AnswerGrade(a) ==
    LET analyzed == IF request.rpc = "grpc" THEN AnalyzeGRPC(a.body, a.grpc)
                    ELSE Analyze(a.status, a.body, request.rpc, FALSE)
        refined == RefineVerdict(GradeMethod(GradeREST(analyzed, a)), a.body.says)
        v == Grade408(GradeLight(GradeFuture(RetryQuery5xx(refined))))
    IN  BlockMethod(BreakUpstream(GradePassed(v, a)))

\* The answer in hand: the relay's, or a CometBFT node's own error the relay
\* miner handed on as its 500.
AnswerInHand ==
    IF /\ outcome.err # NoError /\ UpstreamAnswer(outcome.err)
       /\ CometBFTErrorAnswer(request.rpc, outcome.err.status, outcome.err.body)
    THEN Answered(outcome.err.status, outcome.err.body)
    ELSE outcome.ans

Heuristic ==
    /\ chainPc = "grade" /\ chainPc' = "score"
    /\ LET held == AnswerInHand
       IN  \/ /\ held = NoAnswer
              /\ LET g == ErrorGrade(outcome.err)
                 IN  verdict' = g.v /\ chainErr' = g.err /\ outcome' = [outcome EXCEPT !.ans = g.ans]
           \/ /\ held # NoAnswer /\ ~On("heuristic")
              /\ verdict' = NoVerdict /\ chainErr' = "nil" /\ outcome' = [err |-> NoError, ans |-> held]
           \/ /\ held # NoAnswer /\ On("heuristic")
              /\ verdict' = AnswerGrade(held) /\ chainErr' = (IF verdict'.retry THEN "verdict" ELSE "nil")
              /\ outcome' = [err |-> NoError, ans |-> held]
    /\ UNCHANGED <<enabled, request, vouched, methodMarks, attemptAt, budget, attemptRecorded, vote>>

-----------------------------------------------------------------------------
(* Score, MethodBlocks and CircuitBreak on the way out.                    *)

StaleEndpoints == outcome.err.kind = "stale"

\* buildSignal: "none" when the attempt is nobody's signal.
BuildSignal ==
    IF StaleEndpoints \/ (chainErr # "nil" /\ verdict # NoVerdict /\ verdict.attr = "client") THEN "none"
    ELSE IF verdict.attr = "blockchain" /\ verdict.pen = "none" THEN
        IF On("chain_answers_unscored") THEN "none" ELSE "success"
    ELSE IF verdict.pen # "none" THEN verdict.pen
    ELSE IF verdict # NoVerdict /\ chainErr # "nil" THEN "none"
    ELSE IF chainErr # "nil" \/ outcome.ans.status \notin 200..299 THEN "minor"
    ELSE "success"

\* Mutant: a client's error that came with an answer is graded like any other.
NobodysSignalError == verdict # NoVerdict /\ verdict.attr = "client" /\ chainErr # "nil"

\* nobodysSignal.
NobodysSignal == verdict # NoVerdict /\ verdict.attr = "client" /\ (chainErr # "nil" \/ ~IsSuccess(verdict))

\* Score: one signal per attempt, or a note of the answer.
ScoreRecords ==
    IF ~On("scoring_v2") \/ NobodysSignal THEN [by |-> "none", signal |-> "none"]
    ELSE IF BuildSignal # "none" THEN [by |-> "score", signal |-> BuildSignal]
    ELSE IF verdict # NoVerdict /\ ~StaleEndpoints /\ (chainErr # "nil" \/ verdict.attr = "blockchain")
        THEN [by |-> "score", signal |-> "note"]
    ELSE [by |-> "none", signal |-> "none"]
ScoreAttempt ==
    /\ chainPc = "score" /\ chainPc' = "mark"
    /\ attemptRecorded' = ScoreRecords
    /\ UNCHANGED <<enabled, request, vouched, methodMarks, attemptAt, outcome, budget, verdict, chainErr, vote>>

\* The marks a verdict sets: the method's, and its family's after a -32601.
MarkedBy(v) == {"method"} \cup IF v.reason = "method_not_found" /\ request.family THEN {"family"} ELSE {}

\* Mutant: the answer is retried though every host refuses the method.
DeliversRefusalNever(v, marks) == FALSE

\* With no host left open for the method, its refusal is delivered.
DeliversRefusal(v, marks) == v.reason = "method_not_found" /\ v.retry /\ Open(marks) = {}

MethodBlocks ==
    /\ chainPc = "mark" /\ chainPc' = "vote"
    /\ \/ /\ BlocksApply /\ verdict.block
          /\ methodMarks' = [methodMarks EXCEPT ![attemptAt] = @ \cup MarkedBy(verdict)]
          /\ IF DeliversRefusal(verdict, methodMarks')
             THEN verdict' = [verdict EXCEPT !.retry = FALSE] /\ chainErr' = "nil"
             ELSE UNCHANGED <<verdict, chainErr>>
       \/ ~(BlocksApply /\ verdict.block) /\ UNCHANGED <<methodMarks, verdict, chainErr>>
    /\ UNCHANGED <<enabled, request, vouched, attemptAt, outcome, budget, attemptRecorded, vote>>

CircuitBreak ==
    /\ chainPc = "vote" /\ chainPc' = "decide"
    /\ vote' = (IF ~On("circuit_breaker") THEN "none"
                ELSE IF verdict.brk THEN "failure"
                ELSE IF chainErr = "nil" THEN "success" ELSE "none")
    /\ UNCHANGED <<enabled, request, vouched, methodMarks, attemptAt, outcome, budget, verdict, chainErr, attemptRecorded>>

-----------------------------------------------------------------------------
(* Retry, Observe and the router.                                          *)

\* Retry goes again on a retryable error while the request lives.
GoAgain ==
    /\ chainPc = "decide" /\ chainPc' = "again"
    /\ Retryable(chainErr) /\ budget.ctx = "live"
    /\ UNCHANGED <<enabled, request, vouched, methodMarks, attemptAt, outcome, budget, verdict, chainErr, attemptRecorded, vote>>

\* The attempt is the request's last: Observe scores it where Score does not.
ObserveLast ==
    /\ chainPc = "decide" /\ chainPc' = "done"
    /\ attemptRecorded' = IF ~On("scoring_v2") /\ BuildSignal # "none" THEN [by |-> "observe", signal |-> BuildSignal] ELSE attemptRecorded
    /\ UNCHANGED <<enabled, request, vouched, methodMarks, attemptAt, outcome, budget, verdict, chainErr, vote>>

\* SupplierPage.
SupplierPage ==
    verdict.attr = "supplier" /\ outcome.ans # NoAnswer /\ (outcome.ans.status = 408 \/ ~ValidJSON(outcome.ans.body))

\* What the router hands the client: the answer, its own error, or nothing yet.
Delivered ==
    IF chainPc # "done" THEN "nothing"
    ELSE IF outcome.ans # NoAnswer /\ (chainErr = "nil" \/ (chainErr = "verdict" /\ ~SupplierPage)) THEN "answer"
    ELSE "error"

\* Another attempt of the same method marks a host, before this one's own mark.
OtherMark ==
    /\ chainPc \in {"grade", "mark"}
    /\ \E h \in ChainHosts : methodMarks' = [methodMarks EXCEPT ![h] = @ \cup {"method"}]
    /\ UNCHANGED <<chainPc, enabled, request, vouched, attemptAt, outcome, budget, verdict, chainErr, attemptRecorded, vote>>

ChainNext == Send \/ Heuristic \/ ScoreAttempt \/ MethodBlocks \/ CircuitBreak \/ GoAgain \/ ObserveLast \/ OtherMark

ChainTypeOK ==
    /\ chainPc \in {"send", "grade", "score", "mark", "vote", "decide", "again", "done"}
    /\ attemptAt \in ChainHosts \cup {None} /\ chainErr \in ChainErrs
    /\ verdict.attr \in Attributions /\ verdict.pen \in Severities \cup {"none"}
    /\ attemptRecorded.by \in {"none", "score", "observe"} /\ attemptRecorded.signal \in Severities \cup {"none", "success", "note"}
    /\ vote \in {"none", "failure", "success"}

-----------------------------------------------------------------------------
(* Properties.                                                             *)

AttemptCharged == attemptRecorded.signal \in Severities \/ vote = "failure"

\* What no supplier did, whatever the shape it arrives in: the client left, the
\* session rolled over, the allocation is spent, the time was others', the
\* request was too large, or the node truthfully answered.
NotTheSuppliersError(e) ==
    \/ budget.ctx = "cancelled" \/ e.kind \in {"cancelled", "stale"}
    \/ budget.had = "short" /\ (IsTimeout(e) \/ (budget.ctx = "deadline" /\ e.kind # "stale"))
    \/ /\ budget.ctx = "live"
       /\ \/ e.kind = "too_large"
          \/ e.kind = "status" /\ (e.status = 413 \/ IsOverServiced(e.body))
          \/ e.kind = "miner" /\ e.report \in {"over_served", "session"}
RefusesRecent(a) ==
    /\ a.body.says \in refusalClaims /\ request.blocks.named /\ request.plugin # "none"
    /\ request.blocks.head > 0
    /\ request.blocks.from \in (request.blocks.head - RefusalMaxBack)..(request.blocks.head - RefusalMinBack)
NotTheSuppliersAnswer(a) ==
    \/ IsOverServiced(a.body)
    \/ /\ a.status = 200 /\ request.rpc # "grpc" /\ a.body.form = "error" /\ ~request.light
       /\ \/ a.body.code \in {"reverted", "no_method", "bad_params", "bad_request", "simulated"}
          \/ a.body.code = "server" /\ a.body.says \in {"", "client", "missing", "no_block", "ahead", "unsupported", "lite"}
          \/ a.body.code \in {"server", "internal", "other"} /\ a.body.says = "pruned" /\ ~RefusesRecent(a)
          \/ a.body.code = "internal" /\ a.body.says \in {"", "missing", "no_block", "ahead", "far_ahead"}
    \/ a.status = 200 /\ a.body.form = "result" /\ ~a.lagging /\ ~a.invalid

\* heuristic/transport.go:42, overserved.go:5, relay/middleware/heuristic.go:332:
\* an attempt costs a supplier neither score nor a vote for what was not its
\* doing, on whichever path the attempt is recorded.
ChargedFairly ==
    /\ (outcome.err # NoError /\ NotTheSuppliersError(outcome.err) => ~AttemptCharged)
    /\ (outcome.ans # NoAnswer /\ On("heuristic") /\ NotTheSuppliersAnswer(outcome.ans) => ~AttemptCharged)

\* score.go:84, circuitbreak.go:72, router.go:418: what is recorded of an
\* attempt is of one piece.  A breaker failure is never a success of the score,
\* a breaker success never a penalty of an attempt Score saw, a penalised answer
\* is handed over only when another attempt could not do better, and the -32601
\* of a catalogued method is not retried with every host refusing it.
AttemptOfOnePiece ==
    /\ vote = "failure" => attemptRecorded.signal # "success"
    /\ vote = "success" /\ attemptRecorded.by = "score" => attemptRecorded.signal \notin Severities
    /\ verdict.pen # "none" /\ chainPc \notin {"send", "grade"} => Retryable(chainErr)
    /\ chainPc = "again" /\ verdict.reason = "method_not_found" /\ BlocksApply => Open(methodMarks) # {}

\* heuristic/transport.go:117 says of a 413 "the client's payload and is not
\* retried", :119 of an answer over the response ceiling "Not scored, not
\* retried": what every supplier would do alike is not asked of another.
FinalVerdictsStand ==
    chainPc = "again" /\ (outcome.err.kind = "too_large" \/ (outcome.err.kind = "status" /\ outcome.err.status = 413))
        => verdict.retry
=============================================================================
