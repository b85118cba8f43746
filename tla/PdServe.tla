------------------------------ MODULE PdServe ------------------------------
(***************************************************************************)
(* gateway.pdServe: a request on a disaggregated pool runs a prefill leg   *)
(* on a P node, whose answer names where the KV lies, and then the real    *)
(* request on a D node with those kv_transfer_params.  A leg that is       *)
(* refused for capacity is retried until the retry budget is spent; a leg  *)
(* that cannot be completed leaves the whole prompt to the D node.         *)
(*                                                                         *)
(* A body is reduced to what the legs change: the token limit, whether it  *)
(* streams, and its kv_transfer_params.  proxy.Serve on the P nodes is one *)
(* step; what the decode leg does is modules CapacityQueue and ProxyServe. *)
(* ReverseProxy aborts the handler when the P node's answer breaks off     *)
(* (module UpstreamStream): that leg unwinds the request.                  *)
(***************************************************************************)
EXTENDS Integers, FiniteSets, Sequences

CONSTANTS
  PdBackends,   \* the pool's backends
  PrefillUrls,  \* those started with --prefill-url
  BodyShapes,   \* the request bodies: records of limit, stream and params, or NotJson
  NotJson,      \* a body that is not a JSON object
  NoParams,     \* no kv_transfer_params
  RemoteDecode  \* the prefill leg's own kv_transfer_params

ASSUME PdAssumption == PrefillUrls \subseteq PdBackends /\ NoParams \notin PdBackends
ASSUME BodyAssumption ==
  /\ NotJson \notin BodyShapes
  /\ BodyShapes \subseteq [limit : {b.limit : b \in BodyShapes}, stream : BOOLEAN,
                          params : {b.params : b \in BodyShapes}]

VARIABLES
  pd,           \* "idle", "leg", "wait", "decode", "unwound" or "answered"
  body,         \* the client's request body
  healthy,      \* the backends that are available
  limited,      \* RetryTimeLimit > 0
  late,         \* the retry budget is spent
  left,         \* the client has hung up
  buf,          \* what the leg's captureWriter was given: documents, each its parameters
  leg,          \* the last leg: the node asked, and the body it was sent
  params,       \* history: the parameters in the answer that completed a leg
  served        \* the decode leg: the candidates it had and the body they got

pdVars == << pd, body, healthy, limited, late, left, buf, leg, params, served >>

NoLeg == [node |-> NoParams, body |-> NotJson]
NotServed == [cands |-> {}, body |-> NotJson]

PdInit ==
  /\ pd = "idle"
  /\ body \in BodyShapes \cup {NotJson}
  /\ healthy \in SUBSET PdBackends
  /\ limited \in BOOLEAN
  /\ late = FALSE /\ left = FALSE
  /\ buf = << >> /\ leg = NoLeg /\ params = NoParams /\ served = NotServed

IsPrefill(b) == b \in PrefillUrls
PrefillNodes == {b \in healthy : IsPrefill(b)}
DecodeNodes == {b \in healthy : ~IsPrefill(b)}

\* One token, not streamed, KV left for a remote decoder.
PrefillBody(b) ==
  IF b = NotJson THEN b ELSE [limit |-> 1, stream |-> FALSE, params |-> RemoteDecode]

\* Mutant: the decode leg goes on from the prefill leg's body.
DecodeBody_OfLeg(b, p) == IF b = NotJson THEN b ELSE [PrefillBody(b) EXCEPT !.params = p]

\* The request with the transfer parameters of the prefill leg.
DecodeBody(b, p) == IF b = NotJson THEN b ELSE [b EXCEPT !.params = p]

\* ParseParams: the parameters of the one document that was captured.
ParseParams(docs) == IF Len(docs) = 1 THEN docs[1] ELSE NoParams

\* Mutant: one captureWriter for all the tries of a leg.
Captured_Kept(answer) == buf \o answer

\* Each try has a captureWriter of its own.
Captured(answer) == answer

\* What a try that does not complete the leg may have relayed: nothing, or a document
\* without parameters.
Unusable == {<< >>, << NoParams >>}

----------------------------------------------------------------------------
\* Health changes at any time; the caller may leave; the budget runs out.
HealthChanges(b) ==
  /\ pd \in {"leg", "wait"}
  /\ healthy' = IF b \in healthy THEN healthy \ {b} ELSE healthy \cup {b}
  /\ UNCHANGED << pd, body, limited, late, left, buf, leg, params, served >>

CallerLeaves ==
  /\ pd \in {"leg", "wait"} /\ ~left
  /\ left' = TRUE
  /\ UNCHANGED << pd, body, healthy, limited, late, buf, leg, params, served >>

BudgetEnds ==
  /\ pd \in {"leg", "wait"} /\ limited /\ ~late
  /\ late' = TRUE
  /\ UNCHANGED << pd, body, healthy, limited, left, buf, leg, params, served >>

\* inferenceHandler found a candidate and the route carries transfer parameters.
PdArrives ==
  /\ pd = "idle" /\ DecodeNodes # {}
  /\ pd' = "leg"
  /\ UNCHANGED << body, healthy, limited, late, left, buf, leg, params, served >>

\* The decode leg on the D nodes.  Nobody may be left by now: serveWithCapacityRetry
\* then answers without having served.
StartDecode(b) ==
  /\ pd' = "decode"
  /\ served' = [cands |-> DecodeNodes, body |-> b]

\* runPDPrefill without a P node.
NoPrefillNode ==
  /\ pd = "leg" /\ PrefillNodes = {}
  /\ StartDecode(body)
  /\ UNCHANGED << body, healthy, limited, late, left, buf, leg, params >>

\* A refused leg may wait for its node.
WithinBudget == ~limited \/ ~late

\* The P node, or the policy, refuses for capacity: the leg waits, or is given up.
LegRefused(n) ==
  /\ pd = "leg" /\ n \in PrefillNodes
  /\ leg' = [node |-> n, body |-> PrefillBody(body)]
  /\ \E answer \in Unusable : buf' = Captured(answer)
  /\ \/ /\ WithinBudget /\ ~left
        /\ pd' = "wait"
        /\ UNCHANGED served
     \/ /\ ~(WithinBudget /\ ~left)
        /\ StartDecode(body)
  /\ UNCHANGED << body, healthy, limited, late, left, params >>

\* The backoff or the Retry-After passes, or the caller leaves while it runs.
LegWaits ==
  /\ pd = "wait"
  /\ \/ pd' = "leg" /\ UNCHANGED served
     \/ left /\ StartDecode(body)
  /\ UNCHANGED << body, healthy, limited, late, left, buf, leg, params >>

\* The leg fails, or is answered without usable transfer parameters.
LegFails(n) ==
  /\ pd = "leg" /\ n \in PrefillNodes
  /\ leg' = [node |-> n, body |-> PrefillBody(body)]
  /\ \E answer \in Unusable : buf' = Captured(answer)
  /\ StartDecode(body)
  /\ UNCHANGED << body, healthy, limited, late, left, params >>

\* The P node's answer carries parameters.
LegSucceeds(n) ==
  /\ pd = "leg" /\ n \in PrefillNodes
  /\ leg' = [node |-> n, body |-> PrefillBody(body)]
  /\ buf' = Captured(<< n >>)
  /\ params' = n
  /\ LET p == ParseParams(buf') IN
       StartDecode(IF p = NoParams THEN body ELSE DecodeBody(body, p))
  /\ UNCHANGED << body, healthy, limited, late, left >>

\* The P node's answer breaks off, or the caller leaves in the middle of it.
LegAborts(n) ==
  /\ pd = "leg" /\ n \in PrefillNodes
  /\ leg' = [node |-> n, body |-> PrefillBody(body)]
  /\ \E answer \in Unusable : buf' = Captured(answer)
  /\ pd' = "unwound"
  /\ UNCHANGED << body, healthy, limited, late, left, params, served >>

DecodeAnswers ==
  /\ pd = "decode"
  /\ pd' = "answered"
  /\ UNCHANGED << body, healthy, limited, late, left, buf, leg, params, served >>

PdStep ==
  \/ NoPrefillNode \/ LegWaits \/ DecodeAnswers
  \/ \E n \in PdBackends : LegRefused(n) \/ LegFails(n) \/ LegSucceeds(n) \/ LegAborts(n)

PdNext ==
  \/ PdArrives \/ PdStep \/ CallerLeaves \/ BudgetEnds
  \/ \E b \in PdBackends : HealthChanges(b)

\* Attempts end (module UpstreamStream), timers fire and the budget runs out.
PdFairness == WF_pdVars(PdStep) /\ WF_pdVars(BudgetEnds)

PdSpec == PdInit /\ [][PdNext]_pdVars /\ PdFairness

----------------------------------------------------------------------------
\* What the D node gets is the client's own request (pd_serve.go:20-28): the one
\* token and the unstreamed answer of the prefill leg stay with it, and transfer
\* parameters are those of the P node that completed this request's leg, whatever
\* earlier tries of it were answered.
DecodeIsTheRequest ==
  pd = "decode" /\ body # NotJson =>
    /\ served.body.limit = body.limit /\ served.body.stream = body.stream
    /\ served.body.params \in {body.params, params}
    /\ params # NoParams => served.body.params = params
    /\ \A b \in served.cands : b # leg.node

============================================================================
