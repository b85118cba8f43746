----------------------------- MODULE Endpoints -----------------------------
(***************************************************************************)
(* The endpoints of a dynamic model (llm/endpoint_discovery.go,            *)
(* llm/endpoint_router.go and the dynamic part of llm/chat_clients.go):    *)
(* each raw endpoint is probed once per process behind a sync.Once, however *)
(* many requests come for it, and a request of a series then takes a slot  *)
(* of the series' home endpoint, or of another one when that is overloaded. *)
(*                                                                         *)
(* URLs, model ids and the hash are left out: which endpoint hashPick      *)
(* falls on is any of those that are not overloaded.                       *)
(***************************************************************************)
EXTENDS Integers, Sequences, FiniteSets, FiniteSetsExt

CONSTANTS
  Callers,     \* request goroutines, one for each unit of the benchmark's concurrency
  SeriesNums,  \* series of requests
  Endpoint,    \* indexes of DynamicModelConfig.BaseURLs: 1..n
  Bare,        \* those given as host:port only: shouldProbeForV1
  MustKnow,    \* the type's servers refuse a placeholder model id: anthropic
  NotRun,      \* a sync.Once nobody has entered
  NoHome       \* a series without an endpoint

ASSUME EndpointsAssumption ==
  /\ IsFiniteSet(Callers) /\ IsFiniteSet(SeriesNums) /\ IsFiniteSet(Endpoint)
  /\ Endpoint = 1..Cardinality(Endpoint) /\ Cardinality(Endpoint) > 1
  /\ Bare \subseteq Endpoint /\ MustKnow \in BOOLEAN

\* What a discovery may leave behind: resolvedEndpoint.
ResolvedEndpoints == [base : {"v1", "raw"}, model : {"id", ""}]

ASSUME MarksAssumption ==
  /\ NoHome \notin Endpoint /\ NotRun \notin Callers
  /\ ResolvedEndpoints \cap ({NotRun} \cup Callers) = {}

VARIABLES
  caller,    \* caller -> [at, want, next, bases, model, series, home, idx]
  memo,      \* endpoint -> NotRun, the caller inside the once, or resolvedEndpoint
  probed,    \* history: endpoint -> how often its discovery ran
  homes,     \* EndpointRouter.seriesMap
  assigned,  \* EndpointRouter.assignments
  inFlight   \* EndpointRouter.inFlight

endpointVars == << caller, memo, probed, homes, assigned, inFlight >>

Away == [at |-> "away", want |-> FALSE, next |-> 1, bases |-> << >>, model |-> "",
         series |-> NoHome, home |-> NoHome, idx |-> NoHome]

EndpointsInit ==
  /\ caller = [c \in Callers |-> Away]
  /\ memo = [e \in Endpoint |-> NotRun]
  /\ probed = [e \in Endpoint |-> 0]
  /\ homes = [s \in SeriesNums |-> NoHome]
  /\ assigned = [e \in Endpoint |-> 0]
  /\ inFlight = [e \in Endpoint |-> 0]

----------------------------------------------------------------------------
(* getDynamicChatGetter: the endpoints are resolved in order. *)

\* A request of series s, whose spec names no model when want.
AskFor(c, s, want) ==
  /\ caller[c].at = "away"
  /\ caller' = [caller EXCEPT ![c] = [Away EXCEPT !.at = "resolve", !.want = want, !.series = s]]
  /\ UNCHANGED << memo, probed, homes, assigned, inFlight >>

Resolving(c, e) == caller[c].at = "resolve" /\ caller[c].next = e

\* Mutant: nothing keeps a second caller out while the first one probes.
Free_NoOnce(e) == memo[e] = NotRun \/ memo[e] \in Callers

Free(e) == memo[e] = NotRun

\* resolveDynamicEndpoint, the first to come.
StartsProbe(c, e) ==
  /\ Resolving(c, e) /\ Free(e)
  /\ memo' = [memo EXCEPT ![e] = c]
  /\ probed' = [probed EXCEPT ![e] = @ + 1]
  /\ UNCHANGED << caller, homes, assigned, inFlight >>

\* What the probes of one discovery may find: a bare endpoint's /v1/models answers, or
\* the endpoint's own models list is asked, if a model is wanted of it.
Discovered(e, want) ==
  (IF e \in Bare THEN {[base |-> "v1", model |-> "id"]} ELSE {})
    \cup [base : {"raw"}, model : IF want /\ e = 1 THEN {"id", ""} ELSE {""}]

ProbeEnds(c, e) ==
  /\ Resolving(c, e) /\ memo[e] = c
  /\ \E r \in Discovered(e, caller[c].want) : memo' = [memo EXCEPT ![e] = r]
  /\ UNCHANGED << caller, probed, homes, assigned, inFlight >>

Resolved(e) == memo[e] # NotRun /\ memo[e] \notin Callers

\* The memoised result, for the first caller and for those who waited.
TakesResolved(c, e) ==
  /\ Resolving(c, e) /\ Resolved(e)
  /\ caller' = [caller EXCEPT ![c].bases = Append(@, memo[e].base), ![c].next = e + 1,
                              ![c].model = IF e = 1 THEN memo[e].model ELSE @]
  /\ UNCHANGED << memo, probed, homes, assigned, inFlight >>

\* Without a model of its own and none found: a placeholder, or a panic.
ChoosesModel(c) ==
  /\ caller[c].at = "resolve" /\ caller[c].next > Cardinality(Endpoint)
  /\ caller' = [caller EXCEPT ![c] =
       IF ~@.want THEN [@ EXCEPT !.at = "home", !.model = "given"]
       ELSE IF @.model # "" THEN [@ EXCEPT !.at = "home"]
       ELSE IF MustKnow THEN Away
       ELSE [@ EXCEPT !.at = "home", !.model = "default"]]
  /\ UNCHANGED << memo, probed, homes, assigned, inFlight >>

----------------------------------------------------------------------------
(* EndpointRouter, as the replay's endpointPicker uses it. *)

FewestSeries == CHOOSE e \in Endpoint : \A f \in Endpoint :
                  assigned[e] < assigned[f] \/ (assigned[e] = assigned[f] /\ e <= f)

\* HomeIndexForSeries.
FindsHome(c) ==
  /\ caller[c].at = "home"
  /\ LET s == caller[c].series
         h == IF homes[s] # NoHome THEN homes[s] ELSE FewestSeries
     IN /\ caller' = [caller EXCEPT ![c].at = "pick", ![c].home = h]
        /\ homes' = [homes EXCEPT ![s] = h]
        /\ assigned' = IF homes[s] # NoHome THEN assigned ELSE [assigned EXCEPT ![h] = @ + 1]
  /\ UNCHANGED << memo, probed, inFlight >>

\* NewEndpointRouterWithFailover: the fair share, at least one.
WellBalanced == Max({1, Cardinality(Callers) \div Cardinality(Endpoint)})

\* The default threshold of 1.2, rounded down.
OverloadLimit == Max({1, (12 * WellBalanced) \div 10})

Overloaded(e) == inFlight[e] > OverloadLimit

\* pickLocked: home, else whatever the hash falls on first that is not overloaded, else home.
PickLocked(home) ==
  LET open == {e \in Endpoint : ~Overloaded(e)} IN
  IF home \in open \/ open = {} THEN {home} ELSE open

\* The second critical section of AcquireForRequest.
AcquireForRequest(c) ==
  /\ caller[c].at = "pick"
  /\ \E e \in PickLocked(caller[c].home) :
       /\ inFlight' = [inFlight EXCEPT ![e] = @ + 1]
       /\ caller' = [caller EXCEPT ![c].at = "sent", ![c].idx = e]
  /\ UNCHANGED << memo, probed, homes, assigned >>

ReleaseIndex(c) ==
  /\ caller[c].at = "sent"
  /\ inFlight' = [inFlight EXCEPT ![caller[c].idx] = @ - 1]
  /\ caller' = [caller EXCEPT ![c] = Away]
  /\ UNCHANGED << memo, probed, homes, assigned >>

EndpointsNext ==
  \E c \in Callers :
    \/ \E s \in SeriesNums, want \in BOOLEAN : AskFor(c, s, want)
    \/ \E e \in Endpoint : StartsProbe(c, e) \/ ProbeEnds(c, e) \/ TakesResolved(c, e)
    \/ ChoosesModel(c) \/ FindsHome(c) \/ AcquireForRequest(c) \/ ReleaseIndex(c)

EndpointsSpec == EndpointsInit /\ [][EndpointsNext]_endpointVars

----------------------------------------------------------------------------
\* "the underlying network probe(s) fire exactly once per process per distinct endpoint,
\* no matter how many times or how concurrently" and all see its one result
\* (endpoint_discovery.go:106-113).  The in-flight counts are the requests under way, and
\* a burst of one series' siblings, whose choice and increment are one critical section,
\* never takes an endpoint past its limit by more than the request that crosses it
\* (endpoint_router.go:205-227): with no more callers than the concurrency the fair share
\* was computed from, not everything can be overloaded.  The series stay spread evenly.
EndpointsSound ==
  /\ \A e \in Endpoint :
       /\ probed[e] <= 1
       /\ \A c \in Callers : e < caller[c].next => caller[c].bases[e] = memo[e].base
       /\ inFlight[e] = Cardinality({c \in Callers : caller[c].at = "sent" /\ caller[c].idx = e})
       /\ inFlight[e] <= OverloadLimit + 1
       /\ assigned[e] = Cardinality({s \in SeriesNums : homes[s] = e})
       /\ \A f \in Endpoint : assigned[e] <= assigned[f] + 1
============================================================================
