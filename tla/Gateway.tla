------------------------------ MODULE Gateway ------------------------------
(***************************************************************************)
(* The inference listener: the middleware chain around the mux and the     *)
(* handlers behind it (gateway.go, middleware.go), for several requests at *)
(* once that share the concurrency slots.                                  *)
(*                                                                         *)
(* A path is the sequence of its segments, "/" being << "" >>, so that the *)
(* allowlist's segment boundaries are exact.  What the proxy does with a   *)
(* request is other modules; here its handler ends: with an answer, with   *)
(* the panic ReverseProxy raises when a copy fails ("abort"), or with one  *)
(* of its own ("panic").  Request ids, headers and what the log says are   *)
(* left out.                                                               *)
(***************************************************************************)
EXTENDS Integers, Sequences, FiniteSets, SequencesExt

CONSTANTS
  Calls,          \* the requests
  Paths,          \* the paths they may ask for
  DialectPaths,   \* the paths of the dialect's own routes
  Allowlists,     \* the values of Config.PathAllowlist to consider
  MaxConcurrent   \* Config.MaxConcurrentRequests; 0 is no limit

\* A request's method, with what the chain tells apart besides: an OPTIONS that asks
\* for a method is a preflight, and a POST may carry a body over the limit.
Kinds == {"get", "post", "big", "options", "preflight"}
Credentials == {"none", "wrong", "right"}

ASSUME GatewayAssumption == MaxConcurrent \in Nat /\ IsFiniteSet(Calls)
ASSUME PathsAssumption ==
  \A p \in Paths \cup DialectPaths \cup UNION Allowlists : p \in Seq(STRING) /\ p # << >>

VARIABLES
  conf,      \* Config: whether a key is set, the allowlist in force, UserPrefix
  call,      \* each request: its stage, kind, path, credential and answer
  sem,       \* concurrency slots taken
  counted,   \* the requests the access log has counted
  upstreamed \* history: what went to a backend: the path and the credential checked

gatewayVars == << conf, call, sem, counted, upstreamed >>

\* New: a key without an allowlist serves the dialect's own paths only.
Effective(key, allow) == IF key /\ allow = {} THEN DialectPaths ELSE allow

GatewayInit ==
  /\ \E k, p \in BOOLEAN, a \in Allowlists :
       conf = [key |-> k, prefix |-> p, allow |-> Effective(k, a)]
  /\ call = [c \in Calls |-> [stage |-> "new", kind |-> "get", path |-> << "" >>,
                              cred |-> "none", answer |-> "none"]]
  /\ sem = 0 /\ counted = {} /\ upstreamed = {}

----------------------------------------------------------------------------
\* SplitUserPrefix: all but a single segment surrenders the first.
SplitUserPrefix(p) == IF Len(p) > 1 /\ p[1] # "" THEN Tail(p) ELSE p

\* The path everything behind userPrefixMiddleware sees.
RealPath(p) == IF conf.prefix THEN SplitUserPrefix(p) ELSE p

\* An entry ending in "/" is a subtree; another is itself and its children.
Admits(entry, p) ==
  IF Last(entry) = "" THEN Len(p) >= Len(entry) /\ IsPrefix(Front(entry), p)
  ELSE IsPrefix(entry, p)

PathAllowed(p) == conf.allow = {} \/ \E entry \in conf.allow : Admits(entry, p)

CredentialValid(c) == call[c].cred = "right"

\* The path auth judges: userPrefixMiddleware is outside it.
SeenByAuth(c) == RealPath(call[c].path)

\* The answer a middleware gives in place of the handlers, or "pass".
FrontAnswer(c) ==
  IF call[c].kind = "preflight" THEN "204"
  ELSE IF ~PathAllowed(SeenByAuth(c)) THEN "404"
  ELSE IF conf.key /\ ~CredentialValid(c) THEN "401"
  ELSE "pass"

\* A request comes in.
Arrives(c, k, p, cr) ==
  /\ call[c].stage = "new"
  /\ call' = [call EXCEPT ![c] = [@ EXCEPT !.stage = "front", !.kind = k, !.path = p,
                                           !.cred = cr]]
  /\ UNCHANGED << conf, sem, counted, upstreamed >>

\* The answer goes out.
Answered(a) ==
  [stage |-> "done", kind |-> "get", path |-> << "" >>, cred |-> "none", answer |-> a]

\* recover, requestID, accessLog, cors, bodyLimit, userPrefix and auth.
Middleware(c) ==
  /\ call[c].stage = "front"
  /\ LET a == FrontAnswer(c) IN
       IF a = "pass"
       THEN /\ call' = [call EXCEPT ![c].stage = "slot", ![c].path = RealPath(@)]
            /\ UNCHANGED counted
       ELSE /\ call' = [call EXCEPT ![c] = Answered(a)]
            /\ counted' = counted \cup {c}
  /\ UNCHANGED << conf, sem, upstreamed >>

\* concurrencyMiddleware: a slot, or shed at once.
Slot(c) ==
  /\ call[c].stage = "slot"
  /\ IF MaxConcurrent = 0 \/ sem < MaxConcurrent
     THEN /\ sem' = IF MaxConcurrent = 0 THEN sem ELSE sem + 1
          /\ call' = [call EXCEPT ![c].stage = "mux"]
          /\ UNCHANGED counted
     ELSE /\ call' = [call EXCEPT ![c] = Answered("503")]
          /\ counted' = counted \cup {c}
          /\ UNCHANGED sem
  /\ UNCHANGED << conf, upstreamed >>

\* The slot goes back as concurrencyMiddleware is left.
Freed == IF MaxConcurrent = 0 THEN sem ELSE sem - 1

\* The method the mux matches; a preflight never gets that far.
Method(k) == IF k \in {"post", "big"} THEN "POST" ELSE IF k = "get" THEN "GET" ELSE "OPTIONS"

\* The router's own endpoints: the admin and operational handlers, the refusal of
\* /metrics and the merged model list.  Each is for one method, and another method on
\* the same path falls through to "/", the passthrough.
OwnRoutes ==
  {<< "GET", p >> : p \in {<< "get_server_info" >>, << "metrics" >>, << "workers" >>,
                          << "list_workers" >>, << "get_loads" >>, << "v1", "models" >>,
                          << "get_model_info" >>}}
  \cup {<< "POST", p >> : p \in {<< "workers" >>, << "add_worker" >>, << "remove_worker" >>}}

Own(c) == << Method(call[c].kind), call[c].path >> \in OwnRoutes

\* The handlers that answer without a backend: the router's own, whatever they say;
\* a body over the limit, a model no rule matches, a pool without a healthy backend.
LocalAnswers(c) ==
  IF Own(c) THEN {"200"}
  ELSE IF call[c].kind = "big" THEN {"413"} ELSE {"404", "503"}

Locally(c, a) ==
  /\ call[c].stage = "mux" /\ a \in LocalAnswers(c)
  /\ call' = [call EXCEPT ![c] = Answered(a)]
  /\ counted' = counted \cup {c}
  /\ sem' = Freed
  /\ UNCHANGED << conf, upstreamed >>

\* inferenceHandler serves the request, by the dialect's route or as passthrough.
Proxied(c) ==
  /\ call[c].stage = "mux" /\ ~Own(c) /\ call[c].kind # "big"
  /\ upstreamed' = upstreamed \cup {[path |-> call[c].path, cred |-> call[c].cred]}
  /\ call' = [call EXCEPT ![c].stage = "proxy"]
  /\ UNCHANGED << conf, sem, counted >>

ProxyAnswers(c) ==
  /\ call[c].stage = "proxy"
  /\ call' = [call EXCEPT ![c] = Answered("200")]
  /\ counted' = counted \cup {c}
  /\ sem' = Freed
  /\ UNCHANGED << conf, upstreamed >>

\* Mutant: the slot is given back after the handler, not in a defer.
Unwound_NoDefer == sem

\* The slots after a panic has passed concurrencyMiddleware.
Unwound == Freed

\* A panic passes the access log uncounted and ends in recoverMiddleware: an abort
\* is raised again and closes the connection, anything else is answered 500.
ProxyPanics(c, how) ==
  /\ call[c].stage = "proxy"
  /\ call' = [call EXCEPT ![c] = Answered(IF how = "abort" THEN "closed" ELSE "500")]
  /\ sem' = Unwound
  /\ UNCHANGED << conf, counted, upstreamed >>

GatewayNext ==
  \E c \in Calls :
    \/ \E k \in Kinds, p \in Paths, cr \in Credentials : Arrives(c, k, p, cr)
    \/ Middleware(c) \/ Slot(c) \/ Proxied(c) \/ ProxyAnswers(c)
    \/ \E a \in {"200", "404", "413", "503"} : Locally(c, a)
    \/ \E how \in {"abort", "panic"} : ProxyPanics(c, how)

GatewaySpec == GatewayInit /\ [][GatewayNext]_gatewayVars

----------------------------------------------------------------------------
Inside == {c \in Calls : call[c].stage \in {"mux", "proxy"}}

\* REL-10: the slots taken are the requests behind concurrencyMiddleware, however they
\* leave it (middleware.go:207-222): one lost to an abort never comes back, and a router
\* that has lost them all sheds every request.  AUTH-4, AUTH-7 (middleware.go:338-437,
\* gateway.go:66-93): what reaches a backend carries a valid key if one is set, and its
\* path, as forwarded and not as sent, is one the allowlist admits by whole segments.
GatewaySound ==
  /\ MaxConcurrent > 0 => sem = Cardinality(Inside) /\ sem <= MaxConcurrent
  /\ \A u \in upstreamed :
       /\ conf.key => u.cred = "right"
       /\ conf.allow # {} =>
            \E entry \in conf.allow, n \in 0..Len(u.path) :
              SubSeq(u.path, 1, n) = IF Last(entry) = "" THEN Front(entry) ELSE entry
============================================================================
