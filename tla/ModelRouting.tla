---------------------------- MODULE ModelRouting ----------------------------
(***************************************************************************)
(* From a request's model to a pool, its model name and its credential:    *)
(* the rule table (routing.go), the discovery of a pool's own model        *)
(* (serve/automodel.go), the merged model listing and what each call to an *)
(* upstream presents as its credential (gateway.go, proxy.go).             *)
(*                                                                         *)
(* A pattern is reduced to the set of model names it matches.  A pool is a *)
(* sequence of backends, each with the models it lists, which is how the   *)
(* registry's snapshot orders them; a backend of a pool is named by its    *)
(* place there.                                                            *)
(***************************************************************************)
EXTENDS Integers, Sequences, Functions

CONSTANTS
  RuleTables,    \* the tables to consider: sequences of rules
  PoolOf,        \* the backends of each pool, in snapshot order
  Listed,        \* the models a backend lists, in order
  Models,        \* the names clients ask for
  AutoAttempts,  \* autoModelAttempts
  Untouched      \* no model name: the request's own is kept

Pools == DOMAIN PoolOf

ASSUME RoutingAssumption ==
  /\ \A t \in RuleTables : \A i \in DOMAIN t : t[i].pool \in Pools
  /\ \A p \in Pools : PoolOf[p] \in Seq(DOMAIN Listed)
  /\ \A b \in DOMAIN Listed : Listed[b] \in Seq(Range(Listed[b]))
  /\ AutoAttempts \in Nat

VARIABLES
  rules,      \* the table: patterns, pool, rewrite, auto and auth of each rule
  global,     \* proxy.Config.UpstreamCredential is set
  usable,     \* the backends that are Available
  mute,       \* the backends that do not answer a listing
  auto,       \* AutoModel of each rule
  resolver,   \* each rule's resolver: pc, whom the round has still to ask, attempts, and
              \* who was available when the round began and who has been asked in it
  sentTo      \* history: the calls to upstreams of the last step: the rule they are
              \* for, its pool, the model they name and their credential

routingVars == << rules, global, usable, mute, auto, resolver, sentTo >>

Rules == DOMAIN rules
Resolver(rule) == [pc |-> IF rule.auto THEN "look" ELSE "off", queue |-> {},
                   attempts |-> 0, asked |-> {}, round |-> {}]

RoutingInit ==
  /\ rules \in RuleTables
  /\ global \in BOOLEAN
  /\ usable = {} /\ mute = {}
  /\ auto = [i \in Rules |-> Untouched]
  /\ resolver = [i \in Rules |-> Resolver(rules[i])]
  /\ sentTo = {}

----------------------------------------------------------------------------
\* An empty pattern list is a catch-all.
Matches(rule, m) == rule.models = {} \/ m \in rule.models

\* An explicit `as` wins over discovery, which is read per request.
RewriteModel(i) == IF rules[i].rewrite # Untouched THEN rules[i].rewrite ELSE auto[i]

\* Route: the first matching rule, if any matches.
Route(m) ==
  LET hits == {i \in Rules : Matches(rules[i], m)}
  IN  {i \in hits : \A j \in hits : i <= j}

\* NewTable's targets: each pool once, with its first rule.
Targets == {i \in Rules : \A j \in 1..(i - 1) : rules[j].pool # rules[i].pool}

\* Mutant: forwarding is asked before the pool's own credential.
Presented_ForwardFirst(rule) ==
  IF rule.forward /\ ~rule.strip THEN "caller"
  ELSE IF rule.credential THEN "pool" ELSE "none"

\* What the proxy presents to the upstream of a request it relays.
Presented(rule) ==
  IF rule.credential THEN "pool"
  ELSE IF rule.forward /\ ~rule.strip THEN "caller"
  ELSE IF ~rule.strip /\ global THEN "global" ELSE "none"

\* applyPoolCredential, for the listing.
ListingPresents(rule) ==
  IF rule.credential THEN "pool"
  ELSE IF rule.forward /\ ~rule.strip THEN "caller" ELSE "none"

\* Registry's Available, by place.
Availables(p) == {n \in DOMAIN PoolOf[p] : PoolOf[p][n] \in usable}

----------------------------------------------------------------------------
\* Health and engines.
Turns(b) ==
  /\ usable' = IF b \in usable THEN usable \ {b} ELSE usable \cup {b}
  /\ UNCHANGED << rules, global, mute, auto, resolver, sentTo >>

StopsListing(b) ==
  /\ mute' = IF b \in mute THEN mute \ {b} ELSE mute \cup {b}
  /\ UNCHANGED << rules, global, usable, auto, resolver, sentTo >>

\* inferenceHandler routes a request for m.
RequestFor(m) ==
  /\ \E i \in Route(m) :
       /\ Availables(rules[i].pool) # {}
       /\ sentTo' = {[rule |-> i, pool |-> rules[i].pool, cred |-> Presented(rules[i]),
                      model |-> IF RewriteModel(i) = Untouched THEN m ELSE RewriteModel(i)]}
  /\ UNCHANGED << rules, global, usable, mute, auto, resolver >>

\* handleMergedModels asks the first available backend of every pool.
Listing ==
  /\ sentTo' = {[rule |-> i, pool |-> rules[i].pool, cred |-> ListingPresents(rules[i]),
                 model |-> Untouched] : i \in {j \in Targets : Availables(rules[j].pool) # {}}}
  /\ UNCHANGED << rules, global, usable, mute, auto, resolver >>

----------------------------------------------------------------------------

\* The backends a round of the resolver asks.
RoundOf(p) == Availables(p)

\* resolveAutoModel looks for backends; with none it sleeps and looks again.
Look(i) ==
  /\ resolver[i].pc = "look" /\ Availables(rules[i].pool) # {}
  /\ resolver' = [resolver EXCEPT
                    ![i].pc = "ask", ![i].queue = RoundOf(rules[i].pool), ![i].asked = {},
                    ![i].round = Availables(rules[i].pool)]
  /\ UNCHANGED << rules, global, usable, mute, auto, sentTo >>

\* pickAutoModel in mode auto: a pool that lists one model is rewritten to it.
PickAutoModel(b) == IF Len(Listed[b]) = 1 THEN Listed[b][1] ELSE Untouched

\* listModels on the next backend of the round.
Ask(i) ==
  /\ resolver[i].pc = "ask"
  /\ \E n \in resolver[i].queue :
       LET b == PoolOf[rules[i].pool][n] IN
       /\ \A m \in resolver[i].queue : n <= m
       /\ IF b \in mute
          THEN /\ resolver' = [resolver EXCEPT ![i].queue = @ \ {n}, ![i].asked = @ \cup {n}]
               /\ UNCHANGED auto
          ELSE /\ auto' = [auto EXCEPT ![i] = PickAutoModel(b)]
               /\ resolver' = [resolver EXCEPT ![i].pc = "settled"]
  /\ UNCHANGED << rules, global, usable, mute, sentTo >>

\* Nobody answered: another round, or giving up for good.
RoundFails(i) ==
  /\ resolver[i].pc = "ask" /\ resolver[i].queue = {}
  /\ resolver' = [resolver EXCEPT
                    ![i].attempts = @ + 1,
                    ![i].pc = IF resolver[i].attempts + 1 >= AutoAttempts THEN "gaveUp" ELSE "look"]
  /\ UNCHANGED << rules, global, usable, mute, auto, sentTo >>

RoutingNext ==
  \/ \E b \in UNION {Range(PoolOf[p]) : p \in Pools} : Turns(b) \/ StopsListing(b)
  \/ \E m \in Models : RequestFor(m)
  \/ Listing
  \/ \E i \in Rules : Look(i) \/ Ask(i) \/ RoundFails(i)

RoutingSpec == RoutingInit /\ [][RoutingNext]_routingVars

----------------------------------------------------------------------------
\* A user's key leaves the router only on a rule that asks for it and has no
\* credential of its own, whether the call carries a request or asks for the listing
\* (proxy.go:234-246, gateway.go:527-544).
CallerKeyConfined ==
  \A s \in sentTo : s.cred = "caller" =>
    rules[s.rule].forward /\ ~rules[s.rule].strip /\ ~rules[s.rule].credential

\* Discovery cannot collapse a fan-out or name a model its pool does not serve
\* (automodel.go:220-227), and it asks the pool, not a node (automodel.go:75-82): a
\* round fails only after every backend available at its start was asked.
DiscoveryIsThePools ==
  \A i \in Rules :
    /\ auto[i] # Untouched =>
         \E b \in Range(PoolOf[rules[i].pool]) : Listed[b] = << auto[i] >>
    /\ resolver[i].pc = "ask" /\ resolver[i].queue = {} =>
         resolver[i].round \subseteq resolver[i].asked

\* What a route decides reaches the upstream as decided: the key of the caller, and
\* the model's name.
RoutesKept == CallerKeyConfined /\ DiscoveryIsThePools
============================================================================
