--------------------------- MODULE BackendSeries ----------------------------
(***************************************************************************)
(* When a backend's metric series begin and end                            *)
(* (metrics/backend_series.go): a collector derives them, at each scrape,  *)
(* from the backends of every pool and from those it still remembers.      *)
(*                                                                         *)
(* A key is a pool and a label; the pools may front the same endpoint.     *)
(* Time is the collector's clock.  The count is of requests routed.        *)
(***************************************************************************)
EXTENDS Integers, FiniteSets, FiniteSetsExt

CONSTANTS
  SeriesPools, SeriesLabels,
  Retention,     \* BackendSeries.retention
  MaxRequests,   \* bound: requests routed to one backend object
  MaxObjects,    \* bound: objects registered under one key
  Nil            \* nothing: no object, no entry, no time, no sample

ASSUME SeriesAssumption ==
  /\ IsFiniteSet(SeriesPools) /\ IsFiniteSet(SeriesLabels)
  /\ Retention \in Nat \ {0}
  /\ Nil \notin Nat \cup [n : Nat, since : Nat \cup {Nil}]

VARIABLES
  live,      \* key -> the number of its registered object
  down,      \* key -> the registered object is Down()
  requests,  \* <<key, number>> -> Backend.requests, Nil before it exists
  tracked,   \* key -> [n, since]: tracked.b, and time since downSince
  out        \* label -> the count the last scrape exported

seriesVars == << live, down, requests, tracked, out >>

Keys == SeriesPools \X SeriesLabels

SeriesInit ==
  /\ live = [k \in Keys |-> Nil] /\ down = [k \in Keys |-> FALSE]
  /\ requests = [x \in Keys \X (1..MaxObjects) |-> Nil]
  /\ tracked = [k \in Keys |-> Nil]
  /\ out = [l \in SeriesLabels |-> Nil]

----------------------------------------------------------------------------
\* A backend is registered; objects of the key are numbered.
Appear(k, n) ==
  /\ live[k] = Nil
  /\ \A m \in 1..MaxObjects : m < n <=> requests[<< k, m >>] # Nil
  /\ live' = [live EXCEPT ![k] = n] /\ down' = [down EXCEPT ![k] = FALSE]
  /\ requests' = [requests EXCEPT ![<< k, n >>] = 0]
  /\ UNCHANGED << tracked, out >>

\* It is removed.
Vanish(k) ==
  /\ live[k] # Nil
  /\ live' = [live EXCEPT ![k] = Nil]
  /\ UNCHANGED << down, requests, tracked, out >>

\* It becomes unhealthy or drains, or recovers.
Toggle(k) ==
  /\ live[k] # Nil
  /\ down' = [down EXCEPT ![k] = ~@]
  /\ UNCHANGED << live, requests, tracked, out >>

\* A request is routed to it.
Routed(k) ==
  /\ live[k] # Nil /\ requests[<< k, live[k] >>] < MaxRequests
  /\ requests' = [requests EXCEPT ![<< k, live[k] >>] = @ + 1]
  /\ UNCHANGED << live, down, tracked, out >>

Up(k) == live[k] # Nil /\ ~down[k]

SeriesTick ==
  /\ tracked' = [k \in Keys |->
       IF tracked[k] = Nil \/ tracked[k].since \in {Nil, Retention} THEN tracked[k]
       ELSE [tracked[k] EXCEPT !.since = @ + 1]]
  /\ UNCHANGED << live, down, requests, out >>

\* The entry of a key as a scrape leaves it: Collect's two loops.
Entry(k) ==
  LET t == IF live[k] # Nil /\ (tracked[k] = Nil \/ tracked[k].n # live[k])
           THEN [n |-> live[k], since |-> Nil] ELSE tracked[k]
  IN  IF t = Nil THEN Nil
      ELSE IF Up(k) THEN [t EXCEPT !.since = Nil]
      ELSE IF t.since = Nil THEN [t EXCEPT !.since = 0]
      ELSE IF live[k] = Nil /\ t.since = Retention THEN Nil ELSE t

\* report's test.
Reported(t) == t # Nil /\ t.since # Retention

\* Mutant: a removed backend's count goes the way of its gauges.
RoutedTo_OfLive(k, t) == IF Up(k) THEN requests[<< k, t.n >>] ELSE 0

\* What an entry adds to its label's count: down or not, unlike the gauges.
RoutedTo(k, t) == requests[<< k, t.n >>]

\* A series is summed over the pools that carry the endpoint.
Adding(k) == RoutedTo(k, Entry(k))
Exported(l) ==
  LET ks == {k \in Keys : k[2] = l /\ Reported(Entry(k))}
  IN  IF ks = {} THEN Nil ELSE MapThenSumSet(Adding, ks)

Collect ==
  /\ tracked' = [k \in Keys |-> Entry(k)]
  /\ out' = [l \in SeriesLabels |-> Exported(l)]
  /\ UNCHANGED << live, down, requests >>

SeriesNext ==
  \/ \E k \in Keys : \/ \E n \in 1..MaxObjects : Appear(k, n)
                     \/ Vanish(k) \/ Toggle(k) \/ Routed(k)
  \/ SeriesTick \/ Collect

SeriesSpec == SeriesInit /\ [][SeriesNext]_seriesVars

----------------------------------------------------------------------------
\* From one scrape to the next a label's count falls only where an object of it was
\* replaced, or was down for the whole retention: "the request counter keeps its last
\* value" (backend_series.go:47-58) through failures, drains and removals, in whichever
\* of its pools.
CountKept ==
  [][\A l \in SeriesLabels :
       out[l] # Nil /\ out'[l] # Nil /\ out'[l] < out[l] =>
         \E k \in Keys : /\ k[2] = l /\ tracked[k] # Nil
                        /\ \/ tracked'[k] = Nil \/ tracked'[k].n # tracked[k].n
                           \/ tracked'[k].since = Retention]_seriesVars
=============================================================================
