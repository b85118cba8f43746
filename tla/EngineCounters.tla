--------------------------- MODULE EngineCounters ---------------------------
(***************************************************************************)
(* The aggregation of the engines' counters (internal/vllmmetrics) into    *)
(* totals that only go up.                                                 *)
(*                                                                         *)
(* One tracked series.  An endpoint's process counts up and may restart    *)
(* from zero; endpoints leave and rejoin the registry.  A cycle reads the  *)
(* live endpoints, scrapes each at its own moment, and folds the results   *)
(* in under the lock.  Scrapes fail, or find no tracked series.            *)
(***************************************************************************)
EXTENDS Integers, FiniteSets, FiniteSetsExt

CONSTANTS
  Endpoints,         \* backend URLs
  MaxMissingCycles,  \* maxMissingCycles
  DeadAfter,         \* deadAfter
  MaxWork,           \* bound: what the endpoints ever count
  MaxTotal,          \* bound: no cycle starts with a larger total
  NotSeen            \* no previous value; no result

ASSUME CountersAssumption == MaxMissingCycles \in Nat /\ DeadAfter \in Nat \ {0}
ASSUME EndpointsFinite == IsFiniteSet(Endpoints) /\ NotSeen \notin Int

VARIABLES
  counter,    \* endpoint -> its process's counter
  work,       \* endpoint -> all it ever counted, over its restarts
  inRegistry, \* the registry's endpoints
  total,      \* Aggregator.totals of the series
  prev,       \* Aggregator.prev
  missing,    \* Aggregator.missing
  barren,     \* Aggregator.barren
  dead,       \* Aggregator.dead
  results,    \* the cycle under way: endpoint -> what its scrape gave
  asked,      \* the endpoints it asks
  forgotten   \* endpoints whose previous value was dropped

counterVars == << counter, work, inRegistry, total, prev, missing, barren, dead,
                  results, asked, forgotten >>
world == << counter, work, inRegistry >>
books == << total, prev, missing, barren, dead, forgotten >>

Work == MapThenSumSet(LAMBDA e : work[e], Endpoints)

CountersInit ==
  /\ counter = [e \in Endpoints |-> 0] /\ work = [e \in Endpoints |-> 0]
  /\ inRegistry = Endpoints
  /\ total = 0
  /\ prev = [e \in Endpoints |-> NotSeen]
  /\ missing = [e \in Endpoints |-> 0] /\ barren = [e \in Endpoints |-> 0]
  /\ dead = {} /\ forgotten = {}
  /\ results = NotSeen /\ asked = {}

----------------------------------------------------------------------------
(* The fleet. *)

Count(e) ==
  /\ Work < MaxWork
  /\ counter' = [counter EXCEPT ![e] = @ + 1] /\ work' = [work EXCEPT ![e] = @ + 1]
  /\ UNCHANGED << inRegistry, books, results, asked >>

Restart(e) ==
  /\ counter[e] > 0
  /\ counter' = [counter EXCEPT ![e] = 0]
  /\ UNCHANGED << work, inRegistry, books, results, asked >>

JoinOrLeave(e) ==
  /\ inRegistry' = IF e \in inRegistry THEN inRegistry \ {e} ELSE inRegistry \cup {e}
  /\ UNCHANGED << counter, work, books, results, asked >>

----------------------------------------------------------------------------
(* The aggregator. *)

\* Retire: serve.go knows at startup that the endpoint is no engine.
Retire(e) ==
  /\ total = 0 /\ results = NotSeen /\ dead = {} /\ counter[e] = 0
  /\ dead' = dead \cup {e}
  /\ UNCHANGED << world, total, prev, missing, barren, forgotten, results, asked >>

\* ScrapeAll up to its goroutines: live().
StartCycle ==
  /\ results = NotSeen /\ total <= MaxTotal
  /\ asked' = inRegistry \ dead
  /\ results' = [e \in asked' |-> NotSeen]
  /\ UNCHANGED << world, books >>

\* scrapeOne and parse: the counter as it is now, or nothing.  An engine that has
\* counted nothing yet may serve no series.
Scrape(e, ok) ==
  /\ results # NotSeen /\ e \in asked /\ results[e] = NotSeen
  /\ results' = [results EXCEPT ![e] = IF ok THEN counter[e] ELSE -1]
  /\ UNCHANGED << world, books, asked >>

\* Mutant: a reading that has not moved is taken for a restart.
Delta_AtOrBelow(e, v) == IF prev[e] = NotSeen \/ v <= prev[e] THEN v ELSE v - prev[e]

\* What a reading adds.
Delta(e, v) == IF prev[e] = NotSeen \/ v < prev[e] THEN v ELSE v - prev[e]

Gave(e) == e \in asked /\ results[e] >= 0

\* What the endpoint's reading of this cycle adds.
Adds(e) == Delta(e, results[e])

\* Aged out: it has not been asked for longer than maxMissingCycles.
Aged(e) == e \notin asked /\ prev[e] # NotSeen /\ missing[e] + 1 > MaxMissingCycles

\* ScrapeAll after wg.Wait.
Fold ==
  LET read == {e \in Endpoints : Gave(e)}
      empty == {e \in asked : ~Gave(e)}
  IN  /\ results # NotSeen /\ \A e \in asked : results[e] # NotSeen
      /\ total' = total + MapThenSumSet(Adds, read)
      /\ barren' = [e \in Endpoints |->
           IF e \in read THEN 0 ELSE IF e \in empty /\ barren[e] < DeadAfter THEN barren[e] + 1 ELSE barren[e]]
      /\ dead' = dead \cup {e \in empty : barren'[e] >= DeadAfter}
      /\ prev' = [e \in Endpoints |->
           IF e \in read THEN results[e] ELSE IF Aged(e) THEN NotSeen ELSE prev[e]]
      /\ missing' = [e \in Endpoints |->
           IF e \in asked \/ Aged(e) THEN 0 ELSE IF prev[e] # NotSeen THEN missing[e] + 1 ELSE missing[e]]
      /\ forgotten' = forgotten \cup {e \in Endpoints : Aged(e)}
      /\ results' = NotSeen /\ asked' = {}
      /\ UNCHANGED world

CountersNext ==
  \/ \E e \in Endpoints : Count(e) \/ Restart(e) \/ JoinOrLeave(e) \/ Retire(e)
  \/ StartCycle \/ Fold
  \/ \E e \in Endpoints, ok \in BOOLEAN : Scrape(e, ok)

CountersSpec == CountersInit /\ [][CountersNext]_counterVars

----------------------------------------------------------------------------
\* The total never says more than the engines did, as long as no endpoint was
\* forgotten and read again (vllmmetrics.go:63-69, 275-324): restarts lose work the
\* router had not read, and nothing is counted twice.
NothingTwice ==
  forgotten = {} => total <= Work
=============================================================================
