------------------------------- MODULE Health -------------------------------
(***************************************************************************)
(* The active health checker (internal/health), over backends that come    *)
(* and go under it.                                                        *)
(*                                                                         *)
(* A backend object is <<url, n>>, the n-th to be registered under its     *)
(* URL.  Streaks and probe times are kept by URL; the health they decide   *)
(* is the object's.  One goroutine runs rounds: it takes a snapshot,       *)
(* probes what is due, all at once, and applies the answers as they come.  *)
(* Registrations are removed and registered again while it waits.          *)
(*                                                                         *)
(* Time is counted in parts of UnhealthyInterval, so that a round which    *)
(* starts late is followed by one that finds it is too early to probe.     *)
(***************************************************************************)
EXTENDS Integers, FiniteSets

CONSTANTS
  ProbeUrls,          \* backend URLs
  Passive,            \* those the pool is configured with that have no health path
  MaxRegistrations,   \* bound: times a URL is registered
  Interval,           \* Config.Interval
  UnhealthyInterval,  \* Config.UnhealthyInterval, the ticker's period
  SuccessThreshold,   \* Config.SuccessThreshold
  FailureThreshold,   \* Config.FailureThreshold
  Never               \* no probe yet; no registration; no round; no series

ASSUME HealthAssumption ==
  /\ Passive \subseteq ProbeUrls /\ MaxRegistrations \in Nat \ {0}
  /\ UnhealthyInterval \in 1..Interval
  /\ SuccessThreshold \in Nat \ {0} /\ FailureThreshold \in Nat \ {0}
  /\ Never \notin 1..MaxRegistrations

VARIABLES
  registered,  \* url -> its current object's number
  health,      \* object -> Backend.health
  works,       \* url -> whether its /health answers 2xx
  streaks,     \* Checker.streaks
  since,       \* url -> time since Checker.last, up to Interval
  ticker,      \* [left, due]: time to the next tick, and a tick not yet taken
  round,       \* the round under way: [snap, out], the answers outstanding
  passed       \* object -> it has answered a probe of its own with success

healthVars == << registered, health, works, streaks, since, ticker, round, passed >>

Registrations == ProbeUrls \X (1..MaxRegistrations)
Object(u) == << u, registered[u] >>
\* HealthMod: set at construction, and passive only for the pool's own backends.
IsPassive(b) == b[1] \in Passive /\ b[2] = 1
Snapshot == {Object(u) : u \in {v \in ProbeUrls : registered[v] # Never}}

\* A streak past both thresholds acts as one that is at the larger.
Cap == 1 + IF SuccessThreshold > FailureThreshold THEN SuccessThreshold ELSE FailureThreshold

HealthInit ==
  /\ registered = [u \in ProbeUrls |-> IF u \in Passive THEN 1 ELSE Never]
  /\ health = [b \in Registrations |-> IF IsPassive(b) THEN "healthy" ELSE "unknown"]
  /\ works \in [ProbeUrls -> BOOLEAN]
  /\ streaks = [u \in ProbeUrls |-> 0]
  /\ since = [u \in ProbeUrls |-> Never]
  /\ ticker = [left |-> UnhealthyInterval, due |-> TRUE]
  /\ round = Never
  /\ passed = [b \in Registrations |-> FALSE]

----------------------------------------------------------------------------
\* registry.Add of a URL that is not there.
RegisterBackend(u, n) ==
  /\ registered[u] = Never
  /\ \A m \in 1..MaxRegistrations : m < n <=> health[<< u, m >>] = "gone"
  /\ registered' = [registered EXCEPT ![u] = n]
  /\ health' = [health EXCEPT ![<< u, n >>] = "unknown"]
  /\ UNCHANGED << works, streaks, since, ticker, round, passed >>

\* unlink: the object stays with whoever holds it.
UnlinkBackend(u) ==
  /\ registered[u] # Never
  /\ registered' = [registered EXCEPT ![u] = Never]
  /\ health' = [health EXCEPT ![Object(u)] = "gone"]
  /\ UNCHANGED << works, streaks, since, ticker, round, passed >>

\* A server breaks or recovers.
Flip(u) ==
  /\ works' = [works EXCEPT ![u] = ~@]
  /\ UNCHANGED << registered, health, streaks, since, ticker, round, passed >>

\* Time passes; a tick nobody has taken is not sent twice.
HealthTick ==
  /\ ticker' = IF ticker.left = 1 THEN [left |-> UnhealthyInterval, due |-> TRUE]
               ELSE [ticker EXCEPT !.left = @ - 1]
  /\ since' = [u \in ProbeUrls |->
       IF since[u] = Never \/ since[u] = Interval THEN since[u] ELSE since[u] + 1]
  /\ UNCHANGED << registered, health, works, streaks, round, passed >>

\* due.
Due(b) ==
  \/ since[b[1]] = Never
  \/ since[b[1]] >= IF health[b] = "healthy" THEN Interval ELSE UnhealthyInterval

\* Round up to its probes.
StartRound ==
  LET targets == {b \in Snapshot : ~IsPassive(b) /\ Due(b)} IN
  /\ round = Never /\ ticker.due
  /\ ticker' = [ticker EXCEPT !.due = FALSE]
  /\ since' = [u \in ProbeUrls |-> IF \E b \in targets : b[1] = u THEN 0 ELSE since[u]]
  /\ round' = [snap |-> Snapshot, out |-> targets]
  /\ UNCHANGED << registered, health, works, streaks, passed >>

\* The streak after an answer.
Streak(s, ok) ==
  IF ok THEN (IF s < 0 THEN 1 ELSE IF s < Cap THEN s + 1 ELSE s)
  ELSE (IF s > 0 THEN -1 ELSE IF s > -Cap THEN s - 1 ELSE s)

\* Mutant: the change is made as the threshold is reached, and only then.
Judged_AtThreshold(h, s, ok) ==
  IF ok /\ s = SuccessThreshold THEN "healthy"
  ELSE IF ~ok /\ -s = FailureThreshold THEN "unhealthy" ELSE h

\* observe's hysteresis.
Judged(h, s, ok) ==
  IF ok /\ s >= SuccessThreshold THEN "healthy"
  ELSE IF ~ok /\ -s >= FailureThreshold THEN "unhealthy" ELSE h

\* Mutant: the answer goes to the backend now registered under the URL.
Observed_ByUrl(b) == IF registered[b[1]] = Never THEN b ELSE Object(b[1])

\* The object an answer is about.
Observed(b) == b

\* probe and observe: an answer arrives.  What happens to an object that is no
\* longer registered shows nowhere.
ProbeAnswers(b) ==
  LET ok == works[b[1]]
      s == Streak(streaks[b[1]], ok)
      o == Observed(b)
  IN  /\ round # Never /\ b \in round.out
      /\ streaks' = [streaks EXCEPT ![b[1]] = s]
      /\ health' = [health EXCEPT ![o] = IF @ = "gone" THEN @ ELSE Judged(@, s, ok)]
      /\ passed' = [passed EXCEPT ![b] = @ \/ ok]
      /\ round' = [round EXCEPT !.out = @ \ {b}]
      /\ UNCHANGED << registered, works, since, ticker >>

\* publishGauges, and the round is over.
EndRound ==
  /\ round # Never /\ round.out = {}
  /\ round' = Never
  /\ UNCHANGED << registered, health, works, streaks, since, ticker, passed >>

Checking == StartRound \/ EndRound \/ \E b \in Registrations : ProbeAnswers(b)

HealthNext ==
  \/ \E u \in ProbeUrls : \/ \E n \in 1..MaxRegistrations : RegisterBackend(u, n)
                          \/ UnlinkBackend(u) \/ Flip(u)
  \/ HealthTick \/ Checking

\* The ticker runs, and every probe ends by its timeout.
HealthFairness == WF_healthVars(HealthTick) /\ WF_healthVars(Checking)

HealthSpec == HealthInit /\ [][HealthNext]_healthVars /\ HealthFairness

----------------------------------------------------------------------------
\* "A new backend starts Unknown and becomes eligible only after its first
\* successful check" (backend.go:67-68): its own, though its URL's earlier tenant
\* left a streak, and an answer for that tenant may still be on its way
\* (health.go:164-171, 194-218).
AdmittedByOwnProbe ==
  \A u \in ProbeUrls :
    registered[u] # Never /\ ~IsPassive(Object(u)) /\ health[Object(u)] = "healthy" => passed[Object(u)]

\* A probed backend ends up with the health its server has
\* (health.go:97-115, 119-136): whatever its URL's streak was, whichever ticks were
\* missed.  A passive one is never judged.
HealthFollows ==
  \A u \in ProbeUrls :
    /\ <>[](registered[u] # Never /\ works[u])
         => <>[](registered[u] # Never /\ health[Object(u)] = "healthy")
    /\ <>[](registered[u] # Never /\ ~IsPassive(Object(u)) /\ ~works[u])
         => <>[](registered[u] # Never /\ health[Object(u)] = "unhealthy")
=============================================================================
