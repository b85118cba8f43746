------------------------------ MODULE Circuit ------------------------------
(***************************************************************************)
(* The circuit breaker of one backend (internal/circuit): Closed, Open and *)
(* HalfOpen, a sliding window of outcomes kept in a ring of one-second     *)
(* buckets, and a semaphore of half-open probe tokens.                     *)
(*                                                                         *)
(* Allow is two steps, because the state is read under the mutex and the   *)
(* token is taken by compare-and-swap after it is released; Record is two, *)
(* because the token goes back in a defer that runs after the mutex is     *)
(* released.  A request's outcome may therefore arrive in a state other    *)
(* than the one that admitted it.                                          *)
(*                                                                         *)
(* Time advances by Tick, one second.  Absolute times only matter by their *)
(* distance from now, so a bucket keeps its age instead of startSec and    *)
(* the breaker the time since openedAt, each no further than the bound     *)
(* past which the code stops telling values apart; cursor is the index     *)
(* now % Buckets.                                                          *)
(***************************************************************************)
EXTENDS Integers, FiniteSets, FiniteSetsExt

CONSTANTS
  Requests,           \* goroutines that call Allow and Record in pairs
  Window,             \* Config.Window, in seconds
  Buckets,            \* Config.Buckets
  MinRequests,        \* Config.MinRequests
  RateNum, RateDen,   \* Config.FailureRate as a fraction
  OpenFor,            \* Config.OpenFor, in seconds
  HalfOpenMax,        \* Config.HalfOpenMax
  HalfOpenSuccesses,  \* Config.HalfOpenSuccesses
  MaxPerSecond        \* bound: outcomes observed in one second

ASSUME RequestsAssumption == IsFiniteSet(Requests)
ASSUME ConfigAssumption ==
  /\ Window \in Nat \ {0} /\ Buckets \in Nat \ {0} /\ MinRequests \in Nat
  /\ RateNum \in Nat /\ RateDen \in Nat \ {0} /\ OpenFor \in Nat
  /\ HalfOpenMax \in Nat \ {0} /\ HalfOpenSuccesses \in Nat \ {0}
  /\ MaxPerSecond \in Nat

VARIABLES
  state,           \* Breaker.state
  ring,            \* Breaker.ring: index -> [age, ok, fail]
  cursor,          \* now.Unix() % Buckets
  sinceOpen,       \* now - openedAt, capped at OpenFor
  halfOpenOK,      \* Breaker.halfOpenOK
  halfOpenTokens,  \* Breaker.halfOpenTokens
  pc,              \* where each goroutine is between Allow and Record
  token,           \* the token flag Allow returned to it
  history          \* the outcomes observed in each of the last Window seconds,
                   \* oldest last, since the window was last cleared

breaker == << state, sinceOpen, halfOpenOK >>
window == << ring, cursor, history >>
circuitVars == << state, ring, cursor, sinceOpen, halfOpenOK, halfOpenTokens, pc, token,
           history >>

States == {"Closed", "Open", "HalfOpen"}
Outcomes == {"Success", "Failure", "Ignored"}

Empty == [age |-> Window, ok |-> 0, fail |-> 0]
Nothing == [s \in 0..(Window - 1) |-> [ok |-> 0, fail |-> 0]]

CircuitInit ==
  /\ state = "Closed"
  /\ ring = [i \in 0..(Buckets - 1) |-> Empty]
  /\ cursor = 0
  /\ sinceOpen = OpenFor
  /\ halfOpenOK = 0
  /\ halfOpenTokens = 0
  /\ pc = [r \in Requests |-> "idle"]
  /\ token = [r \in Requests |-> FALSE]
  /\ history = Nothing

----------------------------------------------------------------------------
\* sumLocked skips the buckets whose second has left the window.
InWindow(b) == b.age < Window

Recent(rg) == {i \in DOMAIN rg : InWindow(rg[i])}
OkSum(rg) == MapThenSumSet(LAMBDA i : rg[i].ok, Recent(rg))
FailSum(rg) == MapThenSumSet(LAMBDA i : rg[i].fail, Recent(rg))

\* Mutant: a bucket of an earlier second is added to instead of being restarted.
Restart_Never(b) == b

\* observeLocked: a bucket of another second is started afresh.
Restart(b) == IF b.age # 0 THEN [age |-> 0, ok |-> 0, fail |-> 0] ELSE b

CountedIn(b, o) ==
  IF o = "Failure" THEN [b EXCEPT !.fail = @ + 1] ELSE [b EXCEPT !.ok = @ + 1]

Observed(o) == [ring EXCEPT ![cursor] = CountedIn(Restart(@), o)]

\* Record's test for opening, on the window with the new outcome in it.
Trips(rg) ==
  LET fail == FailSum(rg)
      total == OkSum(rg) + fail
  IN  total >= MinRequests /\ fail * RateDen >= RateNum * total

\* transitionLocked, to each of its three targets.  The window survives opening
\* and half-opening; closing clears it.
ToOpen == state' = "Open" /\ sinceOpen' = 0
ToHalfOpen == state' = "HalfOpen" /\ halfOpenOK' = 0
ToClosed ==
  /\ state' = "Closed" /\ halfOpenOK' = 0
  /\ ring' = [i \in 0..(Buckets - 1) |-> Empty]
  /\ history' = Nothing

OpenElapsed == state = "Open" /\ sinceOpen >= OpenFor

----------------------------------------------------------------------------
\* A second passes.
Tick ==
  /\ cursor' = (cursor + 1) % Buckets
  /\ ring' = [i \in 0..(Buckets - 1) |->
                [ring[i] EXCEPT !.age = IF @ < Window THEN @ + 1 ELSE Window]]
  /\ sinceOpen' = IF sinceOpen < OpenFor THEN sinceOpen + 1 ELSE OpenFor
  /\ history' = [s \in 0..(Window - 1) |->
                   IF s = 0 THEN [ok |-> 0, fail |-> 0] ELSE history[s - 1]]
  /\ UNCHANGED << state, halfOpenOK, halfOpenTokens, pc, token >>

\* Allow under the mutex: an Open breaker whose time is up becomes HalfOpen, and
\* the state seen decides what happens after the unlock.
Allow(r) ==
  /\ pc[r] = "idle"
  /\ IF OpenElapsed
     THEN ToHalfOpen /\ UNCHANGED sinceOpen
     ELSE UNCHANGED breaker
  /\ pc' = [pc EXCEPT ![r] = CASE state' = "Closed"   -> "admitted"
                               [] state' = "Open"     -> "idle"
                               [] state' = "HalfOpen" -> "probing"]
  /\ UNCHANGED << window, halfOpenTokens, token >>

\* Mutant: the semaphore admits one probe too many.
TokenLeft_OffByOne == halfOpenTokens <= HalfOpenMax

TokenLeft == halfOpenTokens < HalfOpenMax

\* Allow's compare-and-swap loop, whatever the state has become meanwhile.
TakeToken(r) ==
  /\ pc[r] = "probing"
  /\ IF TokenLeft
     THEN /\ halfOpenTokens' = halfOpenTokens + 1
          /\ token' = [token EXCEPT ![r] = TRUE]
          /\ pc' = [pc EXCEPT ![r] = "admitted"]
     ELSE /\ pc' = [pc EXCEPT ![r] = "idle"]
          /\ UNCHANGED << halfOpenTokens, token >>
  /\ UNCHANGED << breaker, window >>

EnoughSuccesses(n) == n >= HalfOpenSuccesses

\* Record up to its unlock in the half-open state: a failure re-opens, and enough
\* successes close.
RecordHalfOpen(o) ==
  /\ state = "HalfOpen" /\ o # "Ignored"
  /\ IF o = "Failure"
     THEN ToOpen /\ halfOpenOK' = 0 /\ UNCHANGED window
     ELSE IF EnoughSuccesses(halfOpenOK + 1)
          THEN ToClosed /\ UNCHANGED << sinceOpen, cursor >>
          ELSE /\ halfOpenOK' = halfOpenOK + 1
               /\ UNCHANGED << state, sinceOpen, window >>

\* Record up to its unlock in the other two: the outcome enters the window, and
\* a Closed breaker may trip.
RecordWindow(o) ==
  /\ state # "HalfOpen" /\ o # "Ignored"
  /\ history[0].ok + history[0].fail < MaxPerSecond
  /\ ring' = Observed(o)
  /\ history' = [history EXCEPT ![0] = CountedIn(@, o)]
  /\ IF state = "Closed" /\ Trips(ring') THEN ToOpen ELSE UNCHANGED << state, sinceOpen >>
  /\ UNCHANGED << halfOpenOK, cursor >>

\* A 429, an abandoned call, a prefill rejection: no verdict on the backend.
RecordIgnored(o) == o = "Ignored" /\ UNCHANGED << breaker, window >>

Record(r, o) ==
  /\ pc[r] = "admitted"
  /\ RecordHalfOpen(o) \/ RecordWindow(o) \/ RecordIgnored(o)
  /\ pc' = [pc EXCEPT ![r] = IF token[r] THEN "recorded" ELSE "idle"]
  /\ UNCHANGED << halfOpenTokens, token >>

\* Mutant: the early return of an ignored outcome or a transition skips the token.
TokenBack_Kept == halfOpenTokens

TokenBack == halfOpenTokens - 1

\* Record's deferred return of the token.
ReturnToken(r) ==
  /\ pc[r] = "recorded"
  /\ halfOpenTokens' = TokenBack
  /\ token' = [token EXCEPT ![r] = FALSE]
  /\ pc' = [pc EXCEPT ![r] = "idle"]
  /\ UNCHANGED << breaker, window >>

CircuitNext ==
  \/ Tick
  \/ \E r \in Requests :
       \/ Allow(r) \/ TakeToken(r) \/ ReturnToken(r)
       \/ \E o \in Outcomes : Record(r, o)

\* Time passes, and an admitted request finishes: the proxy records every outcome,
\* a panic included.  Nothing is assumed of arrivals.
CircuitFairness ==
  /\ WF_circuitVars(Tick)
  /\ \A r \in Requests :
       /\ WF_circuitVars(TakeToken(r)) /\ WF_circuitVars(ReturnToken(r))
       /\ WF_circuitVars(\E o \in Outcomes : Record(r, o))

CircuitSpec == CircuitInit /\ [][CircuitNext]_circuitVars /\ CircuitFairness

----------------------------------------------------------------------------
CircuitTypeOK ==
  /\ state \in States
  /\ ring \in [0..(Buckets - 1) -> [age : 0..Window, ok : Nat, fail : Nat]]
  /\ cursor \in 0..(Buckets - 1)
  /\ sinceOpen \in 0..OpenFor
  /\ halfOpenOK \in 0..(HalfOpenSuccesses - 1)
  /\ halfOpenTokens \in Nat
  /\ pc \in [Requests -> {"idle", "probing", "admitted", "recorded"}]
  /\ token \in [Requests -> BOOLEAN]
  /\ history \in [0..(Window - 1) -> [ok : Nat, fail : Nat]]

\* The requests that hold a half-open probe slot.
Probes == {r \in Requests : token[r]}

\* Every token taken is given back exactly once and there are never more probes
\* than HalfOpenMax (circuit.go:113, 149-151, proxy.go:397-407): a leaked token
\* would deny every later probe and leave no way back to Closed.
TokensAreProbes ==
  /\ halfOpenTokens = Cardinality(Probes)
  /\ halfOpenTokens <= HalfOpenMax
  /\ \A r \in Requests : token[r] => pc[r] \in {"admitted", "recorded"}

\* What Record totals is exactly the outcomes of the seconds both in the window
\* and still in the ring (HLT-N2): nothing older is counted, and nothing younger
\* is lost when an index comes round again.
RingIsWindow ==
  LET kept == {s \in 0..(Window - 1) : s < Buckets}
      next == Observed("Success")
  IN  /\ OkSum(next) = 1 + MapThenSumSet(LAMBDA s : history[s].ok, kept)
      /\ FailSum(next) = MapThenSumSet(LAMBDA s : history[s].fail, kept)

\* A backend that has recovered is let back in: if requests keep arriving and
\* from some point on every verdict is a success, the breaker keeps returning to
\* Closed (circuit.go:174-177, proxy.go:403-405).  A token that was not returned,
\* or a State that stayed Open, would shut the backend out for ever.
Recovers ==
  /\ []<><< \E r \in Requests : Allow(r) >>_circuitVars
  /\ <>[][~\E r \in Requests : Record(r, "Failure") \/ Record(r, "Ignored")]_circuitVars
  => []<>(state = "Closed")
============================================================================
