------------------------------ MODULE Signals ------------------------------
(***************************************************************************)
(* The signals of the routing flow (affinity/signal.go): which backends    *)
(* cannot take more work, and the in-flight level that describes each.     *)
(*                                                                         *)
(* The first part is the signals as functions of one backend's load, used  *)
(* by module Ladder.  The second is the feedback that drives the refused   *)
(* one: requests are selected, take a lease, hear 429 or 2xx, and release; *)
(* the latch is set and cleared by what they hear.  The hard-TTFT gate is  *)
(* in module Lease.                                                        *)
(*                                                                         *)
(* A load is [inflight, capacity, p90, decode, work, latch, gate]: the     *)
(* gauges of registry.Backend, the tokens in prefill and decode together   *)
(* (work), and the refusal latched on it, [level, age] or None.            *)
(***************************************************************************)
EXTENDS Integers, FiniteSets, FiniteSetsExt

CONSTANTS
  Nodes,             \* the pool's backends
  Reqs,              \* requests whose life is followed
  RefusalTtl,        \* Config.RefusalTTL, in ticks
  MinRebalanceLoad,  \* minRebalanceLoad
  MaxOther,          \* bound: other requests in flight on one backend
  Null               \* nil

ASSUME SignalsAssumption ==
  /\ RefusalTtl \in Nat /\ MinRebalanceLoad \in Nat /\ MaxOther \in Nat
  /\ IsFiniteSet(Nodes) /\ IsFiniteSet(Reqs)

----------------------------------------------------------------------------
(* Each signal is the set of the levels it fires with: empty when it does  *)
(* not.                                                                    *)

\* Mutant: the latch is held against the in-flight count alone, without a TTL.
RefusedSignal_NoTtl(l) ==
  IF l.latch # Null /\ l.inflight >= l.latch.level THEN {l.latch.level} ELSE {}

\* refusedSignal.saturated.
RefusedSignal(l) ==
  IF l.latch # Null /\ l.latch.age <= RefusalTtl /\ l.inflight >= l.latch.level
  THEN {l.latch.level} ELSE {}

\* concurrencySignal.saturated, off at limit 0.
ConcurrencySignal(l, limit) == IF limit > 0 /\ l.inflight >= limit THEN {limit} ELSE {}

\* ttftSignal.saturated, which names no level; off at limit 0.
TtftSignal(l, limit) == IF limit > 0 /\ l.gate /\ l.p90 >= limit THEN {0} ELSE {}

\* imbalanceSignal.saturated against the fleet's minimum; ratio in percent, off at 0.
ImbalanceSignal(l, min, ratio) ==
  IF /\ ratio > 0 /\ l.inflight > min /\ l.inflight >= MinRebalanceLoad
     /\ 100 * (l.inflight - min) > ratio * l.inflight
  THEN {l.inflight} ELSE {}

----------------------------------------------------------------------------
(* The feedback. *)

VARIABLES
  req,    \* request -> [at, node]: "idle", "chosen", "leased" or "told"
  other,  \* node -> the other requests in flight there
  hot     \* refusedSignal.hot: node -> [level, age] or Null

sigVars == << req, other, hot >>

\* Backend.Inflight: a request counts until its lease is released.
Inflight(n) ==
  other[n] + Cardinality({r \in Reqs : req[r].node = n /\ req[r].at \in {"leased", "told"}})

LoadOf(n) == [inflight |-> Inflight(n), latch |-> hot[n]]

SigInit ==
  /\ req = [r \in Reqs |-> [at |-> "idle", node |-> Null]]
  /\ other = [n \in Nodes |-> 0]
  /\ hot = [n \in Nodes |-> Null]

\* Select, as far as this signal sees it.
Choose(r, n) ==
  /\ req[r].at = "idle" /\ RefusedSignal(LoadOf(n)) = {}
  /\ req' = [req EXCEPT ![r] = [at |-> "chosen", node |-> n]]
  /\ UNCHANGED << other, hot >>

\* lease.Acquire, some time after the choice.
Acquire(r) ==
  /\ req[r].at = "chosen"
  /\ req' = [req EXCEPT ![r].at = "leased"]
  /\ UNCHANGED << other, hot >>

\* ModifyResponse on a 429: OnRefused latches what is in flight, and the attempt
\* still holds its lease.
Refused(r) ==
  LET n == req[r].node IN
  /\ req[r].at = "leased"
  /\ req' = [req EXCEPT ![r].at = "told"]
  /\ hot' = [hot EXCEPT ![n] = [level |-> Inflight(n), age |-> 0]]
  /\ UNCHANGED other

\* ModifyResponse on a 2xx: OnAccepted clears the latch.
Accepted(r) ==
  LET n == req[r].node IN
  /\ req[r].at = "leased"
  /\ req' = [req EXCEPT ![r].at = "told"]
  /\ hot' = [hot EXCEPT ![n] = Null]
  /\ UNCHANGED other

\* Lease.Release, answered or not.
Release(r) ==
  /\ req[r].at \in {"leased", "told"}
  /\ req' = [req EXCEPT ![r] = [at |-> "idle", node |-> Null]]
  /\ UNCHANGED << other, hot >>

\* Requests not followed here come and go.
OtherLoad(n, k) ==
  /\ k # other[n]
  /\ other' = [other EXCEPT ![n] = k]
  /\ UNCHANGED << req, hot >>

\* Time passes.
SigTick ==
  /\ \E n \in Nodes : hot[n] # Null /\ hot[n].age <= RefusalTtl
  /\ hot' = [n \in Nodes |->
       IF hot[n] # Null /\ hot[n].age <= RefusalTtl THEN [hot[n] EXCEPT !.age = @ + 1]
       ELSE hot[n]]
  /\ UNCHANGED << req, other >>

SigNext ==
  \/ \E r \in Reqs : \/ Acquire(r) \/ Refused(r) \/ Accepted(r) \/ Release(r)
                     \/ \E n \in Nodes : Choose(r, n)
  \/ \E n \in Nodes, k \in 0..MaxOther : OtherLoad(n, k)
  \/ SigTick

\* The clock runs; a request may stay with its backend for ever.
SigFairness == WF_sigVars(SigTick)

SigSpec == SigInit /\ [][SigNext]_sigVars /\ SigFairness

----------------------------------------------------------------------------
\* A refusal is not for ever (signal.go:60-62): a backend whose other requests never
\* end, and so never sink below the level it refused at, is tried again.
RefusalEnds == \A n \in Nodes : []<>(RefusedSignal(LoadOf(n)) = {})
============================================================================
