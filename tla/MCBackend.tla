----------------------------- MODULE MCBackend -----------------------------
(* The state that requests share, each part of it on its own: three leases   *)
(* race on a backend's gauges, two requests share its breaker, samples enter *)
(* and leave its window of first-token times, and backends come and go in    *)
(* the tree's slot table, where there are never more slots than URLs and     *)
(* drops together, so nextSl needs no bound.  The breaker's window is two    *)
(* seconds in a ring of three buckets, so that a bucket outlives the window  *)
(* before its index comes round; two outcomes, half of them failures, trip it.*)
EXTENDS Lease, Circuit, TtftWindow, PrefixSlots

VARIABLE part   \* which of the four is running

Init ==
  /\ part \in {"lease", "circuit", "ttft", "slots"}
  /\ LeaseInit /\ CircuitInit /\ TtftInit /\ SlotsInit

Next ==
  \/ part = "lease" /\ LeaseNext /\ UNCHANGED << circuitVars, ttftVars, slotsVars, part >>
  \/ part = "circuit" /\ CircuitNext /\ UNCHANGED << leaseVars, ttftVars, slotsVars, part >>
  \/ part = "ttft" /\ TtftNext /\ UNCHANGED << leaseVars, circuitVars, slotsVars, part >>
  \/ part = "slots" /\ SlotsNext /\ UNCHANGED << leaseVars, circuitVars, ttftVars, part >>

Spec ==
  /\ Init /\ [][Next]_<< leaseVars, circuitVars, ttftVars, slotsVars, part >>
  /\ part = "circuit" => CircuitFairness
============================================================================
