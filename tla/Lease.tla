------------------------------- MODULE Lease -------------------------------
(***************************************************************************)
(* Load accounting of one backend: internal/lease over the atomics of      *)
(* registry.Backend.                                                       *)
(*                                                                         *)
(* A lease is one attempt's share of the backend's load.  Acquire raises   *)
(* inflight and may close the hard-TTFT gate; the Start/End operations     *)
(* move the request's tokens in and out of three gauges under the lease's  *)
(* own mutex; Release undoes everything exactly once, in the order of the  *)
(* code: token gauges (under the mutex), inflight, wake of the wait queue, *)
(* gate.  Each atomic operation on the shared Backend is one step, so the  *)
(* leases of one backend interleave between any two of them, and the       *)
(* Start/End operations may race a Release of the same lease.              *)
(*                                                                         *)
(* The wake itself is the subject of module CapacityQueue; here it is the  *)
(* silent first half of ReleaseGate.                                       *)
(***************************************************************************)
EXTENDS Integers, FiniteSets, FiniteSetsExt

CONSTANTS
  Leases,     \* the leases ever acquired on this backend
  Estimates   \* token estimates a request may carry; 0 is "nothing to charge"

ASSUME LeasesAssumption == IsFiniteSet(Leases)
ASSUME EstimatesAssumption == Estimates \subseteq Nat

VARIABLES
  phase,        \* how far each lease has got through Acquire and Release
  released,     \* Lease.released
  decode,       \* Lease.decode, the tokens this lease has in the decode gauge
  active,       \* Lease.active
  prefill,      \* Lease.prefill
  inflight,     \* Backend.inflight
  decodeTokens, activeTokens, prefillTokens, \* Backend gauges
  hardBlocked,  \* Backend.hardBlocked, the 1-in-1-out gate
  accountingErrors

leaseVars == << phase, released, decode, active, prefill, inflight, decodeTokens,
           activeTokens, prefillTokens, hardBlocked, accountingErrors >>

lease == << released, decode, active, prefill >>
gauges == << decodeTokens, activeTokens, prefillTokens >>

\* "new": not acquired.  "counted": inflight raised.  "live": Acquire returned.
\* "settled": token gauges returned.  "lowered": inflight lowered.  "done".
Phases == {"new", "counted", "live", "settled", "lowered", "done"}

LeaseInit ==
  /\ phase = [l \in Leases |-> "new"]
  /\ released = [l \in Leases |-> FALSE]
  /\ decode = [l \in Leases |-> 0]
  /\ active = [l \in Leases |-> 0]
  /\ prefill = [l \in Leases |-> 0]
  /\ inflight = 0
  /\ decodeTokens = 0 /\ activeTokens = 0 /\ prefillTokens = 0
  /\ hardBlocked = FALSE
  /\ accountingErrors = 0

\* The caller holds a *Lease: Acquire has returned it.
Returned(l) == phase[l] \notin {"new", "counted"}

\* Backend.AddInflight: the value after the atomic add.
AddInflight(d) == inflight + d

\* Mutant: a second StartX overwrites the charge of the first.
Chargeable_NoOnce(l, charge) == Returned(l) /\ ~released[l]

\* Mutant: a first byte that comes after the release still charges.
Chargeable_AfterRelease(l, charge) == Returned(l) /\ charge[l] = 0

\* The check each StartX makes under Lease.mu before it charges.
Chargeable(l, charge) == Returned(l) /\ ~released[l] /\ charge[l] = 0

----------------------------------------------------------------------------
\* Acquire: AddInflight(+1).
AcquireCount(l) ==
  /\ phase[l] = "new"
  /\ phase' = [phase EXCEPT ![l] = "counted"]
  /\ inflight' = AddInflight(1)
  /\ UNCHANGED << lease, gauges, hardBlocked, accountingErrors >>

\* Acquire: NoteAdmit closes the gate when the p90 TTFT is over the hard limit,
\* which at any admission it may or may not be.
NoteAdmit(l) ==
  /\ phase[l] = "counted"
  /\ phase' = [phase EXCEPT ![l] = "live"]
  /\ hardBlocked' \in {hardBlocked, TRUE}
  /\ UNCHANGED << lease, inflight, gauges, accountingErrors >>

StartActive(l, tokens) ==
  /\ tokens > 0 /\ Chargeable(l, active)
  /\ active' = [active EXCEPT ![l] = tokens]
  /\ activeTokens' = activeTokens + tokens
  /\ UNCHANGED << phase, released, decode, prefill, inflight, decodeTokens,
                  prefillTokens, hardBlocked, accountingErrors >>

StartPrefill(l, tokens) ==
  /\ tokens > 0 /\ Chargeable(l, prefill)
  /\ prefill' = [prefill EXCEPT ![l] = tokens]
  /\ prefillTokens' = prefillTokens + tokens
  /\ UNCHANGED << phase, released, decode, active, inflight, decodeTokens,
                  activeTokens, hardBlocked, accountingErrors >>

EndPrefill(l) ==
  /\ Returned(l) /\ prefill[l] # 0
  /\ prefillTokens' = prefillTokens - prefill[l]
  /\ prefill' = [prefill EXCEPT ![l] = 0]
  /\ UNCHANGED << phase, released, decode, active, inflight, decodeTokens,
                  activeTokens, hardBlocked, accountingErrors >>

StartDecode(l, tokens) ==
  /\ tokens > 0 /\ Chargeable(l, decode)
  /\ decode' = [decode EXCEPT ![l] = tokens]
  /\ decodeTokens' = decodeTokens + tokens
  /\ UNCHANGED << phase, released, active, prefill, inflight, activeTokens,
                  prefillTokens, hardBlocked, accountingErrors >>

\* Release, the section under Lease.mu.  The phase is sync.Once: whoever comes
\* second finds it past "live" and has no effect.
ReleaseTokens(l) ==
  /\ phase[l] = "live"
  /\ phase' = [phase EXCEPT ![l] = "settled"]
  /\ released' = [released EXCEPT ![l] = TRUE]
  /\ decodeTokens' = decodeTokens - decode[l]
  /\ prefillTokens' = prefillTokens - prefill[l]
  /\ activeTokens' = activeTokens - active[l]
  /\ decode' = [decode EXCEPT ![l] = 0]
  /\ prefill' = [prefill EXCEPT ![l] = 0]
  /\ active' = [active EXCEPT ![l] = 0]
  /\ UNCHANGED << inflight, hardBlocked, accountingErrors >>

\* Mutant: without sync.Once a second Release lowers inflight again.
OwesInflight_NoOnce(l) == phase[l] \in {"settled", "lowered"}

\* sync.Once: the caller that got through the token section lowers inflight.
OwesInflight(l) == phase[l] = "settled"

\* Release: AddInflight(-1), clamped at zero and reported if it underflows.
ReleaseInflight(l) ==
  /\ OwesInflight(l)
  /\ phase' = [phase EXCEPT ![l] = "lowered"]
  /\ inflight' = IF AddInflight(-1) < 0 THEN 0 ELSE AddInflight(-1)
  /\ accountingErrors' = accountingErrors + (IF AddInflight(-1) < 0 THEN 1 ELSE 0)
  /\ UNCHANGED << lease, gauges, hardBlocked >>

\* Mutant: the completion that should reopen the gate leaves it as it is.
NoteRelease_Forgotten == UNCHANGED hardBlocked

\* Backend.NoteRelease.
NoteRelease == hardBlocked' = FALSE

\* Release: Waiters().Wake(), then NoteRelease.
ReleaseGate(l) ==
  /\ phase[l] = "lowered"
  /\ phase' = [phase EXCEPT ![l] = "done"]
  /\ NoteRelease
  /\ UNCHANGED << lease, inflight, gauges, accountingErrors >>

LeaseNext ==
  \E l \in Leases :
    \/ AcquireCount(l)
    \/ NoteAdmit(l)
    \/ \E tokens \in Estimates : StartActive(l, tokens)
    \/ \E tokens \in Estimates : StartPrefill(l, tokens)
    \/ EndPrefill(l)
    \/ \E tokens \in Estimates : StartDecode(l, tokens)
    \/ ReleaseTokens(l)
    \/ ReleaseInflight(l)
    \/ ReleaseGate(l)

LeaseSpec == LeaseInit /\ [][LeaseNext]_leaseVars

----------------------------------------------------------------------------
\* The leases whose increment of inflight has not been undone.
Counted == {l \in Leases : phase[l] \in {"counted", "live", "settled"}}

\* The leases that may have closed the gate and have not yet opened it.
GateHolders == {l \in Leases : phase[l] \in {"live", "settled", "lowered"}}

LeaseTypeOK ==
  /\ phase \in [Leases -> Phases]
  /\ released \in [Leases -> BOOLEAN]
  /\ decode \in [Leases -> Nat]
  /\ active \in [Leases -> Nat]
  /\ prefill \in [Leases -> Nat]
  /\ inflight \in Nat
  /\ decodeTokens \in Int /\ activeTokens \in Int /\ prefillTokens \in Int
  /\ hardBlocked \in BOOLEAN
  /\ accountingErrors \in Nat

\* Load accounting (LB-1, LB-2): inflight is exactly the number of leases that
\* were counted and not yet returned, whatever the interleaving, so the clamp
\* of LB-5 (lease.go:172) never fires.
InflightIsLeases ==
  /\ inflight = Cardinality(Counted)
  /\ accountingErrors = 0

\* The gauges hold exactly the tokens of the leases that are charged, and a
\* released lease is charged nothing: a first byte racing a release neither
\* leaks tokens nor takes them out twice (lease.go:50).
GaugesAreLeases ==
  /\ decodeTokens = MapThenSumSet(LAMBDA l : decode[l], Leases)
  /\ activeTokens = MapThenSumSet(LAMBDA l : active[l], Leases)
  /\ prefillTokens = MapThenSumSet(LAMBDA l : prefill[l], Leases)

\* Nothing is charged to a lease once Release has taken its tokens back, though
\* StartDecode, StartActive and StartPrefill may still be called on it.
ReleasedHoldsNothing ==
  \A l \in Leases :
    /\ released[l] <=> phase[l] \in {"settled", "lowered", "done"}
    /\ released[l] => decode[l] = 0 /\ active[l] = 0 /\ prefill[l] = 0

\* The hard-TTFT gate is closed only while some admitted lease has still to
\* release: a closed gate takes the backend out of routing, so one with nobody
\* left to open it would never be used again (backend.go:291-300).
GateHasHolder == hardBlocked => GateHolders # {}
============================================================================
