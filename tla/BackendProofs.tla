--------------------------- MODULE BackendProofs ---------------------------
(***************************************************************************)
(* What the state that requests share on one backend promises, each part   *)
(* of it for every value of its constants.                                 *)
(*                                                                         *)
(* Module Lease: its types, the exactness of inflight and of the token     *)
(* gauges, the emptiness of released leases, and the gate that always has  *)
(* somebody to open it.                                                    *)
(*                                                                         *)
(* Module Circuit: its types, the exactness of the probe semaphore, and,   *)
(* with a bucket for every second, that of the sliding window.  The first  *)
(* two are one induction: that halfOpenTokens does not go below zero when  *)
(* a token comes back is a matter of types, and follows only from the      *)
(* count of the requests that hold one.                                    *)
(*                                                                         *)
(* Module TtftWindow: the percentile that routing reads is one, and of     *)
(* recent samples.                                                         *)
(***************************************************************************)
EXTENDS Lease, Circuit, TtftWindow, Sums, FiniteSetTheorems, SequenceTheorems, TLAPS

(* Leases. *)

\* Every variable keeps its type, inflight and the error count never going
\* below zero (lease.go:127-192).
THEOREM LeaseTypeCorrect == LeaseSpec => []LeaseTypeOK
<1>1. LeaseInit => LeaseTypeOK
  <2> SUFFICES ASSUME LeaseInit PROVE LeaseTypeOK
    OBVIOUS
  <2>1. released \in [Leases -> BOOLEAN] /\ hardBlocked \in BOOLEAN
    BY Zenon DEF LeaseInit
  <2>2. QED
    BY <2>1 DEF LeaseInit, LeaseTypeOK, Phases
<1>2. LeaseTypeOK /\ [LeaseNext]_leaseVars => LeaseTypeOK'
  <2> SUFFICES ASSUME LeaseTypeOK, [LeaseNext]_leaseVars PROVE LeaseTypeOK'
    OBVIOUS
  <2> USE DEF LeaseTypeOK, Phases, lease, gauges
  <2>1. CASE UNCHANGED leaseVars
    BY <2>1 DEF leaseVars
  <2>2. ASSUME NEW l \in Leases, AcquireCount(l) PROVE LeaseTypeOK'
    BY <2>2 DEF AcquireCount, AddInflight
  <2>3. ASSUME NEW l \in Leases, NoteAdmit(l) PROVE LeaseTypeOK'
    BY <2>3 DEF NoteAdmit
  <2>4. ASSUME NEW l \in Leases, NEW t \in Estimates, StartActive(l, t)
        PROVE LeaseTypeOK'
    BY <2>4, EstimatesAssumption DEF StartActive
  <2>5. ASSUME NEW l \in Leases, NEW t \in Estimates, StartPrefill(l, t)
        PROVE LeaseTypeOK'
    BY <2>5, EstimatesAssumption DEF StartPrefill
  <2>6. ASSUME NEW l \in Leases, EndPrefill(l) PROVE LeaseTypeOK'
    BY <2>6 DEF EndPrefill
  <2>7. ASSUME NEW l \in Leases, NEW t \in Estimates, StartDecode(l, t)
        PROVE LeaseTypeOK'
    BY <2>7, EstimatesAssumption DEF StartDecode
  <2>8. ASSUME NEW l \in Leases, ReleaseTokens(l) PROVE LeaseTypeOK'
    BY <2>8 DEF ReleaseTokens
  <2>9. ASSUME NEW l \in Leases, ReleaseInflight(l) PROVE LeaseTypeOK'
    BY <2>9 DEF ReleaseInflight, AddInflight
  <2>10. ASSUME NEW l \in Leases, ReleaseGate(l) PROVE LeaseTypeOK'
    BY <2>10 DEF ReleaseGate, NoteRelease
  <2>11. QED
    BY <2>1, <2>2, <2>3, <2>4, <2>5, <2>6, <2>7, <2>8, <2>9, <2>10 DEF LeaseNext
<1>3. QED
  BY <1>1, <1>2, PTL DEF LeaseSpec

\* The set of counted leases is finite, so its cardinality is a number.
LEMMA CountedFinite ==
  ASSUME LeaseTypeOK
  PROVE  IsFiniteSet(Counted) /\ Cardinality(Counted) \in Nat
<1>1. IsFiniteSet(Counted)
  BY LeasesAssumption, FS_Subset DEF Counted
<1>2. QED
  BY <1>1, FS_CardinalityType

\* inflight is the number of counted leases and the underflow clamp of
\* lease.go:172 is dead code, for any number of leases in any interleaving
\* (LB-1, LB-2, LB-5).
THEOREM InflightExact == LeaseSpec => []InflightIsLeases
<1>1. LeaseInit => InflightIsLeases
  <2> SUFFICES ASSUME LeaseInit PROVE InflightIsLeases
    OBVIOUS
  <2>1. Counted = {}
    BY DEF LeaseInit, Counted
  <2>2. QED
    BY <2>1, FS_EmptySet DEF LeaseInit, InflightIsLeases
<1>2. LeaseTypeOK /\ InflightIsLeases /\ [LeaseNext]_leaseVars => InflightIsLeases'
  <2> SUFFICES ASSUME LeaseTypeOK, InflightIsLeases, [LeaseNext]_leaseVars
               PROVE  InflightIsLeases'
    OBVIOUS
  <2> USE DEF InflightIsLeases
  <2>0. IsFiniteSet(Counted) /\ Cardinality(Counted) \in Nat
    BY CountedFinite
  <2>1. CASE UNCHANGED << phase, inflight, accountingErrors >>
    BY <2>1 DEF Counted
  <2>2. ASSUME NEW l \in Leases, AcquireCount(l) PROVE InflightIsLeases'
    <3>1. Counted' = Counted \cup {l} /\ l \notin Counted
      BY <2>2 DEF AcquireCount, Counted, LeaseTypeOK
    <3>2. Cardinality(Counted') = Cardinality(Counted) + 1
      BY <2>0, <3>1, FS_AddElement
    <3>3. QED
      BY <2>2, <3>2 DEF AcquireCount, AddInflight
  <2>3. ASSUME NEW l \in Leases, NoteAdmit(l) PROVE InflightIsLeases'
    <3>1. Counted' = Counted
      BY <2>3 DEF NoteAdmit, Counted, LeaseTypeOK
    <3>2. QED
      BY <2>3, <3>1 DEF NoteAdmit
  <2>4. ASSUME NEW l \in Leases, ReleaseTokens(l) PROVE InflightIsLeases'
    <3>1. Counted' = Counted
      BY <2>4 DEF ReleaseTokens, Counted, LeaseTypeOK
    <3>2. QED
      BY <2>4, <3>1 DEF ReleaseTokens
  <2>5. ASSUME NEW l \in Leases, ReleaseInflight(l) PROVE InflightIsLeases'
    <3>1. Counted' = Counted \ {l} /\ l \in Counted
      BY <2>5 DEF ReleaseInflight, OwesInflight, Counted, LeaseTypeOK
    <3>2. Cardinality(Counted') = Cardinality(Counted) - 1
      BY <2>0, <3>1, FS_RemoveElement
    <3>3. Cardinality(Counted) >= 1
      BY <2>0, <3>1, FS_EmptySet
    <3>4. QED
      BY <2>0, <2>5, <3>2, <3>3 DEF ReleaseInflight, AddInflight
  <2>6. ASSUME NEW l \in Leases, ReleaseGate(l) PROVE InflightIsLeases'
    <3>1. Counted' = Counted
      BY <2>6 DEF ReleaseGate, Counted, LeaseTypeOK
    <3>2. QED
      BY <2>6, <3>1 DEF ReleaseGate
  <2>7. QED
    BY <2>1, <2>2, <2>3, <2>4, <2>5, <2>6
    DEF LeaseNext, leaseVars, StartActive, StartPrefill, EndPrefill, StartDecode
<1>3. QED
  BY <1>1, <1>2, LeaseTypeCorrect, PTL DEF LeaseSpec

\* A lease whose Release has begun carries no tokens and can take none: the
\* StartX calls that come too late are refused under the lease's mutex
\* (lease.go:68, 84, 116).
THEOREM ReleasedEmpty == LeaseSpec => []ReleasedHoldsNothing
<1>1. LeaseInit => ReleasedHoldsNothing
  BY DEF LeaseInit, ReleasedHoldsNothing
<1>2. LeaseTypeOK /\ ReleasedHoldsNothing /\ [LeaseNext]_leaseVars => ReleasedHoldsNothing'
  <2> SUFFICES ASSUME LeaseTypeOK, ReleasedHoldsNothing, [LeaseNext]_leaseVars
               PROVE  ReleasedHoldsNothing'
    OBVIOUS
  <2> USE DEF ReleasedHoldsNothing, LeaseTypeOK, Phases, lease
  <2>1. CASE UNCHANGED leaseVars
    BY <2>1 DEF leaseVars
  <2>2. ASSUME NEW l \in Leases, AcquireCount(l) PROVE ReleasedHoldsNothing'
    BY <2>2 DEF AcquireCount
  <2>3. ASSUME NEW l \in Leases, NoteAdmit(l) PROVE ReleasedHoldsNothing'
    BY <2>3 DEF NoteAdmit
  <2>4. ASSUME NEW l \in Leases, NEW t \in Estimates, StartActive(l, t)
        PROVE ReleasedHoldsNothing'
    BY <2>4 DEF StartActive, Chargeable
  <2>5. ASSUME NEW l \in Leases, NEW t \in Estimates, StartPrefill(l, t)
        PROVE ReleasedHoldsNothing'
    BY <2>5 DEF StartPrefill, Chargeable
  <2>6. ASSUME NEW l \in Leases, EndPrefill(l) PROVE ReleasedHoldsNothing'
    BY <2>6 DEF EndPrefill
  <2>7. ASSUME NEW l \in Leases, NEW t \in Estimates, StartDecode(l, t)
        PROVE ReleasedHoldsNothing'
    BY <2>7 DEF StartDecode, Chargeable
  <2>8. ASSUME NEW l \in Leases, ReleaseTokens(l) PROVE ReleasedHoldsNothing'
    BY <2>8 DEF ReleaseTokens
  <2>9. ASSUME NEW l \in Leases, ReleaseInflight(l) PROVE ReleasedHoldsNothing'
    BY <2>9 DEF ReleaseInflight, OwesInflight
  <2>10. ASSUME NEW l \in Leases, ReleaseGate(l) PROVE ReleasedHoldsNothing'
    BY <2>10 DEF ReleaseGate
  <2>11. QED
    BY <2>1, <2>2, <2>3, <2>4, <2>5, <2>6, <2>7, <2>8, <2>9, <2>10 DEF LeaseNext
<1>3. QED
  BY <1>1, <1>2, LeaseTypeCorrect, PTL DEF LeaseSpec

\* The 1-in-1-out gate is never left closed with no lease outstanding: only an
\* admission closes it, that admission's own release opens it last
\* (backend.go:293-300, lease.go:189-190).
THEOREM GateAlwaysHeld == LeaseSpec => []GateHasHolder
<1>1. LeaseInit => GateHasHolder
  BY DEF LeaseInit, GateHasHolder
<1>2. LeaseTypeOK /\ GateHasHolder /\ [LeaseNext]_leaseVars => GateHasHolder'
  <2> SUFFICES ASSUME LeaseTypeOK, GateHasHolder, [LeaseNext]_leaseVars PROVE GateHasHolder'
    OBVIOUS
  <2> USE DEF GateHasHolder, GateHolders, LeaseTypeOK
  <2>1. CASE UNCHANGED << phase, hardBlocked >>
    BY <2>1
  <2>2. ASSUME NEW l \in Leases, AcquireCount(l) PROVE GateHasHolder'
    BY <2>2 DEF AcquireCount
  <2>3. ASSUME NEW l \in Leases, NoteAdmit(l) PROVE GateHasHolder'
    BY <2>3 DEF NoteAdmit
  <2>4. ASSUME NEW l \in Leases, ReleaseTokens(l) PROVE GateHasHolder'
    BY <2>4 DEF ReleaseTokens
  <2>5. ASSUME NEW l \in Leases, ReleaseInflight(l) PROVE GateHasHolder'
    BY <2>5 DEF ReleaseInflight, OwesInflight
  <2>6. ASSUME NEW l \in Leases, ReleaseGate(l) PROVE GateHasHolder'
    BY <2>6 DEF ReleaseGate, NoteRelease
  <2>7. QED
    BY <2>1, <2>2, <2>3, <2>4, <2>5, <2>6
    DEF LeaseNext, leaseVars, StartActive, StartPrefill, EndPrefill, StartDecode
<1>3. QED
  BY <1>1, <1>2, LeaseTypeCorrect, PTL DEF LeaseSpec

\* A gauge that follows one lease's charge follows the sum of the charges.
LEMMA GaugeMoves ==
  ASSUME NEW f, NEW g, NEW y \in Leases,
         f \in [Leases -> Nat], g \in [Leases -> Nat],
         \A x \in Leases \ {y} : g[x] = f[x]
  PROVE  SumOver(g, Leases) = SumOver(f, Leases) + g[y] - f[y] /\ SumOver(f, Leases) \in Int
<1>1. \A x \in Leases : f[x] \in Int /\ g[x] \in Int
  OBVIOUS
<1>2. QED
  BY <1>1, LeasesAssumption, SumMoves

\* The decode, active and prefill gauges hold exactly the tokens the leases
\* still carry, whatever StartX, EndPrefill and Release of however many leases
\* interleave (lease.go:50-192).
THEOREM GaugesExact == LeaseSpec => []GaugesAreLeases
<1> DEFINE Exact == /\ decodeTokens = SumOver(decode, Leases)
                    /\ activeTokens = SumOver(active, Leases)
                    /\ prefillTokens = SumOver(prefill, Leases)
<1>0. GaugesAreLeases <=> Exact
  BY DEF GaugesAreLeases, SumOver
<1>1. LeaseInit => Exact
  BY LeasesAssumption, SumOfZeros DEF LeaseInit
<1>2. LeaseTypeOK /\ LeaseTypeOK' /\ Exact /\ [LeaseNext]_leaseVars => Exact'
  <2> SUFFICES ASSUME LeaseTypeOK, LeaseTypeOK', Exact, [LeaseNext]_leaseVars PROVE Exact'
    OBVIOUS
  <2>0. /\ decode \in [Leases -> Nat] /\ active \in [Leases -> Nat] /\ prefill \in [Leases -> Nat]
        /\ decode' \in [Leases -> Nat] /\ active' \in [Leases -> Nat] /\ prefill' \in [Leases -> Nat]
    BY DEF LeaseTypeOK
  <2>1. CASE UNCHANGED << decode, active, prefill, decodeTokens, activeTokens, prefillTokens >>
    BY <2>1
  <2>2. ASSUME NEW l \in Leases, NEW t \in Estimates, StartActive(l, t) PROVE Exact'
    <3>1. /\ active[l] = 0 /\ active'[l] = t /\ \A x \in Leases \ {l} : active'[x] = active[x]
          /\ UNCHANGED << decode, prefill, decodeTokens, prefillTokens >>
          /\ activeTokens' = activeTokens + t /\ t \in Int
      BY <2>0, <2>2, EstimatesAssumption DEF StartActive, Chargeable
    <3>2. SumOver(active', Leases) = SumOver(active, Leases) + t - 0 /\ SumOver(active, Leases) \in Int
      BY <2>0, <3>1, GaugeMoves
    <3>3. QED
      BY <3>1, <3>2
  <2>3. ASSUME NEW l \in Leases, NEW t \in Estimates, StartPrefill(l, t) PROVE Exact'
    <3>1. /\ prefill[l] = 0 /\ prefill'[l] = t /\ \A x \in Leases \ {l} : prefill'[x] = prefill[x]
          /\ UNCHANGED << decode, active, decodeTokens, activeTokens >>
          /\ prefillTokens' = prefillTokens + t /\ t \in Int
      BY <2>0, <2>3, EstimatesAssumption DEF StartPrefill, Chargeable
    <3>2. SumOver(prefill', Leases) = SumOver(prefill, Leases) + t - 0 /\ SumOver(prefill, Leases) \in Int
      BY <2>0, <3>1, GaugeMoves
    <3>3. QED
      BY <3>1, <3>2
  <2>4. ASSUME NEW l \in Leases, EndPrefill(l) PROVE Exact'
    <3>1. /\ prefill'[l] = 0 /\ \A x \in Leases \ {l} : prefill'[x] = prefill[x]
          /\ UNCHANGED << decode, active, decodeTokens, activeTokens >>
          /\ prefillTokens' = prefillTokens - prefill[l] /\ prefill[l] \in Int
      BY <2>0, <2>4 DEF EndPrefill
    <3>2. SumOver(prefill', Leases) = SumOver(prefill, Leases) + 0 - prefill[l]
          /\ SumOver(prefill, Leases) \in Int
      BY <2>0, <3>1, GaugeMoves
    <3>3. QED
      BY <3>1, <3>2
  <2>5. ASSUME NEW l \in Leases, NEW t \in Estimates, StartDecode(l, t) PROVE Exact'
    <3>1. /\ decode[l] = 0 /\ decode'[l] = t /\ \A x \in Leases \ {l} : decode'[x] = decode[x]
          /\ UNCHANGED << active, prefill, activeTokens, prefillTokens >>
          /\ decodeTokens' = decodeTokens + t /\ t \in Int
      BY <2>0, <2>5, EstimatesAssumption DEF StartDecode, Chargeable
    <3>2. SumOver(decode', Leases) = SumOver(decode, Leases) + t - 0 /\ SumOver(decode, Leases) \in Int
      BY <2>0, <3>1, GaugeMoves
    <3>3. QED
      BY <3>1, <3>2
  <2>6. ASSUME NEW l \in Leases, ReleaseTokens(l) PROVE Exact'
    <3>1. /\ \A x \in Leases \ {l} : decode'[x] = decode[x] /\ active'[x] = active[x] /\ prefill'[x] = prefill[x]
          /\ decode'[l] = 0 /\ active'[l] = 0 /\ prefill'[l] = 0
          /\ decode[l] \in Int /\ active[l] \in Int /\ prefill[l] \in Int
      BY <2>0, <2>6 DEF ReleaseTokens
    <3>2. SumOver(decode', Leases) = SumOver(decode, Leases) + 0 - decode[l]
          /\ SumOver(decode, Leases) \in Int
      BY <2>0, <3>1, GaugeMoves
    <3>3. SumOver(active', Leases) = SumOver(active, Leases) + 0 - active[l]
          /\ SumOver(active, Leases) \in Int
      BY <2>0, <3>1, GaugeMoves
    <3>4. SumOver(prefill', Leases) = SumOver(prefill, Leases) + 0 - prefill[l]
          /\ SumOver(prefill, Leases) \in Int
      BY <2>0, <3>1, GaugeMoves
    <3>5. QED
      BY <2>6, <3>1, <3>2, <3>3, <3>4 DEF ReleaseTokens
  <2>7. QED
    BY <2>1, <2>2, <2>3, <2>4, <2>5, <2>6
    DEF LeaseNext, leaseVars, lease, gauges, AcquireCount, NoteAdmit, ReleaseInflight, ReleaseGate
<1> HIDE DEF Exact
<1>3. LeaseSpec => []Exact
  BY <1>1, <1>2, LeaseTypeCorrect, PTL DEF LeaseSpec
<1>4. QED
  BY <1>0, <1>3, PTL

----------------------------------------------------------------------------
(* The circuit breaker. *)

Bucket == [age : 0..Window, ok : Nat, fail : Nat]
Second == [ok : Nat, fail : Nat]
PCs == {"idle", "probing", "admitted", "recorded"}

\* The window's part of CircuitTypeOK.
WindowOK ==
  /\ ring \in [0..(Buckets - 1) -> Bucket]
  /\ cursor \in 0..(Buckets - 1)
  /\ history \in [0..(Window - 1) -> Second]

\* The breaker's part.
BreakerOK ==
  /\ state \in States
  /\ sinceOpen \in 0..OpenFor
  /\ halfOpenOK \in 0..(HalfOpenSuccesses - 1)

\* The goroutines' part, with the count of tokens.  Only a request with a token
\* gets to the deferred return (circuit.go:222-224).
ProbesOK ==
  /\ halfOpenTokens \in Nat
  /\ pc \in [Requests -> PCs]
  /\ token \in [Requests -> BOOLEAN]
  /\ TokensAreProbes
  /\ \A r \in Requests : pc[r] = "recorded" => token[r]

IInv == WindowOK /\ BreakerOK /\ ProbesOK

\* A bucket restarted and counted in is a bucket (circuit.go:262-273).
LEMMA CountedBucket ==
  ASSUME NEW b \in Bucket, NEW o
  PROVE  CountedIn(Restart(b), o) \in Bucket
<1>1. Restart(b) \in Bucket
  BY ConfigAssumption DEF Restart, Bucket
<1>2. QED
  BY <1>1 DEF CountedIn, Bucket

\* So is a second of the history.
LEMMA CountedSecond ==
  ASSUME NEW s \in Second, NEW o
  PROVE  CountedIn(s, o) \in Second
BY DEF CountedIn, Second

\* A cleared window is a window (circuit.go:289-313).
LEMMA ClearedWindow ==
  /\ [i \in 0..(Buckets - 1) |-> Empty] \in [0..(Buckets - 1) -> Bucket]
  /\ Nothing \in [0..(Window - 1) -> Second]
<1>1. Empty \in Bucket
  BY ConfigAssumption DEF Empty, Bucket
<1>2. QED
  BY <1>1 DEF Nothing, Second

\* A second older, a bucket is still one.
LEMMA OlderBucket ==
  ASSUME NEW b \in Bucket
  PROVE  [b EXCEPT !.age = IF @ < Window THEN @ + 1 ELSE Window] \in Bucket
BY ConfigAssumption DEF Bucket

\* The holders of tokens are finitely many.
LEMMA ProbesFinite == IsFiniteSet(Probes) /\ Cardinality(Probes) \in Nat
<1>1. IsFiniteSet(Probes)
  BY RequestsAssumption, FS_Subset DEF Probes
<1>2. QED
  BY <1>1, FS_CardinalityType

\* A closed breaker with an empty ring and nobody probing.
LEMMA InitIInv == CircuitInit => IInv
<1> SUFFICES ASSUME CircuitInit PROVE IInv
  OBVIOUS
<1>1. WindowOK
  BY ClearedWindow, ConfigAssumption DEF CircuitInit, WindowOK
<1>2. BreakerOK
  BY ConfigAssumption DEF CircuitInit, BreakerOK, States
<1>3. ProbesOK
  <2>1. token \in [Requests -> BOOLEAN]
    BY Zenon DEF CircuitInit
  <2>2. Probes = {}
    BY Zenon DEF CircuitInit, Probes
  <2>3. Cardinality(Probes) = 0
    BY <2>2, FS_EmptySet
  <2>4. \A r \in Requests : ~token[r]
    BY Zenon DEF CircuitInit
  <2>5. TokensAreProbes
    BY <2>3, <2>4, ConfigAssumption DEF CircuitInit, TokensAreProbes
  <2>6. QED
    BY <2>1, <2>5 DEF CircuitInit, ProbesOK, PCs
<1>4. QED
  BY <1>1, <1>2, <1>3 DEF IInv

\* The window stays a window.
LEMMA WindowStep ==
  ASSUME IInv, [CircuitNext]_circuitVars
  PROVE  WindowOK'
<1> USE DEF IInv
<1>1. CASE UNCHANGED window
  BY <1>1 DEF WindowOK, window
<1>2. CASE Tick
  <2>1. ring' \in [0..(Buckets - 1) -> Bucket]
    BY <1>2, OlderBucket DEF Tick, WindowOK
  <2>2. cursor' \in 0..(Buckets - 1)
    BY <1>2, ConfigAssumption DEF Tick, WindowOK
  <2>3. ASSUME NEW s \in 0..(Window - 1)
        PROVE (IF s = 0 THEN [ok |-> 0, fail |-> 0] ELSE history[s - 1]) \in Second
    <3>1. CASE s = 0
      BY <3>1 DEF Second
    <3>2. CASE s # 0
      <4>1. s - 1 \in 0..(Window - 1)
        BY <3>2, ConfigAssumption
      <4>2. QED
        BY <3>2, <4>1 DEF WindowOK
    <3>3. QED
      BY <3>1, <3>2
  <2>4. history' \in [0..(Window - 1) -> Second]
    BY <1>2, <2>3 DEF Tick
  <2>5. QED
    BY <2>1, <2>2, <2>4 DEF WindowOK
<1>3. ASSUME NEW o, RecordWindow(o) PROVE WindowOK'
  <2>1. Observed(o) \in [0..(Buckets - 1) -> Bucket]
    BY CountedBucket DEF Observed, WindowOK
  <2>2. [history EXCEPT ![0] = CountedIn(@, o)] \in [0..(Window - 1) -> Second]
    BY CountedSecond, ConfigAssumption DEF WindowOK
  <2>3. QED
    BY <1>3, <2>1, <2>2 DEF RecordWindow, WindowOK
<1>4. ASSUME NEW o, RecordHalfOpen(o) PROVE WindowOK'
  BY <1>4, ClearedWindow DEF RecordHalfOpen, ToClosed, WindowOK, window
<1>5. QED
  BY <1>1, <1>2, <1>3, <1>4
  DEF CircuitNext, circuitVars, window, Allow, TakeToken, ReturnToken, Record, RecordIgnored

\* The state machine stays in its ranges: successes never reach the number that
\* would have closed the breaker (circuit.go:243-246).
LEMMA BreakerStep ==
  ASSUME IInv, [CircuitNext]_circuitVars
  PROVE  BreakerOK'
<1> USE ConfigAssumption DEF IInv, BreakerOK, States
<1>1. CASE UNCHANGED breaker
  BY <1>1 DEF breaker
<1>2. CASE Tick
  BY <1>2, SMTT(30) DEF Tick
<1>3. ASSUME NEW r \in Requests, Allow(r) PROVE BreakerOK'
  BY <1>3 DEF Allow, ToHalfOpen, breaker
<1>4. ASSUME NEW o, RecordWindow(o) PROVE BreakerOK'
  BY <1>4 DEF RecordWindow, ToOpen
<1>5. ASSUME NEW o, RecordHalfOpen(o) PROVE BreakerOK'
  BY <1>5 DEF RecordHalfOpen, ToOpen, ToClosed, EnoughSuccesses
<1>6. QED
  BY <1>1, <1>2, <1>3, <1>4, <1>5
  DEF CircuitNext, circuitVars, breaker, TakeToken, ReturnToken, Record, RecordIgnored

\* Tokens and their holders move together.
LEMMA ProbesStep ==
  ASSUME IInv, [CircuitNext]_circuitVars
  PROVE  ProbesOK'
<1> USE DEF IInv
<1>0. IsFiniteSet(Probes) /\ Cardinality(Probes) \in Nat
  BY ProbesFinite
<1>00. token \in [Requests -> BOOLEAN] /\ pc \in [Requests -> PCs]
  BY DEF ProbesOK
<1>1. CASE UNCHANGED << halfOpenTokens, pc, token >>
  BY <1>1 DEF ProbesOK, TokensAreProbes, Probes
<1>2. ASSUME NEW r \in Requests, NEW p \in PCs, pc' = [pc EXCEPT ![r] = p],
             UNCHANGED << halfOpenTokens, token >>,
             token[r] => p \in {"admitted", "recorded"},
             p = "recorded" => token[r]
      PROVE  ProbesOK'
  <2>1. pc' \in [Requests -> PCs]
    BY <1>00, <1>2
  <2>2. Probes' = Probes
    BY <1>2 DEF Probes
  <2>3. \A q \in Requests : token'[q] => pc'[q] \in {"admitted", "recorded"}
    BY <1>00, <1>2 DEF ProbesOK, TokensAreProbes
  <2>4. \A q \in Requests : pc'[q] = "recorded" => token'[q]
    BY <1>00, <1>2 DEF ProbesOK
  <2>5. QED
    BY <1>00, <1>2, <2>1, <2>2, <2>3, <2>4 DEF ProbesOK, TokensAreProbes
<1>3. ASSUME NEW r \in Requests, Allow(r) PROVE ProbesOK'
  <2>1. state' \in States
    BY <1>3, BreakerStep DEF BreakerOK
  <2>2. ~token[r]
    BY <1>3 DEF Allow, ProbesOK, TokensAreProbes
  <2>3. PICK p \in PCs \ {"recorded"} : pc' = [pc EXCEPT ![r] = p]
    BY <1>3, <2>1 DEF Allow, PCs, States
  <2>4. QED
    BY <1>2, <1>3, <2>2, <2>3 DEF Allow
<1>4. ASSUME NEW r \in Requests, TakeToken(r) PROVE ProbesOK'
  <2>1. ~token[r]
    BY <1>4 DEF TakeToken, ProbesOK, TokensAreProbes
  <2>2. CASE ~TokenLeft
    <3>1. "idle" \in PCs
      BY DEF PCs
    <3>2. QED
      BY <1>2, <1>4, <2>1, <2>2, <3>1 DEF TakeToken
  <2>3. CASE TokenLeft
    <3>1. /\ token' = [token EXCEPT ![r] = TRUE]
          /\ pc' = [pc EXCEPT ![r] = "admitted"]
          /\ halfOpenTokens' = halfOpenTokens + 1
      BY <1>4, <2>3 DEF TakeToken
    <3>2. token' \in [Requests -> BOOLEAN]
      BY <1>00, <3>1, Zenon
    <3>3. pc' \in [Requests -> PCs]
      BY <1>00, <3>1 DEF PCs
    <3>4. Probes' = Probes \cup {r} /\ r \notin Probes
      BY <1>00, <2>1, <3>1 DEF Probes
    <3>5. Cardinality(Probes') = Cardinality(Probes) + 1
      BY <1>0, <3>4, FS_AddElement
    <3>6. \A q \in Requests : token'[q] => pc'[q] \in {"admitted", "recorded"}
      BY <1>00, <3>1 DEF ProbesOK, TokensAreProbes
    <3>7. halfOpenTokens' \in Nat /\ halfOpenTokens' <= HalfOpenMax
      BY <2>3, <3>1, ConfigAssumption DEF TokenLeft, ProbesOK
    <3>8. halfOpenTokens' = Cardinality(Probes')
      BY <3>1, <3>5 DEF ProbesOK, TokensAreProbes
    <3>9. \A q \in Requests : pc'[q] = "recorded" => token'[q]
      BY <1>00, <3>1 DEF ProbesOK
    <3>10. QED
      BY <3>2, <3>3, <3>6, <3>7, <3>8, <3>9 DEF ProbesOK, TokensAreProbes
  <2>4. QED
    BY <2>2, <2>3
<1>5. ASSUME NEW r \in Requests, ReturnToken(r) PROVE ProbesOK'
  <2>1. /\ token' = [token EXCEPT ![r] = FALSE]
        /\ pc' = [pc EXCEPT ![r] = "idle"]
        /\ halfOpenTokens' = halfOpenTokens - 1
    BY <1>5 DEF ReturnToken, TokenBack
  <2>2. token[r]
    BY <1>5 DEF ReturnToken, ProbesOK
  <2>3. token' \in [Requests -> BOOLEAN]
    BY <1>00, <2>1, Zenon
  <2>4. pc' \in [Requests -> PCs]
    BY <1>00, <2>1 DEF PCs
  <2>5. Probes' = Probes \ {r} /\ r \in Probes
    BY <1>00, <2>1, <2>2 DEF Probes
  <2>6. Cardinality(Probes') = Cardinality(Probes) - 1
    BY <1>0, <2>5, FS_RemoveElement
  <2>7. Cardinality(Probes) # 0
    BY <1>0, <2>5, FS_EmptySet
  <2>8. halfOpenTokens' = Cardinality(Probes') /\ halfOpenTokens' \in Nat
        /\ halfOpenTokens' <= HalfOpenMax
    BY <1>0, <2>1, <2>6, <2>7, ConfigAssumption DEF ProbesOK, TokensAreProbes
  <2>9. \A q \in Requests : token'[q] => pc'[q] \in {"admitted", "recorded"}
    BY <1>00, <2>1 DEF ProbesOK, TokensAreProbes
  <2>10. \A q \in Requests : pc'[q] = "recorded" => token'[q]
    BY <1>00, <2>1 DEF ProbesOK
  <2>11. QED
    BY <2>3, <2>4, <2>8, <2>9, <2>10 DEF ProbesOK, TokensAreProbes
<1>6. ASSUME NEW r \in Requests, NEW o, Record(r, o) PROVE ProbesOK'
  <2>1. PICK p \in {"recorded", "idle"} :
           pc' = [pc EXCEPT ![r] = p] /\ (token[r] <=> p = "recorded")
    BY <1>6 DEF Record
  <2>2. p \in PCs
    BY <2>1 DEF PCs
  <2>3. QED
    BY <1>2, <1>6, <2>1, <2>2 DEF Record
<1>7. QED
  BY <1>1, <1>3, <1>4, <1>5, <1>6 DEF CircuitNext, Tick, circuitVars

\* The induction both theorems rest on.
LEMMA IInvAlways == CircuitSpec => []IInv
<1>1. IInv /\ [CircuitNext]_circuitVars => IInv'
  BY WindowStep, BreakerStep, ProbesStep DEF IInv
<1>2. QED
  BY InitIInv, <1>1, PTL DEF CircuitSpec

\* Every variable keeps its type; in particular halfOpenOK stays below the number
\* that closes the breaker and halfOpenTokens does not go below zero
\* (circuit.go:221-260).
THEOREM CircuitTypeCorrect == CircuitSpec => []CircuitTypeOK
<1>1. IInv => CircuitTypeOK
  BY DEF IInv, WindowOK, BreakerOK, ProbesOK, CircuitTypeOK, Bucket, Second, PCs
<1>2. QED
  BY IInvAlways, <1>1, PTL

\* The probe semaphore is exact for any number of requests and any HalfOpenMax,
\* although the state is read under the mutex and the token moved outside it
\* (circuit.go:192-217, 221-227): no token leaks and no probe goes uncounted,
\* whatever transitions other requests cause in between.
THEOREM SemaphoreExact == CircuitSpec => []TokensAreProbes
<1>1. IInv => TokensAreProbes
  BY DEF IInv, ProbesOK
<1>2. QED
  BY IInvAlways, <1>1, PTL

----------------------------------------------------------------------------
(* The ring and the window. *)

\* The index of the bucket of s seconds ago, when the index of now is c.
At(c, s) == IF s <= c THEN c - s ELSE (c - s) + Buckets

\* A bucket in the window lies where its second belongs, and the bucket where a
\* second of the window belongs holds that second's outcomes, or another second's
\* if it had none.
Fits(rg, c, h) ==
  /\ \A i \in 0..(Buckets - 1) : rg[i].age < Window => i = At(c, rg[i].age)
  /\ \A s \in 0..(Window - 1) :
       IF rg[At(c, s)].age = s
       THEN rg[At(c, s)].ok = h[s].ok /\ rg[At(c, s)].fail = h[s].fail
       ELSE h[s].ok = 0 /\ h[s].fail = 0

RingInv == Fits(ring, cursor, history)

\* With a bucket for every second of the window, seconds have buckets of their own.
LEMMA AtIsIndex ==
  ASSUME Window <= Buckets, NEW c \in 0..(Buckets - 1), NEW s \in 0..(Window - 1)
  PROVE  /\ At(c, s) \in 0..(Buckets - 1)
         /\ \A t \in 0..(Window - 1) : At(c, s) = At(c, t) => s = t
         /\ At(c, 0) = c
BY ConfigAssumption DEF At

\* Time moves every second one index back (circuit.go:264).
LEMMA AtMoves ==
  ASSUME Window <= Buckets, NEW c \in 0..(Buckets - 1), NEW s \in 0..(Window - 1)
  PROVE  At((c + 1) % Buckets, s + 1) = At(c, s)
<1>1. Buckets \in Nat \ {0} /\ Window \in Nat /\ s \in Nat /\ c \in Nat /\ s < Buckets
  BY ConfigAssumption
<1>2. CASE c + 1 < Buckets
  <2>1. (c + 1) % Buckets = c + 1
    BY <1>1, <1>2
  <2>2. QED
    BY <1>1, <1>2, <2>1 DEF At
<1>3. CASE c + 1 = Buckets
  <2>1. (c + 1) % Buckets = 0
    BY <1>1, <1>3
  <2>2. QED
    BY <1>1, <1>3, <2>1 DEF At
<1>4. QED
  BY <1>1, <1>2, <1>3

\* An outcome goes into the bucket of now, which is restarted if it was another
\* second's (circuit.go:262-273).
LEMMA ObservedFits ==
  ASSUME Window <= Buckets, WindowOK, RingInv, NEW o
  PROVE  Fits(Observed(o), cursor, [history EXCEPT ![0] = CountedIn(@, o)])
<1> DEFINE b == CountedIn(Restart(ring[cursor]), o)
           h == CountedIn(history[0], o)
<1>1. /\ ring \in [0..(Buckets - 1) -> Bucket] /\ cursor \in 0..(Buckets - 1)
      /\ history \in [0..(Window - 1) -> Second] /\ 0 \in 0..(Window - 1)
  BY ConfigAssumption DEF WindowOK
<1>2. /\ Observed(o) = [ring EXCEPT ![cursor] = b]
      /\ [history EXCEPT ![0] = CountedIn(@, o)] = [history EXCEPT ![0] = h]
  BY DEF Observed
<1>3. At(cursor, 0) = cursor
  BY <1>1, AtIsIndex
<1>4. IF ring[cursor].age = 0
      THEN ring[cursor].ok = history[0].ok /\ ring[cursor].fail = history[0].fail
      ELSE history[0].ok = 0 /\ history[0].fail = 0
  BY <1>1, <1>3 DEF RingInv, Fits
<1>5. b.age = 0 /\ b.ok = h.ok /\ b.fail = h.fail
  <2>1. ring[cursor] \in Bucket /\ history[0] \in Second
    BY <1>1
  <2>2. CASE ring[cursor].age = 0
    BY <1>4, <2>1, <2>2 DEF CountedIn, Restart, Bucket, Second
  <2>3. CASE ring[cursor].age # 0
    BY <1>4, <2>1, <2>3 DEF CountedIn, Restart, Bucket, Second
  <2>4. QED
    BY <2>2, <2>3
<1> HIDE DEF b, h
<1> DEFINE rg == [ring EXCEPT ![cursor] = b]
           hs == [history EXCEPT ![0] = h]
<1>6. /\ rg[cursor] = b /\ \A i \in 0..(Buckets - 1) : i # cursor => rg[i] = ring[i]
      /\ hs[0] = h /\ \A s \in 0..(Window - 1) : s # 0 => hs[s] = history[s]
  BY <1>1
<1> HIDE DEF rg, hs
<1>7. ASSUME NEW i \in 0..(Buckets - 1), rg[i].age < Window
      PROVE  i = At(cursor, rg[i].age)
  BY <1>3, <1>5, <1>6, <1>7 DEF RingInv, Fits
<1>8. ASSUME NEW s \in 0..(Window - 1)
      PROVE  IF rg[At(cursor, s)].age = s
             THEN rg[At(cursor, s)].ok = hs[s].ok /\ rg[At(cursor, s)].fail = hs[s].fail
             ELSE hs[s].ok = 0 /\ hs[s].fail = 0
  <2>1. CASE s = 0
    BY <1>3, <1>5, <1>6, <2>1
  <2>2. CASE s # 0
    <3>1. At(cursor, s) # cursor /\ At(cursor, s) \in 0..(Buckets - 1)
      BY <1>1, <1>3, <2>2, AtIsIndex
    <3>2. rg[At(cursor, s)] = ring[At(cursor, s)] /\ hs[s] = history[s]
      BY <1>6, <2>2, <3>1
    <3>3. QED
      BY <3>2 DEF RingInv, Fits
  <2>3. QED
    BY <2>1, <2>2
<1>9. Fits(rg, cursor, hs)
  BY <1>7, <1>8 DEF Fits
<1>10. QED
  BY <1>2, <1>9 DEF rg, hs

\* A cleared window fits.
LEMMA ClearedFits ==
  ASSUME Window <= Buckets, NEW c \in 0..(Buckets - 1)
  PROVE  Fits([i \in 0..(Buckets - 1) |-> Empty], c, Nothing)
<1>1. \A s \in 0..(Window - 1) : At(c, s) \in 0..(Buckets - 1)
  BY AtIsIndex
<1>2. \A s \in 0..(Window - 1) : s # Window
  BY ConfigAssumption
<1>3. Empty.age = Window /\ ~(Window < Window)
  BY ConfigAssumption DEF Empty
<1>4. QED
  BY <1>1, <1>2, <1>3 DEF Fits, Nothing

\* A second passes (circuit.go:262-283): the oldest second leaves the window, every
\* other moves one index back, and now has none of its own yet.
LEMMA TickFits ==
  ASSUME Window <= Buckets, WindowOK, RingInv, Tick
  PROVE  RingInv'
<1>1. /\ ring \in [0..(Buckets - 1) -> Bucket] /\ cursor \in 0..(Buckets - 1)
      /\ history \in [0..(Window - 1) -> Second] /\ 0 \in 0..(Window - 1)
  BY ConfigAssumption DEF WindowOK
<1>2. \A i \in 0..(Buckets - 1) :
        /\ ring[i].age \in 0..Window
        /\ ring'[i].age = IF ring[i].age < Window THEN ring[i].age + 1 ELSE Window
        /\ ring'[i].ok = ring[i].ok /\ ring'[i].fail = ring[i].fail
  BY <1>1 DEF Tick, Bucket
<1>3. /\ history'[0].ok = 0 /\ history'[0].fail = 0
      /\ \A s \in 0..(Window - 1) : s # 0 => history'[s] = history[s - 1]
  BY <1>1 DEF Tick
<1>4. cursor' = (cursor + 1) % Buckets /\ cursor' \in 0..(Buckets - 1)
  BY <1>1, ConfigAssumption DEF Tick
<1>5. ASSUME NEW i \in 0..(Buckets - 1), ring'[i].age < Window
      PROVE  i = At(cursor', ring'[i].age)
  <2>1. ring[i].age \in 0..(Window - 1) /\ ring'[i].age = ring[i].age + 1
    BY <1>2, <1>5, ConfigAssumption
  <2>2. i = At(cursor, ring[i].age)
    BY <2>1, ConfigAssumption DEF RingInv, Fits
  <2>3. At((cursor + 1) % Buckets, ring[i].age + 1) = At(cursor, ring[i].age)
    BY <1>1, <2>1, AtMoves
  <2>4. QED
    BY <1>4, <2>1, <2>2, <2>3
<1>6. ASSUME NEW s \in 0..(Window - 1)
      PROVE  IF ring'[At(cursor', s)].age = s
             THEN ring'[At(cursor', s)].ok = history'[s].ok /\ ring'[At(cursor', s)].fail = history'[s].fail
             ELSE history'[s].ok = 0 /\ history'[s].fail = 0
  <2>1. CASE s = 0
    <3>1. At(cursor', 0) \in 0..(Buckets - 1)
      BY <1>1, <1>4, AtIsIndex
    <3>2. ring'[At(cursor', 0)].age # 0
      BY <1>2, <3>1, ConfigAssumption
    <3>3. QED
      BY <1>3, <2>1, <3>2
  <2>2. CASE s # 0
    <3> DEFINE q == s - 1
    <3>1. q \in 0..(Window - 1) /\ q + 1 = s /\ history'[s] = history[q]
      BY <1>3, <2>2, ConfigAssumption
    <3> HIDE DEF q
    <3>2. At(cursor', s) = At(cursor, q) /\ At(cursor, q) \in 0..(Buckets - 1)
      BY <1>1, <1>4, <3>1, AtMoves, AtIsIndex
    <3> DEFINE i == At(cursor, q)
    <3>3. IF ring[i].age = q THEN ring[i].ok = history[q].ok /\ ring[i].fail = history[q].fail
          ELSE history[q].ok = 0 /\ history[q].fail = 0
      BY <3>1 DEF RingInv, Fits
    <3> HIDE DEF i
    <3>4. i \in 0..(Buckets - 1) /\ At(cursor', s) = i
      BY <3>2 DEF i
    <3>5. ring'[i].age = s <=> ring[i].age = q
      BY <1>2, <3>1, <3>4, ConfigAssumption
    <3>6. ring'[i].ok = ring[i].ok /\ ring'[i].fail = ring[i].fail
      BY <1>2, <3>4
    <3>7. QED
      BY <3>1, <3>3, <3>4, <3>5, <3>6
  <2>3. QED
    BY <2>1, <2>2
<1>7. QED
  BY <1>5, <1>6 DEF RingInv, Fits

\* The ring fits in every step.
LEMMA RingStep ==
  ASSUME Window <= Buckets, IInv, RingInv, [CircuitNext]_circuitVars
  PROVE  RingInv'
<1>0. WindowOK /\ cursor \in 0..(Buckets - 1)
  BY DEF IInv, WindowOK
<1>1. CASE UNCHANGED window
  BY <1>1 DEF RingInv, Fits, At, window
<1>2. CASE Tick
  BY <1>0, <1>2, TickFits
<1>3. ASSUME NEW o, RecordWindow(o) PROVE RingInv'
  <2>1. /\ ring' = Observed(o) /\ history' = [history EXCEPT ![0] = CountedIn(@, o)]
        /\ cursor' = cursor
    BY <1>3 DEF RecordWindow
  <2>2. Fits(Observed(o), cursor, [history EXCEPT ![0] = CountedIn(@, o)])
    BY <1>0, ObservedFits
  <2>3. QED
    BY <2>1, <2>2 DEF RingInv
<1>4. ASSUME NEW o, RecordHalfOpen(o) PROVE RingInv'
  <2>1. CASE UNCHANGED window
    BY <2>1 DEF RingInv, Fits, At, window
  <2>2. CASE ToClosed /\ UNCHANGED cursor
    <3>1. Fits([i \in 0..(Buckets - 1) |-> Empty], cursor, Nothing)
      BY <1>0, ClearedFits
    <3>2. QED
      BY <2>2, <3>1 DEF ToClosed, RingInv
  <2>3. QED
    BY <1>4, <2>1, <2>2 DEF RecordHalfOpen
<1>5. QED
  BY <1>1, <1>2, <1>3, <1>4
  DEF CircuitNext, circuitVars, window, Allow, TakeToken, ReturnToken, Record, RecordIgnored

\* Totals of a field of records, as sums of functions.
LEMMA OkTotal ==
  ASSUME NEW rg, NEW S, IsFiniteSet(S)
  PROVE  MapThenSumSet(LAMBDA i : rg[i].ok, S) = SumOver([i \in S |-> rg[i].ok], S)
<1> DEFINE f == [i \in S |-> rg[i].ok]
           K(it) == [s \in SUBSET S |-> IF s = {} THEN 0 ELSE rg[First(s)].ok + it[s \ {First(s)}]]
           h == [s \in SUBSET S |-> Iter(f, S)[s]]
           it0 == CHOOSE it : it = K(it)
<1>1. \A s \in SUBSET S : Iter(f, S)[s] = Folded(f, Iter(f, S), s)
  <2> HIDE DEF f
  <2>1. QED
    BY IterFolds
<1>2. \A s \in SUBSET S : s # {} => First(s) \in S /\ s \ {First(s)} \in SUBSET S
  BY DEF First
<1>3. h = K(h)
  BY <1>1, <1>2 DEF Folded
<1>4. it0 = K(it0)
  <2> HIDE DEF h, K
  <2>1. QED
    BY <1>3
<1>5. \A s \in SUBSET S : it0[s] = Folded(f, it0, s)
  <2> HIDE DEF it0
  <2>1. QED
    BY <1>2, <1>4 DEF Folded
<1>6. it0[S] = SumOver(f, S)
  <2> HIDE DEF it0, f
  <2>1. QED
    BY <1>5, FoldIsSum
<1>7. MapThenSumSet(LAMBDA i : rg[i].ok, S) = it0[S]
  BY DEF MapThenSumSet, MapThenFoldSet, First
<1>8. QED
  BY <1>6, <1>7

\* The same of the failures.
LEMMA FailTotal ==
  ASSUME NEW rg, NEW S, IsFiniteSet(S)
  PROVE  MapThenSumSet(LAMBDA i : rg[i].fail, S) = SumOver([i \in S |-> rg[i].fail], S)
<1> DEFINE f == [i \in S |-> rg[i].fail]
           K(it) == [s \in SUBSET S |-> IF s = {} THEN 0 ELSE rg[First(s)].fail + it[s \ {First(s)}]]
           h == [s \in SUBSET S |-> Iter(f, S)[s]]
           it0 == CHOOSE it : it = K(it)
<1>1. \A s \in SUBSET S : Iter(f, S)[s] = Folded(f, Iter(f, S), s)
  <2> HIDE DEF f
  <2>1. QED
    BY IterFolds
<1>2. \A s \in SUBSET S : s # {} => First(s) \in S /\ s \ {First(s)} \in SUBSET S
  BY DEF First
<1>3. h = K(h)
  BY <1>1, <1>2 DEF Folded
<1>4. it0 = K(it0)
  <2> HIDE DEF h, K
  <2>1. QED
    BY <1>3
<1>5. \A s \in SUBSET S : it0[s] = Folded(f, it0, s)
  <2> HIDE DEF it0
  <2>1. QED
    BY <1>2, <1>4 DEF Folded
<1>6. it0[S] = SumOver(f, S)
  <2> HIDE DEF it0, f
  <2>1. QED
    BY <1>5, FoldIsSum
<1>7. MapThenSumSet(LAMBDA i : rg[i].fail, S) = it0[S]
  BY DEF MapThenSumSet, MapThenFoldSet, First
<1>8. QED
  BY <1>6, <1>7

\* The buckets that sumLocked does not skip (circuit.go:279-282).
LEMMA RecentBuckets ==
  ASSUME NEW rg \in [0..(Buckets - 1) -> Bucket]
  PROVE  /\ Recent(rg) \subseteq 0..(Buckets - 1) /\ IsFiniteSet(Recent(rg))
         /\ \A i \in Recent(rg) : rg[i].age \in 0..(Window - 1)
         /\ \A i \in 0..(Buckets - 1) : rg[i].age < Window => i \in Recent(rg)
<1>1. IsFiniteSet(0..(Buckets - 1))
  BY ConfigAssumption, FS_Interval
<1>2. /\ Recent(rg) \subseteq 0..(Buckets - 1)
      /\ \A i \in Recent(rg) : rg[i].age \in 0..(Window - 1)
      /\ \A i \in 0..(Buckets - 1) : rg[i].age < Window => i \in Recent(rg)
  BY ConfigAssumption DEF Recent, InWindow, Bucket
<1>3. QED
  BY <1>1, <1>2, FS_Subset

\* f tallies the buckets of rg as g does the seconds of the window.
Tallies(c, rg, f, g) ==
  /\ \A i \in 0..(Buckets - 1) : rg[i].age < Window => i = At(c, rg[i].age)
  /\ \A i \in Recent(rg) : f[i] = g[rg[i].age]
  /\ \A s \in 0..(Window - 1) : g[s] \in Int
  /\ \A s \in 0..(Window - 1) : rg[At(c, s)].age # s => g[s] = 0

\* Under At, the bucket of a second in the window is the one whose age it is, so
\* any tally of the buckets in the window is that of the seconds.
LEMMA TallyFits ==
  ASSUME Window <= Buckets, NEW c \in 0..(Buckets - 1), NEW rg \in [0..(Buckets - 1) -> Bucket],
         NEW f, NEW g, Tallies(c, rg, f, g)
  PROVE  SumOver(f, Recent(rg)) = SumOver(g, 0..(Window - 1))
<1> DEFINE T == Recent(rg)
           S == 0..(Window - 1)
           p == [i \in T |-> rg[i].age]
           R == {p[i] : i \in T}
<1>1. /\ T \subseteq 0..(Buckets - 1) /\ IsFiniteSet(T)
      /\ \A i \in T : rg[i].age \in S /\ p[i] = rg[i].age /\ i = At(c, p[i]) /\ f[i] = g[p[i]]
  BY RecentBuckets, ConfigAssumption DEF Tallies
<1>2. IsFiniteSet(S)
  BY ConfigAssumption, FS_Interval
<1>3. \A i \in T : p[i] \in S /\ f[i] = g[p[i]]
  BY <1>1
<1>4. \A i, j \in T : p[i] = p[j] => i = j
  <2> HIDE DEF p, T
  <2>1. QED
    BY <1>1
<1>5. \A s \in S \ R : g[s] = 0
  <2> SUFFICES ASSUME NEW s \in S, s \notin R PROVE rg[At(c, s)].age # s
    BY DEF Tallies
  <2>1. At(c, s) \in 0..(Buckets - 1)
    BY AtIsIndex
  <2>2. CASE rg[At(c, s)].age = s
    <3>1. At(c, s) \in T
      BY <2>1, <2>2, RecentBuckets, ConfigAssumption
    <3>2. p[At(c, s)] = s
      BY <2>2, <3>1
    <3>3. QED
      BY <3>1, <3>2
  <2>3. QED
    BY <2>2
<1>6. R \in SUBSET S /\ \A s \in S : g[s] \in Int
  BY <1>3 DEF Tallies
<1> HIDE DEF T, S, p
<1>7. SumOver(f, T) = SumOver(g, R)
  <2>1. IsFiniteSet(T) /\ IsFiniteSet(S) /\ \A s \in S : g[s] \in Int
    BY <1>1, <1>2, <1>6
  <2>2. QED
    BY <1>3, <1>4, <2>1, SumRenames, SMTT(30)
<1> HIDE DEF R
<1>8. SumOver(g, S) = SumOver(g, R)
  BY <1>2, <1>5, <1>6, SumSkips
<1>9. QED
  BY <1>7, <1>8 DEF T, S

\* One more success, and the totals are the window's.
LEMMA FitsMeansWindow ==
  ASSUME Window <= Buckets, IInv, RingInv
  PROVE  RingIsWindow
<1> DEFINE S == 0..(Window - 1)
           next == Observed("Success")
           hs == [history EXCEPT ![0] = CountedIn(@, "Success")]
           ok == [s \in S |-> history[s].ok]
           fail == [s \in S |-> history[s].fail]
           ok1 == [s \in S |-> hs[s].ok]
           fail1 == [s \in S |-> hs[s].fail]
<1>0. IsFiniteSet(S)
  BY ConfigAssumption, FS_Interval
<1>1. /\ WindowOK /\ cursor \in 0..(Buckets - 1) /\ history \in [S -> Second] /\ 0 \in S
      /\ IsFiniteSet(S) /\ {s \in S : s < Buckets} = S
  BY <1>0, ConfigAssumption DEF IInv, WindowOK
<1>2. next \in [0..(Buckets - 1) -> Bucket]
  BY <1>1, CountedBucket DEF Observed, WindowOK
<1>3. hs \in [S -> Second] /\ \A s \in S : hs[s].ok \in Int /\ hs[s].fail \in Int
  <2>1. hs \in [S -> Second]
    BY <1>1, CountedSecond
  <2> HIDE DEF hs
  <2>2. QED
    BY <2>1 DEF Second
<1>4. Fits(next, cursor, hs)
  BY <1>1, ObservedFits
<1> HIDE DEF next, hs
<1>5. IsFiniteSet(Recent(next)) /\ Recent(next) \subseteq 0..(Buckets - 1)
      /\ \A i \in Recent(next) : next[i].age \in S
  BY <1>2, RecentBuckets
<1>6. ASSUME NEW i \in Recent(next)
      PROVE  next[i].ok = hs[next[i].age].ok /\ next[i].fail = hs[next[i].age].fail
  BY <1>4, <1>5, ConfigAssumption DEF Fits
<1>7. /\ \A i \in 0..(Buckets - 1) : next[i].age < Window => i = At(cursor, next[i].age)
      /\ \A s \in S : next[At(cursor, s)].age # s => hs[s].ok = 0 /\ hs[s].fail = 0
  BY <1>4 DEF Fits
<1>8. OkSum(next) = SumOver(ok1, S)
  <2> DEFINE f == [i \in Recent(next) |-> next[i].ok]
  <2>1. OkSum(next) = SumOver(f, Recent(next))
    BY <1>5, OkTotal DEF OkSum
  <2>2. \A i \in Recent(next) : f[i] = ok1[next[i].age]
    BY <1>5, <1>6
  <2>3. \A s \in S : ok1[s] \in Int /\ (next[At(cursor, s)].age # s => ok1[s] = 0)
    BY <1>3, <1>7
  <2> HIDE DEF f, ok1
  <2>4. Tallies(cursor, next, f, ok1)
    BY <1>7, <2>2, <2>3 DEF Tallies
  <2>5. SumOver(f, Recent(next)) = SumOver(ok1, S)
    BY <1>1, <1>2, <2>4, TallyFits
  <2>6. QED
    BY <2>1, <2>5
<1>9. FailSum(next) = SumOver(fail1, S)
  <2> DEFINE f == [i \in Recent(next) |-> next[i].fail]
  <2>1. FailSum(next) = SumOver(f, Recent(next))
    BY <1>5, FailTotal DEF FailSum
  <2>2. \A i \in Recent(next) : f[i] = fail1[next[i].age]
    BY <1>5, <1>6
  <2>3. \A s \in S : fail1[s] \in Int /\ (next[At(cursor, s)].age # s => fail1[s] = 0)
    BY <1>3, <1>7
  <2> HIDE DEF f, fail1
  <2>4. Tallies(cursor, next, f, fail1)
    BY <1>7, <2>2, <2>3 DEF Tallies
  <2>5. SumOver(f, Recent(next)) = SumOver(fail1, S)
    BY <1>1, <1>2, <2>4, TallyFits
  <2>6. QED
    BY <2>1, <2>5
<1>10. /\ hs[0].ok = history[0].ok + 1 /\ hs[0].fail = history[0].fail
       /\ \A s \in S \ {0} : hs[s] = history[s]
  <2>1. hs[0] = CountedIn(history[0], "Success") /\ \A s \in S \ {0} : hs[s] = history[s]
    BY <1>1 DEF hs
  <2>2. history[0] \in Second
    BY <1>1
  <2>3. QED
    BY <2>1, <2>2 DEF CountedIn, Second
<1>11. \A s \in S : history[s].ok \in Int /\ history[s].fail \in Int
  BY <1>1 DEF Second
<1>12. SumOver(ok1, S) = SumOver(ok, S) + (history[0].ok + 1) - history[0].ok
       /\ SumOver(ok, S) \in Int /\ history[0].ok \in Int
  <2>1. /\ \A s \in S : ok[s] \in Int /\ ok1[s] \in Int
        /\ \A s \in S \ {0} : ok1[s] = ok[s]
        /\ ok[0] = history[0].ok /\ ok1[0] = history[0].ok + 1
    BY <1>1, <1>3, <1>10, <1>11
  <2> HIDE DEF ok, ok1
  <2>2. SumOver(ok1, S) = SumOver(ok, S) + ok1[0] - ok[0] /\ SumOver(ok, S) \in Int
    <3>1. PICK z \in S : z = 0
      BY <1>1
    <3> HIDE DEF S
    <3>2. \A s \in S \ {z} : ok1[s] = ok[s]
      BY <2>1, <3>1
    <3>3. \A s \in S : ok[s] \in Int /\ ok1[s] \in Int
      BY <2>1
    <3>4. SumOver(ok1, S) = SumOver(ok, S) + ok1[z] - ok[z] /\ SumOver(ok, S) \in Int
      BY <1>0, <3>2, <3>3, SumMoves
    <3>5. QED
      BY <3>1, <3>4
  <2>3. QED
    BY <1>1, <1>11, <2>1, <2>2
<1>13. SumOver(fail1, S) = SumOver(fail, S)
  <2>1. \A s \in S : fail1[s] = fail[s]
    BY <1>1, <1>10
  <2> HIDE DEF fail, fail1
  <2>2. QED
    BY <1>1, <2>1, SumAgrees
<1>14. /\ MapThenSumSet(LAMBDA s : history[s].ok, S) = SumOver(ok, S)
       /\ MapThenSumSet(LAMBDA s : history[s].fail, S) = SumOver(fail, S)
  BY <1>1, OkTotal, FailTotal
<1> HIDE DEF ok, fail, ok1, fail1
<1>15. OkSum(next) = 1 + SumOver(ok, S) /\ FailSum(next) = SumOver(fail, S)
  BY <1>8, <1>9, <1>12, <1>13
<1>16. QED
  BY <1>1, <1>14, <1>15 DEF RingIsWindow, next

\* Whatever second an outcome arrives in, and however often the ring has come round,
\* what Record totals is the outcomes of the window and nothing else (circuit.go:229-235,
\* 262-287), for any window that has a bucket per second, as DefaultConfig's has
\* (circuit.go:121-122).  With fewer buckets than seconds an old bucket no later
\* second has overwritten is still summed, so the hypothesis cannot be dropped.
THEOREM WindowExact ==
  ASSUME Window <= Buckets
  PROVE  CircuitSpec => []RingIsWindow
<1>1. CircuitInit => RingInv
  <2> SUFFICES ASSUME CircuitInit PROVE RingInv
    OBVIOUS
  <2>1. 0 \in 0..(Buckets - 1)
    BY ConfigAssumption
  <2>2. Fits([i \in 0..(Buckets - 1) |-> Empty], 0, Nothing)
    BY <2>1, ClearedFits
  <2>3. QED
    BY <2>2 DEF CircuitInit, RingInv
<1>2. IInv /\ RingInv /\ [CircuitNext]_circuitVars => RingInv'
  BY RingStep
<1>3. IInv /\ RingInv => RingIsWindow
  BY FitsMeansWindow
<1>4. QED
  BY <1>1, <1>2, <1>3, IInvAlways, PTL DEF CircuitSpec

----------------------------------------------------------------------------
(* The window of first-token times. *)

Sample == [d : Durations, age : 0..TtftKept + CacheTTL + 1]

\* j comes before i, or is i, when the samples of w are sorted by duration.
Upon(w, j, i) == w[j].d < w[i].d \/ (w[j].d = w[i].d /\ j <= i)

\* The samples up to i.
Ranked(w, i) == {j \in DOMAIN w : Upon(w, j, i)}

\* Samples are numbers of milliseconds and of ticks.
LEMMA SampleOK ==
  ASSUME NEW w \in Seq(Sample)
  PROVE  /\ Len(w) \in Nat /\ DOMAIN w = 1..Len(w) /\ IsFiniteSet(DOMAIN w)
         /\ Cardinality(DOMAIN w) = Len(w)
         /\ \A i \in DOMAIN w : /\ w[i] \in Sample /\ w[i].d \in Nat /\ w[i].d \in Durations
                                /\ w[i].age \in Nat /\ w[i].age <= TtftKept + CacheTTL + 1
                                /\ i \in Nat /\ i >= 1
         /\ \A i : Place(w, i) = Cardinality(Ranked(w, i))
<1>1. Len(w) \in Nat /\ DOMAIN w = 1..Len(w) /\ \A i \in 1..Len(w) : w[i] \in Sample
  OBVIOUS
<1> DEFINE n == Len(w)
<1>2. IsFiniteSet(1..n) /\ Cardinality(1..n) = n
  <2>1. n \in Nat
    BY <1>1
  <2> HIDE DEF n
  <2>2. IsFiniteSet(1..n) /\ Cardinality(1..n) = IF 1 > n THEN 0 ELSE n - 1 + 1
    BY <2>1, FS_Interval
  <2>3. QED
    BY <2>1, <2>2
<1>3. \A i \in DOMAIN w : /\ w[i] \in Sample /\ w[i].d \in Nat /\ w[i].d \in Durations
                          /\ w[i].age \in Nat /\ w[i].age <= TtftKept + CacheTTL + 1
                          /\ i \in Nat /\ i >= 1
  <2>1. \A i \in 1..Len(w) : i \in Nat /\ i >= 1
    BY <1>1
  <2>2. \A x \in Sample : x.d \in Durations /\ x.age \in 0..TtftKept + CacheTTL + 1
    BY DEF Sample
  <2>3. TtftKept + CacheTTL + 1 \in Nat /\ Durations \subseteq Nat
    BY TtftAssumption
  <2>4. \A x \in Sample : /\ x.d \in Durations /\ x.d \in Nat
                         /\ x.age \in Nat /\ x.age <= TtftKept + CacheTTL + 1
    <3> DEFINE top == TtftKept + CacheTTL + 1
    <3>1. top \in Nat /\ \A x \in Sample : x.d \in Durations /\ x.age \in 0..top
      BY <2>2, <2>3
    <3> HIDE DEF top, Sample
    <3>2. \A x \in Sample : x.age \in Nat /\ x.age <= top
      BY <3>1
    <3>3. QED
      BY <2>3, <3>1, <3>2 DEF top
  <2> HIDE DEF Sample
  <2>5. QED
    BY <1>1, <2>1, <2>4
<1>4. \A i : Place(w, i) = Cardinality(Ranked(w, i))
  BY DEF Place, Ranked, Upon
<1>5. QED
  BY <1>1, <1>2, <1>3, <1>4

\* Sorting gives every sample a place of its own, and leaves none empty.
LEMMA PlaceTaken ==
  ASSUME NEW w \in Seq(Sample), NEW r \in 1..Len(w)
  PROVE  \E i \in DOMAIN w : Place(w, i) = r
<1> DEFINE D == DOMAIN w
           n == Len(w)
<1>1. /\ n \in Nat /\ D = 1..n /\ IsFiniteSet(D) /\ Cardinality(D) = n
      /\ \A i \in D : w[i].d \in Nat /\ i \in Nat
      /\ \A i : Place(w, i) = Cardinality(Ranked(w, i))
  BY SampleOK
<1>2. \A i \in D : /\ IsFiniteSet(Ranked(w, i)) /\ Cardinality(Ranked(w, i)) \in Nat
                   /\ Cardinality(Ranked(w, i)) <= n /\ Cardinality(Ranked(w, i)) >= 1
  <2> SUFFICES ASSUME NEW i \in D
               PROVE  /\ IsFiniteSet(Ranked(w, i)) /\ Cardinality(Ranked(w, i)) \in Nat
                      /\ Cardinality(Ranked(w, i)) <= n /\ Cardinality(Ranked(w, i)) >= 1
    OBVIOUS
  <2>1. Ranked(w, i) \subseteq D /\ i \in Ranked(w, i)
    BY <1>1 DEF Ranked, Upon
  <2>2. IsFiniteSet(Ranked(w, i)) /\ Cardinality(Ranked(w, i)) <= n
    BY <1>1, <2>1, FS_Subset
  <2>3. Cardinality(Ranked(w, i)) \in Nat /\ Cardinality(Ranked(w, i)) # 0
    BY <2>1, <2>2, FS_CardinalityType, FS_EmptySet
  <2>4. QED
    BY <2>2, <2>3
<1>3. ASSUME NEW i \in D, NEW j \in D, i # j, Upon(w, i, j) PROVE Cardinality(Ranked(w, i)) # Cardinality(Ranked(w, j))
  <2>1. Ranked(w, i) \subseteq Ranked(w, j)
    BY <1>1, <1>3 DEF Ranked, Upon
  <2>2. j \in Ranked(w, j) /\ j \notin Ranked(w, i)
    BY <1>1, <1>3 DEF Ranked, Upon
  <2>3. QED
    BY <1>2, <2>1, <2>2, FS_Subset
<1>4. \A i, j \in D : i # j => Cardinality(Ranked(w, i)) # Cardinality(Ranked(w, j))
  <2> SUFFICES ASSUME NEW i \in D, NEW j \in D, i # j
               PROVE  Cardinality(Ranked(w, i)) # Cardinality(Ranked(w, j))
    OBVIOUS
  <2>1. Upon(w, i, j) \/ Upon(w, j, i)
    BY <1>1 DEF Upon
  <2>2. QED
    BY <1>3, <2>1
<1>5. SUFFICES ASSUME \A i \in D : Cardinality(Ranked(w, i)) # r PROVE FALSE
  BY <1>1
<1> DEFINE T == D \ {r}
           F == [i \in D |-> Cardinality(Ranked(w, i))]
<1>6. F \in [D -> T]
  BY <1>1, <1>2, <1>5
<1>7. IsFiniteSet(T) /\ Cardinality(T) = n - 1
  BY <1>1, FS_RemoveElement
<1>8. \A i \in D : F[i] = Cardinality(Ranked(w, i))
  OBVIOUS
<1>9. Cardinality(T) < Cardinality(D)
  BY <1>1, <1>7
<1> HIDE DEF D, T, F
<1>10. \E i, j \in D : i # j /\ F[i] = F[j]
  BY <1>1, <1>6, <1>7, <1>9, FS_PigeonHole
<1>11. QED
  BY <1>4, <1>8, <1>10

\* The rank is a place, nine tenths of the way up.
LEMMA RankOK ==
  ASSUME NEW n \in Nat, n >= 1
  PROVE  Rank(n) \in 1..n /\ 10 * Rank(n) >= 9 * n /\ 10 * (Rank(n) - 1) < 9 * n
BY DEF Rank

\* The percentile is one of the window (backend.go:228-236): nine in ten are no
\* slower, and fewer are faster.
LEMMA PercentileSays ==
  ASSUME NEW w \in Seq(Sample), Len(w) >= MinSamples
  PROVE  LET v == P90(w) IN
         /\ v \in Nat
         /\ 10 * Cardinality({i \in DOMAIN w : w[i].d <= v}) >= 9 * Len(w)
         /\ 10 * Cardinality({i \in DOMAIN w : w[i].d < v}) < 9 * Len(w)
<1> DEFINE D == DOMAIN w
           n == Len(w)
           r == Rank(n)
           c == CHOOSE i \in D : Place(w, i) = r
           v == w[c].d
           slow == {i \in D : w[i].d <= v}
           fast == {i \in D : w[i].d < v}
<1>1. /\ n \in Nat /\ D = 1..n /\ IsFiniteSet(D)
      /\ \A i \in D : w[i].d \in Nat /\ i \in Nat
      /\ \A i : Place(w, i) = Cardinality(Ranked(w, i))
  BY SampleOK
<1>2. n >= 1
  BY <1>1, TtftAssumption
<1> HIDE DEF n
<1>3. r \in 1..n /\ 10 * r >= 9 * n /\ 10 * (r - 1) < 9 * n
  BY <1>1, <1>2, RankOK
<1>4. P90(w) = v
  BY <1>1, TtftAssumption DEF P90, n
<1> HIDE DEF r
<1>5. c \in D /\ Place(w, c) = r
  BY <1>3, PlaceTaken DEF n
<1> HIDE DEF c
<1>6. Cardinality(Ranked(w, c)) = r
  BY <1>1, <1>5
<1>7. Ranked(w, c) \subseteq slow /\ slow \subseteq D
  BY <1>1, <1>5 DEF Ranked, Upon
<1>8. fast \subseteq Ranked(w, c) \ {c} /\ c \in Ranked(w, c) /\ Ranked(w, c) \subseteq D
  BY <1>1, <1>5 DEF Ranked, Upon
<1> HIDE DEF D, slow, fast
<1>9. IsFiniteSet(slow) /\ r <= Cardinality(slow) /\ Cardinality(slow) \in Nat
  BY <1>1, <1>6, <1>7, FS_Subset, FS_CardinalityType
<1>10. IsFiniteSet(Ranked(w, c))
  BY <1>1, <1>8, FS_Subset
<1>11. IsFiniteSet(Ranked(w, c) \ {c}) /\ Cardinality(Ranked(w, c) \ {c}) = r - 1
  BY <1>6, <1>8, <1>10, FS_RemoveElement
<1>12. IsFiniteSet(fast) /\ Cardinality(fast) <= r - 1 /\ Cardinality(fast) \in Nat
  BY <1>8, <1>11, FS_Subset, FS_CardinalityType
<1>13. v \in Nat
  BY <1>1, <1>5
<1> DEFINE a == Cardinality(slow)
           b == Cardinality(fast)
<1>14. a \in Nat /\ b \in Nat /\ r \in Nat /\ r <= a /\ b <= r - 1
  BY <1>3, <1>9, <1>12
<1> HIDE DEF a, b, v
<1>15. 10 * a >= 9 * n /\ 10 * b < 9 * n
  BY <1>1, <1>3, <1>14
<1>16. QED
  BY <1>4, <1>13, <1>15 DEF a, b, v, slow, fast, n, D

\* A percentile is one of the samples, or 0 when there are too few.
LEMMA PercentileIsNat == ASSUME NEW w \in Seq(Sample) PROVE P90(w) \in Nat
<1>1. Len(w) \in Nat /\ MinSamples \in Nat
  BY SampleOK, TtftAssumption
<1>2. CASE Len(w) < MinSamples
  BY <1>2 DEF P90
<1>3. CASE Len(w) >= MinSamples
  BY <1>3, PercentileSays
<1>4. QED
  BY <1>1, <1>2, <1>3

\* Only durations make the percentile, and their order does not change as they age.
LEMMA SamePercentile ==
  ASSUME NEW w \in Seq(Sample), NEW u \in Seq(Sample), DOMAIN u = DOMAIN w, Len(u) = Len(w),
         \A i \in DOMAIN w : u[i].d = w[i].d
  PROVE  P90(u) = P90(w)
<1>1. \A i \in DOMAIN w : Place(u, i) = Place(w, i)
  BY DEF Place
<1>2. CASE Len(w) < MinSamples
  BY <1>2 DEF P90
<1>3. CASE ~(Len(w) < MinSamples)
  <2> DEFINE r == Rank(Len(w))
             c == CHOOSE i \in DOMAIN w : Place(w, i) = r
             e == CHOOSE i \in DOMAIN u : Place(u, i) = r
  <2>1. Len(w) \in Nat /\ Len(w) >= 1
    BY <1>3, SampleOK, TtftAssumption
  <2>2. r \in 1..Len(w)
    BY <2>1, RankOK
  <2> HIDE DEF r
  <2>3. c \in DOMAIN w
    BY <2>2, PlaceTaken
  <2>4. e = c
    BY <1>1
  <2>5. P90(w) = w[c].d /\ P90(u) = u[e].d
    BY <1>3 DEF P90, r
  <2>6. QED
    BY <2>3, <2>4, <2>5
<1>4. QED
  BY <1>2, <1>3

\* Oldest first.
Falling(w) == \A i, j \in DOMAIN w : i < j => w[j].age <= w[i].age

\* A window: not too long, oldest first.
WinOK(w) == w \in Seq(Sample) /\ Len(w) <= WindowCap /\ Falling(w)

\* evictTTFT (backend.go:205-213) stops at the first sample that is not too old, and
\* because the oldest are first no sample that is too old is left.
LEMMA EvictedOK ==
  ASSUME WinOK(win)
  PROVE  WinOK(Evicted) /\ \A i \in DOMAIN Evicted : Evicted[i].age <= TtftKept
<1> DEFINE n == Len(win)
           old == {k \in 0..n : \A i \in 1..k : win[i].age > TtftKept}
           m == Max(old)
<1>1. /\ win \in Seq(Sample) /\ n \in Nat /\ DOMAIN win = 1..n /\ n <= WindowCap
      /\ \A i \in 1..n : win[i] \in Sample /\ win[i].age \in Nat
      /\ \A i, j \in 1..n : i < j => win[j].age <= win[i].age
  BY SampleOK DEF WinOK, Falling
<1>2. TtftKept \in Nat /\ WindowCap \in Nat
  BY TtftAssumption
<1>3. Evicted = SubSeq(win, m + 1, n)
  BY DEF Evicted
<1> HIDE DEF n
<1>4. 0 \in old /\ old \subseteq Nat /\ \A k \in old : k <= n
  BY <1>1
<1>5. m \in old /\ \A k \in old : k <= m
  <2> HIDE DEF old
  <2>1. QED
    BY <1>1, <1>4, BoundedMax
<1>6. m \in 0..n /\ \A i \in 1..m : win[i].age > TtftKept
  BY <1>5
<1>7. m + 1 \in 1..n => win[m + 1].age <= TtftKept
  <2> SUFFICES ASSUME m + 1 \in 1..n, ~(win[m + 1].age <= TtftKept) PROVE FALSE
    OBVIOUS
  <2>1. win[m + 1].age > TtftKept
    BY <1>1, <1>2
  <2>2. \A i \in 1..(m + 1) : win[i].age > TtftKept
    BY <1>1, <1>6, <2>1
  <2>3. m + 1 \in old
    BY <1>1, <2>2
  <2> HIDE DEF old
  <2>4. m + 1 <= m
    BY <1>5, <2>3
  <2>5. QED
    BY <1>1, <1>6, <2>4
<1> HIDE DEF m
<1> DEFINE e == SubSeq(win, m + 1, n)
<1>8. /\ e \in Seq(Sample) /\ Len(e) = n - m
      /\ \A i \in 1..(n - m) : e[i] = win[m + i]
  <2>1. m + 1 \in Int /\ n \in Int /\ \A i \in (m + 1)..n : win[i] \in Sample
    BY <1>1, <1>6
  <2>2. /\ e \in Seq(Sample) /\ Len(e) = IF m + 1 <= n THEN n - (m + 1) + 1 ELSE 0
        /\ \A i \in 1..(n - (m + 1) + 1) : e[i] = win[(m + 1) + i - 1]
    BY <2>1, SubSeqProperties
  <2>3. n - (m + 1) + 1 = n - m /\ \A i \in Int : (m + 1) + i - 1 = m + i
    BY <1>1, <1>6
  <2> HIDE DEF e
  <2>4. Len(e) = n - m
    BY <1>1, <1>6, <2>2
  <2>5. \A i \in 1..(n - m) : e[i] = win[m + i]
    BY <1>1, <1>6, <2>2, <2>3
  <2>6. QED
    BY <2>2, <2>4, <2>5
<1> HIDE DEF e
<1>9. DOMAIN e = 1..(n - m)
  BY <1>8, SampleOK
<1>10. \A i \in 1..(n - m) : m + i \in 1..n /\ (m + i = m + 1 \/ m + 1 < m + i)
  BY <1>1, <1>6
<1>11. ASSUME NEW i \in 1..(n - m) PROVE e[i].age <= TtftKept
  <2>1. m + 1 \in 1..n /\ m + i \in 1..n
    BY <1>1, <1>6, <1>10
  <2>2. win[m + i].age <= win[m + 1].age
    BY <1>1, <1>10, <2>1
  <2>3. QED
    BY <1>1, <1>2, <1>7, <1>8, <2>1, <2>2
<1>12. Falling(e)
  <2> SUFFICES ASSUME NEW i \in 1..(n - m), NEW j \in 1..(n - m), i < j PROVE e[j].age <= e[i].age
    BY <1>9 DEF Falling
  <2>1. m + i \in 1..n /\ m + j \in 1..n /\ m + i < m + j
    BY <1>1, <1>6, <1>10
  <2>2. QED
    BY <1>1, <1>8, <2>1
<1>13. Len(e) <= WindowCap
  BY <1>1, <1>2, <1>6, <1>8
<1>14. Evicted = e
  BY <1>3 DEF e
<1>15. QED
  BY <1>8, <1>9, <1>11, <1>12, <1>13, <1>14 DEF WinOK

\* A percentile of a window is recent if the samples are (backend.go:222-240).
RecentP90(val, w) ==
  val > 0 =>
    /\ Len(w) >= MinSamples /\ Len(w) <= WindowCap
    /\ Cardinality({i \in DOMAIN w : w[i].age < TtftKept + CacheTTL}) = Len(w)
    /\ 10 * Cardinality({i \in DOMAIN w : w[i].d <= val}) >= 9 * Len(w)
    /\ 10 * Cardinality({i \in DOMAIN w : w[i].d < val}) < 9 * Len(w)

LEMMA RecentIs == PercentileIsRecent <=> RecentP90(answer.val, answer.of)
BY DEF PercentileIsRecent, RecentP90

LEMMA RecentOK ==
  ASSUME NEW w, WinOK(w), NEW k, k \in Nat, k < CacheTTL, \A i \in DOMAIN w : w[i].age <= TtftKept + k
  PROVE  RecentP90(P90(w), w)
<1> SUFFICES ASSUME P90(w) > 0 PROVE RecentP90(P90(w), w)
  BY DEF RecentP90
<1>1. w \in Seq(Sample) /\ Len(w) <= WindowCap
  BY DEF WinOK
<1>2. Len(w) \in Nat /\ Cardinality(DOMAIN w) = Len(w) /\ \A i \in DOMAIN w : w[i].age \in Nat
  BY <1>1, SampleOK
<1>3. Len(w) >= MinSamples
  <2>1. CASE Len(w) < MinSamples
    <3>1. P90(w) = 0
      BY <2>1 DEF P90
    <3>2. QED
      BY <3>1
  <2>2. QED
    BY <1>2, <2>1, TtftAssumption
<1>4. /\ 10 * Cardinality({i \in DOMAIN w : w[i].d <= P90(w)}) >= 9 * Len(w)
      /\ 10 * Cardinality({i \in DOMAIN w : w[i].d < P90(w)}) < 9 * Len(w)
  BY <1>1, <1>3, PercentileSays
<1>5. \A i \in DOMAIN w : w[i].age < TtftKept + CacheTTL
  <2>1. ASSUME NEW i \in DOMAIN w PROVE w[i].age < TtftKept + CacheTTL
    <3>1. w[i].age \in Nat /\ w[i].age <= TtftKept + k
      BY <1>2
    <3>2. QED
      BY <3>1, TtftAssumption
  <2>2. QED
    BY <2>1
<1>6. {i \in DOMAIN w : w[i].age < TtftKept + CacheTTL} = DOMAIN w
  BY <1>5
<1>7. QED
  BY <1>1, <1>2, <1>3, <1>4, <1>6 DEF RecentP90

\* The cached percentile is the window's, and no sample has outlived it by more than
\* the cache has (backend.go:222-240): observing a sample drops the cache.
CacheOK ==
  cache # NotCached =>
    /\ cache \in [val : Nat, age : 0..CacheTTL] /\ cache.val = P90(win)
    /\ cache.age < CacheTTL => \A i \in DOMAIN win : win[i].age <= TtftKept + cache.age

TtftInv == WinOK(win) /\ CacheOK /\ PercentileIsRecent

\* An empty window to start with.
LEMMA TtftInitInv == TtftInit => TtftInv
<1> SUFFICES ASSUME TtftInit PROVE TtftInv
  OBVIOUS
<1>1. win = << >> /\ cache = NotCached /\ answer.val = 0
  BY DEF TtftInit
<1>2. win \in Seq(Sample) /\ Len(win) = 0 /\ DOMAIN win = {}
  BY <1>1
<1>3. WinOK(win)
  BY <1>2, TtftAssumption DEF WinOK, Falling
<1>4. PercentileIsRecent
  BY <1>1, RecentIs DEF RecentP90
<1>5. QED
  BY <1>1, <1>3, <1>4 DEF TtftInv, CacheOK

\* The youngest sample goes to the end, and the window stays within its cap.
LEMMA ObserveInv ==
  ASSUME TtftInv, NEW d \in Durations, ObserveTTFT(d)
  PROVE  TtftInv'
<1> DEFINE e == Evicted
           w == IF Len(e) >= WindowCap THEN Tail(e) ELSE e
           x == [d |-> d, age |-> 0]
<1>1. win' = Append(w, x) /\ cache' = NotCached /\ answer' = answer
  BY DEF ObserveTTFT
<1>2. WinOK(e)
  BY EvictedOK DEF TtftInv
<1>3. /\ e \in Seq(Sample) /\ Len(e) \in Nat /\ Len(e) <= WindowCap /\ DOMAIN e = 1..Len(e)
      /\ \A i, j \in DOMAIN e : i < j => e[j].age <= e[i].age
  BY <1>2, SampleOK DEF WinOK, Falling
<1>4. x \in Sample /\ x.age = 0
  BY TtftAssumption DEF Sample
<1> HIDE DEF e, x
<1>5. /\ w \in Seq(Sample) /\ Len(w) \in Nat /\ Len(w) + 1 <= WindowCap
      /\ \A i, j \in 1..Len(w) : i < j => w[j].age <= w[i].age
  <2>1. CASE Len(e) >= WindowCap
    <3>1. e # << >> /\ WindowCap \in Nat /\ Len(e) >= 1
      BY <1>3, <2>1, TtftAssumption
    <3>2. /\ Tail(e) \in Seq(Sample) /\ Len(Tail(e)) = Len(e) - 1
          /\ \A i \in 1..Len(Tail(e)) : Tail(e)[i] = e[i + 1]
      BY <1>3, <3>1, HeadTailProperties
    <3>3. \A i \in 1..Len(Tail(e)) : i + 1 \in DOMAIN e
      BY <1>3, <3>1, <3>2
    <3>4. \A i, j \in 1..Len(Tail(e)) : i < j => Tail(e)[j].age <= Tail(e)[i].age
      BY <1>3, <3>2, <3>3
    <3>5. w = Tail(e) /\ Len(Tail(e)) \in Nat /\ Len(Tail(e)) + 1 <= WindowCap
      BY <1>3, <2>1, <3>1, <3>2
    <3>6. QED
      BY <3>2, <3>4, <3>5
  <2>2. CASE ~(Len(e) >= WindowCap)
    <3>1. w = e /\ WindowCap \in Nat
      BY <2>2, TtftAssumption
    <3>2. QED
      BY <1>3, <2>2, <3>1
  <2>3. QED
    BY <2>1, <2>2
<1> HIDE DEF w
<1> DEFINE u == Append(w, x)
<1>6. /\ u \in Seq(Sample) /\ Len(u) = Len(w) + 1 /\ u[Len(w) + 1] = x
      /\ \A i \in 1..Len(w) : u[i] = w[i]
  BY <1>4, <1>5
<1> HIDE DEF u
<1>7. Falling(u)
  <2>1. DOMAIN u = 1..(Len(w) + 1)
    BY <1>6, SampleOK
  <2> SUFFICES ASSUME NEW i \in 1..(Len(w) + 1), NEW j \in 1..(Len(w) + 1), i < j PROVE u[j].age <= u[i].age
    BY <2>1 DEF Falling
  <2>2. i \in 1..Len(w)
    BY <1>5
  <2>3. CASE j = Len(w) + 1
    <3>1. u[j].age = 0 /\ u[i].age \in Nat
      BY <1>4, <1>6, <2>1, <2>3, SampleOK
    <3>2. QED
      BY <3>1
  <2>4. CASE j # Len(w) + 1
    <3>1. j \in 1..Len(w)
      BY <1>5, <2>4
    <3>2. QED
      BY <1>5, <1>6, <2>2, <3>1
  <2>5. QED
    BY <2>3, <2>4
<1>8. WinOK(win')
  BY <1>1, <1>5, <1>6, <1>7 DEF WinOK, u
<1>9. PercentileIsRecent'
  BY <1>1 DEF TtftInv, PercentileIsRecent
<1>10. QED
  BY <1>1, <1>8, <1>9 DEF TtftInv, CacheOK

\* A read answers from the cache, or evicts, computes and caches.
LEMMA ReadInv ==
  ASSUME TtftInv, TTFTp90
  PROVE  TtftInv'
<1>1. WinOK(win) /\ CacheOK /\ CacheTTL \in Nat \ {0}
  BY TtftAssumption DEF TtftInv
<1>2. CASE cache # NotCached /\ cache.age < CacheTTL
  <2>1. answer' = [val |-> cache.val, of |-> win] /\ win' = win /\ cache' = cache
    BY <1>2 DEF TTFTp90
  <2>2. /\ cache.age \in 0..CacheTTL /\ cache.val = P90(win)
        /\ \A i \in DOMAIN win : win[i].age <= TtftKept + cache.age
    BY <1>1, <1>2 DEF CacheOK
  <2>3. RecentP90(P90(win), win)
    BY <1>1, <1>2, <2>2, RecentOK
  <2>4. RecentP90(answer'.val, answer'.of)
    BY <2>1, <2>2, <2>3
  <2>5. PercentileIsRecent'
    BY <2>4 DEF PercentileIsRecent, RecentP90
  <2>6. QED
    BY <1>1, <2>1, <2>5 DEF TtftInv, CacheOK
<1>3. CASE ~(cache # NotCached /\ cache.age < CacheTTL)
  <2> DEFINE e == Evicted
             v == P90(e)
  <2>1. win' = e /\ cache' = [val |-> v, age |-> 0] /\ answer' = [val |-> v, of |-> e]
    BY <1>3 DEF TTFTp90
  <2>2. WinOK(e) /\ \A i \in DOMAIN e : e[i].age <= TtftKept
    BY <1>1, EvictedOK
  <2>3. \A i \in DOMAIN e : e[i].age <= TtftKept + 0
    BY <2>2, TtftAssumption
  <2> HIDE DEF e
  <2>4. RecentP90(v, e)
    BY <1>1, <2>2, <2>3, RecentOK
  <2>5. v = P90(win')
    BY <2>1
  <2> HIDE DEF v
  <2>6. PercentileIsRecent'
    BY <2>1, <2>4 DEF PercentileIsRecent, RecentP90
  <2>7. WinOK(win')
    BY <2>1, <2>2
  <2>8. CacheOK'
    <3>1. cache' \in [val : Nat, age : 0..CacheTTL]
      <4>1. v \in Nat /\ 0 \in 0..CacheTTL
        BY <1>1, <2>2, PercentileIsNat DEF v, WinOK
      <4>2. QED
        BY <2>1, <4>1
    <3>2. cache'.age = 0 /\ cache'.val = P90(win') /\ \A i \in DOMAIN win' : win'[i].age <= TtftKept + 0
      BY <2>1, <2>3, <2>5
    <3>3. QED
      BY <3>1, <3>2 DEF CacheOK
  <2>9. QED
    BY <2>6, <2>7, <2>8 DEF TtftInv
<1>4. QED
  BY <1>2, <1>3

\* Samples and cache age together.
LEMMA TtftTickInv ==
  ASSUME TtftInv, TtftTick
  PROVE  TtftInv'
<1> DEFINE top == TtftKept + CacheTTL
           Older(a) == IF a > top THEN a ELSE a + 1
           u == [i \in DOMAIN win |-> [win[i] EXCEPT !.age = Older(win[i].age)]]
<1>1. /\ win' = u /\ answer' = [val |-> 0, of |-> << >>]
      /\ cache' = IF cache = NotCached \/ cache.age = CacheTTL THEN cache
                  ELSE [cache EXCEPT !.age = cache.age + 1]
  BY DEF TtftTick
<1>2. /\ win \in Seq(Sample) /\ Len(win) \in Nat /\ DOMAIN win = 1..Len(win) /\ Len(win) <= WindowCap
      /\ \A i \in DOMAIN win : /\ win[i] \in Sample /\ win[i].d \in Durations /\ win[i].age \in Nat
                               /\ win[i].age <= top + 1
      /\ \A i, j \in DOMAIN win : i < j => win[j].age <= win[i].age
  BY SampleOK DEF TtftInv, WinOK, Falling
<1>3. top \in Nat /\ TtftKept \in Nat /\ CacheTTL \in Nat
  BY TtftAssumption
<1>4. \A i \in DOMAIN win : u[i] = [d |-> win[i].d, age |-> Older(win[i].age)]
  BY <1>2 DEF Sample
<1>5. DOMAIN u = DOMAIN win
  OBVIOUS
<1> HIDE DEF u
<1>6. \A i \in DOMAIN win : u[i].d = win[i].d /\ u[i].age = Older(win[i].age)
  <2> HIDE DEF Older
  <2>1. ASSUME NEW i \in DOMAIN win PROVE u[i].d = win[i].d /\ u[i].age = Older(win[i].age)
    <3> DEFINE a == Older(win[i].age)
    <3>1. u[i] = [d |-> win[i].d, age |-> a]
      BY <1>4
    <3> HIDE DEF a
    <3>2. u[i].d = win[i].d /\ u[i].age = a
      BY <3>1
    <3>3. QED
      BY <3>2 DEF a
  <2>2. QED
    BY <2>1
<1>7. \A i \in DOMAIN win : u[i] \in Sample
  <2>1. ASSUME NEW i \in DOMAIN win PROVE u[i] \in Sample
    <3>1. Older(win[i].age) \in 0..top + 1
      BY <1>2, <1>3
    <3>2. win[i].d \in Durations
      BY <1>2
    <3>3. \A d \in Durations, a \in 0..top + 1 : [d |-> d, age |-> a] \in Sample
      BY DEF Sample
    <3> HIDE DEF Older, top, Sample
    <3>4. [d |-> win[i].d, age |-> Older(win[i].age)] \in Sample
      BY <3>1, <3>2, <3>3
    <3>5. QED
      BY <1>4, <3>4
  <2>2. QED
    BY <2>1
<1>8. u \in Seq(Sample) /\ Len(u) = Len(win)
  <2>1. u \in [1..Len(win) -> Sample]
    <3>1. u = [i \in DOMAIN win |-> u[i]]
      BY DEF u
    <3>2. QED
      BY <1>2, <1>7, <3>1
  <2>2. QED
    BY <1>2, <2>1
<1>9. Falling(u)
  <2> SUFFICES ASSUME NEW i \in DOMAIN win, NEW j \in DOMAIN win, i < j PROVE u[j].age <= u[i].age
    BY <1>5 DEF Falling
  <2>1. win[j].age <= win[i].age /\ win[j].age \in Nat /\ win[i].age \in Nat /\ win[i].age <= top + 1
    BY <1>2
  <2>2. u[j].age = Older(win[j].age) /\ u[i].age = Older(win[i].age)
    BY <1>6
  <2>3. QED
    BY <1>3, <2>1, <2>2
<1>10. P90(u) = P90(win)
  BY <1>2, <1>5, <1>6, <1>8, SamePercentile
<1>11. CacheOK'
  <2>1. SUFFICES ASSUME cache' # NotCached
                 PROVE  /\ cache' \in [val : Nat, age : 0..CacheTTL] /\ cache'.val = P90(u)
                        /\ cache'.age < CacheTTL => \A i \in DOMAIN u : u[i].age <= TtftKept + cache'.age
    BY <1>1 DEF CacheOK
  <2>2. cache # NotCached
    BY <1>1, <2>1
  <2>3. /\ cache \in [val : Nat, age : 0..CacheTTL] /\ cache.val = P90(win)
        /\ cache.age < CacheTTL => \A i \in DOMAIN win : win[i].age <= TtftKept + cache.age
    BY <2>2 DEF TtftInv, CacheOK
  <2>4. CASE cache.age = CacheTTL
    <3>1. cache' = cache
      BY <1>1, <2>4
    <3>2. ~(CacheTTL < CacheTTL)
      BY <1>3
    <3>3. QED
      BY <1>10, <2>3, <2>4, <3>1, <3>2
  <2>5. CASE cache.age # CacheTTL
    <3>1. cache' = [cache EXCEPT !.age = cache.age + 1]
      BY <1>1, <2>2, <2>5
    <3>2. cache.age + 1 \in 0..CacheTTL /\ cache.age \in Nat /\ cache.age < CacheTTL
      BY <1>3, <2>3, <2>5
    <3>3. /\ cache' \in [val : Nat, age : 0..CacheTTL]
          /\ cache'.age = cache.age + 1 /\ cache'.val = cache.val
      BY <2>3, <3>1, <3>2
    <3>4. \A i \in DOMAIN u : u[i].age <= TtftKept + (cache.age + 1)
      <4> SUFFICES ASSUME NEW i \in DOMAIN win PROVE u[i].age <= TtftKept + (cache.age + 1)
        BY <1>5
      <4>1. win[i].age <= TtftKept + cache.age /\ win[i].age \in Nat
        BY <1>2, <2>3, <3>2
      <4>2. u[i].age = Older(win[i].age)
        BY <1>6
      <4>3. QED
        BY <1>3, <3>2, <4>1, <4>2
    <3>5. QED
      BY <1>10, <2>3, <3>3, <3>4
  <2>6. QED
    BY <2>4, <2>5
<1>12. PercentileIsRecent'
  BY <1>1 DEF PercentileIsRecent
<1>13. QED
  BY <1>1, <1>2, <1>8, <1>9, <1>11, <1>12 DEF TtftInv, WinOK

\* First-token window: the percentile that routing acts on is that of enough samples,
\* no more than the cap, each from within the window and the cache's life; nine in ten
\* are no slower, and fewer are faster (backend.go:185-247).
THEOREM PercentileAlwaysRecent == TtftSpec => []PercentileIsRecent
<1>1. TtftInv /\ [TtftNext]_ttftVars => TtftInv'
  <2> SUFFICES ASSUME TtftInv, [TtftNext]_ttftVars PROVE TtftInv'
    OBVIOUS
  <2>1. CASE UNCHANGED ttftVars
    BY <2>1 DEF ttftVars, TtftInv, CacheOK, PercentileIsRecent
  <2>2. ASSUME NEW d \in Durations, ObserveTTFT(d) PROVE TtftInv'
    BY <2>2, ObserveInv
  <2>3. CASE TTFTp90
    BY <2>3, ReadInv
  <2>4. CASE TtftTick
    BY <2>4, TtftTickInv
  <2>5. QED
    BY <2>1, <2>2, <2>3, <2>4 DEF TtftNext
<1>2. TtftInv => PercentileIsRecent
  BY DEF TtftInv
<1>3. QED
  BY <1>1, <1>2, TtftInitInv, PTL DEF TtftSpec
=============================================================================
